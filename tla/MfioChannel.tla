----------------------------- MODULE MfioChannel -----------------------------
(***************************************************************************)
(* The memory-mapped file channel                                          *)
(* (src/drivers/memfileio/mfio_channel.c).  It has the interface and the   *)
(* request life cycle of the file-descriptor channels, but no pools: the   *)
(* application reads and writes windows of one mapping of MaxIn bytes.     *)
(* start is data_start as an offset into the mapping, and NULL once the    *)
(* direction is closed.  What is written is told apart by its number, not  *)
(* by the contents of the mapping, which the reading half shares.          *)
(***************************************************************************)
EXTENDS FdChannel

\* Mutant: the last byte is taken for the end.
AtEndEarly == rd.start >= MaxIn - 1

\* The end of the mapping, in both directions by the offset of the reading half.
AtEnd == rd.start >= MaxIn

mfio_read_close == [rd EXCEPT !.start = NULL, !.data = <<>>, !.closed = TRUE]

mfio_read_peek(err) ==
    LET asked == IF rd.req.size = ANY THEN MaxIn ELSE rd.req.size
        n     == Lesser(MaxIn - rd.start, asked)
    IN  IF rd.closed
        THEN err = "ECLOSED" /\ UNCHANGED <<rd, consumed>>
        ELSE IF rd.req.src # NONE \/ rd.req.dst # 0
        THEN err = "EINVALID" /\ UNCHANGED <<rd, consumed>>
        ELSE /\ err = "ENOERROR"
             /\ IF AtEnd
                THEN /\ rd' = [mfio_read_close EXCEPT !.ready = TRUE]
                     /\ UNCHANGED consumed
                ELSE /\ rd' = [rd EXCEPT !.ready = TRUE, !.data = Bytes(rd.start, n)]
                     /\ consumed' = rd.start + n

mfio_read_ready(err) == ReadReady(rd.ready, mfio_read_peek, err)

mfio_read_request(req) == Register(req)

mfio_read_acquire(err) == ReadAcquire(mfio_read_ready, err)

\* NULL plus a length of 0 stays NULL.
mfio_read_release ==
    rd' = [rd EXCEPT !.start = @ + Len(rd.data), !.registered = FALSE, !.ready = FALSE]

mfio_write_acquire(err) ==
    /\ ~wr.acquired
    /\ IF AtEnd \/ wr.closed
       THEN /\ err = "ECLOSED"
            /\ wr' = [wr EXCEPT !.closed = TRUE]
            /\ buff' = IF wr.closed THEN buff
                       ELSE [buff EXCEPT !["own"].start = NULL, !["own"].len = 0]
       ELSE /\ err = "ENOERROR"
            /\ wr' = [wr EXCEPT !.acquired = TRUE]
            /\ UNCHANGED buff

mfio_write_request(vec) == Len(vec) = 1 /\ RegisterWrite(vec)

\* Mutant: the wrong buffers are refused.
NotOurs(b) == b # "foreign"

NotMine(b) == b # "own"

\* Moves past what the application wrote.  The new length does not count what
\* earlier writes have moved past.
mfio_write_try(err) ==
    LET b == wr.req[1]
    IN  IF NotMine(b)
        THEN err = "EINVALID" /\ UNCHANGED <<wr, buff, wire>>
        ELSE IF buff[b].len > MaxIn
        THEN err = "ETOOMANY" /\ UNCHANGED <<wr, buff, wire>>
        ELSE /\ err = "ENOERROR"
             /\ wire' = wire \o Data(buff[b])
             /\ buff' = [buff EXCEPT ![b].start = @ + buff[b].len,
                                     ![b].len = MaxIn - @]
             /\ wr' = [wr EXCEPT !.registered = FALSE]

mfio_write_ready(err) == WriteReady(mfio_write_try, err)

mfio_write_release == wr' = [wr EXCEPT !.acquired = FALSE]
==============================================================================
