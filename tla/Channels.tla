------------------------------ MODULE Channels ------------------------------
(***************************************************************************)
(* An application and one channel of any of the drivers of FdChannel and   *)
(* MfioChannel.  The application reads and writes at the same time, from   *)
(* one thread: it asks for data, polls and acquires, and gives the buffer  *)
(* back; it acquires a buffer, fills and hands over a vector, polls until  *)
(* it is written and releases.  It does not touch a buffer it has handed   *)
(* over, and (unless Persistent) stops reading at the first refusal.       *)
(***************************************************************************)
EXTENDS MfioChannel

(***************************************************************************)
(* The driver's vtable.                                                    *)
(***************************************************************************)
read_request(req) ==
    \/ driver = "tcp"  /\ tcp_read_request(req)
    \/ driver = "udp"  /\ udp_read_request(req)
    \/ driver = "fio"  /\ fio_read_request(req)
    \/ driver = "ttt"  /\ ttt_read_request(req)
    \/ driver = "mfio" /\ mfio_read_request(req)

read_ready(err) ==
    \/ driver = "tcp"  /\ tcp_read_ready(err)
    \/ driver = "udp"  /\ udp_read_ready(err)
    \/ driver = "fio"  /\ fio_read_ready(err)
    \/ driver = "ttt"  /\ ttt_read_ready(err)
    \/ driver = "mfio" /\ mfio_read_ready(err)

read_acquire(err) ==
    \/ driver = "tcp"  /\ tcp_read_acquire(err)
    \/ driver = "udp"  /\ udp_read_acquire(err)
    \/ driver = "fio"  /\ fio_read_acquire(err)
    \/ driver = "ttt"  /\ ttt_read_acquire(err)
    \/ driver = "mfio" /\ mfio_read_acquire(err)

read_release ==
    \/ driver = "tcp"  /\ tcp_read_release
    \/ driver = "udp"  /\ udp_read_release
    \/ driver = "fio"  /\ fio_read_release
    \/ driver = "ttt"  /\ ttt_read_release
    \/ driver = "mfio" /\ mfio_read_release

write_acquire(err) ==
    \/ driver = "tcp"  /\ err = "ENOERROR" /\ tcp_write_acquire
    \/ driver = "udp"  /\ err = "ENOERROR" /\ udp_write_acquire
    \/ driver = "fio"  /\ err = "ENOERROR" /\ fio_write_acquire
    \/ driver = "ttt"  /\ err = "ENOERROR" /\ ttt_write_acquire
    \/ driver = "mfio" /\ mfio_write_acquire(err)

write_request(vec) ==
    \/ driver = "tcp"  /\ tcp_write_request(vec)
    \/ driver = "udp"  /\ udp_write_request(vec)
    \/ driver = "fio"  /\ fio_write_request(vec)
    \/ driver = "ttt"  /\ ttt_write_request(vec)
    \/ driver = "mfio" /\ mfio_write_request(vec)

write_ready(err) ==
    \/ driver = "tcp"  /\ tcp_write_ready(err)
    \/ driver = "udp"  /\ udp_write_ready(err)
    \/ driver = "fio"  /\ fio_write_ready(err)
    \/ driver = "ttt"  /\ ttt_write_ready(err)
    \/ driver = "mfio" /\ mfio_write_ready(err)

write_release ==
    \/ driver = "tcp"  /\ tcp_write_release
    \/ driver = "udp"  /\ udp_write_release
    \/ driver = "fio"  /\ fio_write_release
    \/ driver = "ttt"  /\ ttt_write_release
    \/ driver = "mfio" /\ mfio_write_release

(***************************************************************************)
(* The application                                                         *)
(***************************************************************************)
Answers == Errors \cup {"EREADY", "ENOTREADY"}

\* What it makes of an answer: a refusal ends its reading.
Refusal(err) == ~Persistent /\ err \in {"EINVALID", "ECLOSED", "ENOBUFFS", "EBUFFINUSE"}

request_read == \E req \in Requests :
    /\ ~reader.failed /\ ~reader.holds
    /\ read_request(req)
    /\ UNCHANGED <<driver, reader, consumed, delivered, writeVars>>

poll_read == \E err \in Answers :
    /\ ~reader.failed /\ ~reader.holds
    /\ read_ready(err)
    /\ reader' = [reader EXCEPT !.failed = Refusal(err)]
    /\ UNCHANGED <<driver, delivered, writeVars>>

\* An empty buffer means the end, when there was room for a byte.
acquire_read == \E err \in Answers :
    /\ ~reader.failed /\ ~reader.holds
    /\ read_acquire(err)
    /\ IF err = "ENOERROR"
       THEN /\ delivered' = delivered \o rd'.data
            /\ reader' = [reader EXCEPT !.holds = TRUE,
                                        !.eof = @ \/ (rd'.data = <<>> /\ Room > 0)]
       ELSE /\ reader' = [reader EXCEPT !.failed = Refusal(err)]
            /\ UNCHANGED delivered
    /\ UNCHANGED <<driver, writeVars>>

release_read ==
    /\ reader.holds
    /\ read_release
    /\ reader' = [reader EXCEPT !.holds = FALSE]
    /\ UNCHANGED <<driver, consumed, delivered, writeVars>>

acquire_write == \E err \in Answers :
    /\ ~holds /\ write_acquire(err)
    /\ holds' = (err = "ENOERROR")
    /\ UNCHANGED <<driver, readVars, filled, wire>>

\* It writes the next n bytes into b, where data_start points; of a ttt buffer,
\* whose header acquire leaves alone, it sets both.
Fill(b, n, first) ==
    LET start == IF driver = "ttt" THEN 0 ELSE buff[b].start
    IN  [start |-> start, len |-> n,
         mem |-> [o \in DOMAIN buff[b].mem |->
                    IF o \in start..start + n - 1 THEN first + (o - start) + 1
                    ELSE buff[b].mem[o]]]

submit == \E vec \in Vectors : \E n \in [1..Len(vec) -> 1..BuffSz] :
    LET Nth(b)    == CHOOSE k \in 1..Len(vec) : vec[k] = b
        Before(k) == IF k = 1 THEN 0 ELSE n[1]
        total     == Before(Len(vec)) + n[Len(vec)]
    IN  /\ "own" \in ToSet(vec) => holds
        /\ filled + total <= MaxOut
        /\ write_request(vec)
        /\ buff' = [b \in Buffers |-> IF b \notin ToSet(vec) THEN buff[b]
                       ELSE Fill(b, n[Nth(b)], filled + Before(Nth(b)))]
        /\ filled' = filled + total
        /\ UNCHANGED <<driver, readVars, holds, wire>>

poll_write == \E err \in Answers :
    /\ write_ready(err)
    /\ UNCHANGED <<driver, readVars, holds, filled>>

release_write ==
    /\ holds /\ ~(wr.registered /\ "own" \in ToSet(wr.req))
    /\ write_release
    /\ holds' = FALSE
    /\ UNCHANGED <<driver, readVars, buff, filled, wire>>

Next ==
    \/ request_read \/ poll_read \/ acquire_read \/ release_read
    \/ acquire_write \/ submit \/ poll_write \/ release_write

Spec == Init /\ [][Next]_vars

\* The application keeps polling for its write, and a descriptor that would
\* block or fails now takes something in the end.
FairSpec == Spec /\ WF_vars(poll_write /\ wire' # wire)

-----------------------------------------------------------------------------
Headers == [start : Int, len : Nat, mem : [0..MaxOut + BuffSz -> 0..MaxOut]]
Pools   == [buffer_count : {1}, alloc_tail_idx : {0}, alloc_count : 0..1,
            in_use : [{0} -> BOOLEAN]]

\* Every variable keeps its type; both pools stay within their one buffer.
TypeOK ==
    /\ driver \in Drivers
    /\ rd \in [pool : Pools, buffer : {NULL, 0}, registered : BOOLEAN,
              req : ReadRequests, ready : BOOLEAN, closed : BOOLEAN,
              start : NULL..MaxIn + BuffSz, data : Seq(1..MaxIn)]
    /\ wr \in [pool : Pools, registered : BOOLEAN, req : Seq(Buffers),
              acquired : BOOLEAN, closed : BOOLEAN]
    /\ buff \in [Buffers -> Headers]
    /\ reader \in [holds : BOOLEAN, failed : BOOLEAN, eof : BOOLEAN]
    /\ holds \in BOOLEAN
    /\ consumed \in 0..MaxIn /\ filled \in 0..MaxOut
    /\ delivered \in Seq(1..MaxIn) /\ wire \in Seq(0..MaxOut)

\* A pool's accounts agree with each other and with who has the buffer: the
\* read buffer is in use exactly while the channel remembers it (so a peek
\* never finds the pool exhausted), the write buffer exactly while the
\* application holds it, and a read buffer is held only for a request.
InUse(pool, used) == pool.in_use[0] = used /\ pool.alloc_count = (IF used THEN 1 ELSE 0)

PoolAccounting ==
    /\ InUse(rd.pool, rd.buffer # NULL)
    /\ InUse(wr.pool, driver # "mfio" /\ holds)
    /\ reader.holds => rd.registered
    /\ reader.holds /\ driver # "mfio" => rd.buffer # NULL

\* What was read but not yet handed to the application.
Waiting == IF rd.registered /\ ~reader.holds /\ (rd.buffer # NULL \/ rd.ready)
           THEN rd.data ELSE <<>>

\* The application gets the bytes of a stream in order, each once and none
\* left out, across polls, failed reads, retries and releases; of datagrams
\* it may miss the ends, but nothing is repeated or reordered.
ReadsInOrder ==
    /\ ~reader.failed /\ driver # "udp" => delivered \o Waiting = Bytes(0, consumed)
    /\ \A j, k \in 1..Len(delivered) : j < k => delivered[j] < delivered[k]

\* An application that takes an empty buffer for the end of a stream does not
\* stop before all of it was delivered.
EndIsTheEnd == reader.eof /\ driver # "udp" => Len(delivered) = MaxIn

\* The descriptor gets the bytes in the order in which the application handed
\* them over, through partial writes and retries; a write that is no longer
\* registered is there completely.
WritesInOrder ==
    /\ wire = Bytes(0, Len(wire))
    /\ ~wr.registered => Len(wire) = filled

\* A read() never gets more room than the buffer has, and what the application
\* is given to write into lies within the buffer.  Left out are what breaks
\* this: ttt with a read of ANY size, and mfio, whose second write leaves a
\* length that does not count the first.
InBounds ==
    /\ driver \in {"tcp", "udp", "fio"} => rd.start + Len(rd.data) <= BuffSz
    /\ driver \in {"tcp", "udp", "fio"} /\ holds =>
         buff["own"].start + buff["own"].len <= BuffSz

\* Every write that was accepted is completed, except one that mfio can only
\* refuse again and again.
WriteCompletes ==
    wr.registered /\ ~(driver = "mfio" /\ wr.req # <<"own">>) ~> ~wr.registered
==============================================================================
