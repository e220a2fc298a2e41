------------------------------ MODULE FdChannel ------------------------------
(***************************************************************************)
(* The channels over file descriptors: tcp, udp, fio (files, and stdio     *)
(* through it) and ttt (src/drivers/<name>/<name>_channel.c).  They share  *)
(* one shape -- at most one read request and one write request at a time,  *)
(* a pool of one buffer for each direction, all system calls non-blocking  *)
(* -- and differ in where they check a request, in what a write leaves in  *)
(* the buffer header, and in the system calls.  Each driver has its own    *)
(* operators, composed of the shared ones in that driver's order.          *)
(*                                                                         *)
(* The bytes that come in are numbered 1, 2, ... in the order in which     *)
(* the source sends them, and so are the bytes that the application writes *)
(* out.  One thread uses the channel: an operator that ends in err is a    *)
(* call that returns err.  A call that is refused without changing         *)
(* anything (no registered request, a second request, a wrong pointer or   *)
(* parent) is a stutter.                                                   *)
(***************************************************************************)
EXTENDS LinearPool, Sequences, SequencesExt

CONSTANTS
    Drivers,        \* the drivers of a run
    BuffSz,         \* rd_buff_sz and wr_buff_sz
    MaxIn, MaxOut,  \* bounds: bytes that arrive, bytes that are written
    Requests,       \* the read requests that the application makes
    Vectors,        \* the vectors of buffers that it hands over for writing
    Persistent      \* it polls again after an error

ANY  == -1          \* CAMIO_READ_REQ_SIZE_ANY
NONE == -1          \* CAMIO_READ_REQ_SRC_OFFSET_NONE
NULL == -1          \* no buffer, no address

ReadRequests == [src : {NONE, 0}, dst : 0..BuffSz + 1, size : ANY..BuffSz + 1]
Buffers      == {"own", "foreign"}  \* the channel's own, another channel's

ASSUME FdAssumption ==
    /\ Drivers \subseteq {"tcp", "udp", "fio", "ttt", "mfio"}
    /\ BuffSz \in Nat \ {0} /\ MaxIn \in Nat /\ MaxOut \in Nat
    /\ Requests \subseteq ReadRequests
    /\ Vectors \subseteq {<<b>> : b \in Buffers} \cup {<<"own", "foreign">>}
    /\ Persistent \in BOOLEAN

VARIABLES
    driver,
    rd,         \* the read half of the private structure, and rd_buffer's data
    wr,         \* the write half
    buff,       \* the headers and the memory of the buffers to write from
    \* The environment: the application, and the two ends of the descriptor.
    reader,     \* holds the buffer; gave up after an error; saw the end
    holds,      \* the writing application has the channel's write buffer
    consumed,   \* bytes that read() has taken off the source
    delivered,  \* bytes that the application has been given
    filled,     \* bytes that it has handed over
    wire        \* bytes that write() has taken

readVars  == <<rd, reader, consumed, delivered>>
writeVars == <<wr, buff, holds, filled, wire>>
vars      == <<driver, readVars, writeVars>>

Lesser(a, b) == IF a < b THEN a ELSE b
Bytes(m, n)  == [k \in 1..n |-> m + k]      \* the n bytes after byte m

Errors == {"ENOERROR", "ETRYAGAIN", "ECHECKERRORNO", "EINVALID", "ECLOSED",
           "ENOBUFFS", "EBUFFINUSE", "ETOOMANY"}

Init ==
    /\ driver \in Drivers
    /\ rd = [pool |-> buffer_malloc_linear_new(1), buffer |-> NULL,
             registered |-> FALSE, req |-> [src |-> NONE, dst |-> 0, size |-> ANY],
             ready |-> FALSE, closed |-> FALSE, start |-> 0, data |-> <<>>]
    /\ wr = [pool |-> buffer_malloc_linear_new(1), registered |-> FALSE,
             req |-> <<>>, acquired |-> FALSE, closed |-> FALSE]
    /\ buff = [b \in Buffers |->
                 [start |-> 0, len |-> IF driver = "mfio" THEN MaxIn ELSE 0,
                  mem |-> [o \in 0..MaxOut + BuffSz |-> 0]]]
    /\ reader = [holds |-> FALSE, failed |-> FALSE, eof |-> FALSE]
    /\ holds = FALSE
    /\ consumed = 0 /\ delivered = <<>> /\ filled = 0 /\ wire = <<>>

(***************************************************************************)
(* Reading                                                                 *)
(***************************************************************************)

\* The channel after a successful acquire of the read buffer.
Acquired == [rd EXCEPT !.pool = acquire(rd.pool), !.buffer = HeadIdx(rd.pool)]

\* Mutants: the buffer is given back twice; it is forgotten but not given back.
GivenBackTwice ==
    [rd EXCEPT !.pool = release(release(acquire(rd.pool), HeadIdx(rd.pool)), 0),
               !.buffer = NULL]
NotGivenBack == [rd EXCEPT !.pool = acquire(rd.pool), !.buffer = NULL]

\* read() said -1: the buffer goes back to the pool.
GivenBack == [rd EXCEPT !.pool = release(acquire(rd.pool), HeadIdx(rd.pool)),
                        !.buffer = NULL]

\* How much may be read: what the hint asks for, within the buffer.
Clipped(size) == IF size = ANY \/ size > BuffSz THEN BuffSz ELSE size

\* Mutant: the offset into the buffer is not taken off its size.
RoomIgnoringOffset == Clipped(rd.req.size)

Room == Lesser(BuffSz - rd.req.dst, Clipped(rd.req.size))

\* What read() can do with room for size bytes: fail, find nothing yet, or
\* take some of what is there.  Taking nothing means the end of the source.
stream_read(size) ==
    LET left == MaxIn - consumed
    IN  {[n |-> n, took |-> n] :
            n \in IF Lesser(size, left) = 0 THEN {0} ELSE 1..Lesser(size, left)}

\* A datagram is taken whole, and what has no room in the buffer is lost.
datagram_read(size) ==
    {[n |-> Lesser(size, d), took |-> d] : d \in 0..Lesser(BuffSz + 1, MaxIn - consumed)}

\* The part of every read_peek from the call of read() on.
ReadInto(calls, err) ==
    \/ /\ err \in {"ETRYAGAIN", "ECHECKERRORNO"}
       /\ rd' = GivenBack
       /\ UNCHANGED consumed
    \/ /\ err = "ENOERROR"
       /\ \E call \in calls :
            /\ rd' = [Acquired EXCEPT !.start = rd.req.dst,
                                      !.data = Bytes(consumed, call.n)]
            /\ consumed' = consumed + call.took

\* The request is refused, but the buffer that was acquired stays.
RefusedInPeek(err) == err = "EINVALID" /\ rd' = Acquired /\ UNCHANGED consumed

\* Every read_peek acquires the buffer first; without one it only says so.
WithBuffer(rest, err) ==
    IF acquire_error(rd.pool) = "ENOERROR" THEN rest
    ELSE err = acquire_error(rd.pool) /\ UNCHANGED <<rd, consumed>>

tcp_read_peek(err) == WithBuffer(
    IF rd.req.src # NONE \/ rd.req.dst > BuffSz
    THEN RefusedInPeek(err)
    ELSE ReadInto(stream_read(Room), err), err)

udp_read_peek(err) == WithBuffer(
    IF rd.req.dst > BuffSz
    THEN RefusedInPeek(err)
    ELSE ReadInto(datagram_read(Room), err), err)

fio_read_peek(err) == WithBuffer(
    IF rd.req.src # NONE \/ rd.req.dst > BuffSz
    THEN RefusedInPeek(err)
    ELSE ReadInto(stream_read(Room), err), err)

\* Here ANY is no special case: it is the lesser, and as an unsigned length
\* lets read() take all there is, whatever the size of the buffer.
ttt_read_peek(err) ==
    LET room == BuffSz - Lesser(BuffSz, rd.req.dst)
        size == IF rd.req.size = 0 THEN room ELSE Lesser(room, rd.req.size)
    IN  WithBuffer(ReadInto(stream_read(IF size < 0 THEN MaxIn ELSE size), err), err)

\* read_ready: nobody asked, something is waiting, or have a look.
Polled(err) == CASE err = "ENOERROR"  -> "EREADY"
                 [] err = "ETRYAGAIN" -> "ENOTREADY"
                 [] OTHER             -> err

ReadReady(waiting, peek(_), err) ==
    \/ /\ ~rd.registered /\ err = "ENOTREADY"
       /\ UNCHANGED <<rd, consumed>>
    \/ /\ rd.registered /\ waiting /\ err = "EREADY"
       /\ UNCHANGED <<rd, consumed>>
    \/ /\ rd.registered /\ ~waiting
       /\ \E e \in {x \in Errors : Polled(x) = err} : peek(e)

tcp_read_ready(err) == ReadReady(rd.buffer # NULL, tcp_read_peek, err)
udp_read_ready(err) == ReadReady(rd.buffer # NULL, udp_read_peek, err)
fio_read_ready(err) == ReadReady(rd.buffer # NULL, fio_read_peek, err)
ttt_read_ready(err) == ReadReady(rd.buffer # NULL, ttt_read_peek, err)

Register(req) ==
    /\ ~rd.registered
    /\ rd' = [rd EXCEPT !.registered = TRUE, !.req = req]

tcp_read_request(req) == Register(req)

udp_read_request(req) ==
    /\ req.src = NONE /\ req.dst <= BuffSz
    /\ Register([req EXCEPT !.size = Lesser(BuffSz, @)])

fio_read_request(req) == Register(req)

ttt_read_request(req) ==
    /\ req.src = 0 /\ req.dst <= BuffSz
    /\ Register([req EXCEPT !.size = Lesser(BuffSz, @)])

\* read_acquire: what the next read_ready says, and the buffer if there is one.
ReadyErrors == (Errors \ {"ENOERROR", "ETRYAGAIN"}) \cup {"EREADY", "ENOTREADY"}
Fetched(err) == CASE err = "EREADY"    -> "ENOERROR"
                  [] err = "ENOTREADY" -> "ETRYAGAIN"
                  [] OTHER             -> err

ReadAcquire(ready(_), err) ==
    \E e \in {x \in ReadyErrors : Fetched(x) = err} : ready(e)

tcp_read_acquire(err) == ReadAcquire(tcp_read_ready, err)
udp_read_acquire(err) == ReadAcquire(udp_read_ready, err)
fio_read_acquire(err) == ReadAcquire(fio_read_ready, err)
ttt_read_acquire(err) == ReadAcquire(ttt_read_ready, err)

\* Mutant: the local reference to the buffer is not removed.
ReadReleaseKeeping ==
    rd' = [rd EXCEPT !.pool = release(rd.pool, rd.buffer), !.registered = FALSE]

ReadRelease ==
    /\ release_error(rd.pool, rd.buffer) = "ENOERROR"
    /\ rd' = [rd EXCEPT !.pool = release(rd.pool, rd.buffer),
                        !.buffer = NULL, !.registered = FALSE]

tcp_read_release == ReadRelease
udp_read_release == ReadRelease
fio_read_release == ReadRelease
ttt_read_release == ReadRelease

(***************************************************************************)
(* Writing                                                                 *)
(***************************************************************************)

WriteAcquire(header(_)) ==
    /\ acquire_error(wr.pool) = "ENOERROR"
    /\ wr' = [wr EXCEPT !.pool = acquire(wr.pool)]
    /\ buff' = [buff EXCEPT !["own"] = header(@)]

WholeBuffer(h) == [h EXCEPT !.start = 0, !.len = BuffSz]
SameHeader(h)  == h

tcp_write_acquire == WriteAcquire(WholeBuffer)
udp_write_acquire == WriteAcquire(WholeBuffer)
fio_write_acquire == WriteAcquire(WholeBuffer)
ttt_write_acquire == WriteAcquire(SameHeader)

RegisterWrite(vec) ==
    /\ ~wr.registered
    /\ wr' = [wr EXCEPT !.registered = TRUE, !.req = vec]

tcp_write_request(vec) == RegisterWrite(vec)
udp_write_request(vec) == RegisterWrite(vec)
fio_write_request(vec) == RegisterWrite(vec)
ttt_write_request(vec) == RegisterWrite(vec)

\* The data of a buffer, from data_start on.
Data(h) == [k \in 1..h.len |-> h.mem[h.start + k - 1]]

\* Mutant: a partial write is repeated from where it began.
AdvanceNot(h, k) == [h EXCEPT !.start = @ + 0 * k]

Advance(h, k) == [h EXCEPT !.start = @ + k, !.len = @ - k]

\* write_try goes through the vector from write_req_curr, which write_request
\* set to 0 and nothing moves: some records go out whole, then k bytes of the
\* next one, and then the descriptor would block or fail.
WriteTry(written(_), partial, err) ==
    \E whole \in 0..Len(wr.req) :
    \E k \in IF whole < Len(wr.req)
             THEN {j \in 0..BuffSz - 1 : j < buff[wr.req[whole + 1]].len /\ (j = 0 \/ partial)}
             ELSE {0} :
      LET gone == SubSeq(wr.req, 1, whole)
          next == IF whole < Len(wr.req) THEN {wr.req[whole + 1]} ELSE {}
      IN  /\ err \in IF next = {} THEN {"ENOERROR"}
                     ELSE IF k = 0 THEN {"ETRYAGAIN", "ECHECKERRORNO"} ELSE {"ETRYAGAIN"}
          /\ wire' = wire \o FlattenSeq([j \in 1..whole |-> Data(buff[gone[j]])])
                          \o (IF next = {} THEN <<>>
                              ELSE SubSeq(Data(buff[wr.req[whole + 1]]), 1, k))
          /\ buff' = [b \in Buffers |-> IF b \in ToSet(gone) THEN written(buff[b])
                                        ELSE IF b \in next THEN Advance(buff[b], k)
                                        ELSE buff[b]]
          /\ wr' = [wr EXCEPT !.registered = next # {}]

\* "Reset everything"; ttt instead leaves an empty rest behind.
Emptied(h) == Advance(h, h.len)

tcp_write_try(err) == WriteTry(WholeBuffer, TRUE, err)
udp_write_try(err) == WriteTry(WholeBuffer, FALSE, err)
fio_write_try(err) == WriteTry(WholeBuffer, TRUE, err)
ttt_write_try(err) == WriteTry(Emptied, TRUE, err)

WriteReady(try(_), err) ==
    /\ wr.registered
    /\ \E e \in {x \in Errors : Polled(x) = err} : try(e)

tcp_write_ready(err) == WriteReady(tcp_write_try, err)
udp_write_ready(err) == WriteReady(udp_write_try, err)
fio_write_ready(err) == WriteReady(fio_write_try, err)
ttt_write_ready(err) == WriteReady(ttt_write_try, err)

WriteRelease ==
    /\ release_error(wr.pool, 0) = "ENOERROR"
    /\ wr' = [wr EXCEPT !.pool = release(wr.pool, 0)]

tcp_write_release == WriteRelease
udp_write_release == WriteRelease
fio_write_release == WriteRelease
ttt_write_release == WriteRelease
==============================================================================
