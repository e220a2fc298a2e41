--------------------------- MODULE ChannelsProof ---------------------------
(***************************************************************************)
(* What is proved of Channels, for every size of the buffers, every        *)
(* stream, every kind of request and every failure of the descriptor.      *)
(* First the two pools, whose accounts are right also for applications     *)
(* that go on after an error: the invariant is inductive once it says      *)
(* which pool each half has.  Then the reading half: ReadInv says where    *)
(* the bytes are that read() has taken, and Stream what the application    *)
(* has got of them.  Then the writing half: WriteShape says which part of  *)
(* its buffer each header describes, and Written what of it is still to    *)
(* go out.  From these follow the properties of Channels.                  *)
(***************************************************************************)
EXTENDS Channels, SequenceTheorems, TLAPS

(***************************************************************************)
(* The pool of one buffer that every channel has for each direction.       *)
(***************************************************************************)
PoolIs(pool, used) ==
    /\ pool = [buffer_count |-> pool.buffer_count, alloc_tail_idx |-> pool.alloc_tail_idx,
               alloc_count |-> pool.alloc_count, in_use |-> pool.in_use]
    /\ pool.buffer_count = 1 /\ pool.alloc_tail_idx = 0
    /\ pool.alloc_count = (IF used THEN 1 ELSE 0)
    /\ pool.in_use = [b \in {0} |-> used]

\* A new pool is one with a free buffer (buffer_malloc_linear_new).
LEMMA NewPool == PoolIs(buffer_malloc_linear_new(1), FALSE)
<1>1. 0..1 - 1 = {0}
  OBVIOUS
<1> QED
  BY <1>1 DEF buffer_malloc_linear_new, PoolIs

\* A free buffer can be acquired, and is in use afterwards
\* (buffer_malloc_linear_acquire).
LEMMA AcquireFree ==
    ASSUME NEW pool, PoolIs(pool, FALSE)
    PROVE  /\ HeadIdx(pool) = 0
           /\ acquire_error(pool) = "ENOERROR"
           /\ PoolIs(acquire(pool), TRUE)
<1>1. HeadIdx(pool) = 0
  BY DEF HeadIdx, PoolIs
<1>2. acquire_error(pool) = "ENOERROR"
  BY <1>1 DEF acquire_error, PoolIs
<1>3. acquire(pool) = [pool EXCEPT !.in_use[0] = TRUE, !.alloc_count = @ + 1]
  BY <1>1, <1>2 DEF acquire
<1>4. PoolIs(acquire(pool), TRUE)
  <2> DEFINE new == acquire(pool)
  <2>1. new = [buffer_count |-> new.buffer_count, alloc_tail_idx |-> new.alloc_tail_idx,
               alloc_count |-> new.alloc_count, in_use |-> new.in_use]
    BY <1>3 DEF PoolIs
  <2>2. new.buffer_count = 1 /\ new.alloc_tail_idx = 0 /\ new.alloc_count = 1
    BY <1>3 DEF PoolIs
  <2>3. new.in_use = [b \in {0} |-> TRUE]
    BY <1>3 DEF PoolIs
  <2> QED
    BY <2>1, <2>2, <2>3 DEF PoolIs
<1> QED
  BY <1>1, <1>2, <1>4

\* One that is in use cannot be acquired.
LEMMA AcquireUsed ==
    ASSUME NEW pool, PoolIs(pool, TRUE)
    PROVE  acquire_error(pool) = "ENOBUFFS"
BY DEF acquire_error, PoolIs

\* A buffer that is in use can be released by its id, and is free afterwards
\* (buffer_malloc_linear_release).
LEMMA ReleaseUsed ==
    ASSUME NEW pool, PoolIs(pool, TRUE)
    PROVE  PoolIs(release(pool, 0), FALSE)
<1>1. release_error(pool, 0) = "ENOERROR"
  BY DEF release_error, PoolIs
<1>2. (pool.alloc_tail_idx + 1) % pool.buffer_count = 0 /\ pool.alloc_tail_idx = 0
  BY DEF PoolIs
<1>3. release(pool, 0) = [pool EXCEPT !.in_use[0] = FALSE, !.alloc_count = @ - 1,
                                      !.alloc_tail_idx = 0]
  BY <1>1, <1>2 DEF release
<1>4. PICK new : new = release(pool, 0)
  OBVIOUS
<1>5. new = [pool EXCEPT !.in_use[0] = FALSE, !.alloc_count = @ - 1, !.alloc_tail_idx = 0]
  BY <1>3, <1>4
<1>6. new = [buffer_count |-> new.buffer_count, alloc_tail_idx |-> new.alloc_tail_idx,
             alloc_count |-> new.alloc_count, in_use |-> new.in_use]
  BY <1>5 DEF PoolIs
<1>7. new.buffer_count = 1 /\ new.alloc_tail_idx = 0 /\ new.alloc_count = 0
  BY <1>5 DEF PoolIs
<1>8. new.in_use = [b \in {0} |-> FALSE]
  BY <1>5 DEF PoolIs
<1> QED
  BY <1>4, <1>6, <1>7, <1>8 DEF PoolIs

\* It can be released by nothing else.
LEMMA ReleaseError ==
    ASSUME NEW pool, NEW used \in BOOLEAN, PoolIs(pool, used), NEW id,
           release_error(pool, id) = "ENOERROR"
    PROVE  id = 0
BY DEF release_error, PoolIs

(***************************************************************************)
(* The inductive invariant.                                                *)
(***************************************************************************)
RdRecord ==
    rd = [pool |-> rd.pool, buffer |-> rd.buffer, registered |-> rd.registered,
          req |-> rd.req, ready |-> rd.ready, closed |-> rd.closed,
          start |-> rd.start, data |-> rd.data]

WrRecord ==
    wr = [pool |-> wr.pool, registered |-> wr.registered, req |-> wr.req,
          acquired |-> wr.acquired, closed |-> wr.closed]

ReadPool ==
    /\ RdRecord
    /\ rd.buffer \in {NULL, 0}
    /\ PoolIs(rd.pool, rd.buffer # NULL)

WritePool ==
    /\ WrRecord
    /\ holds \in BOOLEAN
    /\ PoolIs(wr.pool, driver # "mfio" /\ holds)

Holder ==
    /\ reader = [holds |-> reader.holds, failed |-> reader.failed, eof |-> reader.eof]
    /\ reader.holds \in BOOLEAN
    /\ reader.holds => rd.registered
    /\ reader.holds /\ driver # "mfio" => rd.buffer # NULL

PoolInv == ReadPool /\ WritePool /\ Holder

\* With the right pools, the accounts are right.
LEMMA InvImpliesAccounting == PoolInv => PoolAccounting
<1> SUFFICES ASSUME PoolInv PROVE PoolAccounting
  OBVIOUS
<1>1. InUse(rd.pool, rd.buffer # NULL)
  BY DEF PoolInv, ReadPool, InUse, PoolIs
<1>2. InUse(wr.pool, driver # "mfio" /\ holds)
  BY DEF PoolInv, WritePool, InUse, PoolIs
<1> QED
  BY <1>1, <1>2 DEF PoolInv, Holder, PoolAccounting

\* A new channel has two free buffers.
LEMMA InvInit == Init => PoolInv
<1> SUFFICES ASSUME Init PROVE PoolInv
  OBVIOUS
<1>1. ReadPool
  BY NewPool DEF Init, ReadPool, RdRecord, NULL
<1>2. WritePool
  BY NewPool DEF Init, WritePool, WrRecord
<1>3. Holder
  BY DEF Init, Holder
<1> QED
  BY <1>1, <1>2, <1>3 DEF PoolInv

(***************************************************************************)
(* Reading.                                                                *)
(***************************************************************************)
\* The two things that a poll makes of a free pool.
LEMMA AcquiredPool ==
    ASSUME ReadPool, rd.buffer = NULL
    PROVE  /\ PoolIs(Acquired.pool, TRUE) /\ Acquired.buffer = 0
           /\ PoolIs(GivenBack.pool, FALSE) /\ GivenBack.buffer = NULL
<1>1. PoolIs(rd.pool, FALSE)
  BY DEF ReadPool
<1>2. HeadIdx(rd.pool) = 0 /\ PoolIs(acquire(rd.pool), TRUE)
  BY <1>1, AcquireFree
<1>3. PoolIs(release(acquire(rd.pool), 0), FALSE)
  BY <1>2, ReleaseUsed
<1>4. Acquired.pool = acquire(rd.pool) /\ Acquired.buffer = 0
  BY <1>2 DEF Acquired, ReadPool, RdRecord
<1>5. GivenBack.pool = release(acquire(rd.pool), 0) /\ GivenBack.buffer = NULL
  BY <1>2 DEF GivenBack, ReadPool, RdRecord
<1> QED
  BY <1>2, <1>3, <1>4, <1>5

\* What a poll does to the reading half: it never touches the request.
Polling(err) ==
    /\ ReadPool'
    /\ rd'.registered = rd.registered
    /\ err = "EREADY" => rd.registered
    /\ err = "EREADY" /\ driver # "mfio" => rd'.buffer # NULL

\* What a peek does, when it says err.
Peeked(err) ==
    /\ ReadPool'
    /\ rd'.registered = rd.registered
    /\ err = "ENOERROR" => rd'.buffer # NULL

\* A step that leaves the reading half as it is keeps its pool.
LEMMA SameReadPool == ASSUME ReadPool, rd' = rd PROVE ReadPool'
BY DEF ReadPool, RdRecord

\* A successful acquire is remembered in rd_buffer.
LEMMA AcquiredRead ==
    ASSUME ReadPool, rd.buffer = NULL, rd' = Acquired
    PROVE  ReadPool' /\ rd'.registered = rd.registered /\ rd'.buffer # NULL
<1>1. PoolIs(rd'.pool, TRUE) /\ rd'.buffer = 0
  BY AcquiredPool
<1>2. RdRecord' /\ rd'.registered = rd.registered
  BY DEF ReadPool, RdRecord, Acquired
<1>3. (rd'.buffer # NULL) = TRUE
  BY <1>1 DEF NULL
<1> QED
  BY <1>1, <1>2, <1>3 DEF ReadPool

\* From the call of read() on, in all drivers.
LEMMA ReadIntoPool ==
    ASSUME ReadPool, rd.buffer = NULL, NEW calls, NEW err, ReadInto(calls, err)
    PROVE  Peeked(err)
<1>1. CASE err \in {"ETRYAGAIN", "ECHECKERRORNO"} /\ rd' = GivenBack
  <2>1. PoolIs(rd'.pool, FALSE) /\ rd'.buffer = NULL
    BY <1>1, AcquiredPool
  <2>2. RdRecord' /\ rd'.registered = rd.registered
    BY <1>1 DEF ReadPool, RdRecord, GivenBack
  <2> QED
    BY <1>1, <2>1, <2>2 DEF Peeked, ReadPool
<1>2. ASSUME NEW start, NEW data, rd' = [Acquired EXCEPT !.start = start, !.data = data]
      PROVE  Peeked(err)
  <2>1. PICK a : a = Acquired
    OBVIOUS
  <2>2. /\ a = [pool |-> a.pool, buffer |-> a.buffer, registered |-> a.registered,
                req |-> a.req, ready |-> a.ready, closed |-> a.closed,
                start |-> a.start, data |-> a.data]
        /\ a.registered = rd.registered
    BY <2>1 DEF ReadPool, RdRecord, Acquired
  <2>3. rd' = [a EXCEPT !.start = start, !.data = data]
    BY <1>2, <2>1
  <2>4. rd'.pool = a.pool /\ rd'.buffer = a.buffer /\ rd'.registered = rd.registered
    BY <2>2, <2>3
  <2>5. RdRecord'
    BY <2>2, <2>3 DEF RdRecord
  <2>6. PoolIs(rd'.pool, TRUE) /\ rd'.buffer = 0
    BY <2>1, <2>4, AcquiredPool
  <2>7. (rd'.buffer # NULL) = TRUE
    BY <2>6 DEF NULL
  <2> QED
    BY <2>4, <2>5, <2>6, <2>7 DEF Peeked, ReadPool
<1> QED
  BY <1>1, <1>2 DEF ReadInto

\* The peeks of the drivers with a descriptor.  With a free pool the buffer is
\* always there, so the peek is never cut short by its acquire.
LEMMA PeekPool ==
    ASSUME ReadPool, rd.buffer = NULL, NEW err,
           \/ tcp_read_peek(err) \/ udp_read_peek(err)
           \/ fio_read_peek(err) \/ ttt_read_peek(err)
    PROVE  Peeked(err)
<1>1. acquire_error(rd.pool) = "ENOERROR"
  BY AcquireFree DEF ReadPool
<1>2. ASSUME RefusedInPeek(err) PROVE Peeked(err)
  BY <1>2, AcquiredRead DEF RefusedInPeek, Peeked
<1>3. CASE tcp_read_peek(err)
  BY <1>1, <1>2, <1>3, ReadIntoPool DEF tcp_read_peek, WithBuffer
<1>4. CASE udp_read_peek(err)
  BY <1>1, <1>2, <1>4, ReadIntoPool DEF udp_read_peek, WithBuffer
<1>5. CASE fio_read_peek(err)
  BY <1>1, <1>2, <1>5, ReadIntoPool DEF fio_read_peek, WithBuffer
<1>6. CASE ttt_read_peek(err)
  BY <1>1, <1>6, ReadIntoPool DEF ttt_read_peek, WithBuffer
<1> QED
  BY <1>3, <1>4, <1>5, <1>6

\* The memory-mapped file has no pool, and its buffer no number.
LEMMA MfioPeekPool ==
    ASSUME ReadPool, NEW err, mfio_read_peek(err)
    PROVE  ReadPool' /\ rd'.registered = rd.registered
<1>1. CASE rd' = rd
  BY <1>1, SameReadPool
<1>2. CASE rd' = [mfio_read_close EXCEPT !.ready = TRUE]
  BY <1>2 DEF mfio_read_close, ReadPool, RdRecord
<1>3. ASSUME NEW data, rd' = [rd EXCEPT !.ready = TRUE, !.data = data]
      PROVE  ReadPool' /\ rd'.registered = rd.registered
  BY <1>3 DEF ReadPool, RdRecord
<1> QED
  BY <1>1, <1>2, <1>3 DEF mfio_read_peek

\* What the answers of a peek are turned into.
LEMMA ReadyAnswer ==
    ASSUME NEW e \in Errors, Polled(e) = "EREADY"
    PROVE  e = "ENOERROR"
BY DEF Errors, Polled

\* Only EREADY makes read_acquire return a buffer.
LEMMA AcquireAnswer ==
    ASSUME NEW e \in ReadyErrors, Fetched(e) = "ENOERROR"
    PROVE  e = "EREADY"
BY DEF ReadyErrors, Errors, Fetched

\* read_ready, in every driver.
LEMMA ReadyPool ==
    ASSUME ReadPool, NEW err, read_ready(err)
    PROVE  Polling(err)
<1>1. CASE rd' = rd /\ err = "ENOTREADY"
  BY <1>1, SameReadPool DEF Polling
<1>2. CASE /\ rd' = rd /\ rd.registered
           /\ driver # "mfio" => rd.buffer # NULL
  BY <1>2, SameReadPool DEF Polling
<1>3. ASSUME rd.registered, rd.buffer = NULL, NEW e \in Errors, Polled(e) = err, Peeked(e)
      PROVE  Polling(err)
  BY <1>3, ReadyAnswer DEF Polling, Peeked
<1>4. CASE driver = "tcp" /\ tcp_read_ready(err)
  BY <1>1, <1>2, <1>3, <1>4, PeekPool DEF tcp_read_ready, ReadReady
<1>5. CASE driver = "udp" /\ udp_read_ready(err)
  BY <1>1, <1>2, <1>3, <1>5, PeekPool DEF udp_read_ready, ReadReady
<1>6. CASE driver = "fio" /\ fio_read_ready(err)
  BY <1>1, <1>2, <1>3, <1>6, PeekPool DEF fio_read_ready, ReadReady
<1>7. CASE driver = "ttt" /\ ttt_read_ready(err)
  BY <1>1, <1>2, <1>3, <1>7, PeekPool DEF ttt_read_ready, ReadReady
<1>8. CASE driver = "mfio" /\ mfio_read_ready(err)
  <2>1. CASE rd' = rd
    BY <1>1, <1>2, <1>8, <2>1 DEF mfio_read_ready, ReadReady
  <2>2. ASSUME rd.registered, NEW e \in Errors, mfio_read_peek(e)
        PROVE  Polling(err)
    BY <1>8, <2>2, MfioPeekPool DEF Polling
  <2> QED
    BY <1>8, <2>1, <2>2 DEF mfio_read_ready, ReadReady
<1> QED
  BY <1>4, <1>5, <1>6, <1>7, <1>8 DEF read_ready

\* read_acquire is read_ready, whose EREADY becomes ENOERROR.
LEMMA AcquirePool ==
    ASSUME ReadPool, NEW err, read_acquire(err)
    PROVE  /\ Polling("ENOTREADY")
           /\ err = "ENOERROR" => Polling("EREADY")
<1>1. ASSUME NEW e \in ReadyErrors, Fetched(e) = err, read_ready(e)
      PROVE  /\ Polling("ENOTREADY")
             /\ err = "ENOERROR" => Polling("EREADY")
  <2>1. Polling(e)
    BY <1>1, ReadyPool
  <2>2. Polling("ENOTREADY")
    BY <2>1 DEF Polling
  <2> QED
    BY <1>1, <2>1, <2>2, AcquireAnswer
<1>2. \E e \in {x \in ReadyErrors : Fetched(x) = err} : read_ready(e)
  BY DEF read_acquire, read_ready, ReadAcquire, tcp_read_acquire, udp_read_acquire,
         fio_read_acquire, ttt_read_acquire, mfio_read_acquire
<1> QED
  BY <1>1, <1>2

\* read_request only writes down what is asked for.
LEMMA RequestPool ==
    ASSUME ReadPool, NEW req, read_request(req)
    PROVE  ReadPool' /\ rd'.registered /\ rd'.buffer = rd.buffer
<1>1. ASSUME NEW r, Register(r)
      PROVE  ReadPool' /\ rd'.registered /\ rd'.buffer = rd.buffer
  BY <1>1 DEF Register, ReadPool, RdRecord
<1> QED
  BY <1>1 DEF read_request, tcp_read_request, udp_read_request, fio_read_request,
              ttt_read_request, mfio_read_request

\* read_release gives back the buffer that the channel remembers.
LEMMA ReleaseReadPool ==
    ASSUME ReadPool, read_release
    PROVE  ReadPool'
<1>1. CASE ReadRelease
  <2>1. rd.buffer = 0 /\ PoolIs(rd.pool, TRUE)
    <3>1. (rd.buffer # NULL) \in BOOLEAN
      OBVIOUS
    <3>2. rd.buffer = 0
      BY <1>1, <3>1, ReleaseError DEF ReadRelease, ReadPool
    <3>3. (rd.buffer # NULL) = TRUE
      BY <3>2 DEF NULL
    <3> QED
      BY <3>2, <3>3 DEF ReadPool
  <2>2. PoolIs(release(rd.pool, 0), FALSE)
    BY <2>1, ReleaseUsed
  <2>3. rd'.pool = release(rd.pool, 0) /\ rd'.buffer = NULL /\ RdRecord'
    BY <1>1, <2>1 DEF ReadRelease, ReadPool, RdRecord
  <2> QED
    BY <2>2, <2>3 DEF ReadPool
<1>2. CASE mfio_read_release
  BY <1>2 DEF mfio_read_release, ReadPool, RdRecord
<1> QED
  BY <1>1, <1>2 DEF read_release, tcp_read_release, udp_read_release,
                    fio_read_release, ttt_read_release

(***************************************************************************)
(* Writing.                                                                *)
(***************************************************************************)
\* write_acquire takes the buffer; the mapped file only says who has it.
LEMMA AcquireWritePool ==
    ASSUME WritePool, ~holds, NEW err, write_acquire(err),
           holds' = (err = "ENOERROR"), driver' = driver
    PROVE  WritePool'
<1>1. PoolIs(wr.pool, FALSE)
  BY DEF WritePool
<1>2. ASSUME NEW header(_), WriteAcquire(header), driver # "mfio", err = "ENOERROR"
      PROVE  WritePool'
  <2>1. wr'.pool = acquire(wr.pool) /\ WrRecord'
    BY <1>2 DEF WriteAcquire, WritePool, WrRecord
  <2>2. (driver' # "mfio" /\ holds') = TRUE
    BY <1>2
  <2> QED
    BY <1>1, <2>1, <2>2, AcquireFree DEF WritePool
<1>3. CASE driver = "mfio" /\ mfio_write_acquire(err)
  <2>1. wr'.pool = wr.pool /\ WrRecord'
    BY <1>3 DEF mfio_write_acquire, WritePool, WrRecord
  <2>2. (driver' # "mfio" /\ holds') = FALSE
    BY <1>3
  <2> QED
    BY <1>1, <2>1, <2>2 DEF WritePool
<1> QED
  BY <1>2, <1>3 DEF write_acquire, tcp_write_acquire, udp_write_acquire,
                    fio_write_acquire, ttt_write_acquire

\* A step that leaves the pool and its holder as they are.
LEMMA SameWritePool ==
    ASSUME WritePool, WrRecord', wr'.pool = wr.pool, holds' = holds, driver' = driver
    PROVE  WritePool'
BY DEF WritePool

\* write_request and write_ready leave the pool alone.
LEMMA WriteRequestPool ==
    ASSUME WrRecord, NEW vec, write_request(vec)
    PROVE  WrRecord' /\ wr'.pool = wr.pool
BY DEF write_request, tcp_write_request, udp_write_request, fio_write_request,
       ttt_write_request, mfio_write_request, RegisterWrite, WrRecord

\* write_ready marks the request as done, and touches nothing else of wr.
LEMMA WriteReadyPool ==
    ASSUME WrRecord, NEW err, write_ready(err)
    PROVE  WrRecord' /\ wr'.pool = wr.pool
<1>1. CASE wr' = wr
  BY <1>1 DEF WrRecord
<1>2. ASSUME NEW registered, wr' = [wr EXCEPT !.registered = registered]
      PROVE  WrRecord' /\ wr'.pool = wr.pool
  BY <1>2 DEF WrRecord
<1>3. CASE \E e \in Errors : \/ tcp_write_try(e) \/ udp_write_try(e)
                             \/ fio_write_try(e) \/ ttt_write_try(e)
  BY <1>2, <1>3 DEF tcp_write_try, udp_write_try, fio_write_try, ttt_write_try, WriteTry
<1>4. CASE \E e \in Errors : mfio_write_try(e)
  BY <1>1, <1>2, <1>4 DEF mfio_write_try
<1> QED
  BY <1>3, <1>4 DEF write_ready, tcp_write_ready, udp_write_ready, fio_write_ready,
                    ttt_write_ready, mfio_write_ready, WriteReady

\* write_release gives back the buffer that the application holds.
LEMMA ReleaseWritePool ==
    ASSUME WritePool, holds, write_release, holds' = FALSE, driver' = driver
    PROVE  WritePool'
<1>1. (driver' # "mfio" /\ holds') = FALSE
  OBVIOUS
<1>2. CASE driver # "mfio" /\ WriteRelease
  <2>1. PoolIs(wr.pool, TRUE)
    BY <1>2 DEF WritePool
  <2>2. wr'.pool = release(wr.pool, 0) /\ WrRecord'
    BY <1>2 DEF WriteRelease, WritePool, WrRecord
  <2> QED
    BY <1>1, <2>1, <2>2, ReleaseUsed DEF WritePool
<1>3. CASE driver = "mfio" /\ mfio_write_release
  <2>1. PoolIs(wr.pool, FALSE)
    BY <1>3 DEF WritePool
  <2>2. wr'.pool = wr.pool /\ WrRecord'
    BY <1>3 DEF mfio_write_release, WritePool, WrRecord
  <2> QED
    BY <1>1, <2>1, <2>2 DEF WritePool
<1> QED
  BY <1>2, <1>3 DEF write_release, tcp_write_release, udp_write_release,
                    fio_write_release, ttt_write_release

(***************************************************************************)
(* Every step of the application and the channel.                          *)
(***************************************************************************)
LEMMA SameRead ==
    ASSUME ReadPool, Holder, UNCHANGED <<driver, readVars>>
    PROVE  ReadPool' /\ Holder'
BY SameReadPool DEF readVars, Holder

\* A step of the reading half leaves the write pool as it is.
LEMMA SameWrite ==
    ASSUME WritePool, UNCHANGED <<driver, writeVars>>
    PROVE  WritePool'
BY DEF writeVars, WritePool, WrRecord

\* Every step keeps the pools.
LEMMA InvNext == PoolInv /\ [Next]_vars => PoolInv'
<1> SUFFICES ASSUME PoolInv, [Next]_vars PROVE PoolInv'
  OBVIOUS
<1> USE DEF PoolInv
<1>1. CASE request_read
  <2>1. PICK req : read_request(req)
    BY <1>1 DEF request_read
  <2>2. ReadPool'
    BY <2>1, RequestPool
  <2>3. Holder'
    BY <1>1 DEF request_read, Holder
  <2> QED
    BY <1>1, <2>2, <2>3, SameWrite DEF request_read
<1>2. CASE poll_read
  <2>1. PICK err : read_ready(err) /\ reader' = [reader EXCEPT !.failed = Refusal(err)]
    BY <1>2 DEF poll_read
  <2>2. ReadPool'
    BY <2>1, ReadyPool DEF Polling
  <2>3. Holder'
    BY <1>2, <2>1 DEF poll_read, Holder
  <2> QED
    BY <1>2, <2>2, <2>3, SameWrite DEF poll_read
<1>3. CASE acquire_read
  <2>1. PICK err : /\ read_acquire(err)
                   /\ \/ /\ err = "ENOERROR"
                         /\ reader' = [reader EXCEPT !.holds = TRUE,
                                         !.eof = @ \/ (rd'.data = <<>> /\ Room > 0)]
                      \/ reader' = [reader EXCEPT !.failed = Refusal(err)]
    BY <1>3 DEF acquire_read
  <2>2. ReadPool'
    BY <2>1, AcquirePool DEF Polling
  <2>3. Holder'
    <3>1. CASE /\ err = "ENOERROR"
               /\ reader' = [reader EXCEPT !.holds = TRUE,
                               !.eof = @ \/ (rd'.data = <<>> /\ Room > 0)]
      <4>1. rd'.registered /\ (driver # "mfio" => rd'.buffer # NULL)
        BY <2>1, <3>1, AcquirePool DEF Polling
      <4> QED
        BY <1>3, <3>1, <4>1 DEF acquire_read, Holder
    <3>2. CASE reader' = [reader EXCEPT !.failed = Refusal(err)]
      BY <1>3, <3>2 DEF acquire_read, Holder
    <3> QED
      BY <2>1, <3>1, <3>2
  <2> QED
    BY <1>3, <2>2, <2>3, SameWrite DEF acquire_read
<1>4. CASE release_read
  <2>1. ReadPool'
    BY <1>4, ReleaseReadPool DEF release_read
  <2>2. Holder'
    BY <1>4 DEF release_read, Holder
  <2> QED
    BY <1>4, <2>1, <2>2, SameWrite DEF release_read
<1>5. CASE acquire_write
  <2>1. PICK err : ~holds /\ write_acquire(err) /\ holds' = (err = "ENOERROR")
    BY <1>5 DEF acquire_write
  <2>2. WritePool'
    BY <1>5, <2>1, AcquireWritePool DEF acquire_write
  <2> QED
    BY <1>5, <2>2, SameRead DEF acquire_write
<1>6. CASE submit
  <2>1. PICK vec : write_request(vec)
    BY <1>6 DEF submit
  <2>2. WrRecord' /\ wr'.pool = wr.pool
    BY <2>1, WriteRequestPool DEF WritePool
  <2>3. UNCHANGED <<driver, readVars, holds>>
    BY <1>6 DEF submit
  <2> QED
    BY <2>2, <2>3, SameWritePool, SameRead
<1>7. CASE poll_write
  <2>1. PICK err : write_ready(err)
    BY <1>7 DEF poll_write
  <2>2. WrRecord' /\ wr'.pool = wr.pool
    BY <2>1, WriteReadyPool DEF WritePool
  <2> QED
    BY <1>7, <2>2, SameWritePool, SameRead DEF poll_write
<1>8. CASE release_write
  <2>1. WritePool'
    BY <1>8, ReleaseWritePool DEF release_write
  <2> QED
    BY <1>8, <2>1, SameRead DEF release_write
<1>9. CASE UNCHANGED vars
  BY <1>9, SameRead, SameWrite DEF vars
<1> QED
  BY <1>1, <1>2, <1>3, <1>4, <1>5, <1>6, <1>7, <1>8, <1>9 DEF Next

\* Both pools agree with who has their buffer, in every reachable state.
THEOREM PoolInvariant == Spec => []PoolInv
BY InvInit, InvNext, PTL DEF Spec

\* The accounts of both pools are right, for every buffer size, stream and set
\* of requests, and for applications that go on after errors: in particular no
\* poll ever finds the pool exhausted (tcp_read_peek and its copies).
THEOREM PoolsAccounted == Spec => []PoolAccounting
<1>1. PoolInv => PoolAccounting
  BY InvImpliesAccounting
<1> QED
  BY <1>1, PoolInvariant, PTL

(***************************************************************************)
(* What the channel reads and the application gets.                        *)
(***************************************************************************)
LEMMA BytesSeq ==
    ASSUME NEW m \in Nat, NEW n \in Nat
    PROVE  /\ Len(Bytes(m, n)) = n
           /\ \A k \in 1..n : Bytes(m, n)[k] = m + k
           /\ \A top \in Int : m + n <= top => Bytes(m, n) \in Seq(1..top)
           /\ n = 0 => Bytes(m, n) = <<>>
           /\ Bytes(m, n) = <<>> => n = 0
<1>1. Bytes(m, n) \in Seq(Nat) /\ Len(Bytes(m, n)) = n
  BY DEF Bytes
<1>2. \A k \in 1..n : Bytes(m, n)[k] = m + k
  BY DEF Bytes
<1>3. ASSUME NEW top \in Int, m + n <= top PROVE Bytes(m, n) \in Seq(1..top)
  <2>1. \A k \in 1..n : m + k \in 1..top
    BY <1>3
  <2> QED
    BY <2>1 DEF Bytes
<1>4. n = 0 => Bytes(m, n) = <<>>
  BY <1>1
<1>5. Bytes(m, n) = <<>> => n = 0
  BY <1>1
<1> QED
  BY <1>1, <1>2, <1>3, <1>4, <1>5

\* The bytes up to c and the n bytes after them.
LEMMA BytesConcat ==
    ASSUME NEW m \in Nat, NEW c \in Nat, NEW n \in Nat
    PROVE  Bytes(m, c) \o Bytes(m + c, n) = Bytes(m, c + n)
<1> DEFINE s == Bytes(m, c)
           t == Bytes(m + c, n)
           u == Bytes(m, c + n)
<1>1. s \in Seq(Nat) /\ t \in Seq(Nat) /\ u \in Seq(Nat)
  BY DEF Bytes
<1>2. Len(s) = c /\ Len(t) = n /\ Len(u) = c + n
  BY DEF Bytes
<1> HIDE DEF s, t, u
<1>3. s \o t \in Seq(Nat) /\ Len(s \o t) = c + n
  BY <1>1, <1>2, ConcatProperties
<1>4. ASSUME NEW k \in 1..c + n PROVE (s \o t)[k] = u[k]
  <2>1. u[k] = m + k
    BY DEF Bytes, u
  <2>2. (s \o t)[k] = IF k <= c THEN s[k] ELSE t[k - c]
    BY <1>1, <1>2, ConcatProperties
  <2>3. k <= c => s[k] = m + k
    BY DEF Bytes, s
  <2>4. ~(k <= c) => t[k - c] = m + k
    BY DEF Bytes, t
  <2> QED
    BY <2>1, <2>2, <2>3, <2>4
<1>5. s \o t = u
  BY <1>1, <1>2, <1>3, <1>4, SeqEqual
<1> QED
  BY <1>5 DEF s, t, u

\* The reading half and its counts have their types.
ReadTypes ==
    /\ rd.registered \in BOOLEAN /\ rd.ready \in BOOLEAN /\ rd.closed \in BOOLEAN
    /\ rd.req \in ReadRequests
    /\ rd.start \in NULL..MaxIn + BuffSz
    /\ rd.data \in Seq(1..MaxIn)
    /\ consumed \in 0..MaxIn

ReaderTypes ==
    /\ reader.failed \in BOOLEAN /\ reader.eof \in BOOLEAN
    /\ delivered \in Seq(1..MaxIn)
    /\ driver = "mfio" /\ reader.holds => rd.ready

\* Something is there to be acquired or released: a buffer, or in the mapped
\* file the flag.
Arrived == rd.buffer # NULL \/ rd.ready

Arrival ==
    /\ Arrived => rd.registered
    /\ driver = "mfio" => rd.buffer = NULL
    /\ driver # "mfio" => ~rd.ready

\* The window of the mapping ends where the last read has come to.
Mapping ==
    driver = "mfio" =>
        IF rd.closed THEN rd.start = NULL /\ rd.data = <<>> /\ consumed = MaxIn
        ELSE /\ rd.start \in 0..MaxIn
             /\ consumed = rd.start + (IF rd.ready THEN Len(rd.data) ELSE 0)

\* What read() has put into the buffer lies within it.
ReadBounds ==
    /\ driver = "ttt" => rd.req.dst <= BuffSz
    /\ driver # "mfio" =>
         /\ rd.start \in 0..BuffSz
         /\ driver # "ttt" => rd.start + Len(rd.data) <= BuffSz

ReadShape == ReadPool /\ ReadTypes /\ Arrival /\ Mapping /\ ReadBounds

\* s is what a reader of the first c bytes of the source may have got.
Increasing(s) == \A j, k \in 1..Len(s) : j < k => s[j] < s[k]

Far(s, c) ==
    /\ Increasing(s)
    /\ \A k \in 1..Len(s) : s[k] <= c
    /\ driver # "udp" => s = Bytes(0, c)

\* A buffer with nothing in it, although there was room, is the end.
AtTheEnd == (driver # "udp" /\ Arrived /\ rd.data = <<>> /\ Room > 0) => consumed = MaxIn

Stream ==
    /\ Increasing(delivered)
    /\ ~reader.failed => Far(delivered \o Waiting, consumed) /\ AtTheEnd
    /\ EndIsTheEnd

\* The n bytes after the first c are the next ones, for a reader of datagrams
\* also when some are lost after them.
LEMMA FarConcat ==
    ASSUME NEW s \in Seq(1..MaxIn), NEW c \in 0..MaxIn, NEW n \in Nat, NEW d \in Nat,
           Far(s, c), n <= d, c + d <= MaxIn, driver # "udp" => n = d
    PROVE  Far(s \o Bytes(c, n), c + d)
<1> DEFINE t == Bytes(c, n)
           u == s \o t
<1>1. MaxIn \in Nat
  BY FdAssumption
<1>2. t \in Seq(1..MaxIn) /\ Len(t) = n /\ \A k \in 1..n : t[k] = c + k
  <2>1. c \in Nat /\ c + n <= MaxIn /\ MaxIn \in Int
    BY <1>1
  <2> QED
    BY <2>1, BytesSeq
<1>3. Len(s) \in Nat /\ \A k \in 1..Len(s) : s[k] \in 1..MaxIn
  BY <1>1
<1>4. /\ u \in Seq(1..MaxIn) /\ Len(u) = Len(s) + n
      /\ \A k \in 1..Len(s) + n : u[k] = IF k <= Len(s) THEN s[k] ELSE t[k - Len(s)]
  BY <1>2, ConcatProperties
<1>5. \A k \in 1..Len(s) : u[k] = s[k] /\ u[k] \in Int /\ u[k] <= c
  BY <1>3, <1>4 DEF Far
<1>6. \A k \in Len(s) + 1..Len(s) + n : u[k] = c + (k - Len(s))
  BY <1>2, <1>3, <1>4
<1> HIDE DEF t, u
<1>7. Increasing(u)
  <2> SUFFICES ASSUME NEW j \in 1..Len(u), NEW k \in 1..Len(u), j < k PROVE u[j] < u[k]
    BY DEF Increasing
  <2>1. CASE k <= Len(s)
    BY <1>3, <1>4, <1>5, <2>1 DEF Far, Increasing
  <2>2. CASE j <= Len(s) /\ ~(k <= Len(s))
    <3>1. u[j] <= c /\ u[j] \in Int
      BY <1>3, <1>5, <2>2
    <3>2. u[k] = c + (k - Len(s)) /\ k - Len(s) >= 1
      BY <1>3, <1>4, <1>6, <2>2
    <3> QED
      BY <1>3, <3>1, <3>2
  <2>3. CASE ~(j <= Len(s))
    <3>1. j \in Len(s) + 1..Len(s) + n /\ k \in Len(s) + 1..Len(s) + n
      BY <1>3, <1>4, <2>3
    <3>2. u[j] = c + (j - Len(s)) /\ u[k] = c + (k - Len(s))
      BY <1>6, <3>1
    <3> QED
      BY <1>3, <3>1, <3>2
  <2> QED
    BY <2>1, <2>2, <2>3
<1>8. ASSUME NEW k \in 1..Len(u) PROVE u[k] <= c + d
  <2>1. CASE k <= Len(s)
    BY <1>3, <1>5, <2>1
  <2>2. CASE ~(k <= Len(s))
    BY <1>3, <1>4, <1>6, <2>2
  <2> QED
    BY <2>1, <2>2
<1>9. driver # "udp" => u = Bytes(0, c + d)
  <2> SUFFICES ASSUME driver # "udp" PROVE u = Bytes(0, c + d)
    OBVIOUS
  <2>1. 0 + c = c /\ c \in Nat
    BY <1>1
  <2>2. Bytes(0, c) \o Bytes(0 + c, n) = Bytes(0, c + n)
    BY <2>1, BytesConcat
  <2> QED
    BY <2>1, <2>2 DEF t, u, Far
<1> QED
  BY <1>7, <1>8, <1>9 DEF Far, t, u

(***************************************************************************)
(* One look at the source, of a channel with a request and nothing there   *)
(* yet: nothing comes of it, or the next bytes have arrived.               *)
(***************************************************************************)
Kept ==
    /\ rd'.registered = rd.registered /\ rd'.req = rd.req

Nothing(err) ==
    /\ err # "ENOERROR"
    /\ rd'.buffer = NULL \/ (err = "EINVALID" /\ driver # "mfio" /\ rd'.buffer = 0)
    /\ rd'.start = rd.start /\ rd'.data = rd.data
    /\ rd'.ready = rd.ready /\ rd'.closed = rd.closed
    /\ consumed' = consumed

\* n bytes have arrived, of the d that the source no longer has.
Arrives(n, d) ==
    /\ n \in Nat /\ d \in Nat /\ n <= d /\ consumed + d <= MaxIn
    /\ driver # "udp" => n = d
    /\ consumed' = consumed + d
    /\ rd'.data = Bytes(consumed, n)
    /\ driver # "udp" /\ n = 0 /\ Room > 0 => consumed = MaxIn
    /\ IF driver = "mfio"
       THEN /\ rd'.buffer = NULL /\ rd'.ready = TRUE
            /\ \/ rd'.closed = rd.closed /\ rd.closed = FALSE /\ rd'.start = consumed
               \/ rd'.closed = TRUE /\ rd'.start = NULL /\ consumed = MaxIn
       ELSE /\ rd'.buffer = 0 /\ rd'.ready = rd.ready /\ rd'.closed = rd.closed
            /\ rd'.start = rd.req.dst /\ rd.req.dst <= BuffSz
            /\ driver # "ttt" => rd.req.dst + n <= BuffSz

Looked(err) ==
    /\ Kept
    /\ \/ Nothing(err)
       \/ err = "ENOERROR" /\ \E n, d \in Nat : Arrives(n, d)

\* The request, and how much a read may take for it.
LEMMA RoomIs ==
    ASSUME ReadTypes
    PROVE  /\ Room \in Int /\ rd.req.dst \in Nat /\ rd.req.size \in Int
           /\ BuffSz \in Nat /\ MaxIn \in Nat /\ consumed \in Nat /\ consumed <= MaxIn
           /\ Room <= BuffSz - rd.req.dst
           /\ rd.req.dst <= BuffSz => Room \in Nat
           /\ rd.req.size = 0 => Room <= 0
<1>1. BuffSz \in Nat /\ MaxIn \in Nat
  BY FdAssumption
<1>2. rd.req.dst \in 0..BuffSz + 1 /\ rd.req.size \in ANY..BuffSz + 1
  BY DEF ReadTypes, ReadRequests
<1>3. rd.req.dst \in Nat /\ rd.req.size \in Int
  BY <1>1, <1>2 DEF ANY
<1>4. Clipped(rd.req.size) \in Nat
  BY <1>1, <1>2 DEF Clipped, ANY
<1>5. rd.req.size = 0 => Clipped(rd.req.size) = 0
  BY <1>1 DEF Clipped, ANY
<1>6. consumed \in 0..MaxIn
  BY DEF ReadTypes
<1>7. PICK asked \in Nat : asked = Clipped(rd.req.size)
  BY <1>4
<1>8. Room = IF BuffSz - rd.req.dst < asked THEN BuffSz - rd.req.dst ELSE asked
  BY <1>7 DEF Room, Lesser
<1> QED
  BY <1>1, <1>3, <1>5, <1>6, <1>7, <1>8

\* A read of a stream, and one of datagrams.
LEMMA StreamRead ==
    ASSUME NEW size \in Int, ReadTypes, NEW call \in stream_read(size)
    PROVE  /\ call.n \in Nat /\ call.took = call.n /\ consumed + call.n <= MaxIn
           /\ size >= 0 => call.n <= size
           /\ call.n = 0 => size = 0 \/ consumed = MaxIn
<1> DEFINE left == MaxIn - consumed
           most == Lesser(size, left)
<1>1. left \in Nat /\ MaxIn \in Nat /\ consumed \in Nat
  BY FdAssumption DEF ReadTypes
<1>2. most \in Int /\ most <= left /\ most <= size /\ (most = 0 => size = 0 \/ left = 0)
  BY <1>1 DEF Lesser
<1>3. PICK n \in IF most = 0 THEN {0} ELSE 1..most : call = [n |-> n, took |-> n]
  BY DEF stream_read
<1> HIDE DEF most
<1>4. call.n = n /\ call.took = n
  BY <1>3
<1> QED
  BY <1>1, <1>2, <1>3, <1>4

\* What recv() can do: cut a datagram to the room that there is.
LEMMA DatagramRead ==
    ASSUME NEW size \in Nat, ReadTypes, NEW call \in datagram_read(size)
    PROVE  /\ call.n \in Nat /\ call.took \in Nat /\ call.n <= call.took
           /\ consumed + call.took <= MaxIn /\ call.n <= size
<1>1. BuffSz \in Nat /\ MaxIn \in Nat /\ consumed \in Nat
  BY FdAssumption DEF ReadTypes
<1>2. PICK d \in 0..Lesser(BuffSz + 1, MaxIn - consumed) :
           call = [n |-> Lesser(size, d), took |-> d]
  BY DEF datagram_read
<1>3. d \in Nat /\ d <= MaxIn - consumed
  BY <1>1, <1>2 DEF Lesser
<1>4. call.took = d /\ call.n = Lesser(size, d)
  BY <1>2
<1> QED
  BY <1>1, <1>3, <1>4 DEF Lesser

\* What the reads of a driver may take.
Takes(n, d) ==
    /\ n \in Nat /\ d \in Nat /\ n <= d /\ consumed + d <= MaxIn
    /\ driver # "udp" => n = d
    /\ driver # "udp" /\ n = 0 /\ Room > 0 => consumed = MaxIn
    /\ driver # "ttt" => rd.req.dst + n <= BuffSz

\* A peek from the call of read() on, in terms of the bytes that arrive.
LEMMA ReadIntoLooked ==
    ASSUME ReadPool, rd.buffer = NULL, driver # "mfio", rd.req.dst <= BuffSz,
           NEW calls, \A call \in calls : Takes(call.n, call.took),
           NEW err, ReadInto(calls, err)
    PROVE  Looked(err)
<1>1. CASE /\ err \in {"ETRYAGAIN", "ECHECKERRORNO"}
           /\ rd' = GivenBack /\ UNCHANGED consumed
  <2>1. Kept /\ Nothing(err)
    BY <1>1 DEF GivenBack, ReadPool, RdRecord, Kept, Nothing
  <2> QED
    BY <2>1 DEF Looked
<1>2. ASSUME err = "ENOERROR", NEW call \in calls,
             rd' = [Acquired EXCEPT !.start = rd.req.dst, !.data = Bytes(consumed, call.n)],
             consumed' = consumed + call.took
      PROVE  Looked(err)
  <2>1. PICK a : a = Acquired
    OBVIOUS
  <2>2. PICK s : s = Bytes(consumed, call.n)
    OBVIOUS
  <2>3. /\ a = [pool |-> a.pool, buffer |-> a.buffer, registered |-> a.registered,
                req |-> a.req, ready |-> a.ready, closed |-> a.closed,
                start |-> a.start, data |-> a.data]
        /\ a.registered = rd.registered /\ a.req = rd.req /\ a.ready = rd.ready
        /\ a.closed = rd.closed
    BY <2>1 DEF ReadPool, RdRecord, Acquired
  <2>4. a.buffer = 0
    BY <2>1, AcquiredPool
  <2>5. rd' = [a EXCEPT !.start = rd.req.dst, !.data = s]
    BY <1>2, <2>1, <2>2
  <2>6. /\ rd'.registered = rd.registered /\ rd'.req = rd.req /\ rd'.ready = rd.ready
        /\ rd'.closed = rd.closed /\ rd'.start = rd.req.dst /\ rd'.data = s /\ rd'.buffer = 0
    BY <2>3, <2>4, <2>5
  <2>7. Takes(call.n, call.took)
    BY <1>2
  <2>8. Arrives(call.n, call.took)
    BY <1>2, <2>2, <2>6, <2>7 DEF Arrives, Takes
  <2> QED
    BY <1>2, <2>6, <2>7, <2>8 DEF Looked, Kept, Takes
<1> QED
  BY <1>1, <1>2 DEF ReadInto

\* A peek that refuses the request brings nothing, but keeps the buffer.
LEMMA RefusedLooked ==
    ASSUME ReadPool, rd.buffer = NULL, driver # "mfio", NEW err, RefusedInPeek(err)
    PROVE  Looked(err)
<1>1. rd'.buffer = 0
  BY AcquiredPool DEF RefusedInPeek
<1>2. /\ rd'.registered = rd.registered /\ rd'.req = rd.req /\ rd'.ready = rd.ready
      /\ rd'.closed = rd.closed /\ rd'.start = rd.start /\ rd'.data = rd.data
  BY DEF RefusedInPeek, Acquired, ReadPool, RdRecord
<1>3. Kept /\ Nothing(err)
  BY <1>1, <1>2 DEF RefusedInPeek, Kept, Nothing
<1> QED
  BY <1>3 DEF Looked

\* A stream is read within the room that there is.
LEMMA StreamTakes ==
    ASSUME ReadTypes, rd.req.dst <= BuffSz, NEW call \in stream_read(Room)
    PROVE  Takes(call.n, call.took)
<1>1. /\ Room \in Nat /\ Room <= BuffSz - rd.req.dst /\ rd.req.dst \in Nat /\ BuffSz \in Nat
  BY RoomIs
<1>2. /\ call.n \in Nat /\ call.took = call.n /\ consumed + call.n <= MaxIn
      /\ call.n <= Room /\ (call.n = 0 => Room = 0 \/ consumed = MaxIn)
  BY <1>1, StreamRead
<1> QED
  BY <1>1, <1>2 DEF Takes

\* A datagram takes room from the buffer, and the source further than that.
LEMMA DatagramTakes ==
    ASSUME ReadTypes, rd.req.dst <= BuffSz, driver = "udp", NEW call \in datagram_read(Room)
    PROVE  Takes(call.n, call.took)
<1>1. /\ Room \in Nat /\ Room <= BuffSz - rd.req.dst /\ rd.req.dst \in Nat /\ BuffSz \in Nat
  BY RoomIs
<1>2. /\ call.n \in Nat /\ call.took \in Nat /\ call.n <= call.took
      /\ consumed + call.took <= MaxIn /\ call.n <= Room
  BY <1>1, DatagramRead
<1> QED
  BY <1>1, <1>2 DEF Takes

\* The time-triggered driver's read of ANY size has no bound at all, and one
\* that takes nothing had no room or is at the end.
LEMMA TttTakes ==
    ASSUME ReadTypes, driver = "ttt",
           NEW room, room = BuffSz - Lesser(BuffSz, rd.req.dst),
           NEW size, size = (IF rd.req.size = 0 THEN room ELSE Lesser(room, rd.req.size)),
           NEW call \in stream_read(IF size < 0 THEN MaxIn ELSE size)
    PROVE  Takes(call.n, call.took)
<1>1. /\ Room \in Int /\ Room <= BuffSz - rd.req.dst /\ rd.req.dst \in Nat /\ BuffSz \in Nat
      /\ (rd.req.size = 0 => Room <= 0) /\ rd.req.size \in Int
      /\ MaxIn \in Nat /\ consumed \in Nat /\ consumed <= MaxIn
  BY RoomIs
<1>2. room \in Nat /\ (room = 0 => Room <= 0)
  <2>1. room = IF BuffSz < rd.req.dst THEN 0 ELSE BuffSz - rd.req.dst
    BY <1>1 DEF Lesser
  <2> QED
    BY <1>1, <2>1
<1>3. size \in Int /\ (size = 0 => Room <= 0)
  BY <1>1, <1>2 DEF Lesser
<1>4. PICK most \in Int : most = IF size < 0 THEN MaxIn ELSE size
  BY <1>1, <1>3
<1>5. call \in stream_read(most)
  BY <1>4
<1>6. /\ call.n \in Nat /\ call.took = call.n /\ consumed + call.n <= MaxIn
      /\ (call.n = 0 => most = 0 \/ consumed = MaxIn)
  BY <1>5, StreamRead
<1>7. most = 0 => Room <= 0 \/ consumed = MaxIn
  BY <1>1, <1>3, <1>4
<1> QED
  BY <1>1, <1>6, <1>7 DEF Takes

\* The peeks of the drivers with a descriptor.
LEMMA PeekLooked ==
    ASSUME ReadPool, ReadTypes, rd.buffer = NULL, NEW err,
           \/ driver = "tcp" /\ tcp_read_peek(err)
           \/ driver = "udp" /\ udp_read_peek(err)
           \/ driver = "fio" /\ fio_read_peek(err)
           \/ driver = "ttt" /\ rd.req.dst <= BuffSz /\ ttt_read_peek(err)
    PROVE  Looked(err)
<1>1. acquire_error(rd.pool) = "ENOERROR"
  BY AcquireFree DEF ReadPool
<1>2. rd.req.dst \in Nat /\ BuffSz \in Nat
  BY RoomIs
<1>3. CASE driver = "tcp" /\ tcp_read_peek(err)
  <2>1. CASE RefusedInPeek(err)
    BY <1>3, <2>1, RefusedLooked
  <2>2. CASE ~(rd.req.dst > BuffSz) /\ ReadInto(stream_read(Room), err)
    BY <1>2, <1>3, <2>2, StreamTakes, ReadIntoLooked
  <2> QED
    BY <1>1, <1>3, <2>1, <2>2 DEF tcp_read_peek, WithBuffer
<1>4. CASE driver = "udp" /\ udp_read_peek(err)
  <2>1. CASE RefusedInPeek(err)
    BY <1>4, <2>1, RefusedLooked
  <2>2. CASE ~(rd.req.dst > BuffSz) /\ ReadInto(datagram_read(Room), err)
    BY <1>2, <1>4, <2>2, DatagramTakes, ReadIntoLooked
  <2> QED
    BY <1>1, <1>4, <2>1, <2>2 DEF udp_read_peek, WithBuffer
<1>5. CASE driver = "fio" /\ fio_read_peek(err)
  <2>1. CASE RefusedInPeek(err)
    BY <1>5, <2>1, RefusedLooked
  <2>2. CASE ~(rd.req.dst > BuffSz) /\ ReadInto(stream_read(Room), err)
    BY <1>2, <1>5, <2>2, StreamTakes, ReadIntoLooked
  <2> QED
    BY <1>1, <1>5, <2>1, <2>2 DEF fio_read_peek, WithBuffer
<1>6. CASE driver = "ttt" /\ rd.req.dst <= BuffSz /\ ttt_read_peek(err)
  <2>1. PICK room : room = BuffSz - Lesser(BuffSz, rd.req.dst)
    OBVIOUS
  <2>2. PICK size : size = IF rd.req.size = 0 THEN room ELSE Lesser(room, rd.req.size)
    OBVIOUS
  <2>3. ReadInto(stream_read(IF size < 0 THEN MaxIn ELSE size), err)
    BY <1>1, <1>6, <2>1, <2>2 DEF ttt_read_peek, WithBuffer
  <2> QED
    BY <1>6, <2>1, <2>2, <2>3, TttTakes, ReadIntoLooked
<1> QED
  BY <1>3, <1>4, <1>5, <1>6

\* The mapped file has no buffer to run out of: it is closed, or there is more.
LEMMA MfioPeekLooked ==
    ASSUME ReadShape, driver = "mfio", ~Arrived, NEW err, mfio_read_peek(err)
    PROVE  Looked(err)
<1>1. rd.buffer = NULL /\ rd.ready = FALSE
  BY DEF ReadShape, Arrival, Arrived, ReadTypes
<1>2. CASE err \in {"ECLOSED", "EINVALID"} /\ rd' = rd /\ consumed' = consumed
  <2>1. Kept /\ Nothing(err)
    BY <1>1, <1>2 DEF Kept, Nothing
  <2> QED
    BY <2>1 DEF Looked
<1>3. MaxIn \in Nat /\ consumed \in Nat /\ consumed <= MaxIn
  BY RoomIs DEF ReadShape
<1>4. ASSUME ~rd.closed
      PROVE  rd.closed = FALSE /\ rd.start = consumed
  <2>1. rd.start \in 0..MaxIn /\ consumed = rd.start + 0 /\ rd.closed \in BOOLEAN
    BY <1>1, <1>4 DEF ReadShape, Mapping, ReadTypes
  <2> QED
    BY <1>3, <1>4, <2>1
<1>5. CASE /\ ~rd.closed /\ err = "ENOERROR" /\ AtEnd
           /\ rd' = [mfio_read_close EXCEPT !.ready = TRUE] /\ consumed' = consumed
  <2>0. rd.start = consumed
    BY <1>4, <1>5
  <2>1. consumed = MaxIn
    BY <1>3, <1>5, <2>0 DEF AtEnd
  <2>2. /\ rd'.registered = rd.registered /\ rd'.req = rd.req /\ rd'.buffer = NULL
        /\ rd'.ready = TRUE /\ rd'.closed = TRUE /\ rd'.start = NULL /\ rd'.data = <<>>
    BY <1>1, <1>5 DEF mfio_read_close, ReadShape, ReadPool, RdRecord
  <2>3. Bytes(consumed, 0) = <<>>
    BY <1>3, BytesSeq
  <2>4. Arrives(0, 0)
    BY <1>3, <1>5, <2>1, <2>2, <2>3 DEF Arrives
  <2> QED
    BY <1>5, <2>2, <2>4 DEF Looked, Kept
<1>6. ASSUME NEW n, ~rd.closed, err = "ENOERROR", ~AtEnd, rd.req.src = NONE, rd.req.dst = 0,
             n = Lesser(MaxIn - rd.start, IF rd.req.size = ANY THEN MaxIn ELSE rd.req.size),
             rd' = [rd EXCEPT !.ready = TRUE, !.data = Bytes(rd.start, n)],
             consumed' = rd.start + n
      PROVE  Looked(err)
  <2>0. rd.closed = FALSE /\ rd.start = consumed
    BY <1>4, <1>6
  <2>1. rd.closed = FALSE /\ rd.start = consumed /\ consumed < MaxIn
    BY <1>3, <1>6, <2>0 DEF AtEnd
  <2>2. /\ rd.req.size = 0 => ~(Room > 0)
        /\ rd.req.size \in ANY..BuffSz + 1 /\ BuffSz \in Nat
    BY RoomIs DEF ReadShape, ReadTypes, ReadRequests
  <2> DEFINE asked == IF rd.req.size = ANY THEN MaxIn ELSE rd.req.size
  <2>3. asked \in Nat /\ (asked = 0 => MaxIn = 0 \/ rd.req.size = 0)
    BY <1>3, <2>2 DEF ANY
  <2>4. /\ n \in Nat /\ n <= MaxIn - consumed
        /\ n = 0 => asked = 0
    <3>1. n = Lesser(MaxIn - rd.start, asked)
      BY <1>6
    <3> HIDE DEF asked
    <3> QED
      BY <1>3, <2>1, <2>3, <3>1 DEF Lesser
  <2>5. n = 0 => ~(Room > 0)
    <3>1. MaxIn # 0
      BY <1>3, <2>1
    <3>2. n = 0 => rd.req.size = 0
      BY <2>3, <2>4, <3>1
    <3> QED
      BY <2>2, <3>2
  <2>6. /\ rd'.registered = rd.registered /\ rd'.req = rd.req /\ rd'.buffer = NULL
        /\ rd'.ready = TRUE /\ rd'.closed = rd.closed /\ rd'.start = consumed
        /\ rd'.data = Bytes(consumed, n)
    BY <1>1, <1>6, <2>1 DEF ReadShape, ReadPool, RdRecord
  <2>7. consumed + n <= MaxIn /\ consumed' = consumed + n
    BY <1>3, <1>6, <2>1, <2>4
  <2>8. Arrives(n, n)
    BY <1>6, <2>1, <2>4, <2>5, <2>6, <2>7 DEF Arrives
  <2> QED
    BY <1>6, <2>4, <2>6, <2>8 DEF Looked, Kept
<1> QED
  BY <1>2, <1>5, <1>6 DEF mfio_read_peek

\* read_ready, in every driver: nothing changes, or it has a look.
ReadyResult(err) ==
    \/ /\ rd' = rd /\ consumed' = consumed
       /\ err = "EREADY" => Arrived
    \/ /\ rd.registered /\ ~Arrived
       /\ \E e \in Errors : Polled(e) = err /\ Looked(e)

\* read_ready of every driver: an answer without a look, or one peek.
LEMMA ReadyLooked ==
    ASSUME ReadShape, NEW err, read_ready(err)
    PROVE  ReadyResult(err)
<1>0. ReadPool /\ ReadTypes
  BY DEF ReadShape
<1>1. CASE err = "ENOTREADY" /\ rd' = rd /\ consumed' = consumed
  BY <1>1 DEF ReadyResult
<1>2. CASE Arrived /\ rd' = rd /\ consumed' = consumed
  BY <1>2 DEF ReadyResult
<1>3. ASSUME rd.registered, ~Arrived, NEW e \in Errors, Polled(e) = err, Looked(e)
      PROVE  ReadyResult(err)
  BY <1>3 DEF ReadyResult
<1>4. driver # "mfio" => (Arrived <=> rd.buffer # NULL)
  BY DEF ReadShape, Arrived, Arrival
<1>5. driver = "mfio" => (Arrived <=> rd.ready)
  BY DEF ReadShape, Arrived, Arrival
<1>6. CASE driver = "tcp" /\ tcp_read_ready(err)
  BY <1>0, <1>1, <1>2, <1>3, <1>4, <1>6, PeekLooked DEF tcp_read_ready, ReadReady
<1>7. CASE driver = "udp" /\ udp_read_ready(err)
  BY <1>0, <1>1, <1>2, <1>3, <1>4, <1>7, PeekLooked DEF udp_read_ready, ReadReady
<1>8. CASE driver = "fio" /\ fio_read_ready(err)
  BY <1>0, <1>1, <1>2, <1>3, <1>4, <1>8, PeekLooked DEF fio_read_ready, ReadReady
<1>9. CASE driver = "ttt" /\ ttt_read_ready(err)
  <2>1. rd.req.dst <= BuffSz
    BY <1>9 DEF ReadShape, ReadBounds
  <2> QED
    BY <1>0, <1>1, <1>2, <1>3, <1>4, <1>9, <2>1, PeekLooked DEF ttt_read_ready, ReadReady
<1>10. CASE driver = "mfio" /\ mfio_read_ready(err)
  BY <1>1, <1>2, <1>3, <1>5, <1>10, MfioPeekLooked DEF mfio_read_ready, ReadReady
<1> QED
  BY <1>6, <1>7, <1>8, <1>9, <1>10 DEF read_ready

\* What a look finds leaves the reading half in order.
LEMMA LookedShape ==
    ASSUME ReadShape, ReadPool', rd.registered, ~Arrived, NEW e, Looked(e), driver' = driver
    PROVE  ReadShape' /\ (e = "ENOERROR" => Arrived')
<1>1. /\ MaxIn \in Nat /\ BuffSz \in Nat /\ consumed \in Nat /\ consumed <= MaxIn
      /\ rd.req.dst \in Nat
  BY RoomIs DEF ReadShape
<1>2. rd.buffer = NULL /\ rd.ready = FALSE
  BY DEF ReadShape, Arrived, ReadTypes
<1>3. Kept
  BY DEF Looked
<1>4. CASE Nothing(e)
  <2>1. ReadTypes'
    BY <1>2, <1>3, <1>4 DEF ReadShape, ReadTypes, Kept, Nothing
  <2>2. Arrival'
    BY <1>2, <1>3, <1>4 DEF ReadShape, Arrival, Arrived, Kept, Nothing
  <2>3. Mapping'
    BY <1>2, <1>3, <1>4 DEF ReadShape, Mapping, Kept, Nothing
  <2>4. ReadBounds'
    BY <1>2, <1>3, <1>4 DEF ReadShape, ReadBounds, Kept, Nothing
  <2> QED
    BY <1>4, <2>1, <2>2, <2>3, <2>4 DEF ReadShape, Nothing
<1>5. ASSUME NEW n \in Nat, NEW d \in Nat, Arrives(n, d)
      PROVE  ReadShape' /\ Arrived'
  <2>1. /\ n <= d /\ consumed + d <= MaxIn /\ consumed' = consumed + d
        /\ rd'.data = Bytes(consumed, n) /\ (driver # "udp" => n = d)
    BY <1>5 DEF Arrives
  <2>2. consumed + n <= MaxIn /\ consumed' \in 0..MaxIn
    BY <1>1, <2>1
  <2>3. rd'.data \in Seq(1..MaxIn) /\ Len(rd'.data) = n /\ (n = 0 => rd'.data = <<>>)
    <3>1. MaxIn \in Int
      BY <1>1
    <3>2. Bytes(consumed, n) \in Seq(1..MaxIn)
      BY <1>1, <2>2, <3>1, BytesSeq
    <3>3. Len(Bytes(consumed, n)) = n /\ (n = 0 => Bytes(consumed, n) = <<>>)
      BY <1>1, BytesSeq
    <3> QED
      BY <2>1, <3>2, <3>3
  <2>4. CASE driver = "mfio"
    <3>1. /\ rd'.buffer = NULL /\ rd'.ready = TRUE
          /\ \/ rd'.closed = rd.closed /\ rd.closed = FALSE /\ rd'.start = consumed
             \/ rd'.closed = TRUE /\ rd'.start = NULL /\ consumed = MaxIn
      BY <1>5, <2>4 DEF Arrives
    <3>2. n = d
      BY <2>1, <2>4
    <3>3. rd'.start \in NULL..MaxIn + BuffSz /\ rd'.closed \in BOOLEAN
      <4>1. rd'.start = consumed \/ rd'.start = NULL
        BY <3>1
      <4>2. rd'.start \in NULL..MaxIn + BuffSz
        BY <1>1, <4>1 DEF NULL
      <4>3. rd'.closed \in BOOLEAN
        BY <3>1
      <4> QED
        BY <4>2, <4>3
    <3>4. ReadTypes'
      BY <1>3, <2>2, <2>3, <3>1, <3>3 DEF ReadShape, ReadTypes, Kept
    <3>5. Mapping'
      <4>1. CASE rd'.closed = FALSE /\ rd'.start = consumed
        BY <1>1, <2>1, <2>3, <3>1, <3>2, <4>1 DEF Mapping
      <4>2. CASE rd'.closed = TRUE /\ rd'.start = NULL /\ consumed = MaxIn
        <5>1. n = 0 /\ consumed' = MaxIn
          BY <1>1, <2>1, <2>2, <3>2, <4>2
        <5> QED
          BY <2>3, <4>2, <5>1 DEF Mapping
      <4> QED
        BY <3>1, <4>1, <4>2
    <3> QED
      BY <1>3, <2>4, <3>1, <3>4, <3>5 DEF ReadShape, Arrival, Arrived, ReadBounds, Kept
  <2>5. CASE driver # "mfio"
    <3>1. /\ rd'.buffer = 0 /\ rd'.ready = rd.ready /\ rd'.closed = rd.closed
          /\ rd'.start = rd.req.dst /\ rd.req.dst <= BuffSz
          /\ driver # "ttt" => rd.req.dst + n <= BuffSz
      BY <1>5, <2>5 DEF Arrives
    <3>2. rd'.start \in NULL..MaxIn + BuffSz /\ rd'.start \in 0..BuffSz
      BY <1>1, <3>1 DEF NULL
    <3>3. ReadTypes'
      BY <1>3, <2>2, <2>3, <3>1, <3>2 DEF ReadShape, ReadTypes, Kept
    <3>4. ReadBounds'
      BY <1>3, <2>3, <2>5, <3>1, <3>2 DEF ReadBounds, Kept
    <3>5. Arrived'
      BY <3>1 DEF Arrived, NULL
    <3>6. Arrival'
      BY <1>2, <1>3, <2>5, <3>1 DEF Arrival, Kept
    <3> QED
      BY <2>5, <3>3, <3>4, <3>5, <3>6 DEF ReadShape, Mapping
  <2> QED
    BY <2>4, <2>5
<1> QED
  BY <1>4, <1>5 DEF Looked, Nothing

\* The data that has arrived.
Got == IF Arrived THEN rd.data ELSE <<>>

\* Unless the look was refused, what it finds are the next bytes.
LEMMA LookedFar ==
    ASSUME ReadShape, ~Arrived, NEW e, Looked(e), e # "EINVALID", driver' = driver,
           delivered \in Seq(1..MaxIn), Far(delivered, consumed)
    PROVE  Far(delivered \o Got', consumed') /\ AtTheEnd'
<1>1. MaxIn \in Nat /\ consumed \in Nat /\ consumed <= MaxIn
  BY RoomIs DEF ReadShape
<1>2. rd.buffer = NULL /\ rd.ready = FALSE
  BY DEF ReadShape, Arrived, ReadTypes
<1>3. CASE Nothing(e)
  <2>1. ~Arrived' /\ consumed' = consumed
    BY <1>2, <1>3 DEF Arrived, Nothing
  <2>2. delivered \o <<>> = delivered
    BY ConcatEmptySeq
  <2> QED
    BY <2>1, <2>2 DEF Got, AtTheEnd
<1>4. ASSUME NEW n \in Nat, NEW d \in Nat, Arrives(n, d)
      PROVE  Far(delivered \o Got', consumed') /\ AtTheEnd'
  <2>1. /\ n <= d /\ consumed + d <= MaxIn /\ consumed' = consumed + d
        /\ rd'.data = Bytes(consumed, n) /\ (driver # "udp" => n = d)
        /\ driver # "udp" /\ n = 0 /\ Room > 0 => consumed = MaxIn
    BY <1>4 DEF Arrives
  <2>2. Arrived'
    BY <1>4 DEF Arrives, Arrived, NULL
  <2>3. Far(delivered \o Bytes(consumed, n), consumed + d)
    <3>1. consumed \in 0..MaxIn
      BY <1>1
    <3> QED
      BY <2>1, <3>1, FarConcat
  <2>4. Room' = Room
    BY DEF Looked, Kept, Room
  <2>5. ASSUME driver # "udp", rd'.data = <<>>, Room > 0
        PROVE  consumed' = MaxIn
    <3>1. n = 0
      BY <1>1, <2>1, <2>5, BytesSeq
    <3> QED
      BY <1>1, <2>1, <2>5, <3>1
  <2> QED
    BY <2>1, <2>2, <2>3, <2>4, <2>5 DEF Got, AtTheEnd
<1> QED
  BY <1>3, <1>4 DEF Looked

\* read_ready keeps the shape, and says EREADY only when something is there.
LEMMA ReadyShape ==
    ASSUME ReadShape, NEW err, read_ready(err), driver' = driver
    PROVE  /\ ReadShape' /\ rd'.req = rd.req
           /\ err = "EREADY" => Arrived'
           /\ Arrived => rd' = rd
<1>1. ReadPool'
  BY ReadyPool DEF ReadShape, Polling
<1>2. ReadyResult(err)
  BY ReadyLooked
<1>3. CASE rd' = rd /\ consumed' = consumed /\ (err = "EREADY" => Arrived)
  <2>1. ReadTypes' /\ Arrival' /\ Mapping' /\ ReadBounds' /\ (Arrived' <=> Arrived)
    BY <1>3 DEF ReadShape, ReadTypes, Arrival, Arrived, Mapping, ReadBounds
  <2> QED
    BY <1>1, <1>3, <2>1 DEF ReadShape
<1>4. ASSUME rd.registered, ~Arrived, NEW e \in Errors, Polled(e) = err, Looked(e)
      PROVE  ReadShape' /\ rd'.req = rd.req /\ (err = "EREADY" => Arrived')
  BY <1>1, <1>4, LookedShape, ReadyAnswer DEF Looked, Kept
<1> QED
  BY <1>2, <1>3, <1>4 DEF ReadyResult

\* A poll keeps what the application has got and what waits for it in order.
LEMMA ReadyFar ==
    ASSUME ReadShape, ReaderTypes, ~reader.holds, Far(delivered \o Waiting, consumed), AtTheEnd,
           NEW err, read_ready(err), err # "EINVALID", driver' = driver
    PROVE  Far(delivered \o Got', consumed') /\ AtTheEnd'
<1>1. Waiting = Got
  BY DEF Waiting, Got, Arrived, ReadShape, Arrival
<1>2. ReadyResult(err)
  BY ReadyLooked
<1>3. CASE rd' = rd /\ consumed' = consumed
  <2>1. Got' = Got /\ (AtTheEnd' <=> AtTheEnd)
    BY <1>3 DEF Got, Arrived, AtTheEnd, Room
  <2> QED
    BY <1>1, <1>3, <2>1
<1>4. ASSUME ~Arrived, NEW e \in Errors, Polled(e) = err, Looked(e)
      PROVE  Far(delivered \o Got', consumed') /\ AtTheEnd'
  <2>1. e # "EINVALID"
    BY <1>4 DEF Polled
  <2>2. delivered \in Seq(1..MaxIn) /\ delivered \o <<>> = delivered
    BY ConcatEmptySeq DEF ReaderTypes
  <2>3. Far(delivered, consumed)
    BY <1>1, <1>4, <2>2 DEF Got
  <2> QED
    BY <1>4, <2>1, <2>2, <2>3, LookedFar
<1> QED
  BY <1>2, <1>3, <1>4 DEF ReadyResult

(***************************************************************************)
(* The steps of the reading application.                                   *)
(***************************************************************************)
ReadInv == ReadShape /\ Holder /\ ReaderTypes

\* Nothing has been read at the beginning.
LEMMA ReadInvInit == Init => ReadInv /\ Stream
<1> SUFFICES ASSUME Init PROVE ReadInv /\ Stream
  OBVIOUS
<1>1. MaxIn \in Nat /\ BuffSz \in Nat
  BY FdAssumption
<1>2. /\ rd.buffer = NULL /\ rd.registered = FALSE /\ rd.ready = FALSE /\ rd.closed = FALSE
      /\ rd.start = 0 /\ rd.data = <<>> /\ rd.req = [src |-> NONE, dst |-> 0, size |-> ANY]
      /\ reader.holds = FALSE /\ reader.failed = FALSE /\ reader.eof = FALSE
      /\ consumed = 0 /\ delivered = <<>>
  BY DEF Init
<1>3. ReadPool /\ Holder
  BY InvInit DEF PoolInv
<1>4. ReadTypes
  <2>1. rd.req \in ReadRequests
    BY <1>1, <1>2 DEF ReadRequests, NONE, ANY
  <2>2. rd.start \in NULL..MaxIn + BuffSz /\ consumed \in 0..MaxIn
    BY <1>1, <1>2 DEF NULL
  <2>3. rd.data \in Seq(1..MaxIn)
    BY <1>2
  <2> QED
    BY <1>2, <2>1, <2>2, <2>3 DEF ReadTypes
<1>5. Arrival /\ Mapping /\ ReaderTypes /\ ~Arrived
  <2>1. Arrival /\ ~Arrived
    BY <1>2 DEF Arrival, Arrived, NULL
  <2>2. 0 \in 0..MaxIn /\ 0 = 0 + 0
    BY <1>1
  <2>3. Mapping
    BY <1>2, <2>2 DEF Mapping
  <2>4. ReaderTypes
    <3>1. delivered \in Seq(1..MaxIn)
      BY <1>2
    <3> QED
      BY <1>2, <3>1 DEF ReaderTypes
  <2> QED
    BY <2>1, <2>3, <2>4
<1>6. ReadBounds
  <2>1. Len(<<>>) = 0
    OBVIOUS
  <2> QED
    BY <1>1, <1>2, <2>1 DEF ReadBounds
<1>7. delivered \o Waiting = <<>>
  BY <1>2 DEF Waiting
<1>8. Far(<<>>, 0)
  <2>1. Bytes(0, 0) = <<>>
    BY BytesSeq
  <2>2. Len(<<>>) = 0
    OBVIOUS
  <2> QED
    BY <2>1, <2>2 DEF Far, Increasing
<1>9. Stream
  BY <1>2, <1>5, <1>7, <1>8 DEF Stream, AtTheEnd, EndIsTheEnd, Far
<1> QED
  BY <1>3, <1>4, <1>5, <1>6, <1>9 DEF ReadInv, ReadShape

\* read_acquire says ENOERROR when read_ready says EREADY, and the application
\* stops at a refusal if it is one.
LEMMA AcquireIsReady ==
    ASSUME NEW err, read_acquire(err)
    PROVE  \E e \in ReadyErrors :
             /\ read_ready(e) /\ Fetched(e) = err
             /\ (err = "ENOERROR") <=> (e = "EREADY")
             /\ (err = "EINVALID") <=> (e = "EINVALID")
<1>1. \E e \in {x \in ReadyErrors : Fetched(x) = err} : read_ready(e)
  BY DEF read_acquire, read_ready, ReadAcquire, tcp_read_acquire, udp_read_acquire,
         fio_read_acquire, ttt_read_acquire, mfio_read_acquire
<1>2. ASSUME NEW e \in ReadyErrors, Fetched(e) = err
      PROVE  ((err = "ENOERROR") <=> (e = "EREADY")) /\ ((err = "EINVALID") <=> (e = "EINVALID"))
  BY <1>2 DEF Fetched, ReadyErrors, Errors
<1> QED
  BY <1>1, <1>2

\* A request is registered only when nothing waits to be acquired.
LEMMA RequestShape ==
    ASSUME ReadInv, ~reader.holds, NEW req \in Requests, read_request(req),
           UNCHANGED <<driver, reader, consumed, delivered>>
    PROVE  ReadInv' /\ (Stream => Stream')
<1>1. PICK r \in ReadRequests : Register(r) /\ (driver = "ttt" => r.dst <= BuffSz)
  <2>1. req \in ReadRequests /\ BuffSz \in Nat
    BY FdAssumption
  <2>2. [req EXCEPT !.size = Lesser(BuffSz, req.size)] \in ReadRequests
    <3>1. Lesser(BuffSz, req.size) \in ANY..BuffSz + 1
      BY <2>1 DEF ReadRequests, Lesser, ANY
    <3> QED
      BY <2>1, <3>1 DEF ReadRequests
  <2>3. driver \in {"udp", "ttt"} =>
          Register([req EXCEPT !.size = Lesser(BuffSz, req.size)]) /\ req.dst <= BuffSz
    BY DEF read_request, udp_read_request, ttt_read_request
  <2>4. driver \notin {"udp", "ttt"} => Register(req)
    BY DEF read_request, tcp_read_request, fio_read_request, mfio_read_request
  <2>5. [req EXCEPT !.size = Lesser(BuffSz, req.size)].dst = req.dst
    BY <2>1 DEF ReadRequests
  <2> QED
    BY <2>1, <2>2, <2>3, <2>4, <2>5
<1>2. /\ rd.registered = FALSE
      /\ rd'.registered = TRUE /\ rd'.req = r /\ rd'.buffer = rd.buffer
      /\ rd'.ready = rd.ready /\ rd'.closed = rd.closed /\ rd'.start = rd.start
      /\ rd'.data = rd.data
  BY <1>1 DEF Register, ReadInv, ReadShape, ReadPool, RdRecord, ReadTypes
<1>3. ~Arrived /\ ~Arrived'
  BY <1>2 DEF ReadInv, ReadShape, Arrival, Arrived
<1>4. ReadPool'
  BY RequestPool DEF ReadInv, ReadShape
<1>5. ReadTypes' /\ Arrival' /\ Mapping' /\ ReadBounds'
  BY <1>1, <1>2, <1>3 DEF ReadInv, ReadShape, ReadTypes, Arrival, Mapping, ReadBounds
<1>6. Holder' /\ ReaderTypes'
  BY <1>2 DEF ReadInv, Holder, ReaderTypes
<1>7. ASSUME Stream PROVE Stream'
  <2>1. Waiting = <<>> /\ Waiting' = <<>>
    BY <1>3 DEF Waiting, Arrived
  <2>2. AtTheEnd'
    BY <1>3 DEF AtTheEnd
  <2>3. Far(delivered \o Waiting, consumed)' <=> Far(delivered \o Waiting, consumed)
    BY <2>1 DEF Far
  <2> QED
    BY <1>7, <2>2, <2>3 DEF Stream, EndIsTheEnd
<1> QED
  BY <1>4, <1>5, <1>6, <1>7 DEF ReadInv, ReadShape

\* A poll, whether by read_ready or by a read_acquire that says something else
\* than ENOERROR.
LEMMA PollShape ==
    ASSUME ReadInv, ~reader.failed, ~reader.holds, NEW err, NEW answer, read_ready(err),
           (answer = "EINVALID") <=> (err = "EINVALID"),
           reader' = [reader EXCEPT !.failed = Refusal(answer)],
           UNCHANGED <<driver, delivered>>
    PROVE  ReadInv' /\ (Stream /\ ~Persistent => Stream')
<1>1. ReadShape'
  BY ReadyShape DEF ReadInv
<1>2. /\ reader'.holds = FALSE /\ reader'.failed = Refusal(answer) /\ reader'.eof = reader.eof
      /\ reader' = [holds |-> reader'.holds, failed |-> reader'.failed, eof |-> reader'.eof]
  BY DEF ReadInv, Holder
<1>3. Holder' /\ ReaderTypes'
  <2>1. Refusal(answer) \in BOOLEAN
    BY DEF Refusal
  <2> QED
    BY <1>2, <2>1 DEF ReadInv, Holder, ReaderTypes
<1>4. ASSUME Stream, ~Persistent PROVE Stream'
  <2>1. Increasing(delivered)' /\ EndIsTheEnd'
    BY <1>2, <1>4 DEF Stream, Increasing, EndIsTheEnd
  <2>2. CASE err = "EINVALID"
    <3>1. reader'.failed = TRUE
      BY <1>2, <1>4, <2>2 DEF Refusal
    <3> QED
      BY <2>1, <3>1 DEF Stream
  <2>3. CASE err # "EINVALID"
    <3>1. Far(delivered \o Got', consumed') /\ AtTheEnd'
      BY <1>4, <2>3, ReadyFar DEF ReadInv, Stream
    <3>2. Waiting' = Got'
      BY <1>1, <1>2 DEF Waiting, Got, Arrived, ReadShape, Arrival
    <3>3. Far(delivered \o Waiting, consumed)'
      BY <3>1, <3>2 DEF Far
    <3> QED
      BY <2>1, <3>1, <3>3 DEF Stream
  <2> QED
    BY <2>2, <2>3
<1> QED
  BY <1>1, <1>3, <1>4 DEF ReadInv

\* What waits is handed to the application, once.
LEMMA AcquireShape ==
    ASSUME ReadInv, ~reader.failed, ~reader.holds, read_ready("EREADY"),
           reader' = [reader EXCEPT !.holds = TRUE,
                                    !.eof = @ \/ (rd'.data = <<>> /\ Room > 0)],
           delivered' = delivered \o rd'.data, UNCHANGED driver
    PROVE  ReadInv' /\ (Stream => Stream')
<1>1. ReadShape' /\ Arrived' /\ rd'.req = rd.req
  BY ReadyShape DEF ReadInv
<1>2. /\ reader'.holds = TRUE /\ reader'.failed = reader.failed
      /\ reader'.eof = (reader.eof \/ (rd'.data = <<>> /\ Room > 0))
      /\ reader' = [holds |-> reader'.holds, failed |-> reader'.failed, eof |-> reader'.eof]
  BY DEF ReadInv, Holder
<1>3. rd'.data \in Seq(1..MaxIn) /\ delivered' \in Seq(1..MaxIn)
  BY <1>1, ConcatProperties DEF ReadInv, ReadShape, ReadTypes, ReaderTypes
<1>4. Holder' /\ ReaderTypes'
  <2>1. rd'.registered /\ (driver # "mfio" => rd'.buffer # NULL) /\ (driver = "mfio" => rd'.ready)
    BY <1>1 DEF ReadShape, Arrival, Arrived
  <2>2. reader'.eof \in BOOLEAN
    BY <1>2 DEF ReadInv, ReaderTypes
  <2>3. reader'.failed \in BOOLEAN
    BY <1>2 DEF ReadInv, ReaderTypes
  <2> QED
    BY <1>2, <1>3, <2>1, <2>2, <2>3 DEF Holder, ReaderTypes
<1>5. ASSUME Stream PROVE Stream'
  <2>1. Far(delivered \o Got', consumed') /\ AtTheEnd'
    BY <1>5, ReadyFar DEF ReadInv, Stream
  <2>2. Got' = rd'.data
    BY <1>1 DEF Got
  <2>3. Far(delivered', consumed')
    BY <2>1, <2>2
  <2>4. delivered' \o Waiting' = delivered'
    BY <1>2, <1>3, ConcatEmptySeq DEF Waiting
  <2>5. Increasing(delivered)' /\ Far(delivered \o Waiting, consumed)'
    BY <2>3, <2>4 DEF Far, Increasing
  <2>6. EndIsTheEnd'
    <3> SUFFICES ASSUME reader'.eof, driver # "udp" PROVE Len(delivered') = MaxIn
      BY DEF EndIsTheEnd
    <3>1. MaxIn \in Nat /\ consumed' \in Nat /\ consumed' <= MaxIn
      BY <1>1, FdAssumption DEF ReadShape, ReadTypes
    <3>2. Len(delivered') = consumed'
      BY <2>3, <3>1, BytesSeq DEF Far
    <3>3. CASE reader.eof
      <4>1. Len(delivered) = MaxIn
        BY <1>5, <3>3 DEF Stream, EndIsTheEnd
      <4>2. Len(delivered') = Len(delivered) + Len(rd'.data) /\ Len(rd'.data) \in Nat
        BY <1>3, ConcatProperties DEF ReadInv, ReaderTypes
      <4> QED
        BY <3>1, <3>2, <4>1, <4>2
    <3>4. CASE rd'.data = <<>> /\ Room > 0
      <4>1. Room' = Room
        BY <1>1 DEF Room
      <4> QED
        BY <1>1, <2>1, <3>2, <3>4, <4>1 DEF AtTheEnd
    <3> QED
      BY <1>2, <3>3, <3>4
  <2> QED
    BY <2>1, <2>5, <2>6 DEF Stream
<1> QED
  BY <1>1, <1>4, <1>5 DEF ReadInv

\* A release forgets the data, and moves the window of the mapping.
LEMMA ReleaseShape ==
    ASSUME ReadInv, reader.holds, read_release,
           reader' = [reader EXCEPT !.holds = FALSE], UNCHANGED <<driver, consumed, delivered>>
    PROVE  ReadInv' /\ (Stream => Stream')
<1>1. ReadPool'
  BY ReleaseReadPool DEF ReadInv, ReadShape
<1>2. /\ reader'.holds = FALSE /\ reader'.failed = reader.failed /\ reader'.eof = reader.eof
      /\ reader' = [holds |-> reader'.holds, failed |-> reader'.failed, eof |-> reader'.eof]
  BY DEF ReadInv, Holder
<1>3. /\ rd'.registered = FALSE /\ rd'.req = rd.req /\ rd'.closed = rd.closed
      /\ rd'.data = rd.data
      /\ driver = "mfio" =>
           rd'.start = rd.start + Len(rd.data) /\ rd'.ready = FALSE /\ rd'.buffer = rd.buffer
      /\ driver # "mfio" =>
           rd'.start = rd.start /\ rd'.ready = rd.ready /\ rd'.buffer = NULL
  BY DEF read_release, tcp_read_release, udp_read_release, fio_read_release, ttt_read_release,
         ReadRelease, mfio_read_release, ReadInv, ReadShape, ReadPool, RdRecord
<1>4. ~Arrived'
  BY <1>3 DEF ReadInv, ReadShape, Arrival, Arrived
<1>5. Len(rd.data) \in Nat /\ MaxIn \in Nat /\ BuffSz \in Nat
  BY FdAssumption DEF ReadInv, ReadShape, ReadTypes
<1>6. driver = "mfio" => IF rd.closed THEN rd'.start = NULL
                         ELSE rd'.start \in 0..MaxIn /\ consumed = rd'.start
  <2> SUFFICES ASSUME driver = "mfio"
               PROVE  IF rd.closed THEN rd'.start = NULL
                      ELSE rd'.start \in 0..MaxIn /\ consumed = rd'.start
    OBVIOUS
  <2>1. rd'.start = rd.start + Len(rd.data) /\ rd.ready
    BY <1>3 DEF ReadInv, ReaderTypes
  <2>2. CASE rd.closed
    <3>1. rd.start = NULL /\ Len(rd.data) = 0
      BY <2>2 DEF ReadInv, ReadShape, Mapping
    <3> QED
      BY <2>1, <2>2, <3>1 DEF NULL
  <2>3. CASE ~rd.closed
    <3>1. consumed = rd.start + Len(rd.data) /\ rd.start \in 0..MaxIn /\ consumed \in 0..MaxIn
      BY <2>1, <2>3 DEF ReadInv, ReadShape, Mapping, ReadTypes
    <3> QED
      BY <2>1, <2>3, <3>1
  <2> QED
    BY <2>2, <2>3
<1>7. ReadTypes'
  <2>1. rd'.start \in NULL..MaxIn + BuffSz
    BY <1>3, <1>5, <1>6 DEF ReadInv, ReadShape, ReadTypes, NULL
  <2>2. rd'.ready \in BOOLEAN
    BY <1>3 DEF ReadInv, ReadShape, ReadTypes
  <2> QED
    BY <1>3, <2>1, <2>2 DEF ReadInv, ReadShape, ReadTypes
<1>8. Arrival'
  BY <1>3, <1>4 DEF ReadInv, ReadShape, Arrival
<1>9. Mapping'
  <2> SUFFICES ASSUME driver = "mfio" PROVE Mapping'
    BY DEF Mapping
  <2>1. rd'.ready = FALSE
    BY <1>3
  <2>2. CASE rd.closed
    BY <1>3, <1>6, <2>2 DEF ReadInv, ReadShape, Mapping
  <2>3. CASE ~rd.closed
    <3>1. rd'.start \in 0..MaxIn /\ consumed = rd'.start + 0
      BY <1>5, <1>6, <2>3
    <3> QED
      BY <1>3, <2>1, <2>3, <3>1 DEF Mapping
  <2> QED
    BY <2>2, <2>3
<1>10. ReadBounds'
  BY <1>3 DEF ReadInv, ReadShape, ReadBounds
<1>11. Holder' /\ ReaderTypes'
  BY <1>2 DEF ReadInv, Holder, ReaderTypes
<1>12. ASSUME Stream PROVE Stream'
  <2>1. Waiting = <<>> /\ Waiting' = <<>>
    BY <1>3 DEF Waiting
  <2>2. AtTheEnd'
    BY <1>4 DEF AtTheEnd
  <2>3. Far(delivered \o Waiting, consumed)' <=> Far(delivered \o Waiting, consumed)
    BY <2>1 DEF Far
  <2> QED
    BY <1>2, <1>12, <2>2, <2>3 DEF Stream, EndIsTheEnd
<1> QED
  BY <1>1, <1>7, <1>8, <1>9, <1>10, <1>11, <1>12 DEF ReadInv, ReadShape

\* The writing half does not touch what is read.
LEMMA SameReadInv ==
    ASSUME ReadInv, UNCHANGED <<driver, readVars>>
    PROVE  ReadInv' /\ (Stream => Stream')
<1>1. rd' = rd /\ reader' = reader /\ consumed' = consumed /\ delivered' = delivered
  BY DEF readVars
<1>2. ReadPool' /\ Holder'
  BY SameRead DEF ReadInv, ReadShape
<1>3. ReadTypes' /\ ReaderTypes' /\ Arrival' /\ Mapping' /\ ReadBounds'
  BY <1>1 DEF ReadInv, ReadShape, ReadTypes, ReaderTypes, Arrival, Arrived, Mapping, ReadBounds
<1>4. Stream => Stream'
  BY <1>1 DEF Stream, Increasing, Far, Waiting, AtTheEnd, Arrived, Room, EndIsTheEnd
<1> QED
  BY <1>2, <1>3, <1>4 DEF ReadInv, ReadShape

\* Every step keeps the invariant of the reading half, and the order.
LEMMA ReadNext ==
    ASSUME ReadInv, [Next]_vars
    PROVE  ReadInv' /\ (Stream /\ ~Persistent => Stream')
<1>1. CASE request_read
  BY <1>1, RequestShape DEF request_read
<1>2. CASE poll_read
  <2>1. PICK err \in Answers :
          /\ ~reader.failed /\ ~reader.holds
          /\ read_ready(err)
          /\ reader' = [reader EXCEPT !.failed = Refusal(err)]
          /\ UNCHANGED <<driver, delivered>>
    BY <1>2 DEF poll_read
  <2> QED
    BY <2>1, PollShape
<1>3. CASE acquire_read
  <2>1. PICK err \in Answers :
          /\ ~reader.failed /\ ~reader.holds
          /\ read_acquire(err)
          /\ err = "ENOERROR" =>
               /\ delivered' = delivered \o rd'.data
               /\ reader' = [reader EXCEPT !.holds = TRUE,
                                           !.eof = @ \/ (rd'.data = <<>> /\ Room > 0)]
          /\ err # "ENOERROR" =>
               /\ reader' = [reader EXCEPT !.failed = Refusal(err)]
               /\ UNCHANGED delivered
          /\ UNCHANGED driver
    BY <1>3 DEF acquire_read
  <2>2. PICK e \in ReadyErrors :
          /\ read_ready(e) /\ Fetched(e) = err
          /\ (err = "ENOERROR") <=> (e = "EREADY")
          /\ (err = "EINVALID") <=> (e = "EINVALID")
    BY <2>1, AcquireIsReady
  <2>3. CASE err = "ENOERROR"
    BY <2>1, <2>2, <2>3, AcquireShape
  <2>4. CASE err # "ENOERROR"
    BY <2>1, <2>2, <2>4, PollShape
  <2> QED
    BY <2>3, <2>4
<1>4. CASE release_read
  BY <1>4, ReleaseShape DEF release_read
<1>5. CASE \/ acquire_write \/ submit \/ poll_write \/ release_write \/ UNCHANGED vars
  <2>1. UNCHANGED <<driver, readVars>>
    BY <1>5 DEF acquire_write, submit, poll_write, release_write, vars
  <2> QED
    BY <2>1, SameReadInv
<1> QED
  BY <1>1, <1>2, <1>3, <1>4, <1>5 DEF Next

\* The reading half holds what it has read within its buffer, and its mapping ends
\* where the last read has come to, in every reachable state.
THEOREM ReadInvariant == Spec => []ReadInv
BY ReadInvInit, ReadNext, PTL DEF Spec

\* An application that stops reading at the first refusal gets the bytes of a
\* stream in order, each once and none left out, whatever the sizes, requests
\* and failures of read(); of datagrams it may miss the ends.
THEOREM InOrder == ~Persistent => (Spec => []ReadsInOrder)
<1> SUFFICES ASSUME ~Persistent PROVE Spec => []ReadsInOrder
  OBVIOUS
<1>1. Init => ReadInv /\ Stream
  BY ReadInvInit
<1>2. ReadInv /\ Stream /\ [Next]_vars => (ReadInv /\ Stream)'
  BY ReadNext
<1>3. Stream => ReadsInOrder
  BY DEF Stream, Far, Increasing, ReadsInOrder
<1> QED
  BY <1>1, <1>2, <1>3, PTL DEF Spec

\* and takes an empty buffer for the end of a stream only at its end.
THEOREM EndReached == ~Persistent => (Spec => []EndIsTheEnd)
<1> SUFFICES ASSUME ~Persistent PROVE Spec => []EndIsTheEnd
  OBVIOUS
<1>1. Init => ReadInv /\ Stream
  BY ReadInvInit
<1>2. ReadInv /\ Stream /\ [Next]_vars => (ReadInv /\ Stream)'
  BY ReadNext
<1>3. Stream => EndIsTheEnd
  BY DEF Stream
<1> QED
  BY <1>1, <1>2, <1>3, PTL DEF Spec

(***************************************************************************)
(* What the application writes and the descriptor gets.                    *)
(***************************************************************************)
\* FlattenSeq of the vectors that there are.
LEMMA FlattenNone == FlattenSeq(<<>>) = <<>>
BY DEF FlattenSeq

\* One sequence is itself.
LEMMA FlattenOne ==
    ASSUME NEW s, Len(s) = 1
    PROVE  FlattenSeq(s) = s[1]
<1> DEFINE G(f) == [i \in 1..Len(s) |-> IF i = 1 THEN s[i] ELSE f[i - 1] \o s[i]]
           w == [i \in 1..1 |-> s[1]]
<1>1. w = G(w)
  OBVIOUS
<1>2. (CHOOSE f : f = G(f)) = G(CHOOSE f : f = G(f))
  BY <1>1
<1>3. G(CHOOSE f : f = G(f))[1] = s[1]
  OBVIOUS
<1> HIDE DEF w
<1> QED
  BY <1>2, <1>3 DEF FlattenSeq

\* Two sequences are put together.
LEMMA FlattenTwo ==
    ASSUME NEW s, Len(s) = 2
    PROVE  FlattenSeq(s) = s[1] \o s[2]
<1> DEFINE G(f) == [i \in 1..Len(s) |-> IF i = 1 THEN s[i] ELSE f[i - 1] \o s[i]]
           w == [i \in 1..2 |-> IF i = 1 THEN s[1] ELSE s[1] \o s[2]]
<1>1. w = G(w)
  OBVIOUS
<1>2. PICK c : c = (CHOOSE f : f = G(f))
  OBVIOUS
<1>3. c = G(c)
  BY <1>1, <1>2
<1>4. c[1] = s[1]
  BY <1>3
<1>5. c[2] = c[1] \o s[2]
  BY <1>3
<1>6. FlattenSeq(s) = c[2]
  BY <1>2 DEF FlattenSeq
<1> QED
  BY <1>4, <1>5, <1>6

\* One buffer, or the channel's own and then another's.
LEMMA VectorIs ==
    ASSUME NEW vec \in Vectors
    PROVE  /\ vec \in Seq(Buffers) /\ Len(vec) \in {1, 2}
           /\ \A k \in 1..Len(vec) : vec[k] \in Buffers
           /\ Len(vec) = 1 => vec[1] \in Buffers /\ ToSet(vec) = {vec[1]}
           /\ Len(vec) = 2 => vec[1] = "own" /\ vec[2] = "foreign" /\ ToSet(vec) = Buffers
<1>1. CASE \E b \in Buffers : vec = <<b>>
  <2>1. PICK b \in Buffers : vec = <<b>>
    BY <1>1
  <2>2. vec \in Seq(Buffers) /\ Len(vec) = 1 /\ vec[1] = b
    BY <2>1
  <2>3. ToSet(vec) = {b}
    BY <2>1 DEF ToSet
  <2> QED
    BY <2>2, <2>3
<1>2. CASE vec = <<"own", "foreign">>
  <2>1. vec \in Seq(Buffers) /\ Len(vec) = 2 /\ vec[1] = "own" /\ vec[2] = "foreign"
    BY <1>2 DEF Buffers
  <2>2. ToSet(vec) = {vec[1], vec[2]}
    BY <1>2 DEF ToSet
  <2> QED
    BY <2>1, <2>2 DEF Buffers
<1> QED
  BY <1>1, <1>2, FdAssumption

Handed(b) == wr.registered /\ b \in ToSet(wr.req)

WriteTypes ==
    /\ wr.registered \in BOOLEAN /\ wr.acquired \in BOOLEAN /\ wr.closed \in BOOLEAN
    /\ wr.req \in Seq(Buffers)
    /\ wr.registered => wr.req \in Vectors
    /\ Handed("own") => holds
    /\ buff \in [Buffers -> Headers]
    /\ filled \in 0..MaxOut
    /\ wire \in Seq(0..MaxOut)

\* A header describes a part of its buffer, and unless the write of it is under
\* way it starts at the beginning; ttt leaves its header behind what it wrote.
\* In the mapped file, the application's window ends where it has written to.
Within(h) == h.start >= 0 /\ h.start + h.len <= BuffSz

HeaderBounds ==
    /\ driver # "mfio" => \A b \in Buffers :
         /\ Within(buff[b])
         /\ driver # "ttt" => Handed(b) \/ buff[b].start = 0
    /\ driver = "mfio" =>
         /\ buff["foreign"].start = 0
         /\ Handed("foreign") => buff["foreign"].len <= BuffSz
         /\ wr.closed => ~holds
         /\ ~wr.closed => buff["own"].start \in 0..filled
         /\ Handed("own") => buff["own"].start + buff["own"].len <= filled

WriteShape == WritePool /\ WriteTypes /\ HeaderBounds

\* The constants are numbers, and both buffers exist.
LEMMA Sizes ==
    /\ BuffSz \in Nat /\ BuffSz >= 1 /\ MaxIn \in Nat /\ MaxOut \in Nat
    /\ "own" \in Buffers /\ "foreign" \in Buffers
BY FdAssumption DEF Buffers

\* A header, by its fields.
LEMMA HeaderIs ==
    ASSUME NEW h \in Headers
    PROVE  /\ h.start \in Int /\ h.len \in Nat /\ h.mem \in [0..MaxOut + BuffSz -> 0..MaxOut]
           /\ h = [start |-> h.start, len |-> h.len, mem |-> h.mem]
BY DEF Headers

\* A header whose data_start and data_len are set.
LEMMA HeaderExcept ==
    ASSUME NEW h \in Headers, NEW s, NEW n
    PROVE  [h EXCEPT !.start = s, !.len = n] = [start |-> s, len |-> n, mem |-> h.mem]
<1>1. PICK x, y, z : h = [start |-> x, len |-> y, mem |-> z] /\ z = h.mem
  BY HeaderIs
<1>2. PICK a : a = [h EXCEPT !.start = s, !.len = n]
  OBVIOUS
<1>3. a = [start |-> s, len |-> n, mem |-> h.mem]
  BY <1>1, <1>2
<1> QED
  BY <1>2, <1>3

\* The data of a header that lies within its memory is as long as it says.
LEMMA DataSeq ==
    ASSUME NEW h \in Headers, h.start >= 0, h.start + h.len <= MaxOut + BuffSz
    PROVE  /\ Data(h) \in Seq(0..MaxOut) /\ Len(Data(h)) = h.len
           /\ \A k \in 1..h.len : Data(h)[k] = h.mem[h.start + k - 1]
<1>1. h.start \in Int /\ h.len \in Nat /\ h.mem \in [0..MaxOut + BuffSz -> 0..MaxOut]
  BY HeaderIs
<1>2. ASSUME NEW k \in 1..h.len PROVE h.mem[h.start + k - 1] \in 0..MaxOut
  <2>1. PICK a \in Int, n \in Nat, top \in Int :
          a = h.start /\ n = h.len /\ top = MaxOut + BuffSz
    BY <1>1, Sizes
  <2>2. a >= 0 /\ a + n <= top /\ k \in 1..n
    BY <2>1
  <2>3. a + k - 1 \in 0..top
    BY <2>2
  <2>4. h.start + k - 1 \in 0..MaxOut + BuffSz
    BY <2>1, <2>3
  <2> QED
    BY <1>1, <2>4
<1>3. Data(h) = [k \in 1..h.len |-> h.mem[h.start + k - 1]]
  BY DEF Data
<1>4. Data(h) \in [1..h.len -> 0..MaxOut]
  BY <1>2, <1>3
<1>5. Data(h) \in Seq(0..MaxOut) /\ Len(Data(h)) = h.len
  <2>1. PICK n \in Nat : n = h.len
    BY <1>1
  <2>2. PICK d : d = Data(h)
    OBVIOUS
  <2>3. d \in [1..n -> 0..MaxOut]
    BY <1>4, <2>1, <2>2
  <2>4. d \in Seq(0..MaxOut)
    BY <2>3, SeqDef
  <2>5. Len(d) \in Nat /\ 1..Len(d) = 1..n
    BY <2>3, <2>4, LenProperties
  <2>6. Len(d) = n
    BY <2>5
  <2> QED
    BY <2>1, <2>2, <2>4, <2>6
<1> QED
  BY <1>3, <1>5

\* What a write makes of the header of a buffer that went out completely, and
\* of which k bytes did.
Done(h) == IF driver = "ttt" THEN Emptied(h) ELSE WholeBuffer(h)

\* A partial write moves the start of a header and keeps its end.
LEMMA AdvanceIs ==
    ASSUME NEW h \in Headers, NEW k \in 0..h.len
    PROVE  /\ Advance(h, k) \in Headers
           /\ Advance(h, k).start = h.start + k /\ Advance(h, k).len = h.len - k
           /\ Advance(h, k).mem = h.mem
           /\ Within(h) => Within(Advance(h, k))
<1>1. h.start \in Int /\ h.len \in Nat /\ h.len - k \in Nat /\ h.start + k \in Int
  BY HeaderIs
<1>2. /\ Advance(h, k).start = h.start + k /\ Advance(h, k).len = h.len - k
      /\ Advance(h, k).mem = h.mem
      /\ Advance(h, k) = [start |-> h.start + k, len |-> h.len - k, mem |-> h.mem]
  <2>1. Advance(h, k) = [h EXCEPT !.start = h.start + k, !.len = h.len - k]
    BY DEF Advance
  <2>2. Advance(h, k) = [start |-> h.start + k, len |-> h.len - k, mem |-> h.mem]
    BY <2>1, HeaderIs
  <2> QED
    BY <2>2
<1>3. Advance(h, k) \in Headers
  BY <1>1, <1>2, HeaderIs DEF Headers
<1>4. Within(h) => Within(Advance(h, k))
  BY <1>1, <1>2, Sizes DEF Within
<1> QED
  BY <1>2, <1>3, <1>4

\* A header that is reset describes the whole buffer.
LEMMA WholeIs ==
    ASSUME NEW h \in Headers
    PROVE  /\ WholeBuffer(h) \in Headers /\ WholeBuffer(h).start = 0
           /\ WholeBuffer(h).len = BuffSz /\ Within(WholeBuffer(h))
<1>1. /\ WholeBuffer(h).start = 0 /\ WholeBuffer(h).len = BuffSz
      /\ WholeBuffer(h).mem = h.mem
      /\ WholeBuffer(h) = [start |-> 0, len |-> BuffSz, mem |-> h.mem]
  <2>1. WholeBuffer(h) = [start |-> 0, len |-> BuffSz, mem |-> h.mem]
    <3>1. WholeBuffer(h) = [h EXCEPT !.start = 0, !.len = BuffSz]
      BY DEF WholeBuffer
    <3> QED
      BY <3>1, HeaderIs
  <2> QED
    BY <2>1
<1> QED
  BY <1>1, HeaderIs, Sizes DEF Headers, Within

\* A header that went out completely still lies within its buffer.
LEMMA DoneIs ==
    ASSUME NEW h \in Headers
    PROVE  /\ Done(h) \in Headers /\ (Within(h) => Within(Done(h)))
           /\ driver # "ttt" => Done(h).start = 0
<1>1. h.len \in 0..h.len
  BY HeaderIs
<1> QED
  BY <1>1, AdvanceIs, WholeIs DEF Done, Emptied

(***************************************************************************)
(* One attempt to write.                                                   *)
(***************************************************************************)
\* The first records go out completely, and k bytes of the next one.
Tries(written(_), whole, k) ==
    LET gone == SubSeq(wr.req, 1, whole)
        next == IF whole < Len(wr.req) THEN {wr.req[whole + 1]} ELSE {}
    IN  /\ wire' = wire \o FlattenSeq([j \in 1..whole |-> Data(buff[gone[j]])])
                        \o (IF next = {} THEN <<>>
                            ELSE SubSeq(Data(buff[wr.req[whole + 1]]), 1, k))
        /\ buff' = [b \in Buffers |-> IF b \in ToSet(gone) THEN written(buff[b])
                                      ELSE IF b \in next THEN Advance(buff[b], k)
                                      ELSE buff[b]]
        /\ wr' = [wr EXCEPT !.registered = next # {}]

Tried(whole, k) == Tries(Done, whole, k)

MayTry(whole, k) ==
    /\ wr.registered /\ whole \in 0..Len(wr.req)
    /\ k \in Nat /\ (whole < Len(wr.req) => k < buff[wr.req[whole + 1]].len)

MfioTried ==
    /\ wr.registered /\ wr.req[1] = "own" /\ ~(buff[wr.req[1]].len > MaxIn)
    /\ wire' = wire \o Data(buff[wr.req[1]])
    /\ buff' = [buff EXCEPT ![wr.req[1]].start = @ + buff[wr.req[1]].len,
                            ![wr.req[1]].len = MaxIn - @]
    /\ wr' = [wr EXCEPT !.registered = FALSE]

WriteReadyResult ==
    \/ driver # "mfio" /\ \E whole, k : MayTry(whole, k) /\ Tried(whole, k)
    \/ driver = "mfio" /\ UNCHANGED <<wr, buff, wire>>
    \/ driver = "mfio" /\ MfioTried

\* write_ready of every driver is one attempt, of the mapped file also a refusal.
LEMMA WriteReadyTries ==
    ASSUME WriteTypes, NEW err, write_ready(err)
    PROVE  WriteReadyResult
<1>1. wr.registered
  BY DEF write_ready, tcp_write_ready, udp_write_ready, fio_write_ready, ttt_write_ready,
         mfio_write_ready, WriteReady
<1>2. BuffSz - 1 \in Int
  BY Sizes
<1>3. ASSUME driver \in {"tcp", "fio"}, NEW e \in Errors, WriteTry(WholeBuffer, TRUE, e)
      PROVE  WriteReadyResult
  <2>1. PICK whole \in 0..Len(wr.req) :
          \E k \in (IF whole < Len(wr.req)
                    THEN {j \in 0..BuffSz - 1 : j < buff[wr.req[whole + 1]].len /\ (j = 0 \/ TRUE)}
                    ELSE {0}) : Tries(WholeBuffer, whole, k)
    BY <1>3 DEF WriteTry, Tries
  <2>2. PICK k \in (IF whole < Len(wr.req)
                    THEN {j \in 0..BuffSz - 1 : j < buff[wr.req[whole + 1]].len /\ (j = 0 \/ TRUE)}
                    ELSE {0}) : Tries(WholeBuffer, whole, k)
    BY <2>1
  <2>3. MayTry(whole, k)
    BY <1>1, <1>2, <2>2 DEF MayTry
  <2>4. Tried(whole, k)
    BY <1>3, <2>2 DEF Tried, Tries, Done
  <2> QED
    BY <1>3, <2>3, <2>4 DEF WriteReadyResult
<1>4. ASSUME driver = "udp", NEW e \in Errors, WriteTry(WholeBuffer, FALSE, e)
      PROVE  WriteReadyResult
  <2>1. PICK whole \in 0..Len(wr.req) :
          \E k \in (IF whole < Len(wr.req)
                    THEN {j \in 0..BuffSz - 1 : j < buff[wr.req[whole + 1]].len /\ (j = 0 \/ FALSE)}
                    ELSE {0}) : Tries(WholeBuffer, whole, k)
    BY <1>4 DEF WriteTry, Tries
  <2>2. PICK k \in (IF whole < Len(wr.req)
                    THEN {j \in 0..BuffSz - 1 : j < buff[wr.req[whole + 1]].len /\ (j = 0 \/ FALSE)}
                    ELSE {0}) : Tries(WholeBuffer, whole, k)
    BY <2>1
  <2>3. MayTry(whole, k)
    BY <1>1, <1>2, <2>2 DEF MayTry
  <2>4. Tried(whole, k)
    BY <1>4, <2>2 DEF Tried, Tries, Done
  <2> QED
    BY <1>4, <2>3, <2>4 DEF WriteReadyResult
<1>5. ASSUME driver = "ttt", NEW e \in Errors, WriteTry(Emptied, TRUE, e)
      PROVE  WriteReadyResult
  <2>1. PICK whole \in 0..Len(wr.req) :
          \E k \in (IF whole < Len(wr.req)
                    THEN {j \in 0..BuffSz - 1 : j < buff[wr.req[whole + 1]].len /\ (j = 0 \/ TRUE)}
                    ELSE {0}) : Tries(Emptied, whole, k)
    BY <1>5 DEF WriteTry, Tries
  <2>2. PICK k \in (IF whole < Len(wr.req)
                    THEN {j \in 0..BuffSz - 1 : j < buff[wr.req[whole + 1]].len /\ (j = 0 \/ TRUE)}
                    ELSE {0}) : Tries(Emptied, whole, k)
    BY <2>1
  <2>3. MayTry(whole, k)
    BY <1>1, <1>2, <2>2 DEF MayTry
  <2>4. Tried(whole, k)
    BY <1>5, <2>2 DEF Tried, Tries, Done
  <2> QED
    BY <1>5, <2>3, <2>4 DEF WriteReadyResult
<1>6. CASE driver = "mfio" /\ \E e \in Errors : mfio_write_try(e)
  <2>1. PICK e \in Errors : mfio_write_try(e)
    BY <1>6
  <2>2. UNCHANGED <<wr, buff, wire>> \/ MfioTried
    BY <1>1, <2>1 DEF mfio_write_try, NotMine, MfioTried
  <2> QED
    BY <1>6, <2>2 DEF WriteReadyResult
<1>7. CASE driver = "tcp" /\ tcp_write_ready(err)
  <2>1. PICK e \in Errors : tcp_write_try(e)
    BY <1>7 DEF tcp_write_ready, WriteReady
  <2> QED
    BY <1>3, <1>7, <2>1 DEF tcp_write_try
<1>8. CASE driver = "udp" /\ udp_write_ready(err)
  <2>1. PICK e \in Errors : udp_write_try(e)
    BY <1>8 DEF udp_write_ready, WriteReady
  <2> QED
    BY <1>4, <1>8, <2>1 DEF udp_write_try
<1>9. CASE driver = "fio" /\ fio_write_ready(err)
  <2>1. PICK e \in Errors : fio_write_try(e)
    BY <1>9 DEF fio_write_ready, WriteReady
  <2> QED
    BY <1>3, <1>9, <2>1 DEF fio_write_try
<1>10. CASE driver = "ttt" /\ ttt_write_ready(err)
  <2>1. PICK e \in Errors : ttt_write_try(e)
    BY <1>10 DEF ttt_write_ready, WriteReady
  <2> QED
    BY <1>5, <1>10, <2>1 DEF ttt_write_try
<1>11. CASE driver = "mfio" /\ mfio_write_ready(err)
  BY <1>6, <1>11 DEF mfio_write_ready, WriteReady
<1> QED
  BY <1>7, <1>8, <1>9, <1>10, <1>11 DEF write_ready

\* The pieces of an attempt.
Gone(whole) == ToSet(SubSeq(wr.req, 1, whole))
Sent(whole) == FlattenSeq([j \in 1..whole |-> Data(buff[SubSeq(wr.req, 1, whole)[j]])])
Rest(whole, k) == IF whole < Len(wr.req) THEN SubSeq(Data(buff[wr.req[whole + 1]]), 1, k) ELSE <<>>

\* What an attempt does to each variable.
LEMMA TriedIs ==
    ASSUME WritePool, NEW whole, NEW k, Tried(whole, k)
    PROVE  /\ WrRecord' /\ wr'.pool = wr.pool /\ wr'.req = wr.req
           /\ wr'.acquired = wr.acquired /\ wr'.closed = wr.closed
           /\ wr'.registered = (whole < Len(wr.req))
           /\ wire' = (wire \o Sent(whole)) \o Rest(whole, k)
           /\ buff' = [b \in Buffers |->
                         IF b \in Gone(whole) THEN Done(buff[b])
                         ELSE IF whole < Len(wr.req) /\ b = wr.req[whole + 1]
                              THEN Advance(buff[b], k)
                         ELSE buff[b]]
<1> DEFINE gone == SubSeq(wr.req, 1, whole)
           next == IF whole < Len(wr.req) THEN {wr.req[whole + 1]} ELSE {}
<1>1. (next # {}) = (whole < Len(wr.req))
  OBVIOUS
<1>2. wr' = [wr EXCEPT !.registered = next # {}]
  BY DEF Tried, Tries
<1>3. wr' = [wr EXCEPT !.registered = whole < Len(wr.req)]
  BY <1>1, <1>2
<1>4. /\ WrRecord' /\ wr'.pool = wr.pool /\ wr'.req = wr.req
      /\ wr'.acquired = wr.acquired /\ wr'.closed = wr.closed
      /\ wr'.registered = (whole < Len(wr.req))
  BY <1>3 DEF WritePool, WrRecord
<1>5. wire' = (wire \o Sent(whole)) \o Rest(whole, k)
  BY <1>1 DEF Tried, Tries, Sent, Rest
<1>6. buff' = [b \in Buffers |-> IF b \in ToSet(gone) THEN Done(buff[b])
                                ELSE IF b \in next THEN Advance(buff[b], k)
                                ELSE buff[b]]
  BY DEF Tried, Tries
<1>7. \A b : b \in next <=> whole < Len(wr.req) /\ b = wr.req[whole + 1]
  OBVIOUS
<1> QED
  BY <1>4, <1>5, <1>6, <1>7 DEF Gone

\* The records that went out are the first ones of the vector.
LEMMA GoneIs ==
    ASSUME WriteTypes, NEW whole \in 0..Len(wr.req)
    PROVE  /\ SubSeq(wr.req, 1, whole) \in Seq(Buffers)
           /\ Len(SubSeq(wr.req, 1, whole)) = whole
           /\ \A j \in 1..whole : SubSeq(wr.req, 1, whole)[j] = wr.req[j]
           /\ Gone(whole) = {wr.req[j] : j \in 1..whole}
<1>1. wr.req \in Seq(Buffers) /\ Len(wr.req) \in Nat /\ whole \in Int /\ 1 \in Int
  BY DEF WriteTypes
<1>2. \A i \in 1..whole : wr.req[i] \in Buffers
  BY <1>1
<1>3. /\ SubSeq(wr.req, 1, whole) \in Seq(Buffers)
      /\ Len(SubSeq(wr.req, 1, whole)) = whole
      /\ \A j \in 1..whole : SubSeq(wr.req, 1, whole)[j] = wr.req[j]
  BY <1>1, <1>2, SubSeqProperties
<1>4. DOMAIN SubSeq(wr.req, 1, whole) = 1..whole
  BY <1>3
<1>5. Gone(whole) = {wr.req[j] : j \in 1..whole}
  BY <1>3, <1>4 DEF Gone, ToSet
<1> QED
  BY <1>3, <1>5

\* Every header stays within its buffer.
LEMMA TriedHeaders ==
    ASSUME WriteShape, driver # "mfio", NEW whole, NEW k, MayTry(whole, k), Tried(whole, k)
    PROVE  /\ buff' \in [Buffers -> Headers]
           /\ \A b \in Buffers : Within(buff'[b])
           /\ driver # "ttt" => \A b \in Buffers : Handed(b)' \/ buff'[b].start = 0
<1>1. /\ wr'.req = wr.req /\ wr'.registered = (whole < Len(wr.req))
      /\ buff' = [b \in Buffers |->
                    IF b \in Gone(whole) THEN Done(buff[b])
                    ELSE IF whole < Len(wr.req) /\ b = wr.req[whole + 1]
                         THEN Advance(buff[b], k)
                    ELSE buff[b]]
  BY TriedIs DEF WriteShape
<1>2. whole \in 0..Len(wr.req) /\ Len(wr.req) \in Nat /\ wr.registered
  BY DEF MayTry, WriteShape, WriteTypes
<1>3. Gone(whole) = {wr.req[j] : j \in 1..whole}
  BY <1>2, GoneIs DEF WriteShape
<1>4. ToSet(wr.req) = {wr.req[j] : j \in 1..Len(wr.req)}
  BY DEF ToSet, WriteShape, WriteTypes
<1>5. ASSUME NEW b \in Buffers
      PROVE  /\ buff'[b] \in Headers /\ Within(buff'[b])
             /\ driver # "ttt" => Handed(b)' \/ buff'[b].start = 0
  <2>1. /\ buff[b] \in Headers /\ Within(buff[b])
        /\ driver # "ttt" => Handed(b) \/ buff[b].start = 0
    BY DEF WriteShape, WriteTypes, HeaderBounds
  <2>2. CASE b \in Gone(whole)
    BY <1>1, <2>1, <2>2, DoneIs
  <2>3. CASE b \notin Gone(whole) /\ whole < Len(wr.req) /\ b = wr.req[whole + 1]
    <3>1. buff'[b] = Advance(buff[b], k)
      BY <1>1, <2>3
    <3>2. k \in 0..buff[b].len
      BY <2>1, <2>3, HeaderIs DEF MayTry
    <3>3. Handed(b)'
      <4>1. whole + 1 \in 1..Len(wr.req)
        BY <1>2, <2>3
      <4>2. b \in ToSet(wr.req)
        BY <1>4, <2>3, <4>1
      <4>3. wr'.registered
        BY <1>1, <2>3
      <4> QED
        BY <1>1, <4>2, <4>3 DEF Handed
    <3> QED
      BY <2>1, <3>1, <3>2, <3>3, AdvanceIs
  <2>4. CASE b \notin Gone(whole) /\ ~(whole < Len(wr.req) /\ b = wr.req[whole + 1])
    <3>1. buff'[b] = buff[b]
      BY <1>1, <2>4
    <3>2. Handed(b) => Handed(b)'
      <4> SUFFICES ASSUME b \in ToSet(wr.req) PROVE Handed(b)'
        BY DEF Handed
      <4>1. whole # Len(wr.req)
        BY <1>3, <1>4, <2>4
      <4>2. whole < Len(wr.req)
        BY <1>2, <4>1
      <4>3. wr'.registered
        BY <1>1, <4>2
      <4> QED
        BY <1>1, <4>3 DEF Handed
    <3> QED
      BY <2>1, <3>1, <3>2
  <2> QED
    BY <2>2, <2>3, <2>4
<1> QED
  BY <1>1, <1>5

\* What goes out of a buffer is of the right type.
LEMMA TriedWire ==
    ASSUME WriteShape, driver # "mfio", NEW whole, NEW k, MayTry(whole, k), Tried(whole, k)
    PROVE  wire' \in Seq(0..MaxOut)
<1> DEFINE S == 0..MaxOut
<1>1. /\ wr.registered /\ whole \in 0..Len(wr.req) /\ k \in Nat
      /\ whole < Len(wr.req) => k < buff[wr.req[whole + 1]].len
  BY DEF MayTry
<1>2. wr.req \in Vectors
  BY <1>1 DEF WriteShape, WriteTypes
<1>3. Len(wr.req) \in {1, 2} /\ \A j \in 1..Len(wr.req) : wr.req[j] \in Buffers
  BY <1>2, VectorIs
<1>4. ASSUME NEW b \in Buffers
      PROVE  Data(buff[b]) \in Seq(S) /\ Len(Data(buff[b])) = buff[b].len /\ buff[b].len \in Nat
  <2>1. buff[b] \in Headers /\ Within(buff[b])
    BY DEF WriteShape, WriteTypes, HeaderBounds
  <2>2. buff[b].start >= 0 /\ buff[b].start + buff[b].len <= MaxOut + BuffSz
    BY <2>1, HeaderIs, Sizes DEF Within
  <2> QED
    BY <2>1, <2>2, DataSeq, HeaderIs
<1>5. Sent(whole) \in Seq(S)
  <2> DEFINE d == [j \in 1..whole |-> Data(buff[SubSeq(wr.req, 1, whole)[j]])]
  <2>1. ASSUME NEW j \in 1..whole PROVE d[j] \in Seq(S)
    <3>1. j \in 1..Len(wr.req)
      BY <1>1, <1>3
    <3>2. SubSeq(wr.req, 1, whole)[j] = wr.req[j]
      BY <1>1, GoneIs DEF WriteShape
    <3>3. d[j] = Data(buff[wr.req[j]])
      BY <3>2
    <3> QED
      BY <1>3, <1>4, <3>1, <3>3
  <2>2. Sent(whole) = FlattenSeq(d)
    BY DEF Sent
  <2>3. CASE whole = 0
    <3>1. d = <<>>
      BY <2>3
    <3> HIDE DEF d
    <3>2. Sent(whole) = <<>>
      BY <2>2, <3>1, FlattenNone
    <3> QED
      BY <3>2
  <2>4. CASE whole = 1
    <3>1. Len(d) = 1
      BY <2>4
    <3>2. d[1] \in Seq(S)
      BY <2>1, <2>4
    <3> HIDE DEF d, S
    <3> QED
      BY <2>2, <3>1, <3>2, FlattenOne
  <2>5. CASE whole = 2
    <3>1. Len(d) = 2
      BY <2>5
    <3>2. d[1] \in Seq(S) /\ d[2] \in Seq(S)
      BY <2>1, <2>5
    <3> HIDE DEF d, S
    <3>3. Sent(whole) = d[1] \o d[2]
      BY <2>2, <3>1, FlattenTwo
    <3> QED
      BY <3>2, <3>3, ConcatProperties
  <2>6. whole \in {0, 1, 2}
    BY <1>1, <1>3
  <2> QED
    BY <2>3, <2>4, <2>5, <2>6
<1>6. Rest(whole, k) \in Seq(S)
  <2>1. CASE whole < Len(wr.req)
    <3>1. wr.req[whole + 1] \in Buffers
      BY <1>1, <1>3, <2>1
    <3>2. PICK s : s = Data(buff[wr.req[whole + 1]])
      OBVIOUS
    <3>3. s \in Seq(S) /\ k <= Len(s) /\ Len(s) \in Nat
      BY <1>1, <1>4, <2>1, <3>1, <3>2
    <3>4. ASSUME NEW i \in 1..k PROVE s[i] \in S
      <4>1. i \in 1..Len(s)
        BY <1>1, <3>3
      <4> HIDE DEF S
      <4> QED
        BY <3>3, <4>1, ElementOfSeq
    <3>5. SubSeq(s, 1, k) \in Seq(S)
      BY <1>1, <3>4, SubSeqProperties
    <3> QED
      BY <2>1, <3>2, <3>5 DEF Rest
  <2>2. CASE ~(whole < Len(wr.req))
    BY <2>2 DEF Rest
  <2> QED
    BY <2>1, <2>2
<1>7. wire \in Seq(S)
  BY DEF WriteShape, WriteTypes
<1>8. wire' = (wire \o Sent(whole)) \o Rest(whole, k)
  BY TriedIs DEF WriteShape
<1> HIDE DEF S
<1>9. wire' \in Seq(S)
  BY <1>5, <1>6, <1>7, <1>8, ConcatProperties
<1> QED
  BY <1>9 DEF S

(***************************************************************************)
(* The steps of the writing application.                                   *)
(***************************************************************************)
LEMMA WriteShapeInit == Init => WriteShape
<1> SUFFICES ASSUME Init PROVE WriteShape
  OBVIOUS
<1>1. WritePool
  BY InvInit DEF PoolInv
<1>2. /\ wr.registered = FALSE /\ wr.acquired = FALSE /\ wr.closed = FALSE /\ wr.req = <<>>
      /\ holds = FALSE /\ filled = 0 /\ wire = <<>>
  BY DEF Init
<1>3. PICK n \in Nat : n = IF driver = "mfio" THEN MaxIn ELSE 0
  BY Sizes
<1>4. \A b \in Buffers :
        buff[b] = [start |-> 0, len |-> n, mem |-> [o \in 0..MaxOut + BuffSz |-> 0]]
  BY <1>3 DEF Init
<1>5. [o \in 0..MaxOut + BuffSz |-> 0] \in [0..MaxOut + BuffSz -> 0..MaxOut]
  BY Sizes
<1>6. ASSUME NEW b \in Buffers
      PROVE  buff[b] \in Headers /\ buff[b].start = 0 /\ buff[b].len = n
  BY <1>4, <1>5 DEF Headers
<1>7. buff \in [Buffers -> Headers]
  BY <1>6 DEF Init
<1>8. WriteTypes
  <2>1. filled \in 0..MaxOut /\ wire \in Seq(0..MaxOut) /\ wr.req \in Seq(Buffers)
    BY <1>2, Sizes
  <2> QED
    BY <1>2, <1>7, <2>1 DEF WriteTypes, Handed
<1>9. HeaderBounds
  BY <1>2, <1>3, <1>6, Sizes DEF HeaderBounds, Within, Handed
<1> QED
  BY <1>1, <1>8, <1>9 DEF WriteShape

\* write_acquire describes the whole buffer, or leaves the header of a ttt
\* buffer as it is; the mapped file's may be closed instead.
LEMMA AcquireWriteShape ==
    ASSUME WriteShape, ~holds, NEW err, write_acquire(err), holds' = (err = "ENOERROR"),
           UNCHANGED <<driver, filled, wire>>
    PROVE  /\ WriteShape'
           /\ wr'.registered = wr.registered /\ wr'.req = wr.req
           /\ \A b \in Buffers : Handed(b) => buff'[b] = buff[b]
<1> USE Sizes
<1>1. WritePool'
  BY AcquireWritePool DEF WriteShape
<1>2. ~Handed("own")
  BY DEF WriteShape, WriteTypes
<1>3. buff \in [Buffers -> Headers] /\ buff["own"] \in Headers
  BY DEF WriteShape, WriteTypes
<1>4. CASE driver # "mfio"
  <2> DEFINE Puts(h) == /\ wr' = [wr EXCEPT !.pool = acquire(wr.pool)]
                        /\ buff' = [buff EXCEPT !["own"] = h]
                        /\ err = "ENOERROR"
  <2>11. ASSUME WriteAcquire(WholeBuffer), err = "ENOERROR" PROVE Puts(WholeBuffer(buff["own"]))
    BY <2>11 DEF WriteAcquire
  <2>12. ASSUME WriteAcquire(SameHeader), err = "ENOERROR" PROVE Puts(buff["own"])
    BY <2>12 DEF WriteAcquire, SameHeader
  <2>13. Puts(WholeBuffer(buff["own"])) \/ (driver = "ttt" /\ Puts(buff["own"]))
    BY <1>4, <2>11, <2>12 DEF write_acquire, tcp_write_acquire, udp_write_acquire,
                            fio_write_acquire, ttt_write_acquire
  <2>1. PICK h : /\ h = WholeBuffer(buff["own"]) \/ (driver = "ttt" /\ h = buff["own"])
                 /\ Puts(h)
    BY <2>13
  <2>2. h \in Headers /\ (driver # "ttt" => h.start = 0) /\ Within(h)
    BY <1>3, <1>4, <2>1, WholeIs DEF WriteShape, HeaderBounds
  <2>3. /\ wr'.registered = wr.registered /\ wr'.req = wr.req
        /\ wr'.acquired = wr.acquired /\ wr'.closed = wr.closed
    BY <2>1 DEF WriteShape, WritePool, WrRecord
  <2>4. /\ buff' \in [Buffers -> Headers]
        /\ \A b \in Buffers : buff'[b] = IF b = "own" THEN h ELSE buff[b]
    BY <1>3, <2>1, <2>2
  <2>5. WriteTypes'
    BY <2>1, <2>3, <2>4 DEF WriteShape, WriteTypes, Handed
  <2>6. HeaderBounds'
    BY <1>4, <2>2, <2>3, <2>4 DEF WriteShape, HeaderBounds, Handed
  <2> QED
    BY <1>1, <1>2, <2>3, <2>4, <2>5, <2>6 DEF WriteShape
<1>5. CASE driver = "mfio" /\ err = "ENOERROR" /\ buff' = buff /\ ~wr.closed
           /\ wr' = [wr EXCEPT !.acquired = TRUE]
  <2>1. /\ wr'.registered = wr.registered /\ wr'.req = wr.req
        /\ wr'.acquired = TRUE /\ wr'.closed = wr.closed
    BY <1>5 DEF WriteShape, WritePool, WrRecord
  <2>2. WriteTypes'
    BY <1>5, <2>1 DEF WriteShape, WriteTypes, Handed
  <2>3. HeaderBounds'
    BY <1>5, <2>1 DEF WriteShape, HeaderBounds, Handed
  <2> QED
    BY <1>1, <1>5, <2>1, <2>2, <2>3 DEF WriteShape
<1>6. CASE /\ driver = "mfio" /\ err = "ECLOSED" /\ wr' = [wr EXCEPT !.closed = TRUE]
           /\ buff' = IF wr.closed THEN buff
                      ELSE [buff EXCEPT !["own"].start = NULL, !["own"].len = 0]
  <2>1. /\ wr'.registered = wr.registered /\ wr'.req = wr.req
        /\ wr'.acquired = wr.acquired /\ wr'.closed = TRUE /\ holds' = FALSE
    BY <1>6 DEF WriteShape, WritePool, WrRecord
  <2>2. /\ buff' \in [Buffers -> Headers]
        /\ \A b \in Buffers : b # "own" => buff'[b] = buff[b]
    <3>1. CASE wr.closed
      BY <1>3, <1>6, <3>1
    <3>2. CASE ~wr.closed
      <4>1. PICK h : h = [start |-> NULL, len |-> 0, mem |-> buff["own"].mem]
        OBVIOUS
      <4>2. h \in Headers
        BY <1>3, <4>1, HeaderIs DEF Headers, NULL
      <4>3. buff' = [buff EXCEPT !["own"] = h]
        <5>1. buff' = [buff EXCEPT !["own"].start = NULL, !["own"].len = 0]
          BY <1>6, <3>2
        <5>2. h = [buff["own"] EXCEPT !.start = NULL, !.len = 0]
          BY <1>3, <4>1, HeaderExcept
        <5> QED
          BY <1>3, <5>1, <5>2
      <4> QED
        BY <1>3, <4>2, <4>3
    <3> QED
      BY <3>1, <3>2
  <2>3. WriteTypes'
    BY <1>2, <2>1, <2>2 DEF WriteShape, WriteTypes, Handed
  <2>4. HeaderBounds'
    BY <1>2, <1>6, <2>1, <2>2 DEF WriteShape, HeaderBounds, Handed
  <2> QED
    BY <1>1, <1>2, <2>1, <2>2, <2>3, <2>4 DEF WriteShape
<1> QED
  BY <1>4, <1>5, <1>6 DEF write_acquire, mfio_write_acquire

\* The application fills and hands over a vector of buffers.
LEMMA FillIs ==
    ASSUME NEW b \in Buffers, buff[b] \in Headers, NEW n \in Nat, NEW first \in Nat,
           NEW start \in Nat, start = (IF driver = "ttt" THEN 0 ELSE buff[b].start),
           first + n <= MaxOut, start + n <= MaxOut + BuffSz
    PROVE  /\ Fill(b, n, first) \in Headers
           /\ Fill(b, n, first).start = start /\ Fill(b, n, first).len = n
           /\ Data(Fill(b, n, first)) = Bytes(first, n)
<1> DEFINE h == Fill(b, n, first)
<1>1. MaxOut \in Nat /\ BuffSz \in Nat
  BY Sizes
<1>2. buff[b].mem \in [0..MaxOut + BuffSz -> 0..MaxOut]
  BY HeaderIs
<1>3. h = [start |-> start, len |-> n,
           mem |-> [o \in DOMAIN buff[b].mem |->
                      IF o \in start..start + n - 1 THEN first + (o - start) + 1
                      ELSE buff[b].mem[o]]]
  BY DEF Fill
<1>4. h.mem \in [0..MaxOut + BuffSz -> 0..MaxOut]
  <2> SUFFICES ASSUME NEW o \in 0..MaxOut + BuffSz
               PROVE  (IF o \in start..start + n - 1 THEN first + (o - start) + 1
                       ELSE buff[b].mem[o]) \in 0..MaxOut
    BY <1>2, <1>3
  <2>1. o \in start..start + n - 1 => first + (o - start) + 1 \in 0..MaxOut
    BY <1>1
  <2> QED
    BY <1>2, <2>1
<1>5. h.start = start /\ h.len = n
  BY <1>3
<1>6. h \in Headers
  <2>1. h = [start |-> h.start, len |-> h.len, mem |-> h.mem]
    BY <1>3
  <2> HIDE DEF h
  <2> QED
    BY <1>4, <1>5, <2>1 DEF Headers
<1>7. ASSUME NEW k \in 1..n PROVE h.mem[h.start + k - 1] = first + k
  <2>1. start + k - 1 \in 0..MaxOut + BuffSz /\ start + k - 1 \in start..start + n - 1
    BY <1>1
  <2>2. PICK o : o = start + k - 1
    OBVIOUS
  <2>3. o \in DOMAIN buff[b].mem /\ o \in start..start + n - 1
    BY <1>2, <2>1, <2>2
  <2>4. h.mem = [x \in DOMAIN buff[b].mem |->
                   IF x \in start..start + n - 1 THEN first + (x - start) + 1
                   ELSE buff[b].mem[x]]
    BY <1>3
  <2> HIDE DEF h
  <2>5. h.mem[o] = first + (o - start) + 1
    BY <2>3, <2>4
  <2>6. first + (o - start) + 1 = first + k /\ h.start + k - 1 = o
    BY <1>5, <2>2
  <2> QED
    BY <2>5, <2>6
<1>8. Data(h) = [k \in 1..n |-> first + k]
  <2> HIDE DEF h
  <2>1. Data(h) = [k \in 1..n |-> h.mem[h.start + k - 1]]
    BY <1>5 DEF Data
  <2> QED
    BY <1>7, <2>1
<1> QED
  BY <1>5, <1>6, <1>8 DEF Bytes

Filled(vec, total) ==
    /\ vec \in Vectors /\ total \in Nat /\ total >= 1
    /\ "own" \in ToSet(vec) => holds
    /\ filled' = filled + total /\ filled + total <= MaxOut
    /\ \A b \in ToSet(vec) :
         \E m \in 1..BuffSz, p \in Nat :
            p + m <= total /\ buff'[b] = Fill(b, m, filled + p)
    /\ Len(vec) = 1 => total <= BuffSz /\ buff'[vec[1]] = Fill(vec[1], total, filled)
    /\ buff' = [b \in Buffers |-> IF b \in ToSet(vec) THEN buff'[b] ELSE buff[b]]
    /\ write_request(vec)
    /\ UNCHANGED <<driver, readVars, holds, wire>>

Submits(vec, n) ==
    LET Nth(b)    == CHOOSE k \in 1..Len(vec) : vec[k] = b
        Before(k) == IF k = 1 THEN 0 ELSE n[1]
        total     == Before(Len(vec)) + n[Len(vec)]
    IN  /\ "own" \in ToSet(vec) => holds
        /\ filled + total <= MaxOut
        /\ write_request(vec)
        /\ buff' = [b \in Buffers |-> IF b \notin ToSet(vec) THEN buff[b]
                       ELSE Fill(b, n[Nth(b)], filled + Before(Nth(b)))]
        /\ filled' = filled + total
        /\ UNCHANGED <<driver, readVars, holds, wire>>

\* A vector is filled with the bytes that come next, each buffer with its part.
LEMMA SubmitFills ==
    ASSUME WriteTypes, submit
    PROVE  \E vec, total : Filled(vec, total)
<1>0. PICK vec \in Vectors : \E n \in [1..Len(vec) -> 1..BuffSz] : Submits(vec, n)
  BY DEF submit, Submits
<1>1. PICK n \in [1..Len(vec) -> 1..BuffSz] : Submits(vec, n)
  BY <1>0
<1> DEFINE Nth(b)    == CHOOSE k \in 1..Len(vec) : vec[k] = b
           Before(k) == IF k = 1 THEN 0 ELSE n[1]
           total     == Before(Len(vec)) + n[Len(vec)]
<1>2. /\ "own" \in ToSet(vec) => holds
      /\ filled + total <= MaxOut
      /\ write_request(vec)
      /\ buff' = [b \in Buffers |-> IF b \notin ToSet(vec) THEN buff[b]
                     ELSE Fill(b, n[Nth(b)], filled + Before(Nth(b)))]
      /\ filled' = filled + total
      /\ UNCHANGED <<driver, readVars, holds, wire>>
  BY <1>1 DEF Submits
<1>3. filled \in Nat /\ BuffSz \in Nat
  BY Sizes DEF WriteTypes
<1>4. buff' = [b \in Buffers |-> IF b \in ToSet(vec) THEN buff'[b] ELSE buff[b]]
  BY <1>2
<1>5. CASE Len(vec) = 1
  <2>1. vec[1] \in Buffers /\ ToSet(vec) = {vec[1]}
    BY <1>5, VectorIs
  <2>2. n[1] \in 1..BuffSz /\ total = n[1]
    BY <1>3, <1>5
  <2>3. Nth(vec[1]) = 1
    BY <1>5
  <2>4. filled + Before(1) = filled
    BY <1>3
  <2>5. buff'[vec[1]] = Fill(vec[1], n[Nth(vec[1])], filled + Before(Nth(vec[1])))
    BY <1>2, <2>1
  <2>6. buff'[vec[1]] = Fill(vec[1], n[1], filled)
    BY <2>3, <2>4, <2>5
  <2>7. PICK m \in 1..BuffSz : m = n[1]
    BY <2>2
  <2> HIDE DEF Nth, Before, total
  <2>8. filled + 0 = filled /\ 0 + m <= m /\ m \in Nat /\ m >= 1 /\ m <= BuffSz
    BY <1>3
  <2>9. Filled(vec, m)
    BY <1>2, <1>4, <1>5, <2>1, <2>2, <2>6, <2>7, <2>8 DEF Filled
  <2> QED
    BY <2>9
<1>6. CASE Len(vec) = 2
  <2>1. vec[1] = "own" /\ vec[2] = "foreign" /\ ToSet(vec) = Buffers
    BY <1>6, VectorIs
  <2>2. PICK m \in 1..BuffSz, q \in 1..BuffSz : m = n[1] /\ q = n[2]
    BY <1>6
  <2>3. total = m + q
    BY <1>6, <2>2
  <2>4. Nth("own") = 1
    BY <1>6, <2>1
  <2>5. Nth("foreign") = 2
    BY <1>6, <2>1
  <2>6. /\ buff'["own"] = Fill("own", n[Nth("own")], filled + Before(Nth("own")))
        /\ buff'["foreign"] = Fill("foreign", n[Nth("foreign")], filled + Before(Nth("foreign")))
    BY <1>2, <2>1 DEF Buffers
  <2>7. buff'["own"] = Fill("own", m, filled + 0)
    BY <2>2, <2>4, <2>6
  <2>8. buff'["foreign"] = Fill("foreign", q, filled + m)
    <3>1. Before(2) = m
      BY <2>2
    <3>2. n[Nth("foreign")] = q /\ Before(Nth("foreign")) = m
      BY <2>2, <2>5, <3>1
    <3> HIDE DEF Nth, Before
    <3> QED
      BY <2>6, <3>2
  <2> HIDE DEF Nth, Before, total
  <2>9. /\ m + q \in Nat /\ m + q >= 1 /\ 0 + m <= m + q /\ m + q <= m + q /\ m \in Nat
        /\ filled + 0 = filled
    BY <1>3
  <2>10. ASSUME NEW b \in ToSet(vec)
         PROVE  \E m2 \in 1..BuffSz, p \in Nat :
                  p + m2 <= m + q /\ buff'[b] = Fill(b, m2, filled + p)
    BY <2>1, <2>7, <2>8, <2>9 DEF Buffers
  <2>11. Filled(vec, m + q)
    BY <1>2, <1>4, <1>6, <2>3, <2>9, <2>10 DEF Filled
  <2> QED
    BY <2>11
<1> QED
  BY <1>5, <1>6, VectorIs

\* With vectors of one record, the descriptor has what was handed over up to a
\* point, and the buffer that is being written the rest of it.
OneRecord == Vectors \subseteq {<<b>> : b \in Buffers}

Written ==
    /\ wire = Bytes(0, Len(wire))
    /\ ~wr.registered => Len(wire) = filled
    /\ wr.registered =>
         /\ buff[wr.req[1]].len = filled - Len(wire)
         /\ Data(buff[wr.req[1]]) = Bytes(Len(wire), buff[wr.req[1]].len)

\* A vector of such an application has one record.
LEMMA OneRecordIs ==
    ASSUME OneRecord, NEW vec \in Vectors
    PROVE  Len(vec) = 1
BY DEF OneRecord

\* A vector that is handed over describes bytes that lie within the buffers.
LEMMA SubmitShape ==
    ASSUME WriteShape, submit
    PROVE  WriteShape' /\ (OneRecord /\ Written => Written')
<1>1. PICK vec, total : Filled(vec, total)
  BY SubmitFills DEF WriteShape
<1>2. /\ wr.registered = FALSE
      /\ wr'.registered = TRUE /\ wr'.req = vec /\ wr'.pool = wr.pool
      /\ wr'.acquired = wr.acquired /\ wr'.closed = wr.closed /\ WrRecord'
      /\ driver = "mfio" => Len(vec) = 1
  BY <1>1 DEF Filled, write_request, tcp_write_request, udp_write_request, fio_write_request,
              ttt_write_request, mfio_write_request, RegisterWrite, WriteShape, WritePool,
              WrRecord, WriteTypes
<1>3. /\ vec \in Vectors /\ total \in Nat /\ total >= 1
      /\ "own" \in ToSet(vec) => holds
      /\ filled' = filled + total /\ filled + total <= MaxOut
      /\ \A b \in ToSet(vec) :
           \E m \in 1..BuffSz, p \in Nat :
              p + m <= total /\ buff'[b] = Fill(b, m, filled + p)
      /\ Len(vec) = 1 => total <= BuffSz /\ buff'[vec[1]] = Fill(vec[1], total, filled)
      /\ buff' = [b \in Buffers |-> IF b \in ToSet(vec) THEN buff'[b] ELSE buff[b]]
      /\ driver' = driver /\ holds' = holds /\ wire' = wire
  BY <1>1 DEF Filled
<1>4. WritePool'
  BY <1>2, <1>3, SameWritePool DEF WriteShape
<1>5. filled \in Nat /\ filled <= MaxOut /\ BuffSz \in Nat /\ MaxOut \in Nat
  BY Sizes DEF WriteShape, WriteTypes
<1>6. \A b : ~Handed(b) /\ (Handed(b)' <=> b \in ToSet(vec))
  BY <1>2 DEF Handed
<1>7. ASSUME NEW b \in ToSet(vec)
      PROVE  /\ b \in Buffers /\ buff[b] \in Headers
             /\ driver \notin {"mfio", "ttt"} => buff[b].start = 0
             /\ driver = "mfio" => buff[b].start \in 0..filled
  <2>1. b \in Buffers /\ buff[b] \in Headers
    BY <1>3, VectorIs DEF WriteShape, WriteTypes
  <2>2. driver \notin {"mfio", "ttt"} => buff[b].start = 0
    BY <1>6, <2>1 DEF WriteShape, HeaderBounds
  <2>3. driver = "mfio" => buff[b].start \in 0..filled
    <3> SUFFICES ASSUME driver = "mfio" PROVE buff[b].start \in 0..filled
      OBVIOUS
    <3>1. CASE b = "own"
      BY <1>3, <3>1 DEF WriteShape, HeaderBounds
    <3>2. CASE b = "foreign"
      BY <1>5, <3>2 DEF WriteShape, HeaderBounds
    <3> QED
      BY <2>1, <3>1, <3>2 DEF Buffers
  <2> QED
    BY <2>1, <2>2, <2>3
<1>8. ASSUME NEW b \in ToSet(vec), NEW m \in 1..BuffSz, NEW p \in Nat, p + m <= total
      PROVE  LET f == Fill(b, m, filled + p)
             IN  /\ f \in Headers /\ f.len = m /\ f.start >= 0
                 /\ driver # "mfio" => f.start = 0
                 /\ driver = "mfio" => f.start = buff[b].start
                 /\ Data(f) = Bytes(filled + p, m)
  <2>1. PICK start \in Nat : /\ start = IF driver = "ttt" THEN 0 ELSE buff[b].start
                             /\ start <= MaxOut
    <3>1. CASE driver = "mfio"
      BY <1>5, <1>7, <3>1
    <3>2. CASE driver # "mfio"
      BY <1>5, <1>7, <3>2
    <3> QED
      BY <3>1, <3>2
  <2>2. /\ filled + p \in Nat /\ m \in Nat
        /\ (filled + p) + m <= MaxOut /\ start + m <= MaxOut + BuffSz
    <3>1. total \in Nat /\ filled + total <= MaxOut
      BY <1>3
    <3>2. filled + p \in Nat /\ m \in Nat /\ m <= BuffSz
      BY <1>5
    <3>3. (filled + p) + m <= MaxOut
      BY <1>5, <1>8, <3>1, <3>2
    <3>4. start + m <= MaxOut + BuffSz
      BY <1>5, <2>1, <3>2
    <3> QED
      BY <3>2, <3>3, <3>4
  <2>3. LET f == Fill(b, m, filled + p)
        IN  f \in Headers /\ f.start = start /\ f.len = m /\ Data(f) = Bytes(filled + p, m)
    BY <1>7, <2>1, <2>2, FillIs
  <2>4. (driver # "mfio" => start = 0) /\ (driver = "mfio" => start = buff[b].start)
    BY <1>7, <2>1
  <2> QED
    BY <2>1, <2>3, <2>4
<1>9. ASSUME NEW b \in Buffers PROVE buff'[b] \in Headers
  <2>1. CASE b \in ToSet(vec)
    <3>1. PICK m \in 1..BuffSz, p \in Nat : p + m <= total /\ buff'[b] = Fill(b, m, filled + p)
      BY <1>3, <2>1
    <3> QED
      BY <1>8, <2>1, <3>1
  <2>2. CASE b \notin ToSet(vec)
    <3>1. buff'[b] = buff[b]
      BY <1>3, <2>2
    <3> QED
      BY <3>1 DEF WriteShape, WriteTypes
  <2> QED
    BY <2>1, <2>2
<1>10. WriteTypes'
  <2>1. buff' \in [Buffers -> Headers]
    BY <1>3, <1>9
  <2>2. vec \in Seq(Buffers)
    BY <1>3, VectorIs
  <2>3. filled' \in 0..MaxOut
    BY <1>3, <1>5
  <2> QED
    BY <1>2, <1>3, <2>1, <2>2, <2>3 DEF WriteShape, WriteTypes, Handed
<1>11. HeaderBounds'
  <2>1. ASSUME driver # "mfio", NEW b \in Buffers
        PROVE  Within(buff'[b]) /\ (driver # "ttt" => Handed(b)' \/ buff'[b].start = 0)
    <3>1. CASE b \in ToSet(vec)
      <4>1. PICK m \in 1..BuffSz, p \in Nat : p + m <= total /\ buff'[b] = Fill(b, m, filled + p)
        BY <1>3, <3>1
      <4>2. buff'[b].len = m /\ buff'[b].start = 0
        BY <1>8, <2>1, <3>1, <4>1
      <4> QED
        BY <1>5, <4>2 DEF Within
    <3>2. CASE b \notin ToSet(vec)
      <4>1. buff'[b] = buff[b]
        BY <1>3, <2>1, <3>2
      <4> QED
        BY <1>6, <2>1, <4>1 DEF WriteShape, HeaderBounds
    <3> QED
      BY <3>1, <3>2
  <2>2. ASSUME driver = "mfio"
        PROVE  /\ buff'["foreign"].start = 0
               /\ Handed("foreign")' => buff'["foreign"].len <= BuffSz
               /\ wr'.closed => ~holds'
               /\ ~wr'.closed => buff'["own"].start \in 0..filled'
               /\ Handed("own")' => buff'["own"].start + buff'["own"].len <= filled'
    <3>1. /\ buff["foreign"].start = 0 /\ (wr.closed => ~holds)
          /\ ~wr.closed => buff["own"].start \in 0..filled
      BY <2>2 DEF WriteShape, HeaderBounds
    <3>2. ASSUME NEW b \in ToSet(vec)
          PROVE  /\ buff'[b].start = buff[b].start /\ buff'[b].len = total /\ total <= BuffSz
      <4>1. vec[1] = b /\ Len(vec) = 1
        BY <1>2, <1>3, <2>2, <3>2, VectorIs
      <4>2. PICK m \in 1..BuffSz : m = total
        BY <1>3, <4>1
      <4>3. buff'[b] = Fill(b, m, filled + 0)
        BY <1>3, <1>5, <4>1, <4>2
      <4>4. 0 + m <= total
        BY <4>2
      <4> QED
        BY <1>3, <1>8, <2>2, <4>1, <4>2, <4>3, <4>4
    <3>3. ASSUME NEW b \in Buffers, b \notin ToSet(vec) PROVE buff'[b] = buff[b]
      BY <1>3, <3>3
    <3>4. buff'["foreign"].start = 0 /\ (Handed("foreign")' => buff'["foreign"].len <= BuffSz)
      BY <1>6, <3>1, <3>2, <3>3, Sizes
    <3>5. ~wr'.closed => buff'["own"].start \in 0..filled'
      <4>1. buff'["own"].start = buff["own"].start
        BY <3>2, <3>3, Sizes
      <4> QED
        BY <1>2, <1>3, <1>5, <3>1, <4>1
    <3>6. Handed("own")' => buff'["own"].start + buff'["own"].len <= filled'
      <4> SUFFICES ASSUME "own" \in ToSet(vec)
                   PROVE  buff'["own"].start + buff'["own"].len <= filled'
        BY <1>6
      <4>1. buff'["own"].start = buff["own"].start /\ buff'["own"].len = total
        BY <3>2
      <4>2. buff["own"].start \in 0..filled
        BY <1>3, <3>1
      <4> QED
        BY <1>3, <1>5, <4>1, <4>2
    <3> QED
      BY <1>2, <1>3, <3>1, <3>4, <3>5, <3>6
  <2> QED
    BY <1>3, <2>1, <2>2 DEF HeaderBounds
<1>12. ASSUME OneRecord, Written PROVE Written'
  <2>1. Len(vec) = 1 /\ vec[1] \in ToSet(vec)
    BY <1>3, <1>12, OneRecordIs, VectorIs
  <2>2. PICK m \in 1..BuffSz : m = total
    BY <1>3, <2>1
  <2>3. buff'[vec[1]] = Fill(vec[1], m, filled + 0) /\ filled + 0 = filled /\ 0 + m <= total
    BY <1>3, <1>5, <2>1, <2>2
  <2>4. buff'[vec[1]].len = m /\ Data(buff'[vec[1]]) = Bytes(filled, m)
    BY <1>8, <2>1, <2>2, <2>3
  <2>5. wire = Bytes(0, Len(wire)) /\ Len(wire) = filled
    BY <1>2, <1>12 DEF Written
  <2>6. m = filled' - filled
    BY <1>3, <1>5, <2>2
  <2>7. Data(buff[wr.req[1]])' = Data(buff'[vec[1]])
    BY <1>2 DEF Data
  <2> QED
    BY <1>2, <1>3, <2>4, <2>5, <2>6, <2>7 DEF Written
<1> QED
  BY <1>4, <1>10, <1>11, <1>12 DEF WriteShape

\* The mapped file moves its window past what the application wrote.
LEMMA MfioTriedIs ==
    ASSUME WriteShape, driver = "mfio", MfioTried
    PROVE  /\ WrRecord' /\ wr'.pool = wr.pool /\ wr'.req = wr.req
           /\ wr'.acquired = wr.acquired /\ wr'.closed = wr.closed
           /\ wr'.registered = FALSE
           /\ wr.req[1] = "own" /\ Handed("own") /\ ~wr.closed
           /\ wire' = wire \o Data(buff["own"])
           /\ Data(buff["own"]) \in Seq(0..MaxOut)
           /\ buff' \in [Buffers -> Headers]
           /\ buff'["own"].start = buff["own"].start + buff["own"].len
           /\ buff'["foreign"] = buff["foreign"]
<1>1. /\ wr.registered /\ wr.req[1] = "own" /\ ~(buff["own"].len > MaxIn)
      /\ wire' = wire \o Data(buff["own"])
      /\ buff' = [buff EXCEPT !["own"].start = @ + buff["own"].len,
                              !["own"].len = MaxIn - @]
      /\ wr' = [wr EXCEPT !.registered = FALSE]
  BY DEF MfioTried
<1>2. /\ WrRecord' /\ wr'.pool = wr.pool /\ wr'.req = wr.req
      /\ wr'.acquired = wr.acquired /\ wr'.closed = wr.closed
      /\ wr'.registered = FALSE
  BY <1>1 DEF WriteShape, WritePool, WrRecord
<1>3. Handed("own")
  <2>1. wr.req \in Vectors
    BY <1>1 DEF WriteShape, WriteTypes
  <2>2. Len(wr.req) \in {1, 2}
    BY <2>1, VectorIs
  <2>3. 1 \in 1..Len(wr.req)
    <3>1. \A n \in {1, 2} : 1 \in 1..n
      OBVIOUS
    <3> QED
      BY <2>2, <3>1
  <2>4. "own" \in ToSet(wr.req)
    BY <1>1, <2>3 DEF ToSet, WriteShape, WriteTypes
  <2> QED
    BY <1>1, <2>4 DEF Handed
<1>4. ~wr.closed
  BY <1>3 DEF WriteShape, WriteTypes, HeaderBounds
<1>5. /\ buff \in [Buffers -> Headers] /\ filled \in 0..MaxOut
      /\ buff["own"].start \in 0..filled
      /\ buff["own"].start + buff["own"].len <= filled
  BY <1>3, <1>4 DEF WriteShape, WriteTypes, HeaderBounds
<1>6. PICK h \in Headers : h = buff["own"]
  BY <1>5, Sizes
<1>7. /\ h.start \in Nat /\ h.len \in Nat /\ h.len <= MaxIn
      /\ h.start + h.len <= filled /\ filled <= MaxOut
  BY <1>1, <1>5, <1>6, HeaderIs, Sizes
<1>8. Data(h) \in Seq(0..MaxOut)
  <2>1. h.start >= 0 /\ h.start + h.len <= MaxOut + BuffSz
    <3>1. BuffSz \in Nat /\ MaxOut \in Nat /\ filled \in Nat
      BY <1>5, Sizes
    <3> QED
      BY <1>7, <3>1
  <2> QED
    BY <2>1, DataSeq
<1>9. PICK g : g = [start |-> h.start + h.len, len |-> MaxIn - h.len, mem |-> h.mem]
  OBVIOUS
<1>10. g \in Headers /\ g.start = h.start + h.len
  BY <1>7, <1>9, HeaderIs, Sizes DEF Headers
<1>11. buff' = [buff EXCEPT !["own"] = g]
  <2>1. g = [h EXCEPT !.start = h.start + h.len, !.len = MaxIn - h.len]
    BY <1>9, HeaderExcept
  <2>2. g = [h EXCEPT !.start = @ + h.len, !.len = MaxIn - @]
    BY <2>1, HeaderIs
  <2> QED
    BY <1>1, <1>5, <1>6, <2>2
<1>12. buff' \in [Buffers -> Headers] /\ buff'["own"] = g /\ buff'["foreign"] = buff["foreign"]
  BY <1>5, <1>10, <1>11, Sizes
<1> QED
  BY <1>1, <1>2, <1>3, <1>4, <1>6, <1>8, <1>10, <1>12

\* An attempt to write keeps every header within its buffer.
LEMMA PollWriteShape ==
    ASSUME WriteShape, WriteReadyResult, UNCHANGED <<driver, holds, filled>>
    PROVE  WriteShape'
<1>1. CASE driver = "mfio" /\ UNCHANGED <<wr, buff, wire>>
  BY <1>1 DEF WriteShape, WritePool, WrRecord, WriteTypes, HeaderBounds, Handed
<1>2. CASE driver = "mfio" /\ MfioTried
  <2>1. /\ WrRecord' /\ wr'.pool = wr.pool /\ wr'.req = wr.req
        /\ wr'.acquired = wr.acquired /\ wr'.closed = wr.closed
        /\ wr'.registered = FALSE
        /\ Handed("own") /\ ~wr.closed
        /\ wire' = wire \o Data(buff["own"])
        /\ Data(buff["own"]) \in Seq(0..MaxOut)
        /\ buff' \in [Buffers -> Headers]
        /\ buff'["own"].start = buff["own"].start + buff["own"].len
        /\ buff'["foreign"] = buff["foreign"]
    BY <1>2, MfioTriedIs
  <2>2. WritePool'
    BY <2>1, SameWritePool DEF WriteShape
  <2>3. ~Handed("own")' /\ ~Handed("foreign")'
    BY <2>1 DEF Handed
  <2>4. wire' \in Seq(0..MaxOut)
    BY <2>1, ConcatProperties DEF WriteShape, WriteTypes
  <2>5. WriteTypes'
    BY <2>1, <2>3, <2>4 DEF WriteShape, WriteTypes
  <2>6. buff'["own"].start \in 0..filled'
    <3>1. /\ buff["own"] \in Headers /\ filled \in 0..MaxOut
          /\ buff["own"].start \in 0..filled
          /\ buff["own"].start + buff["own"].len <= filled
      BY <1>2, <2>1, Sizes DEF WriteShape, WriteTypes, HeaderBounds
    <3>2. buff["own"].len \in Nat
      BY <3>1, HeaderIs
    <3> QED
      BY <2>1, <3>1, <3>2
  <2>7. HeaderBounds'
    BY <1>2, <2>1, <2>3, <2>6 DEF WriteShape, HeaderBounds
  <2> QED
    BY <2>2, <2>5, <2>7 DEF WriteShape
<1>3. ASSUME driver # "mfio", NEW whole, NEW k, MayTry(whole, k), Tried(whole, k)
      PROVE  WriteShape'
  <2>1. /\ WrRecord' /\ wr'.pool = wr.pool /\ wr'.req = wr.req
        /\ wr'.acquired = wr.acquired /\ wr'.closed = wr.closed
        /\ wr'.registered = (whole < Len(wr.req))
    BY <1>3, TriedIs DEF WriteShape
  <2>2. WritePool'
    BY <2>1, SameWritePool DEF WriteShape
  <2>3. /\ buff' \in [Buffers -> Headers] /\ wire' \in Seq(0..MaxOut)
        /\ \A b \in Buffers : Within(buff'[b])
        /\ driver # "ttt" => \A b \in Buffers : Handed(b)' \/ buff'[b].start = 0
    BY <1>3, TriedHeaders, TriedWire
  <2>4. wr.registered /\ wr'.registered \in BOOLEAN
    BY <1>3, <2>1 DEF MayTry
  <2>5. Handed("own")' => Handed("own")
    BY <2>1, <2>4 DEF Handed
  <2>6. WriteTypes'
    BY <2>1, <2>3, <2>4, <2>5 DEF WriteShape, WriteTypes
  <2>7. HeaderBounds'
    BY <1>3, <2>3 DEF HeaderBounds
  <2> QED
    BY <2>2, <2>6, <2>7 DEF WriteShape
<1> QED
  BY <1>1, <1>2, <1>3 DEF WriteReadyResult

\* With one record, an attempt takes all of it or a first part.
LEMMA PollWritten ==
    ASSUME WriteShape, OneRecord, Written, WriteReadyResult, UNCHANGED <<driver, holds, filled>>
    PROVE  Written'
<1>1. CASE UNCHANGED <<wr, buff, wire>>
  BY <1>1 DEF Written, Data
<1>2. ASSUME wr.registered
      PROVE  /\ wr.req \in Vectors /\ Len(wr.req) = 1 /\ wr.req[1] \in Buffers
             /\ ToSet(wr.req) = {wr.req[1]}
             /\ Len(wire) \in Nat /\ filled \in Nat /\ Len(wire) <= filled
             /\ buff[wr.req[1]] \in Headers /\ buff[wr.req[1]].len \in Nat
             /\ wire = Bytes(0, Len(wire))
             /\ buff[wr.req[1]].len = filled - Len(wire)
             /\ Data(buff[wr.req[1]]) = Bytes(Len(wire), buff[wr.req[1]].len)
  <2>1. wr.req \in Vectors
    BY <1>2 DEF WriteShape, WriteTypes
  <2>2. Len(wr.req) = 1 /\ wr.req[1] \in Buffers /\ ToSet(wr.req) = {wr.req[1]}
    BY <2>1, OneRecordIs, VectorIs
  <2>3. wire \in Seq(0..MaxOut) /\ filled \in 0..MaxOut /\ buff[wr.req[1]] \in Headers
    BY <2>2 DEF WriteShape, WriteTypes
  <2>4. Len(wire) \in Nat /\ filled \in Nat /\ buff[wr.req[1]].len \in Nat
    BY <2>3, HeaderIs, LenProperties, Sizes
  <2>5. /\ wire = Bytes(0, Len(wire))
        /\ buff[wr.req[1]].len = filled - Len(wire)
        /\ Data(buff[wr.req[1]]) = Bytes(Len(wire), buff[wr.req[1]].len)
    BY <1>2 DEF Written
  <2>6. Len(wire) <= filled
    BY <2>4, <2>5
  <2> QED
    BY <2>1, <2>2, <2>3, <2>4, <2>5, <2>6
\* n more bytes of the record have gone out.
<1>3. ASSUME wr.registered, NEW n \in Nat, n <= buff[wr.req[1]].len,
             wire' = wire \o Bytes(Len(wire), n)
      PROVE  Len(wire') = Len(wire) + n /\ wire' = Bytes(0, Len(wire'))
  <2>1. PICK c \in Nat : c = Len(wire) /\ wire = Bytes(0, c)
    BY <1>2, <1>3
  <2>2. wire' = Bytes(0, c) \o Bytes(0 + c, n)
    BY <1>3, <2>1
  <2>3. wire' = Bytes(0, c + n)
    BY <2>2, BytesConcat
  <2>4. PICK t \in Nat : t = c + n
    OBVIOUS
  <2>5. wire' = Bytes(0, t) /\ Len(Bytes(0, t)) = t
    BY <2>3, <2>4, BytesSeq
  <2> QED
    BY <2>1, <2>4, <2>5
<1>4. ASSUME wr.registered, wr'.registered = FALSE,
             wire' = wire \o Data(buff[wr.req[1]])
      PROVE  Written'
  <2>1. PICK n \in Nat : n = buff[wr.req[1]].len /\ n = filled - Len(wire)
    BY <1>2, <1>4
  <2>2. wire' = wire \o Bytes(Len(wire), n)
    BY <1>2, <1>4, <2>1
  <2>3. Len(wire') = Len(wire) + n /\ wire' = Bytes(0, Len(wire'))
    <3>1. n <= buff[wr.req[1]].len
      <4>1. n <= n
        OBVIOUS
      <4> QED
        BY <2>1, <4>1
    <3> QED
      BY <1>3, <1>4, <2>2, <3>1
  <2>4. Len(wire') = filled'
    BY <1>2, <1>4, <2>1, <2>3
  <2> QED
    BY <1>4, <2>3, <2>4 DEF Written
<1>5. CASE driver = "mfio" /\ MfioTried
  <2>1. /\ wr'.registered = FALSE /\ wr.registered /\ wr.req[1] = "own"
        /\ wire' = wire \o Data(buff["own"])
    BY <1>5, MfioTriedIs DEF Handed
  <2> QED
    BY <1>4, <2>1
<1>6. ASSUME driver # "mfio", NEW whole, NEW k, MayTry(whole, k), Tried(whole, k)
      PROVE  Written'
  <2>1. /\ wr'.req = wr.req /\ wr'.registered = (whole < Len(wr.req))
        /\ wire' = (wire \o Sent(whole)) \o Rest(whole, k)
        /\ buff' = [b \in Buffers |->
                      IF b \in Gone(whole) THEN Done(buff[b])
                      ELSE IF whole < Len(wr.req) /\ b = wr.req[whole + 1]
                           THEN Advance(buff[b], k)
                      ELSE buff[b]]
    BY <1>6, TriedIs DEF WriteShape
  <2>2. /\ wr.registered /\ whole \in 0..1 /\ Len(wr.req) = 1 /\ k \in Nat
        /\ whole < 1 => k < buff[wr.req[1 + whole]].len
    <3>1. /\ wr.registered /\ whole \in 0..Len(wr.req) /\ k \in Nat
          /\ whole < Len(wr.req) => k < buff[wr.req[whole + 1]].len
      BY <1>6 DEF MayTry
    <3>2. Len(wr.req) = 1
      BY <1>2, <3>1
    <3>3. whole \in 0..1 /\ whole + 1 = 1 + whole
      BY <3>1, <3>2
    <3> QED
      BY <3>1, <3>2, <3>3
  <2>3. PICK b \in Buffers : b = wr.req[1]
    BY <1>2, <2>2
  <2>4. PICK s : s = Data(buff[b])
    OBVIOUS
  <2>5. PICK c \in Nat, l \in Nat : /\ c = Len(wire) /\ l = buff[b].len /\ l = filled - c
    BY <1>2, <2>2, <2>3
  <2>6. /\ s = Bytes(c, l) /\ s \in Seq(Nat) /\ Len(s) = l
        /\ wire = Bytes(0, c) /\ wire \in Seq(0..MaxOut)
    <3>1. s = Bytes(c, l) /\ wire = Bytes(0, c)
      BY <1>2, <2>2, <2>3, <2>4, <2>5
    <3>2. Bytes(c, l) \in Seq(Nat) /\ Len(Bytes(c, l)) = l
      BY DEF Bytes
    <3> QED
      BY <3>1, <3>2 DEF WriteShape, WriteTypes
  <2>7. CASE whole = 1
    <3>1. wr'.registered = FALSE /\ Rest(whole, k) = <<>>
      <4>1. (whole < Len(wr.req)) = FALSE
        BY <2>2, <2>7
      <4> QED
        BY <2>1, <4>1 DEF Rest
    <3>2. Sent(whole) = s
      <4> DEFINE f(j) == Data(buff[SubSeq(wr.req, 1, whole)[j]])
                 d    == [j \in 1..1 |-> f(j)]
      <4>1. Sent(whole) = FlattenSeq(d)
        BY <2>7 DEF Sent
      <4>2. Len(d) = 1
        OBVIOUS
      <4>3. SubSeq(wr.req, 1, whole)[1] = b
        <5>1. whole \in 0..Len(wr.req) /\ 1 \in 1..whole
          BY <2>2, <2>7
        <5> QED
          BY <2>3, <5>1, GoneIs DEF WriteShape
      <4>4. d[1] = s
        <5>1. f(1) = s
          BY <2>4, <4>3
        <5> HIDE DEF f
        <5> QED
          BY <5>1
      <4> HIDE DEF d
      <4> QED
        BY <4>1, <4>2, <4>4, FlattenOne
    <3>3. wire \o s \in Seq(Nat)
      <4>1. wire \in Seq(Nat)
        BY <2>6 DEF Bytes
      <4> QED
        BY <2>6, <4>1, ConcatProperties
    <3>4. (wire \o s) \o <<>> = wire \o s
      BY <3>3
    <3>5. wire' = wire \o s
      BY <2>1, <3>1, <3>2, <3>4
    <3> QED
      BY <1>4, <2>2, <2>3, <2>4, <3>1, <3>5
  <2>8. CASE whole = 0
    <3>1. wr'.registered = TRUE /\ k < l /\ Rest(whole, k) = SubSeq(s, 1, k)
      <4>1. (whole < Len(wr.req)) = TRUE /\ whole + 1 = 1 /\ 1 + whole = 1 /\ whole < 1
        BY <2>2, <2>8
      <4>2. Rest(whole, k) = SubSeq(s, 1, k)
        BY <2>3, <2>4, <4>1 DEF Rest
      <4>3. k < l
        BY <2>2, <2>3, <2>5, <4>1
      <4> QED
        BY <2>1, <4>1, <4>2, <4>3
    <3>2. Sent(whole) = <<>>
      <4> DEFINE d == [j \in 1..whole |-> Data(buff[SubSeq(wr.req, 1, whole)[j]])]
      <4>1. Sent(whole) = FlattenSeq(d)
        BY DEF Sent
      <4>2. d = <<>>
        BY <2>8
      <4> HIDE DEF d
      <4> QED
        BY <4>1, <4>2, FlattenNone
    <3>3. wire \o <<>> = wire
      BY <2>6
    <3>4. SubSeq(s, 1, k) = Bytes(c, k)
      <4>1. \A i \in 1..k : s[i] = c + i
        BY <2>2, <2>6, <3>1 DEF Bytes
      <4>2. \A i \in 1..k : s[i] \in Nat
        BY <2>2, <4>1
      <4>3. PICK u : u = SubSeq(s, 1, k)
        OBVIOUS
      <4>4. u \in Seq(Nat) /\ Len(u) = k /\ \A i \in 1..k : u[i] = s[i]
        <5>1. /\ SubSeq(s, 1, k) \in Seq(Nat)
              /\ Len(SubSeq(s, 1, k)) = IF 1 <= k THEN k - 1 + 1 ELSE 0
              /\ \A i \in 1..k - 1 + 1 : SubSeq(s, 1, k)[i] = s[1 + i - 1]
          BY <2>2, <4>2, SubSeqProperties
        <5>2. \A i \in 1..k : i \in 1..k - 1 + 1 /\ 1 + i - 1 = i
          BY <2>2
        <5>3. \A i \in 1..k : u[i] = s[i]
          BY <4>3, <5>1, <5>2
        <5> QED
          BY <2>2, <4>3, <5>1, <5>3
      <4>5. /\ Bytes(c, k) \in Seq(Nat) /\ Len(Bytes(c, k)) = k
            /\ \A i \in 1..k : Bytes(c, k)[i] = c + i
        BY <2>2 DEF Bytes
      <4>6. \A i \in 1..Len(u) : u[i] = Bytes(c, k)[i]
        BY <4>1, <4>4, <4>5
      <4> QED
        BY <4>3, <4>4, <4>5, <4>6, SeqEqual
    <3>5. wire' = wire \o Bytes(Len(wire), k)
      BY <2>1, <2>5, <3>1, <3>2, <3>3, <3>4
    <3>6. Len(wire') = c + k /\ wire' = Bytes(0, Len(wire'))
      <4>1. k <= buff[wr.req[1]].len
        BY <2>2, <2>3, <2>5, <3>1
      <4> QED
        BY <1>3, <2>2, <2>5, <3>5, <4>1
    <3>7. Gone(whole) = {}
      <4>1. whole \in 0..Len(wr.req) /\ {wr.req[j] : j \in 1..whole} = {}
        BY <2>2, <2>8
      <4> QED
        BY <4>1, GoneIs DEF WriteShape
    <3>8. buff'[b] = Advance(buff[b], k)
      <4>1. whole < Len(wr.req) /\ b = wr.req[whole + 1]
        BY <2>2, <2>3, <2>8
      <4> QED
        BY <2>1, <3>7, <4>1
    <3>9. PICK h \in Headers : h = buff[b] /\ h.len = l /\ h.start \in Int
      BY <1>2, <2>2, <2>3, <2>5, HeaderIs
    <3>10. PICK g : g = Advance(h, k) /\ g.start = h.start + k /\ g.len = l - k /\ g.mem = h.mem
      <4>1. k \in 0..h.len
        BY <2>2, <3>1, <3>9
      <4> QED
        BY <3>9, <4>1, AdvanceIs
    <3>11. Data(g) = Bytes(c + k, l - k)
      <4>1. ASSUME NEW i \in 1..l - k PROVE g.mem[g.start + i - 1] = (c + k) + i
        <5>1. k + i \in 1..l /\ g.start + i - 1 = h.start + (k + i) - 1
          <6>1. k \in Nat /\ l \in Nat /\ k < l /\ i \in Nat /\ i >= 1 /\ i <= l - k
            BY <2>2, <2>5, <3>1
          <6>2. h.start \in Int /\ g.start = h.start + k
            BY <3>9, <3>10
          <6> QED
            BY <6>1, <6>2
        <5>2. s[k + i] = h.mem[h.start + (k + i) - 1]
          BY <2>4, <3>9, <5>1 DEF Data
        <5>3. s[k + i] = c + (k + i)
          BY <2>6, <5>1 DEF Bytes
        <5>4. g.mem[g.start + i - 1] = c + (k + i)
          BY <3>10, <5>1, <5>2, <5>3
        <5>5. c + (k + i) = (c + k) + i
          BY <2>2, <2>5
        <5> QED
          BY <5>4, <5>5
      <4>2. Data(g) = [i \in 1..l - k |-> g.mem[g.start + i - 1]]
        BY <3>10 DEF Data
      <4> QED
        BY <4>1, <4>2 DEF Bytes
    <3>12. l - k = filled' - (c + k)
      BY <1>2, <2>2, <2>5
    <3>13. (buff[wr.req[1]])' = g
      BY <2>1, <2>3, <3>8, <3>9, <3>10
    <3>14. Data(buff[wr.req[1]])' = Data(g)
      BY <3>13 DEF Data
    <3>15. (buff[wr.req[1]].len)' = l - k
      BY <3>10, <3>13
    <3> QED
      BY <3>1, <3>6, <3>11, <3>12, <3>14, <3>15 DEF Written
  <2> QED
    BY <2>2, <2>7, <2>8
<1> QED
  BY <1>1, <1>5, <1>6 DEF WriteReadyResult

\* A step that leaves the writing half alone, but perhaps for who has its buffer.
LEMMA SameWriteShape ==
    ASSUME WriteShape, WritePool', UNCHANGED <<driver, buff, filled, wire>>,
           wr'.registered = wr.registered, wr'.req = wr.req, wr'.closed = wr.closed,
           wr'.acquired \in BOOLEAN, holds' = holds \/ (holds' = FALSE /\ ~Handed("own"))
    PROVE  WriteShape' /\ (Written => Written')
<1>1. \A b : Handed(b)' <=> Handed(b)
  BY DEF Handed
<1>2. WriteTypes'
  BY <1>1 DEF WriteShape, WriteTypes
<1>3. HeaderBounds'
  BY <1>1 DEF WriteShape, HeaderBounds
<1>4. Written => Written'
  BY DEF Written, Data
<1> QED
  BY <1>2, <1>3, <1>4 DEF WriteShape

\* Every step keeps the invariant of the writing half, and the order.
LEMMA WriteNext ==
    WriteShape /\ [Next]_vars => WriteShape' /\ (OneRecord /\ Written => Written')
<1> SUFFICES ASSUME WriteShape, [Next]_vars
             PROVE  WriteShape' /\ (OneRecord /\ Written => Written')
  OBVIOUS
<1>1. CASE UNCHANGED <<driver, writeVars>>
  <2>1. UNCHANGED <<driver, wr, buff, holds, filled, wire>>
    BY <1>1 DEF writeVars
  <2>2. WritePool'
    BY <1>1, SameWrite DEF WriteShape
  <2> QED
    BY <2>1, <2>2, SameWriteShape DEF WriteShape, WriteTypes
<1>2. CASE acquire_write
  <2>1. PICK err : ~holds /\ write_acquire(err) /\ holds' = (err = "ENOERROR")
    BY <1>2 DEF acquire_write
  <2>2. UNCHANGED <<driver, filled, wire>>
    BY <1>2 DEF acquire_write
  <2>3. /\ WriteShape'
        /\ wr'.registered = wr.registered /\ wr'.req = wr.req
        /\ \A b \in Buffers : Handed(b) => buff'[b] = buff[b]
    BY <2>1, <2>2, AcquireWriteShape
  <2>4. ASSUME OneRecord, Written PROVE Written'
    <3>1. CASE ~wr.registered
      BY <2>2, <2>3, <2>4, <3>1 DEF Written
    <3>2. CASE wr.registered
      <4>1. wr.req \in Vectors
        BY <3>2 DEF WriteShape, WriteTypes
      <4>2. wr.req[1] \in Buffers /\ wr.req[1] \in ToSet(wr.req)
        BY <2>4, <4>1, OneRecordIs, VectorIs
      <4>3. (buff[wr.req[1]])' = buff[wr.req[1]]
        BY <2>3, <3>2, <4>2 DEF Handed
      <4>4. Data(buff[wr.req[1]])' = Data(buff[wr.req[1]])
        BY <4>3 DEF Data
      <4> QED
        BY <2>2, <2>3, <2>4, <3>2, <4>3, <4>4 DEF Written
    <3> QED
      BY <3>1, <3>2
  <2> QED
    BY <2>3, <2>4
<1>3. CASE submit
  BY <1>3, SubmitShape
<1>4. CASE poll_write
  <2>1. PICK err : write_ready(err)
    BY <1>4 DEF poll_write
  <2>2. WriteReadyResult
    BY <2>1, WriteReadyTries DEF WriteShape
  <2>3. UNCHANGED <<driver, holds, filled>>
    BY <1>4 DEF poll_write
  <2> QED
    BY <2>2, <2>3, PollWriteShape, PollWritten
<1>5. CASE release_write
  <2>1. /\ holds /\ ~Handed("own") /\ write_release /\ holds' = FALSE
        /\ UNCHANGED <<driver, buff, filled, wire>>
    BY <1>5 DEF release_write, Handed
  <2>2. WritePool'
    BY <2>1, ReleaseWritePool DEF WriteShape
  <2>3. /\ wr'.registered = wr.registered /\ wr'.req = wr.req /\ wr'.closed = wr.closed
        /\ wr'.acquired \in BOOLEAN
    <3>1. CASE WriteRelease
      BY <3>1 DEF WriteRelease, WriteShape, WritePool, WrRecord, WriteTypes
    <3>2. CASE mfio_write_release
      BY <3>2 DEF mfio_write_release, WriteShape, WritePool, WrRecord
    <3> QED
      BY <2>1, <3>1, <3>2 DEF write_release, tcp_write_release, udp_write_release,
                              fio_write_release, ttt_write_release
  <2> QED
    BY <2>1, <2>2, <2>3, SameWriteShape
<1>6. \/ UNCHANGED <<driver, writeVars>>
      \/ acquire_write \/ submit \/ poll_write \/ release_write
  BY DEF Next, vars, request_read, poll_read, acquire_read, release_read
<1> QED
  BY <1>1, <1>2, <1>3, <1>4, <1>5, <1>6

\* Every header that the application or a write is given describes a part of its
\* buffer, in every reachable state.
THEOREM WriteInvariant == Spec => []WriteShape
<1>1. Init => WriteShape
  BY WriteShapeInit
<1>2. WriteShape /\ [Next]_vars => WriteShape'
  BY WriteNext
<1> QED
  BY <1>1, <1>2, PTL DEF Spec

\* With one buffer per write, the descriptor gets the bytes in the order in which
\* the application handed them over, each once, through partial writes, refusals
\* and retries (write_try of every driver).  A vector of two is begun again from
\* its first record, which is why it is left out.
THEOREM WrittenInOrder == OneRecord => (Spec => []WritesInOrder)
<1> SUFFICES ASSUME OneRecord PROVE Spec => []WritesInOrder
  OBVIOUS
<1>1. Init => WriteShape /\ Written
  <2> SUFFICES ASSUME Init PROVE Written
    BY WriteShapeInit
  <2>1. wire = <<>> /\ filled = 0 /\ wr.registered = FALSE
    BY DEF Init
  <2>2. Len(wire) = 0 /\ wire = Bytes(0, 0)
    BY <2>1, BytesSeq
  <2> QED
    BY <2>1, <2>2 DEF Written
<1>2. WriteShape /\ Written /\ [Next]_vars => (WriteShape /\ Written)'
  BY WriteNext
<1>3. WriteShape /\ Written => WritesInOrder
  BY DEF Written, WritesInOrder
<1> QED
  BY <1>1, <1>2, <1>3, PTL DEF Spec

\* No read() gets more room than its buffer has left, and no write is given more
\* than its buffer holds, for requests of any size and offset (read_peek and
\* write_acquire of tcp, udp and fio).
THEOREM WithinBuffers == Spec => []InBounds
<1>1. ReadInv /\ WriteShape => InBounds
  <2> SUFFICES ASSUME ReadInv, WriteShape, driver \in {"tcp", "udp", "fio"}
               PROVE  /\ rd.start + Len(rd.data) <= BuffSz
                      /\ buff["own"].start + buff["own"].len <= BuffSz
    BY DEF InBounds
  <2>1. rd.start + Len(rd.data) <= BuffSz
    BY DEF ReadInv, ReadShape, ReadBounds
  <2>2. Within(buff["own"])
    BY Sizes DEF WriteShape, HeaderBounds
  <2> QED
    BY <2>1, <2>2 DEF Within
<1> QED
  BY <1>1, ReadInvariant, WriteInvariant, PTL

\* A pool of one buffer is one of Pools.
LEMMA PoolTyped ==
    ASSUME NEW pool, NEW used \in BOOLEAN, PoolIs(pool, used)
    PROVE  pool \in Pools
<1>1. PICK c, t, a, u : /\ pool = [buffer_count |-> c, alloc_tail_idx |-> t,
                                   alloc_count |-> a, in_use |-> u]
                        /\ c = pool.buffer_count /\ t = pool.alloc_tail_idx
                        /\ a = pool.alloc_count /\ u = pool.in_use
  BY DEF PoolIs
<1>2. c = 1 /\ t = 0 /\ a \in 0..1
  BY <1>1 DEF PoolIs
<1>3. PICK f : f = pool.in_use
  OBVIOUS
<1>4. pool.in_use \in [{0} -> BOOLEAN]
  BY DEF PoolIs
<1> QED
  BY <1>1, <1>2, <1>4 DEF Pools

\* Every variable of a channel and its application keeps its type.
THEOREM Typed == Spec => []TypeOK
<1> DEFINE Driver == driver \in Drivers
<1>1. Init => Driver
  BY DEF Init
<1>2. Driver /\ [Next]_vars => Driver'
  BY DEF Next, vars, request_read, poll_read, acquire_read, release_read,
         acquire_write, submit, poll_write, release_write
<1>3. ReadInv /\ WriteShape /\ Driver => TypeOK
  <2> SUFFICES ASSUME ReadInv, WriteShape, Driver PROVE TypeOK
    OBVIOUS
  <2>1. rd.pool \in Pools /\ wr.pool \in Pools
    <3>1. (rd.buffer # NULL) \in BOOLEAN /\ PoolIs(rd.pool, rd.buffer # NULL)
      BY DEF ReadInv, ReadShape, ReadPool
    <3>2. (driver # "mfio" /\ holds) \in BOOLEAN /\ PoolIs(wr.pool, driver # "mfio" /\ holds)
      BY DEF WriteShape, WritePool
    <3> QED
      BY <3>1, <3>2, PoolTyped
  <2>2. rd \in [pool : Pools, buffer : {NULL, 0}, registered : BOOLEAN,
                req : ReadRequests, ready : BOOLEAN, closed : BOOLEAN,
                start : NULL..MaxIn + BuffSz, data : Seq(1..MaxIn)]
    BY <2>1 DEF ReadInv, ReadShape, ReadPool, ReadTypes, RdRecord
  <2>3. wr \in [pool : Pools, registered : BOOLEAN, req : Seq(Buffers),
                acquired : BOOLEAN, closed : BOOLEAN]
    BY <2>1 DEF WriteShape, WritePool, WriteTypes, WrRecord
  <2>4. reader \in [holds : BOOLEAN, failed : BOOLEAN, eof : BOOLEAN]
    BY DEF ReadInv, Holder, ReaderTypes
  <2> QED
    BY <2>2, <2>3, <2>4
    DEF TypeOK, ReadInv, ReadShape, ReadTypes, ReaderTypes, WriteShape, WritePool, WriteTypes
<1> QED
  BY <1>1, <1>2, <1>3, ReadInvariant, WriteInvariant, PTL DEF Spec
============================================================================
