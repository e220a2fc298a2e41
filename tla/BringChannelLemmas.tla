------------------------- MODULE BringChannelLemmas -------------------------
(***************************************************************************)
(* Lemmas about the operators of the invariant: how many buffers a queue   *)
(* holds when it grows, shrinks or has an entry answered, and how slot     *)
(* positions move around the ring.                                         *)
(***************************************************************************)
EXTENDS BringChannelInv, FiniteSetTheorems, SequenceTheorems, TLAPS

\* The entries with a buffer, the set that Buffers counts.
WithBuffer(q, n) == {i \in 1..n : q[i].buf # NoBuf}

\* A prefix of n entries has at most n buffers (the count WrInUse and RdInUse
\* rest on).
LEMMA BuffersType ==
    ASSUME NEW q, NEW n \in Nat
    PROVE  /\ IsFiniteSet(WithBuffer(q, n))
           /\ Buffers(q, n) = Cardinality(WithBuffer(q, n))
           /\ Buffers(q, n) \in 0..n
<1> DEFINE S == WithBuffer(q, n)
<1>1. IsFiniteSet(1..n) /\ Cardinality(1..n) = n
  BY FS_Interval
<1>2. S \in SUBSET (1..n)
  BY DEF WithBuffer
<1>3. IsFiniteSet(S) /\ Cardinality(S) <= n
  BY <1>1, <1>2, FS_Subset
<1>4. Cardinality(S) \in Nat
  BY <1>3, FS_CardinalityType
<1>5. Buffers(q, n) = Cardinality(S)
  BY DEF Buffers, WithBuffer
<1>6. QED
  BY <1>3, <1>4, <1>5

\* Only the buffers count: not the type or the status of an entry.
LEMMA BuffersSame ==
    ASSUME NEW p, NEW q, NEW n \in Nat,
           \A i \in 1..n : p[i].buf # NoBuf <=> q[i].buf # NoBuf
    PROVE  Buffers(p, n) = Buffers(q, n)
<1>1. WithBuffer(p, n) = WithBuffer(q, n)
  BY DEF WithBuffer
<1>2. QED
  BY <1>1, BuffersType

\* An entry without a buffer is one less to count.
LEMMA BuffersMissing ==
    ASSUME NEW q, NEW n \in Nat, NEW i \in 1..n, q[i].buf = NoBuf
    PROVE  Buffers(q, n) <= n - 1
<1>1. IsFiniteSet(1..n) /\ Cardinality(1..n) = n
  BY FS_Interval
<1>2. IsFiniteSet((1..n) \ {i}) /\ Cardinality((1..n) \ {i}) = n - 1
  BY <1>1, FS_RemoveElement
<1>3. WithBuffer(q, n) \in SUBSET ((1..n) \ {i})
  BY DEF WithBuffer
<1>4. Cardinality(WithBuffer(q, n)) <= n - 1
  BY <1>2, <1>3, FS_Subset
<1>5. QED
  BY <1>4, BuffersType

\* Entries without a buffer at the end of a prefix do not count.
LEMMA BuffersPrefix ==
    ASSUME NEW q, NEW n \in Nat, NEW m \in Nat, n <= m,
           \A i \in n + 1 .. m : q[i].buf = NoBuf
    PROVE  Buffers(q, m) = Buffers(q, n)
<1>1. WithBuffer(q, m) = WithBuffer(q, n)
  BY DEF WithBuffer
<1>2. QED
  BY <1>1, BuffersType

\* An empty prefix has none.
LEMMA BuffersNone ==
    ASSUME NEW q
    PROVE  Buffers(q, 0) = 0
<1>1. Buffers(q, 0) \in 0..0
  BY BuffersType
<1>2. QED
  BY <1>1

\* One entry more counts if it has a buffer.
LEMMA BuffersNext ==
    ASSUME NEW q, NEW n \in Nat
    PROVE  Buffers(q, n + 1) =
              Buffers(q, n) + (IF q[n + 1].buf # NoBuf THEN 1 ELSE 0)
<1> DEFINE S == WithBuffer(q, n)
           T == WithBuffer(q, n + 1)
<1>1. /\ IsFiniteSet(S) /\ Cardinality(S) \in Nat
      /\ Buffers(q, n) = Cardinality(S)
      /\ Buffers(q, n + 1) = Cardinality(T)
  BY BuffersType
<1>2. CASE q[n + 1].buf # NoBuf
  <2>1. T = S \cup {n + 1} /\ n + 1 \notin S
    BY <1>2 DEF WithBuffer
  <2>2. Cardinality(T) = Cardinality(S) + 1
    BY <1>1, <2>1, FS_AddElement
  <2>3. QED
    BY <1>1, <1>2, <2>2
<1>3. CASE ~(q[n + 1].buf # NoBuf)
  <2>1. T = S
    BY <1>3 DEF WithBuffer
  <2>2. QED
    BY <1>1, <1>3, <2>1
<1>4. QED
  BY <1>2, <1>3

\* cbq_push_back: a request has no buffer yet, a returned one may have.
LEMMA BuffersAppend ==
    ASSUME NEW q \in Seq(Msg), NEW m \in Msg
    PROVE  /\ \A n \in 0..Len(q) : Buffers(Append(q, m), n) = Buffers(q, n)
           /\ Buffers(Append(q, m), Len(Append(q, m))) =
                 Buffers(q, Len(q)) + (IF m.buf # NoBuf THEN 1 ELSE 0)
<1> DEFINE p == Append(q, m)
<1>1. /\ Len(p) = Len(q) + 1
      /\ \A i \in 1..Len(q) : p[i] = q[i]
      /\ p[Len(q) + 1] = m
  BY AppendProperties
<1>2. Len(q) \in Nat
  OBVIOUS
<1>3. \A n \in 0..Len(q) : Buffers(p, n) = Buffers(q, n)
  <2> TAKE n \in 0..Len(q)
  <2>1. n \in Nat /\ \A i \in 1..n : p[i] = q[i]
    BY <1>1, <1>2
  <2> HIDE DEF p
  <2>2. QED
    BY <2>1, BuffersSame
<1>4. Buffers(p, Len(p)) = Buffers(q, Len(q)) +
                              (IF m.buf # NoBuf THEN 1 ELSE 0)
  <2> HIDE DEF p
  <2>1. Buffers(p, Len(q) + 1) =
           Buffers(p, Len(q)) + (IF p[Len(q) + 1].buf # NoBuf THEN 1 ELSE 0)
    BY <1>2, BuffersNext
  <2>2. QED
    BY <1>1, <1>2, <1>3, <2>1
<1>5. QED
  BY <1>3, <1>4

\* cbq_pop_front: the count of every prefix drops by that of the first entry.
LEMMA BuffersTail ==
    ASSUME NEW q \in Seq(Msg), q # <<>>, NEW n \in 0..Len(q) - 1
    PROVE  Buffers(Tail(q), n) =
              Buffers(q, n + 1) - (IF q[1].buf # NoBuf THEN 1 ELSE 0)
<1> DEFINE t == Tail(q)
           S == WithBuffer(t, n)
           U == {i \in 2..n + 1 : q[i].buf # NoBuf}
           T == WithBuffer(q, n + 1)
           f == [i \in S |-> i + 1]
<1>1. n \in Nat /\ \A i \in 1..n : t[i] = q[i + 1]
  BY HeadTailProperties
<1>2. /\ IsFiniteSet(S) /\ Cardinality(S) \in Nat
      /\ Buffers(t, n) = Cardinality(S)
      /\ Buffers(q, n + 1) = Cardinality(T)
  <2> HIDE DEF t
  <2>1. QED
    BY <1>1, BuffersType
<1>3. f \in [S -> U]
  BY <1>1 DEF WithBuffer
<1>4. \A i, j \in S : f[i] = f[j] => i = j
  BY DEF WithBuffer
<1>5. \A u \in U : \E i \in S : f[i] = u
  <2> TAKE u \in U
  <2>1. u - 1 \in S /\ f[u - 1] = u
    BY <1>1 DEF WithBuffer
  <2>2. QED
    BY <2>1
<1>6. ExistsBijection(S, U)
  <2>1. f \in Bijection(S, U)
    BY <1>3, <1>4, <1>5 DEF Bijection, Injection, Surjection, IsInjective
  <2>2. QED
    BY <2>1 DEF ExistsBijection
<1>7. IsFiniteSet(U) /\ Cardinality(U) = Cardinality(S)
  BY <1>2, <1>6, FS_Bijection
<1>8. CASE q[1].buf # NoBuf
  <2>1. T = U \cup {1} /\ 1 \notin U
    BY <1>1, <1>8 DEF WithBuffer
  <2>2. Cardinality(T) = Cardinality(U) + 1
    BY <1>7, <2>1, FS_AddElement
  <2>3. QED
    BY <1>2, <1>7, <1>8, <2>2
<1>9. CASE ~(q[1].buf # NoBuf)
  <2>1. T = U
    BY <1>1, <1>9 DEF WithBuffer
  <2>2. Cardinality(T) = Cardinality(U)
    BY <2>1
  <2> HIDE DEF T, U, S
  <2>3. QED
    BY <1>2, <1>7, <1>9, <2>2
<1>10. QED
  BY <1>8, <1>9

-----------------------------------------------------------------------------
\* Requests and responses are messages.
LEMMA Messages ==
    /\ \A kind \in MsgType : Request(kind, NoBuf) \in Msg
    /\ \A b \in Slots \cup {NoBuf}, s \in Status : Response(b, s) \in Msg
    /\ \A b \in Slots : Request("REQ", b) \in Msg
BY DEF Request, Response, Msg, MsgType, Status

\* cbq_push_back and cbq_pop_front on a queue, with what they do to its count.
LEMMA QueuePush ==
    ASSUME NEW q \in Seq(Msg), NEW m \in Msg
    PROVE  LET p == Append(q, m)
           IN  /\ p \in Seq(Msg) /\ Len(p) = Len(q) + 1
               /\ p[Len(q) + 1] = m
               /\ \A i \in 1..Len(q) : p[i] = q[i]
               /\ Buffers(p, Len(p)) = Buffers(q, Len(q))
                                        + (IF m.buf # NoBuf THEN 1 ELSE 0)
BY AppendProperties, BuffersAppend

LEMMA QueuePop ==
    ASSUME NEW q \in Seq(Msg), Len(q) > 0
    PROVE  LET p == Tail(q)
           IN  /\ Head(q) = q[1] /\ q[1] \in Msg
               /\ p \in Seq(Msg) /\ Len(p) = Len(q) - 1
               /\ \A i \in 1..Len(q) - 1 : p[i] = q[i + 1]
               /\ Buffers(p, Len(p)) = Buffers(q, Len(q))
                                        - (IF q[1].buf # NoBuf THEN 1 ELSE 0)
<1> DEFINE p == Tail(q)
<1>1. /\ q # <<>> /\ Head(q) = q[1] /\ q[1] \in Msg
      /\ p \in Seq(Msg) /\ Len(p) = Len(q) - 1
      /\ \A i \in 1..Len(q) - 1 : p[i] = q[i + 1]
      /\ Len(q) \in Nat
  BY HeadTailProperties
<1>2. Len(q) - 1 \in 0..Len(q) - 1 /\ (Len(q) - 1) + 1 = Len(q)
  BY <1>1
<1>3. Buffers(p, Len(q) - 1)
         = Buffers(q, (Len(q) - 1) + 1) - (IF q[1].buf # NoBuf THEN 1 ELSE 0)
  BY <1>1, <1>2, BuffersTail
<1>4. QED
  BY <1>1, <1>2, <1>3

\* Answering one entry of a queue keeps it a queue and the other entries.
LEMMA QueueUpdate ==
    ASSUME NEW q \in Seq(Msg), NEW j \in 1..Len(q), NEW m \in Msg
    PROVE  LET p == [q EXCEPT ![j] = m]
           IN  /\ p \in Seq(Msg)
               /\ Len(p) = Len(q)
               /\ p[j] = m
               /\ \A i \in 1..Len(q) : i # j => p[i] = q[i]
BY ExceptSeq

\* Answering an entry that had no buffer adds at most the one it gets.
LEMMA BuffersUpdate ==
    ASSUME NEW q \in Seq(Msg), NEW j \in 1..Len(q), NEW m \in Msg,
           q[j].buf = NoBuf
    PROVE  LET p == [q EXCEPT ![j] = m]
           IN  /\ \A n \in 0..j - 1 : Buffers(p, n) = Buffers(q, n)
               /\ \A n \in j..Len(q) :
                     Buffers(p, n) = Buffers(q, n)
                                      + (IF m.buf # NoBuf THEN 1 ELSE 0)
<1> DEFINE p == [q EXCEPT ![j] = m]
<1>1. p[j] = m /\ \A i \in 1..Len(q) : i # j => p[i] = q[i]
  BY QueueUpdate
<1>2. Len(q) \in Nat
  OBVIOUS
<1> HIDE DEF p
<1>3. \A n \in 0..j - 1 : Buffers(p, n) = Buffers(q, n)
  <2> TAKE n \in 0..j - 1
  <2>1. n \in Nat /\ \A i \in 1..n : p[i] = q[i]
    BY <1>1, <1>2
  <2>2. QED
    BY <2>1, BuffersSame
<1>4. ASSUME NEW n \in j..Len(q)
      PROVE  Buffers(p, n) = Buffers(q, n)
                              + (IF m.buf # NoBuf THEN 1 ELSE 0)
  <2> DEFINE S == WithBuffer(q, n)
             T == WithBuffer(p, n)
  <2>1. /\ IsFiniteSet(S) /\ Cardinality(S) \in Nat
        /\ Buffers(q, n) = Cardinality(S)
        /\ Buffers(p, n) = Cardinality(T)
    BY <1>2, BuffersType
  <2>2. CASE m.buf # NoBuf
    <3>1. T = S \cup {j} /\ j \notin S
      BY <1>1, <1>2, <2>2 DEF WithBuffer
    <3>2. Cardinality(T) = Cardinality(S) + 1
      BY <2>1, <3>1, FS_AddElement
    <3>3. QED
      BY <2>1, <2>2, <3>2
  <2>3. CASE ~(m.buf # NoBuf)
    <3>1. T = S
      BY <1>1, <1>2, <2>3 DEF WithBuffer
    <3>2. QED
      BY <2>1, <2>3, <3>1
  <2>4. QED
    BY <2>2, <2>3
<1>5. QED
  BY <1>3, <1>4 DEF p

-----------------------------------------------------------------------------
\* Positions are slots, and the one after a full turn is the first again.
LEMMA PosType ==
    ASSUME wr_rel_index \in Slots, acked \in Nat
    PROVE  /\ \A k \in acked .. acked + N : Pos(k) \in Slots
           /\ Pos(acked) = wr_rel_index
           /\ Pos(acked + N) = Pos(acked)
BY RingAssumption DEF Pos, Slots

\* Different messages in the window have different slots.
LEMMA PosInjective ==
    ASSUME wr_rel_index \in Slots, acked \in Nat,
           NEW j \in acked .. acked + N - 1, NEW k \in acked .. acked + N - 1,
           Pos(j) = Pos(k)
    PROVE  j = k
BY RingAssumption DEF Pos, Slots

\* An index that moves stays inside the ring.
LEMMA NextIndexType ==
    ASSUME NEW i \in Slots
    PROVE  NextIndex(i) \in Slots
BY RingAssumption DEF Slots, NextIndex

\* An index that moves forward moves to the slot of the next message.
LEMMA PosNext ==
    ASSUME wr_rel_index \in Slots, acked \in Nat,
           NEW k \in acked .. acked + N - 1
    PROVE  NextIndex(Pos(k)) = Pos(k + 1)
BY RingAssumption DEF Pos, Slots, NextIndex

\* Positions depend on the release index and the completed writes only ...
LEMMA PosStable ==
    ASSUME wr_rel_index' = wr_rel_index, acked' = acked
    PROVE  \A k \in Int : Pos(k)' = Pos(k)
BY DEF Pos

\* ... and survive a completion, which moves both.
LEMMA PosShift ==
    ASSUME wr_rel_index \in Slots, acked \in Nat,
           wr_rel_index' = NextIndex(wr_rel_index), acked' = acked + 1
    PROVE  \A k \in acked + 1 .. acked + N : Pos(k)' = Pos(k)
BY RingAssumption DEF Pos, Slots, NextIndex
-----------------------------------------------------------------------------
(***************************************************************************)
(* What a step does not touch it preserves.                                *)
(***************************************************************************)
\* The types of the two sides' variables, as facts.
LEMMA WriterTypes ==
    ASSUME IInv
    PROVE  /\ seq_no \in [Slots -> Nat]
           /\ data_size \in [Slots -> 0..MaxLen]
           /\ mem \in [Slots -> 0..MaxMsgs]
           /\ wr_pc \in {"idle", "buff_ready", "release", "publish",
                         "data_ready", "written", "free", "exited"}
           /\ wr_buff_q \in Seq(Msg) /\ Len(wr_buff_q) \in Nat
           /\ Len(wr_buff_q) <= N
           /\ wr_data_q \in Seq(Msg) /\ Len(wr_data_q) \in Nat
           /\ Len(wr_data_q) <= N
           /\ wr_buff_use \in 0..Len(wr_buff_q)
           /\ wr_data_use \in 0..Len(wr_data_q)
           /\ wr_sync_counter \in Nat
           /\ wr_buff_acq_idx \in Slots /\ wr_out_index \in Slots
           /\ wr_rel_index \in Slots
           /\ wr_held \in Seq(Slots) /\ Len(wr_held) \in Nat
           /\ wr_filled \in 0..Len(wr_held)
           /\ last_msg \in 0..MaxMsgs
           /\ sent \in Seq(0..MaxMsgs) /\ Len(sent) \in Nat
           /\ acked \in Nat
           /\ Leaving \in {0, 1} /\ Granted \in Nat
<1>1. Leaving \in {0, 1}
  BY DEF Leaving
<1>2. SharedTypeOK /\ WriterTypeOK /\ HistoryTypeOK
  BY DEF IInv, TypeOK
<1>3. /\ Len(wr_held) \in Nat /\ Len(sent) \in Nat
      /\ Len(wr_buff_q) \in Nat /\ Len(wr_data_q) \in Nat
  BY <1>2 DEF WriterTypeOK, HistoryTypeOK
<1>4. Granted \in Nat
  BY <1>1, <1>3 DEF Granted
<1>5. QED
  BY <1>1, <1>2, <1>3, <1>4 DEF SharedTypeOK, WriterTypeOK, HistoryTypeOK

LEMMA ReaderTypes ==
    ASSUME IInv
    PROVE  /\ rd_pc \in {"idle", "buff_ready", "size", "release"}
           /\ rd_buff_q \in Seq(Msg) /\ Len(rd_buff_q) \in Nat
           /\ Len(rd_buff_q) <= N
           /\ rd_data_q \in Seq(Msg) /\ Len(rd_data_q) \in Nat
           /\ Len(rd_data_q) <= N
           /\ rd_buff_use \in 0..Len(rd_buff_q)
           /\ rd_data_use \in 0..Len(rd_data_q)
           /\ rd_sync_counter \in Nat
           /\ rd_acq_index \in Slots /\ rd_rel_index \in Slots
           /\ rd_len \in [Slots -> 0..MaxLen]
           /\ rd_held \in Seq(Slots) /\ Len(rd_held) \in Nat
           /\ rd_readable \in Seq(Slots) /\ Len(rd_readable) \in Nat
           /\ got \in Seq([msg : 0..MaxMsgs, len : 0..MaxLen])
           /\ Len(got) \in Nat
           /\ Released \in Int /\ Acquired \in Int
BY DEF IInv, TypeOK, ReaderTypeOK, HistoryTypeOK, Released, Acquired,
   BRING_SYNC_START

\* The numbers among them, which is what the arithmetic steps need.
WrNumbers ==
    /\ Len(wr_buff_q) \in Nat /\ Len(wr_buff_q) <= N
    /\ Len(wr_data_q) \in Nat /\ Len(wr_data_q) <= N
    /\ wr_buff_use \in 0..Len(wr_buff_q)
    /\ wr_data_use \in 0..Len(wr_data_q)
    /\ wr_sync_counter \in Nat
    /\ Len(wr_held) \in Nat /\ wr_filled \in 0..Len(wr_held)
    /\ last_msg \in 0..MaxMsgs
    /\ Len(sent) \in Nat /\ acked \in Nat
    /\ Leaving \in 0..1 /\ Granted \in Nat
    /\ WrGranting \in 0..Len(wr_buff_q)
    /\ N \in Nat /\ N > 0 /\ MaxMsgs \in Nat

RdNumbers ==
    /\ Len(rd_buff_q) \in Nat /\ Len(rd_buff_q) <= N
    /\ Len(rd_data_q) \in Nat /\ Len(rd_data_q) <= N
    /\ rd_buff_use \in 0..Len(rd_buff_q)
    /\ rd_data_use \in 0..Len(rd_data_q)
    /\ rd_sync_counter \in Nat
    /\ Len(rd_held) \in Nat /\ Len(rd_readable) \in Nat
    /\ Len(got) \in Nat /\ Released \in Int /\ Acquired \in Int
    /\ RdTaken \in 0..Len(rd_buff_q)
    /\ RdChecking \in 0..Len(rd_data_q) /\ RdHolding \in Nat
    /\ N \in Nat /\ N > 0

\* They are numbers in every state of the invariant.
LEMMA WriterNumbers ==
    ASSUME IInv
    PROVE  WrNumbers
<1>1. WrGranting \in 0..Len(wr_buff_q)
  BY WriterTypes, BuffersType DEF WrGranting
<1>2. QED
  BY <1>1, WriterTypes, RingAssumption DEF WrNumbers

LEMMA ReaderNumbers ==
    ASSUME IInv
    PROVE  RdNumbers
<1>1. RdTaken \in 0..Len(rd_buff_q) /\ RdChecking \in 0..Len(rd_data_q)
  BY ReaderTypes, BuffersType DEF RdTaken, RdChecking
<1>2. RdHolding \in Nat
  BY <1>1, ReaderTypes DEF RdHolding
<1>3. QED
  BY <1>1, <1>2, ReaderTypes, RingAssumption DEF RdNumbers

\* What an action leaves alone: the ring, as both sides see it.
RingFrame ==
    /\ UNCHANGED <<seq_no, data_size, mem, wr_sync_counter, wr_out_index,
                   wr_rel_index, rd_sync_counter, rd_acq_index,
                   rd_rel_index, rd_len, sent, acked>>
    /\ Released' = Released

LEMMA KeepRing ==
    ASSUME IInv, RingFrame
    PROVE  CounterInv' /\ IndexInv' /\ SlotInv'
<1>1. \A k \in Int : Pos(k)' = Pos(k)
  BY PosStable DEF RingFrame
<1>2. Acquired' = Acquired /\ Len(sent)' = Len(sent)
  BY DEF RingFrame, Acquired
<1>3. Released \in Int /\ Acquired \in Int /\ Len(sent) \in Nat /\ acked \in Nat
  BY WriterTypes, ReaderTypes
<1>4. CounterInv'
  BY <1>2 DEF IInv, CounterInv, RingFrame
<1>5. IndexInv'
  BY <1>1, <1>2, <1>3 DEF IInv, IndexInv, RingFrame
<1>6. SlotInv'
  BY <1>1, <1>2, <1>3
     DEF IInv, SlotInv, RxdInv, SentInv, EmptyInv, LengthInv, RingFrame
<1>7. QED
  BY <1>4, <1>5, <1>6

\* The slots themselves survive when only what the reader acquired moves.
LEMMA KeepSlots ==
    ASSUME IInv, UNCHANGED <<seq_no, data_size, mem, wr_rel_index, sent,
                             acked>>,
           Released' = Released
    PROVE  RxdInv' /\ SentInv' /\ EmptyInv'
<1>1. \A k \in Int : Pos(k)' = Pos(k)
  BY PosStable
<1>2. Len(sent)' = Len(sent)
  OBVIOUS
<1>3. Released \in Int /\ Len(sent) \in Nat /\ acked \in Nat
  BY WriterTypes, ReaderTypes
<1>4. QED
  BY <1>1, <1>2, <1>3 DEF IInv, SlotInv, RxdInv, SentInv, EmptyInv

\* The reader's part of the invariant survives every step of the writer.
LEMMA KeepReadQueue ==
    ASSUME IInv, UNCHANGED <<reader, got>>, Len(sent) <= Len(sent)',
           Len(sent)' \in Nat
    PROVE  ReadQueueInv'
<1>1. /\ UNCHANGED <<rd_pc, rd_buff_q, rd_buff_use, rd_data_q, rd_data_use,
                     rd_sync_counter, rd_held, rd_readable, got>>
      /\ Acquired' = Acquired
  BY DEF reader, rd_chan, rd_app, Acquired
<1>2. Acquired \in Int /\ Len(sent) \in Nat
  BY WriterTypes, ReaderTypes
<1>3. RdHolding' = RdHolding
  BY <1>1 DEF RdChecking, RdHolding, Buffers
<1>4. RdTaken' = RdTaken
  BY <1>1 DEF RdTaken, Buffers
<1>5. RdInUse' = RdInUse
  BY <1>1 DEF RdInUse
<1>6. QED
  BY <1>1, <1>2, <1>3, <1>4, <1>5 DEF IInv, ReadQueueInv

\* The writer's parts survive every step of the reader: it never gives a slot
\* back to EMPTY, and what it has marked RXD it does not take back.
LEMMA KeepWriter ==
    ASSUME IInv, UNCHANGED <<mem, writer, sent, acked>>,
           Released <= Released', Released' \in Int
    PROVE  DataQueueInv' /\ BuffQueueInv'
<1>1. UNCHANGED <<wr_pc, wr_buff_q, wr_buff_use, wr_data_q, wr_data_use,
                  wr_buff_acq_idx, wr_rel_index, wr_held, wr_filled,
                  sent, acked>>
  BY DEF writer, wr_chan, wr_app
<1>2. \A k \in Int : Pos(k)' = Pos(k)
  BY <1>1, PosStable
<1>3. Failing' = Failing /\ Leaving' = Leaving /\ Granted' = Granted
  BY <1>1 DEF Failing, Leaving, Granted
<1>4. /\ acked \in Nat /\ Released \in Int /\ Len(sent) \in Nat
      /\ Leaving \in {0, 1} /\ Granted \in Int
      /\ wr_buff_use \in Int /\ wr_data_use \in Int
  BY WriterTypes, ReaderTypes
<1>5. DataQueueInv'
  <2>1. \A i \in 1..Len(wr_data_q) : DataEntry(i)' <=> DataEntry(i)
    BY <1>1, <1>2, <1>4 DEF DataEntry
  <2>2. QED
    BY <1>1, <1>3, <1>4, <2>1 DEF IInv, DataQueueInv
<1>6. ASSUME NEW n \in Nat
      PROVE  /\ Buffers(wr_buff_q, n)' = Buffers(wr_buff_q, n)
             /\ Buffers(wr_buff_q, n) \in Int
  <2>1. Buffers(wr_buff_q, n)' = Buffers(wr_buff_q, n)
    BY <1>1 DEF Buffers
  <2>2. QED
    BY <2>1, BuffersType
<1>7. BuffQueueInv'
  <2>1. WrInUse' = WrInUse
    BY <1>1 DEF WrInUse
  <2>2. ASSUME NEW i \in 1..Len(wr_buff_q)
        PROVE  BuffEntry(i)' <=> BuffEntry(i)
    <3>1. i - 1 \in Nat
      OBVIOUS
    <3>2. /\ Buffers(wr_buff_q, i - 1)' = Buffers(wr_buff_q, i - 1)
          /\ Buffers(wr_buff_q, i - 1) \in Int
      BY <1>6, <3>1
    <3>3. QED
      BY <1>1, <1>2, <1>3, <1>4, <3>2 DEF BuffEntry
  <2>3. \A i \in 1..Len(wr_held) : Len(sent) + Leaving + i - 1 \in Int
    BY <1>4
  <2>4. wr_buff_acq_idx' = Pos(Granted + WrGranting)'
    <3>1. WrGranting' = WrGranting
      BY <1>1 DEF WrGranting, Buffers
    <3>2. WrGranting \in Int
      BY <1>6, WriterTypes DEF WrGranting
    <3>3. QED
      BY <1>1, <1>2, <1>3, <1>4, <3>1, <3>2 DEF IInv, BuffQueueInv
  <2>5. QED
    BY <1>1, <1>2, <1>3, <2>1, <2>2, <2>3, <2>4 DEF IInv, BuffQueueInv
<1>8. QED
  BY <1>5, <1>7

\* The numbering of the messages survives what touches neither the writer,
\* nor the slots, as long as the next message consumed is the next one sent.
LEMMA KeepMessages ==
    ASSUME IInv, UNCHANGED <<mem, data_size, writer, sent, acked>>,
           \A i \in 1..Len(got') : got'[i] = [msg |-> i, len |-> DataLen[i]]
    PROVE  MessageInv'
<1>1. UNCHANGED <<mem, data_size, wr_pc, wr_data_q, wr_rel_index, wr_held,
                  wr_filled, last_msg, sent, acked>>
  BY DEF writer, wr_chan, wr_app
<1>2. \A k \in Int : Pos(k)' = Pos(k)
  BY <1>1, PosStable
<1>3. Failing' = Failing /\ Leaving' = Leaving
  BY <1>1 DEF Failing, Leaving
<1>4. Len(sent) \in Int /\ Pos(Len(sent))' = Pos(Len(sent))
  BY <1>1, <1>2, WriterTypes DEF Pos
<1>5. QED
  BY <1>1, <1>3, <1>4 DEF IInv, MessageInv

\* Types of the variables a step leaves alone.
LEMMA KeepTypes ==
    ASSUME IInv
    PROVE  /\ UNCHANGED shared => SharedTypeOK'
           /\ UNCHANGED writer => WriterTypeOK'
           /\ UNCHANGED reader => ReaderTypeOK'
           /\ UNCHANGED history => HistoryTypeOK'
<1>1. UNCHANGED shared => SharedTypeOK'
  BY DEF IInv, TypeOK, SharedTypeOK, shared
<1>2. UNCHANGED writer => WriterTypeOK'
  BY DEF IInv, TypeOK, WriterTypeOK, writer, wr_chan, wr_app
<1>3. UNCHANGED reader => ReaderTypeOK'
  BY DEF IInv, TypeOK, ReaderTypeOK, reader, rd_chan, rd_app
<1>4. UNCHANGED history => HistoryTypeOK'
  BY DEF IInv, TypeOK, HistoryTypeOK, history
<1>5. QED
  BY <1>1, <1>2, <1>3, <1>4
=============================================================================
