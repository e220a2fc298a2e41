----------------------------- MODULE BringSteps -----------------------------
(***************************************************************************)
(* Every step of the reader and of the writer preserves IInv: one lemma per*)
(* action.                                                                 *)
(***************************************************************************)
EXTENDS BringChannelLemmas

(***************************************************************************)
(* The steps that do not touch shared memory.                              *)
(***************************************************************************)
\* What such a step leaves alone.
ReaderLocal ==
    /\ UNCHANGED <<shared, writer, history, rd_sync_counter, rd_acq_index,
                   rd_rel_index, rd_len>>
    /\ rd_pc # "release" /\ rd_pc' # "release"

\* What remains to be shown of it.
LEMMA ReaderLocalStep ==
    ASSUME IInv, ReaderLocal, ReaderTypeOK', ReadQueueInv'
    PROVE  IInv'
<1>1. UNCHANGED <<mem, seq_no, data_size, writer, sent, got, acked>>
  BY DEF ReaderLocal, shared, history
<1>2. Released' = Released /\ Released \in Int
  BY <1>1, ReaderTypes DEF Released, ReaderLocal
<1>3. RingFrame
  BY <1>1, <1>2 DEF ReaderLocal, RingFrame, writer, wr_chan
<1>4. CounterInv' /\ IndexInv' /\ SlotInv'
  BY <1>3, KeepRing
<1>5. DataQueueInv' /\ BuffQueueInv'
  BY <1>1, <1>2, KeepWriter
<1>6. MessageInv'
  BY <1>1, KeepMessages DEF IInv, MessageInv
<1>7. TypeOK'
  BY KeepTypes DEF ReaderLocal, TypeOK
<1>8. QED
  BY <1>4, <1>5, <1>6, <1>7 DEF IInv

\* The entries of the read buffer queue, as facts.
LEMMA ReadEntries ==
    ASSUME IInv
    PROVE  \A k \in 1..Len(rd_buff_q) :
              /\ k > rd_buff_use => rd_buff_q[k].buf = NoBuf
              /\ rd_buff_q[k].type = "REQ" => rd_buff_q[k].buf = NoBuf
              /\ rd_buff_q[k].status # "EWRONGBUFF"
BY DEF IInv, ReadQueueInv

LEMMA Step_read_buffer_request ==
    ASSUME Disciplined, IInv, read_buffer_request
    PROVE  IInv'
<1>0. RdNumbers
  BY ReaderNumbers
<1>1. PICK kind \in BuffKinds :
         rd_buff_q' = Append(rd_buff_q, Request(kind, NoBuf))
  BY DEF read_buffer_request
<1> DEFINE m == Request(kind, NoBuf)
<1>2. /\ rd_pc = "idle" /\ RdInUse < RdHandles /\ Len(rd_buff_q) < N
      /\ UNCHANGED <<rd_pc, rd_buff_use, rd_data_q, rd_data_use,
                     rd_sync_counter, rd_acq_index, rd_rel_index, rd_len,
                     rd_held, rd_readable, sent, got>>
  BY DEF read_buffer_request, rd_app, history
<1>3. m \in Msg /\ m.buf = NoBuf /\ m.status = "ENOERROR"
  <2>1. kind \in MsgType
    BY ApplicationAssumption DEF MsgType
  <2>2. QED
    BY <2>1, Messages DEF Request
<1>4. /\ rd_buff_q' \in Seq(Msg)
      /\ Len(rd_buff_q') = Len(rd_buff_q) + 1
      /\ \A i \in 1..Len(rd_buff_q) : rd_buff_q'[i] = rd_buff_q[i]
      /\ rd_buff_q'[Len(rd_buff_q) + 1] = m
  BY <1>1, <1>3, ReaderTypes, AppendProperties
<1> HIDE DEF m
<1>5. RdTaken' = RdTaken
  <2>1. RdTaken' = RdTaken
            + (IF m.buf # NoBuf THEN 1 ELSE 0)
    BY <1>1, <1>3, ReaderTypes, BuffersAppend DEF m, RdTaken
  <2>2. RdTaken \in Int
    BY <1>0 DEF RdNumbers
  <2>3. QED
    BY <1>3, <2>1, <2>2
<1>6. ReaderLocal
  BY <1>2 DEF read_buffer_request, ReaderLocal
<1>7. ReaderTypeOK'
  BY <1>2, <1>4, ReaderTypes, RingAssumption, SMTT(30) DEF ReaderTypeOK
<1>8. ReadQueueInv'
  <2>1. Acquired' = Acquired
    BY <1>2 DEF Acquired
  <2>2. RdHolding' = RdHolding
    BY <1>2 DEF RdHolding, RdChecking, Buffers
  <2>3. RdInUse' <= N
    BY <1>2, <1>4, ReaderTypes, ApplicationAssumption, RingAssumption
    DEF RdInUse, Disciplined
  <2>4. \A i \in 1..Len(rd_buff_q') :
          /\ i > rd_buff_use => rd_buff_q'[i].buf = NoBuf
          /\ rd_buff_q'[i].type = "REQ" => rd_buff_q'[i].buf = NoBuf
          /\ rd_buff_q'[i].status # "EWRONGBUFF"
    <3>1. \A k \in 1..Len(rd_buff_q) :
            /\ k > rd_buff_use => rd_buff_q[k].buf = NoBuf
            /\ rd_buff_q[k].type = "REQ" => rd_buff_q[k].buf = NoBuf
            /\ rd_buff_q[k].status # "EWRONGBUFF"
      BY ReadEntries
    <3>2. QED
      <4> TAKE i \in 1..Len(rd_buff_q')
      <4>1. CASE i = Len(rd_buff_q) + 1
        BY <1>3, <1>4, <4>1
      <4>2. CASE i # Len(rd_buff_q) + 1
        <5>1. i \in 1..Len(rd_buff_q)
          BY <1>4, <4>2, ReaderTypes
        <5>2. QED
          BY <1>4, <3>1, <5>1
      <4>3. QED
        BY <4>1, <4>2
  <2>5. QED
    BY <1>2, <1>5, <2>1, <2>2, <2>3, <2>4 DEF IInv, ReadQueueInv
<1>9. QED
  BY <1>6, <1>7, <1>8, ReaderLocalStep

\* Where the reader stands, it finds the next message or nothing new: an old
\* sequence number would need all N slots in its own hands, but the request
\* it is looking at is a message without one.
LEMMA ReaderHead ==
    ASSUME IInv, rd_pc # "release",
           NEW i \in rd_buff_use + 1 .. Len(rd_buff_q)
    PROVE  /\ Acquired < Len(sent) => seq_no[rd_acq_index] = rd_sync_counter
           /\ ~(Acquired < Len(sent)) =>
                 seq_no[rd_acq_index]
                    \in {BRING_SYNC_BUFF_EMPTY, BRING_SYNC_BUFF_RXD}
<1>0. RdNumbers
  BY ReaderNumbers
<1>1. /\ acked \in Nat /\ Released \in Int /\ Acquired \in Int
      /\ Len(sent) \in Nat /\ N \in Nat \ {0}
      /\ acked <= Released /\ Released <= Acquired
      /\ Acquired <= Len(sent) /\ Len(sent) <= acked + N
      /\ rd_acq_index = Pos(Acquired)
  BY WriterTypes, ReaderTypes, RingAssumption DEF IInv, CounterInv, IndexInv
<1>2. CASE Acquired < Len(sent)
  <2>1. Acquired \in Released .. Len(sent) - 1
    BY <1>1, <1>2
  <2>2. seq_no[Pos(Acquired)] = Acquired + BRING_SYNC_START
    BY <2>1 DEF IInv, SlotInv, RxdInv, SentInv, EmptyInv
  <2>3. QED
    BY <1>1, <1>2, <2>2, ReaderTypes, SMTT(30) DEF Acquired, BRING_SYNC_START
<1>3. CASE Acquired = Len(sent) /\ Len(sent) < acked + N
  <2>1. Acquired \in Len(sent) .. acked + N - 1
    BY <1>1, <1>3
  <2>2. QED
    BY <1>1, <1>3, <2>1 DEF IInv, SlotInv, RxdInv, SentInv, EmptyInv
<1>4. CASE Acquired = Len(sent) /\ Len(sent) = acked + N
  <2>1. RdTaken <= Len(rd_buff_q) - 1
    <3>1. i \in 1..Len(rd_buff_q) /\ rd_buff_q[i].buf = NoBuf
      BY <1>0, ReadEntries DEF RdNumbers
    <3>2. QED
      BY <1>0, <3>1, BuffersMissing DEF RdTaken, RdNumbers
  <2>2. Acquired = Len(got) + RdHolding + RdTaken /\ RdInUse <= N
    BY DEF IInv, ReadQueueInv
  <2>3. Acquired - Len(got) < N
    BY <1>0, <2>1, <2>2 DEF RdNumbers, RdInUse, RdHolding
  <2>4. Released = Len(got)
    BY DEF Released
  <2>5. acked \in acked .. Released - 1
    BY <1>1, <1>4, <2>3, <2>4, ReaderTypes
  <2>6. seq_no[Pos(acked)] = BRING_SYNC_BUFF_RXD
    BY <2>5 DEF IInv, SlotInv, RxdInv, SentInv, EmptyInv
  <2>7. Pos(Acquired) = Pos(acked)
    BY <1>4, PosType, WriterTypes
  <2>8. QED
    BY <1>1, <1>4, <2>6, <2>7
<1>5. QED
  BY <1>1, <1>2, <1>3, <1>4

\* What the reader's loops leave alone besides their queue.
LEMMA ReaderLoopFrame ==
    ASSUME IInv, UNCHANGED <<rd_data_q, rd_sync_counter, rd_held,
                             rd_readable, sent, got>>,
           Len(rd_buff_q') = Len(rd_buff_q)
    PROVE  /\ Acquired' = Acquired
           /\ RdHolding' = RdHolding
           /\ RdInUse' = RdInUse
<1>1. Acquired' = Acquired
  BY DEF Acquired
<1>2. RdHolding' = RdHolding
  BY DEF RdHolding, RdChecking, Buffers
<1>3. RdInUse' = RdInUse
  BY DEF RdInUse
<1>4. QED
  BY <1>1, <1>2, <1>3

LEMMA Step_read_buffer_ready ==
    ASSUME IInv, read_buffer_ready
    PROVE  IInv'
<1> DEFINE i == rd_buff_use + 1
<1>1. /\ rd_pc \in {"idle", "buff_ready"}
      /\ UNCHANGED <<shared, writer, rd_data_q, rd_data_use, rd_sync_counter,
                     rd_acq_index, rd_rel_index, rd_len, rd_app, history>>
      /\ UNCHANGED <<rd_held, rd_readable, sent, got>>
  BY DEF read_buffer_ready, rd_app, history
<1>2. i \in Nat /\ (i <= Len(rd_buff_q) => i \in 1..Len(rd_buff_q))
  BY ReaderTypes
<1>3. CASE /\ i <= Len(rd_buff_q) /\ rd_buff_q[i].type = "BAD"
           /\ rd_pc' = "buff_ready" /\ rd_buff_use' = i
           /\ rd_buff_q' = [rd_buff_q EXCEPT ![i] = Response(NoBuf, "EINVALID")]
  <2> DEFINE m == Response(NoBuf, "EINVALID")
  <2>1. /\ m \in Msg /\ m.buf = NoBuf /\ m.type = "RES"
        /\ m.status = "EINVALID"
    BY Messages DEF Response, Status
  <2>2. i \in 1..Len(rd_buff_q) /\ i > rd_buff_use /\ rd_buff_q[i].buf = NoBuf
    <3>1. i \in 1..Len(rd_buff_q) /\ i > rd_buff_use
      BY <1>2, <1>3, ReaderTypes
    <3>2. QED
      BY <3>1, ReadEntries
  <2> HIDE DEF m
  <2>3. /\ rd_buff_q' \in Seq(Msg) /\ Len(rd_buff_q') = Len(rd_buff_q)
        /\ rd_buff_q'[i] = m
        /\ \A k \in 1..Len(rd_buff_q) : k # i => rd_buff_q'[k] = rd_buff_q[k]
    BY <1>2, <1>3, <2>1, ReaderTypes, QueueUpdate DEF m
  <2>4. RdTaken' = RdTaken
    <3>1. \A k \in 1..Len(rd_buff_q) :
             rd_buff_q'[k].buf # NoBuf <=> rd_buff_q[k].buf # NoBuf
      BY <2>1, <2>2, <2>3
    <3>2. Len(rd_buff_q) \in Nat
      BY ReaderTypes
    <3>3. Buffers(rd_buff_q', Len(rd_buff_q)) = RdTaken
      BY <3>1, <3>2, BuffersSame DEF RdTaken
    <3>4. QED
      BY <2>3, <3>3 DEF RdTaken
  <2>5. ReaderLocal
    BY <1>1, <1>3 DEF ReaderLocal
  <2>6. ReaderTypeOK'
    BY <1>1, <1>2, <1>3, <2>3, ReaderTypes DEF ReaderTypeOK, rd_app
  <2>7. \A k \in 1..Len(rd_buff_q') :
          /\ k > rd_buff_use' => rd_buff_q'[k].buf = NoBuf
          /\ rd_buff_q'[k].type = "REQ" => rd_buff_q'[k].buf = NoBuf
          /\ rd_buff_q'[k].status # "EWRONGBUFF"
    BY <1>2, <1>3, <2>1, <2>3, ReaderTypes, ReadEntries
  <2>8. ReadQueueInv'
    BY <1>1, <1>3, <2>3, <2>4, <2>7, ReaderLoopFrame DEF IInv, ReadQueueInv
  <2>9. QED
    BY <2>5, <2>6, <2>8, ReaderLocalStep
<1>4. CASE /\ UNCHANGED rd_buff_q
           /\ \/ rd_pc' = "buff_ready" /\ rd_buff_use' = i /\ i <= Len(rd_buff_q)
              \/ rd_pc' = "idle" /\ UNCHANGED rd_buff_use
              \/ /\ rd_pc' = "size" /\ UNCHANGED rd_buff_use
                 /\ i <= Len(rd_buff_q) /\ rd_buff_q[i].type = "REQ"
                 /\ seq_no[rd_acq_index] \notin {BRING_SYNC_BUFF_EMPTY,
                                                 BRING_SYNC_BUFF_RXD}
  <2>1. ReaderLocal
    BY <1>1, <1>4 DEF ReaderLocal
  <2>2. ReaderTypeOK'
    BY <1>1, <1>2, <1>4, ReaderTypes DEF ReaderTypeOK, rd_app
  <2>3. rd_pc' = "size" => /\ rd_buff_use' < Len(rd_buff_q')
                           /\ rd_buff_q'[rd_buff_use' + 1].type = "REQ"
                           /\ Acquired < Len(sent)
    <3> SUFFICES ASSUME rd_pc' = "size"
                 PROVE  /\ rd_buff_use' < Len(rd_buff_q')
                        /\ rd_buff_q'[rd_buff_use' + 1].type = "REQ"
                        /\ Acquired < Len(sent)
      OBVIOUS
    <3>1. /\ UNCHANGED rd_buff_use /\ i <= Len(rd_buff_q)
          /\ rd_buff_q[i].type = "REQ"
          /\ seq_no[rd_acq_index] \notin {BRING_SYNC_BUFF_EMPTY,
                                          BRING_SYNC_BUFF_RXD}
      BY <1>4
    <3>2. i \in rd_buff_use + 1 .. Len(rd_buff_q)
      BY <1>2, <3>1, ReaderTypes
    <3>3. Acquired < Len(sent)
      BY <1>1, <3>1, <3>2, ReaderHead
    <3>4. QED
      BY <1>2, <1>4, <3>1, <3>3, ReaderTypes
  <2>4. /\ rd_pc' # "release"
        /\ RdTaken' = RdTaken
    BY <1>4 DEF RdTaken, RdChecking, Buffers
  <2>5. \A k \in 1..Len(rd_buff_q') :
          /\ k > rd_buff_use' => rd_buff_q'[k].buf = NoBuf
          /\ rd_buff_q'[k].type = "REQ" => rd_buff_q'[k].buf = NoBuf
          /\ rd_buff_q'[k].status # "EWRONGBUFF"
    BY <1>4, ReaderTypes, ReadEntries
  <2>6. ReadQueueInv'
    BY <1>1, <1>4, <2>3, <2>4, <2>5, ReaderLoopFrame DEF IInv, ReadQueueInv
  <2>7. QED
    BY <2>1, <2>2, <2>6, ReaderLocalStep
<1>5. ASSUME i <= Len(rd_buff_q), rd_buff_q[i].type = "REQ",
             seq_no[rd_acq_index] \notin {BRING_SYNC_BUFF_EMPTY,
                                          BRING_SYNC_BUFF_RXD}
      PROVE  seq_no[rd_acq_index] = rd_sync_counter
  <2>1. i \in rd_buff_use + 1 .. Len(rd_buff_q)
    BY <1>2, <1>5, ReaderTypes
  <2>2. QED
    BY <1>1, <1>5, <2>1, ReaderHead
<1>6. QED
  BY <1>3, <1>4, <1>5 DEF read_buffer_ready, SkipReadRequest

\* The oldest response leaves the queue; its buffer, if any, is now held.
LEMMA Step_read_buffer_result ==
    ASSUME IInv, read_buffer_result
    PROVE  IInv'
<1>0. RdNumbers
  BY ReaderNumbers
<1> DEFINE q == rd_buff_q
<1>1. /\ rd_pc = "idle" /\ rd_buff_use > 0
      /\ rd_buff_q' = Tail(q) /\ rd_buff_use' = rd_buff_use - 1
      /\ rd_held' = IF Head(q).buf # NoBuf
                    THEN Append(rd_held, Head(q).buf) ELSE rd_held
      /\ UNCHANGED <<rd_pc, rd_data_q, rd_data_use, rd_sync_counter,
                     rd_acq_index, rd_rel_index, rd_len, rd_readable,
                     sent, got>>
  BY DEF read_buffer_result, history
<1>2. /\ q # <<>> /\ Head(q) = q[1] /\ q[1] \in Msg
      /\ Tail(q) \in Seq(Msg) /\ Len(Tail(q)) = Len(q) - 1
      /\ \A k \in 1..Len(q) - 1 : Tail(q)[k] = q[k + 1]
      /\ Len(q) \in Nat \ {0}
  BY <1>1, ReaderTypes, HeadTailProperties
<1>3. Buffers(Tail(q), Len(q) - 1)
         = RdTaken - (IF q[1].buf # NoBuf THEN 1 ELSE 0)
  <2>1. Len(q) - 1 \in 0..Len(q) - 1 /\ (Len(q) - 1) + 1 = Len(q)
    BY <1>2
  <2>2. Buffers(Tail(q), Len(q) - 1)
         = Buffers(q, (Len(q) - 1) + 1) - (IF q[1].buf # NoBuf THEN 1 ELSE 0)
    BY <1>2, <2>1, ReaderTypes, BuffersTail
  <2>3. QED
    BY <2>1, <2>2 DEF RdTaken
<1>4. /\ rd_held' \in Seq(Slots)
      /\ Len(rd_held') = Len(rd_held) + (IF q[1].buf # NoBuf THEN 1 ELSE 0)
  <2>1. q[1].buf # NoBuf => q[1].buf \in Slots
    BY <1>2 DEF Msg
  <2>2. QED
    BY <1>1, <1>2, <2>1, ReaderTypes, AppendProperties, SMTT(30)
<1> DEFINE d == IF q[1].buf # NoBuf THEN 1 ELSE 0
<1>9. /\ d \in {0, 1}
      /\ Len(rd_buff_q') = Len(q) - 1
      /\ Len(rd_held') = Len(rd_held) + d
      /\ RdTaken' = RdTaken - d
  BY <1>1, <1>2, <1>3, <1>4 DEF RdTaken
<1>11. rd_buff_q' \in Seq(Msg) /\ \A k \in 1..Len(q) - 1 : rd_buff_q'[k] = q[k + 1]
  BY <1>1, <1>2
<1>10. /\ rd_buff_use > 0 /\ rd_buff_use' = rd_buff_use - 1
       /\ UNCHANGED <<rd_pc, rd_data_q, rd_data_use, rd_sync_counter,
                     rd_acq_index, rd_rel_index, rd_len, rd_readable,
                     sent, got>>
  BY <1>1
<1> HIDE DEF d
<1>5. ReaderLocal
  BY <1>1 DEF ReaderLocal, read_buffer_result
<1>6. ReaderTypeOK'
  <2>1. rd_buff_use' \in 0..Len(rd_buff_q') /\ Len(rd_buff_q') <= N
    BY <1>0, <1>9, <1>10 DEF RdNumbers
  <2>2. QED
    BY <1>4, <1>10, <1>11, <2>1, ReaderTypes DEF ReaderTypeOK
<1>7. ReadQueueInv'
  <2>1. Acquired' = Acquired /\ Acquired \in Int
    BY <1>1, ReaderTypes DEF Acquired
  <2>2. RdChecking' = RdChecking
    BY <1>1 DEF RdTaken, RdChecking, Buffers
  <2>4. RdInUse' <= N
    <3>1. RdInUse <= N
      BY DEF IInv, ReadQueueInv
    <3>2. QED
      BY <1>0, <1>9, <1>10, <3>1 DEF RdInUse, RdNumbers
  <2>5. Acquired' = Len(got') + RdHolding' + RdTaken'
    <3>1. Acquired = Len(got) + RdHolding + RdTaken
      BY DEF IInv, ReadQueueInv
    <3>2. Len(got') = Len(got) /\ Len(rd_readable') = Len(rd_readable)
      BY <1>10
    <3>3. RdHolding' = RdHolding + d
      BY <1>0, <1>9, <2>2, <3>2 DEF RdHolding, RdNumbers
    <3>4. QED
      BY <1>0, <1>9, <2>1, <3>1, <3>2, <3>3 DEF RdNumbers
  <2>6. \A k \in 1..Len(rd_buff_q') :
          /\ k > rd_buff_use' => rd_buff_q'[k].buf = NoBuf
          /\ rd_buff_q'[k].type = "REQ" => rd_buff_q'[k].buf = NoBuf
          /\ rd_buff_q'[k].status # "EWRONGBUFF"
    <3> TAKE k \in 1..Len(rd_buff_q')
    <3>1. k \in 1..Len(q) - 1 /\ k + 1 \in 1..Len(q)
      BY <1>0, <1>9 DEF RdNumbers
    <3>2. rd_buff_q'[k] = q[k + 1] /\ (k > rd_buff_use' => k + 1 > rd_buff_use)
      BY <1>0, <1>10, <1>11, <3>1 DEF RdNumbers
    <3>3. QED
      BY <3>1, <3>2, ReadEntries
  <2>7. QED
    BY <1>1, <2>4, <2>5, <2>6 DEF ReadQueueInv
<1>8. QED
  BY <1>5, <1>6, <1>7, ReaderLocalStep

\* The steps that move buffers on, without acquiring or releasing any.
LEMMA ReaderDataStep ==
    ASSUME IInv, rd_pc = "idle",
           UNCHANGED <<shared, writer, rd_pc, rd_buff_q, rd_buff_use,
                       rd_sync_counter, rd_acq_index, rd_rel_index, rd_len,
                       history>>,
           rd_data_q' \in Seq(Msg), Len(rd_data_q') <= N,
           rd_data_use' \in 0..Len(rd_data_q'),
           rd_held' \in Seq(Slots), rd_readable' \in Seq(Slots),
           RdInUse' <= N,
           RdHolding' = RdHolding
    PROVE  IInv'
<1>0. RdNumbers
  BY ReaderNumbers
<1>2. UNCHANGED <<sent, got>>
  BY DEF history
<1>3. ReaderLocal
  BY DEF ReaderLocal
<1>4. ReaderTypeOK'
  BY <1>2, ReaderTypes DEF ReaderTypeOK
<1>5. Acquired' = Acquired /\ RdTaken' = RdTaken
  BY DEF Acquired, RdTaken, Buffers
<1>6. Acquired' = Len(got') + RdHolding' + RdTaken'
  BY <1>2, <1>5 DEF IInv, ReadQueueInv
<1>7. \A k \in 1..Len(rd_buff_q') :
        /\ k > rd_buff_use' => rd_buff_q'[k].buf = NoBuf
        /\ rd_buff_q'[k].type = "REQ" => rd_buff_q'[k].buf = NoBuf
        /\ rd_buff_q'[k].status # "EWRONGBUFF"
  BY ReadEntries
<1>8. ReadQueueInv'
  BY <1>6, <1>7 DEF ReadQueueInv
<1>9. QED
  BY <1>3, <1>4, <1>8, ReaderLocalStep

LEMMA Step_read_data_request ==
    ASSUME IInv, read_data_request
    PROVE  IInv'
<1>0. RdNumbers
  BY ReaderNumbers
<1> DEFINE m == Request("REQ", Head(rd_held))
<1>1. /\ rd_pc = "idle" /\ Len(rd_data_q) < N
      /\ rd_held # <<>> /\ rd_held' = Tail(rd_held)
      /\ rd_data_q' = Append(rd_data_q, m)
      /\ UNCHANGED <<shared, writer, rd_pc, rd_buff_q, rd_buff_use,
                     rd_data_use, rd_sync_counter, rd_acq_index,
                     rd_rel_index, rd_len, rd_readable, history>>
  BY DEF read_data_request, PushReadData
<1>2. /\ Head(rd_held) \in Slots
      /\ Len(rd_held') = Len(rd_held) - 1 /\ rd_held' \in Seq(Slots)
  BY <1>1, ReaderTypes, HeadTailProperties
<1>3. m \in Msg /\ m.buf # NoBuf
  BY <1>2, Messages, RingAssumption DEF Request, Slots, NoBuf
<1> HIDE DEF m
<1>4. /\ rd_data_q' \in Seq(Msg) /\ Len(rd_data_q') = Len(rd_data_q) + 1
      /\ RdChecking' = RdChecking + 1
  BY <1>1, <1>3, ReaderTypes, QueuePush DEF RdChecking
<1>5. /\ Len(rd_data_q') <= N /\ rd_data_use' \in 0..Len(rd_data_q')
      /\ RdHolding' = RdHolding
  <2>1. /\ Len(rd_data_q') = Len(rd_data_q) + 1 /\ Len(rd_data_q) < N
        /\ RdChecking' = RdChecking + 1
        /\ Len(rd_held') = Len(rd_held) - 1
        /\ Len(rd_readable') = Len(rd_readable)
        /\ rd_data_use' = rd_data_use
    BY <1>1, <1>2, <1>4
  <2>2. QED
    BY <1>0, <2>1 DEF RdNumbers, RdHolding
<1>6. RdInUse' <= N
  <2>1. RdInUse <= N
    BY DEF IInv, ReadQueueInv
  <2>2. /\ Len(rd_data_q') = Len(rd_data_q) + 1
        /\ Len(rd_held') = Len(rd_held) - 1
        /\ Len(rd_readable') = Len(rd_readable)
        /\ Len(rd_buff_q') = Len(rd_buff_q)
    BY <1>1, <1>2, <1>4
  <2>3. QED
    BY <1>0, <2>1, <2>2 DEF RdInUse, RdNumbers
<1>7. rd_readable' \in Seq(Slots)
  BY <1>1, ReaderTypes
<1>8. QED
  BY <1>1, <1>2, <1>4, <1>5, <1>6, <1>7, ReaderDataStep

LEMMA Step_read_data_request_bad ==
    ASSUME Disciplined, IInv, read_data_request_bad
    PROVE  IInv'
<1>0. RdNumbers
  BY ReaderNumbers
<1>1. PICK kind \in DataKinds \ {"REQ"} :
         PushReadData(Request(kind, NoBuf))
  BY DEF read_data_request_bad
<1> DEFINE m == Request(kind, NoBuf)
<1>2. /\ rd_pc = "idle" /\ Len(rd_data_q) < N /\ RdInUse < RdHandles
      /\ rd_data_q' = Append(rd_data_q, m)
      /\ UNCHANGED <<shared, writer, rd_pc, rd_buff_q, rd_buff_use,
                     rd_data_use, rd_sync_counter, rd_acq_index,
                     rd_rel_index, rd_len, rd_held, rd_readable, history>>
  BY <1>1 DEF read_data_request_bad, PushReadData
<1>3. m \in Msg /\ m.buf = NoBuf
  <2>1. kind \in MsgType
    BY ApplicationAssumption DEF MsgType
  <2>2. QED
    BY <2>1, Messages DEF Request
<1> HIDE DEF m
<1>4. /\ rd_data_q' \in Seq(Msg) /\ Len(rd_data_q') = Len(rd_data_q) + 1
      /\ RdChecking' = RdChecking
  <2>1. /\ rd_data_q' \in Seq(Msg) /\ Len(rd_data_q') = Len(rd_data_q) + 1
        /\ RdChecking' = RdChecking + (IF m.buf # NoBuf THEN 1 ELSE 0)
    BY <1>2, <1>3, ReaderTypes, QueuePush DEF RdChecking
  <2>2. QED
    BY <1>0, <1>3, <2>1 DEF RdNumbers
<1>5. Len(rd_data_q') <= N /\ rd_data_use' \in 0..Len(rd_data_q')
  <2>1. Len(rd_data_q') = Len(rd_data_q) + 1 /\ rd_data_use' = rd_data_use
    BY <1>2, <1>4
  <2>2. QED
    BY <1>0, <1>2, <2>1 DEF RdNumbers
<1>6. RdInUse' <= N
  <2>1. /\ Len(rd_data_q') = Len(rd_data_q) + 1
        /\ Len(rd_held') = Len(rd_held)
        /\ Len(rd_readable') = Len(rd_readable)
        /\ Len(rd_buff_q') = Len(rd_buff_q)
        /\ RdHandles \in Nat /\ RdHandles <= N /\ RdInUse < RdHandles
    BY <1>2, <1>4, ApplicationAssumption DEF Disciplined
  <2>2. QED
    BY <1>0, <2>1 DEF RdInUse, RdNumbers
<1>7. /\ rd_held' \in Seq(Slots) /\ rd_readable' \in Seq(Slots)
      /\ RdHolding' = RdHolding
  BY <1>2, <1>4, ReaderTypes DEF RdHolding
<1>8. QED
  BY <1>2, <1>4, <1>5, <1>6, <1>7, ReaderDataStep

LEMMA Step_read_data_ready ==
    ASSUME IInv, read_data_ready
    PROVE  IInv'
<1>0. RdNumbers
  BY ReaderNumbers
<1>1. /\ rd_pc = "idle" /\ rd_data_use' = Len(rd_data_q)
      /\ rd_data_q' = [i \in 1..Len(rd_data_q) |->
                          IF i > rd_data_use THEN Checked(rd_data_q[i])
                                             ELSE rd_data_q[i]]
      /\ UNCHANGED <<shared, writer, rd_pc, rd_buff_q, rd_buff_use,
                     rd_sync_counter, rd_acq_index, rd_rel_index, rd_len,
                     rd_held, rd_readable, history>>
  BY DEF read_data_ready, rd_app
<1>2. \A m \in Msg : Checked(m) \in Msg /\ Checked(m).buf = m.buf
  <2> SUFFICES ASSUME NEW m \in Msg
               PROVE  Checked(m) \in Msg /\ Checked(m).buf = m.buf
    OBVIOUS
  <2>1. /\ m.buf \in Slots \cup {NoBuf}
        /\ \A s \in Status : Response(m.buf, s) \in Msg
        /\ \A s \in Status : Response(m.buf, s).buf = m.buf
    BY Messages DEF Msg, Response
  <2>2. "ENOERROR" \in Status /\ "EINVALID" \in Status
    BY DEF Status
  <2>3. QED
    BY <2>1, <2>2 DEF Checked
<1>3. \A i \in 1..Len(rd_data_q) : rd_data_q[i] \in Msg
  BY ReaderTypes
<1>4. /\ rd_data_q' \in Seq(Msg) /\ Len(rd_data_q') = Len(rd_data_q)
      /\ \A i \in 1..Len(rd_data_q) : rd_data_q'[i].buf = rd_data_q[i].buf
  <2>1. Len(rd_data_q) \in Nat
    BY <1>0 DEF RdNumbers
  <2>2. \A i \in 1..Len(rd_data_q) :
           rd_data_q'[i] \in Msg /\ rd_data_q'[i].buf = rd_data_q[i].buf
    BY <1>1, <1>2, <1>3
  <2>3. QED
    BY <1>1, <2>1, <2>2
<1>5. RdChecking' = RdChecking
  <2>1. Len(rd_data_q) \in Nat
    BY <1>0 DEF RdNumbers
  <2>2. Buffers(rd_data_q', Len(rd_data_q)) = RdChecking
    BY <1>4, <2>1, BuffersSame DEF RdChecking
  <2>3. QED
    BY <1>4, <2>2 DEF RdChecking
<1>6. RdHolding' = RdHolding /\ RdInUse' = RdInUse /\ RdInUse <= N
  BY <1>1, <1>4, <1>5 DEF RdHolding, RdInUse, IInv, ReadQueueInv
<1>7. /\ rd_held' \in Seq(Slots) /\ rd_readable' \in Seq(Slots)
      /\ rd_data_use' \in 0..Len(rd_data_q') /\ Len(rd_data_q') <= N
  BY <1>1, <1>4, ReaderTypes
<1>8. QED
  BY <1>1, <1>4, <1>6, <1>7, ReaderDataStep

LEMMA Step_read_data_result ==
    ASSUME IInv, read_data_result
    PROVE  IInv'
<1>0. RdNumbers
  BY ReaderNumbers
<1> DEFINE q == rd_data_q
           d == IF q[1].buf # NoBuf THEN 1 ELSE 0
<1>1. /\ rd_pc = "idle" /\ rd_data_use > 0
      /\ rd_data_q' = Tail(q) /\ rd_data_use' = rd_data_use - 1
      /\ rd_readable' = IF Head(q).buf # NoBuf
                        THEN Append(rd_readable, Head(q).buf)
                        ELSE rd_readable
      /\ UNCHANGED <<shared, writer, rd_pc, rd_buff_q, rd_buff_use,
                     rd_sync_counter, rd_acq_index, rd_rel_index, rd_len,
                     rd_held, history>>
  BY DEF read_data_result
<1>2. Len(q) > 0
  BY <1>0, <1>1 DEF RdNumbers
<1>3. /\ Head(q) = q[1] /\ q[1] \in Msg
      /\ rd_data_q' \in Seq(Msg) /\ Len(rd_data_q') = Len(q) - 1
      /\ RdChecking' = RdChecking - d
  BY <1>1, <1>2, ReaderTypes, QueuePop DEF RdChecking
<1>4. /\ rd_readable' \in Seq(Slots)
      /\ Len(rd_readable') = Len(rd_readable) + d
  <2>1. q[1].buf # NoBuf => q[1].buf \in Slots
    BY <1>3 DEF Msg
  <2>2. QED
    BY <1>1, <1>3, <2>1, ReaderTypes, AppendProperties, SMTT(30)
<1>5. d \in {0, 1}
  OBVIOUS
<1> HIDE DEF d
<1>6. /\ Len(rd_data_q') = Len(q) - 1 /\ RdChecking' = RdChecking - d
      /\ Len(rd_readable') = Len(rd_readable) + d
      /\ Len(rd_held') = Len(rd_held) /\ Len(rd_buff_q') = Len(rd_buff_q)
      /\ rd_data_use > 0 /\ rd_data_use' = rd_data_use - 1
      /\ rd_held' \in Seq(Slots)
  BY <1>1, <1>3, <1>4, ReaderTypes
<1>7. RdInUse <= N
  BY DEF IInv, ReadQueueInv
<1>8. /\ rd_data_use' \in 0..Len(rd_data_q') /\ Len(rd_data_q') <= N
      /\ RdHolding' = RdHolding
      /\ RdInUse' <= N
  BY <1>0, <1>5, <1>6, <1>7, SMTT(30) DEF RdNumbers, RdHolding, RdInUse
<1>9. QED
  BY <1>1, <1>3, <1>4, <1>6, <1>8, ReaderDataStep

-----------------------------------------------------------------------------
(***************************************************************************)
(* The steps that read or write the ring.                                  *)
(***************************************************************************)
\* The next message is acquired: its slot joins Released .. Acquired - 1.
LEMMA Step_read_buffer_size ==
    ASSUME IInv, read_buffer_size
    PROVE  IInv'
<1>0. RdNumbers /\ WrNumbers
  BY ReaderNumbers, WriterNumbers
<1> DEFINE i == rd_buff_use + 1
           b == rd_acq_index
           m == Response(b, "ENOERROR")
<1>1. /\ rd_pc = "size"
      /\ UNCHANGED <<shared, writer, rd_data_q, rd_data_use, rd_rel_index,
                     rd_app, history>>
      /\ UNCHANGED <<seq_no, data_size, mem, sent, got, acked, rd_held,
                     rd_readable>>
  BY DEF read_buffer_size, shared, history, rd_app
<1>2. /\ rd_buff_use < Len(rd_buff_q) /\ rd_buff_q[i].type = "REQ"
      /\ Acquired < Len(sent)
  BY <1>1 DEF IInv, ReadQueueInv
<1>3. i \in 1..Len(rd_buff_q) /\ rd_buff_q[i].buf = NoBuf
  BY <1>0, <1>2, ReadEntries, SMTT(30) DEF RdNumbers
<1>4. ~(data_size[b] > MaxLen) /\ data_size[b] \in 0..MaxLen
  <2>1. /\ data_size \in [Slots -> 0..MaxLen] /\ b \in Slots
        /\ MaxLen \in Nat
    BY ReaderTypes, WriterTypes, RingAssumption
  <2>2. QED
    BY <2>1
<1>5. /\ rd_pc' = "buff_ready" /\ rd_buff_use' = i
      /\ rd_buff_q' = [rd_buff_q EXCEPT ![i] = m]
      /\ rd_len' = [rd_len EXCEPT ![b] = data_size[b]]
      /\ rd_sync_counter' = rd_sync_counter + 1
      /\ rd_acq_index' = NextIndex(b)
  BY <1>4 DEF read_buffer_size
<1>6. /\ m \in Msg /\ m.buf # NoBuf /\ m.type = "RES"
      /\ m.status = "ENOERROR"
  <2>1. b \in Slots /\ b # NoBuf /\ "ENOERROR" \in Status
    BY ReaderTypes, RingAssumption DEF Slots, NoBuf, Status
  <2>2. QED
    BY <2>1, Messages DEF Response
<1> HIDE DEF m
<1>7. /\ rd_buff_q' \in Seq(Msg) /\ Len(rd_buff_q') = Len(rd_buff_q)
      /\ rd_buff_q'[i] = m
      /\ \A k \in 1..Len(rd_buff_q) : k # i => rd_buff_q'[k] = rd_buff_q[k]
  BY <1>3, <1>5, <1>6, ReaderTypes, QueueUpdate
<1>8. RdTaken' = RdTaken + 1
  <2>1. Len(rd_buff_q) \in i..Len(rd_buff_q)
    BY <1>0, <1>3 DEF RdNumbers
  <2>2. Buffers(rd_buff_q', Len(rd_buff_q)) = RdTaken + 1
    BY <1>3, <1>5, <1>6, <2>1, ReaderTypes, BuffersUpdate DEF RdTaken
  <2>3. QED
    BY <1>7, <2>2 DEF RdTaken
<1>9. Acquired' = Acquired + 1
  BY <1>0, <1>5 DEF Acquired, RdNumbers, BRING_SYNC_START
<1>10. Released' = Released
  BY <1>1, <1>5 DEF Released
<1>11. /\ acked <= Released /\ Released <= Acquired
       /\ Len(sent) <= acked + N
  BY DEF IInv, CounterInv
<1>30. /\ b = Pos(Acquired) /\ rd_rel_index = Pos(Released)
       /\ wr_out_index = Pos(Len(sent))
  BY DEF IInv, IndexInv
<1>12. /\ UNCHANGED <<wr_sync_counter, wr_out_index, wr_rel_index>>
       /\ wr_rel_index \in Slots /\ acked \in Nat
  BY <1>1, WriterTypes DEF writer, wr_chan
<1>13. \A k \in Int : Pos(k)' = Pos(k)
  BY <1>1, <1>12, PosStable
<1>31. Acquired < Len(sent)
  BY <1>2
<1>14. Acquired \in acked .. acked + N - 1
  BY <1>0, <1>11, <1>31, SMTT(30) DEF RdNumbers, WrNumbers
<1>15. CounterInv'
  <2>1. /\ Len(sent') = Len(sent) /\ acked' = acked
        /\ wr_sync_counter' = wr_sync_counter
    BY <1>1, <1>12
  <2>2. QED
    <3>1. wr_sync_counter' = Len(sent') + BRING_SYNC_START
      BY <2>1 DEF IInv, CounterInv
    <3>2. /\ acked' <= Released' /\ Released' <= Acquired'
          /\ Acquired' <= Len(sent') /\ Len(sent') <= acked' + N
      <4>1. Released <= Acquired + 1 /\ Acquired + 1 <= Len(sent)
        BY <1>0, <1>11, <1>31, SMTT(30) DEF RdNumbers, WrNumbers
      <4>2. QED
        BY <1>9, <1>10, <1>11, <2>1, <4>1
    <3>3. QED
      BY <3>1, <3>2 DEF CounterInv
<1>16. IndexInv'
  <2>1. rd_acq_index' = Pos(Acquired + 1)
    BY <1>5, <1>12, <1>14, <1>30, PosNext
  <2>2. /\ Acquired + 1 \in Int /\ Released \in Int /\ Len(sent) \in Int
    BY <1>0 DEF RdNumbers, WrNumbers
  <2>4. /\ Pos(Acquired)' = Pos(Acquired + 1)
        /\ Pos(Released)' = Pos(Released) /\ Pos(Len(sent))' = Pos(Len(sent))
    BY <1>1, <1>9, <1>10, <1>12 DEF Pos
  <2>5. QED
    BY <1>1, <1>12, <1>30, <2>1, <2>4 DEF IndexInv
<1>17. SlotInv'
  <2>1. rd_len'[b] = DataLen[Acquired + 1]
    <3>1. Acquired \in Released .. Len(sent) - 1
      BY <1>0, <1>11, <1>31 DEF RdNumbers, WrNumbers
    <3>2. data_size[Pos(Acquired)] = DataLen[Acquired + 1]
      BY <3>1 DEF IInv, SlotInv, RxdInv, SentInv, EmptyInv
    <3>3. QED
      BY <1>5, <1>30, <3>2, ReaderTypes
  <2>2. \A k \in Released .. Acquired : rd_len'[Pos(k)] = DataLen[k + 1]
    <3> TAKE k \in Released .. Acquired
    <3>1. CASE k = Acquired
      BY <1>30, <2>1, <3>1
    <3>2. CASE k # Acquired
      <4>1. /\ k \in Released .. Acquired - 1
            /\ k \in acked .. acked + N - 1 /\ k \in acked .. acked + N
        BY <1>0, <1>11, <1>31, <3>2, SMTT(30) DEF RdNumbers, WrNumbers
      <4>2. Pos(k) # b /\ Pos(k) \in Slots
        BY <1>12, <1>14, <1>30, <3>2, <4>1, PosInjective, PosType
      <4>3. rd_len[Pos(k)] = DataLen[k + 1]
        BY <4>1 DEF IInv, SlotInv, LengthInv
      <4>4. QED
        BY <1>5, <4>2, <4>3, ReaderTypes
    <3>3. QED
      BY <3>1, <3>2
  <2>3. Released .. Acquired' - 1 = Released .. Acquired
    BY <1>0, <1>9 DEF RdNumbers
  <2>4. LengthInv'
    <3> SUFFICES ASSUME NEW k \in Released' .. Acquired' - 1
                 PROVE  rd_len'[Pos(k)'] = DataLen[k + 1]
      BY DEF LengthInv
    <3>1. k \in Released .. Acquired /\ k \in Int
      <4>1. k \in Released .. Acquired
        BY <1>10, <2>3
      <4>2. QED
        BY <1>0, <4>1 DEF RdNumbers
    <3>2. QED
      BY <1>13, <2>2, <3>1
  <2>5. QED
    BY <1>1, <1>10, <1>12, <2>4, KeepSlots DEF SlotInv
<1>18. ReadQueueInv'
  <2>1. RdHolding' = RdHolding /\ RdInUse' = RdInUse
    BY <1>1, <1>7 DEF RdHolding, RdChecking, Buffers, RdInUse
  <2>2. Acquired = Len(got) + RdHolding + RdTaken /\ RdInUse <= N
    BY DEF IInv, ReadQueueInv
  <2>3. Acquired' = Len(got') + RdHolding' + RdTaken' /\ RdInUse' <= N
    BY <1>0, <1>1, <1>8, <1>9, <2>1, <2>2 DEF RdNumbers
  <2>4. \A k \in 1..Len(rd_buff_q') :
          /\ k > rd_buff_use' => rd_buff_q'[k].buf = NoBuf
          /\ rd_buff_q'[k].type = "REQ" => rd_buff_q'[k].buf = NoBuf
          /\ rd_buff_q'[k].status # "EWRONGBUFF"
    <3> TAKE k \in 1..Len(rd_buff_q')
    <3>1. CASE k = i
      BY <1>0, <1>5, <1>6, <1>7, <3>1 DEF RdNumbers
    <3>2. CASE k # i
      <4>1. rd_buff_q'[k] = rd_buff_q[k] /\ k \in 1..Len(rd_buff_q)
        BY <1>7, <3>2
      <4>2. k > rd_buff_use' => k > rd_buff_use
        BY <1>0, <1>5, <4>1 DEF RdNumbers
      <4>3. QED
        BY <4>1, <4>2, ReadEntries
    <3>3. QED
      BY <3>1, <3>2
  <2>5. QED
    BY <1>5, <2>3, <2>4 DEF ReadQueueInv
<1>19. TypeOK'
  <2>1. /\ rd_acq_index' \in Slots
        /\ rd_len' \in [Slots -> 0..MaxLen]
        /\ rd_buff_use' \in 0..Len(rd_buff_q')
        /\ rd_sync_counter' \in Nat
    <3>1. rd_acq_index' \in Slots
      BY <1>5, ReaderTypes, NextIndexType
    <3>2. rd_len' \in [Slots -> 0..MaxLen]
      BY <1>4, <1>5, ReaderTypes
    <3>3. rd_buff_use' \in 0..Len(rd_buff_q') /\ rd_sync_counter' \in Nat
      BY <1>0, <1>3, <1>5, <1>7 DEF RdNumbers
    <3>4. QED
      BY <3>1, <3>2, <3>3
  <2>2. ReaderTypeOK'
    BY <1>1, <1>5, <1>7, <2>1, ReaderTypes DEF ReaderTypeOK, rd_app
  <2>3. QED
    BY <1>1, <2>2, KeepTypes DEF TypeOK
<1>20. DataQueueInv' /\ BuffQueueInv'
  <2>1. Released <= Released' /\ Released' \in Int
    BY <1>0, <1>10 DEF RdNumbers
  <2>2. QED
    BY <1>1, <2>1, KeepWriter
<1>21. MessageInv'
  BY <1>1, KeepMessages DEF IInv, MessageInv
<1>22. QED
  BY <1>15, <1>16, <1>17, <1>18, <1>19, <1>20, <1>21 DEF IInv

\* The release of a buffer writes the size that is in the header already.
LEMMA Step_read_buffer_release ==
    ASSUME IInv, read_buffer_release
    PROVE  IInv'
<1>0. RdNumbers /\ WrNumbers
  BY ReaderNumbers, WriterNumbers
<1> DEFINE b == rd_rel_index
           entry == [msg |-> mem[b], len |-> rd_len[b]]
<1>1. /\ rd_pc = "idle" /\ rd_pc' = "release"
      /\ rd_readable # <<>> /\ rd_readable' = Tail(rd_readable)
      /\ got' = Append(got, entry)
      /\ data_size' = [data_size EXCEPT ![b] = rd_len[b]]
      /\ UNCHANGED <<seq_no, mem, writer, rd_buff_q, rd_buff_use, rd_data_q,
                     rd_data_use, rd_sync_counter, rd_acq_index, rd_rel_index,
                     rd_len, rd_held, sent, acked>>
  BY DEF read_buffer_release
<1>2. /\ rd_readable' \in Seq(Slots)
      /\ Len(rd_readable') = Len(rd_readable) - 1 /\ Len(rd_readable) > 0
  BY <1>1, ReaderTypes, HeadTailProperties
<1>3. /\ Acquired = Len(got) + RdHolding + RdTaken /\ RdInUse <= N
  BY DEF IInv, ReadQueueInv
<1>4. Released = Len(got)
  BY <1>1 DEF Released
<1>5. Released \in Released .. Acquired - 1
  BY <1>0, <1>2, <1>3, <1>4, SMTT(30) DEF RdNumbers, RdHolding
<1>6. Released \in Released .. Len(sent) - 1
  <2>1. Acquired <= Len(sent)
    BY DEF IInv, CounterInv
  <2>2. QED
    BY <1>0, <1>5, <2>1 DEF RdNumbers, WrNumbers
<1>7. /\ b = Pos(Released)
      /\ mem[b] = Released + 1 /\ rd_len[b] = DataLen[Released + 1]
      /\ data_size[b] = DataLen[Released + 1]
  BY <1>5, <1>6 DEF IInv, IndexInv, SlotInv, SentInv, LengthInv
<1>8. UNCHANGED data_size
  BY <1>1, <1>7, WriterTypes
<1>9. /\ got' \in Seq([msg : 0..MaxMsgs, len : 0..MaxLen])
      /\ Len(got') = Len(got) + 1
      /\ got'[Len(got) + 1] = entry
      /\ \A i \in 1..Len(got) : got'[i] = got[i]
  <2>1. entry \in [msg : 0..MaxMsgs, len : 0..MaxLen]
    BY ReaderTypes, WriterTypes
  <2> HIDE DEF entry
  <2>2. QED
    BY <1>1, <2>1, ReaderTypes, AppendProperties
<1>10. Released' = Released
  <2>1. Released' = Len(got') - 1
    BY <1>1 DEF Released
  <2>2. Len(got') = Len(got) + 1
    BY <1>9
  <2>3. QED
    BY <1>0, <1>4, <2>1, <2>2 DEF RdNumbers
<1>11. CounterInv' /\ IndexInv' /\ SlotInv'
  <2>1. RingFrame
    BY <1>1, <1>8, <1>10 DEF RingFrame, writer, wr_chan
  <2>2. QED
    BY <2>1, KeepRing
<1>12. MessageInv'
  <2>1. \A i \in 1..Len(got) : got[i] = [msg |-> i, len |-> DataLen[i]]
    BY DEF IInv, MessageInv
  <2>2. \A i \in 1..Len(got') : got'[i] = [msg |-> i, len |-> DataLen[i]]
    <3> TAKE i \in 1..Len(got')
    <3>1. CASE i = Len(got) + 1
      BY <1>4, <1>7, <1>9, <3>1
    <3>2. CASE i # Len(got) + 1
      <4>1. i \in 1..Len(got)
        BY <1>0, <1>9, <3>2 DEF RdNumbers
      <4>2. QED
        BY <1>9, <2>1, <4>1
    <3>3. QED
      BY <3>1, <3>2
  <2>3. QED
    BY <1>1, <1>8, <2>2, KeepMessages
<1>13. DataQueueInv' /\ BuffQueueInv'
  <2>1. Released <= Released' /\ Released' \in Int
    BY <1>0, <1>10 DEF RdNumbers
  <2>2. QED
    BY <1>1, <2>1, KeepWriter
<1>14. ReadQueueInv'
  <2>1. /\ Len(rd_readable') = Len(rd_readable) - 1
        /\ Len(rd_held') = Len(rd_held) /\ Len(rd_buff_q') = Len(rd_buff_q)
        /\ Len(rd_data_q') = Len(rd_data_q) /\ RdChecking' = RdChecking
        /\ RdTaken' = RdTaken /\ Acquired' = Acquired
        /\ Len(got') = Len(got) + 1
    BY <1>1, <1>2, <1>9 DEF RdTaken, RdChecking, Buffers, Acquired
  <2>2. Acquired' = Len(got') + RdHolding' + RdTaken' /\ RdInUse' <= N
    BY <1>0, <1>3, <2>1 DEF RdNumbers, RdHolding, RdInUse
  <2>3. Len(got') > 0
    BY <1>0, <2>1 DEF RdNumbers
  <2>4. \A k \in 1..Len(rd_buff_q') :
          /\ k > rd_buff_use' => rd_buff_q'[k].buf = NoBuf
          /\ rd_buff_q'[k].type = "REQ" => rd_buff_q'[k].buf = NoBuf
          /\ rd_buff_q'[k].status # "EWRONGBUFF"
    BY <1>1, ReadEntries
  <2>5. QED
    BY <1>1, <2>2, <2>3, <2>4 DEF ReadQueueInv
<1>15. TypeOK'
  <2>1. ReaderTypeOK'
    BY <1>1, <1>2, ReaderTypes DEF ReaderTypeOK
  <2>2. HistoryTypeOK'
    BY <1>1, <1>9, WriterTypes DEF HistoryTypeOK
  <2>3. SharedTypeOK'
    BY <1>1, <1>8, KeepTypes DEF shared
  <2>4. QED
    BY <1>1, <2>1, <2>2, <2>3, KeepTypes DEF TypeOK
<1>16. QED
  BY <1>11, <1>12, <1>13, <1>14, <1>15 DEF IInv

\* ... and the mark moves one slot from the sent ones to those given back.
LEMMA Step_read_buffer_release_seq ==
    ASSUME IInv, read_buffer_release_seq
    PROVE  IInv'
<1>0. RdNumbers /\ WrNumbers
  BY ReaderNumbers, WriterNumbers
<1> DEFINE b == rd_rel_index
<1>1. /\ rd_pc = "release" /\ rd_pc' = "idle"
      /\ seq_no' = [seq_no EXCEPT ![b] = BRING_SYNC_BUFF_RXD]
      /\ rd_rel_index' = NextIndex(b)
      /\ UNCHANGED <<data_size, mem, writer, rd_buff_q, rd_buff_use,
                     rd_data_q, rd_data_use, rd_sync_counter, rd_acq_index,
                     rd_len, rd_held, rd_readable, sent, got, acked>>
  BY DEF read_buffer_release_seq, rd_app, history
<1>2. /\ Acquired = Len(got) + RdHolding + RdTaken /\ RdInUse <= N
      /\ Len(got) > 0
  BY <1>1 DEF IInv, ReadQueueInv
<1>3. Released = Len(got) - 1 /\ Released' = Len(got)
  BY <1>1 DEF Released
<1>4. Released' = Released + 1
  BY <1>0, <1>3 DEF RdNumbers
<1>5. /\ acked <= Released /\ Acquired <= Len(sent) /\ Len(sent) <= acked + N
      /\ Released + 1 <= Acquired
  <2>1. /\ acked <= Released /\ Acquired <= Len(sent)
        /\ Len(sent) <= acked + N
    BY DEF IInv, CounterInv
  <2>2. Released + 1 <= Acquired
    BY <1>0, <1>2, <1>3 DEF RdNumbers
  <2>3. QED
    BY <2>1, <2>2
<1>6. /\ UNCHANGED <<wr_sync_counter, wr_out_index, wr_rel_index>>
      /\ wr_rel_index \in Slots /\ acked \in Nat
  BY <1>1, WriterTypes DEF writer, wr_chan
<1>7. \A k \in Int : Pos(k)' = Pos(k)
  BY <1>1, <1>6, PosStable
<1>8. /\ b = Pos(Released) /\ rd_acq_index = Pos(Acquired)
      /\ wr_out_index = Pos(Len(sent))
  BY DEF IInv, IndexInv
<1>9. Released \in acked .. acked + N - 1
  BY <1>0, <1>5 DEF RdNumbers, WrNumbers
<1>10. Acquired' = Acquired /\ Len(sent') = Len(sent) /\ acked' = acked
  BY <1>1 DEF Acquired
<1>11. CounterInv'
  <2>1. wr_sync_counter' = Len(sent') + BRING_SYNC_START
    BY <1>6, <1>10 DEF IInv, CounterInv
  <2>2. acked <= Released + 1
    BY <1>0, <1>5 DEF RdNumbers, WrNumbers
  <2>3. QED
    BY <1>4, <1>5, <1>10, <2>1, <2>2 DEF CounterInv
<1>12. IndexInv'
  <2>1. rd_rel_index' = Pos(Released + 1)
    BY <1>1, <1>6, <1>8, <1>9, PosNext
  <2>2. /\ Pos(Acquired)' = Pos(Acquired)
        /\ Pos(Released)' = Pos(Released + 1) /\ Pos(Len(sent))' = Pos(Len(sent))
    BY <1>4, <1>6, <1>10 DEF Pos
  <2>3. QED
    BY <1>1, <1>6, <1>8, <2>1, <2>2 DEF IndexInv
<1>13. \A k \in acked .. acked + N - 1 : k # Released =>
          Pos(k) # b /\ seq_no'[Pos(k)] = seq_no[Pos(k)]
  <2> TAKE k \in acked .. acked + N - 1
  <2>1. k \in acked .. acked + N
    BY <1>0 DEF WrNumbers
  <2>2. k # Released => Pos(k) # b /\ Pos(k) \in Slots
    BY <1>6, <1>8, <1>9, <2>1, PosInjective, PosType
  <2>3. QED
    BY <1>1, <2>2, WriterTypes
<1>14. seq_no'[Pos(Released)] = BRING_SYNC_BUFF_RXD
  BY <1>1, <1>8, ReaderTypes, WriterTypes
<1>15. RxdInv'
  <2> SUFFICES ASSUME NEW k \in acked' .. Released' - 1
               PROVE  seq_no'[Pos(k)'] = BRING_SYNC_BUFF_RXD
    BY DEF RxdInv
  <2>1. k \in acked .. Released /\ k \in Int /\ k \in acked .. acked + N - 1
    <3>1. k \in acked .. (Released + 1) - 1
      BY <1>4, <1>10
    <3>2. QED
      BY <1>0, <1>9, <3>1 DEF RdNumbers, WrNumbers
  <2>2. CASE k = Released
    BY <1>7, <1>14, <2>1, <2>2
  <2>3. CASE k # Released
    <3>1. k \in acked .. Released - 1
      BY <1>0, <2>1, <2>3 DEF RdNumbers, WrNumbers
    <3>2. seq_no[Pos(k)] = BRING_SYNC_BUFF_RXD
      BY <3>1 DEF IInv, SlotInv, RxdInv
    <3>3. QED
      BY <1>7, <1>13, <2>1, <2>3, <3>2
  <2>4. QED
    BY <2>2, <2>3
<1>30. Released < Len(sent) /\ acked < Len(sent)
  BY <1>0, <1>5, SMTT(30) DEF RdNumbers, WrNumbers
<1>16. SentInv'
  <2>1. ASSUME NEW k \in Released + 1 .. Len(sent) - 1
        PROVE  /\ k \in Int
               /\ seq_no'[Pos(k)] = k + BRING_SYNC_START
               /\ mem[Pos(k)] = k + 1 /\ data_size[Pos(k)] = DataLen[k + 1]
    <3>1. /\ k \in Released .. Len(sent) - 1 /\ k # Released /\ k \in Int
          /\ k \in acked .. acked + N - 1
      <4>1. k # Released /\ k \in Int /\ k \in Released .. Len(sent) - 1
        BY <1>0, SMTT(30) DEF RdNumbers, WrNumbers
      <4>2. acked <= k
        BY <1>0, <1>5 DEF RdNumbers, WrNumbers
      <4>3. k <= acked + N - 1
        BY <1>0, <1>5 DEF RdNumbers, WrNumbers
      <4>4. QED
        BY <1>0, <4>1, <4>2, <4>3 DEF WrNumbers
    <3>2. /\ seq_no[Pos(k)] = k + BRING_SYNC_START
          /\ mem[Pos(k)] = k + 1 /\ data_size[Pos(k)] = DataLen[k + 1]
      BY <3>1 DEF IInv, SlotInv, SentInv
    <3>3. QED
      BY <1>13, <3>1, <3>2
  <2>2. QED
    BY <1>1, <1>4, <1>7, <1>10, <2>1 DEF SentInv
<1>17. EmptyInv'
  <2>1. ASSUME NEW k \in Len(sent) .. acked + N - 1
        PROVE  k \in Int /\ seq_no'[Pos(k)] = BRING_SYNC_BUFF_EMPTY
    <3>1. k # Released /\ k \in acked .. acked + N - 1 /\ k \in Int
      <4>1. k # Released /\ k \in Int
        BY <1>0, <1>30 DEF RdNumbers, WrNumbers
      <4>2. k \in acked .. acked + N - 1
        BY <1>0, <1>30 DEF WrNumbers
      <4>3. QED
        BY <4>1, <4>2
    <3>2. seq_no[Pos(k)] = BRING_SYNC_BUFF_EMPTY
      BY DEF IInv, SlotInv, EmptyInv
    <3>3. QED
      BY <1>13, <3>1, <3>2
  <2>2. QED
    BY <1>7, <1>10, <2>1 DEF EmptyInv
<1>18. LengthInv'
  <2> SUFFICES ASSUME NEW k \in Released' .. Acquired' - 1
               PROVE  rd_len'[Pos(k)'] = DataLen[k + 1]
    BY DEF LengthInv
  <2>1. k \in Released + 1 .. Acquired - 1
    BY <1>4, <1>10
  <2>2. k \in Released .. Acquired - 1 /\ k \in Int
    BY <1>0, <2>1 DEF RdNumbers
  <2>3. rd_len[Pos(k)] = DataLen[k + 1]
    BY <2>2 DEF IInv, SlotInv, LengthInv
  <2>4. QED
    BY <1>1, <1>7, <2>2, <2>3
<1>19. MessageInv'
  BY <1>1, KeepMessages DEF IInv, MessageInv
<1>20. DataQueueInv' /\ BuffQueueInv'
  <2>1. Released <= Released' /\ Released' \in Int
    BY <1>0, <1>4 DEF RdNumbers
  <2>2. QED
    BY <1>1, <2>1, KeepWriter
<1>21. ReadQueueInv'
  <2>1. RdHolding' = RdHolding /\ RdTaken' = RdTaken /\ RdInUse' = RdInUse
    BY <1>1 DEF RdHolding, RdChecking, RdTaken, Buffers, RdInUse
  <2>2. \A k \in 1..Len(rd_buff_q') :
          /\ k > rd_buff_use' => rd_buff_q'[k].buf = NoBuf
          /\ rd_buff_q'[k].type = "REQ" => rd_buff_q'[k].buf = NoBuf
          /\ rd_buff_q'[k].status # "EWRONGBUFF"
    BY <1>1, ReadEntries
  <2>3. QED
    BY <1>1, <1>2, <1>10, <2>1, <2>2 DEF ReadQueueInv
<1>22. TypeOK'
  <2>1. ReaderTypeOK'
    BY <1>1, ReaderTypes, NextIndexType DEF ReaderTypeOK
  <2>2. SharedTypeOK'
    BY <1>1, WriterTypes DEF SharedTypeOK, BRING_SYNC_BUFF_RXD
  <2>3. QED
    BY <1>1, <2>1, <2>2, KeepTypes DEF TypeOK, history
<1>23. QED
  BY <1>11, <1>12, <1>15, <1>16, <1>17, <1>18, <1>19, <1>20, <1>21, <1>22
     DEF IInv, SlotInv

-----------------------------------------------------------------------------
\* Whatever the reader does, the invariant is preserved.
LEMMA ReaderStep ==
    ASSUME Disciplined, IInv, Reader
    PROVE  IInv'
BY Step_read_buffer_request, Step_read_buffer_ready, Step_read_buffer_size,
   Step_read_buffer_result, Step_read_data_request,
   Step_read_data_request_bad, Step_read_data_ready, Step_read_data_result,
   Step_read_buffer_release, Step_read_buffer_release_seq
   DEF Reader

(***************************************************************************)
(* The writer's steps.                                                     *)
(***************************************************************************)
\* The parts of the invariant about the writer's queues, as facts.
LEMMA DataEntries ==
    ASSUME IInv
    PROVE  \A i \in 1..Len(wr_data_q) : DataEntry(i)
BY DEF IInv, DataQueueInv

LEMMA BuffEntries ==
    ASSUME IInv
    PROVE  /\ \A i \in 1..Len(wr_buff_q) : BuffEntry(i)
           /\ \A i \in 1..Len(wr_held) :
                 wr_held[i] = Pos(Len(sent) + Leaving + i - 1)
BY DEF IInv, BuffQueueInv

\* How far the writer's slots reach: what is on its way to the reader is in
\* the data queue, and the messages in circulation are at most N.
WrBounds ==
    /\ acked <= Len(sent) /\ Len(sent) <= acked + N
    /\ Len(sent) + Leaving <= acked + Len(wr_data_q)
    /\ Granted = Len(sent) + Leaving + Len(wr_held)
    /\ Len(wr_buff_q) + Len(wr_held) + Len(wr_data_q) <= N

LEMMA WriterBounds ==
    ASSUME IInv
    PROVE  WrBounds
<1>0. WrNumbers
  BY WriterNumbers
<1>1. acked <= Len(sent) /\ Len(sent) <= acked + N
  <2>1. /\ acked <= Released /\ Released <= Acquired /\ Acquired <= Len(sent)
        /\ Len(sent) <= acked + N
    BY DEF IInv, CounterInv
  <2>2. RdNumbers
    BY ReaderNumbers
  <2>3. QED
    BY <1>0, <2>1, <2>2 DEF WrNumbers, RdNumbers
<1>2. Len(sent) + Leaving <= acked + Len(wr_data_q)
  <2>1. CASE Failing /\ wr_data_use = Len(wr_data_q)
    <3>1. Len(sent) = acked
      BY <2>1 DEF IInv, DataQueueInv
    <3>2. Len(wr_data_q) >= 1
      BY <1>0, <2>1 DEF Failing, WrNumbers
    <3>3. QED
      BY <1>0, <3>1, <3>2 DEF WrNumbers
  <2>2. CASE ~(Failing /\ wr_data_use = Len(wr_data_q))
    <3>1. Len(wr_data_q) - wr_data_use = Len(sent) - acked + Leaving
      BY <2>2 DEF IInv, DataQueueInv
    <3>2. QED
      BY <1>0, <3>1 DEF WrNumbers
  <2>3. QED
    BY <2>1, <2>2
<1>3. WrInUse <= N
  BY DEF IInv, BuffQueueInv
<1>4. QED
  BY <1>1, <1>2, <1>3, <1>0 DEF WrBounds, Granted, WrInUse, WrNumbers

\* The slots after the last one granted are still in the window.
LEMMA GrantedBound ==
    ASSUME IInv
    PROVE  /\ Granted \in acked .. acked + N
           /\ Granted + WrGranting \in acked .. acked + N
<1>0. WrNumbers /\ WrBounds
  BY WriterNumbers, WriterBounds
<1>1. Granted >= acked /\ Granted + WrGranting <= acked + N
  BY <1>0, SMTT(30) DEF WrNumbers, WrBounds
<1>2. QED
  BY <1>0, <1>1 DEF WrNumbers

-----------------------------------------------------------------------------
(***************************************************************************)
(* Steps that touch neither the ring nor its indices.                      *)
(***************************************************************************)
WriterLocal ==
    UNCHANGED <<shared, reader, history, wr_sync_counter, wr_out_index,
                wr_rel_index>>

\* What remains to be shown of such a step.
LEMMA WriterLocalStep ==
    ASSUME IInv, WriterLocal,
           WriterTypeOK', MessageInv', DataQueueInv', BuffQueueInv'
    PROVE  IInv'
<1>1. UNCHANGED <<seq_no, data_size, mem, sent, got, acked, rd_pc,
                  rd_sync_counter, rd_acq_index, rd_rel_index, rd_len>>
  BY DEF WriterLocal, shared, history, reader, rd_chan
<1>2. RingFrame
  BY <1>1 DEF RingFrame, WriterLocal, Released
<1>3. CounterInv' /\ IndexInv' /\ SlotInv'
  BY <1>2, KeepRing
<1>4. ReadQueueInv'
  <2>1. Len(sent) <= Len(sent)' /\ Len(sent)' \in Nat
    BY <1>1, WriterTypes
  <2>2. QED
    BY <1>1, <2>1, KeepReadQueue DEF WriterLocal
<1>5. TypeOK'
  BY KeepTypes DEF TypeOK, WriterLocal
<1>6. QED
  BY <1>3, <1>4, <1>5 DEF IInv

\* The steps of the buffer handlers: the writes under way are not touched.
LEMMA WriterBuffStep ==
    ASSUME IInv, WriterLocal,
           UNCHANGED <<wr_data_q, wr_data_use, wr_filled, last_msg>>,
           wr_pc \in {"idle", "buff_ready"},
           wr_pc' \in {"idle", "buff_ready"},
           \A i \in 1..wr_filled : wr_held'[i] = wr_held[i],
           WriterTypeOK', BuffQueueInv'
    PROVE  IInv'
<1>1. UNCHANGED <<seq_no, data_size, mem, sent, got, acked, wr_rel_index>>
  BY DEF WriterLocal, shared, history
<1>2. \A k \in Int : Pos(k)' = Pos(k)
  BY <1>1, PosStable
<1>3. Failing' = Failing /\ Leaving' = Leaving
  BY DEF Failing, Leaving
<1>4. /\ Len(sent) \in Int /\ Pos(Len(sent))' = Pos(Len(sent))
      /\ acked \in Int /\ wr_data_use \in Int
  BY <1>1, <1>2, WriterTypes DEF Pos
<1>5. MessageInv'
  BY <1>1, <1>3, <1>4 DEF IInv, MessageInv
<1>6. DataQueueInv'
  <2>1. \A i \in 1..Len(wr_data_q) : DataEntry(i)' <=> DataEntry(i)
    BY <1>1, <1>2, <1>4 DEF DataEntry
  <2>2. QED
    BY <1>1, <1>3, <2>1 DEF IInv, DataQueueInv
<1>7. QED
  BY <1>5, <1>6, WriterLocalStep

LEMMA Step_write_buffer_request ==
    ASSUME Disciplined, IInv, write_buffer_request
    PROVE  IInv'
<1>0. WrNumbers
  BY WriterNumbers
<1> DEFINE q == wr_buff_q
<1>1. PICK kind \in BuffKinds \ {"BAD"} : q' = Append(q, Request(kind, NoBuf))
  BY DEF write_buffer_request
<1> DEFINE m == Request(kind, NoBuf)
<1>2. /\ wr_pc = "idle" /\ WrInUse < WrHandles /\ Len(q) < N
      /\ UNCHANGED <<shared, reader, history, wr_pc, wr_buff_use, wr_data_q,
                     wr_data_use, wr_sync_counter, wr_buff_acq_idx,
                     wr_out_index, wr_rel_index, wr_held, wr_filled, last_msg,
                     sent, acked>>
  BY DEF write_buffer_request, wr_app, history
<1>3. /\ m \in Msg /\ m.buf = NoBuf /\ m.type \in {"REQ", "IGNORE"}
  <2>1. kind \in MsgType /\ kind \in {"REQ", "IGNORE"}
    BY ApplicationAssumption DEF MsgType
  <2>2. QED
    BY <2>1, Messages DEF Request
<1>4. q' = Append(q, m)
  BY <1>1
<1> HIDE DEF m
<1>5. /\ q' \in Seq(Msg) /\ Len(q') = Len(q) + 1 /\ q'[Len(q) + 1] = m
      /\ \A i \in 1..Len(q) : q'[i] = q[i]
      /\ \A n \in 0..Len(q) : Buffers(q', n) = Buffers(q, n)
      /\ WrGranting' = WrGranting + (IF m.buf # NoBuf THEN 1 ELSE 0)
  <2>1. q \in Seq(Msg)
    BY WriterTypes
  <2>2. \A n \in 0..Len(q) : Buffers(q', n) = Buffers(q, n)
    BY <1>3, <1>4, <2>1, BuffersAppend
  <2>3. QED
    BY <1>3, <1>4, <2>1, <2>2, QueuePush DEF WrGranting
<1>6. WrGranting' = WrGranting
  BY <1>0, <1>3, <1>5 DEF WrNumbers
<1>7. WriterLocal
  BY <1>2 DEF WriterLocal
<1>8. \A k \in Int : Pos(k)' = Pos(k)
  BY <1>2, PosStable
<1>9. Failing' = Failing /\ Leaving' = Leaving /\ Granted' = Granted
  BY <1>2 DEF Failing, Leaving, Granted
<1>10. WriterTypeOK'
  <2>1. Len(q') <= N /\ wr_buff_use' \in 0..Len(q')
    <3>1. Len(q') = Len(q) + 1 /\ Len(q) < N /\ wr_buff_use' = wr_buff_use
      BY <1>2, <1>5
    <3>2. QED
      BY <1>0, <3>1 DEF WrNumbers
  <2>2. QED
    BY <1>2, <1>5, <2>1, WriterTypes DEF WriterTypeOK
<1>11. WrInUse' <= N
  <2>1. /\ Len(q') = Len(q) + 1 /\ Len(wr_held') = Len(wr_held)
        /\ Len(wr_data_q') = Len(wr_data_q)
        /\ WrInUse < WrHandles /\ WrHandles <= N /\ WrHandles \in Nat
    BY <1>2, <1>5, ApplicationAssumption DEF Disciplined
  <2>2. QED
    BY <1>0, <2>1 DEF WrInUse, WrNumbers
<1>12. \A i \in 1..Len(q') : BuffEntry(i)'
  <2> TAKE i \in 1..Len(q')
  <2>1. CASE i = Len(q) + 1
    <3>1. q'[i] = m /\ ~(i <= wr_buff_use') /\ m.type # "RES"
      BY <1>0, <1>2, <1>3, <1>5, <2>1 DEF WrNumbers
    <3>2. QED
      BY <1>3, <3>1 DEF BuffEntry
  <2>2. CASE i # Len(q) + 1
    <3>1. i \in 1..Len(q) /\ i - 1 \in 0..Len(q) /\ i - 1 \in Nat
      BY <1>0, <1>5, <2>2 DEF WrNumbers
    <3>2. /\ q'[i] = q[i] /\ Buffers(q', i - 1) = Buffers(q, i - 1)
          /\ Buffers(q, i - 1) \in Int
      BY <1>5, <3>1, BuffersType
    <3>3. Granted + Buffers(q, i - 1) \in Int
      BY <1>0, <3>2 DEF WrNumbers
    <3>4. Pos(Granted + Buffers(q, i - 1))'
             = Pos(Granted + Buffers(q, i - 1))
      BY <1>2, <1>9, <3>2 DEF Pos
    <3>5. BuffEntry(i)
      BY <3>1, BuffEntries
    <3>6. QED
      BY <1>2, <3>2, <3>4, <3>5 DEF BuffEntry
  <2>3. QED
    BY <2>1, <2>2
<1>13. BuffQueueInv'
  <2>1. wr_buff_acq_idx' = Pos(Granted + WrGranting)'
    BY <1>2, <1>6, <1>9 DEF Pos, IInv, BuffQueueInv
  <2>2. \A i \in 1..Len(wr_held') :
           wr_held'[i] = Pos(Len(sent) + Leaving + i - 1)'
    BY <1>2, <1>9, BuffEntries DEF Pos
  <2>3. QED
    BY <1>2, <1>11, <1>12, <2>1, <2>2 DEF BuffQueueInv
<1>14. QED
  BY <1>2, <1>7, <1>10, <1>13, WriterBuffStep

\* The buffer that is granted is the one after all those already granted.
LEMMA Step_write_buffer_ready ==
    ASSUME IInv, write_buffer_ready
    PROVE  IInv'
<1>0. WrNumbers /\ WrBounds
  BY WriterNumbers, WriterBounds
<1> DEFINE q == wr_buff_q
           i == wr_buff_use + 1
           b == wr_buff_acq_idx
           m == Response(b, "ENOERROR")
<1>1. /\ wr_pc \in {"idle", "buff_ready"} /\ wr_pc' \in {"idle", "buff_ready"}
      /\ UNCHANGED <<shared, reader, history, wr_data_q, wr_data_use,
                     wr_sync_counter, wr_out_index, wr_rel_index, wr_held,
                     wr_filled, last_msg, sent, acked>>
  BY DEF write_buffer_ready, wr_app, history
<1>2. WriterLocal
  BY <1>1 DEF WriterLocal
<1>3. Failing' = Failing /\ Leaving' = Leaving /\ Granted' = Granted
  BY <1>1 DEF write_buffer_ready, Failing, Leaving, Granted
<1>4. CASE /\ i <= Len(q) /\ q[i].type = "REQ"
           /\ wr_buff_use' = i /\ q' = [q EXCEPT ![i] = m]
           /\ wr_buff_acq_idx' = NextIndex(b)
  <2>1. /\ i \in 1..Len(q) /\ i - 1 \in Nat /\ i - 1 = wr_buff_use
        /\ Len(q) \in Nat
    BY <1>0, <1>4 DEF WrNumbers
  <2>2. /\ m \in Msg /\ m.buf = b /\ m.buf # NoBuf /\ m.type = "RES"
    <3>1. b \in Slots /\ b # NoBuf /\ "ENOERROR" \in Status
      BY WriterTypes, RingAssumption DEF Slots, NoBuf, Status
    <3>2. QED
      BY <3>1, Messages DEF Response
  <2> HIDE DEF m
  <2>3. \A k \in i..Len(q) : q[k].type # "RES" /\ q[k].buf = NoBuf
    <3> TAKE k \in i..Len(q)
    <3>1. k \in 1..Len(q) /\ ~(k <= wr_buff_use)
      BY <1>0, <2>1 DEF WrNumbers
    <3>2. BuffEntry(k)
      BY <3>1, BuffEntries
    <3>3. QED
      BY <3>1, <3>2 DEF BuffEntry
  <2>4. q[i].buf = NoBuf
    BY <2>1, <2>3
  <2>5. Buffers(q, i - 1) = WrGranting
    <3>1. \A k \in (i - 1) + 1 .. Len(q) : q[k].buf = NoBuf
      BY <2>1, <2>3
    <3>2. i - 1 <= Len(q)
      BY <2>1
    <3>3. QED
      BY <2>1, <3>1, <3>2, BuffersPrefix DEF WrGranting
  <2>6. /\ q' \in Seq(Msg) /\ Len(q') = Len(q) /\ q'[i] = m
        /\ \A k \in 1..Len(q) : k # i => q'[k] = q[k]
    BY <1>4, <2>1, <2>2, WriterTypes, QueueUpdate, SMTT(30)
  <2>7. /\ \A n \in 0..i - 1 : Buffers(q', n) = Buffers(q, n)
        /\ \A n \in i..Len(q) : Buffers(q', n) = Buffers(q, n) + 1
    BY <1>4, <2>1, <2>2, <2>4, WriterTypes, BuffersUpdate
  <2>8. WrGranting' = WrGranting + 1
    <3>1. Len(q) \in i..Len(q)
      BY <2>1
    <3>2. QED
      BY <2>6, <2>7, <3>1 DEF WrGranting
  <2>9. Granted + WrGranting \in acked .. acked + N - 1
    <3>1. WrGranting <= Len(q) - 1
      BY <2>1, <2>4, BuffersMissing DEF WrGranting
    <3>2. QED
      BY <1>0, <3>1, SMTT(30) DEF WrNumbers, WrBounds
  <2>10. b = Pos(Granted + WrGranting)
    BY DEF IInv, BuffQueueInv
  <2>11. wr_buff_acq_idx' = Pos(Granted + WrGranting)'
    <3>1. NextIndex(b) = Pos(Granted + WrGranting + 1)
      BY <2>9, <2>10, WriterTypes, PosNext
    <3>2. Granted' + WrGranting' = Granted + WrGranting + 1
      BY <1>0, <1>3, <2>8 DEF WrNumbers
    <3>3. Pos(Granted + WrGranting)' = Pos(Granted + WrGranting + 1)
      BY <1>1, <3>2 DEF Pos
    <3>4. QED
      BY <1>4, <3>1, <3>3
  <2>12. \A k \in 1..Len(q') : BuffEntry(k)'
    <3> TAKE k \in 1..Len(q')
    <3>1. /\ k \in 1..Len(q) /\ BuffEntry(k)
      BY <2>6, BuffEntries
    <3>2. k - 1 \in Nat
      BY <3>1
    <3>3. CASE k = i
      <4>1. /\ q'[k] = m /\ m.type = "RES" /\ k <= wr_buff_use'
        BY <1>4, <2>1, <2>2, <2>6, <3>3
      <4>2. Buffers(q', k - 1) = WrGranting
        BY <2>1, <2>5, <2>7, <3>3
      <4>3. m.buf = Pos(Granted + Buffers(q, k - 1))'
        BY <1>1, <1>3, <2>2, <2>10, <4>2 DEF Pos
      <4>4. QED
        BY <4>1, <4>3 DEF BuffEntry
    <3>4. CASE k # i /\ k < i
      <4>1. /\ q'[k] = q[k] /\ k <= wr_buff_use' /\ k <= wr_buff_use
            /\ k - 1 \in 0..i - 1
        BY <1>0, <1>4, <2>6, <3>1, <3>4 DEF WrNumbers
      <4>2. Buffers(q', k - 1) = Buffers(q, k - 1)
        BY <2>7, <4>1
      <4>3. Pos(Granted + Buffers(q, k - 1))' = Pos(Granted + Buffers(q, k - 1))
        BY <1>1, <1>3, <4>2 DEF Pos
      <4>4. QED
        BY <3>1, <4>1, <4>3 DEF BuffEntry
    <3>5. CASE k > i
      <4>1. /\ q'[k] = q[k] /\ ~(k <= wr_buff_use')
            /\ k \in i..Len(q)
        BY <1>0, <1>4, <2>1, <2>6, <3>1, <3>5 DEF WrNumbers
      <4>2. q[k].type # "RES" /\ q[k].buf = NoBuf
        BY <2>3, <4>1
      <4>3. QED
        BY <3>1, <4>1, <4>2 DEF BuffEntry
    <3>6. QED
      BY <2>1, <3>1, <3>3, <3>4, <3>5
  <2>13. BuffQueueInv'
    <3>1. WrInUse' = WrInUse
      BY <1>1, <2>6 DEF WrInUse
    <3>2. \A k \in 1..Len(wr_held') :
             wr_held'[k] = Pos(Len(sent) + Leaving + k - 1)'
      BY <1>1, <1>3, BuffEntries DEF Pos
    <3>3. QED
      BY <1>1, <2>11, <2>12, <3>1, <3>2 DEF IInv, BuffQueueInv
  <2>14. WriterTypeOK'
    <3>1. /\ wr_buff_acq_idx' \in Slots /\ wr_buff_use' \in 0..Len(q')
      <4>1. wr_buff_acq_idx' \in Slots
        BY <1>4, WriterTypes, NextIndexType
      <4>2. wr_buff_use' \in 0..Len(q')
        BY <1>0, <1>4, <2>6 DEF WrNumbers
      <4>3. QED
        BY <4>1, <4>2
    <3>2. QED
      BY <1>1, <2>6, <3>1, WriterTypes DEF WriterTypeOK
  <2>15. QED
    BY <1>1, <1>2, <2>13, <2>14, WriterBuffStep
<1>5. CASE /\ UNCHANGED <<wr_buff_q, wr_buff_acq_idx>>
           /\ \/ UNCHANGED wr_buff_use
              \/ wr_buff_use' = i /\ i <= Len(q) /\ q[i].type # "REQ"
  <2>1. \A k \in 1..Len(q) : BuffEntry(k)'
    <3> TAKE k \in 1..Len(q)
    <3>1. BuffEntry(k)
      BY BuffEntries
    <3>2. /\ k <= wr_buff_use => k <= wr_buff_use'
          /\ k <= wr_buff_use' => k <= wr_buff_use \/ q[k].type # "REQ"
      BY <1>0, <1>5 DEF WrNumbers
    <3>3. Pos(Granted + Buffers(q, k - 1))' = Pos(Granted + Buffers(q, k - 1))
      BY <1>1, <1>3, <1>5 DEF Pos, Buffers
    <3>4. QED
      BY <1>5, <3>1, <3>2, <3>3 DEF BuffEntry
  <2>2. BuffQueueInv'
    <3>1. WrInUse' = WrInUse /\ WrGranting' = WrGranting
      BY <1>1, <1>5 DEF WrInUse, WrGranting, Buffers
    <3>2. \A k \in 1..Len(wr_held') :
             wr_held'[k] = Pos(Len(sent) + Leaving + k - 1)'
      BY <1>1, <1>3, BuffEntries DEF Pos
    <3>3. wr_buff_acq_idx' = Pos(Granted + WrGranting)'
      BY <1>1, <1>3, <1>5, <3>1 DEF Pos, IInv, BuffQueueInv
    <3>4. QED
      BY <1>1, <1>5, <2>1, <3>1, <3>2, <3>3 DEF IInv, BuffQueueInv
  <2>3. WriterTypeOK'
    <3>1. wr_buff_use' \in 0..Len(q')
      BY <1>0, <1>5 DEF WrNumbers
    <3>2. QED
      BY <1>1, <1>5, <3>1, WriterTypes DEF WriterTypeOK
  <2>4. QED
    BY <1>1, <1>2, <2>2, <2>3, WriterBuffStep
<1>6. QED
  BY <1>4, <1>5 DEF write_buffer_ready, NextToAcquire

\* The oldest response leaves the queue; the application holds its buffer.
LEMMA Step_write_buffer_result ==
    ASSUME IInv, write_buffer_result
    PROVE  IInv'
<1>0. WrNumbers /\ WrBounds
  BY WriterNumbers, WriterBounds
<1> DEFINE q == wr_buff_q
           d == IF q[1].buf # NoBuf THEN 1 ELSE 0
<1>1. /\ wr_pc = "idle" /\ wr_buff_use > 0
      /\ q' = Tail(q) /\ wr_buff_use' = wr_buff_use - 1
      /\ wr_held' = IF Head(q).type = "RES" THEN Append(wr_held, Head(q).buf)
                                            ELSE wr_held
      /\ UNCHANGED <<shared, reader, history, wr_pc, wr_data_q, wr_data_use,
                     wr_sync_counter, wr_buff_acq_idx, wr_out_index,
                     wr_rel_index, wr_filled, last_msg, sent, acked>>
  BY DEF write_buffer_result, history
<1>2. Len(q) > 0 /\ 1 \in 1..Len(q)
  BY <1>0, <1>1 DEF WrNumbers
<1>3. /\ Head(q) = q[1] /\ q[1] \in Msg
      /\ q' \in Seq(Msg) /\ Len(q') = Len(q) - 1
      /\ \A i \in 1..Len(q) - 1 : q'[i] = q[i + 1]
      /\ WrGranting' = WrGranting - d
  BY <1>1, <1>2, WriterTypes, QueuePop DEF WrGranting
<1>4. /\ q[1].type = "RES" => q[1].buf = Pos(Granted) /\ q[1].buf \in Slots
      /\ q[1].type = "RES" <=> q[1].buf # NoBuf
  <2>1. BuffEntry(1)
    BY <1>2, BuffEntries
  <2>2. Buffers(q, 1 - 1) = 0
    BY BuffersNone
  <2>3. Granted + Buffers(q, 1 - 1) = Granted
    BY <1>0, <2>2 DEF WrNumbers
  <2>4. Pos(Granted) \in Slots
    BY GrantedBound, WriterTypes, PosType
  <2>5. NoBuf \notin Slots
    BY RingAssumption DEF NoBuf, Slots
  <2>6. QED
    BY <2>1, <2>3, <2>4, <2>5 DEF BuffEntry
<1>5. /\ wr_held' \in Seq(Slots) /\ Len(wr_held') = Len(wr_held) + d
      /\ \A i \in 1..Len(wr_held) : wr_held'[i] = wr_held[i]
      /\ q[1].type = "RES" => wr_held'[Len(wr_held) + 1] = Pos(Granted)
  <2>1. CASE q[1].type = "RES"
    <3>1. wr_held' = Append(wr_held, q[1].buf) /\ q[1].buf \in Slots /\ d = 1
      BY <1>1, <1>3, <1>4, <2>1
    <3>2. wr_held \in Seq(Slots)
      BY WriterTypes
    <3>3. /\ wr_held' \in Seq(Slots) /\ Len(wr_held') = Len(wr_held) + 1
          /\ \A i \in 1..Len(wr_held) : wr_held'[i] = wr_held[i]
          /\ wr_held'[Len(wr_held) + 1] = q[1].buf
      BY <3>1, <3>2, AppendProperties
    <3>4. QED
      BY <1>4, <2>1, <3>1, <3>3
  <2>2. CASE q[1].type # "RES"
    <3>1. wr_held' = wr_held /\ d = 0
      BY <1>1, <1>3, <1>4, <2>2
    <3>2. wr_held \in Seq(Slots) /\ Len(wr_held) + 0 = Len(wr_held)
      BY <1>0, WriterTypes DEF WrNumbers
    <3>3. QED
      BY <2>2, <3>1, <3>2
  <2>3. QED
    BY <2>1, <2>2
<1>6. d \in 0..1 /\ (q[1].type = "RES" <=> d = 1)
  BY <1>4
<1>17. d \in 0..1
  BY <1>6
<1>18. WrGranting' = WrGranting - d
  BY <1>3
<1> HIDE DEF d
<1>7. WriterLocal
  BY <1>1 DEF WriterLocal
<1>8. Failing' = Failing /\ Leaving' = Leaving
  BY <1>1 DEF Failing, Leaving
<1>9. Granted' = Granted + d
  <2>1. Len(sent') = Len(sent) /\ Len(wr_held') = Len(wr_held) + d
    BY <1>1, <1>5
  <2>2. QED
    BY <1>0, <1>6, <1>8, <2>1 DEF Granted, WrNumbers
<1>10. WriterTypeOK'
  <2>1. /\ Len(q') <= N /\ wr_buff_use' \in 0..Len(q')
        /\ wr_filled' \in 0..Len(wr_held')
    <3>1. /\ Len(q') = Len(q) - 1 /\ wr_buff_use' = wr_buff_use - 1
          /\ wr_buff_use > 0 /\ Len(wr_held') = Len(wr_held) + d
          /\ wr_filled' = wr_filled
      BY <1>1, <1>3, <1>5
    <3>2. QED
      BY <1>0, <1>6, <3>1 DEF WrNumbers
  <2>2. QED
    BY <1>1, <1>3, <1>5, <2>1, WriterTypes DEF WriterTypeOK
<1>11. WrInUse' <= N
  <2>1. /\ Len(q') = Len(q) - 1 /\ Len(wr_held') = Len(wr_held) + d
        /\ Len(wr_data_q') = Len(wr_data_q)
    BY <1>1, <1>3, <1>5
  <2>2. Len(q') + Len(wr_held') + Len(wr_data_q') <= N
    <3>1. /\ Len(q) \in Nat /\ Len(wr_held) \in Nat /\ Len(wr_data_q) \in Nat
          /\ N \in Nat /\ Len(q) + Len(wr_held) + Len(wr_data_q) <= N
      BY <1>0, SMTT(30) DEF WrNumbers, WrBounds
    <3>2. QED
      BY <1>17, <2>1, <3>1
  <2>3. QED
    BY <2>2 DEF WrInUse
<1>12. \A i \in 1..Len(q') : BuffEntry(i)'
  <2> TAKE i \in 1..Len(q')
  <2>1. /\ i \in 1..Len(q) - 1 /\ i + 1 \in 1..Len(q) /\ i - 1 \in Nat
        /\ (i + 1) - 1 = (i - 1) + 1 /\ i \in Nat
    BY <1>0, <1>3 DEF WrNumbers
  <2>2. q'[i] = q[i + 1] /\ BuffEntry(i + 1)
    BY <1>3, <2>1, BuffEntries
  <2>3. i <= wr_buff_use' <=> i + 1 <= wr_buff_use
    BY <1>0, <1>1, <2>1 DEF WrNumbers
  <2>4. Granted' + Buffers(q', i - 1) = Granted + Buffers(q, (i + 1) - 1)
    <3>1. Buffers(q', i - 1) = Buffers(q, (i - 1) + 1) - d
      <4>1. i - 1 \in 0..Len(q) - 1 /\ q # <<>>
        BY <1>2, <2>1
      <4>2. QED
        BY <1>1, <4>1, WriterTypes, BuffersTail DEF d
    <3>2. Buffers(q, (i - 1) + 1) \in Int
      <4>1. (i - 1) + 1 \in Nat
        BY <2>1
      <4>2. QED
        BY <4>1, BuffersType
    <3>3. QED
      BY <1>0, <1>6, <1>9, <2>1, <3>1, <3>2, SMTT(30) DEF WrNumbers
  <2>5. Pos(Granted + Buffers(q, i - 1))' = Pos(Granted + Buffers(q, (i + 1) - 1))
    BY <1>1, <2>4 DEF Pos
  <2>6. QED
    BY <2>2, <2>3, <2>5 DEF BuffEntry
<1>13. \A i \in 1..Len(wr_held') :
          wr_held'[i] = Pos(Len(sent) + Leaving + i - 1)'
  <2> TAKE i \in 1..Len(wr_held')
  <2>1. Pos(Len(sent) + Leaving + i - 1)' = Pos(Len(sent) + Leaving + i - 1)
    BY <1>1, <1>8 DEF Pos
  <2>2. CASE i \in 1..Len(wr_held)
    BY <1>5, <2>1, <2>2, BuffEntries
  <2>3. CASE ~(i \in 1..Len(wr_held))
    <3>1. d = 1 /\ i = Len(wr_held) + 1
      BY <1>0, <1>5, <1>6, <2>3 DEF WrNumbers
    <3>2. Len(sent) + Leaving + i - 1 = Granted
      BY <1>0, <3>1 DEF Granted, WrNumbers
    <3>3. QED
      BY <1>5, <1>6, <2>1, <3>1, <3>2
  <2>4. QED
    BY <2>2, <2>3
<1>14. BuffQueueInv'
  <2>1. Granted' + WrGranting' = Granted + WrGranting
    BY <1>0, <1>9, <1>17, <1>18 DEF WrNumbers
  <2>2. wr_buff_acq_idx' = Pos(Granted + WrGranting)'
    BY <1>1, <2>1 DEF Pos, IInv, BuffQueueInv
  <2>3. QED
    BY <1>1, <1>11, <1>12, <1>13, <2>2 DEF BuffQueueInv
<1>15. \A i \in 1..wr_filled : wr_held'[i] = wr_held[i]
  BY <1>0, <1>5 DEF WrNumbers
<1>16. QED
  BY <1>1, <1>7, <1>10, <1>14, <1>15, WriterBuffStep

-----------------------------------------------------------------------------
(***************************************************************************)
(* Submitting a write.                                                     *)
(***************************************************************************)
\* What holds when the application submits the oldest buffer it holds: it is
\* the next one to send, it contains the next message, and there is room.
Submitting ==
    /\ Leaving = 0
    /\ Len(sent) + 1 <= acked + N
    /\ Len(wr_data_q) < N
    /\ Len(wr_data_q) - wr_data_use = Len(sent) - acked
    /\ Len(sent) + 1 <= MaxMsgs
    /\ Len(wr_held) > 0 /\ wr_filled > 0

LEMMA SubmitFacts ==
    ASSUME IInv, SubmitHead
    PROVE  /\ Submitting
           /\ Head(wr_held) = Pos(Len(sent)) /\ wr_out_index = Pos(Len(sent))
           /\ Pos(Len(sent)) \in Slots
           /\ mem[Pos(Len(sent))] = Len(sent) + 1
           /\ wr_held' \in Seq(Slots) /\ Len(wr_held') = Len(wr_held) - 1
           /\ \A i \in 1..Len(wr_held) - 1 : wr_held'[i] = wr_held[i + 1]
<1>0. WrNumbers /\ WrBounds
  BY WriterNumbers, WriterBounds
<1>1. /\ wr_pc = "idle" /\ wr_filled > 0 /\ ~Failing
      /\ wr_held' = Tail(wr_held) /\ wr_filled' = wr_filled - 1
  BY DEF SubmitHead
<1>2. Leaving = 0
  BY <1>1 DEF Leaving
<1>3. Len(wr_held) > 0
  BY <1>0, <1>1 DEF WrNumbers
<1>4. Len(wr_data_q) - wr_data_use = Len(sent) - acked
  <2>1. Len(wr_data_q) - wr_data_use = Len(sent) - acked + Leaving
    BY <1>1 DEF IInv, DataQueueInv
  <2>2. QED
    BY <1>0, <1>2, <2>1 DEF WrNumbers
<1>5. Len(wr_data_q) < N /\ Len(sent) + 1 <= acked + N
  BY <1>0, <1>3, <1>4, SMTT(30) DEF WrNumbers, WrBounds
<1>6. /\ wr_held # <<>> /\ Head(wr_held) = wr_held[1]
      /\ wr_held' \in Seq(Slots) /\ Len(wr_held') = Len(wr_held) - 1
      /\ \A i \in 1..Len(wr_held) - 1 : wr_held'[i] = wr_held[i + 1]
  BY <1>1, <1>3, WriterTypes, HeadTailProperties
<1>7. wr_held[1] = Pos(Len(sent))
  <2>1. 1 \in 1..Len(wr_held) /\ Len(sent) + Leaving + 1 - 1 = Len(sent)
    BY <1>0, <1>2, <1>3 DEF WrNumbers
  <2>2. QED
    BY <2>1, BuffEntries
<1>8. mem[wr_held[1]] = Len(sent) + 1
  <2>1. 1 \in 1..wr_filled /\ Len(sent) + Leaving + 1 = Len(sent) + 1
    BY <1>0, <1>1, <1>2 DEF WrNumbers
  <2>2. QED
    BY <2>1 DEF IInv, MessageInv
<1>9. Len(sent) + 1 <= MaxMsgs
  <2>1. last_msg = Len(sent) + Leaving + wr_filled
    BY DEF IInv, MessageInv
  <2>2. QED
    BY <1>0, <1>1, <1>2, <2>1 DEF WrNumbers
<1>10. wr_out_index = Pos(Len(sent))
  BY DEF IInv, IndexInv
<1>11. Pos(Len(sent)) \in Slots
  BY <1>10, WriterTypes
<1>12. QED
  BY <1>1, <1>2, <1>3, <1>4, <1>5, <1>6, <1>7, <1>8, <1>9, <1>10, <1>11
     DEF Submitting

\* The entry that is pushed, whether it is about to be published or failed.
LEMMA SubmitStep ==
    ASSUME IInv, SubmitHead, NEW m \in Msg,
           wr_data_q' = Append(wr_data_q, m), m.buf = Pos(Len(sent)),
           \/ m.status \in Rejected /\ wr_pc' = "idle"
           \/ /\ m.status = "ENOERROR" /\ wr_pc' = "publish"
              /\ data_size'[Pos(Len(sent))] = DataLen[Len(sent) + 1],
           UNCHANGED <<mem, wr_buff_q, wr_buff_use, wr_data_use,
                       wr_sync_counter, wr_buff_acq_idx, wr_out_index,
                       wr_rel_index, last_msg, sent, got, acked>>
    PROVE  WriterTypeOK' /\ MessageInv' /\ DataQueueInv' /\ BuffQueueInv'
<1>0. WrNumbers /\ WrBounds
  BY WriterNumbers, WriterBounds
<1>1. /\ wr_pc = "idle" /\ ~Failing /\ wr_filled' = wr_filled - 1
  BY DEF SubmitHead
<1>2. /\ Submitting
      /\ mem[Pos(Len(sent))] = Len(sent) + 1
      /\ wr_held' \in Seq(Slots) /\ Len(wr_held') = Len(wr_held) - 1
      /\ \A i \in 1..Len(wr_held) - 1 : wr_held'[i] = wr_held[i + 1]
  BY SubmitFacts
<1> DEFINE q == wr_data_q
<1>3. /\ q' \in Seq(Msg) /\ Len(q') = Len(q) + 1 /\ q'[Len(q) + 1] = m
      /\ \A i \in 1..Len(q) : q'[i] = q[i]
  BY WriterTypes, QueuePush
<1>4. Len(q') = Len(q) + 1 /\ Len(wr_held') = Len(wr_held) - 1
  BY <1>2, <1>3
<1>5. Failing' <=> m.status \in Rejected
  <2>1. Failing' <=> \E i \in 1..Len(q) + 1 : q'[i].status \in Rejected
    BY <1>4 DEF Failing, Rejected
  <2>2. \A i \in 1..Len(q) : ~(q'[i].status \in Rejected)
    BY <1>1, <1>3 DEF Failing
  <2>3. \A i \in 1..Len(q) + 1 : i \in 1..Len(q) \/ i = Len(q) + 1
    BY <1>0 DEF WrNumbers
  <2>4. Len(q) + 1 \in 1..Len(q) + 1
    BY <1>0 DEF WrNumbers
  <2>5. QED
    BY <1>3, <2>1, <2>2, <2>3, <2>4
<1>6. Leaving' = 1
  BY <1>5 DEF Leaving
<1>7. \A k \in Int : Pos(k)' = Pos(k)
  BY PosStable
<1>8. Pos(Len(sent))' = Pos(Len(sent)) /\ Len(sent') = Len(sent)
  BY DEF Pos
<1>9. WriterTypeOK'
  <2>1. /\ Len(q') <= N /\ wr_data_use' \in 0..Len(q')
        /\ wr_filled' \in 0..Len(wr_held')
    <3>1. wr_data_use' = wr_data_use
      OBVIOUS
    <3>2. QED
      BY <1>0, <1>1, <1>2, <1>4, <3>1, SMTT(30) DEF WrNumbers, Submitting
  <2>2. wr_pc' \in {"idle", "publish"}
    OBVIOUS
  <2>3. QED
    BY <1>2, <1>3, <2>1, <2>2, WriterTypes DEF WriterTypeOK
<1>10. MessageInv'
  <2>1. last_msg' = Len(sent') + Leaving' + wr_filled'
    <3>1. last_msg = Len(sent) + Leaving + wr_filled
      BY DEF IInv, MessageInv
    <3>2. QED
      BY <1>0, <1>1, <1>2, <1>6, <3>1 DEF WrNumbers, Submitting
  <2>2. \A i \in 1..wr_filled' : mem'[wr_held'[i]] = Len(sent') + Leaving' + i
    <3> TAKE i \in 1..wr_filled'
    <3>1. /\ i \in 1..Len(wr_held) - 1 /\ i + 1 \in 1..wr_filled /\ i \in Nat
      BY <1>0, <1>1 DEF WrNumbers
    <3>2. wr_held'[i] = wr_held[i + 1]
      BY <1>2, <3>1
    <3>3. mem[wr_held[i + 1]] = Len(sent) + Leaving + (i + 1)
      BY <3>1 DEF IInv, MessageInv
    <3>4. Len(sent) + Leaving + (i + 1) = Len(sent) + 1 + i
      <4>1. Leaving = 0 /\ i \in Nat /\ Len(sent) \in Nat
        BY <1>0, <1>2, <3>1 DEF WrNumbers, Submitting
      <4>2. QED
        BY <4>1
    <3>5. QED
      BY <1>6, <1>8, <3>2, <3>3, <3>4
  <2>3. /\ \A i \in 1..Len(sent') : sent'[i] = i
        /\ \A i \in 1..Len(got') : got'[i] = [msg |-> i, len |-> DataLen[i]]
    BY DEF IInv, MessageInv
  <2>4. wr_pc' = "publish" => data_size'[Pos(Len(sent))']
                                 = DataLen[Len(sent') + 1]
    BY <1>8 DEF Rejected
  <2>5. QED
    BY <1>2, <1>8, <2>1, <2>2, <2>3, <2>4 DEF MessageInv
<1>11. DataQueueInv'
  <2>1. \A i \in 1..Len(q') : DataEntry(i)'
    <3> TAKE i \in 1..Len(q')
    <3>1. CASE i = Len(q) + 1
      <4>a. q'[i] = m /\ i = Len(q')
        BY <1>3, <1>4, <3>1
      <4>b. /\ i \in Nat /\ wr_data_use \in Nat /\ Len(q) \in Nat
            /\ acked \in Nat /\ Len(sent) \in Nat
            /\ wr_data_use <= Len(q)
            /\ Len(q) - wr_data_use = Len(sent) - acked
        BY <1>0, <1>2, <3>1 DEF WrNumbers, Submitting
      <4>c. /\ ~(i <= wr_data_use)
            /\ acked + i - wr_data_use - 1 = Len(sent)
        BY <4>b, <3>1
      <4>1. /\ q'[i] = m /\ ~(i <= wr_data_use) /\ i = Len(q')
            /\ acked + i - wr_data_use - 1 = Len(sent)
        BY <4>a, <4>c
      <4>2. i > wr_data_use'
        BY <1>0, <4>1, <3>1 DEF WrNumbers
      <4>3. Pos(acked + i - wr_data_use - 1)' = Pos(Len(sent))
        BY <4>1 DEF Pos
      <4>4. QED
        BY <1>8, <4>1, <4>2, <4>3 DEF DataEntry
    <3>2. CASE i # Len(q) + 1
      <4>1. i \in 1..Len(q)
        BY <1>0, <1>4, <3>2, SMTT(30) DEF WrNumbers
      <4>2. DataEntry(i) /\ q'[i] = q[i] /\ ~(q[i].status \in Rejected)
        BY <1>1, <1>3, <4>1, DataEntries DEF Failing
      <4>3. Pos(acked + i - wr_data_use - 1)' = Pos(acked + i - wr_data_use - 1)
        BY DEF Pos
      <4>4. QED
        BY <4>2, <4>3 DEF DataEntry
    <3>3. QED
      BY <3>1, <3>2
  <2>2. wr_pc' = "publish" => ~Failing'
    BY <1>5 DEF Rejected
  <2>3. ~(wr_data_use' = Len(q'))
    BY <1>0, <1>4 DEF WrNumbers
  <2>4. Len(q') - wr_data_use' = Len(sent') - acked' + Leaving'
    <3>1. /\ wr_data_use' = wr_data_use /\ acked' = acked
    OBVIOUS
    <3>2. QED
      BY <1>0, <1>2, <1>4, <1>6, <1>8, <3>1, SMTT(30) DEF WrNumbers, Submitting
  <2>5. wr_pc' \notin {"written", "free"}
    OBVIOUS
  <2>6. QED
    BY <2>1, <2>2, <2>3, <2>4, <2>5 DEF DataQueueInv
<1>12. BuffQueueInv'
  <2>1. Granted' = Granted
    BY <1>0, <1>2, <1>4, <1>6, <1>8 DEF Granted, WrNumbers, Submitting
  <2>2. WrGranting' = WrGranting
    BY DEF WrGranting, Buffers
  <2>3. wr_buff_acq_idx' = Pos(Granted + WrGranting)'
    BY <2>1, <2>2 DEF Pos, IInv, BuffQueueInv
  <2>4. WrInUse' <= N
    BY <1>0, <1>2, <1>4 DEF WrInUse, WrNumbers, WrBounds, Submitting
  <2>5. \A i \in 1..Len(wr_held') :
           wr_held'[i] = Pos(Len(sent) + Leaving + i - 1)'
    <3> TAKE i \in 1..Len(wr_held')
    <3>1. /\ i \in 1..Len(wr_held) - 1 /\ i + 1 \in 1..Len(wr_held) /\ i \in Nat
      BY <1>0, <1>4 DEF WrNumbers
    <3>2. wr_held'[i] = Pos(Len(sent) + Leaving + (i + 1) - 1)
      BY <1>2, <3>1, BuffEntries
    <3>3. Len(sent) + Leaving + (i + 1) - 1 = Len(sent) + 1 + i - 1
      BY <1>0, <1>2, <3>1 DEF WrNumbers, Submitting
    <3>4. Pos(Len(sent) + Leaving + i - 1)' = Pos(Len(sent) + 1 + i - 1)
      BY <1>6, <1>8 DEF Pos
    <3>5. QED
      BY <3>2, <3>3, <3>4
  <2>6. \A i \in 1..Len(wr_buff_q') : BuffEntry(i)'
    <3> TAKE i \in 1..Len(wr_buff_q')
    <3>1. BuffEntry(i)
      BY BuffEntries
    <3>2. Pos(Granted + Buffers(wr_buff_q, i - 1))'
             = Pos(Granted + Buffers(wr_buff_q, i - 1))
      BY <2>1 DEF Pos, Buffers
    <3>3. QED
      BY <3>1, <3>2 DEF BuffEntry
  <2>7. QED
    BY <2>3, <2>4, <2>5, <2>6 DEF BuffQueueInv
<1>13. QED
  BY <1>9, <1>10, <1>11, <1>12

\* There is always room in the queue, and the buffer is always the right one:
\* neither the silent drop nor exit(1) can happen.
LEMMA Step_write_data_request_full ==
    ASSUME IInv, write_data_request_full
    PROVE  IInv'
<1>0. WrNumbers
  BY WriterNumbers
<1>1. Len(wr_data_q) < N
  BY SubmitFacts DEF write_data_request_full, Submitting
<1>2. Len(wr_data_q) >= N
  BY DEF write_data_request_full, QueueFull
<1>3. QED
  BY <1>0, <1>1, <1>2 DEF WrNumbers

LEMMA Step_write_data_request_exit ==
    ASSUME IInv, write_data_request_exit
    PROVE  IInv'
<1>1. Head(wr_held) = wr_out_index
  BY SubmitFacts DEF write_data_request_exit
<1>2. QED
  BY <1>1 DEF write_data_request_exit

\* A write that fails at once: its entry is queued, nothing is sent.
LEMMA SubmitFailure ==
    ASSUME IInv, SubmitHead, NEW s \in Rejected,
           wr_data_q' = Append(wr_data_q, Response(Head(wr_held), s)),
           UNCHANGED <<shared, wr_pc, wr_buff_q, wr_buff_use, wr_data_use,
                       wr_sync_counter, wr_buff_acq_idx, wr_out_index,
                       wr_rel_index, last_msg, reader, history>>
    PROVE  IInv'
<1> DEFINE m == Response(Head(wr_held), s)
<1>1. m \in Msg /\ m.buf = Pos(Len(sent)) /\ m.status = s
  <2>1. Head(wr_held) = Pos(Len(sent)) /\ Pos(Len(sent)) \in Slots
    BY SubmitFacts
  <2>2. s \in Status
    BY DEF Rejected, Status
  <2>3. QED
    BY <2>1, <2>2, Messages DEF Response
<1>2. wr_pc' = "idle"
  BY DEF SubmitHead
<1>3. UNCHANGED <<mem, sent, got, acked>>
  BY DEF shared, history
<1>4. wr_data_q' = Append(wr_data_q, m)
  OBVIOUS
<1> HIDE DEF m
<1>5. WriterTypeOK' /\ MessageInv' /\ DataQueueInv' /\ BuffQueueInv'
  BY <1>1, <1>2, <1>3, <1>4, SubmitStep
<1>6. WriterLocal
  BY DEF WriterLocal
<1>7. QED
  BY <1>5, <1>6, WriterLocalStep

LEMMA Step_write_data_request_bad ==
    ASSUME IInv, write_data_request_bad
    PROVE  IInv'
<1>1. "EINVALID" \in Rejected
  BY DEF Rejected
<1>2. QED
  BY <1>1, SubmitFailure DEF write_data_request_bad

LEMMA Step_write_data_request_long ==
    ASSUME IInv, write_data_request_long
    PROVE  IInv'
<1>1. "ETOOMANY" \in Rejected
  BY DEF Rejected
<1>2. QED
  BY <1>1, SubmitFailure DEF write_data_request_long

\* The first header word of the next message: the slot is free, so no other
\* message's length is touched.
LEMMA Step_write_data_request ==
    ASSUME IInv, write_data_request
    PROVE  IInv'
<1>0. WrNumbers /\ WrBounds /\ RdNumbers
  BY WriterNumbers, WriterBounds, ReaderNumbers
<1> DEFINE p == Pos(Len(sent))
           len == DataLen[Len(sent) + 1]
           m == Response(p, "ENOERROR")
<1>1. SubmitHead
  BY DEF write_data_request
<1>2. /\ Submitting /\ Head(wr_held) = p /\ wr_out_index = p /\ p \in Slots
      /\ mem[p] = Len(sent) + 1
  BY <1>1, SubmitFacts
<1>3. /\ data_size' = [data_size EXCEPT ![p] = len]
      /\ wr_pc' = "publish"
      /\ UNCHANGED <<seq_no, mem, wr_buff_q, wr_buff_use, wr_data_use,
                     wr_sync_counter, wr_buff_acq_idx, wr_out_index,
                     wr_rel_index, last_msg, reader, history, sent, got,
                     acked>>
      /\ wr_data_q' = Append(wr_data_q, m)
  BY <1>2 DEF write_data_request, history
<1>4. len \in 0..MaxLen
  <2>1. Len(sent) + 1 \in 1..MaxMsgs
    BY <1>0, <1>2 DEF WrNumbers, Submitting
  <2>2. QED
    BY <2>1, RingAssumption
<1>5. /\ data_size \in [Slots -> 0..MaxLen]
      /\ data_size'[p] = len
      /\ \A s \in Slots : s # p => data_size'[s] = data_size[s]
  BY <1>2, <1>3, WriterTypes
<1>6. m \in Msg /\ m.buf = p /\ m.status = "ENOERROR"
  BY <1>2, Messages DEF Response, Status
<1> HIDE DEF m, len
<1>7. WriterTypeOK' /\ MessageInv' /\ DataQueueInv' /\ BuffQueueInv'
  <2>1. data_size'[p] = DataLen[Len(sent) + 1]
    BY <1>5 DEF len
  <2>2. QED
    BY <1>1, <1>3, <1>6, <2>1, SubmitStep
<1>8. /\ \A k \in Int : Pos(k)' = Pos(k)
      /\ Released' = Released /\ Acquired' = Acquired
      /\ Len(sent') = Len(sent)
  BY <1>3, PosStable DEF reader, rd_chan, Released, Acquired
<1>9. UNCHANGED <<rd_sync_counter, rd_acq_index, rd_rel_index, rd_len>>
  BY <1>3 DEF reader, rd_chan
<1>10. CounterInv'
  BY <1>3, <1>8 DEF IInv, CounterInv
<1>11. IndexInv'
  <2>1. Len(sent) \in Int /\ Acquired \in Int /\ Released \in Int
    BY <1>0 DEF WrNumbers, RdNumbers
  <2>2. QED
    BY <1>3, <1>8, <1>9, <2>1 DEF IInv, IndexInv
<1>12. SlotInv'
  <2>0. /\ Len(sent) \in Int /\ Acquired \in Int /\ Released \in Int
        /\ acked \in Int
    BY <1>0 DEF WrNumbers, RdNumbers
  <2>a. RxdInv'
    BY <1>3, <1>8, <2>0 DEF IInv, SlotInv, RxdInv
  <2>b. EmptyInv'
    BY <1>3, <1>8, <2>0 DEF IInv, SlotInv, EmptyInv
  <2>c. LengthInv'
    BY <1>3, <1>8, <1>9, <2>0 DEF IInv, SlotInv, LengthInv
  <2>1. RxdInv' /\ EmptyInv' /\ LengthInv'
    BY <2>a, <2>b, <2>c
  <2>2. SentInv'
    <3> SUFFICES ASSUME NEW k \in Released .. Len(sent) - 1
                 PROVE  /\ seq_no'[Pos(k)'] = k + BRING_SYNC_START
                        /\ mem'[Pos(k)'] = k + 1
                        /\ data_size'[Pos(k)'] = DataLen[k + 1]
      BY <1>8 DEF SentInv
    <3>0. /\ seq_no[Pos(k)] = k + BRING_SYNC_START /\ mem[Pos(k)] = k + 1
          /\ data_size[Pos(k)] = DataLen[k + 1]
      BY DEF IInv, SlotInv, SentInv
    <3>5. seq_no' = seq_no /\ mem' = mem /\ Pos(k)' = Pos(k)
      BY <1>3, <1>8, <2>0
    <3>1. acked <= Released
      BY DEF IInv, CounterInv
    <3>2. /\ k \in acked .. acked + N - 1
          /\ Len(sent) \in acked .. acked + N - 1
          /\ k # Len(sent) /\ k \in acked .. acked + N
      <4>1. acked <= Len(sent) /\ Len(sent) + 1 <= acked + N
        BY <1>0, <1>2 DEF Submitting, WrBounds
      <4>2. N \in Nat /\ k \in Int
        BY <1>0 DEF WrNumbers
      <4>3. QED
        BY <2>0, <3>1, <4>1, <4>2
    <3>3. Pos(k) # p /\ Pos(k) \in Slots
      BY <3>2, WriterTypes, PosInjective, PosType
    <3>4. QED
      BY <1>5, <3>0, <3>3, <3>5
  <2>3. QED
    BY <2>1, <2>2 DEF SlotInv
<1>13. ReadQueueInv'
  BY <1>0, <1>3, KeepReadQueue DEF WrNumbers
<1>14. TypeOK'
  <2>1. SharedTypeOK'
    BY <1>3, <1>4, WriterTypes DEF SharedTypeOK
  <2>2. QED
    BY <1>3, <1>7, <2>1, KeepTypes DEF TypeOK
<1>15. QED
  BY <1>7, <1>10, <1>11, <1>12, <1>13, <1>14 DEF IInv

\* The second header word: the message is now between the two counters that
\* bound what the reader may look at, and no other slot's header changes.
LEMMA Step_write_data_publish ==
    ASSUME IInv, write_data_publish
    PROVE  IInv'
<1>0. WrNumbers /\ WrBounds /\ RdNumbers
  BY WriterNumbers, WriterBounds, ReaderNumbers
<1> DEFINE n == Len(sent)
<1>1. /\ wr_pc = "publish" /\ wr_pc' = "idle"
      /\ seq_no' = [seq_no EXCEPT ![wr_out_index] = wr_sync_counter]
      /\ sent' = Append(sent, mem[wr_out_index])
      /\ wr_sync_counter' = wr_sync_counter + 1
      /\ wr_out_index' = NextIndex(wr_out_index)
      /\ UNCHANGED <<data_size, mem, wr_buff_q, wr_buff_use, wr_data_q,
                     wr_data_use, wr_buff_acq_idx, wr_rel_index, wr_held,
                     wr_filled, last_msg, reader, got, acked>>
  BY DEF write_data_publish, wr_app
<1>2. ~Failing /\ Leaving = 1 /\ ~Failing' /\ Leaving' = 0
  <2>1. ~Failing
    BY <1>1 DEF IInv, DataQueueInv
  <2>2. QED
    BY <1>1, <2>1 DEF Failing, Leaving
<1>3. /\ wr_out_index = Pos(n) /\ mem[Pos(n)] = n + 1
      /\ data_size[Pos(n)] = DataLen[n + 1] /\ Pos(n) \in Slots
  <2>1. wr_out_index = Pos(n)
    BY DEF IInv, IndexInv
  <2>2. QED
    BY <1>1, <1>2, <2>1, WriterTypes DEF IInv, MessageInv
<1>4. Len(wr_data_q) - wr_data_use = n - acked + 1
  BY <1>2 DEF IInv, DataQueueInv
<1>5. /\ n \in Int /\ acked \in Nat /\ N \in Nat /\ Acquired \in Int
      /\ Released \in Int
      /\ acked <= n /\ n + 1 <= acked + N
      /\ n \in acked .. acked + N - 1
  <2>1. n + 1 <= acked + N
    BY <1>0, <1>4 DEF WrNumbers
  <2>2. QED
    BY <1>0, <2>1 DEF WrNumbers, RdNumbers, WrBounds
<1>6. /\ Len(sent') = n + 1 /\ sent' \in Seq(0..MaxMsgs)
      /\ sent'[n + 1] = n + 1
      /\ \A i \in 1..n : sent'[i] = sent[i]
  <2>1. mem[wr_out_index] \in 0..MaxMsgs /\ sent \in Seq(0..MaxMsgs)
    BY WriterTypes
  <2>2. QED
    BY <1>1, <1>3, <2>1, AppendProperties
<1>7. /\ \A k \in Int : Pos(k)' = Pos(k)
      /\ Released' = Released /\ Acquired' = Acquired
      /\ UNCHANGED <<rd_sync_counter, rd_acq_index, rd_rel_index, rd_len>>
  BY <1>1, PosStable DEF reader, rd_chan, Released, Acquired
<1>8. /\ seq_no'[Pos(n)] = wr_sync_counter
      /\ \A s \in Slots : s # Pos(n) => seq_no'[s] = seq_no[s]
      /\ seq_no' \in [Slots -> Nat]
  BY <1>1, <1>3, WriterTypes
<1>9. /\ wr_sync_counter = n + BRING_SYNC_START
      /\ acked <= Released /\ Released <= Acquired /\ Acquired <= n
  BY DEF IInv, CounterInv
<1>10. ASSUME NEW k \in acked .. acked + N - 1, k # n
       PROVE  seq_no'[Pos(k)] = seq_no[Pos(k)]
  <2>1. Pos(k) # Pos(n)
    BY <1>5, <1>10, WriterTypes, PosInjective
  <2>2. k \in acked .. acked + N
    BY <1>5
  <2>3. Pos(k) \in Slots
    BY <2>2, WriterTypes, PosType
  <2>4. QED
    BY <1>8, <2>1, <2>3
<1>11. CounterInv'
  <2>1. /\ wr_sync_counter + 1 = n + 1 + BRING_SYNC_START
        /\ Acquired <= n + 1
    BY <1>5, <1>9 DEF BRING_SYNC_START
  <2>2. QED
    BY <1>1, <1>5, <1>6, <1>7, <1>9, <2>1 DEF CounterInv
<1>12. IndexInv'
  <2>1. NextIndex(Pos(n)) = Pos(n + 1)
    BY <1>5, WriterTypes, PosNext
  <2>2. Pos(Len(sent))' = Pos(n + 1)
    BY <1>1, <1>6 DEF Pos
  <2>3. Pos(Acquired)' = Pos(Acquired) /\ Pos(Released)' = Pos(Released)
    BY <1>5, <1>7 DEF Pos
  <2>4. QED
    BY <1>1, <1>3, <1>7, <2>1, <2>2, <2>3 DEF IInv, IndexInv
<1>13. RxdInv'
  <2> SUFFICES ASSUME NEW k \in acked .. Released - 1
               PROVE  seq_no'[Pos(k)] = BRING_SYNC_BUFF_RXD
    BY <1>1, <1>5, <1>7 DEF RxdInv
  <2>1. k \in acked .. acked + N - 1 /\ k # n
    BY <1>5, <1>9
  <2>2. QED
    BY <1>10, <2>1 DEF IInv, SlotInv, RxdInv
<1>14. SentInv'
  <2> SUFFICES ASSUME NEW k \in Released .. n
               PROVE  /\ seq_no'[Pos(k)] = k + BRING_SYNC_START
                      /\ mem[Pos(k)] = k + 1
                      /\ data_size[Pos(k)] = DataLen[k + 1]
    <3>1. Released' .. Len(sent') - 1 = Released .. n
      BY <1>5, <1>6, <1>7
    <3>2. \A k \in Released .. n : k \in Int
      BY <1>5
    <3>3. QED
      BY <1>1, <1>7, <3>1, <3>2 DEF SentInv
  <2>1. CASE k = n
    BY <1>3, <1>8, <1>9, <2>1
  <2>2. CASE k # n
    <3>1. k \in acked .. acked + N - 1 /\ k \in Released .. n - 1
      BY <1>5, <1>9, <2>2
    <3>2. seq_no'[Pos(k)] = seq_no[Pos(k)]
      BY <1>10, <2>2, <3>1
    <3>3. QED
      BY <3>1, <3>2 DEF IInv, SlotInv, SentInv
  <2>3. QED
    BY <2>1, <2>2
<1>15. EmptyInv'
  <2> SUFFICES ASSUME NEW k \in n + 1 .. acked + N - 1
               PROVE  seq_no'[Pos(k)] = BRING_SYNC_BUFF_EMPTY
    BY <1>1, <1>5, <1>6, <1>7 DEF EmptyInv
  <2>1. k \in acked .. acked + N - 1 /\ k # n /\ k \in n .. acked + N - 1
    BY <1>5
  <2>2. QED
    BY <1>10, <2>1 DEF IInv, SlotInv, EmptyInv
<1>16. LengthInv'
  BY <1>5, <1>7 DEF IInv, SlotInv, LengthInv
<1>17. MessageInv'
  <2>1. last_msg' = Len(sent') + Leaving' + wr_filled'
    <3>1. last_msg = n + Leaving + wr_filled
      BY DEF IInv, MessageInv
    <3>2. QED
      BY <1>0, <1>1, <1>2, <1>6, <3>1 DEF WrNumbers
  <2>2. \A i \in 1..Len(sent') : sent'[i] = i
    <3> TAKE i \in 1..Len(sent')
    <3>1. i \in 1..n \/ i = n + 1
      BY <1>5, <1>6
    <3>2. QED
      BY <1>6, <3>1 DEF IInv, MessageInv
  <2>3. \A i \in 1..wr_filled' : mem'[wr_held'[i]] = Len(sent') + Leaving' + i
    <3> TAKE i \in 1..wr_filled'
    <3>1. i \in 1..wr_filled /\ i \in Int
      BY <1>1
    <3>2. mem[wr_held[i]] = n + Leaving + i
      BY <3>1 DEF IInv, MessageInv
    <3>3. n + Leaving + i = n + 1 + Leaving' + i
      BY <1>2, <1>5, <3>1
    <3>4. QED
      BY <1>1, <1>6, <3>2, <3>3
  <2>4. \A i \in 1..Len(got') : got'[i] = [msg |-> i, len |-> DataLen[i]]
    BY <1>1 DEF IInv, MessageInv
  <2>5. QED
    BY <1>1, <1>2, <2>1, <2>2, <2>3, <2>4 DEF MessageInv
<1>18. DataQueueInv'
  <2>1. \A i \in 1..Len(wr_data_q') : DataEntry(i)'
    <3> TAKE i \in 1..Len(wr_data_q')
    <3>1. i \in 1..Len(wr_data_q) /\ DataEntry(i)
      BY <1>1, DataEntries
    <3>2. ~(wr_data_q[i].status \in Rejected)
      BY <1>2, <3>1 DEF Failing
    <3>3. Pos(acked + i - wr_data_use - 1)' = Pos(acked + i - wr_data_use - 1)
      BY <1>1 DEF Pos
    <3>4. QED
      BY <1>1, <3>1, <3>2, <3>3 DEF DataEntry
  <2>2. Len(wr_data_q) - wr_data_use = (n + 1) - acked + 0
    BY <1>4, <1>5
  <2>3. QED
    BY <1>1, <1>2, <1>6, <2>1, <2>2 DEF DataQueueInv
<1>19. BuffQueueInv'
  <2>1. Granted' = Granted /\ Len(sent') + Leaving' = Len(sent) + Leaving
    BY <1>0, <1>1, <1>2, <1>6 DEF Granted, WrNumbers
  <2>2. WrGranting' = WrGranting /\ WrInUse' = WrInUse
    BY <1>1 DEF WrGranting, Buffers, WrInUse
  <2>3. wr_buff_acq_idx' = Pos(Granted + WrGranting)'
    BY <1>1, <2>1, <2>2 DEF Pos, IInv, BuffQueueInv
  <2>4. \A i \in 1..Len(wr_held') :
           wr_held'[i] = Pos(Len(sent) + Leaving + i - 1)'
    BY <1>1, <2>1, BuffEntries DEF Pos
  <2>5. \A i \in 1..Len(wr_buff_q') : BuffEntry(i)'
    <3> TAKE i \in 1..Len(wr_buff_q')
    <3>1. BuffEntry(i)
      BY <1>1, BuffEntries
    <3>2. Pos(Granted + Buffers(wr_buff_q, i - 1))'
             = Pos(Granted + Buffers(wr_buff_q, i - 1))
      BY <1>1, <2>1 DEF Pos, Buffers
    <3>3. QED
      BY <1>1, <3>1, <3>2 DEF BuffEntry
  <2>6. QED
    BY <1>1, <2>2, <2>3, <2>4, <2>5 DEF IInv, BuffQueueInv
<1>20. ReadQueueInv'
  BY <1>1, <1>5, <1>6, KeepReadQueue
<1>21. TypeOK'
  <2>1. SharedTypeOK'
    BY <1>1, <1>8, WriterTypes DEF SharedTypeOK
  <2>2. WriterTypeOK'
    <3>1. wr_out_index' \in Slots
      BY <1>1, WriterTypes, NextIndexType
    <3>2. wr_sync_counter' = wr_sync_counter + 1
      BY <1>1
    <3>3. wr_sync_counter' \in Nat
      BY <1>0, <3>2 DEF WrNumbers
    <3>4. QED
      BY <1>1, <3>1, <3>3, WriterTypes DEF WriterTypeOK
  <2>3. ReaderTypeOK'
    BY <1>1, KeepTypes
  <2>4. HistoryTypeOK'
    BY <1>1, <1>6, WriterTypes, ReaderTypes DEF HistoryTypeOK
  <2>5. QED
    BY <2>1, <2>2, <2>3, <2>4 DEF TypeOK
<1>22. SlotInv'
  BY <1>13, <1>14, <1>15, <1>16 DEF SlotInv
<1>23. QED
  BY <1>11, <1>12, <1>17, <1>18, <1>19, <1>20, <1>21, <1>22 DEF IInv

-----------------------------------------------------------------------------
(***************************************************************************)
(* Completing a write.                                                     *)
(***************************************************************************)
\* The first entry not in use: a failed one, or the oldest message that is not
\* completed, in the slot the writer releases next.
LEMMA OldestWrite ==
    ASSUME IInv, DataIter <= Len(wr_data_q)
    PROVE  /\ DataIter \in 1..Len(wr_data_q)
           /\ \/ /\ wr_data_q[DataIter].status \in Rejected
                 /\ DataIter = Len(wr_data_q) /\ Failing
                 /\ Len(sent) = acked
              \/ /\ wr_data_q[DataIter].status = "ENOERROR"
                 /\ DataBuf = wr_rel_index
<1>0. WrNumbers
  BY WriterNumbers
<1>1. DataIter \in 1..Len(wr_data_q) /\ ~(DataIter <= wr_data_use)
  BY <1>0 DEF WrNumbers, DataIter
<1>2. DataEntry(DataIter)
  BY <1>1, DataEntries
<1>3. CASE wr_data_q[DataIter].status \in Rejected
  <2>1. DataIter = Len(wr_data_q) /\ Failing
    BY <1>1, <1>2, <1>3 DEF DataEntry, Failing, Rejected
  <2>2. Leaving = 1
    BY <2>1 DEF Leaving
  <2>3. ~(wr_data_use = Len(wr_data_q))
    BY <1>0, <2>1 DEF WrNumbers, DataIter
  <2>4. Len(wr_data_q) - wr_data_use = Len(sent) - acked + Leaving
    BY <2>3 DEF IInv, DataQueueInv
  <2>5. Len(sent) = acked
    BY <1>0, <2>1, <2>2, <2>4 DEF WrNumbers, DataIter
  <2>6. QED
    BY <1>1, <1>3, <2>1, <2>5
<1>4. CASE ~(wr_data_q[DataIter].status \in Rejected)
  <2>1. /\ wr_data_q[DataIter].status = "ENOERROR"
        /\ wr_data_q[DataIter].buf = Pos(acked + DataIter - wr_data_use - 1)
    BY <1>1, <1>2, <1>4 DEF DataEntry
  <2>2. acked + DataIter - wr_data_use - 1 = acked
    BY <1>0 DEF WrNumbers, DataIter
  <2>3. Pos(acked) = wr_rel_index
    BY WriterTypes, PosType
  <2>4. QED
    BY <1>1, <2>1, <2>2, <2>3 DEF DataBuf
<1>5. QED
  BY <1>3, <1>4

\* A slot marked RXD in the oldest position has been released by the reader.
LEMMA ReceivedReleased ==
    ASSUME IInv, Received(wr_rel_index)
    PROVE  acked < Released
<1>0. WrNumbers /\ WrBounds /\ RdNumbers
  BY WriterNumbers, WriterBounds, ReaderNumbers
<1>1. seq_no[Pos(acked)] = BRING_SYNC_BUFF_RXD
  BY WriterTypes, PosType DEF Received
<1>2. /\ acked <= Released /\ Released <= Acquired /\ Acquired <= Len(sent)
  BY DEF IInv, CounterInv
<1>3. CASE acked = Released /\ acked < Len(sent)
  <2>1. acked \in Released .. Len(sent) - 1
    BY <1>0, <1>3 DEF WrNumbers, RdNumbers
  <2>2. seq_no[Pos(acked)] = acked + BRING_SYNC_START
    BY <2>1 DEF IInv, SlotInv, SentInv
  <2>3. acked \in Nat
    BY <1>0 DEF WrNumbers
  <2>4. QED
    BY <1>1, <2>2, <2>3 DEF BRING_SYNC_START, BRING_SYNC_BUFF_RXD
<1>4. CASE acked = Released /\ acked = Len(sent)
  <2>1. acked \in Len(sent) .. acked + N - 1
    BY <1>0, <1>4 DEF WrNumbers
  <2>2. seq_no[Pos(acked)] = BRING_SYNC_BUFF_EMPTY
    BY <2>1 DEF IInv, SlotInv, EmptyInv
  <2>3. QED
    BY <1>1, <2>2 DEF BRING_SYNC_BUFF_EMPTY, BRING_SYNC_BUFF_RXD
<1>5. /\ acked \in Int /\ Released \in Int /\ Len(sent) \in Int
      /\ acked <= Released /\ acked <= Len(sent)
  BY <1>0, <1>2 DEF WrNumbers, RdNumbers, WrBounds
<1>6. \/ acked < Released
      \/ acked = Released /\ acked < Len(sent)
      \/ acked = Released /\ acked = Len(sent)
  BY <1>5
<1>7. QED
  BY <1>3, <1>4, <1>6

\* The loop of wr_data_ready moves over a failed entry, finds the oldest slot
\* given back, or ends; none of these touches the ring.
LEMMA Step_write_data_ready ==
    ASSUME IInv, write_data_ready
    PROVE  IInv'
<1>0. WrNumbers /\ WrBounds
  BY WriterNumbers, WriterBounds
<1>1. /\ wr_pc \in {"idle", "data_ready"}
      /\ UNCHANGED <<shared, wr_buff_q, wr_buff_use, wr_data_q,
                     wr_sync_counter, wr_buff_acq_idx, wr_out_index,
                     wr_rel_index, wr_held, wr_filled, last_msg, reader,
                     history, mem, data_size, sent, got, acked>>
  BY DEF write_data_ready, wr_app, shared, history
<1>2. /\ wr_pc' \in {"idle", "data_ready", "written"}
      /\ wr_data_use' \in {wr_data_use, DataIter}
  BY DEF write_data_ready
<1>3. Failing' = Failing /\ Leaving' = Leaving /\ Granted' = Granted
  BY <1>1, <1>2 DEF Failing, Leaving, Granted
<1>4. WriterLocal
  BY <1>1 DEF WriterLocal
<1>6. MessageInv'
  <2>1. Pos(Len(sent))' = Pos(Len(sent)) /\ Len(sent') = Len(sent)
    BY <1>1 DEF Pos
  <2>2. QED
    BY <1>1, <1>2, <1>3, <2>1 DEF IInv, MessageInv
<1>7. BuffQueueInv'
  <2>1. WrGranting' = WrGranting /\ WrInUse' = WrInUse
    BY <1>1 DEF WrGranting, Buffers, WrInUse
  <2>2. wr_buff_acq_idx' = Pos(Granted + WrGranting)'
    BY <1>1, <1>3, <2>1 DEF Pos, IInv, BuffQueueInv
  <2>3. \A i \in 1..Len(wr_held') :
           wr_held'[i] = Pos(Len(sent) + Leaving + i - 1)'
    BY <1>1, <1>3, BuffEntries DEF Pos
  <2>4. \A i \in 1..Len(wr_buff_q') : BuffEntry(i)'
    <3> TAKE i \in 1..Len(wr_buff_q')
    <3>1. BuffEntry(i)
      BY <1>1, BuffEntries
    <3>2. Pos(Granted + Buffers(wr_buff_q, i - 1))'
             = Pos(Granted + Buffers(wr_buff_q, i - 1))
      BY <1>1, <1>3 DEF Pos, Buffers
    <3>3. QED
      BY <1>1, <3>1, <3>2 DEF BuffEntry
  <2>5. QED
    BY <1>1, <1>2, <2>1, <2>2, <2>3, <2>4 DEF IInv, BuffQueueInv
<1>8. CASE /\ DataIter <= Len(wr_data_q)
           /\ wr_data_q[DataIter].status # "ENOERROR"
           /\ wr_pc' = "data_ready" /\ wr_data_use' = DataIter
  <2>1. /\ wr_data_q[DataIter].status \in Rejected
        /\ DataIter = Len(wr_data_q) /\ Failing /\ Len(sent) = acked
        /\ DataIter \in 1..Len(wr_data_q)
    BY <1>8, OldestWrite
  <2>2. \A i \in 1..Len(wr_data_q) : DataEntry(i)'
    <3> TAKE i \in 1..Len(wr_data_q)
    <3>1. DataEntry(i)
      BY DataEntries
    <3>2. Pos(Len(sent))' = Pos(Len(sent))
      BY <1>1 DEF Pos
    <3>3. CASE i = DataIter
      BY <1>1, <2>1, <3>1, <3>2, <3>3 DEF DataEntry, Rejected
    <3>4. CASE i # DataIter
      <4>1. /\ i <= wr_data_use /\ i <= DataIter
            /\ ~(i > wr_data_use) /\ i # Len(wr_data_q)
        BY <1>0, <2>1, <3>4 DEF WrNumbers, DataIter
      <4>2. QED
        BY <1>1, <1>8, <3>1, <4>1 DEF DataEntry
    <3>5. QED
      BY <3>3, <3>4
  <2>3. DataQueueInv'
    BY <1>1, <1>3, <1>8, <2>1, <2>2 DEF DataQueueInv
  <2>4. WriterTypeOK'
    <3>1. wr_data_use' \in 0..Len(wr_data_q)
      BY <1>0, <1>8, <2>1 DEF WrNumbers
    <3>2. QED
      BY <1>1, <1>2, <3>1, WriterTypes DEF WriterTypeOK
  <2>5. QED
    BY <1>4, <1>6, <1>7, <2>3, <2>4, WriterLocalStep
<1>9. CASE /\ wr_data_use' = wr_data_use
           /\ \/ wr_pc' = "idle"
              \/ /\ wr_pc' = "written" /\ DataIter <= Len(wr_data_q)
                 /\ wr_data_q[DataIter].status = "ENOERROR"
                 /\ Received(DataBuf)
  <2>1. \A i \in 1..Len(wr_data_q) : DataEntry(i)'
    <3> TAKE i \in 1..Len(wr_data_q)
    <3>1. DataEntry(i)
      BY DataEntries
    <3>2. /\ Pos(Len(sent))' = Pos(Len(sent))
          /\ Pos(acked + i - wr_data_use - 1)'
               = Pos(acked + i - wr_data_use - 1)
      BY <1>1, <1>9 DEF Pos
    <3>3. QED
      BY <1>1, <1>9, <3>1, <3>2 DEF DataEntry
  <2>2. wr_pc' \in {"written", "free"} =>
          /\ wr_data_use' < Len(wr_data_q')
          /\ wr_data_q'[wr_data_use' + 1].status = "ENOERROR"
          /\ acked' < Released'
    <3>1. SUFFICES ASSUME wr_pc' = "written"
                   PROVE  /\ wr_data_use < Len(wr_data_q)
                          /\ wr_data_q[wr_data_use + 1].status = "ENOERROR"
                          /\ acked < Released
      BY <1>1, <1>9 DEF reader, rd_chan, Released
    <3>2. /\ DataIter <= Len(wr_data_q)
          /\ wr_data_q[DataIter].status = "ENOERROR" /\ Received(DataBuf)
      BY <1>9, <3>1
    <3>3. DataBuf = wr_rel_index
      BY <3>2, OldestWrite DEF Rejected
    <3>4. wr_data_use < Len(wr_data_q)
      BY <1>0, <3>2 DEF WrNumbers, DataIter
    <3>5. acked < Released
      BY <3>2, <3>3, ReceivedReleased
    <3>6. QED
      BY <3>2, <3>4, <3>5 DEF DataIter
  <2>3. wr_pc' # "publish"
    BY <1>9
  <2>4. DataQueueInv'
    BY <1>1, <1>3, <1>9, <2>1, <2>2, <2>3 DEF IInv, DataQueueInv
  <2>5. WriterTypeOK'
    BY <1>1, <1>9, WriterTypes DEF WriterTypeOK
  <2>6. QED
    BY <1>4, <1>6, <1>7, <2>4, <2>5, WriterLocalStep
<1>10. QED
  BY <1>8, <1>9 DEF write_data_ready

\* The release inside wr_data_ready: the oldest slot is the one to release, so
\* its order check never fails; the reader no longer needs the length.
LEMMA Step_write_data_release ==
    ASSUME IInv, write_data_release
    PROVE  IInv'
<1>0. WrNumbers /\ WrBounds /\ RdNumbers
  BY WriterNumbers, WriterBounds, ReaderNumbers
<1>1. /\ wr_pc = "written" /\ wr_data_use < Len(wr_data_q)
      /\ wr_data_q[DataIter].status = "ENOERROR" /\ acked < Released
  BY DEF write_data_release, IInv, DataQueueInv, DataIter
<1>2. DataIter <= Len(wr_data_q)
  BY <1>0, <1>1 DEF WrNumbers, DataIter
<1>3. DataBuf = wr_rel_index
  BY <1>1, <1>2, OldestWrite DEF Rejected
<1>4. /\ wr_pc' = "free"
      /\ data_size' = [data_size EXCEPT ![wr_rel_index] = 0]
      /\ UNCHANGED <<seq_no, mem, wr_buff_q, wr_buff_use, wr_data_q,
                     wr_data_use, wr_sync_counter, wr_buff_acq_idx,
                     wr_out_index, wr_rel_index, wr_held, wr_filled,
                     last_msg, reader, history, sent, got, acked>>
  BY <1>3 DEF write_data_release, wr_app, history
<1>5. Failing' = Failing /\ Leaving' = Leaving /\ Granted' = Granted
  BY <1>1, <1>4 DEF Failing, Leaving, Granted
<1>6. /\ \A k \in Int : Pos(k)' = Pos(k)
      /\ Released' = Released /\ Acquired' = Acquired
      /\ Len(sent') = Len(sent)
      /\ UNCHANGED <<rd_sync_counter, rd_acq_index, rd_rel_index, rd_len>>
  BY <1>4, PosStable DEF reader, rd_chan, Released, Acquired
<1>7. /\ Len(sent) \in Int /\ Acquired \in Int /\ Released \in Int
      /\ acked \in Int /\ wr_data_use \in Int
  BY <1>0 DEF WrNumbers, RdNumbers
<1>8. CounterInv'
  BY <1>4, <1>6 DEF IInv, CounterInv
<1>9. IndexInv'
  BY <1>4, <1>6, <1>7 DEF IInv, IndexInv
<1>10. SlotInv'
  <2>1. RxdInv' /\ EmptyInv' /\ LengthInv'
    BY <1>4, <1>6, <1>7 DEF IInv, SlotInv, RxdInv, EmptyInv, LengthInv
  <2>2. SentInv'
    <3> SUFFICES ASSUME NEW k \in Released .. Len(sent) - 1
                 PROVE  data_size'[Pos(k)] = data_size[Pos(k)]
      BY <1>4, <1>6, <1>7 DEF IInv, SlotInv, SentInv
    <3>1. Len(sent) <= acked + N /\ N \in Nat /\ N > 0
      BY <1>0, SMTT(30) DEF WrNumbers, WrBounds
    <3>2. /\ k \in acked .. acked + N - 1 /\ acked \in acked .. acked + N - 1
          /\ k # acked /\ k \in acked .. acked + N
      BY <1>1, <1>7, <3>1
    <3>3. Pos(k) # wr_rel_index /\ Pos(k) \in Slots
      BY <3>2, WriterTypes, PosInjective, PosType
    <3>4. QED
      BY <1>4, <3>3, WriterTypes
  <2>3. QED
    BY <2>1, <2>2 DEF SlotInv
<1>11. MessageInv'
  BY <1>1, <1>4, <1>5, <1>6, <1>7 DEF IInv, MessageInv
<1>12. DataQueueInv'
  <2>1. \A i \in 1..Len(wr_data_q) : DataEntry(i)'
    BY <1>4, <1>6, <1>7, DataEntries DEF DataEntry
  <2>2. QED
    BY <1>1, <1>4, <1>5, <1>6, <2>1 DEF IInv, DataQueueInv, DataIter
<1>13. BuffQueueInv'
  <2>1. WrGranting' = WrGranting /\ WrInUse' = WrInUse
    BY <1>4 DEF WrGranting, Buffers, WrInUse
  <2>2. wr_buff_acq_idx' = Pos(Granted + WrGranting)'
    BY <1>4, <1>5, <2>1 DEF Pos, IInv, BuffQueueInv
  <2>3. \A i \in 1..Len(wr_held') :
           wr_held'[i] = Pos(Len(sent) + Leaving + i - 1)'
    BY <1>4, <1>5, BuffEntries DEF Pos
  <2>4. \A i \in 1..Len(wr_buff_q') : BuffEntry(i)'
    <3> TAKE i \in 1..Len(wr_buff_q')
    <3>1. BuffEntry(i)
      BY <1>4, BuffEntries
    <3>2. Pos(Granted + Buffers(wr_buff_q, i - 1))'
             = Pos(Granted + Buffers(wr_buff_q, i - 1))
      BY <1>4, <1>5 DEF Pos, Buffers
    <3>3. QED
      BY <1>4, <3>1, <3>2 DEF BuffEntry
  <2>5. QED
    BY <1>4, <2>1, <2>2, <2>3, <2>4 DEF IInv, BuffQueueInv
<1>14. ReadQueueInv'
  <2>1. Len(sent) <= Len(sent)' /\ Len(sent)' \in Nat
    BY <1>0, <1>6 DEF WrNumbers
  <2>2. QED
    BY <1>4, <2>1, KeepReadQueue
<1>15. TypeOK'
  <2>1. data_size' \in [Slots -> 0..MaxLen]
    <3>1. 0 \in 0..MaxLen
      BY RingAssumption
    <3>2. QED
      BY <1>4, <3>1, WriterTypes
  <2>2. SharedTypeOK'
    BY <1>4, <2>1, WriterTypes DEF SharedTypeOK
  <2>3. WriterTypeOK'
    BY <1>4, WriterTypes DEF WriterTypeOK
  <2>4. QED
    BY <1>4, <2>2, <2>3, KeepTypes DEF TypeOK
<1>16. QED
  BY <1>8, <1>9, <1>10, <1>11, <1>12, <1>13, <1>14, <1>15 DEF IInv

\* An application that never releases what it has not sent calls
\* wr_buff_release never.
LEMMA Step_write_buffer_release ==
    ASSUME Disciplined, IInv, write_buffer_release
    PROVE  IInv'
BY DEF Disciplined, write_buffer_release

LEMMA Step_write_buffer_release_seq ==
    ASSUME IInv, write_buffer_release_seq
    PROVE  IInv'
BY DEF write_buffer_release_seq, IInv, BuffQueueInv

\* The slot is EMPTY again and the window moves on by one: the slot of message
\* acked becomes that of message acked + N.
LEMMA Step_write_data_free ==
    ASSUME IInv, write_data_free
    PROVE  IInv'
<1>0. WrNumbers /\ WrBounds /\ RdNumbers
  BY WriterNumbers, WriterBounds, ReaderNumbers
<1> DEFINE q == wr_data_q
           m == Response(NoBuf, "EBUFFRELEASED")
<1>1. /\ wr_pc = "free" /\ wr_data_use < Len(q)
      /\ q[DataIter].status = "ENOERROR" /\ acked < Released
  BY DEF write_data_free, IInv, DataQueueInv, DataIter
<1>2. /\ DataIter \in 1..Len(q) /\ DataIter = wr_data_use + 1
  BY <1>0, <1>1 DEF WrNumbers, DataIter
<1>3. /\ seq_no' = [seq_no EXCEPT ![wr_rel_index] = BRING_SYNC_BUFF_EMPTY]
      /\ wr_rel_index' = NextIndex(wr_rel_index)
      /\ q' = [q EXCEPT ![DataIter] = m]
      /\ wr_data_use' = DataIter /\ acked' = acked + 1
      /\ wr_pc' = "data_ready"
      /\ UNCHANGED <<data_size, mem, wr_buff_q, wr_buff_use, wr_sync_counter,
                     wr_buff_acq_idx, wr_out_index, wr_held, wr_filled,
                     last_msg, reader, sent, got>>
  BY DEF write_data_free, wr_app
<1>4. m \in Msg /\ m.buf = NoBuf /\ m.status = "EBUFFRELEASED"
  BY Messages DEF Response, Status
<1> HIDE DEF m
<1>5. /\ q' \in Seq(Msg) /\ Len(q') = Len(q) /\ q'[DataIter] = m
      /\ \A i \in 1..Len(q) : i # DataIter => q'[i] = q[i]
  BY <1>2, <1>3, <1>4, WriterTypes, QueueUpdate, SMTT(30)
<1>6. Failing' <=> Failing
  <2>1. \A i \in 1..Len(q) : q'[i].status \in Rejected
                                <=> q[i].status \in Rejected
    BY <1>1, <1>4, <1>5 DEF Rejected
  <2>2. QED
    BY <1>5, <2>1 DEF Failing, Rejected
<1>7. Leaving' = Leaving /\ Granted' = Granted
  BY <1>1, <1>3, <1>6 DEF Leaving, Granted
<1>8. /\ acked \in Nat /\ Len(sent) \in Int /\ Released \in Int
      /\ Acquired \in Int /\ N \in Nat /\ N > 0
      /\ acked < Released /\ Released <= Acquired /\ Acquired <= Len(sent)
      /\ Len(sent) <= acked + N
  <2>1. Released <= Acquired /\ Acquired <= Len(sent) /\ Len(sent) <= acked + N
    BY DEF IInv, CounterInv
  <2>2. QED
    BY <1>0, <1>1, <2>1 DEF WrNumbers, RdNumbers
<1>9. \A k \in acked + 1 .. acked + N : Pos(k)' = Pos(k)
  BY <1>3, WriterTypes, PosShift
<1>10. /\ Released' = Released /\ Acquired' = Acquired
       /\ Len(sent') = Len(sent)
       /\ UNCHANGED <<rd_sync_counter, rd_acq_index, rd_rel_index, rd_len>>
  BY <1>3 DEF reader, rd_chan, Released, Acquired
<1>11. /\ Pos(acked) = wr_rel_index /\ Pos(acked + N) = wr_rel_index
       /\ seq_no'[wr_rel_index] = BRING_SYNC_BUFF_EMPTY
       /\ seq_no' \in [Slots -> Nat]
  <2>1. BRING_SYNC_BUFF_EMPTY \in Nat
    BY DEF BRING_SYNC_BUFF_EMPTY
  <2>2. QED
    BY <1>3, <2>1, WriterTypes, PosType
<1>12. ASSUME NEW k \in acked + 1 .. acked + N - 1
       PROVE  Pos(k)' = Pos(k) /\ seq_no'[Pos(k)] = seq_no[Pos(k)]
  <2>1. /\ k \in acked .. acked + N - 1 /\ acked \in acked .. acked + N - 1
        /\ k # acked /\ k \in acked .. acked + N /\ k \in acked + 1 .. acked + N
    BY <1>8
  <2>2. Pos(k) # wr_rel_index /\ Pos(k) \in Slots
    BY <1>11, <2>1, WriterTypes, PosInjective, PosType
  <2>3. QED
    BY <1>3, <1>9, <2>1, <2>2, WriterTypes
<1>13. CounterInv'
  <2>1. /\ acked + 1 <= Released /\ Len(sent) <= acked + 1 + N
    BY <1>8
  <2>2. QED
    BY <1>3, <1>8, <1>10, <2>1 DEF IInv, CounterInv
<1>14. IndexInv'
  <2>1. /\ Len(sent) \in acked + 1 .. acked + N
        /\ Acquired \in acked + 1 .. acked + N
        /\ Released \in acked + 1 .. acked + N
    BY <1>8
  <2>2. /\ Pos(Len(sent))' = Pos(Len(sent)) /\ Pos(Acquired)' = Pos(Acquired)
        /\ Pos(Released)' = Pos(Released)
    BY <1>9, <1>10, <2>1 DEF Pos
  <2>3. QED
    BY <1>3, <1>10, <2>2 DEF IInv, IndexInv
<1>15. SlotInv'
  <2>1. RxdInv'
    <3> SUFFICES ASSUME NEW k \in acked + 1 .. Released - 1
                 PROVE  seq_no'[Pos(k)'] = BRING_SYNC_BUFF_RXD
      BY <1>3, <1>10 DEF RxdInv
    <3>1. k \in acked + 1 .. acked + N - 1 /\ k \in acked .. Released - 1
      BY <1>8
    <3>2. QED
      BY <1>12, <3>1 DEF IInv, SlotInv, RxdInv
  <2>2. SentInv'
    <3> SUFFICES ASSUME NEW k \in Released .. Len(sent) - 1
                 PROVE  /\ seq_no'[Pos(k)'] = k + BRING_SYNC_START
                        /\ mem[Pos(k)'] = k + 1
                        /\ data_size[Pos(k)'] = DataLen[k + 1]
      BY <1>3, <1>10 DEF SentInv
    <3>1. k \in acked + 1 .. acked + N - 1
      BY <1>8
    <3>2. QED
      BY <1>12, <3>1 DEF IInv, SlotInv, SentInv
  <2>3. EmptyInv'
    <3> SUFFICES ASSUME NEW k \in Len(sent) .. acked + 1 + N - 1
                 PROVE  seq_no'[Pos(k)'] = BRING_SYNC_BUFF_EMPTY
      BY <1>3, <1>10 DEF EmptyInv
    <3>1. CASE k = acked + N
      <4>1. acked + N \in acked + 1 .. acked + N
        BY <1>8
      <4>2. QED
        BY <1>9, <1>11, <3>1, <4>1
    <3>2. CASE k # acked + N
      <4>1. k \in acked + 1 .. acked + N - 1 /\ k \in Len(sent) .. acked + N - 1
        BY <1>8, <3>2
      <4>2. QED
        BY <1>12, <4>1 DEF IInv, SlotInv, EmptyInv
    <3>3. QED
      BY <3>1, <3>2
  <2>4. LengthInv'
    <3> SUFFICES ASSUME NEW k \in Released .. Acquired - 1
                 PROVE  rd_len[Pos(k)'] = DataLen[k + 1]
      BY <1>10 DEF LengthInv
    <3>1. k \in acked + 1 .. acked + N - 1
      BY <1>8
    <3>2. QED
      BY <1>12, <3>1 DEF IInv, SlotInv, LengthInv
  <2>5. QED
    BY <2>1, <2>2, <2>3, <2>4 DEF SlotInv
<1>16. Len(sent) \in acked + 1 .. acked + N
  BY <1>8
<1>17. MessageInv'
  <2>1. Pos(Len(sent))' = Pos(Len(sent))
    BY <1>9, <1>10, <1>16 DEF Pos
  <2>2. QED
    BY <1>3, <1>7, <1>10, <2>1 DEF IInv, MessageInv
<1>18. DataQueueInv'
  <2>1. \A i \in 1..Len(q') : DataEntry(i)'
    <3> TAKE i \in 1..Len(q')
    <3>1. i \in 1..Len(q) /\ DataEntry(i) /\ i \in Int
      BY <1>5, DataEntries
    <3>2. Pos(Len(sent))' = Pos(Len(sent))
      BY <1>9, <1>10, <1>16 DEF Pos
    <3>3. CASE i = DataIter
      <4>1. q'[i] = m /\ i <= wr_data_use'
        BY <1>3, <1>5, <3>1, <3>3
      <4>2. QED
        BY <1>4, <4>1 DEF DataEntry
    <3>4. CASE i # DataIter /\ q[i].status = "ENOERROR"
      <4>1. i > wr_data_use /\ q[i].buf = Pos(acked + i - wr_data_use - 1)
        BY <3>1, <3>4 DEF DataEntry, Rejected
      <4>2. /\ i > wr_data_use'
            /\ acked' + i - wr_data_use' - 1 = acked + i - wr_data_use - 1
        <5>1. wr_data_use' = wr_data_use + 1 /\ acked' = acked + 1
          BY <1>2, <1>3
        <5>2. i # wr_data_use + 1
          BY <1>2, <3>4
        <5>3. QED
          BY <1>0, <3>1, <4>1, <5>1, <5>2 DEF WrNumbers
      <4>3. acked + i - wr_data_use - 1 \in acked + 1 .. acked + N
        <5>1. i # wr_data_use + 1 /\ i > wr_data_use
          BY <1>2, <3>4, <4>1
        <5>2. QED
          BY <1>0, <3>1, <5>1 DEF WrNumbers
      <4>4. Pos(acked + i - wr_data_use - 1)' = Pos(acked + i - wr_data_use - 1)
        <5> DEFINE k == acked + i - wr_data_use - 1
        <5>1. k \in acked + 1 .. acked + N /\ k' = k
          BY <4>2, <4>3
        <5>2. Pos(acked + i - wr_data_use - 1)' = Pos(k)'
          BY <5>1 DEF Pos
        <5> HIDE DEF k
        <5>3. QED
          BY <1>9, <5>1, <5>2 DEF k
      <4>5. q'[i] = q[i]
        BY <1>5, <3>1, <3>4
      <4>6. QED
        BY <3>4, <4>1, <4>2, <4>4, <4>5 DEF DataEntry
    <3>5. CASE i # DataIter /\ q[i].status # "ENOERROR"
      <4>1. q'[i] = q[i]
        BY <1>5, <3>1, <3>5
      <4>2. i <= wr_data_use => i <= wr_data_use'
        BY <1>0, <1>2, <1>3, <3>1 DEF WrNumbers
      <4>3. QED
        BY <1>5, <3>1, <3>2, <3>5, <4>1, <4>2 DEF DataEntry
    <3>6. QED
      BY <3>3, <3>4, <3>5
  <2>2. ~(Failing /\ DataIter = Len(q))
    <3> SUFFICES ASSUME Failing, DataIter = Len(q)
                 PROVE  FALSE
      OBVIOUS
    <3>1. PICK i \in 1..Len(q) : q[i].status \in Rejected
      BY DEF Failing
    <3>2. i = Len(q)
      BY <3>1, DataEntries DEF DataEntry, Rejected
    <3>3. QED
      BY <1>1, <3>1, <3>2 DEF Rejected
  <2>3. Len(q) - wr_data_use = Len(sent) - acked + Leaving
    <3>1. ~(wr_data_use = Len(q))
      BY <1>0, <1>1 DEF WrNumbers
    <3>2. QED
      BY <3>1 DEF IInv, DataQueueInv
  <2>4. Len(q') - wr_data_use' = Len(sent') - acked' + Leaving'
    <3>1. /\ wr_data_use' = wr_data_use + 1 /\ acked' = acked + 1
          /\ Len(q') = Len(q)
      BY <1>2, <1>3, <1>5
    <3>2. QED
      BY <1>0, <1>7, <1>10, <2>3, <3>1 DEF WrNumbers
  <2>5. QED
    BY <1>3, <1>5, <1>6, <2>1, <2>2, <2>4 DEF DataQueueInv
<1>19. BuffQueueInv'
  <2>1. WrGranting' = WrGranting /\ WrInUse' = WrInUse
    BY <1>3, <1>5 DEF WrGranting, Buffers, WrInUse
  <2>2. ASSUME NEW k \in Int, Len(sent) <= k, k <= Granted + Len(wr_buff_q)
        PROVE  Pos(k)' = Pos(k)
    <3>1. k \in acked + 1 .. acked + N
      <4>1. Granted + Len(wr_buff_q) <= acked + N
        BY <1>0, SMTT(30) DEF WrNumbers, WrBounds
      <4>2. Granted + Len(wr_buff_q) \in Int
        BY <1>0 DEF WrNumbers
      <4>3. QED
        BY <1>8, <2>2, <4>1, <4>2
    <3>2. QED
      BY <1>9, <3>1
  <2>3. wr_buff_acq_idx' = Pos(Granted + WrGranting)'
    <3> DEFINE k == Granted + WrGranting
    <3>1. /\ k \in Int /\ Len(sent) <= k /\ k <= Granted + Len(wr_buff_q)
          /\ k' = k
      <4>1. k' = k
        BY <1>7, <2>1
      <4>2. QED
        BY <1>0, <4>1, SMTT(30) DEF WrNumbers, WrBounds
    <3>2. wr_buff_acq_idx = Pos(k)
      BY DEF IInv, BuffQueueInv
    <3>3. Pos(Granted + WrGranting)' = Pos(k)'
      BY <3>1 DEF Pos
    <3> HIDE DEF k
    <3>4. QED
      BY <1>3, <2>2, <3>1, <3>2, <3>3
  <2>4. ASSUME NEW i \in 1..Len(wr_held')
        PROVE  wr_held'[i] = Pos(Len(sent) + Leaving + i - 1)'
    <3> DEFINE k == Len(sent) + Leaving + i - 1
    <3>1. i \in 1..Len(wr_held)
      BY <1>3
    <3>2. k \in Int /\ Len(sent) <= k /\ k <= Granted + Len(wr_buff_q)
      BY <1>0, <3>1, SMTT(30) DEF WrNumbers, WrBounds
    <3>3. Pos(Len(sent) + Leaving + i - 1)' = Pos(k)' /\ k' = k
      BY <1>7, <1>10 DEF Pos
    <3>4. wr_held[i] = Pos(k)
      BY <3>1, BuffEntries
    <3> HIDE DEF k
    <3>5. QED
      BY <1>3, <2>2, <3>2, <3>3, <3>4
  <2>5. ASSUME NEW i \in 1..Len(wr_buff_q')
        PROVE  BuffEntry(i)'
    <3> DEFINE k == Granted + Buffers(wr_buff_q, i - 1)
    <3>1. i \in 1..Len(wr_buff_q) /\ i - 1 \in Nat /\ BuffEntry(i)
      BY <1>3, BuffEntries
    <3>2. Buffers(wr_buff_q, i - 1) \in 0..i - 1
      BY <3>1, BuffersType
    <3>3. k \in Int /\ Len(sent) <= k /\ k <= Granted + Len(wr_buff_q)
      <4> DEFINE b == Buffers(wr_buff_q, i - 1)
      <4>1. i \in 1..Len(wr_buff_q) /\ b \in 0..i - 1
        BY <3>1, <3>2
      <4> HIDE DEF b
      <4>2. b \in 0..Len(wr_buff_q)
        BY <1>0, <4>1 DEF WrNumbers
      <4>3. /\ Granted + b \in Int /\ Len(sent) <= Granted + b
            /\ Granted + b <= Granted + Len(wr_buff_q)
        BY <1>0, <4>2, SMTT(30) DEF WrNumbers, WrBounds
      <4>4. QED
        BY <4>3 DEF b
    <3>4. Pos(Granted + Buffers(wr_buff_q, i - 1))' = Pos(k)' /\ k' = k
      BY <1>3, <1>7 DEF Pos, Buffers
    <3> HIDE DEF k
    <3>5. Pos(Granted + Buffers(wr_buff_q, i - 1))' = Pos(k)
      BY <2>2, <3>3, <3>4
    <3>6. QED
      BY <1>3, <3>1, <3>5 DEF BuffEntry, k
  <2>6. QED
    BY <1>3, <2>1, <2>3, <2>4, <2>5 DEF IInv, BuffQueueInv
<1>20. ReadQueueInv'
  <2>1. Len(sent) <= Len(sent)' /\ Len(sent)' \in Nat
    BY <1>0, <1>10 DEF WrNumbers
  <2>2. QED
    BY <1>3, <2>1, KeepReadQueue
<1>21. TypeOK'
  <2>1. SharedTypeOK'
    BY <1>3, <1>11, WriterTypes DEF SharedTypeOK
  <2>2. WriterTypeOK'
    <3>1. wr_rel_index' \in Slots
      BY <1>3, WriterTypes, NextIndexType
    <3>2. wr_data_use' \in 0..Len(q')
      BY <1>0, <1>2, <1>3, <1>5 DEF WrNumbers
    <3>3. QED
      BY <1>3, <1>5, <3>1, <3>2, WriterTypes DEF WriterTypeOK
  <2>3. HistoryTypeOK'
    <3>1. acked' \in Nat
      BY <1>3, <1>8
    <3>2. QED
      BY <1>3, <3>1, WriterTypes, ReaderTypes DEF HistoryTypeOK
  <2>4. QED
    BY <1>3, <2>1, <2>2, <2>3, KeepTypes DEF TypeOK
<1>22. QED
  BY <1>13, <1>14, <1>15, <1>17, <1>18, <1>19, <1>20, <1>21 DEF IInv

\* A finished write leaves the queue: its slot is gone already, except that a
\* failed one returns to the front of the buffers the application holds.
LEMMA Step_write_data_result ==
    ASSUME IInv, write_data_result
    PROVE  IInv'
<1>0. WrNumbers /\ WrBounds
  BY WriterNumbers, WriterBounds
<1> DEFINE q == wr_data_q
<1>1. /\ wr_pc = "idle" /\ wr_pc' = "idle" /\ wr_data_use > 0
      /\ q' = Tail(q) /\ wr_data_use' = wr_data_use - 1
      /\ UNCHANGED <<shared, wr_buff_q, wr_buff_use, wr_sync_counter,
                     wr_buff_acq_idx, wr_out_index, wr_rel_index, last_msg,
                     reader, history, mem, data_size, sent, got, acked>>
  BY DEF write_data_result, shared, history
<1>2. Len(q) > 0 /\ 1 \in 1..Len(q) /\ 1 <= wr_data_use
  BY <1>0, <1>1 DEF WrNumbers
<1>3. /\ Head(q) = q[1] /\ q[1] \in Msg
      /\ q' \in Seq(Msg) /\ Len(q') = Len(q) - 1
      /\ \A i \in 1..Len(q) - 1 : q'[i] = q[i + 1]
  BY <1>1, <1>2, WriterTypes, QueuePop
<1>4. WriterLocal
  BY <1>1 DEF WriterLocal
<1>5. /\ Len(q') = Len(q) - 1 /\ Len(sent') = Len(sent)
      /\ Len(q') \in Nat /\ wr_data_use' \in 0..Len(q')
      /\ Len(q') <= N
  <2>1. Len(q') = Len(q) - 1 /\ wr_data_use' = wr_data_use - 1
    BY <1>1, <1>3
  <2>2. Len(q') \in Nat /\ wr_data_use' \in 0..Len(q') /\ Len(q') <= N
    BY <1>0, <1>2, <2>1 DEF WrNumbers
  <2>3. QED
    BY <1>1, <2>1, <2>2
<1>6. \/ q[1].status = "EBUFFRELEASED" /\ q[1].buf = NoBuf
      \/ /\ q[1].status \in Rejected /\ Len(q) = 1
         /\ q[1].buf = Pos(Len(sent)) /\ q[1].buf \in Slots
  <2>1. DataEntry(1) /\ ~(1 > wr_data_use)
    BY <1>0, <1>2, DataEntries DEF WrNumbers
  <2>2. Pos(Len(sent)) \in Slots
    BY WriterTypes DEF IInv, IndexInv
  <2>3. QED
    BY <2>1, <2>2 DEF DataEntry
<1>7. CASE q[1].status = "EBUFFRELEASED" /\ q[1].buf = NoBuf
  <2>1. UNCHANGED <<wr_held, wr_filled>>
    BY <1>3, <1>7 DEF write_data_result
  <2>2. Failing' <=> Failing
    <3>1. ASSUME NEW i \in 1..Len(q'), q'[i].status \in Rejected
          PROVE  Failing
      <4>1. i \in 1..Len(q) - 1 /\ i + 1 \in 1..Len(q)
        BY <1>0, <1>5 DEF WrNumbers
      <4>2. q[i + 1].status \in Rejected
        BY <1>3, <3>1, <4>1
      <4>3. QED
        BY <4>1, <4>2 DEF Failing
    <3>2. ASSUME NEW i \in 1..Len(q), q[i].status \in Rejected
          PROVE  Failing'
      <4>1. i # 1
        BY <1>7, <3>2 DEF Rejected
      <4>2. i - 1 \in 1..Len(q) - 1 /\ (i - 1) + 1 = i /\ i - 1 \in 1..Len(q')
        BY <1>0, <1>5, <4>1 DEF WrNumbers
      <4>3. q'[i - 1].status \in Rejected
        BY <1>3, <3>2, <4>2
      <4>4. QED
        BY <4>2, <4>3 DEF Failing, Rejected
    <3>3. Failing' => \E i \in 1..Len(q') : q'[i].status \in Rejected
      BY DEF Failing, Rejected
    <3>4. Failing => \E i \in 1..Len(q) : q[i].status \in Rejected
      BY DEF Failing
    <3>5. QED
      BY <3>1, <3>2, <3>3, <3>4
  <2>3. Leaving' = Leaving /\ Granted' = Granted
    BY <1>1, <2>1, <2>2 DEF Leaving, Granted
  <2>4. MessageInv'
    <3>1. Pos(Len(sent))' = Pos(Len(sent))
      BY <1>1 DEF Pos
    <3>2. QED
      BY <1>1, <2>1, <2>3, <3>1 DEF IInv, MessageInv
  <2>5. DataQueueInv'
    <3>1. \A i \in 1..Len(q') : DataEntry(i)'
      <4> TAKE i \in 1..Len(q')
      <4>1. /\ i \in 1..Len(q) - 1 /\ i + 1 \in 1..Len(q) /\ i \in Int
        BY <1>0, <1>5 DEF WrNumbers
      <4>2. /\ i <= wr_data_use' <=> i + 1 <= wr_data_use
            /\ i > wr_data_use' <=> i + 1 > wr_data_use
            /\ i = Len(q') <=> i + 1 = Len(q)
            /\ acked + i - wr_data_use' - 1 = acked + (i + 1) - wr_data_use - 1
        <5>1. wr_data_use' = wr_data_use - 1 /\ Len(q') = Len(q) - 1
          BY <1>1, <1>5
        <5>2. QED
          BY <1>0, <4>1, <5>1 DEF WrNumbers
      <4>3. DataEntry(i + 1) /\ q'[i] = q[i + 1]
        BY <1>3, <4>1, DataEntries
      <4>4. /\ Pos(Len(sent))' = Pos(Len(sent))
            /\ Pos(acked + i - wr_data_use - 1)'
                 = Pos(acked + (i + 1) - wr_data_use - 1)
        BY <1>1, <4>2 DEF Pos
      <4>5. QED
        BY <4>2, <4>3, <4>4 DEF DataEntry
    <3>2. wr_data_use' = Len(q') <=> wr_data_use = Len(q)
      <4>1. wr_data_use' = wr_data_use - 1 /\ Len(q') = Len(q) - 1
        BY <1>1, <1>5
      <4>2. QED
        BY <1>0, <4>1 DEF WrNumbers
    <3>3. Len(q') - wr_data_use' = Len(q) - wr_data_use
      <4>1. wr_data_use' = wr_data_use - 1 /\ Len(q') = Len(q) - 1
        BY <1>1, <1>5
      <4>2. QED
        BY <1>0, <4>1 DEF WrNumbers
    <3>4. QED
      BY <1>1, <2>2, <2>3, <3>1, <3>2, <3>3 DEF IInv, DataQueueInv
  <2>6. BuffQueueInv'
    <3>1. WrGranting' = WrGranting
      BY <1>1 DEF WrGranting, Buffers
    <3>2. WrInUse' <= N
      <4>1. Len(wr_buff_q') = Len(wr_buff_q) /\ Len(wr_held') = Len(wr_held)
        BY <1>1, <2>1
      <4>2. Len(wr_buff_q) + Len(wr_held) + (Len(q) - 1) <= N
        BY <1>0, SMTT(30) DEF WrNumbers, WrBounds
      <4>3. QED
        BY <1>5, <4>1, <4>2 DEF WrInUse
    <3>3. wr_buff_acq_idx' = Pos(Granted + WrGranting)'
      BY <1>1, <2>3, <3>1 DEF Pos, IInv, BuffQueueInv
    <3>4. \A i \in 1..Len(wr_held') :
             wr_held'[i] = Pos(Len(sent) + Leaving + i - 1)'
      BY <1>1, <2>1, <2>3, BuffEntries DEF Pos
    <3>5. \A i \in 1..Len(wr_buff_q') : BuffEntry(i)'
      <4> TAKE i \in 1..Len(wr_buff_q')
      <4>1. BuffEntry(i)
        BY <1>1, BuffEntries
      <4>2. Pos(Granted + Buffers(wr_buff_q, i - 1))'
               = Pos(Granted + Buffers(wr_buff_q, i - 1))
        BY <1>1, <2>3 DEF Pos, Buffers
      <4>3. QED
        BY <1>1, <4>1, <4>2 DEF BuffEntry
    <3>6. QED
      BY <1>1, <3>2, <3>3, <3>4, <3>5 DEF BuffQueueInv
  <2>7. WriterTypeOK'
    BY <1>1, <1>3, <1>5, <2>1, WriterTypes DEF WriterTypeOK
  <2>8. QED
    BY <1>4, <2>4, <2>5, <2>6, <2>7, WriterLocalStep
<1>8. CASE /\ q[1].status \in Rejected /\ Len(q) = 1
           /\ q[1].buf = Pos(Len(sent)) /\ q[1].buf \in Slots
  <2>1. /\ Failing /\ wr_data_use = Len(q) /\ Leaving = 1
        /\ Len(sent) = acked
    <3>1. Failing
      BY <1>2, <1>8 DEF Failing
    <3>2. wr_data_use = Len(q)
      BY <1>0, <1>2, <1>8 DEF WrNumbers
    <3>3. QED
      BY <3>1, <3>2 DEF Leaving, IInv, DataQueueInv
  <2>2. Len(q') = 0 /\ wr_data_use' = 0 /\ ~Failing' /\ Leaving' = 0
    <3>1. Len(q') = 0
      BY <1>5, <1>8
    <3>2. wr_data_use' = 0
      <4>1. wr_data_use' = wr_data_use - 1
        BY <1>1
      <4>2. QED
        BY <1>8, <2>1, <4>1
    <3>3. ~Failing'
      BY <3>1 DEF Failing
    <3>4. QED
      BY <1>1, <3>1, <3>2, <3>3 DEF Leaving
  <2>3. /\ wr_held' = <<q[1].buf>> \o wr_held /\ wr_filled' = wr_filled + 1
    <3>1. q[1].buf # NoBuf
      BY <1>8, RingAssumption DEF Slots, NoBuf
    <3>2. QED
      BY <1>3, <3>1 DEF write_data_result
  <2>4. /\ wr_held' \in Seq(Slots) /\ Len(wr_held') = Len(wr_held) + 1
        /\ wr_held'[1] = Pos(Len(sent))
        /\ \A i \in 2..Len(wr_held) + 1 : wr_held'[i] = wr_held[i - 1]
    <3>1. /\ <<q[1].buf>> \in Seq(Slots) /\ wr_held \in Seq(Slots)
          /\ Len(<<q[1].buf>>) = 1
      BY <1>8, WriterTypes
    <3>2. QED
      BY <1>8, <2>3, <3>1, ConcatProperties
  <2>5. Granted' = Granted
    <3>1. Len(wr_held') = Len(wr_held) + 1
      BY <2>4
    <3>2. QED
      BY <1>0, <1>5, <2>1, <2>2, <3>1 DEF Granted, WrNumbers
  <2>6. MessageInv'
    <3>1. last_msg' = Len(sent') + Leaving' + wr_filled'
      <4>1. last_msg = Len(sent) + Leaving + wr_filled
        BY DEF IInv, MessageInv
      <4>2. last_msg' = last_msg
        BY <1>1
      <4>3. QED
        BY <1>0, <1>5, <2>1, <2>2, <2>3, <4>1, <4>2 DEF WrNumbers
    <3>2. ASSUME NEW i \in 1..wr_filled'
          PROVE  mem'[wr_held'[i]] = Len(sent') + Leaving' + i
      <4>1. CASE i = 1
        <5>1. mem[Pos(Len(sent))] = Len(sent) + 1
          BY <2>1 DEF IInv, MessageInv
        <5>2. Len(sent') + Leaving' + i = Len(sent) + 1
          BY <1>0, <1>5, <2>2, <4>1 DEF WrNumbers
        <5>3. QED
          BY <1>1, <2>4, <4>1, <5>1, <5>2
      <4>2. CASE i # 1
        <5>1. /\ i \in 2..Len(wr_held) + 1 /\ i - 1 \in 1..wr_filled
          BY <1>0, <2>3, <4>2 DEF WrNumbers
        <5>2. mem[wr_held[i - 1]] = Len(sent) + Leaving + (i - 1)
          BY <5>1 DEF IInv, MessageInv
        <5>3. Len(sent) + Leaving + (i - 1) = Len(sent') + Leaving' + i
          <6>1. i \in Int
            BY <5>1
          <6>2. QED
            BY <1>0, <1>5, <2>1, <2>2, <6>1 DEF WrNumbers
        <5>4. QED
          BY <1>1, <2>4, <5>1, <5>2, <5>3
      <4>3. QED
        BY <4>1, <4>2
    <3>3. /\ \A i \in 1..Len(sent') : sent'[i] = i
          /\ \A i \in 1..Len(got') : got'[i] = [msg |-> i, len |-> DataLen[i]]
      BY <1>1 DEF IInv, MessageInv
    <3>4. QED
      BY <1>1, <2>2, <3>1, <3>2, <3>3 DEF MessageInv
  <2>7. DataQueueInv'
    <3>1. \A i \in 1..Len(q') : DataEntry(i)'
      BY <2>2
    <3>2. Len(q') - wr_data_use' = Len(sent') - acked' + Leaving'
      <4>1. acked' = acked
        BY <1>1
      <4>2. QED
        BY <1>0, <1>5, <2>1, <2>2, <4>1 DEF WrNumbers
    <3>3. QED
      BY <1>1, <2>2, <3>1, <3>2 DEF DataQueueInv
  <2>8. BuffQueueInv'
    <3>1. WrGranting' = WrGranting
      BY <1>1 DEF WrGranting, Buffers
    <3>2. WrInUse' <= N
      <4>1. Len(wr_buff_q') = Len(wr_buff_q) /\ Len(wr_held') = Len(wr_held) + 1
        BY <1>1, <2>4
      <4>2. Len(wr_buff_q) + (Len(wr_held) + 1) + (Len(q) - 1) <= N
        BY <1>0, SMTT(30) DEF WrNumbers, WrBounds
      <4>3. QED
        BY <1>5, <4>1, <4>2 DEF WrInUse
    <3>3. wr_buff_acq_idx' = Pos(Granted + WrGranting)'
      BY <1>1, <2>5, <3>1 DEF Pos, IInv, BuffQueueInv
    <3>4. ASSUME NEW i \in 1..Len(wr_held')
          PROVE  wr_held'[i] = Pos(Len(sent) + Leaving + i - 1)'
      <4>1. CASE i = 1
        <5>1. Len(sent') + Leaving' + i - 1 = Len(sent)
          BY <1>0, <1>5, <2>2, <4>1 DEF WrNumbers
        <5>2. Pos(Len(sent) + Leaving + i - 1)' = Pos(Len(sent))
          BY <1>1, <5>1 DEF Pos
        <5>3. QED
          BY <2>4, <4>1, <5>2
      <4>2. CASE i # 1
        <5>1. i \in 2..Len(wr_held) + 1 /\ i - 1 \in 1..Len(wr_held)
          <6>1. Len(wr_held') = Len(wr_held) + 1
            BY <2>4
          <6>2. QED
            BY <1>0, <4>2, <6>1 DEF WrNumbers
        <5>2. wr_held[i - 1] = Pos(Len(sent) + Leaving + (i - 1) - 1)
          BY <5>1, BuffEntries
        <5>3. Len(sent) + Leaving + (i - 1) - 1 = Len(sent') + Leaving' + i - 1
          <6>1. i \in Int
            BY <5>1
          <6>2. QED
            BY <1>0, <1>5, <2>1, <2>2, <6>1 DEF WrNumbers
        <5>4. Pos(Len(sent) + Leaving + i - 1)'
                 = Pos(Len(sent) + Leaving + (i - 1) - 1)
          BY <1>1, <5>3 DEF Pos
        <5>5. QED
          BY <2>4, <5>1, <5>2, <5>4
      <4>3. QED
        BY <4>1, <4>2
    <3>5. \A i \in 1..Len(wr_buff_q') : BuffEntry(i)'
      <4> TAKE i \in 1..Len(wr_buff_q')
      <4>1. BuffEntry(i)
        BY <1>1, BuffEntries
      <4>2. Pos(Granted + Buffers(wr_buff_q, i - 1))'
               = Pos(Granted + Buffers(wr_buff_q, i - 1))
        BY <1>1, <2>5 DEF Pos, Buffers
      <4>3. QED
        BY <1>1, <4>1, <4>2 DEF BuffEntry
    <3>6. QED
      BY <1>1, <3>2, <3>3, <3>4, <3>5 DEF BuffQueueInv
  <2>9. WriterTypeOK'
    <3>1. wr_filled' \in 0..Len(wr_held')
      <4>1. Len(wr_held') = Len(wr_held) + 1
        BY <2>4
      <4>2. QED
        BY <1>0, <2>3, <4>1 DEF WrNumbers
    <3>2. QED
      BY <1>1, <1>3, <1>5, <2>4, <3>1, WriterTypes DEF WriterTypeOK
  <2>10. QED
    BY <1>4, <2>6, <2>7, <2>8, <2>9, WriterLocalStep
<1>9. QED
  BY <1>6, <1>7, <1>8

-----------------------------------------------------------------------------
\* The application writes into a slot it holds, which is none of those that
\* contain messages on their way.
LEMMA Step_fill ==
    ASSUME IInv, fill
    PROVE  IInv'
<1>0. WrNumbers /\ WrBounds /\ RdNumbers
  BY WriterNumbers, WriterBounds, ReaderNumbers
<1> DEFINE j == Len(sent) + Leaving + wr_filled
<1>1. /\ wr_pc = "idle" /\ wr_filled < Len(wr_held) /\ last_msg < MaxMsgs
      /\ last_msg' = last_msg + 1 /\ wr_filled' = wr_filled + 1
      /\ mem' = [mem EXCEPT ![wr_held[wr_filled + 1]] = last_msg + 1]
      /\ UNCHANGED <<seq_no, data_size, wr_pc, wr_buff_q, wr_buff_use,
                     wr_data_q, wr_data_use, wr_sync_counter,
                     wr_buff_acq_idx, wr_out_index, wr_rel_index, wr_held,
                     reader, history, sent, got, acked>>
  BY DEF fill, wr_chan, history
<1>2. /\ j \in Int /\ Len(sent) <= j /\ acked <= Len(sent) /\ j < acked + N
      /\ acked \in Int /\ N \in Int /\ Len(sent) \in Int
      /\ j \in acked .. acked + N - 1
  <2>1. wr_filled < Len(wr_held)
    BY <1>1
  <2>2. QED
    BY <1>0, <2>1, SMTT(30) DEF WrNumbers, WrBounds
<1>3. wr_held[wr_filled + 1] = Pos(j) /\ last_msg = j
  <2>1. wr_filled + 1 \in 1..Len(wr_held)
    <3>1. wr_filled < Len(wr_held)
      BY <1>1
    <3>2. QED
      BY <1>0, <3>1 DEF WrNumbers
  <2>2. Len(sent) + Leaving + (wr_filled + 1) - 1 = j
    BY <1>0 DEF WrNumbers
  <2>3. wr_held[wr_filled + 1] = Pos(Len(sent) + Leaving + (wr_filled + 1) - 1)
    BY <2>1, BuffEntries
  <2>4. QED
    BY <2>2, <2>3 DEF IInv, MessageInv
<1>4. Pos(j) \in Slots
  <2>1. j \in acked .. acked + N
    BY <1>2
  <2>2. QED
    BY <2>1, WriterTypes, PosType
<1>5. last_msg' \in 0..MaxMsgs /\ wr_filled' \in 0..Len(wr_held')
  <2>1. /\ wr_filled < Len(wr_held) /\ last_msg < MaxMsgs
        /\ last_msg' = last_msg + 1 /\ wr_filled' = wr_filled + 1
        /\ Len(wr_held') = Len(wr_held)
    BY <1>1
  <2>2. QED
    BY <1>0, <2>1 DEF WrNumbers
<1>6. /\ mem' \in [Slots -> 0..MaxMsgs] /\ mem'[Pos(j)] = j + 1
      /\ \A s \in Slots : s # Pos(j) => mem'[s] = mem[s]
  BY <1>1, <1>3, <1>4, <1>5, WriterTypes
<1> HIDE DEF j
<1>7. ASSUME NEW k \in acked .. acked + N - 1, k # j
      PROVE  mem'[Pos(k)] = mem[Pos(k)]
  <2>1. k \in acked .. acked + N
    BY <1>2
  <2>2. Pos(k) # Pos(j) /\ Pos(k) \in Slots
    BY <1>2, <1>7, <2>1, WriterTypes, PosInjective, PosType
  <2>3. QED
    BY <1>6, <2>2
<1>8. Failing' = Failing /\ Leaving' = Leaving /\ Granted' = Granted
  BY <1>1 DEF Failing, Leaving, Granted
<1>9. /\ \A k \in Int : Pos(k)' = Pos(k)
      /\ Released' = Released /\ Acquired' = Acquired
      /\ Len(sent') = Len(sent)
      /\ UNCHANGED <<rd_sync_counter, rd_acq_index, rd_rel_index, rd_len>>
  BY <1>1, PosStable DEF reader, rd_chan, Released, Acquired
<1>10. Acquired \in Int /\ Released \in Int /\ wr_data_use \in Int
  BY <1>0 DEF RdNumbers, WrNumbers
<1>11. CounterInv'
  BY <1>1, <1>9 DEF IInv, CounterInv
<1>12. IndexInv'
  BY <1>1, <1>2, <1>9, <1>10 DEF IInv, IndexInv
<1>13. SlotInv'
  <2>1. RxdInv' /\ EmptyInv' /\ LengthInv'
    BY <1>1, <1>2, <1>9, <1>10
       DEF IInv, SlotInv, RxdInv, EmptyInv, LengthInv
  <2>2. SentInv'
    <3> SUFFICES ASSUME NEW k \in Released .. Len(sent) - 1
                 PROVE  mem'[Pos(k)] = mem[Pos(k)]
      BY <1>1, <1>2, <1>9, <1>10 DEF IInv, SlotInv, SentInv
    <3>1. acked <= Released
      BY DEF IInv, CounterInv
    <3>2. k \in acked .. acked + N - 1 /\ k # j
      BY <1>2, <1>10, <3>1
    <3>3. QED
      BY <1>7, <3>2
  <2>3. QED
    BY <2>1, <2>2 DEF SlotInv
<1>14. MessageInv'
  <2>1. last_msg' = Len(sent') + Leaving' + wr_filled'
    <3>1. last_msg = Len(sent) + Leaving + wr_filled
      BY DEF IInv, MessageInv
    <3>2. last_msg' = last_msg + 1 /\ wr_filled' = wr_filled + 1
      BY <1>1
    <3>3. QED
      BY <1>0, <1>8, <1>9, <3>1, <3>2 DEF WrNumbers
  <2>2. ASSUME NEW i \in 1..wr_filled'
        PROVE  mem'[wr_held'[i]] = Len(sent') + Leaving' + i
    <3>1. CASE i = wr_filled + 1
      <4>1. j + 1 = Len(sent') + Leaving' + i
        BY <1>0, <1>8, <1>9, <3>1 DEF WrNumbers, j
      <4>2. QED
        BY <1>1, <1>3, <1>6, <3>1, <4>1
    <3>2. CASE i # wr_filled + 1
      <4>1. /\ i \in 1..wr_filled /\ i \in 1..Len(wr_held) /\ i \in Int
        <5>1. wr_filled' = wr_filled + 1
          BY <1>1
        <5>2. QED
          BY <1>0, <3>2, <5>1 DEF WrNumbers
      <4>2. wr_held[i] = Pos(Len(sent) + Leaving + i - 1)
        BY <4>1, BuffEntries
      <4>3. mem[wr_held[i]] = Len(sent) + Leaving + i
        BY <4>1 DEF IInv, MessageInv
      <4>4. /\ Len(sent) + Leaving + i - 1 \in acked .. acked + N - 1
            /\ Len(sent) + Leaving + i - 1 # j
        BY <1>0, <1>2, <4>1 DEF WrNumbers, j
      <4>5. QED
        BY <1>1, <1>7, <1>8, <1>9, <4>2, <4>3, <4>4
    <3>3. QED
      BY <3>1, <3>2
  <2>3. Leaving' = 1 => mem'[Pos(Len(sent))'] = Len(sent') + 1
    <3>1. SUFFICES ASSUME Leaving = 1
                   PROVE  mem'[Pos(Len(sent))] = Len(sent) + 1
      BY <1>1, <1>8, <1>9 DEF Pos
    <3>2. Len(sent) \in acked .. acked + N - 1 /\ Len(sent) # j
      BY <1>0, <1>2, <3>1 DEF WrNumbers, j
    <3>3. QED
      BY <1>7, <3>1, <3>2 DEF IInv, MessageInv
  <2>4. /\ \A i \in 1..Len(sent') : sent'[i] = i
        /\ \A i \in 1..Len(got') : got'[i] = [msg |-> i, len |-> DataLen[i]]
    BY <1>1 DEF IInv, MessageInv
  <2>5. wr_pc' # "publish"
    BY <1>1
  <2>6. QED
    BY <2>1, <2>2, <2>3, <2>4, <2>5 DEF MessageInv
<1>15. DataQueueInv'
  <2>1. \A i \in 1..Len(wr_data_q) : DataEntry(i)'
    BY <1>1, <1>2, <1>9, <1>10, DataEntries DEF DataEntry
  <2>2. QED
    BY <1>1, <1>8, <1>9, <2>1 DEF IInv, DataQueueInv
<1>16. BuffQueueInv'
  <2>1. WrGranting' = WrGranting /\ WrInUse' = WrInUse
    BY <1>1 DEF WrGranting, Buffers, WrInUse
  <2>2. wr_buff_acq_idx' = Pos(Granted + WrGranting)'
    BY <1>1, <1>8, <2>1 DEF Pos, IInv, BuffQueueInv
  <2>3. \A i \in 1..Len(wr_held') :
           wr_held'[i] = Pos(Len(sent) + Leaving + i - 1)'
    BY <1>1, <1>8, BuffEntries DEF Pos
  <2>4. \A i \in 1..Len(wr_buff_q') : BuffEntry(i)'
    <3> TAKE i \in 1..Len(wr_buff_q')
    <3>1. BuffEntry(i)
      BY <1>1, BuffEntries
    <3>2. Pos(Granted + Buffers(wr_buff_q, i - 1))'
             = Pos(Granted + Buffers(wr_buff_q, i - 1))
      BY <1>1, <1>8 DEF Pos, Buffers
    <3>3. QED
      BY <1>1, <3>1, <3>2 DEF BuffEntry
  <2>5. QED
    BY <1>1, <2>1, <2>2, <2>3, <2>4 DEF IInv, BuffQueueInv
<1>17. ReadQueueInv'
  <2>1. Len(sent) <= Len(sent)' /\ Len(sent)' \in Nat
    BY <1>0, <1>9 DEF WrNumbers
  <2>2. QED
    BY <1>1, <2>1, KeepReadQueue
<1>18. TypeOK'
  <2>1. SharedTypeOK'
    BY <1>1, <1>6, WriterTypes DEF SharedTypeOK
  <2>2. WriterTypeOK'
    BY <1>1, <1>5, WriterTypes DEF WriterTypeOK
  <2>3. QED
    BY <1>1, <2>1, <2>2, KeepTypes DEF TypeOK
<1>19. QED
  BY <1>11, <1>12, <1>13, <1>14, <1>15, <1>16, <1>17, <1>18 DEF IInv

\* The writer's half of the inductive step.
LEMMA WriterStep ==
    ASSUME Disciplined, IInv, Writer
    PROVE  IInv'
BY Step_write_buffer_request, Step_write_buffer_ready,
   Step_write_buffer_result, Step_fill, Step_write_buffer_release,
   Step_write_buffer_release_seq, Step_write_data_request_full,
   Step_write_data_request_bad, Step_write_data_request_exit,
   Step_write_data_request_long, Step_write_data_request,
   Step_write_data_publish, Step_write_data_ready, Step_write_data_release,
   Step_write_data_free, Step_write_data_result
   DEF Writer
=============================================================================
