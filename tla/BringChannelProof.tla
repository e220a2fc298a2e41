-------------------------- MODULE BringChannelProof --------------------------
(***************************************************************************)
(* What holds of the ring of a bring channel for every number of slots,    *)
(* every number of messages and every length, when both applications are   *)
(* disciplined: the inductive invariant, the properties the runs check on  *)
(* small instances, and the implementation of the abstract channel.        *)
(***************************************************************************)
EXTENDS BringSteps

\* Two empty queues, an empty ring, all indices at the first slot.
LEMMA InitIInv ==
    ASSUME Init
    PROVE  IInv
<1>1. /\ 0 \in Slots /\ N \in Nat /\ N > 0 /\ MaxMsgs \in Nat /\ MaxLen \in Nat
  BY RingAssumption DEF Slots
<1>2. /\ Len(<<>>) = 0 /\ \A S : <<>> \in Seq(S)
  OBVIOUS
<1>3. TypeOK
  <2>1. SharedTypeOK
    BY <1>1 DEF Init, SharedTypeOK, BRING_SYNC_BUFF_EMPTY
  <2>2. WriterTypeOK
    BY <1>1, <1>2 DEF Init, WriterTypeOK, BRING_SYNC_START
  <2>3. ReaderTypeOK
    BY <1>1, <1>2 DEF Init, ReaderTypeOK, BRING_SYNC_START
  <2>4. HistoryTypeOK
    BY <1>1, <1>2 DEF Init, HistoryTypeOK
  <2>5. QED
    BY <2>1, <2>2, <2>3, <2>4 DEF TypeOK
<1>4. /\ Len(sent) = 0 /\ Len(got) = 0 /\ acked = 0 /\ wr_rel_index = 0
      /\ Len(wr_held) = 0 /\ Len(wr_buff_q) = 0 /\ Len(wr_data_q) = 0
      /\ Len(rd_held) = 0 /\ Len(rd_buff_q) = 0 /\ Len(rd_data_q) = 0
      /\ Len(rd_readable) = 0 /\ wr_filled = 0 /\ last_msg = 0
      /\ wr_data_use = 0 /\ rd_buff_use = 0
      /\ wr_pc = "idle" /\ rd_pc = "idle"
  BY <1>2 DEF Init
<1>5. /\ ~Failing /\ Leaving = 0 /\ Granted = 0
  BY <1>4 DEF Failing, Leaving, Granted
<1>6. Acquired = 0 /\ Released = 0
  BY <1>4 DEF Init, Acquired, Released, BRING_SYNC_START
<1>7. /\ WrGranting = 0 /\ RdTaken = 0 /\ RdChecking = 0
  BY <1>4, BuffersNone DEF WrGranting, RdTaken, RdChecking
<1>8. RdHolding = 0
  BY <1>4, <1>7 DEF RdHolding
<1>9. Pos(0) = 0
  BY <1>1, <1>4 DEF Pos
<1>10. CounterInv
  BY <1>1, <1>4, <1>6 DEF Init, CounterInv, BRING_SYNC_START
<1>11. IndexInv
  BY <1>4, <1>6, <1>9 DEF Init, IndexInv
<1>12. SlotInv
  <2>1. RxdInv /\ SentInv /\ LengthInv
    BY <1>4, <1>6 DEF RxdInv, SentInv, LengthInv
  <2>2. EmptyInv
    <3> SUFFICES ASSUME NEW k \in 0 .. N - 1
                 PROVE  seq_no[Pos(k)] = BRING_SYNC_BUFF_EMPTY
      BY <1>1, <1>4 DEF EmptyInv
    <3>1. Pos(k) \in Slots
      BY <1>1, <1>4 DEF Pos, Slots
    <3>2. QED
      BY <3>1 DEF Init
  <2>3. QED
    BY <2>1, <2>2 DEF SlotInv
<1>13. MessageInv
  BY <1>4, <1>5 DEF MessageInv
<1>14. DataQueueInv
  BY <1>4, <1>5 DEF DataQueueInv
<1>15. BuffQueueInv
  <2>1. wr_buff_acq_idx = Pos(Granted + WrGranting)
    BY <1>5, <1>7, <1>9 DEF Init
  <2>2. WrInUse <= N
    BY <1>1, <1>4 DEF WrInUse
  <2>3. QED
    BY <1>4, <2>1, <2>2 DEF BuffQueueInv
<1>16. ReadQueueInv
  <2>1. RdInUse <= N
    BY <1>1, <1>4 DEF RdInUse
  <2>2. QED
    BY <1>4, <1>6, <1>7, <1>8, <2>1 DEF ReadQueueInv
<1>17. QED
  BY <1>3, <1>10, <1>11, <1>12, <1>13, <1>14, <1>15, <1>16 DEF IInv

\* A step in which nothing happens changes nothing.
LEMMA StutterIInv ==
    ASSUME IInv, UNCHANGED vars
    PROVE  IInv'
<1>1. UNCHANGED <<shared, reader, writer, history, mem, sent, got, acked,
                  data_size, wr_rel_index, wr_sync_counter, wr_out_index>>
  BY DEF vars, shared, history, writer, wr_chan
<1>2. WriterLocal
  BY <1>1 DEF WriterLocal
<1>3. WriterTypeOK'
  BY <1>1, KeepTypes
<1>4. MessageInv'
  <2>1. \A i \in 1..Len(got') : got'[i] = [msg |-> i, len |-> DataLen[i]]
    BY <1>1 DEF IInv, MessageInv
  <2>2. QED
    BY <1>1, <2>1, KeepMessages
<1>5. DataQueueInv' /\ BuffQueueInv'
  <2>1. Released' = Released /\ Released \in Int
    BY <1>1, ReaderTypes DEF reader, rd_chan, Released
  <2>2. Released <= Released' /\ Released' \in Int
    BY <2>1
  <2>3. QED
    BY <1>1, <2>2, KeepWriter
<1>6. QED
  BY <1>2, <1>3, <1>4, <1>5, WriterLocalStep

\* The invariant is inductive.
LEMMA NextIInv ==
    ASSUME Disciplined, IInv, [Next]_vars
    PROVE  IInv'
BY WriterStep, ReaderStep, StutterIInv DEF Next

\* Every reachable state satisfies the invariant: the counters are ordered,
\* and every header, buffer and index is where the counters say.
THEOREM RingInvariant ==
    ASSUME Disciplined
    PROVE  Spec => []IInv
<1>1. Init => IInv
  BY InitIInv
<1>2. IInv /\ [Next]_vars => IInv'
  BY NextIInv
<1>3. QED
  BY <1>1, <1>2, PTL DEF Spec

\* No index leaves the ring, no queue outgrows it (every index and *_use
\* counter of bring_channel.c).
THEOREM TypesCorrect ==
    ASSUME Disciplined
    PROVE  Spec => []TypeOK
<1>1. IInv => TypeOK
  BY DEF IInv
<1>2. QED
  BY <1>1, RingInvariant, PTL

\* The reading application consumes what was sent, each message once, in
\* order, with its own contents and its own length.
THEOREM DeliveryInOrder ==
    ASSUME Disciplined
    PROVE  Spec => []InOrderDelivery
<1>1. ASSUME IInv PROVE InOrderDelivery
  <2>1. Len(got) <= Len(sent)
    <3>0. WrNumbers /\ RdNumbers
      BY <1>1, WriterNumbers, ReaderNumbers
    <3>1. Acquired = Len(got) + RdHolding + RdTaken /\ Acquired <= Len(sent)
      BY <1>1 DEF IInv, ReadQueueInv, CounterInv
    <3>2. QED
      BY <3>0, <3>1, SMTT(30) DEF WrNumbers, RdNumbers
  <2>2. ASSUME NEW i \in 1..Len(got)
        PROVE  got[i] = [msg |-> sent[i], len |-> DataLen[sent[i]]]
    <3>1. i \in 1..Len(sent)
      BY <1>1, <2>1, WriterTypes, ReaderTypes
    <3>2. sent[i] = i /\ got[i] = [msg |-> i, len |-> DataLen[i]]
      BY <1>1, <3>1 DEF IInv, MessageInv
    <3>3. QED
      BY <3>2
  <2>3. QED
    BY <2>1, <2>2 DEF InOrderDelivery
<1>2. QED
  BY <1>1, RingInvariant, PTL

\* A write that completed was consumed, and no more than N are under way:
\* the writer never overwrites a slot the reader has not finished with.
THEOREM CompletionMeansConsumed ==
    ASSUME Disciplined
    PROVE  Spec => []CompletedWasConsumed
<1>1. ASSUME IInv PROVE CompletedWasConsumed
  <2>0. WrNumbers /\ RdNumbers
    BY <1>1, WriterNumbers, ReaderNumbers
  <2>1. Released <= Len(got)
    BY <2>0 DEF RdNumbers, Released
  <2>2. acked <= Released /\ Len(sent) <= acked + N
    BY <1>1 DEF IInv, CounterInv
  <2>3. QED
    BY <2>0, <2>1, <2>2 DEF CompletedWasConsumed, WrNumbers, RdNumbers
<1>2. QED
  BY <1>1, RingInvariant, PTL

\* The synchronization error of read_buffer_ready cannot happen.
THEOREM SequenceNumbersMatch ==
    ASSUME Disciplined
    PROVE  Spec => []NoRingSyncError
<1>1. IInv => NoRingSyncError
  BY DEF IInv, ReadQueueInv, NoRingSyncError
<1>2. QED
  BY <1>1, RingInvariant, PTL

\* Nor can exit(1) in write_data_request.
THEOREM WriterNeverExits ==
    ASSUME Disciplined
    PROVE  Spec => []NoExit
<1>1. IInv => NoExit
  BY DEF IInv, BuffQueueInv, NoExit
<1>2. QED
  BY <1>1, RingInvariant, PTL

\* Every message the application hands over is in the channel's queue after
\* the call: write_data_request never finds the queue full.
THEOREM NothingDropped ==
    ASSUME Disciplined
    PROVE  Spec => AcceptedIsQueued
<1> DEFINE Kept == Len(wr_held') < Len(wr_held)
                     => Len(wr_data_q') > Len(wr_data_q)
<1>1. ASSUME IInv, [Next]_vars PROVE Kept
  <2>0. WrNumbers
    BY <1>1, WriterNumbers
  <2>1. CASE UNCHANGED wr_held
    BY <2>0, <2>1 DEF WrNumbers
  <2>2. ASSUME NEW m, wr_data_q' = Append(wr_data_q, m), m \in Msg
        PROVE  Kept
    <3>1. Len(wr_data_q') = Len(wr_data_q) + 1
      BY <1>1, <2>2, WriterTypes, QueuePush
    <3>2. QED
      BY <2>0, <3>1 DEF WrNumbers
  <2>3. ASSUME SubmitHead PROVE Pos(Len(sent)) \in Slots /\ Head(wr_held) \in Slots
    BY <1>1, <2>3, SubmitFacts
  <2>4. CASE write_data_request_full
    <3>1. Len(wr_data_q) < N /\ ~(Len(wr_data_q) < N)
      <4>1. Len(wr_data_q) < N
        BY <1>1, <2>4, SubmitFacts DEF write_data_request_full, Submitting
      <4>2. Len(wr_data_q) >= N
        BY <2>4 DEF write_data_request_full, QueueFull
      <4>3. QED
        BY <2>0, <4>1, <4>2 DEF WrNumbers
    <3>2. QED
      BY <3>1
  <2>5. CASE write_data_request_bad
    <3>1. Response(Head(wr_held), "EINVALID") \in Msg
      BY <2>3, <2>5, Messages DEF write_data_request_bad, Status
    <3>2. QED
      BY <2>2, <2>5, <3>1 DEF write_data_request_bad
  <2>6. CASE write_data_request_long
    <3>1. Response(Head(wr_held), "ETOOMANY") \in Msg
      BY <2>3, <2>6, Messages DEF write_data_request_long, Status
    <3>2. QED
      BY <2>2, <2>6, <3>1 DEF write_data_request_long
  <2>7. CASE write_data_request_exit
    <3>1. Response(Head(wr_held), "EWRONGBUFF") \in Msg
      BY <2>3, <2>7, Messages DEF write_data_request_exit, Status
    <3>2. QED
      BY <2>2, <2>7, <3>1 DEF write_data_request_exit
  <2>8. CASE write_data_request
    <3>1. Response(wr_out_index, "ENOERROR") \in Msg
      BY <1>1, WriterTypes, Messages DEF Status
    <3>2. QED
      BY <2>2, <2>8, <3>1 DEF write_data_request
  <2>9. CASE write_buffer_release
    BY <2>9 DEF write_buffer_release, Disciplined
  <2>10. ASSUME NEW b, wr_held' = Append(wr_held, b) \/ wr_held' = <<b>> \o wr_held
         PROVE  Kept
    <3>1. wr_held \in Seq(Slots)
      BY <1>1, WriterTypes
    <3>2. Len(wr_held') = Len(wr_held) + 1
      BY <2>10, <3>1
    <3>3. QED
      BY <2>0, <3>2 DEF WrNumbers
  <2>11. CASE write_buffer_result
    BY <2>1, <2>10, <2>11 DEF write_buffer_result
  <2>12. CASE write_data_result
    BY <2>1, <2>10, <2>12 DEF write_data_result
  <2>13. CASE Reader
    <3>1. UNCHANGED writer
      BY <2>13 DEF Reader, read_buffer_request, read_buffer_ready,
         read_buffer_size, read_buffer_result, read_data_request,
         read_data_request_bad, PushReadData, read_data_ready,
         read_data_result, read_buffer_release, read_buffer_release_seq
    <3>2. QED
      BY <2>1, <3>1 DEF writer, wr_app
  <2>14. CASE \/ write_buffer_request \/ write_buffer_ready \/ fill
              \/ write_buffer_release_seq \/ write_data_publish
              \/ write_data_ready \/ write_data_release \/ write_data_free
              \/ UNCHANGED vars
    <3>1. UNCHANGED wr_held
      BY <2>14 DEF write_buffer_request, write_buffer_ready, fill,
         write_buffer_release_seq, write_data_publish, write_data_ready,
         write_data_release, write_data_free, vars, writer, wr_app
    <3>2. QED
      BY <2>1, <3>1
  <2>15. QED
    BY <1>1, <2>4, <2>5, <2>6, <2>7, <2>8, <2>9, <2>11, <2>12, <2>13, <2>14
       DEF Next, Writer
<1>2. IInv /\ [Next]_vars => [Kept]_vars
  BY <1>1
<1>3. Spec => [][Kept]_vars
  BY <1>2, RingInvariant, PTL DEF Spec
<1>4. QED
  BY <1>3 DEF AcceptedIsQueued

-----------------------------------------------------------------------------
(***************************************************************************)
(* The steps that publish, consume and complete a message.                 *)
(***************************************************************************)

\* What is published is the next message, into a free slot of the window.
LEMMA PublishFacts ==
    ASSUME IInv, wr_pc = "publish"
    PROVE  /\ mem[wr_out_index] = Len(sent) + 1
           /\ Len(sent) < MaxMsgs /\ Len(sent) - acked < N
           /\ seq_no[wr_out_index] = BRING_SYNC_BUFF_EMPTY
<1>0. WrNumbers /\ WrBounds
  BY WriterNumbers, WriterBounds
<1>1. ~Failing /\ Leaving = 1
  BY DEF IInv, DataQueueInv, Leaving
<1>2. wr_out_index = Pos(Len(sent))
  BY DEF IInv, IndexInv
<1>3. Len(wr_data_q) - wr_data_use = Len(sent) - acked + Leaving
  BY <1>1 DEF IInv, DataQueueInv
<1>4. Len(sent) - acked < N /\ Len(sent) \in Len(sent) .. acked + N - 1
  BY <1>0, <1>1, <1>3 DEF WrNumbers
<1>5. last_msg = Len(sent) + Leaving + wr_filled
  BY DEF IInv, MessageInv
<1>6. Len(sent) < MaxMsgs
  BY <1>0, <1>1, <1>5 DEF WrNumbers
<1>7. mem[wr_out_index] = Len(sent) + 1
  BY <1>1, <1>2 DEF IInv, MessageInv
<1>8. seq_no[wr_out_index] = BRING_SYNC_BUFF_EMPTY
  BY <1>2, <1>4 DEF IInv, SlotInv, EmptyInv
<1>9. QED
  BY <1>4, <1>6, <1>7, <1>8

\* What is consumed is the oldest message that was not.
LEMMA ConsumeFacts ==
    ASSUME IInv, rd_pc = "idle", rd_readable # <<>>
    PROVE  /\ Len(got) < Len(sent)
           /\ mem[rd_rel_index] = Len(got) + 1
           /\ rd_len[rd_rel_index] = DataLen[Len(got) + 1]
<1>0. RdNumbers /\ WrNumbers
  BY ReaderNumbers, WriterNumbers
<1>1. Len(rd_readable) > 0
  BY ReaderTypes, HeadTailProperties
<1>2. Released = Len(got) /\ rd_rel_index = Pos(Released)
  BY DEF Released, IInv, IndexInv
<1>3. Acquired = Len(got) + RdHolding + RdTaken /\ Acquired <= Len(sent)
  BY DEF IInv, ReadQueueInv, CounterInv
<1>4. Len(got) < Acquired
  BY <1>0, <1>1, <1>3 DEF RdNumbers, RdHolding
<1>5. /\ Released \in Released .. Acquired - 1
      /\ Released \in Released .. Len(sent) - 1
  <2>1. Released = Len(got)
    BY <1>2
  <2>2. QED
    BY <1>0, <1>3, <1>4, <2>1, SMTT(30) DEF RdNumbers, WrNumbers
<1>6. mem[rd_rel_index] = Released + 1
  BY <1>2, <1>5 DEF IInv, SlotInv, SentInv
<1>7. rd_len[rd_rel_index] = DataLen[Released + 1]
  BY <1>2, <1>5 DEF IInv, SlotInv, LengthInv
<1>8. Len(got) < Len(sent)
  BY <1>0, <1>3, <1>4 DEF RdNumbers, WrNumbers
<1>9. QED
  BY <1>2, <1>6, <1>7, <1>8

\* The slot the reader hands back contains a sequence number.
LEMMA HandBackFacts ==
    ASSUME IInv, rd_pc = "release"
    PROVE  seq_no[rd_rel_index] >= BRING_SYNC_START
<1>0. RdNumbers /\ WrNumbers
  BY ReaderNumbers, WriterNumbers
<1>1. /\ Released = Len(got) - 1 /\ rd_rel_index = Pos(Released)
      /\ Len(got) > 0
  BY DEF Released, IInv, IndexInv, ReadQueueInv
<1>2. Acquired = Len(got) + RdHolding + RdTaken /\ Acquired <= Len(sent)
  BY DEF IInv, ReadQueueInv, CounterInv
<1>3. Released \in Released .. Len(sent) - 1 /\ Released >= 0
  <2>1. Released = Len(got) - 1 /\ Len(got) > 0
    BY <1>1
  <2>2. Released + 1 <= Acquired
    BY <1>0, <1>2, <2>1 DEF RdNumbers
  <2>3. Released + 1 <= Len(sent)
    BY <1>0, <1>2, <2>2 DEF RdNumbers, WrNumbers
  <2>4. Released >= 0
    BY <1>0, <2>1 DEF RdNumbers
  <2>5. QED
    BY <1>0, <2>3, <2>4 DEF RdNumbers, WrNumbers
<1>4. seq_no[rd_rel_index] = Released + BRING_SYNC_START
  BY <1>1, <1>3 DEF IInv, SlotInv, SentInv
<1>5. QED
  BY <1>3, <1>4 DEF BRING_SYNC_START

\* A completed write is one the reader has consumed; its slot is marked RXD.
LEMMA CompleteFacts ==
    ASSUME IInv, wr_pc = "free"
    PROVE  /\ acked < Len(got)
           /\ seq_no[wr_rel_index] = BRING_SYNC_BUFF_RXD
<1>0. RdNumbers /\ WrNumbers
  BY ReaderNumbers, WriterNumbers
<1>1. acked < Released /\ Pos(acked) = wr_rel_index
  BY WriterTypes, PosType DEF IInv, DataQueueInv
<1>2. acked \in acked .. Released - 1
  BY <1>0, <1>1 DEF RdNumbers, WrNumbers
<1>3. seq_no[wr_rel_index] = BRING_SYNC_BUFF_RXD
  BY <1>1, <1>2 DEF IInv, SlotInv, RxdInv
<1>4. Released <= Len(got)
  BY <1>0 DEF RdNumbers, Released
<1>5. acked < Len(got)
  BY <1>0, <1>1, <1>4 DEF RdNumbers, WrNumbers
<1>6. QED
  BY <1>3, <1>5

\* A slot's header goes from EMPTY to a sequence number, from there to RXD
\* and back to EMPTY, and no step of either process takes another way.
THEOREM HeaderCycle ==
    ASSUME Disciplined
    PROVE  Spec => SlotCycle
<1> DEFINE Turn(s) ==
        seq_no'[s] # seq_no[s] =>
            \/ seq_no[s] = BRING_SYNC_BUFF_EMPTY /\ seq_no'[s] = wr_sync_counter
            \/ seq_no[s] >= BRING_SYNC_START /\ seq_no'[s] = BRING_SYNC_BUFF_RXD
            \/ /\ seq_no[s] = BRING_SYNC_BUFF_RXD
               /\ seq_no'[s] = BRING_SYNC_BUFF_EMPTY
<1>1. ASSUME IInv, [Next]_vars PROVE \A s \in Slots : Turn(s)
  <2>1. CASE UNCHANGED seq_no
    BY <2>1
  <2>2. seq_no \in [Slots -> Nat]
    BY <1>1, WriterTypes
  <2>3. CASE write_data_publish
    <3>1. /\ seq_no' = [seq_no EXCEPT ![wr_out_index] = wr_sync_counter]
          /\ seq_no[wr_out_index] = BRING_SYNC_BUFF_EMPTY
      BY <1>1, <2>3, PublishFacts DEF write_data_publish
    <3>2. QED
      BY <2>2, <3>1
  <2>4. CASE write_data_free
    <3>1. /\ seq_no' = [seq_no EXCEPT ![wr_rel_index] = BRING_SYNC_BUFF_EMPTY]
          /\ seq_no[wr_rel_index] = BRING_SYNC_BUFF_RXD
      BY <1>1, <2>4, CompleteFacts DEF write_data_free
    <3>2. QED
      BY <2>2, <3>1
  <2>5. CASE read_buffer_release_seq
    <3>1. /\ seq_no' = [seq_no EXCEPT ![rd_rel_index] = BRING_SYNC_BUFF_RXD]
          /\ seq_no[rd_rel_index] >= BRING_SYNC_START
      BY <1>1, <2>5, HandBackFacts DEF read_buffer_release_seq
    <3>2. QED
      BY <2>2, <3>1
  <2>6. CASE write_buffer_release_seq
    BY <1>1, <2>6 DEF write_buffer_release_seq, IInv, BuffQueueInv
  <2>7. CASE \/ write_buffer_request \/ write_buffer_ready
             \/ write_buffer_result \/ fill \/ write_buffer_release
             \/ write_data_request_full \/ write_data_request_bad
             \/ write_data_request_exit \/ write_data_request_long
             \/ write_data_request \/ write_data_ready \/ write_data_release
             \/ write_data_result
    <3>1. UNCHANGED seq_no
      BY <2>7 DEF write_buffer_request, write_buffer_ready,
         write_buffer_result, fill, write_buffer_release,
         write_data_request_full, write_data_request_bad,
         write_data_request_exit, write_data_request_long,
         write_data_request, write_data_ready, write_data_release,
         write_data_result, shared
    <3>2. QED
      BY <2>1, <3>1
  <2>8. CASE \/ read_buffer_request \/ read_buffer_ready \/ read_buffer_size
             \/ read_buffer_result \/ read_data_request
             \/ read_data_request_bad \/ read_data_ready
             \/ read_data_result \/ read_buffer_release \/ UNCHANGED vars
    <3>1. UNCHANGED seq_no
      BY <2>8 DEF read_buffer_request, read_buffer_ready, read_buffer_size,
         read_buffer_result, read_data_request, read_data_request_bad,
         PushReadData, read_data_ready, read_data_result,
         read_buffer_release, vars, shared
    <3>2. QED
      BY <2>1, <3>1
  <2>9. QED
    BY <1>1, <2>3, <2>4, <2>5, <2>6, <2>7, <2>8 DEF Next, Writer, Reader
<1>2. IInv /\ [Next]_vars => [\A s \in Slots : Turn(s)]_vars
  BY <1>1
<1>3. Spec => [][\A s \in Slots : Turn(s)]_vars
  BY <1>2, RingInvariant, PTL DEF Spec
<1>4. QED
  BY <1>3 DEF SlotCycle

-----------------------------------------------------------------------------
\* Slots, headers, queues and indices implement the abstract channel: every
\* step publishes, consumes or completes the next message, or none.
THEOREM Implementation ==
    ASSUME Disciplined
    PROVE  Spec => FifoSafety
<1>1. Init => Fifo!FifoInit
  BY DEF Init, Fifo!FifoInit
<1>2. ASSUME IInv, [Next]_vars PROVE [Fifo!FifoNext]_(Fifo!fifoVars)
  <2>0. WrNumbers
    BY <1>1, <1>2, WriterNumbers
  <2>1. CASE UNCHANGED <<sent, got, acked>>
    BY <2>1 DEF Fifo!fifoVars
  <2>2. CASE write_data_publish
    <3>1. /\ sent' = Append(sent, mem[wr_out_index])
          /\ UNCHANGED <<got, acked>> /\ wr_pc = "publish"
      BY <2>2 DEF write_data_publish
    <3>2. Fifo!Send
      BY <1>2, <3>1, PublishFacts DEF Fifo!Send
    <3>3. QED
      BY <3>2 DEF Fifo!FifoNext
  <2>3. CASE read_buffer_release
    <3>1. /\ got' = Append(got, [msg |-> mem[rd_rel_index],
                                 len |-> rd_len[rd_rel_index]])
          /\ UNCHANGED <<sent, acked>> /\ rd_pc = "idle"
          /\ rd_readable # <<>>
      BY <2>3 DEF read_buffer_release
    <3>2. /\ Len(got) < Len(sent)
          /\ mem[rd_rel_index] = Len(got) + 1
          /\ rd_len[rd_rel_index] = DataLen[Len(got) + 1]
      BY <1>2, <3>1, ConsumeFacts
    <3>3. sent[Len(got) + 1] = Len(got) + 1
      <4>1. Len(got) + 1 \in 1..Len(sent)
        <5>1. Len(got) < Len(sent) /\ RdNumbers
          BY <1>2, <3>2, ReaderNumbers
        <5>2. QED
          BY <2>0, <5>1, SMTT(30) DEF WrNumbers, RdNumbers
      <4>2. QED
        BY <1>2, <4>1 DEF IInv, MessageInv
    <3>4. Fifo!Receive
      BY <3>1, <3>2, <3>3 DEF Fifo!Receive
    <3>5. QED
      BY <3>4 DEF Fifo!FifoNext
  <2>4. CASE write_data_free
    <3>1. /\ acked' = acked + 1 /\ UNCHANGED <<sent, got>> /\ wr_pc = "free"
      BY <2>4 DEF write_data_free
    <3>2. Fifo!Acknowledge
      BY <1>2, <3>1, CompleteFacts DEF Fifo!Acknowledge
    <3>3. QED
      BY <3>2 DEF Fifo!FifoNext
  <2>5. CASE \/ write_buffer_request \/ write_buffer_ready
             \/ write_buffer_result \/ fill \/ write_buffer_release
             \/ write_buffer_release_seq
             \/ write_data_request_full \/ write_data_request_bad
             \/ write_data_request_exit \/ write_data_request_long
             \/ write_data_request \/ write_data_ready \/ write_data_release
             \/ write_data_result
    <3>1. UNCHANGED <<sent, got, acked>>
      BY <2>5 DEF write_buffer_request, write_buffer_ready,
         write_buffer_result, fill, write_buffer_release,
         write_buffer_release_seq,
         write_data_request_full, write_data_request_bad,
         write_data_request_exit, write_data_request_long,
         write_data_request, write_data_ready, write_data_release,
         write_data_result, history
    <3>2. QED
      BY <2>1, <3>1
  <2>6. CASE \/ read_buffer_request \/ read_buffer_ready \/ read_buffer_size
             \/ read_buffer_result \/ read_data_request
             \/ read_data_request_bad \/ read_data_ready
             \/ read_data_result \/ read_buffer_release_seq
             \/ UNCHANGED vars
    <3>1. UNCHANGED <<sent, got, acked>>
      BY <2>6 DEF read_buffer_request, read_buffer_ready, read_buffer_size,
         read_buffer_result, read_data_request, read_data_request_bad,
         PushReadData, read_data_ready, read_data_result,
         read_buffer_release_seq, vars, history
    <3>2. QED
      BY <2>1, <3>1
  <2>7. QED
    BY <1>2, <2>2, <2>3, <2>4, <2>5, <2>6 DEF Next, Writer, Reader
<1>3. Spec => Fifo!FifoSpec
  BY <1>1, <1>2, RingInvariant, PTL DEF Spec, Fifo!FifoSpec
<1>4. QED
  BY <1>3 DEF FifoSafety

-----------------------------------------------------------------------------
\* An entry with a buffer raises the count of all longer prefixes.
LEMMA BuffersGrow ==
    ASSUME NEW q, NEW i \in Nat, NEW j \in Nat, 1 <= i, i < j,
           q[i].buf # NoBuf
    PROVE  Buffers(q, i - 1) < Buffers(q, j - 1)
<1>1. i - 1 \in Nat /\ j - 1 \in Nat /\ (i - 1) + 1 = i /\ i <= j - 1
  OBVIOUS
<1>2. Buffers(q, i) = Buffers(q, i - 1) + 1
  BY <1>1, BuffersNext
<1>3. /\ IsFiniteSet(WithBuffer(q, j - 1))
      /\ Buffers(q, j - 1) = Cardinality(WithBuffer(q, j - 1))
      /\ Buffers(q, j - 1) \in Int
      /\ Buffers(q, i) = Cardinality(WithBuffer(q, i))
      /\ Buffers(q, i) \in Int /\ Buffers(q, i - 1) \in Int
  BY <1>1, BuffersType
<1>4. WithBuffer(q, i) \in SUBSET WithBuffer(q, j - 1)
  BY <1>1 DEF WithBuffer
<1>5. Buffers(q, i) <= Buffers(q, j - 1)
  BY <1>3, <1>4, FS_Subset
<1>6. QED
  BY <1>2, <1>3, <1>5

\* Buffers the writing application holds or is about to get are all
\* different: write_buffer_ready leaves a slot EMPTY when it hands it out, and
\* yet never hands it out again before it has been sent and released.
THEOREM NoSlotGrantedTwice ==
    ASSUME Disciplined
    PROVE  Spec => []GrantedOnce
<1>1. ASSUME IInv PROVE GrantedOnce
  <2>0. WrNumbers /\ WrBounds
    BY <1>1, WriterNumbers, WriterBounds
  <2> DEFINE Held(i) == Len(sent) + Leaving + i - 1
             Entry(i) == Granted + Buffers(wr_buff_q, i - 1)
             Window == acked .. acked + N - 1
  <2>1. ASSUME NEW i \in 1..Len(wr_held)
        PROVE  /\ wr_held[i] = Pos(Held(i)) /\ Held(i) \in Window
               /\ Held(i) < Granted /\ Held(i) = Len(sent) + Leaving + i - 1
    <3>1. wr_held[i] = Pos(Held(i))
      BY <1>1, <2>1, BuffEntries
    <3>2. Held(i) \in Window /\ Held(i) < Granted
      BY <2>0, <2>1, SMTT(30) DEF WrNumbers, WrBounds
    <3>3. QED
      BY <3>1, <3>2
  <2>2. ASSUME NEW i \in 1..Len(wr_buff_q), wr_buff_q[i].buf # NoBuf
        PROVE  /\ wr_buff_q[i].buf = Pos(Entry(i)) /\ Entry(i) \in Window
               /\ Granted <= Entry(i) /\ Buffers(wr_buff_q, i - 1) \in Nat
    <3>1. BuffEntry(i)
      BY <1>1, <2>2, BuffEntries
    <3>2. wr_buff_q[i].buf = Pos(Entry(i))
      BY <2>2, <3>1 DEF BuffEntry
    <3> DEFINE b == Buffers(wr_buff_q, i - 1)
    <3>3. i - 1 \in Nat
      BY <2>2
    <3>4. b \in 0..i - 1
      BY <3>3, BuffersType
    <3> HIDE DEF b
    <3>5. b \in 0..Len(wr_buff_q) - 1
      BY <2>0, <2>2, <3>4 DEF WrNumbers
    <3>6. Granted + b \in Window /\ Granted <= Granted + b /\ b \in Nat
      BY <2>0, <3>5, SMTT(30) DEF WrNumbers, WrBounds
    <3>7. QED
      BY <3>2, <3>6 DEF b
  <2>3. ASSUME NEW j \in Window, NEW k \in Window, Pos(j) = Pos(k)
        PROVE  j = k
    BY <1>1, <2>3, WriterTypes, PosInjective
  <2> HIDE DEF Window
  <2>4. ASSUME NEW i \in 1..Len(wr_held), NEW j \in 1..Len(wr_held), i # j
        PROVE  wr_held[i] # wr_held[j]
    <3>1. Held(i) # Held(j)
      BY <2>0, <2>4 DEF WrNumbers
    <3>2. QED
      BY <2>1, <2>3, <3>1
  <2>5. ASSUME NEW i \in 1..Len(wr_held), NEW j \in 1..Len(wr_buff_q)
        PROVE  wr_held[i] # wr_buff_q[j].buf
    <3>1. CASE wr_buff_q[j].buf = NoBuf
      <4>1. NoBuf \notin Slots
        BY RingAssumption DEF NoBuf, Slots
      <4>2. wr_held \in Seq(Slots)
        BY <1>1, WriterTypes
      <4>3. wr_held[i] \in Slots
        BY <4>2, ElementOfSeq
      <4>4. QED
        BY <3>1, <4>1, <4>3
    <3>2. CASE wr_buff_q[j].buf # NoBuf
      <4>1. Held(i) # Entry(j)
        <5>1. /\ Held(i) < Granted /\ Granted <= Entry(j)
              /\ Held(i) \in Window /\ Entry(j) \in Window
          BY <2>1, <2>2, <3>2
        <5>2. \A k \in Window : k \in Int
          BY <2>0 DEF WrNumbers, Window
        <5> HIDE DEF Held, Entry
        <5>3. Held(i) \in Int /\ Entry(j) \in Int /\ Granted \in Int
          BY <2>0, <5>1, <5>2 DEF WrNumbers
        <5>4. QED
          BY <5>1, <5>3
      <4>2. QED
        BY <2>1, <2>2, <2>3, <3>2, <4>1
    <3>3. QED
      BY <3>1, <3>2
  <2>6. ASSUME NEW i \in 1..Len(wr_buff_q), NEW j \in 1..Len(wr_buff_q),
               i < j, wr_buff_q[i].buf # NoBuf, wr_buff_q[j].buf # NoBuf
        PROVE  wr_buff_q[i].buf # wr_buff_q[j].buf
    <3>1. Buffers(wr_buff_q, i - 1) < Buffers(wr_buff_q, j - 1)
      <4>1. i \in Nat /\ j \in Nat /\ 1 <= i
        BY <2>6
      <4>2. QED
        BY <2>6, <4>1, BuffersGrow
    <3>2. Entry(i) # Entry(j)
      <4> DEFINE a == Buffers(wr_buff_q, i - 1)
                 b == Buffers(wr_buff_q, j - 1)
      <4>1. a \in Nat /\ b \in Nat /\ a < b
        BY <2>2, <2>6, <3>1
      <4> HIDE DEF a, b
      <4>2. Granted + a # Granted + b
        BY <2>0, <4>1 DEF WrNumbers
      <4>3. QED
        BY <4>2 DEF a, b
    <3>3. QED
      BY <2>2, <2>3, <2>6, <3>2
  <2>7. \A i, j \in 1..Len(wr_buff_q) : i # j => i < j \/ j < i
    OBVIOUS
  <2>8. QED
    BY <2>4, <2>5, <2>6, <2>7 DEF GrantedOnce
<1>2. QED
  BY <1>1, RingInvariant, PTL

(***************************************************************************)
(* Which slots the reading application has: those of the messages that it  *)
(* acquired and did not release, in their order, from the oldest buffer    *)
(* whose data it may look at to the latest that waits in the read buffer   *)
(* queue.  With the ring's invariant, which has the writer's slots, it     *)
(* follows that the two sides never have the same one.                     *)
(***************************************************************************)
\* The slot of each message, as a function.
Place == [k \in Int |-> Pos(k)]

\* The buffers of a sequence, or of the entries of a queue that have one, are
\* those of the messages first + 1, first + 2, ...
HeldFrom(first, h, place) ==
    \A i \in 1..Len(h) : h[i] = place[first + i - 1]
QueuedFrom(first, q, place) ==
    \A i \in 1..Len(q) :
        q[i].buf # NoBuf => q[i].buf = place[first + Buffers(q, i - 1)]

\* The oldest message in each of the places that a buffer goes through, the
\* other way round.
FirstChecking == Len(got) + Len(rd_readable)
FirstHeld     == Len(got) + Len(rd_readable) + RdChecking
FirstTaken    == Len(got) + RdHolding

ReaderOrder ==
    /\ HeldFrom(Len(got), rd_readable, Place)
    /\ QueuedFrom(FirstChecking, rd_data_q, Place)
    /\ HeldFrom(FirstHeld, rd_held, Place)
    /\ QueuedFrom(FirstTaken, rd_buff_q, Place)

-----------------------------------------------------------------------------
(***************************************************************************)
(* The order is kept when a queue grows at its end by the next buffer, and *)
(* when it loses its oldest one.                                           *)
(***************************************************************************)
LEMMA HeldPush ==
    ASSUME NEW h \in Seq(Slots), NEW b \in Slots, NEW place, NEW first \in Int,
           HeldFrom(first, h, place), b = place[first + Len(h)]
    PROVE  HeldFrom(first, Append(h, b), place)
<1>1. /\ Len(Append(h, b)) = Len(h) + 1 /\ Len(h) \in Nat
      /\ \A i \in 1..Len(h) : Append(h, b)[i] = h[i]
      /\ Append(h, b)[Len(h) + 1] = b
  BY AppendProperties
<1>2. ASSUME NEW i \in 1..Len(h) + 1
      PROVE  Append(h, b)[i] = place[first + i - 1]
  <2>1. CASE i \in 1..Len(h)
    BY <1>1, <2>1 DEF HeldFrom
  <2>2. CASE i = Len(h) + 1
    <3>1. first + i - 1 = first + Len(h)
      BY <1>1, <2>2
    <3>2. QED
      BY <1>1, <2>2, <3>1
  <2>3. QED
    BY <1>1, <1>2, <2>1, <2>2
<1>3. QED
  BY <1>1, <1>2 DEF HeldFrom

LEMMA HeldPop ==
    ASSUME NEW h \in Seq(Slots), h # <<>>, NEW place, NEW first \in Int,
           HeldFrom(first, h, place)
    PROVE  /\ Head(h) = place[first]
           /\ HeldFrom(first + 1, Tail(h), place)
<1>1. /\ Head(h) = h[1] /\ Len(h) \in Nat \ {0} /\ Len(Tail(h)) = Len(h) - 1
      /\ \A i \in 1..Len(h) - 1 : Tail(h)[i] = h[i + 1]
  BY HeadTailProperties
<1>2. Head(h) = place[first]
  <2>1. 1 \in 1..Len(h) /\ first + 1 - 1 = first
    BY <1>1
  <2>2. QED
    BY <1>1, <2>1 DEF HeldFrom
<1>3. ASSUME NEW i \in 1..Len(h) - 1
      PROVE  Tail(h)[i] = place[first + 1 + i - 1]
  <2>1. i + 1 \in 1..Len(h) /\ first + (i + 1) - 1 = first + 1 + i - 1
    BY <1>1
  <2>2. h[i + 1] = place[first + (i + 1) - 1]
    BY <2>1 DEF HeldFrom
  <2>3. QED
    BY <1>1, <2>1, <2>2
<1>4. QED
  BY <1>1, <1>2, <1>3 DEF HeldFrom

LEMMA QueuePushOrder ==
    ASSUME NEW q \in Seq(Msg), NEW m \in Msg, NEW place, NEW first \in Int,
           QueuedFrom(first, q, place),
           m.buf # NoBuf => m.buf = place[first + Buffers(q, Len(q))]
    PROVE  QueuedFrom(first, Append(q, m), place)
<1> DEFINE p == Append(q, m)
<1>1. /\ Len(p) = Len(q) + 1 /\ Len(q) \in Nat
      /\ \A i \in 1..Len(q) : p[i] = q[i]
      /\ p[Len(q) + 1] = m
      /\ \A n \in 0..Len(q) : Buffers(p, n) = Buffers(q, n)
  BY AppendProperties, BuffersAppend
<1> HIDE DEF p
<1>2. ASSUME NEW i \in 1..Len(p), p[i].buf # NoBuf
      PROVE  p[i].buf = place[first + Buffers(p, i - 1)]
  <2>1. i - 1 \in 0..Len(q) /\ Buffers(p, i - 1) = Buffers(q, i - 1)
    BY <1>1
  <2>2. CASE i \in 1..Len(q)
    BY <1>1, <1>2, <2>1, <2>2 DEF QueuedFrom
  <2>3. CASE i = Len(q) + 1
    <3>1. i - 1 = Len(q)
      BY <1>1, <2>3
    <3>2. QED
      BY <1>1, <1>2, <2>1, <2>3, <3>1
  <2>4. QED
    BY <1>1, <2>2, <2>3
<1>3. QED
  BY <1>2 DEF QueuedFrom, p

LEMMA QueuePopOrder ==
    ASSUME NEW q \in Seq(Msg), q # <<>>, NEW place, NEW first \in Int,
           QueuedFrom(first, q, place)
    PROVE  LET d == IF q[1].buf # NoBuf THEN 1 ELSE 0
           IN  /\ q[1].buf # NoBuf => q[1].buf = place[first]
               /\ QueuedFrom(first + d, Tail(q), place)
<1> DEFINE d == IF q[1].buf # NoBuf THEN 1 ELSE 0
           t == Tail(q)
<1>1. /\ Len(q) \in Nat \ {0} /\ Len(t) = Len(q) - 1
      /\ \A i \in 1..Len(q) - 1 : t[i] = q[i + 1]
  BY HeadTailProperties
<1>2. q[1].buf # NoBuf => q[1].buf = place[first]
  <2>1. 1 \in 1..Len(q) /\ 1 - 1 = 0 /\ Buffers(q, 0) = 0 /\ first + 0 = first
    BY <1>1, BuffersNone
  <2>2. QED
    BY <2>1 DEF QueuedFrom
<1>3. ASSUME NEW i \in 1..Len(t), t[i].buf # NoBuf
      PROVE  t[i].buf = place[first + d + Buffers(t, i - 1)]
  <2>1. i + 1 \in 1..Len(q) /\ i - 1 \in 0..Len(q) - 1 /\ (i - 1) + 1 = i
        /\ (i + 1) - 1 = i /\ i \in Nat /\ i - 1 \in Nat
    BY <1>1
  <2>2. t[i] = q[i + 1]
    BY <1>1
  <2>3. q[i + 1].buf = place[first + Buffers(q, i)]
    BY <1>3, <2>1, <2>2 DEF QueuedFrom
  <2>4. Buffers(t, i - 1) = Buffers(q, i) - d
    BY <2>1, BuffersTail
  <2>5. Buffers(q, i) \in Int /\ d \in Int
    BY <2>1, BuffersType
  <2> HIDE DEF d, t
  <2>6. first + d + Buffers(t, i - 1) = first + Buffers(q, i)
    BY <2>4, <2>5
  <2>7. QED
    BY <2>2, <2>3, <2>6
<1>4. QED
  BY <1>2, <1>3 DEF QueuedFrom

\* Answering the first entry without a buffer keeps the order if it gets the
\* next one, or none.
LEMMA QueueAnswerOrder ==
    ASSUME NEW q \in Seq(Msg), NEW j \in 1..Len(q), NEW m \in Msg,
           NEW place, NEW first \in Int,
           QueuedFrom(first, q, place),
           \A i \in j..Len(q) : q[i].buf = NoBuf,
           m.buf # NoBuf => m.buf = place[first + Buffers(q, j - 1)]
    PROVE  QueuedFrom(first, [q EXCEPT ![j] = m], place)
<1> DEFINE p == [q EXCEPT ![j] = m]
<1>1. /\ Len(p) = Len(q) /\ p[j] = m
      /\ \A i \in 1..Len(q) : i # j => p[i] = q[i]
  BY QueueUpdate
<1>2. \A n \in 0..j - 1 : Buffers(p, n) = Buffers(q, n)
  <2>1. j \in j..Len(q)
    OBVIOUS
  <2>2. q[j].buf = NoBuf
    BY <2>1
  <2>3. QED
    BY <2>2, BuffersUpdate
<1> HIDE DEF p
<1>3. ASSUME NEW i \in 1..Len(p), p[i].buf # NoBuf
      PROVE  p[i].buf = place[first + Buffers(p, i - 1)]
  <2>1. i <= j
    <3>1. ASSUME i > j PROVE FALSE
      <4>1. i \in 1..Len(q) /\ i \in j..Len(q) /\ i # j
        BY <1>1, <3>1
      <4>2. QED
        BY <1>1, <1>3, <4>1
    <3>2. QED
      BY <3>1
  <2>2. i - 1 \in 0..j - 1 /\ i \in 1..Len(q)
    BY <1>1, <2>1
  <2>3. QED
    BY <1>1, <1>2, <1>3, <2>2 DEF QueuedFrom
<1>4. QED
  BY <1>3 DEF QueuedFrom, p

\* Only the buffers of the entries count.
LEMMA QueueSameOrder ==
    ASSUME NEW q \in Seq(Msg), NEW p \in Seq(Msg), Len(p) = Len(q),
           \A i \in 1..Len(q) : p[i].buf = q[i].buf,
           NEW place, NEW first \in Int, QueuedFrom(first, q, place)
    PROVE  QueuedFrom(first, p, place)
<1> SUFFICES ASSUME NEW i \in 1..Len(p), p[i].buf # NoBuf
             PROVE  p[i].buf = place[first + Buffers(p, i - 1)]
  BY DEF QueuedFrom
<1>1. i - 1 \in Nat /\ i - 1 <= Len(q) /\ Len(q) \in Nat
  OBVIOUS
<1>2. Buffers(p, i - 1) = Buffers(q, i - 1)
  BY <1>1, BuffersSame
<1>3. QED
  BY <1>2 DEF QueuedFrom

-----------------------------------------------------------------------------
(***************************************************************************)
(* Every step keeps the reader's order.                                    *)
(***************************************************************************)
LEMMA OrderInit == Init => ReaderOrder
<1> SUFFICES ASSUME Init PROVE ReaderOrder
  OBVIOUS
<1>1. rd_readable = <<>> /\ rd_data_q = <<>> /\ rd_held = <<>> /\ rd_buff_q = <<>>
  BY DEF Init
<1>2. QED
  BY <1>1 DEF ReaderOrder, HeldFrom, QueuedFrom

\* A reader's step leaves the slots of the messages where they are.
LEMMA SamePlace ==
    ASSUME wr_rel_index' = wr_rel_index, acked' = acked
    PROVE  Place' = Place
BY PosStable DEF Place

LEMMA ReaderPlace ==
    ASSUME Reader
    PROVE  Place' = Place
<1>1. wr_rel_index' = wr_rel_index /\ acked' = acked
  BY DEF Reader, read_buffer_request, read_buffer_ready, read_buffer_size,
     read_buffer_result, read_data_request, read_data_request_bad, PushReadData,
     read_data_ready, read_data_result, read_buffer_release,
     read_buffer_release_seq, writer, wr_chan, history
<1>2. QED
  BY <1>1, SamePlace

\* The numbers are numbers.
LEMMA FirstTypes ==
    ASSUME IInv
    PROVE  /\ RdNumbers
           /\ Len(got) \in Int /\ FirstChecking \in Int
           /\ FirstHeld \in Int /\ FirstTaken \in Int
           /\ FirstHeld = FirstChecking + RdChecking
           /\ FirstTaken = FirstHeld + Len(rd_held)
           /\ RdTaken = Buffers(rd_buff_q, Len(rd_buff_q))
           /\ RdChecking = Buffers(rd_data_q, Len(rd_data_q))
<1>1. RdNumbers
  BY ReaderNumbers
<1>2. QED
  BY <1>1 DEF RdNumbers, FirstChecking, FirstHeld, FirstTaken, RdHolding,
     RdTaken, RdChecking

\* How the numbers follow from how many buffers are where.
\* Only those, for the arithmetic.
LEMMA FirstInts ==
    ASSUME IInv
    PROVE  /\ Len(got) \in Nat /\ Len(rd_readable) \in Nat
           /\ RdChecking \in Nat /\ Len(rd_held) \in Nat /\ RdTaken \in Nat
BY ReaderNumbers DEF RdNumbers

LEMMA FirstMove ==
    ASSUME IInv,
           NEW g \in Int, NEW r \in Int, NEW c \in Int, NEW h \in Int,
           Len(got)' = Len(got) + g, Len(rd_readable)' = Len(rd_readable) + r,
           RdChecking' = RdChecking + c, Len(rd_held)' = Len(rd_held) + h
    PROVE  /\ FirstChecking' = FirstChecking + (g + r)
           /\ FirstHeld' = FirstHeld + (g + r + c)
           /\ FirstTaken' = FirstTaken + (g + r + c + h)
<1>1. /\ Len(got) \in Int /\ Len(rd_readable) \in Int
      /\ RdChecking \in Int /\ Len(rd_held) \in Int
  BY FirstTypes DEF RdNumbers
<1>2. FirstChecking' = FirstChecking + (g + r)
  BY <1>1 DEF FirstChecking
<1>3. FirstHeld' = FirstHeld + (g + r + c)
  BY <1>1 DEF FirstHeld
<1>4. FirstTaken' = FirstTaken + (g + r + c + h)
  BY <1>1 DEF FirstTaken, RdHolding
<1>5. QED
  BY <1>2, <1>3, <1>4

LEMMA Order_read_buffer_request ==
    ASSUME IInv, ReaderOrder, read_buffer_request
    PROVE  ReaderOrder'
<1>1. PICK kind \in BuffKinds : rd_buff_q' = Append(rd_buff_q, Request(kind, NoBuf))
  BY DEF read_buffer_request
<1>2. UNCHANGED <<rd_data_q, rd_held, rd_readable, got>> /\ Place' = Place
  BY ReaderPlace DEF Reader, read_buffer_request, rd_app, history
<1>3. Request(kind, NoBuf) \in Msg /\ Request(kind, NoBuf).buf = NoBuf
  BY ApplicationAssumption, Messages DEF Request, MsgType
<1>4. UNCHANGED <<FirstChecking, FirstHeld, FirstTaken>>
  BY <1>2 DEF FirstChecking, FirstHeld, FirstTaken, RdHolding, RdChecking, Buffers
<1>5. QueuedFrom(FirstTaken, rd_buff_q', Place)
  BY <1>1, <1>3, FirstTypes, ReaderTypes, QueuePushOrder DEF ReaderOrder
<1>6. QED
  BY <1>2, <1>4, <1>5 DEF ReaderOrder

LEMMA Order_read_buffer_ready ==
    ASSUME IInv, ReaderOrder, read_buffer_ready
    PROVE  ReaderOrder'
<1>0. RdNumbers
  BY ReaderNumbers
<1>1. UNCHANGED <<rd_data_q, rd_held, rd_readable, got>> /\ Place' = Place
  BY ReaderPlace DEF Reader, read_buffer_ready, rd_app, history
<1>2. UNCHANGED <<FirstChecking, FirstHeld, FirstTaken>>
  BY <1>1 DEF FirstChecking, FirstHeld, FirstTaken, RdHolding, RdChecking, Buffers
<1> DEFINE j == rd_buff_use + 1
<1>3. \/ rd_buff_q' = rd_buff_q
      \/ /\ j <= Len(rd_buff_q)
         /\ \E st \in Status : rd_buff_q' = [rd_buff_q EXCEPT ![j] = Response(NoBuf, st)]
  BY DEF read_buffer_ready, SkipReadRequest, Status
<1>4. CASE rd_buff_q' = rd_buff_q
  BY <1>1, <1>2, <1>4 DEF ReaderOrder
<1>5. ASSUME j <= Len(rd_buff_q), NEW st \in Status,
             rd_buff_q' = [rd_buff_q EXCEPT ![j] = Response(NoBuf, st)]
      PROVE  ReaderOrder'
  <2>1. j \in 1..Len(rd_buff_q)
    BY <1>0, <1>5 DEF RdNumbers
  <2>2. \A i \in j..Len(rd_buff_q) : rd_buff_q[i].buf = NoBuf
    <3>1. \A i \in j..Len(rd_buff_q) : i \in 1..Len(rd_buff_q) /\ i > rd_buff_use
      BY <1>0 DEF RdNumbers
    <3>2. QED
      BY <3>1, ReadEntries
  <2>3. Response(NoBuf, st) \in Msg /\ Response(NoBuf, st).buf = NoBuf
    BY Messages DEF Response
  <2> HIDE DEF j
  <2>4. QueuedFrom(FirstTaken, rd_buff_q', Place)
    BY <1>5, <2>1, <2>2, <2>3, FirstTypes, ReaderTypes, QueueAnswerOrder DEF ReaderOrder
  <2>5. QED
    BY <1>1, <1>2, <2>4 DEF ReaderOrder
<1>6. QED
  BY <1>3, <1>4, <1>5

\* The buffer that a request gets is that of the next message to acquire.
LEMMA Order_read_buffer_size ==
    ASSUME IInv, ReaderOrder, read_buffer_size
    PROVE  ReaderOrder'
<1>0. RdNumbers
  BY ReaderNumbers
<1>1. UNCHANGED <<rd_data_q, rd_held, rd_readable, got>> /\ Place' = Place
  BY ReaderPlace DEF Reader, read_buffer_size, rd_app, history
<1>2. UNCHANGED <<FirstChecking, FirstHeld, FirstTaken>>
  BY <1>1 DEF FirstChecking, FirstHeld, FirstTaken, RdHolding, RdChecking, Buffers
<1> DEFINE j == rd_buff_use + 1
<1>3. j \in 1..Len(rd_buff_q)
  BY <1>0 DEF IInv, ReadQueueInv, read_buffer_size, RdNumbers
<1>4. \A i \in j..Len(rd_buff_q) : rd_buff_q[i].buf = NoBuf
  <2>1. \A i \in j..Len(rd_buff_q) : i \in 1..Len(rd_buff_q) /\ i > rd_buff_use
    BY <1>0 DEF RdNumbers
  <2>2. QED
    BY <2>1, ReadEntries
<1>5. \E m \in Msg :
        /\ rd_buff_q' = [rd_buff_q EXCEPT ![j] = m]
        /\ m.buf \in {NoBuf, rd_acq_index}
  <2>1. /\ Response(NoBuf, "ETOOMANY") \in Msg /\ Response(NoBuf, "ETOOMANY").buf = NoBuf
        /\ Response(rd_acq_index, "ENOERROR") \in Msg
        /\ Response(rd_acq_index, "ENOERROR").buf = rd_acq_index
    BY Messages, ReaderTypes DEF Response, Status
  <2>2. QED
    BY <2>1 DEF read_buffer_size
<1>6. PICK m \in Msg : /\ rd_buff_q' = [rd_buff_q EXCEPT ![j] = m]
                       /\ m.buf \in {NoBuf, rd_acq_index}
  BY <1>5
<1>7. rd_acq_index = Place[FirstTaken + Buffers(rd_buff_q, j - 1)]
  <2>1. Buffers(rd_buff_q, j - 1) = RdTaken
    <3>1. /\ j - 1 \in Nat /\ Len(rd_buff_q) \in Nat /\ j - 1 <= Len(rd_buff_q)
          /\ (j - 1) + 1 = j
      BY <1>0 DEF RdNumbers
    <3> HIDE DEF j
    <3>2. QED
      BY <1>4, <3>1, BuffersPrefix, FirstTypes
  <2>2. FirstTaken + RdTaken = Acquired
    BY <1>0 DEF IInv, ReadQueueInv, FirstTaken, RdNumbers
  <2>3. Acquired \in Int /\ rd_acq_index = Pos(Acquired)
    BY <1>0 DEF IInv, IndexInv, RdNumbers
  <2> HIDE DEF j
  <2>4. QED
    BY <2>1, <2>2, <2>3 DEF Place
<1> HIDE DEF j
<1>8. QueuedFrom(FirstTaken, rd_buff_q', Place)
  BY <1>3, <1>4, <1>6, <1>7, FirstTypes, ReaderTypes, QueueAnswerOrder DEF ReaderOrder
<1>9. QED
  BY <1>1, <1>2, <1>8 DEF ReaderOrder

LEMMA Order_read_buffer_result ==
    ASSUME IInv, ReaderOrder, read_buffer_result
    PROVE  ReaderOrder'
<1> DEFINE q == rd_buff_q
           d == IF q[1].buf # NoBuf THEN 1 ELSE 0
<1>1. /\ rd_buff_use > 0 /\ rd_buff_q' = Tail(q)
      /\ rd_held' = IF Head(q).buf # NoBuf THEN Append(rd_held, Head(q).buf) ELSE rd_held
      /\ UNCHANGED <<rd_data_q, rd_readable, got>> /\ Place' = Place
  BY ReaderPlace DEF Reader, read_buffer_result, history
<1>2. q \in Seq(Msg) /\ q # <<>> /\ Head(q) = q[1] /\ q[1] \in Msg
  BY <1>1, ReaderTypes, HeadTailProperties
<1>3. UNCHANGED <<FirstChecking, FirstHeld, RdChecking>>
  BY <1>1 DEF FirstChecking, FirstHeld, RdChecking, Buffers
<1>4. /\ q[1].buf # NoBuf => q[1].buf = Place[FirstTaken]
      /\ QueuedFrom(FirstTaken + d, Tail(q), Place)
  BY <1>2, FirstTypes, QueuePopOrder DEF ReaderOrder
<1>5. CASE q[1].buf = NoBuf
  <2>1. d = 0 /\ FirstTaken + 0 = FirstTaken
    BY <1>5, FirstTypes
  <2>2. rd_held' = rd_held
    BY <1>1, <1>2, <1>5
  <2>3. FirstTaken' = FirstTaken
    BY <1>1, <1>3, <2>2 DEF FirstTaken, RdHolding
  <2> HIDE DEF d
  <2>4. QED
    BY <1>1, <1>3, <1>4, <2>1, <2>2, <2>3 DEF ReaderOrder
<1>6. CASE q[1].buf # NoBuf
  <2>1. d = 1
    BY <1>6
  <2>2. rd_held' = Append(rd_held, q[1].buf) /\ q[1].buf \in Slots
    BY <1>1, <1>2, <1>6 DEF Msg
  <2>3. Len(rd_held') = Len(rd_held) + 1
    BY <2>2, ReaderTypes, AppendProperties
  <2>4. FirstTaken' = FirstTaken + 1
    <3>1. /\ Len(got)' = Len(got) + 0 /\ Len(rd_readable)' = Len(rd_readable) + 0
          /\ RdChecking' = RdChecking + 0 /\ Len(rd_held)' = Len(rd_held) + 1
      BY <1>1, <1>3, <2>3, FirstTypes DEF RdNumbers
    <3>2. FirstTaken' = FirstTaken + (0 + 0 + 0 + 1)
      BY <3>1, FirstMove
    <3>3. QED
      BY <3>2
  <2>5. HeldFrom(FirstHeld, rd_held', Place)
    BY <1>4, <1>6, <2>2, FirstTypes, ReaderTypes, HeldPush DEF ReaderOrder
  <2> HIDE DEF d
  <2>6. QED
    BY <1>1, <1>3, <1>4, <2>1, <2>4, <2>5 DEF ReaderOrder
<1>7. QED
  BY <1>5, <1>6

LEMMA Order_read_data_request ==
    ASSUME IInv, ReaderOrder, read_data_request
    PROVE  ReaderOrder'
<1> DEFINE m == Request("REQ", Head(rd_held))
<1>1. /\ rd_held # <<>> /\ rd_held' = Tail(rd_held)
      /\ rd_data_q' = Append(rd_data_q, m)
      /\ UNCHANGED <<rd_buff_q, rd_readable, got>> /\ Place' = Place
  BY ReaderPlace DEF Reader, read_data_request, PushReadData, history
<1>2. /\ Head(rd_held) \in Slots /\ rd_held \in Seq(Slots)
      /\ Len(rd_held') = Len(rd_held) - 1 /\ rd_held' \in Seq(Slots)
  BY <1>1, ReaderTypes, HeadTailProperties
<1>3. m \in Msg /\ m.buf # NoBuf /\ m.buf = Head(rd_held)
  BY <1>2, Messages, RingAssumption DEF Request, Slots, NoBuf
<1>4. /\ Head(rd_held) = Place[FirstHeld]
      /\ HeldFrom(FirstHeld + 1, rd_held', Place)
  BY <1>1, <1>2, FirstTypes, HeldPop DEF ReaderOrder
<1> HIDE DEF m
<1>5. QueuedFrom(FirstChecking, rd_data_q', Place)
  BY <1>1, <1>3, <1>4, FirstTypes, ReaderTypes, QueuePushOrder DEF ReaderOrder
<1>6. RdChecking' = RdChecking + 1
  BY <1>1, <1>3, ReaderTypes, QueuePush DEF RdChecking
<1>7. FirstChecking' = FirstChecking /\ FirstHeld' = FirstHeld + 1 /\ FirstTaken' = FirstTaken
  <2>1. /\ Len(got)' = Len(got) + 0 /\ Len(rd_readable)' = Len(rd_readable) + 0
        /\ RdChecking' = RdChecking + 1 /\ Len(rd_held)' = Len(rd_held) - 1
    BY <1>1, <1>2, <1>6, FirstTypes DEF RdNumbers
  <2>2. FirstChecking' = FirstChecking
    BY <2>1, FirstInts DEF FirstChecking
  <2>3. FirstHeld' = FirstHeld + 1
    BY <2>1, FirstInts DEF FirstHeld
  <2>4. FirstTaken' = FirstTaken
    BY <2>1, FirstInts DEF FirstTaken, RdHolding
  <2>5. QED
    BY <2>2, <2>3, <2>4
<1>8. QED
  BY <1>1, <1>4, <1>5, <1>7 DEF ReaderOrder

LEMMA Order_read_data_request_bad ==
    ASSUME IInv, ReaderOrder, read_data_request_bad
    PROVE  ReaderOrder'
<1>1. PICK kind \in DataKinds \ {"REQ"} : rd_data_q' = Append(rd_data_q, Request(kind, NoBuf))
  BY DEF read_data_request_bad, PushReadData
<1>2. UNCHANGED <<rd_buff_q, rd_held, rd_readable, got>> /\ Place' = Place
  BY ReaderPlace DEF Reader, read_data_request_bad, PushReadData, history
<1>3. Request(kind, NoBuf) \in Msg /\ Request(kind, NoBuf).buf = NoBuf
  BY ApplicationAssumption, Messages DEF Request, MsgType
<1>4. RdChecking' = RdChecking
  <2>1. RdChecking' = RdChecking + 0
    <3> DEFINE m == Request(kind, NoBuf)
    <3>1. m \in Msg /\ ~(m.buf # NoBuf) /\ rd_data_q' = Append(rd_data_q, m)
      BY <1>1, <1>3
    <3> HIDE DEF m
    <3>2. Buffers(Append(rd_data_q, m), Len(Append(rd_data_q, m)))
             = Buffers(rd_data_q, Len(rd_data_q)) + (IF m.buf # NoBuf THEN 1 ELSE 0)
      BY <3>1, ReaderTypes, QueuePush
    <3>3. QED
      BY <3>1, <3>2 DEF RdChecking
  <2>2. QED
    BY <2>1, FirstTypes DEF RdNumbers
<1>5. UNCHANGED <<FirstChecking, FirstHeld, FirstTaken>>
  BY <1>2, <1>4 DEF FirstChecking, FirstHeld, FirstTaken, RdHolding
<1>6. QueuedFrom(FirstChecking, rd_data_q', Place)
  BY <1>1, <1>3, FirstTypes, ReaderTypes, QueuePushOrder DEF ReaderOrder
<1>7. QED
  BY <1>2, <1>5, <1>6 DEF ReaderOrder

LEMMA Order_read_data_ready ==
    ASSUME IInv, ReaderOrder, read_data_ready
    PROVE  ReaderOrder'
<1>1. UNCHANGED <<rd_buff_q, rd_held, rd_readable, got>> /\ Place' = Place
  BY ReaderPlace DEF Reader, read_data_ready, rd_app, history
<1>2. rd_data_q' = [i \in 1..Len(rd_data_q) |->
                       IF i > rd_data_use THEN Checked(rd_data_q[i]) ELSE rd_data_q[i]]
  BY DEF read_data_ready
<1>3. rd_data_q' \in Seq(Msg)
  BY NextIInv, Step_read_data_ready, ReaderTypes DEF IInv, TypeOK, ReaderTypeOK
<1>4. Len(rd_data_q') = Len(rd_data_q)
  BY <1>2, ReaderTypes
<1>5. \A i \in 1..Len(rd_data_q) : rd_data_q'[i].buf = rd_data_q[i].buf
  BY <1>2 DEF Checked, Response
<1>6. RdChecking' = RdChecking
  <2>1. Len(rd_data_q) \in Nat
    BY ReaderTypes
  <2>2. \A i \in 1..Len(rd_data_q) : rd_data_q'[i].buf # NoBuf <=> rd_data_q[i].buf # NoBuf
    BY <1>5
  <2>3. Buffers(rd_data_q', Len(rd_data_q)) = Buffers(rd_data_q, Len(rd_data_q))
    BY <2>1, <2>2, BuffersSame
  <2>4. QED
    BY <1>4, <2>3 DEF RdChecking
<1>7. UNCHANGED <<FirstChecking, FirstHeld, FirstTaken>>
  BY <1>1, <1>6 DEF FirstChecking, FirstHeld, FirstTaken, RdHolding
<1>8. QueuedFrom(FirstChecking, rd_data_q', Place)
  BY <1>3, <1>4, <1>5, FirstTypes, ReaderTypes, QueueSameOrder DEF ReaderOrder
<1>9. QED
  BY <1>1, <1>7, <1>8 DEF ReaderOrder

LEMMA Order_read_data_result ==
    ASSUME IInv, ReaderOrder, read_data_result
    PROVE  ReaderOrder'
<1> DEFINE q == rd_data_q
           d == IF q[1].buf # NoBuf THEN 1 ELSE 0
<1>1. /\ rd_data_use > 0 /\ rd_data_q' = Tail(q)
      /\ rd_readable' = IF Head(q).buf # NoBuf THEN Append(rd_readable, Head(q).buf)
                        ELSE rd_readable
      /\ UNCHANGED <<rd_buff_q, rd_held, got>> /\ Place' = Place
  BY ReaderPlace DEF Reader, read_data_result, history
<1>2. q \in Seq(Msg) /\ Len(q) > 0 /\ q # <<>> /\ Head(q) = q[1] /\ q[1] \in Msg
  BY <1>1, ReaderTypes, HeadTailProperties
<1>3. RdChecking' = RdChecking - d
  BY <1>1, <1>2, QueuePop DEF RdChecking
<1>4. /\ q[1].buf # NoBuf => q[1].buf = Place[FirstChecking]
      /\ QueuedFrom(FirstChecking + d, Tail(q), Place)
  BY <1>2, FirstTypes, QueuePopOrder DEF ReaderOrder
<1>5. /\ Len(rd_readable') = Len(rd_readable) + d
      /\ HeldFrom(Len(got), rd_readable', Place)
  <2>1. CASE q[1].buf = NoBuf
    <3>1. rd_readable' = rd_readable /\ d = 0
      BY <1>1, <1>2, <2>1
    <3> HIDE DEF d
    <3>2. QED
      BY <3>1, FirstTypes DEF ReaderOrder, RdNumbers
  <2>2. CASE q[1].buf # NoBuf
    <3>1. rd_readable' = Append(rd_readable, q[1].buf) /\ q[1].buf \in Slots /\ d = 1
      BY <1>1, <1>2, <2>2 DEF Msg
    <3>2. q[1].buf = Place[Len(got) + Len(rd_readable)]
      BY <1>4, <2>2 DEF FirstChecking
    <3>3. Len(rd_readable') = Len(rd_readable) + 1
      BY <3>1, ReaderTypes, AppendProperties
    <3>4. HeldFrom(Len(got), rd_readable', Place)
      BY <3>1, <3>2, FirstTypes, ReaderTypes, HeldPush DEF ReaderOrder
    <3> HIDE DEF d
    <3>5. QED
      BY <3>1, <3>3, <3>4
  <2>3. QED
    BY <2>1, <2>2
<1>6. d \in {0, 1}
  OBVIOUS
<1> HIDE DEF d
<1>7. FirstChecking' = FirstChecking + d /\ FirstHeld' = FirstHeld /\ FirstTaken' = FirstTaken
  <2>1. /\ Len(got)' = Len(got) + 0 /\ Len(rd_readable)' = Len(rd_readable) + d
        /\ RdChecking' = RdChecking - d /\ Len(rd_held)' = Len(rd_held) + 0
    BY <1>1, <1>3, <1>5, <1>6, FirstTypes DEF RdNumbers
  <2>2. d \in Int
    BY <1>6
  <2>3. FirstChecking' = FirstChecking + d
    BY <2>1, <2>2, FirstInts DEF FirstChecking
  <2>4. FirstHeld' = FirstHeld
    BY <2>1, <2>2, FirstInts DEF FirstHeld
  <2>5. FirstTaken' = FirstTaken
    BY <2>1, <2>2, FirstInts DEF FirstTaken, RdHolding
  <2>6. QED
    BY <2>3, <2>4, <2>5
<1>8. QED
  BY <1>1, <1>4, <1>5, <1>7 DEF ReaderOrder

LEMMA Order_read_buffer_release ==
    ASSUME IInv, ReaderOrder, read_buffer_release
    PROVE  ReaderOrder'
<1>1. /\ rd_readable # <<>> /\ rd_readable' = Tail(rd_readable)
      /\ got' = Append(got, [msg |-> mem[rd_rel_index], len |-> rd_len[rd_rel_index]])
      /\ UNCHANGED <<rd_buff_q, rd_data_q, rd_held>> /\ Place' = Place
  BY ReaderPlace DEF Reader, read_buffer_release
<1>2. Len(got') = Len(got) + 1
  BY <1>1, ReaderTypes
<1>3. Len(rd_readable') = Len(rd_readable) - 1 /\ Len(rd_readable) \in Nat
  BY <1>1, ReaderTypes, HeadTailProperties
<1>4. RdChecking' = RdChecking
  BY <1>1 DEF RdChecking, Buffers
<1>5. UNCHANGED <<FirstChecking, FirstHeld, FirstTaken>>
  <2>1. /\ Len(got)' = Len(got) + 1 /\ Len(rd_readable)' = Len(rd_readable) - 1
        /\ RdChecking' = RdChecking + 0 /\ Len(rd_held)' = Len(rd_held) + 0
    BY <1>1, <1>2, <1>3, <1>4, FirstTypes DEF RdNumbers
  <2>2. QED
    BY <2>1, FirstInts DEF FirstChecking, FirstHeld, FirstTaken, RdHolding
<1>6. HeldFrom(Len(got'), rd_readable', Place)
  BY <1>1, <1>2, FirstTypes, ReaderTypes, HeldPop DEF ReaderOrder
<1>7. QED
  BY <1>1, <1>5, <1>6 DEF ReaderOrder

LEMMA ReaderKeepsOrder ==
    ASSUME Disciplined, IInv, ReaderOrder, Reader
    PROVE  ReaderOrder'
<1>1. CASE read_buffer_release_seq
  <2>1. UNCHANGED <<rd_buff_q, rd_data_q, rd_held, rd_readable, got>> /\ Place' = Place
    BY <1>1, ReaderPlace DEF Reader, read_buffer_release_seq, rd_app, history
  <2>2. UNCHANGED <<FirstChecking, FirstHeld, FirstTaken>>
    BY <2>1 DEF FirstChecking, FirstHeld, FirstTaken, RdHolding, RdChecking, Buffers
  <2>3. QED
    BY <2>1, <2>2 DEF ReaderOrder
<1>2. QED
  BY <1>1, Order_read_buffer_request, Order_read_buffer_ready, Order_read_buffer_size,
     Order_read_buffer_result, Order_read_data_request, Order_read_data_request_bad,
     Order_read_data_ready, Order_read_data_result, Order_read_buffer_release
     DEF Reader

-----------------------------------------------------------------------------
(***************************************************************************)
(* A completion moves the window, but not a slot that the reader has.      *)
(***************************************************************************)
LEMMA HeldMoved ==
    ASSUME NEW h, NEW first \in Int, NEW place, NEW moved,
           Len(h) \in Nat, HeldFrom(first, h, place),
           \A k \in first .. first + Len(h) - 1 : moved[k] = place[k]
    PROVE  HeldFrom(first, h, moved)
<1> SUFFICES ASSUME NEW i \in 1..Len(h)
             PROVE  h[i] = moved[first + i - 1]
  BY DEF HeldFrom
<1>1. first + i - 1 \in first .. first + Len(h) - 1
  OBVIOUS
<1>2. QED
  BY <1>1 DEF HeldFrom

\* An entry with a buffer has one more before the end of its queue.
LEMMA EntryCounts ==
    ASSUME NEW q, Len(q) \in Nat, NEW i \in 1..Len(q), q[i].buf # NoBuf
    PROVE  /\ Buffers(q, i - 1) \in Nat
           /\ Buffers(q, i - 1) < Buffers(q, Len(q))
           /\ Buffers(q, Len(q)) \in Nat
<1>1. /\ i \in Nat /\ i - 1 \in Nat /\ Len(q) + 1 \in Nat
      /\ i < Len(q) + 1 /\ 1 <= i /\ (Len(q) + 1) - 1 = Len(q)
  OBVIOUS
<1>2. Buffers(q, i - 1) < Buffers(q, Len(q))
  BY <1>1, BuffersGrow
<1>3. Buffers(q, i - 1) \in 0..i - 1 /\ Buffers(q, Len(q)) \in 0..Len(q)
  BY <1>1, BuffersType
<1>4. QED
  BY <1>2, <1>3

LEMMA QueueMoved ==
    ASSUME NEW q, NEW first \in Int, NEW place, NEW moved,
           Len(q) \in Nat, QueuedFrom(first, q, place),
           \A k \in first .. first + Buffers(q, Len(q)) - 1 : moved[k] = place[k]
    PROVE  QueuedFrom(first, q, moved)
<1> SUFFICES ASSUME NEW i \in 1..Len(q), q[i].buf # NoBuf
             PROVE  q[i].buf = moved[first + Buffers(q, i - 1)]
  BY DEF QueuedFrom
<1> DEFINE b == Buffers(q, i - 1)
           all == Buffers(q, Len(q))
<1>1. b \in Nat /\ b < all /\ all \in Nat
  BY EntryCounts
<1>2. q[i].buf = place[first + b]
  BY DEF QueuedFrom
<1>3. \A k \in first .. first + all - 1 : moved[k] = place[k]
  OBVIOUS
<1> HIDE DEF b, all
<1>4. first + b \in first .. first + all - 1
  BY <1>1
<1>5. QED
  BY <1>2, <1>3, <1>4 DEF b

\* The messages whose slots the reader has are in the window, and sent.
LEMMA ReaderWindow ==
    ASSUME IInv
    PROVE  /\ acked \in Nat /\ N \in Nat
           /\ acked <= Released /\ Released <= Len(got)
           /\ Acquired <= Len(sent) /\ Len(sent) <= acked + N
           /\ Released \in Int /\ Acquired \in Int /\ Len(sent) \in Int
           /\ Acquired = FirstTaken + RdTaken
           /\ Len(got) + Len(rd_readable) = FirstChecking
           /\ FirstChecking + RdChecking = FirstHeld
           /\ FirstHeld + Len(rd_held) = FirstTaken
<1>1. RdNumbers /\ WrNumbers
  BY ReaderNumbers, WriterNumbers
<1>2. acked <= Released /\ Acquired <= Len(sent) /\ Len(sent) <= acked + N
  BY DEF IInv, CounterInv
<1>3. Released <= Len(got)
  BY <1>1 DEF Released, RdNumbers
<1>4. Acquired = FirstTaken + RdTaken
  BY <1>1 DEF IInv, ReadQueueInv, FirstTaken, RdNumbers
<1>5. QED
  BY <1>1, <1>2, <1>3, <1>4, FirstTypes DEF RdNumbers, WrNumbers, FirstChecking

\* The parts of the reader's side lie between what it released and what it
\* acquired.
LEMMA ReaderChain ==
    ASSUME IInv
    PROVE  /\ Len(got) \in Nat /\ Len(rd_readable) \in Nat
           /\ RdChecking \in Nat /\ Len(rd_held) \in Nat /\ RdTaken \in Nat
           /\ FirstChecking \in Nat /\ FirstHeld \in Nat /\ FirstTaken \in Nat
           /\ Acquired \in Nat
           /\ Len(got) + Len(rd_readable) <= Acquired
           /\ Len(got) <= FirstChecking /\ FirstChecking + RdChecking <= Acquired
           /\ Len(got) <= FirstHeld /\ FirstHeld + Len(rd_held) <= Acquired
           /\ Len(got) <= FirstTaken /\ FirstTaken + RdTaken <= Acquired
<1>1. /\ Len(got) \in Nat /\ Len(rd_readable) \in Nat
      /\ RdChecking \in Nat /\ Len(rd_held) \in Nat /\ RdTaken \in Nat
  BY FirstInts
<1>2. FirstChecking = Len(got) + Len(rd_readable) /\ FirstChecking \in Nat
  BY <1>1 DEF FirstChecking
<1>3. FirstHeld = FirstChecking + RdChecking /\ FirstHeld \in Nat
  BY <1>1, <1>2, FirstTypes
<1>4. FirstTaken = FirstHeld + Len(rd_held) /\ FirstTaken \in Nat
  BY <1>1, <1>3, FirstTypes
<1>5. Acquired = FirstTaken + RdTaken /\ Acquired \in Nat
  BY <1>1, <1>4, ReaderWindow
<1>6. /\ Len(got) + Len(rd_readable) <= Acquired
      /\ Len(got) <= FirstChecking /\ FirstChecking + RdChecking <= Acquired
  BY <1>1, <1>2, <1>3, <1>4, <1>5
<1>7. Len(got) <= FirstHeld /\ FirstHeld + Len(rd_held) <= Acquired
  BY <1>1, <1>2, <1>3, <1>4, <1>5
<1>8. Len(got) <= FirstTaken /\ FirstTaken + RdTaken <= Acquired
  BY <1>1, <1>2, <1>3, <1>4, <1>5
<1>9. QED
  BY <1>1, <1>2, <1>3, <1>4, <1>5, <1>6, <1>7, <1>8

LEMMA WriterKeepsPlaces ==
    ASSUME IInv, Writer, NEW k \in Len(got) .. Acquired - 1
    PROVE  Place'[k] = Place[k]
<1>1. k \in Int
  BY FirstTypes, ReaderWindow
<1>2. CASE write_data_free
  <2>1. wr_pc = "free" /\ wr_rel_index' = NextIndex(wr_rel_index) /\ acked' = acked + 1
    BY <1>2 DEF write_data_free
  <2>2. acked < Released
    BY <2>1 DEF IInv, DataQueueInv
  <2>3. k \in acked + 1 .. acked + N
    BY <2>2, FirstTypes, ReaderWindow
  <2>4. Pos(k)' = Pos(k)
    BY <2>1, <2>3, WriterTypes, PosShift
  <2>5. QED
    BY <1>1, <2>4 DEF Place
<1>3. CASE write_buffer_release_seq
  BY <1>3 DEF write_buffer_release_seq, IInv, BuffQueueInv
<1>4. CASE wr_rel_index' = wr_rel_index /\ acked' = acked
  BY <1>4, SamePlace
<1>5. QED
  BY <1>2, <1>3, <1>4 DEF Writer, write_buffer_request, write_buffer_ready,
     write_buffer_result, fill, write_buffer_release, write_data_request_full,
     write_data_request_bad, write_data_request_exit, write_data_request_long,
     write_data_request, write_data_publish, write_data_ready,
     write_data_release, write_data_result, history, wr_chan

LEMMA WriterKeepsOrder ==
    ASSUME IInv, ReaderOrder, Writer
    PROVE  ReaderOrder'
<1>1. UNCHANGED <<rd_buff_q, rd_data_q, rd_held, rd_readable, got>>
  BY DEF Writer, write_buffer_request, write_buffer_ready,
     write_buffer_result, fill, write_buffer_release, write_buffer_release_seq,
     write_data_request_full, write_data_request_bad, write_data_request_exit,
     write_data_request_long, write_data_request, write_data_publish,
     write_data_ready, write_data_release, write_data_free, write_data_result,
     SubmitHead, reader, rd_chan, rd_app, history
<1>2. UNCHANGED <<FirstChecking, FirstHeld, FirstTaken>>
  BY <1>1 DEF FirstChecking, FirstHeld, FirstTaken, RdHolding, RdChecking, Buffers
<1> DEFINE moved == Place'
<1>3. \A k \in Len(got) .. Acquired - 1 : moved[k] = Place[k]
  BY WriterKeepsPlaces
<1> HIDE DEF moved
<1>4. RdNumbers
  BY ReaderNumbers
<1>5. \A i, j \in Int : /\ Len(got) <= i /\ j <= Acquired
                        => \A k \in i .. j - 1 : moved[k] = Place[k]
  <2>1. Len(got) \in Int /\ Acquired \in Int
    BY <1>4 DEF RdNumbers
  <2>2. QED
    BY <1>3, <2>1
<1>6. HeldFrom(Len(got), rd_readable, moved)
  <2>1. /\ Len(got) <= Len(got) /\ Len(got) + Len(rd_readable) <= Acquired
        /\ Len(got) \in Int /\ Len(got) + Len(rd_readable) \in Int
    BY ReaderChain
  <2>2. \A k \in Len(got) .. (Len(got) + Len(rd_readable)) - 1 : moved[k] = Place[k]
    BY <1>5, <2>1
  <2>3. QED
    BY <1>4, <2>1, <2>2, HeldMoved DEF ReaderOrder, RdNumbers
<1>7. HeldFrom(FirstHeld, rd_held, moved)
  <2>1. /\ Len(got) <= FirstHeld /\ FirstHeld + Len(rd_held) <= Acquired
        /\ FirstHeld \in Int /\ FirstHeld + Len(rd_held) \in Int
    BY ReaderChain
  <2>2. \A k \in FirstHeld .. (FirstHeld + Len(rd_held)) - 1 : moved[k] = Place[k]
    BY <1>5, <2>1
  <2>3. QED
    BY <1>4, <2>1, <2>2, HeldMoved DEF ReaderOrder, RdNumbers
<1>8. QueuedFrom(FirstChecking, rd_data_q, moved)
  <2>1. /\ Len(got) <= FirstChecking /\ FirstChecking + RdChecking <= Acquired
        /\ FirstChecking \in Int /\ FirstChecking + RdChecking \in Int
    BY ReaderChain
  <2>2. \A k \in FirstChecking .. (FirstChecking + RdChecking) - 1 : moved[k] = Place[k]
    BY <1>5, <2>1
  <2>3. QED
    BY <1>4, <2>1, <2>2, QueueMoved DEF ReaderOrder, RdNumbers, RdChecking
<1>9. QueuedFrom(FirstTaken, rd_buff_q, moved)
  <2>1. /\ Len(got) <= FirstTaken /\ FirstTaken + RdTaken <= Acquired
        /\ FirstTaken \in Int /\ FirstTaken + RdTaken \in Int
    BY ReaderChain
  <2>2. \A k \in FirstTaken .. (FirstTaken + RdTaken) - 1 : moved[k] = Place[k]
    BY <1>5, <2>1
  <2>3. QED
    BY <1>4, <2>1, <2>2, QueueMoved DEF ReaderOrder, RdNumbers, RdTaken
<1>10. QED
  BY <1>1, <1>2, <1>6, <1>7, <1>8, <1>9 DEF ReaderOrder, moved

\* Every buffer on the reader's side is the slot of a definite message, in
\* every reachable state: the buffers go through its two queues and the
\* application's hands in the order of the ring.
THEOREM ReaderInOrder ==
    ASSUME Disciplined
    PROVE  Spec => [](IInv /\ ReaderOrder)
<1>1. Init => IInv /\ ReaderOrder
  BY InitIInv, OrderInit
<1>2. ASSUME IInv, ReaderOrder, [Next]_vars
      PROVE  IInv' /\ ReaderOrder'
  <2>1. IInv'
    BY <1>2, NextIInv
  <2>2. CASE UNCHANGED vars
    <3>1. /\ UNCHANGED <<rd_buff_q, rd_data_q, rd_held, rd_readable, got>>
          /\ wr_rel_index' = wr_rel_index /\ acked' = acked
      BY <2>2 DEF vars, reader, rd_chan, rd_app, writer, wr_chan, history
    <3>2. Place' = Place
      BY <3>1, SamePlace
    <3>3. UNCHANGED <<FirstChecking, FirstHeld, FirstTaken>>
      BY <3>1 DEF FirstChecking, FirstHeld, FirstTaken, RdHolding, RdChecking, Buffers
    <3>4. QED
      BY <1>2, <2>1, <3>1, <3>2, <3>3 DEF ReaderOrder
  <2>3. QED
    BY <1>2, <2>1, <2>2, WriterKeepsOrder, ReaderKeepsOrder DEF Next
<1>3. QED
  BY <1>1, <1>2, PTL DEF Spec

-----------------------------------------------------------------------------
(***************************************************************************)
(* The slots of the two applications.                                      *)
(***************************************************************************)
LEMMA ReaderSlots ==
    ASSUME IInv, ReaderOrder, NEW b \in ReaderOwns
    PROVE  \E k \in acked .. Len(sent) - 1 : b = Pos(k)
<1>0. RdNumbers /\ b \in Slots /\ b # NoBuf
  BY ReaderNumbers, RingAssumption DEF ReaderOwns, Slots, NoBuf
<1>1. \A k \in Int : k >= Len(got) /\ k < Acquired
                        => k \in acked .. Len(sent) - 1 /\ Place[k] = Pos(k)
  BY <1>0, ReaderWindow DEF RdNumbers, Place
<1>2. CASE \E i \in 1..Len(rd_readable) : rd_readable[i] = b
  <2>1. PICK i \in 1..Len(rd_readable) : rd_readable[i] = b
    BY <1>2
  <2>2. b = Place[Len(got) + i - 1]
    BY <2>1 DEF ReaderOrder, HeldFrom
  <2>3. Len(got) + i - 1 >= Len(got) /\ Len(got) + i - 1 < Acquired
        /\ Len(got) + i - 1 \in Int
    BY ReaderChain
  <2>4. QED
    BY <1>1, <2>2, <2>3
<1>3. CASE \E i \in 1..Len(rd_held) : rd_held[i] = b
  <2>1. PICK i \in 1..Len(rd_held) : rd_held[i] = b
    BY <1>3
  <2>2. b = Place[FirstHeld + i - 1]
    BY <2>1 DEF ReaderOrder, HeldFrom
  <2>3. FirstHeld + i - 1 >= Len(got) /\ FirstHeld + i - 1 < Acquired
        /\ FirstHeld + i - 1 \in Int
    BY ReaderChain
  <2>4. QED
    BY <1>1, <2>2, <2>3
<1>4. CASE \E i \in 1..Len(rd_data_q) : rd_data_q[i].buf = b
  <2>1. PICK i \in 1..Len(rd_data_q) : rd_data_q[i].buf = b
    BY <1>4
  <2> DEFINE n == Buffers(rd_data_q, i - 1)
  <2>2. b = Place[FirstChecking + n]
    BY <1>0, <2>1 DEF ReaderOrder, QueuedFrom
  <2>3. n \in Nat /\ n < RdChecking
    BY <1>0, <2>1, EntryCounts, FirstTypes DEF RdNumbers
  <2> HIDE DEF n
  <2>4. FirstChecking + n >= Len(got) /\ FirstChecking + n < Acquired
        /\ FirstChecking + n \in Int
    BY <2>3, ReaderChain
  <2>5. QED
    BY <1>1, <2>2, <2>4
<1>5. CASE \E i \in 1..Len(rd_buff_q) : rd_buff_q[i].buf = b
  <2>1. PICK i \in 1..Len(rd_buff_q) : rd_buff_q[i].buf = b
    BY <1>5
  <2> DEFINE n == Buffers(rd_buff_q, i - 1)
  <2>2. b = Place[FirstTaken + n]
    BY <1>0, <2>1 DEF ReaderOrder, QueuedFrom
  <2>3. n \in Nat /\ n < RdTaken
    BY <1>0, <2>1, EntryCounts, FirstTypes DEF RdNumbers
  <2> HIDE DEF n
  <2>4. FirstTaken + n >= Len(got) /\ FirstTaken + n < Acquired
        /\ FirstTaken + n \in Int
    BY <2>3, ReaderChain
  <2>5. QED
    BY <1>1, <2>2, <2>4
<1>6. QED
  BY <1>2, <1>3, <1>4, <1>5 DEF ReaderOwns

LEMMA WriterSlots ==
    ASSUME IInv, NEW b \in WriterOwns
    PROVE  \E k \in Len(sent) .. acked + N - 1 : b = Pos(k)
<1>0. WrNumbers /\ WrBounds /\ b # NoBuf
  BY WriterNumbers, WriterBounds, RingAssumption DEF WriterOwns, Slots, NoBuf
<1>1. CASE \E i \in 1..Len(wr_held) : wr_held[i] = b
  <2>1. PICK i \in 1..Len(wr_held) : wr_held[i] = b
    BY <1>1
  <2>2. b = Pos(Len(sent) + Leaving + i - 1)
    BY <2>1, BuffEntries
  <2>3. Len(sent) + Leaving + i - 1 \in Len(sent) .. acked + N - 1
    BY <1>0, SMTT(30) DEF WrNumbers, WrBounds
  <2>4. QED
    BY <2>2, <2>3
<1>2. CASE \E i \in 1..Len(wr_buff_q) : wr_buff_q[i].buf = b
  <2>1. PICK i \in 1..Len(wr_buff_q) : wr_buff_q[i].buf = b
    BY <1>2
  <2> DEFINE n == Buffers(wr_buff_q, i - 1)
  <2>2. b = Pos(Granted + n)
    BY <1>0, <2>1, BuffEntries DEF BuffEntry
  <2>3. n \in Nat /\ n < Len(wr_buff_q)
    <3>1. i - 1 \in Nat /\ i <= Len(wr_buff_q)
      BY <1>0 DEF WrNumbers
    <3>2. n \in 0..i - 1
      BY <3>1, BuffersType
    <3> HIDE DEF n
    <3>3. QED
      BY <1>0, <3>1, <3>2 DEF WrNumbers
  <2> HIDE DEF n
  <2>4. Granted + n \in Len(sent) .. acked + N - 1
    BY <1>0, <2>3, SMTT(30) DEF WrNumbers, WrBounds
  <2>5. QED
    BY <2>2, <2>4
<1>3. CASE \E i \in 1..Len(wr_data_q) : /\ wr_data_q[i].buf = b
                                        /\ wr_data_q[i].status \in Rejected
  <2>1. PICK i \in 1..Len(wr_data_q) : /\ wr_data_q[i].buf = b
                                       /\ wr_data_q[i].status \in Rejected
    BY <1>3
  <2>2. b = Pos(Len(sent))
    BY <1>0, <2>1, DataEntries DEF DataEntry, Rejected
  <2>3. Leaving = 1
    BY <2>1 DEF Leaving, Failing
  <2>4. Len(sent) \in Len(sent) .. acked + N - 1
    BY <1>0, <2>3, SMTT(30) DEF WrNumbers, WrBounds
  <2>5. QED
    BY <2>2, <2>4
<1>4. QED
  BY <1>1, <1>2, <1>3 DEF WriterOwns

\* No slot is in the hands of both applications: what write_buffer_ready
\* hands out is never a slot that the reader acquired and has not released.
THEOREM NoSharedSlot ==
    ASSUME Disciplined
    PROVE  Spec => []NoDataRace
<1>1. ASSUME IInv, ReaderOrder PROVE NoDataRace
  <2> SUFFICES ASSUME NEW b \in WriterOwns, b \in ReaderOwns PROVE FALSE
    BY DEF NoDataRace
  <2>1. PICK j \in Len(sent) .. acked + N - 1 : b = Pos(j)
    BY <1>1, WriterSlots
  <2>2. PICK k \in acked .. Len(sent) - 1 : b = Pos(k)
    BY <1>1, ReaderSlots
  <2>3. /\ j \in acked .. acked + N - 1 /\ k \in acked .. acked + N - 1
        /\ j # k
    BY <1>1, ReaderWindow, WriterBounds DEF WrBounds
  <2>4. QED
    BY <1>1, <2>1, <2>2, <2>3, WriterTypes, PosInjective
<1>2. QED
  BY <1>1, ReaderInOrder, PTL

\* The channel accepts a release only of the oldest buffer: the one that a
\* reader which releases in the order it read has to release next.
ReleaseAccepted ==
    rd_pc = "idle" /\ rd_readable # <<>> => Head(rd_readable) = rd_rel_index

\* camio_chan_rd_buff_release never refuses such a reader (EWRONGBUFF), and
\* its buffers are never stuck.
THEOREM ReaderNeverRefused ==
    ASSUME Disciplined
    PROVE  Spec => []ReleaseAccepted
<1>1. ASSUME IInv, ReaderOrder PROVE ReleaseAccepted
  <2> SUFFICES ASSUME rd_pc = "idle", rd_readable # <<>>
               PROVE  Head(rd_readable) = rd_rel_index
    BY DEF ReleaseAccepted
  <2>1. Head(rd_readable) = Place[Len(got)] /\ Len(got) \in Int
    BY <1>1, FirstTypes, ReaderTypes, HeldPop DEF ReaderOrder
  <2>2. rd_rel_index = Pos(Len(got))
    BY <1>1 DEF IInv, IndexInv, Released
  <2>3. QED
    BY <2>1, <2>2 DEF Place
<1>2. QED
  BY <1>1, ReaderInOrder, PTL
=============================================================================
