--------------------------- MODULE BringChannelInv ---------------------------
(***************************************************************************)
(* The inductive invariant of BringChannel, for applications that keep at  *)
(* most N messages in circulation and release only what they have read.    *)
(*                                                                         *)
(* Four counters order every slot of the ring: acked <= Released <=        *)
(* Acquired <= Len(sent) <= acked + N.  Message k + 1 (k counts from 0)    *)
(* lives in slot Pos(k); the headers follow from where k lies between the  *)
(* counters, and every buffer in a queue or in an application's hands is   *)
(* the Pos of a definite k.                                                *)
(***************************************************************************)
EXTENDS BringChannel, FiniteSets

\* The applications the invariant is about: neither keeps more messages in
\* circulation than the ring has slots, and no unsent buffer is released.
Disciplined ==
    /\ WrHandles <= N
    /\ RdHandles <= N
    /\ ReleaseUnsent = FALSE

\* The slot of the message published as number k + 1, for k in the window
\* acked .. acked + N: counted from the writer's release index.
Pos(k) == LET d == wr_rel_index + (k - acked)
          IN  IF d >= N THEN d - N ELSE d

\* Slots the reader has marked RXD, and slots it has acquired, since the start.
Released == IF rd_pc = "release" THEN Len(got) - 1 ELSE Len(got)
Acquired == rd_sync_counter - BRING_SYNC_START

\* The entries with a buffer among the first n of a queue.
Buffers(q, n) == Cardinality({i \in 1..n : q[i].buf # NoBuf})

\* Buffers waiting in a queue to be handed to their application.
WrGranting == Buffers(wr_buff_q, Len(wr_buff_q))
RdTaken    == Buffers(rd_buff_q, Len(rd_buff_q))
RdChecking == Buffers(rd_data_q, Len(rd_data_q))
RdHolding  == Len(rd_held) + RdChecking + Len(rd_readable)

\* A slot that left wr_held is being published, or came back as a failure.
Leaving == IF wr_pc = "publish" \/ Failing THEN 1 ELSE 0

CounterInv ==
    /\ wr_sync_counter = Len(sent) + BRING_SYNC_START
    /\ acked <= Released /\ Released <= Acquired
    /\ Acquired <= Len(sent) /\ Len(sent) <= acked + N

IndexInv ==
    /\ wr_out_index = Pos(Len(sent))
    /\ rd_acq_index = Pos(Acquired)
    /\ rd_rel_index = Pos(Released)

\* Headers and contents, slot by slot: given back, sent, free, and what the
\* reader has noted of those it holds.
RxdInv ==
    \A k \in acked .. Released - 1 : seq_no[Pos(k)] = BRING_SYNC_BUFF_RXD
SentInv ==
    \A k \in Released .. Len(sent) - 1 :
        /\ seq_no[Pos(k)] = k + BRING_SYNC_START
        /\ mem[Pos(k)] = k + 1
        /\ data_size[Pos(k)] = DataLen[k + 1]
EmptyInv ==
    \A k \in Len(sent) .. acked + N - 1 :
        seq_no[Pos(k)] = BRING_SYNC_BUFF_EMPTY
LengthInv ==
    \A k \in Released .. Acquired - 1 : rd_len[Pos(k)] = DataLen[k + 1]
SlotInv == RxdInv /\ SentInv /\ EmptyInv /\ LengthInv

\* The messages are numbered in the order in which they are filled and sent.
MessageInv ==
    /\ last_msg = Len(sent) + Leaving + wr_filled
    /\ \A i \in 1..Len(sent) : sent[i] = i
    /\ \A i \in 1..wr_filled : mem[wr_held[i]] = Len(sent) + Leaving + i
    /\ Leaving = 1 => mem[Pos(Len(sent))] = Len(sent) + 1
    /\ wr_pc = "publish" =>
          data_size[Pos(Len(sent))] = DataLen[Len(sent) + 1]
    /\ \A i \in 1..Len(got) : got[i] = [msg |-> i, len |-> DataLen[i]]

\* Writes under way: the waiting entries are the messages acked + 1, ...; a
\* failed one is the last of all.
DataEntry(i) ==
    \/ /\ wr_data_q[i].status = "EBUFFRELEASED"
       /\ i <= wr_data_use
       /\ wr_data_q[i].buf = NoBuf
    \/ /\ wr_data_q[i].status = "ENOERROR"
       /\ i > wr_data_use
       /\ wr_data_q[i].buf = Pos(acked + i - wr_data_use - 1)
    \/ /\ wr_data_q[i].status \in Rejected
       /\ i = Len(wr_data_q)
       /\ wr_data_q[i].buf = Pos(Len(sent))
DataQueueInv ==
    /\ \A i \in 1..Len(wr_data_q) : DataEntry(i)
    /\ wr_pc = "publish" => ~Failing
    /\ IF Failing /\ wr_data_use = Len(wr_data_q)
       THEN Len(sent) = acked
       ELSE Len(wr_data_q) - wr_data_use = Len(sent) - acked + Leaving
    /\ wr_pc \in {"written", "free"} =>
          /\ wr_data_use < Len(wr_data_q)
          /\ wr_data_q[wr_data_use + 1].status = "ENOERROR"
          /\ acked < Released

\* Buffers the writing application holds or has been granted, in ring order.
Granted == Len(sent) + Leaving + Len(wr_held)
BuffEntry(i) ==
    /\ wr_buff_q[i].type \in {"REQ", "RES", "IGNORE"}
    /\ wr_buff_q[i].type = "RES" =>
          /\ i <= wr_buff_use
          /\ wr_buff_q[i].buf = Pos(Granted + Buffers(wr_buff_q, i - 1))
    /\ wr_buff_q[i].type # "RES" => wr_buff_q[i].buf = NoBuf
    /\ i <= wr_buff_use => wr_buff_q[i].type # "REQ"
BuffQueueInv ==
    /\ \A i \in 1..Len(wr_held) :
          wr_held[i] = Pos(Len(sent) + Leaving + i - 1)
    /\ \A i \in 1..Len(wr_buff_q) : BuffEntry(i)
    /\ wr_buff_acq_idx = Pos(Granted + WrGranting)
    /\ WrInUse <= N
    /\ wr_pc \notin {"exited", "release"}

\* Buffers on the reader's side: as many as it acquired and did not release.
ReadQueueInv ==
    /\ Acquired = Len(got) + RdHolding + RdTaken
    /\ \A i \in 1..Len(rd_buff_q) :
          /\ i > rd_buff_use => rd_buff_q[i].buf = NoBuf
          /\ rd_buff_q[i].type = "REQ" => rd_buff_q[i].buf = NoBuf
          /\ rd_buff_q[i].status # "EWRONGBUFF"
    /\ RdInUse <= N
    /\ rd_pc = "size" =>
          /\ rd_buff_use < Len(rd_buff_q)
          /\ rd_buff_q[rd_buff_use + 1].type = "REQ"
          /\ Acquired < Len(sent)
    /\ rd_pc = "release" => Len(got) > 0

IInv ==
    /\ TypeOK
    /\ CounterInv
    /\ IndexInv
    /\ SlotInv
    /\ MessageInv
    /\ DataQueueInv
    /\ BuffQueueInv
    /\ ReadQueueInv
==============================================================================
