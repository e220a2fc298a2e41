---------------------------- MODULE BringChannel ----------------------------
(***************************************************************************)
(* The bring driver's channel (src/src/drivers/bring/bring_channel.c): a   *)
(* ring of N slots in memory shared by two processes.  The client process  *)
(* is the writer, the server process the reader; this is the direction in  *)
(* which the two ends really share a ring.                                 *)
(*                                                                         *)
(* A slot has a header of two words.  data_size is written before seq_no,  *)
(* and every access to a header is a step of its own here, so the handlers *)
(* of the two processes interleave between any two accesses; what lies     *)
(* between two accesses is local to one process and belongs to the step.   *)
(* The accesses are volatile and the build targets x86: they take effect   *)
(* in program order.                                                       *)
(*                                                                         *)
(* Each handler takes a vector of messages.  The queues are local to one   *)
(* process, so a call with a vector of k messages is k calls with one      *)
(* message each, and calls carry one message here.  A loop over a queue    *)
(* keeps its iterations: one iteration is one step, and the process stays  *)
(* inside the handler until the loop ends.  A *_result call that finds     *)
(* nothing in use runs the *_ready loop first; that is the ready loop's    *)
(* steps followed by the result step.                                      *)
(***************************************************************************)
EXTENDS Integers, Sequences

CONSTANTS
    N,              \* number of slots in the ring (params.slots)
    MaxMsgs,        \* bound: how many messages the writing application fills
    MaxLen,         \* __mem_len, the bytes a slot holds besides its header
    DataLen,        \* data_len the application gives message m
    WrHandles,      \* messages the writing application keeps in circulation
    RdHandles,      \* messages the reading application keeps in circulation
    BuffKinds,      \* what it puts in a buffer request: "REQ", "IGNORE", "BAD"
    DataKinds,      \* what it puts in a read data request, same values
    SendKinds,      \* what it puts in a write data request: "REQ", "BAD", "LONG"
    ReleaseUnsent,  \* may it release a write buffer that it has not sent?
    Polled          \* does it poll wr_data_ready, or only ask for results?

ASSUME RingAssumption ==
    /\ N \in Nat \ {0}
    /\ MaxMsgs \in Nat
    /\ MaxLen \in Nat
    /\ DataLen \in [1..MaxMsgs -> 0..MaxLen]

ASSUME ApplicationAssumption ==
    /\ WrHandles \in Nat
    /\ RdHandles \in Nat
    /\ BuffKinds \subseteq {"REQ", "IGNORE", "BAD"}
    /\ DataKinds \subseteq {"REQ", "IGNORE", "BAD"}
    /\ SendKinds \subseteq {"REQ", "BAD", "LONG"}
    /\ ReleaseUnsent \in BOOLEAN
    /\ Polled \in BOOLEAN

BRING_SYNC_BUFF_EMPTY == 0
BRING_SYNC_BUFF_RXD   == 1
BRING_SYNC_START      == 2

Slots == 0 .. N - 1
NoBuf == -1         \* a NULL buffer pointer

\* "index++, but loop around": how every index of the ring moves.
NextIndexUnwrapped(i) == IF i >= N THEN 0 ELSE i + 1    \* mutant
NextIndex(i) == IF i + 1 >= N THEN 0 ELSE i + 1

VARIABLES
    (* shared memory: the slot headers and the slots' contents *)
    seq_no, data_size, mem,
    (* the writer's private state *)
    wr_pc, wr_buff_q, wr_buff_use, wr_data_q, wr_data_use,
    wr_sync_counter, wr_buff_acq_idx, wr_out_index, wr_rel_index,
    (* the writing application: buffers it holds, how many of them (from
       the front) it has filled, the number of the last message it filled *)
    wr_held, wr_filled, last_msg,
    (* the reader's private state *)
    rd_pc, rd_buff_q, rd_buff_use, rd_data_q, rd_data_use,
    rd_sync_counter, rd_acq_index, rd_rel_index, rd_len,
    (* the reading application: buffers it got, buffers whose data it got *)
    rd_held, rd_readable,
    (* history: messages published, messages consumed, writes completed *)
    sent, got, acked

shared  == <<seq_no, data_size, mem>>
wr_chan == <<wr_pc, wr_buff_q, wr_buff_use, wr_data_q, wr_data_use,
             wr_sync_counter, wr_buff_acq_idx, wr_out_index, wr_rel_index>>
wr_app  == <<wr_held, wr_filled, last_msg>>
rd_chan == <<rd_pc, rd_buff_q, rd_buff_use, rd_data_q, rd_data_use,
             rd_sync_counter, rd_acq_index, rd_rel_index, rd_len>>
rd_app  == <<rd_held, rd_readable>>
history == <<sent, got, acked>>
writer  == <<wr_chan, wr_app>>
reader  == <<rd_chan, rd_app>>
vars    == <<shared, writer, reader, history>>

-----------------------------------------------------------------------------
(***************************************************************************)
(* Messages in the four queues.  "BAD" is a request whose offset hints or  *)
(* buffer fail the handler's checks; "RES" is a response.  The first *_use *)
(* entries of a queue are in use (cbq_use_front), the others wait.         *)
(***************************************************************************)
MsgType == {"REQ", "IGNORE", "BAD", "RES"}
Status  == {"ENOERROR", "EINVALID", "ETOOMANY", "EWRONGBUFF",
            "EBUFFRELEASED"}
Msg     == [type : MsgType, buf : Slots \cup {NoBuf}, status : Status]

Request(kind, b)    == [type |-> kind, buf |-> b, status |-> "ENOERROR"]
Response(b, status) == [type |-> "RES", buf |-> b, status |-> status]

Init ==
    /\ seq_no = [s \in Slots |-> BRING_SYNC_BUFF_EMPTY]
    /\ data_size = [s \in Slots |-> 0]
    /\ mem = [s \in Slots |-> 0]
    /\ wr_pc = "idle" /\ rd_pc = "idle"
    /\ wr_buff_q = <<>> /\ wr_data_q = <<>>
    /\ rd_buff_q = <<>> /\ rd_data_q = <<>>
    /\ wr_buff_use = 0 /\ wr_data_use = 0
    /\ rd_buff_use = 0 /\ rd_data_use = 0
    /\ wr_sync_counter = BRING_SYNC_START
    /\ rd_sync_counter = BRING_SYNC_START
    /\ wr_buff_acq_idx = 0 /\ wr_out_index = 0 /\ wr_rel_index = 0
    /\ rd_acq_index = 0 /\ rd_rel_index = 0
    /\ rd_len = [s \in Slots |-> 0]
    /\ wr_held = <<>> /\ wr_filled = 0 /\ last_msg = 0
    /\ rd_held = <<>> /\ rd_readable = <<>>
    /\ sent = <<>> /\ got = <<>> /\ acked = 0

-----------------------------------------------------------------------------
(***************************************************************************)
(* The writer: buffers.                                                    *)
(***************************************************************************)

\* Messages the writing application has in circulation.
WrInUse == Len(wr_buff_q) + Len(wr_held) + Len(wr_data_q)

\* Pushes one request; a full queue returns ETOOMANY and changes nothing.
write_buffer_request ==
    /\ wr_pc = "idle"
    /\ WrInUse < WrHandles
    /\ Len(wr_buff_q) < N
    /\ \E kind \in BuffKinds \ {"BAD"} :
          wr_buff_q' = Append(wr_buff_q, Request(kind, NoBuf))
    /\ UNCHANGED <<shared, wr_pc, wr_buff_use, wr_data_q, wr_data_use,
                   wr_sync_counter, wr_buff_acq_idx, wr_out_index,
                   wr_rel_index, wr_app, reader, history>>

\* The slot is free to be handed out, and the index moves past it.
Free(s) == seq_no[s] = BRING_SYNC_BUFF_EMPTY
SameSlotNext == wr_buff_acq_idx                          \* mutant
NextToAcquire == NextIndex(wr_buff_acq_idx)

\* One iteration of the loop over the waiting requests.  The slot is left
\* EMPTY: only sending it changes its header.
write_buffer_ready ==
    /\ wr_pc \in {"idle", "buff_ready"}
    /\ LET i    == wr_buff_use + 1
           b    == wr_buff_acq_idx
           more == i <= Len(wr_buff_q)
       IN  IF more /\ wr_buff_q[i].type # "REQ" THEN
             /\ wr_pc' = "buff_ready"
             /\ wr_buff_use' = i
             /\ UNCHANGED <<wr_buff_q, wr_buff_acq_idx>>
           ELSE IF more /\ Free(b) THEN
             /\ wr_pc' = "buff_ready"
             /\ wr_buff_use' = i
             /\ wr_buff_q' = [wr_buff_q EXCEPT ![i] = Response(b, "ENOERROR")]
             /\ wr_buff_acq_idx' = NextToAcquire
           ELSE
             /\ wr_pc' = "idle"
             /\ UNCHANGED <<wr_buff_use, wr_buff_q, wr_buff_acq_idx>>
    /\ UNCHANGED <<shared, wr_data_q, wr_data_use, wr_sync_counter,
                   wr_out_index, wr_rel_index, wr_app, reader, history>>

\* Hands the oldest response to the application, which then holds its buffer.
write_buffer_result ==
    /\ wr_pc = "idle"
    /\ wr_buff_use > 0
    /\ wr_buff_q' = Tail(wr_buff_q)
    /\ wr_buff_use' = wr_buff_use - 1
    /\ wr_held' = IF Head(wr_buff_q).type = "RES"
                  THEN Append(wr_held, Head(wr_buff_q).buf)
                  ELSE wr_held
    /\ UNCHANGED <<shared, wr_pc, wr_data_q, wr_data_use, wr_sync_counter,
                   wr_buff_acq_idx, wr_out_index, wr_rel_index,
                   wr_filled, last_msg, reader, history>>

\* The application writes the next message into the oldest unfilled buffer.
fill ==
    /\ wr_pc = "idle"
    /\ wr_filled < Len(wr_held)
    /\ last_msg < MaxMsgs
    /\ last_msg' = last_msg + 1
    /\ wr_filled' = wr_filled + 1
    /\ mem' = [mem EXCEPT ![wr_held[wr_filled + 1]] = last_msg + 1]
    /\ UNCHANGED <<seq_no, data_size, wr_chan, wr_held, reader, history>>

\* camio_chan_wr_buff_release called by the application: first header word.
\* The call writes through rd_buffs, on the client the same ring.  A buffer
\* other than wr_rel_index gets EWRONGBUFF and changes nothing.
write_buffer_release ==
    /\ ReleaseUnsent
    /\ wr_pc = "idle"
    /\ wr_held # <<>>
    /\ Head(wr_held) = wr_rel_index
    /\ data_size' = [data_size EXCEPT ![wr_rel_index] = 0]
    /\ wr_pc' = "release"
    /\ wr_held' = Tail(wr_held)
    /\ wr_filled' = IF wr_filled = 0 THEN 0 ELSE wr_filled - 1
    /\ UNCHANGED <<seq_no, mem, wr_buff_q, wr_buff_use, wr_data_q,
                   wr_data_use, wr_sync_counter, wr_buff_acq_idx,
                   wr_out_index, wr_rel_index, last_msg, reader, history>>

\* ... and the second, after which the call returns.
write_buffer_release_seq ==
    /\ wr_pc = "release"
    /\ seq_no' = [seq_no EXCEPT ![wr_rel_index] = BRING_SYNC_BUFF_EMPTY]
    /\ wr_rel_index' = NextIndex(wr_rel_index)
    /\ wr_pc' = "idle"
    /\ UNCHANGED <<data_size, mem, wr_buff_q, wr_buff_use, wr_data_q,
                   wr_data_use, wr_sync_counter, wr_buff_acq_idx,
                   wr_out_index, wr_app, reader, history>>

-----------------------------------------------------------------------------
(***************************************************************************)
(* The writer: sending.  The application submits buffers in the order it   *)
(* got them; while a failed write is on its way back to it, it waits,      *)
(* because that buffer has to be sent before the later ones.               *)
(***************************************************************************)
Rejected == {"EINVALID", "ETOOMANY"}
Failing  == \E i \in 1..Len(wr_data_q) : wr_data_q[i].status \in Rejected

QueueFullEarly == Len(wr_data_q) >= N - 1                \* mutant
QueueFull == Len(wr_data_q) >= N

SubmitHead ==
    /\ wr_pc = "idle"
    /\ wr_filled > 0
    /\ ~Failing
    /\ wr_held' = Tail(wr_held)
    /\ wr_filled' = wr_filled - 1

\* The queue is full: the vector is trimmed to nothing, the loop that would
\* store the number of accepted messages never runs, and the caller is told
\* ENOERROR with its own vector length.
write_data_request_full ==
    /\ SubmitHead
    /\ QueueFull
    /\ UNCHANGED <<shared, wr_chan, last_msg, reader, history>>

\* Bad offset hints: queued with EINVALID, nothing is sent.
write_data_request_bad ==
    /\ SubmitHead
    /\ ~QueueFull
    /\ "BAD" \in SendKinds
    /\ wr_data_q' = Append(wr_data_q, Response(Head(wr_held), "EINVALID"))
    /\ UNCHANGED <<shared, wr_pc, wr_buff_q, wr_buff_use, wr_data_use,
                   wr_sync_counter, wr_buff_acq_idx, wr_out_index,
                   wr_rel_index, last_msg, reader, history>>

\* A buffer that is not the next one to send ends the process: exit(1).
write_data_request_exit ==
    /\ SubmitHead
    /\ ~QueueFull
    /\ Head(wr_held) # wr_out_index
    /\ wr_pc' = "exited"
    /\ wr_data_q' = Append(wr_data_q, Response(Head(wr_held), "EWRONGBUFF"))
    /\ UNCHANGED <<shared, wr_buff_q, wr_buff_use, wr_data_use,
                   wr_sync_counter, wr_buff_acq_idx, wr_out_index,
                   wr_rel_index, last_msg, reader, history>>

\* data_len exceeds the slot: queued with ETOOMANY, the call fails.
write_data_request_long ==
    /\ SubmitHead
    /\ ~QueueFull
    /\ Head(wr_held) = wr_out_index
    /\ "LONG" \in SendKinds
    /\ wr_data_q' = Append(wr_data_q, Response(Head(wr_held), "ETOOMANY"))
    /\ UNCHANGED <<shared, wr_pc, wr_buff_q, wr_buff_use, wr_data_use,
                   wr_sync_counter, wr_buff_acq_idx, wr_out_index,
                   wr_rel_index, last_msg, reader, history>>

\* An acceptable message: queued, then set_head writes data_size ...
write_data_request ==
    /\ SubmitHead
    /\ ~QueueFull
    /\ Head(wr_held) = wr_out_index
    /\ wr_data_q' = Append(wr_data_q, Response(wr_out_index, "ENOERROR"))
    /\ data_size' = [data_size EXCEPT ![wr_out_index] =
                                            DataLen[mem[wr_out_index]]]
    /\ wr_pc' = "publish"
    /\ UNCHANGED <<seq_no, mem, wr_buff_q, wr_buff_use, wr_data_use,
                   wr_sync_counter, wr_buff_acq_idx, wr_out_index,
                   wr_rel_index, last_msg, reader, history>>

\* ... and seq_no, which makes the message visible to the reader.
write_data_publish ==
    /\ wr_pc = "publish"
    /\ seq_no' = [seq_no EXCEPT ![wr_out_index] = wr_sync_counter]
    /\ sent' = Append(sent, mem[wr_out_index])
    /\ wr_sync_counter' = wr_sync_counter + 1
    /\ wr_out_index' = NextIndex(wr_out_index)
    /\ wr_pc' = "idle"
    /\ UNCHANGED <<data_size, mem, wr_buff_q, wr_buff_use, wr_data_q,
                   wr_data_use, wr_buff_acq_idx, wr_rel_index, wr_app,
                   reader, got, acked>>

-----------------------------------------------------------------------------
(***************************************************************************)
(* The writer: completions.  A slot the reader marked RXD is released on   *)
(* the spot (auto release), which needs it to be the oldest one.           *)
(***************************************************************************)
DataIter == wr_data_use + 1             \* the entry the loop looks at
DataBuf  == wr_data_q[DataIter].buf

\* The reader is done with the slot.
ReceivedWhenSent(s) == seq_no[s] # BRING_SYNC_BUFF_EMPTY \* mutant
ReceivedNever(s) == seq_no[s] = BRING_SYNC_BUFF_EMPTY    \* mutant
Received(s) == seq_no[s] = BRING_SYNC_BUFF_RXD

\* One iteration up to the read of seq_no.
write_data_ready ==
    /\ Polled
    /\ wr_pc \in {"idle", "data_ready"}
    /\ LET more == DataIter <= Len(wr_data_q)
       IN  IF more /\ wr_data_q[DataIter].status # "ENOERROR" THEN
             /\ wr_pc' = "data_ready"
             /\ wr_data_use' = DataIter
           ELSE IF more /\ Received(DataBuf) THEN
             /\ wr_pc' = "written"
             /\ UNCHANGED wr_data_use
           ELSE
             /\ wr_pc' = "idle"
             /\ UNCHANGED wr_data_use
    /\ UNCHANGED <<shared, wr_buff_q, wr_buff_use, wr_data_q,
                   wr_sync_counter, wr_buff_acq_idx, wr_out_index,
                   wr_rel_index, wr_app, reader, history>>

\* The release checks the order of the slots; an error leaves the handler
\* with the entry in use.  Otherwise its set_head writes data_size = 0 ...
write_data_release ==
    /\ wr_pc = "written"
    /\ IF DataBuf # wr_rel_index THEN
         /\ wr_pc' = "idle"
         /\ wr_data_use' = DataIter
         /\ UNCHANGED data_size
       ELSE
         /\ wr_pc' = "free"
         /\ data_size' = [data_size EXCEPT ![wr_rel_index] = 0]
         /\ UNCHANGED wr_data_use
    /\ UNCHANGED <<seq_no, mem, wr_buff_q, wr_buff_use, wr_data_q,
                   wr_sync_counter, wr_buff_acq_idx, wr_out_index,
                   wr_rel_index, wr_app, reader, history>>

\* ... and seq_no; the write is complete and its buffer is gone.
write_data_free ==
    /\ wr_pc = "free"
    /\ seq_no' = [seq_no EXCEPT ![wr_rel_index] = BRING_SYNC_BUFF_EMPTY]
    /\ wr_rel_index' = NextIndex(wr_rel_index)
    /\ wr_data_q' = [wr_data_q EXCEPT ![DataIter] =
                                        Response(NoBuf, "EBUFFRELEASED")]
    /\ wr_data_use' = DataIter
    /\ acked' = acked + 1
    /\ wr_pc' = "data_ready"
    /\ UNCHANGED <<data_size, mem, wr_buff_q, wr_buff_use, wr_sync_counter,
                   wr_buff_acq_idx, wr_out_index, wr_app, reader, sent, got>>

\* Hands the oldest finished write to the application; a failed one returns
\* its buffer, which is then the next to be sent.  When nothing is in use
\* the code runs write_buffer_ready, not write_data_ready.
write_data_result ==
    /\ wr_pc = "idle"
    /\ wr_data_use > 0
    /\ wr_data_q' = Tail(wr_data_q)
    /\ wr_data_use' = wr_data_use - 1
    /\ IF Head(wr_data_q).buf = NoBuf
       THEN UNCHANGED <<wr_held, wr_filled>>
       ELSE /\ wr_held' = <<Head(wr_data_q).buf>> \o wr_held
            /\ wr_filled' = wr_filled + 1
    /\ UNCHANGED <<shared, wr_pc, wr_buff_q, wr_buff_use, wr_sync_counter,
                   wr_buff_acq_idx, wr_out_index, wr_rel_index, last_msg,
                   reader, history>>

-----------------------------------------------------------------------------
(***************************************************************************)
(* The reader: buffers.                                                    *)
(***************************************************************************)

\* Messages the reading application has in circulation.
RdInUse ==
    Len(rd_buff_q) + Len(rd_held) + Len(rd_data_q) + Len(rd_readable)

read_buffer_request ==
    /\ rd_pc = "idle"
    /\ RdInUse < RdHandles
    /\ Len(rd_buff_q) < N
    /\ \E kind \in BuffKinds :
          rd_buff_q' = Append(rd_buff_q, Request(kind, NoBuf))
    /\ UNCHANGED <<shared, writer, rd_pc, rd_buff_use, rd_data_q,
                   rd_data_use, rd_sync_counter, rd_acq_index, rd_rel_index,
                   rd_len, rd_app, history>>

\* The loop is at an entry that it can finish without looking at the ring:
\* a request with bad hints, or one that is not a request (any more).
SkipReadRequest(i) ==
    rd_buff_q' = IF rd_buff_q[i].type = "BAD"
                 THEN [rd_buff_q EXCEPT ![i] = Response(NoBuf, "EINVALID")]
                 ELSE rd_buff_q

\* One iteration up to the read of seq_no.  A sequence number other than the
\* expected one ends the handler with the entry in use.
read_buffer_ready ==
    /\ rd_pc \in {"idle", "buff_ready"}
    /\ LET i    == rd_buff_use + 1
           more == i <= Len(rd_buff_q)
           seq  == seq_no[rd_acq_index]
       IN  IF more /\ rd_buff_q[i].type # "REQ" THEN
             /\ rd_pc' = "buff_ready"
             /\ rd_buff_use' = i
             /\ SkipReadRequest(i)
           ELSE IF ~more \/ seq \in {BRING_SYNC_BUFF_EMPTY,
                                     BRING_SYNC_BUFF_RXD} THEN
             /\ rd_pc' = "idle"
             /\ UNCHANGED <<rd_buff_use, rd_buff_q>>
           ELSE IF seq # rd_sync_counter THEN
             /\ rd_pc' = "idle"
             /\ rd_buff_use' = i
             /\ rd_buff_q' = [rd_buff_q EXCEPT ![i] =
                                            Response(NoBuf, "EWRONGBUFF")]
           ELSE
             /\ rd_pc' = "size"
             /\ UNCHANGED <<rd_buff_use, rd_buff_q>>
    /\ UNCHANGED <<shared, writer, rd_data_q, rd_data_use, rd_sync_counter,
                   rd_acq_index, rd_rel_index, rd_len, rd_app, history>>

\* The read of data_size, and the rest of the iteration.  A size that does
\* not fit the slot ends the loop with the entry answered but not in use.
read_buffer_size ==
    /\ rd_pc = "size"
    /\ LET i == rd_buff_use + 1
           b == rd_acq_index
       IN  IF data_size[b] > MaxLen THEN
             /\ rd_pc' = "idle"
             /\ rd_buff_q' = [rd_buff_q EXCEPT ![i] =
                                            Response(NoBuf, "ETOOMANY")]
             /\ UNCHANGED <<rd_buff_use, rd_len, rd_sync_counter,
                            rd_acq_index>>
           ELSE
             /\ rd_pc' = "buff_ready"
             /\ rd_buff_q' = [rd_buff_q EXCEPT ![i] = Response(b, "ENOERROR")]
             /\ rd_buff_use' = i
             /\ rd_len' = [rd_len EXCEPT ![b] = data_size[b]]
             /\ rd_sync_counter' = rd_sync_counter + 1
             /\ rd_acq_index' = NextIndex(b)
    /\ UNCHANGED <<shared, writer, rd_data_q, rd_data_use, rd_rel_index,
                   rd_app, history>>

\* Every response is returned with status ENOERROR, whatever the loop had
\* stored in it; the application holds the buffer if there is one.
read_buffer_result ==
    /\ rd_pc = "idle"
    /\ rd_buff_use > 0
    /\ rd_buff_q' = Tail(rd_buff_q)
    /\ rd_buff_use' = rd_buff_use - 1
    /\ rd_held' = IF Head(rd_buff_q).buf # NoBuf
                  THEN Append(rd_held, Head(rd_buff_q).buf)
                  ELSE rd_held
    /\ UNCHANGED <<shared, writer, rd_pc, rd_data_q, rd_data_use,
                   rd_sync_counter, rd_acq_index, rd_rel_index, rd_len,
                   rd_readable, history>>

-----------------------------------------------------------------------------
(***************************************************************************)
(* The reader: data.  The data is in the buffer already, so these handlers *)
(* only check the request and pass the buffer back; no step of them        *)
(* touches shared memory.                                                  *)
(***************************************************************************)
PushReadData(entry) ==
    /\ rd_pc = "idle"
    /\ Len(rd_data_q) < N
    /\ rd_data_q' = Append(rd_data_q, entry)
    /\ UNCHANGED <<shared, writer, rd_pc, rd_buff_q, rd_buff_use,
                   rd_data_use, rd_sync_counter, rd_acq_index, rd_rel_index,
                   rd_len, rd_readable, history>>

\* The application asks for the data of the oldest buffer it holds.
read_data_request ==
    /\ rd_held # <<>>
    /\ rd_held' = Tail(rd_held)
    /\ PushReadData(Request("REQ", Head(rd_held)))

\* It passes a message without a buffer of this channel, or one to ignore.
read_data_request_bad ==
    /\ RdInUse < RdHandles
    /\ \E kind \in DataKinds \ {"REQ"} : PushReadData(Request(kind, NoBuf))
    /\ UNCHANGED rd_held

\* What the loop makes of one waiting entry.
Checked(m) ==
    CASE m.type = "REQ" -> Response(m.buf, "ENOERROR")
      [] m.type = "BAD" -> Response(m.buf, "EINVALID")
      [] OTHER          -> m

\* The whole loop: it never breaks, so every waiting entry is answered.
read_data_ready ==
    /\ rd_pc = "idle"
    /\ rd_data_use' = Len(rd_data_q)
    /\ rd_data_q' = [i \in 1..Len(rd_data_q) |->
                        IF i > rd_data_use THEN Checked(rd_data_q[i])
                                           ELSE rd_data_q[i]]
    /\ UNCHANGED <<shared, writer, rd_pc, rd_buff_q, rd_buff_use,
                   rd_sync_counter, rd_acq_index, rd_rel_index, rd_len,
                   rd_app, history>>

\* The response comes back as ECANNOTREUSE; its data is now readable.
read_data_result ==
    /\ rd_pc = "idle"
    /\ rd_data_use > 0
    /\ rd_data_q' = Tail(rd_data_q)
    /\ rd_data_use' = rd_data_use - 1
    /\ rd_readable' = IF Head(rd_data_q).buf # NoBuf
                      THEN Append(rd_readable, Head(rd_data_q).buf)
                      ELSE rd_readable
    /\ UNCHANGED <<shared, writer, rd_pc, rd_buff_q, rd_buff_use,
                   rd_sync_counter, rd_acq_index, rd_rel_index, rd_len,
                   rd_held, history>>

\* The application has consumed the data of a buffer and releases it: only
\* rd_rel_index is accepted.  set_head writes data_size ...
read_buffer_release ==
    /\ rd_pc = "idle"
    /\ rd_readable # <<>>
    /\ Head(rd_readable) = rd_rel_index
    /\ rd_readable' = Tail(rd_readable)
    /\ got' = Append(got, [msg |-> mem[rd_rel_index],
                           len |-> rd_len[rd_rel_index]])
    /\ data_size' = [data_size EXCEPT ![rd_rel_index] = rd_len[rd_rel_index]]
    /\ rd_pc' = "release"
    /\ UNCHANGED <<seq_no, mem, writer, rd_buff_q, rd_buff_use, rd_data_q,
                   rd_data_use, rd_sync_counter, rd_acq_index, rd_rel_index,
                   rd_len, rd_held, sent, acked>>

\* ... and seq_no, which hands the slot back to the writer.
read_buffer_release_seq ==
    /\ rd_pc = "release"
    /\ seq_no' = [seq_no EXCEPT ![rd_rel_index] = BRING_SYNC_BUFF_RXD]
    /\ rd_rel_index' = NextIndex(rd_rel_index)
    /\ rd_pc' = "idle"
    /\ UNCHANGED <<data_size, mem, writer, rd_buff_q, rd_buff_use, rd_data_q,
                   rd_data_use, rd_sync_counter, rd_acq_index, rd_len,
                   rd_app, history>>

-----------------------------------------------------------------------------
Writer ==
    \/ write_buffer_request \/ write_buffer_ready \/ write_buffer_result
    \/ fill
    \/ write_buffer_release \/ write_buffer_release_seq
    \/ write_data_request_full \/ write_data_request_bad
    \/ write_data_request_exit \/ write_data_request_long
    \/ write_data_request \/ write_data_publish
    \/ write_data_ready \/ write_data_release \/ write_data_free
    \/ write_data_result

Reader ==
    \/ read_buffer_request \/ read_buffer_ready \/ read_buffer_size
    \/ read_buffer_result
    \/ read_data_request \/ read_data_request_bad
    \/ read_data_ready \/ read_data_result
    \/ read_buffer_release \/ read_buffer_release_seq

Next == Writer \/ Reader

Spec == Init /\ [][Next]_vars

(***************************************************************************)
(* Both processes poll: each keeps calling the handlers of its channel     *)
(* (camio_perf's main loops run camio_mux_select for ever), so a process   *)
(* that can do something eventually does.                                  *)
(***************************************************************************)
Fairness == WF_vars(Writer) /\ WF_vars(Reader)
FairSpec == Spec /\ Fairness

-----------------------------------------------------------------------------
(***************************************************************************)
(* Properties.                                                             *)
(***************************************************************************)

SharedTypeOK ==
    /\ seq_no \in [Slots -> Nat]
    /\ data_size \in [Slots -> 0..MaxLen]
    /\ mem \in [Slots -> 0..MaxMsgs]
WriterTypeOK ==
    /\ wr_pc \in {"idle", "buff_ready", "release", "publish", "data_ready",
                  "written", "free", "exited"}
    /\ wr_buff_q \in Seq(Msg) /\ Len(wr_buff_q) <= N
    /\ wr_data_q \in Seq(Msg) /\ Len(wr_data_q) <= N
    /\ wr_buff_use \in 0..Len(wr_buff_q)
    /\ wr_data_use \in 0..Len(wr_data_q)
    /\ wr_sync_counter \in Nat
    /\ wr_buff_acq_idx \in Slots /\ wr_out_index \in Slots
    /\ wr_rel_index \in Slots
    /\ wr_held \in Seq(Slots)
    /\ wr_filled \in 0..Len(wr_held)
    /\ last_msg \in 0..MaxMsgs
ReaderTypeOK ==
    /\ rd_pc \in {"idle", "buff_ready", "size", "release"}
    /\ rd_buff_q \in Seq(Msg) /\ Len(rd_buff_q) <= N
    /\ rd_data_q \in Seq(Msg) /\ Len(rd_data_q) <= N
    /\ rd_buff_use \in 0..Len(rd_buff_q)
    /\ rd_data_use \in 0..Len(rd_data_q)
    /\ rd_sync_counter \in Nat
    /\ rd_acq_index \in Slots /\ rd_rel_index \in Slots
    /\ rd_len \in [Slots -> 0..MaxLen]
    /\ rd_held \in Seq(Slots) /\ rd_readable \in Seq(Slots)
HistoryTypeOK ==
    /\ sent \in Seq(0..MaxMsgs)
    /\ got \in Seq([msg : 0..MaxMsgs, len : 0..MaxLen])
    /\ acked \in Nat

\* Every variable keeps its type: the indices stay inside the ring, no queue
\* outgrows it, no loop counts more entries in use than there are.
TypeOK == SharedTypeOK /\ WriterTypeOK /\ ReaderTypeOK /\ HistoryTypeOK

\* What the reading application consumes is what the writing one sent: every
\* message once, in order, with its own contents and its own length, though
\* the two header words are written and read one at a time.
InOrderDelivery ==
    /\ Len(got) <= Len(sent)
    /\ \A i \in 1..Len(got) :
          got[i] = [msg |-> sent[i], len |-> DataLen[sent[i]]]

\* A write completes (EBUFFRELEASED) only after the reader has consumed that
\* message and released its slot; at most N messages are between the two.
CompletedWasConsumed ==
    /\ acked <= Len(got)
    /\ Len(sent) - acked <= N

\* "Ring synchronization error. This should not happen with a blocking ring"
\* (bring_channel.c:200): the reader never finds an unexpected sequence number.
NoRingSyncError ==
    \A i \in 1..Len(rd_buff_q) : rd_buff_q[i].status # "EWRONGBUFF"

\* The writer never reaches exit(1): an application that sends its buffers in
\* the order it got them is never told that it did not.
NoExit == wr_pc # "exited"

\* Slots in the hands of the writing application (or about to be: granted, or
\* on the way back from a failed write), and in those of the reading one.
WriterOwns ==
    {b \in Slots :
        \/ \E i \in 1..Len(wr_held)   : wr_held[i] = b
        \/ \E i \in 1..Len(wr_buff_q) : wr_buff_q[i].buf = b
        \/ \E i \in 1..Len(wr_data_q) : /\ wr_data_q[i].buf = b
                                        /\ wr_data_q[i].status \in Rejected}
ReaderOwns ==
    {b \in Slots :
        \/ \E i \in 1..Len(rd_buff_q)   : rd_buff_q[i].buf = b
        \/ \E i \in 1..Len(rd_held)     : rd_held[i] = b
        \/ \E i \in 1..Len(rd_data_q)   : rd_data_q[i].buf = b
        \/ \E i \in 1..Len(rd_readable) : rd_readable[i] = b}

\* No slot is in the hands of both applications: the writer cannot change
\* data that the reader is looking at, and vice versa.
NoDataRace == WriterOwns \cap ReaderOwns = {}

\* No slot is handed to the writing application a second time while it still
\* has it (the header stays EMPTY until the slot is sent).
GrantedOnce ==
    /\ \A i, j \in 1..Len(wr_held) : i # j => wr_held[i] # wr_held[j]
    /\ \A i \in 1..Len(wr_held), j \in 1..Len(wr_buff_q) :
          wr_held[i] # wr_buff_q[j].buf
    /\ \A i, j \in 1..Len(wr_buff_q) :
          i # j /\ wr_buff_q[i].buf # NoBuf
            => wr_buff_q[i].buf # wr_buff_q[j].buf

\* A message that leaves the application's hands in a write request is in the
\* channel's queue afterwards: an accepted message is never dropped.
AcceptedIsQueued ==
    [][ Len(wr_held') < Len(wr_held)
          => Len(wr_data_q') > Len(wr_data_q) ]_vars

\* The life of a slot's header: EMPTY, then a fresh sequence number greater
\* than all before it, then RXD, then EMPTY; no step skips or repeats one.
SlotCycle ==
    [][ \A s \in Slots :
          seq_no'[s] # seq_no[s] =>
            \/ seq_no[s] = BRING_SYNC_BUFF_EMPTY /\ seq_no'[s] = wr_sync_counter
            \/ seq_no[s] >= BRING_SYNC_START /\ seq_no'[s] = BRING_SYNC_BUFF_RXD
            \/ /\ seq_no[s] = BRING_SYNC_BUFF_RXD
               /\ seq_no'[s] = BRING_SYNC_BUFF_EMPTY ]_vars

\* "This will be populated if the return code is CAMIO_ENOERROR"
\* (messages.h:22): the response about to be returned, whose status becomes
\* ENOERROR, has a buffer.
ReadResponseHasBuffer ==
    \A i \in 1..rd_buff_use :
        rd_buff_q[i].type = "RES" => rd_buff_q[i].buf # NoBuf

\* Whoever asks for the results of its writes gets them: "Is there any data
\* waiting? If not, try to get some" (bring_channel.c:823).
EveryWriteCompletes ==
    \A m \in 1..MaxMsgs : Len(sent) >= m ~> acked >= m

\* All the messages the application has to send go through: neither the two
\* bounded queues nor the ring ever leaves both sides waiting.
AllGoThrough == <>[](acked = MaxMsgs)

\* The channel implements the abstract one: in its steps, and with both
\* processes polling also in its fairness, so that every message that was
\* published is consumed and its completion reaches the writer.
Fifo == INSTANCE BringFifo
FifoSafety == Fifo!FifoSpec
FifoLive == Fifo!FifoFairSpec
=============================================================================
