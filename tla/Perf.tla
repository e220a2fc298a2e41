-------------------------------- MODULE Perf --------------------------------
(***************************************************************************)
(* The two programs of the repository that use a whole stack of it, and    *)
(* the stack below them: camio_perf's client and server                    *)
(* (src/tools/camio_perf/camio_perf_client.c, camio_perf_server.c), each   *)
(* with its multiplexer, joined by a bring channel.  The client numbers    *)
(* its messages and keeps as many as its batching in circulation; the      *)
(* server counts the ones that are not the next.                           *)
(*                                                                         *)
(* The bring channel is a ring of slot headers here, and its handlers run  *)
(* at once: BringChannel has them header word by header word.  Only what   *)
(* the other process can see one by one stays that way: the messages of a  *)
(* batch being published, and the buffers of a batch being released.       *)
(* SpinMux has the multiplexer with its timeouts; both programs call       *)
(* select with none.  A value that is used several times is bound by \E.   *)
(***************************************************************************)
EXTENDS Integers, Sequences, FiniteSets, SequencesExt, FiniteSetsExt

CONSTANTS
    N,              \* slots of the ring, and places in each queue
    Batching,       \* the client's --batching, at least 2: with 1 it never asks
                    \* for the second channel whose refusal removes its device
    ServerBatching, \* the server's
    Wrap            \* bound: sequence numbers are counted modulo Wrap

ASSUME PerfAssumption ==
    /\ N \in Nat \ {0} /\ Batching \in Nat \ {0, 1} /\ ServerBatching \in Nat \ {0}
    /\ Wrap \in Nat /\ Wrap > 2 * N

VARIABLES
    head,   \* the slots' headers
    stamp,  \* the sequence number written at the front of each slot
    c,      \* the client and its half of the channel
    s       \* the server and its half

vars == <<head, stamp, c, s>>

Slots == 0..N - 1
Ids   == 0..Batching - 1
EMPTY == -1     \* BRING_SYNC_BUFF_EMPTY
RXD   == -2     \* BRING_SYNC_BUFF_RXD

Slot(i)    == i % N
Counted(i) == i % Wrap
Lesser(a, b) == IF a < b THEN a ELSE b

Init ==
    /\ head = [b \in Slots |-> EMPTY] /\ stamp = [b \in Slots |-> 0]
    /\ c = [mux |-> <<"device">>, idx |-> 0, connected |-> FALSE, exited |-> FALSE,
            wanting |-> Ids, filled |-> {},
            wr_buff_q |-> <<>>, wr_buff_use |-> 0, wr_data_q |-> <<>>, wr_data_use |-> 0,
            wr_buff_acq_idx |-> 0, wr_out_index |-> 0, wr_rel_index |-> 0,
            wr_sync_counter |-> 0, seq |-> 0, sending |-> <<>>]
    /\ s = [mux |-> <<"device">>, idx |-> 0, connected |-> FALSE,
            rd_buff_q |-> 0, rd_buff_use |-> 0, rd_data_q |-> <<>>,
            rd_acq_index |-> 0, rd_rel_index |-> 0, rd_sync_counter |-> 0,
            seq_exp |-> 0, lost |-> FALSE, sync_error |-> FALSE, releasing |-> <<>>]

(***************************************************************************)
(* The multiplexer: p is c or s.                                           *)
(***************************************************************************)
AtIdx(p)    == p.mux[p.idx + 1]
MovedOn(p)  == [p EXCEPT !.idx = IF @ >= Len(p.mux) - 1 THEN 0 ELSE @ + 1]
Polls(p, m) == p.idx < Len(p.mux) /\ AtIdx(p) = m

Inserted(p, m) == [p EXCEPT !.mux = Append(@, m)]
Removed(p, m)  == [p EXCEPT !.mux = RemoveAt(@, CHOOSE i \in DOMAIN @ : @[i] = m)]

(***************************************************************************)
(* The client.  wr_buff_q and wr_data_q hold the ids of the requests; the  *)
(* slots of those in use follow each other in the ring.  In the client's   *)
(* buff_states an id is wanting a buffer (NONE, or WRITE_BUFF_REQ), has    *)
(* one that is filled (WRITE_DATA_REQ), or is being sent (the others).     *)
(***************************************************************************)
\* The ids of S in their order.
Batch(S) == CHOOSE q \in [1..Cardinality(S) -> S] :
              ToSet(q) = S /\ \A i, j \in DOMAIN q : i < j => q[i] < q[j]

\* What fits of a vector of requests is queued.
Pushed(q, v) == q \o SubSeq(v, 1, Lesser(Len(v), N - Len(q)))

\* Asks for a buffer for every id that has none, also where it has asked before.
get_new_buffers(p) == [p EXCEPT !.wr_buff_q = Pushed(@, Batch(p.wanting))]

\* Grants as many as there are EMPTY slots in a row.
write_buffer_ready(p) ==
    LET n == Max({m \in 0..Len(p.wr_buff_q) - p.wr_buff_use :
                    \A k \in 0..m - 1 : head[Slot(p.wr_buff_acq_idx + k)] = EMPTY})
    IN  [p EXCEPT !.wr_buff_use = @ + n, !.wr_buff_acq_idx = Slot(@ + n)]

\* The results of a poll; of two with the same id the later one is kept.
Results(p) == 1..Lesser(Batching, p.wr_buff_use)
Prepared(p) ==
    LET Kept == {i \in Results(p) : \A j \in Results(p) : j > i => p.wr_buff_q[j] # p.wr_buff_q[i]}
        ids  == {p.wr_buff_q[i] : i \in Kept}
        n    == Cardinality(Results(p))
    IN  [p EXCEPT !.wr_buff_q = SubSeq(@, n + 1, Len(@)), !.wr_buff_use = @ - n,
                  !.wanting = @ \ ids,
                  !.filled = {m \in @ : m.id \notin ids} \cup
                             {[id |-> p.wr_buff_q[i],
                               buf |-> Slot(N + p.wr_buff_acq_idx - p.wr_buff_use + i - 1)] : i \in Kept}]

\* Every id that has a buffer gets the next sequence number; those that fit in
\* the queue are going to be sent, and the others are to be numbered again.
ById(p) ==
    LET ids == Batch({m.id : m \in p.filled})
    IN  [i \in DOMAIN ids |-> CHOOSE m \in p.filled : m.id = ids[i]]

send_perf_messages(p) ==
    LET msgs == ById(p)
        sent == SubSeq(msgs, 1, Lesser(Len(msgs), N - Len(p.wr_data_q)))
    IN  [p EXCEPT !.seq = Counted(@ + Len(msgs)),
                  !.filled = @ \ ToSet(sent), !.sending = sent]

\* The numbers that send_perf_messages writes into the buffers.
Stamped(p) ==
    LET msgs == ById(p)
    IN  [b \in Slots |->
           LET mine == {i \in DOMAIN msgs : msgs[i].buf = b}
           IN  IF mine = {} THEN stamp[b] ELSE Counted(p.seq + Max(mine) - 1)]

on_new_wr_buffs ==
    /\ Polls(c, "wr_buff")
    /\ \E p \in {write_buffer_ready(MovedOn(c))} :
         IF p.wr_buff_use = 0 THEN c' = p /\ UNCHANGED stamp
         ELSE \E q \in {Prepared(p)} : stamp' = Stamped(q) /\ c' = send_perf_messages(q)
    /\ UNCHANGED <<head, s>>

\* One message of bring_write_data_request's loop.  A buffer that is not the
\* next one of the ring ends the process.
publish ==
    /\ c.sending # <<>> /\ ~c.exited
    /\ LET m == Head(c.sending)
       IN  IF m.buf # c.wr_out_index
           THEN c' = [c EXCEPT !.exited = TRUE] /\ UNCHANGED head
           ELSE /\ head' = [head EXCEPT ![m.buf] = c.wr_sync_counter]
                /\ c' = [c EXCEPT !.sending = Tail(@), !.wr_data_q = Append(@, m.id),
                                  !.wr_sync_counter = Counted(@ + 1), !.wr_out_index = Slot(@ + 1)]
    /\ UNCHANGED <<stamp, s>>

\* Mutant: the writes that the server has not read yet count too.
ReceivedWhenSent(p) == Len(p.wr_data_q) - p.wr_data_use

\* The writes that have been received, in the order of the ring.
Received(p) ==
    Max({n \in 0..Len(p.wr_data_q) - p.wr_data_use :
           \A k \in 0..n - 1 : head[Slot(p.wr_rel_index + k)] = RXD})

\* Mutant: the buffers that have come free are not asked for again.
NoneAgain(p) == p

AskedAgain(p) == get_new_buffers(p)

\* The results of a poll: a batch of the ids wants a buffer again, and one that
\* an id holds by now (granted twice) is forgotten.
Completed(p) ==
    LET k   == Lesser(Batching, p.wr_data_use)
        ids == ToSet(SubSeq(p.wr_data_q, 1, k))
    IN  [p EXCEPT !.wr_data_q = SubSeq(@, k + 1, Len(@)), !.wr_data_use = @ - k,
                  !.wanting = @ \cup ids, !.filled = {m \in @ : m.id \notin ids}]

\* wr_data_ready releases what has been received.
on_new_wr_datas ==
    /\ Polls(c, "wr_data")
    /\ \E n \in {Received(c)} :
         /\ head' = [b \in Slots |-> IF \E i \in 0..n - 1 : b = Slot(c.wr_rel_index + i)
                                     THEN EMPTY ELSE head[b]]
         /\ \E p \in {[MovedOn(c) EXCEPT !.wr_data_use = @ + n, !.wr_rel_index = Slot(@ + n)]} :
              c' = IF p.wr_data_use = 0 THEN p ELSE AskedAgain(Completed(p))
    /\ UNCHANGED <<stamp, s>>

\* The device is asked for a second channel after the first, and says that it
\* is connected already; a device that fails is removed too.
client_on_new_channels ==
    /\ Polls(c, "device")
    /\ LET p == MovedOn(c)
       IN  \/ ~c.connected /\ c' = p
           \/ ~c.connected /\ c' = Removed(p, "device")
           \/ ~c.connected /\ c' = get_new_buffers([Inserted(Inserted(p, "wr_data"), "wr_buff")
                                                      EXCEPT !.connected = TRUE])
           \/ c.connected /\ c' = Removed(p, "device")
    /\ UNCHANGED <<head, stamp, s>>

client_select ==
    /\ c.sending = <<>> /\ ~c.exited
    /\ on_new_wr_buffs \/ on_new_wr_datas \/ client_on_new_channels

(***************************************************************************)
(* The server                                                              *)
(***************************************************************************)
\* Mutant: the queue takes more than it has places.
BuffersUncapped(p) == [p EXCEPT !.rd_buff_q = @ + ServerBatching]

\* Always asks for a whole batch more.
server_get_new_buffers(p) ==
    [p EXCEPT !.rd_buff_q = Lesser(@ + ServerBatching, N)]

\* Takes the messages that follow each other; a sequence number that does not
\* is an error.
read_buffer_ready(p) ==
    LET waiting == p.rd_buff_q - p.rd_buff_use
        At(k) == head[Slot(p.rd_acq_index + k)]
        n == Max({m \in 0..waiting : \A k \in 0..m - 1 : At(k) = Counted(p.rd_sync_counter + k)})
    IN  [p EXCEPT !.rd_buff_use = @ + n, !.rd_acq_index = Slot(@ + n),
                  !.rd_sync_counter = Counted(@ + n),
                  !.sync_error = n < waiting /\ At(n) \notin {EMPTY, RXD}]

\* What does not fit into the data queue is lost with its buffer.
on_new_rd_buffs ==
    /\ Polls(s, "rd_buff")
    /\ \E p \in {read_buffer_ready(MovedOn(s))} :
         LET n     == Lesser(ServerBatching, p.rd_buff_use)
             taken == [i \in 1..n |-> Slot(N + p.rd_acq_index - p.rd_buff_use + i - 1)]
         IN  s' = IF p.sync_error THEN p
                  ELSE [p EXCEPT !.rd_buff_q = @ - n, !.rd_buff_use = @ - n,
                                 !.rd_data_q = Pushed(@, taken)]
    /\ UNCHANGED <<head, stamp, c>>

\* Every read is complete at once.  on_new_rd_datas takes a batch of them ...
on_new_rd_datas ==
    /\ Polls(s, "rd_data")
    /\ LET n == Lesser(ServerBatching, Len(s.rd_data_q))
       IN  s' = [MovedOn(s) EXCEPT !.rd_data_q = SubSeq(@, n + 1, Len(@)),
                                   !.releasing = SubSeq(s.rd_data_q, 1, n)]
    /\ UNCHANGED <<head, stamp, c>>

\* ... and for each of them compares the number and releases the buffer, which
\* must be the oldest one.  After the last it asks for more.
Compared(p, b) == [p EXCEPT !.lost = @ \/ stamp[b] # p.seq_exp, !.seq_exp = Counted(stamp[b] + 1)]

release ==
    /\ s.releasing # <<>>
    /\ \E b \in {Head(s.releasing)}, p \in {Compared(s, Head(s.releasing))} :
         IF b # s.rd_rel_index
         THEN s' = [p EXCEPT !.releasing = <<>>] /\ UNCHANGED head
         ELSE /\ head' = [head EXCEPT ![b] = RXD]
              /\ \E q \in {[p EXCEPT !.releasing = Tail(@), !.rd_rel_index = Slot(@ + 1)]} :
                   s' = IF q.releasing = <<>> THEN server_get_new_buffers(q) ELSE q
    /\ UNCHANGED <<stamp, c>>

\* Connected once the client is.
server_on_new_channels ==
    /\ Polls(s, "device")
    /\ LET p == MovedOn(s)
       IN  \/ ~s.connected /\ s' = p
           \/ ~s.connected /\ s' = Removed(p, "device")
           \/ ~s.connected /\ c.connected
              /\ s' = server_get_new_buffers([Inserted(Inserted(p, "rd_data"), "rd_buff")
                                                EXCEPT !.connected = TRUE])
           \/ s.connected /\ s' = Removed(p, "device")
    /\ UNCHANGED <<head, stamp, c>>

server_select ==
    /\ s.releasing = <<>>
    /\ on_new_rd_buffs \/ on_new_rd_datas \/ server_on_new_channels

Client == client_select \/ publish
Server == server_select \/ release
Next == Client \/ Server

\* Neither program ever stops calling select.
Spec == Init /\ [][Next]_vars /\ WF_vars(Client) /\ WF_vars(Server)

-----------------------------------------------------------------------------
SeqNo == 0..Wrap - 1

\* Every variable keeps its type, no queue exceeds the ring, and the indices of
\* the multiplexers stay within reach of their vectors.
TypeOK ==
    /\ head \in [Slots -> {EMPTY, RXD} \cup SeqNo] /\ stamp \in [Slots -> SeqNo]
    /\ c.idx \in 0..Len(c.mux) /\ s.idx \in 0..Len(s.mux)
    /\ c.wanting \subseteq Ids /\ c.filled \subseteq [id : Ids, buf : Slots]
    /\ c.wr_buff_use \in 0..Len(c.wr_buff_q) /\ Len(c.wr_buff_q) <= N
    /\ c.wr_data_use \in 0..Len(c.wr_data_q) /\ Len(c.wr_data_q) <= N
    /\ s.rd_buff_use \in 0..s.rd_buff_q /\ s.rd_buff_q <= N /\ Len(s.rd_data_q) <= N

\* The server never counts a message as lost, although it asks again for buffers
\* that it has asked for; it never meets a slot that is out of step with it, and
\* the client never ends at a buffer that is not the next one: with a client
\* batching of at most the number of slots, whatever the server's.  (Under this
\* bound the client never asks again for an id that is outstanding, and no batch
\* is trimmed; beyond it the client does, and may end.)
NothingLost == ~c.exited /\ ~s.sync_error /\ ~s.lost

\* Once both are connected the server goes on to every sequence number, time and
\* again: neither buffers, nor slots, nor places in the queues run out.
StreamGoesOn == \A k \in SeqNo : c.connected /\ s.connected ~> s.seq_exp = k
=============================================================================
