------------------------------ MODULE BringFifo ------------------------------
(***************************************************************************)
(* What one direction of a bring channel promises its two applications,    *)
(* without slots, headers, indices or queues: a lossless first-in          *)
(* first-out channel with room for N messages.  Message number k is the    *)
(* k-th one the sender prepared.  A message occupies its place from Send   *)
(* until it has been acknowledged, and it is acknowledged only after the   *)
(* receiver has consumed it.                                               *)
(***************************************************************************)
EXTENDS Integers, Sequences

CONSTANTS
    N,          \* messages in the channel at one time
    MaxMsgs,    \* bound: messages sent in all
    DataLen     \* the length of each message

VARIABLES
    sent,       \* the messages sent, in order
    got,        \* the messages consumed, in order, with their lengths
    acked       \* how many of them the sender knows to be consumed

fifoVars == <<sent, got, acked>>

FifoInit == sent = <<>> /\ got = <<>> /\ acked = 0

Send ==
    /\ Len(sent) < MaxMsgs
    /\ Len(sent) - acked < N
    /\ sent' = Append(sent, Len(sent) + 1)
    /\ UNCHANGED <<got, acked>>

Receive ==
    /\ Len(got) < Len(sent)
    /\ LET m == sent[Len(got) + 1]
       IN  got' = Append(got, [msg |-> m, len |-> DataLen[m]])
    /\ UNCHANGED <<sent, acked>>

Acknowledge ==
    /\ acked < Len(got)
    /\ acked' = acked + 1
    /\ UNCHANGED <<sent, got>>

FifoNext == Send \/ Receive \/ Acknowledge

FifoSpec == FifoInit /\ [][FifoNext]_fifoVars

\* The channel itself delivers and acknowledges; nobody has to send.
FifoFairSpec ==
    FifoSpec /\ WF_fifoVars(Receive) /\ WF_fifoVars(Acknowledge)
==============================================================================
