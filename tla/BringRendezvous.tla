--------------------------- MODULE BringRendezvous ---------------------------
(***************************************************************************)
(* What the connect handshake of a bring device promises: each file that   *)
(* is offered is taken by at most one client, for good, and the server of  *)
(* a file joins it only after a client has taken it.  No names, headers,   *)
(* descriptors or magic numbers.                                           *)
(***************************************************************************)
EXTENDS FiniteSets

CONSTANTS Files, Clients

VARIABLES
    offered,    \* the files that a server has announced
    taker,      \* the client that took each file: a set of at most one
    joined      \* the files whose server has a channel

rvVars == <<offered, taker, joined>>

RvInit ==
    /\ offered \subseteq Files
    /\ taker = [f \in Files |-> {}]
    /\ joined = {}

Offer(f) ==
    /\ f \notin offered
    /\ offered' = offered \cup {f}
    /\ UNCHANGED <<taker, joined>>

Take(f, c) ==
    /\ f \in offered
    /\ taker[f] = {}
    /\ taker' = [taker EXCEPT ![f] = {c}]
    /\ UNCHANGED <<offered, joined>>

Join(f) ==
    /\ taker[f] # {}
    /\ f \notin joined
    /\ joined' = joined \cup {f}
    /\ UNCHANGED <<offered, taker>>

RvNext ==
    \E f \in Files : Offer(f) \/ Join(f) \/ \E c \in Clients : Take(f, c)

RvSpec == RvInit /\ [][RvNext]_rvVars
==============================================================================
