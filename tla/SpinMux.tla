------------------------------- MODULE SpinMux -------------------------------
(***************************************************************************)
(* The spinning multiplexer (src/src/multiplexers/spin_mux.c).  A vector   *)
(* of muxables is polled round-robin from a saved index; the first one     *)
(* that is ready is returned, and the index moves past it "to make sure    *)
(* that next time we look at the next device first".                       *)
(*                                                                         *)
(* One thread calls select; its callbacks run inside select, after the     *)
(* last use of the multiplexer's state, so what they do is modelled as     *)
(* done after select has returned.  Other processes make muxables ready at *)
(* any moment, and time passes between any two polls.                      *)
(***************************************************************************)
EXTENDS Integers, Sequences, SequencesExt

CONSTANTS
    Items,          \* the muxables
    Timeouts,       \* the timeouts that select is called with
    MaxRemoves      \* bound: calls of remove in one callback

ASSUME MuxAssumption ==
    /\ Timeouts \subseteq {"NULL", "zero", "some"}
    /\ MaxRemoves \in Nat

NoItem   == "nothing"       \* select has returned a timeout, or not yet
NoHandle == -1

ASSUME ItemAssumption == NoItem \notin Items

VARIABLES
    muxables,       \* the vector
    idx,            \* priv->idx, counted from 0
    ready,          \* the muxables whose vtable.ready would not say ETRYAGAIN
    pc,             \* "scan" inside select, "out" in a callback or outside
    i, timeout, expired,    \* select's loop counter, argument and deadline
    returned,       \* the muxable that the last select returned
    handle,         \* where in the vector the pointer to it points
    removes,        \* calls of remove since then
    \* For the properties only:
    inserted,       \* the muxables that have ever been inserted
    passed          \* for a waiting muxable: those returned since it waits

select_vars == <<i, timeout, expired>>
ghosts == <<inserted, passed>>
vars == <<muxables, idx, ready, pc, select_vars, returned, handle, removes,
          ghosts>>

Count      == Len(muxables)
Registered == ToSet(muxables)
Waiting    == ready \cap Registered

\* Nothing has been removed so far.
Intact == inserted \subseteq Registered

Init ==
    /\ muxables = <<>> /\ idx = 0
    /\ ready = {}
    /\ pc = "out"
    /\ i = 0 /\ timeout = "NULL" /\ expired = FALSE
    /\ returned = NoItem /\ handle = NoHandle /\ removes = 0
    /\ inserted = {}
    /\ passed = [m \in Items |-> {}]

-----------------------------------------------------------------------------
(***************************************************************************)
(* What the application does between two scans, or in a callback.          *)
(***************************************************************************)
\* Bounded: each muxable is inserted once.
spin_insert(m) ==
    /\ pc = "out"
    /\ m \notin inserted
    /\ muxables' = Append(muxables, m)
    /\ inserted' = inserted \cup {m}
    /\ passed' = [passed EXCEPT ![m] = {}]
    /\ UNCHANGED <<idx, ready, pc, select_vars, returned, handle, removes>>

RemoveFrom(k) ==
    /\ muxables' = RemoveAt(muxables, k)
    /\ passed' = [passed EXCEPT ![muxables[k]] = {}]

\* A callback calls remove with the pointer it was given, which points into
\* the vector: find looks for the contents that lie there now.  Past the end
\* these may be those of a registered muxable, which then goes, or of none.
spin_remove ==
    /\ pc = "out"
    /\ handle # NoHandle
    /\ removes < MaxRemoves
    /\ removes' = removes + 1
    /\ \/ \E k \in 1..Count : /\ handle < Count => k = handle + 1
                              /\ RemoveFrom(k)
       \/ handle >= Count /\ UNCHANGED <<muxables, passed>>
    /\ UNCHANGED <<idx, ready, pc, select_vars, returned, handle, inserted>>

\* The application takes what the returned muxable had ready.
consume ==
    /\ pc = "out"
    /\ returned \in ready
    /\ ready' = ready \ {returned}
    /\ passed' = [passed EXCEPT ![returned] = {}]
    /\ UNCHANGED <<muxables, idx, pc, select_vars, returned, handle, removes,
                   inserted>>

\* Data arrives, a slot is freed, a peer connects.
become_ready(m) ==
    /\ m \notin ready
    /\ ready' = ready \cup {m}
    /\ UNCHANGED <<muxables, idx, pc, select_vars, returned, handle, removes,
                   ghosts>>

-----------------------------------------------------------------------------
(***************************************************************************)
(* spin_select.                                                            *)
(***************************************************************************)
select(t) ==
    /\ pc = "out"
    /\ pc' = "scan"
    /\ i' = 0
    /\ timeout' = t
    /\ expired' = (t = "zero")      \* the deadline is now
    /\ returned' = NoItem /\ handle' = NoHandle /\ removes' = 0
    /\ UNCHANGED <<muxables, idx, ready, inserted, passed>>

deadline_passes ==
    /\ pc = "scan" /\ timeout = "some" /\ ~expired
    /\ expired' = TRUE
    /\ UNCHANGED <<muxables, idx, ready, pc, i, timeout, returned, handle,
                   removes, ghosts>>

Return ==
    /\ pc' = "out"
    /\ UNCHANGED select_vars

\* The deadline is tested before each poll.
IgnoreDeadline == FALSE                                  \* mutant
DeadlineReached == timeout # "NULL" /\ expired

select_times_out ==
    /\ pc = "scan"
    /\ i < Count
    /\ DeadlineReached
    /\ Return
    /\ UNCHANGED <<muxables, idx, ready, returned, handle, removes, ghosts>>

NeverWraps == idx + 1                                    \* mutant
WrapsLate == IF idx > Count - 1 THEN 0 ELSE idx + 1      \* mutant
StopShort == IF idx + 1 >= Count - 1 THEN 0 ELSE idx + 1 \* mutant
NextIdx == IF idx >= Count - 1 THEN 0 ELSE idx + 1

\* What lies at muxables->first + idx.  Past the end that is memory of the
\* vector that no muxable owns any more, or never did: the one removed last,
\* or a copy of one that has moved up, as the vector's remove leaves it (the
\* vector is a library's), and here any muxable.
AtIdx == IF idx < Count THEN {muxables[idx + 1]} ELSE Items

select_poll(m) ==
    /\ pc = "scan"
    /\ i < Count
    /\ ~DeadlineReached
    /\ m \in AtIdx \ ready
    /\ i' = i + 1
    /\ idx' = NextIdx
    /\ UNCHANGED <<muxables, ready, pc, timeout, expired, returned, handle,
                   removes, inserted, passed>>

\* The point of guaranteed return.
StayAtIdx == idx                                         \* mutant
IdxAfterReturn == NextIdx

select_returns(m) ==
    /\ pc = "scan"
    /\ i < Count
    /\ ~DeadlineReached
    /\ m \in AtIdx \cap ready
    /\ returned' = m
    /\ handle' = idx
    /\ idx' = IdxAfterReturn
    /\ passed' = [w \in Items |-> IF w = m THEN {}
                                  ELSE IF w \in Waiting THEN passed[w] \cup {m}
                                  ELSE passed[w]]
    /\ Return
    /\ UNCHANGED <<muxables, ready, removes, inserted>>

\* Everything has been polled once.
select_wraps ==
    /\ pc = "scan"
    /\ i >= Count
    /\ IF timeout = "zero"
       THEN Return
       ELSE /\ i' = 0
            /\ UNCHANGED <<pc, timeout, expired>>
    /\ UNCHANGED <<muxables, idx, ready, returned, handle, removes, ghosts>>

-----------------------------------------------------------------------------
Scan ==
    \/ select_times_out
    \/ \E m \in Items : select_poll(m) \/ select_returns(m)
    \/ select_wraps

Next ==
    \/ \E m \in Items : spin_insert(m) \/ become_ready(m)
    \/ spin_remove
    \/ consume
    \/ \E t \in Timeouts : select(t)
    \/ deadline_passes
    \/ Scan

Spec == Init /\ [][Next]_vars

\* The applications call select for ever, and time passes.
Fairness ==
    /\ WF_vars(Scan)
    /\ WF_vars(\E t \in Timeouts : select(t))
    /\ WF_vars(deadline_passes)
FairSpec == Spec /\ Fairness

-----------------------------------------------------------------------------
(***************************************************************************)
(* Properties.                                                             *)
(***************************************************************************)
TypeOK ==
    /\ muxables \in Seq(Items)
    /\ IsInjective(muxables)
    /\ idx \in Nat /\ i \in Nat
    /\ Intact => idx \in 0..Count /\ i \in 0..Count
    /\ ready \subseteq Items
    /\ pc \in {"out", "scan"}
    /\ timeout \in {"NULL", "zero", "some"} /\ expired \in BOOLEAN
    /\ returned \in Items \cup {NoItem}
    /\ handle \in Nat \cup {NoHandle}
    /\ removes \in 0..MaxRemoves
    /\ inserted \subseteq Items
    /\ passed \in [Items -> SUBSET Items]

\* "where we know it's safe to do so" (spin_mux.c:101): as long as nothing
\* has been removed, no poll reads past the end of the vector.
IdxInRange == Intact /\ i < Count => idx < Count

Returns(m) == pc = "scan" /\ pc' = "out" /\ returned' = m

\* "This gives some degree of 'fairness'" (spin_mux.c:115), precisely: until
\* something is removed, no muxable is returned twice while another one
\* waits, however the selects are cut short by timeouts and whatever is
\* inserted meanwhile.
RoundRobin ==
    [][\A m \in Items : Intact /\ Returns(m) =>
          \A w \in Waiting \ {m} : m \notin passed[w]]_vars

\* A muxable that waits is returned in the end, or removed, if the
\* application keeps calling select without a timeout: removals of others
\* and selects that time out only cost it a turn.
EveryReadyServed ==
    []<>(pc = "scan" /\ timeout = "NULL") =>
        \A m \in Items :
            m \in Waiting ~> (returned = m \/ m \notin Registered)

\* A select with a timeout returns, as long as there is something to poll.
SelectEnds ==
    (pc = "scan" /\ timeout = "some" /\ muxables # <<>>) ~> (pc = "out")

\* The same once callbacks remove their muxables: select never returns, and
\* calls back through, what it has read past the end of the vector.  (What
\* lies there does not matter: where it was read from does.)
OnlyFromVector ==
    [][\A m \in Items : Returns(m) => handle' < Count]_vars
==============================================================================
