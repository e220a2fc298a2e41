----------------------------- MODULE SpinMuxProof -----------------------------
(***************************************************************************)
(* Proof that the spinning multiplexer is a strict round robin, for any    *)
(* set of muxables and whatever callbacks remove, until the first removal. *)
(*                                                                         *)
(* The scan meets the positions of the vector in the cyclic order that     *)
(* starts at idx.  The invariant: whoever was returned while w waits comes *)
(* after w in that order.  A poll moves one position, that of a muxable    *)
(* which does not wait any more or never did, from the front of the order  *)
(* to its back; an insertion puts a new one between the two.               *)
(***************************************************************************)
EXTENDS SpinMux, SequenceTheorems, TLAPS

\* The scan reaches position p (counted from 1) before position q.
Before(p, q) ==
    \/ idx < p /\ p < q
    \/ p < q /\ q <= idx
    \/ q <= idx /\ idx < p

Ahead ==
    \A p, q \in 1..Count :
        muxables[p] \in ready /\ muxables[q] \in passed[muxables[p]]
            => Before(p, q)

FairInv ==
    /\ Intact
    /\ TypeOK
    /\ pc = "scan" => returned = NoItem
    /\ idx < Count \/ idx = 0
    /\ Registered \subseteq inserted
    /\ \A w \in Items : passed[w] \subseteq inserted
    /\ \A w \in Items \ Waiting : passed[w] = {}
    /\ Ahead

\* What remains true when something has been removed is not much.
MuxInv ==
    /\ muxables \in Seq(Items)
    /\ idx \in Nat
    /\ handle \in Nat \cup {NoHandle}
    /\ Intact => FairInv

-----------------------------------------------------------------------------
LEMMA InitFair ==
    ASSUME Init
    PROVE  FairInv
<1>1. TypeOK
  <2>1. muxables \in Seq(Items) /\ IsInjective(muxables) /\ Count = 0
    BY DEF Init, Count, IsInjective
  <2>2. passed \in [Items -> SUBSET Items]
    BY DEF Init
  <2>3. removes \in 0..MaxRemoves
    BY MuxAssumption DEF Init
  <2>4. idx \in 0..Count /\ i \in 0..Count
    BY <2>1 DEF Init
  <2>5. idx \in Nat /\ i \in Nat
    BY DEF Init
  <2>6. QED
    BY <2>1, <2>2, <2>3, <2>4, <2>5 DEF Init, TypeOK
<1>2. Ahead
  BY DEF Init, Ahead, Count
<1>3. Registered \subseteq inserted
  BY DEF Init, Registered, ToSet
<1>4. QED
  BY <1>1, <1>2, <1>3 DEF Init, FairInv, Intact

\* One position of the cyclic order goes from its front to its back; the
\* order of the others stays.
LEMMA NextIdxOrder ==
    ASSUME Count \in Nat, idx \in Nat, idx < Count, idx' = NextIdx,
           NEW p \in 1..Count, NEW q \in 1..Count, p # idx + 1
    PROVE  /\ idx' \in Nat /\ idx' < Count
           /\ Before(p, idx + 1) => FALSE
           /\ Before(p, q) => Before(p, q)'
           /\ q = idx + 1 => Before(p, q)'
<1>1. CASE idx = Count - 1
  BY <1>1 DEF NextIdx, Before
<1>2. CASE idx < Count - 1
  BY <1>2 DEF NextIdx, Before
<1>3. QED
  BY <1>1, <1>2

\* A poll that reaches the vector reaches position idx + 1.
LEMMA PolledAtIdx ==
    ASSUME FairInv, i < Count, NEW m \in AtIdx
    PROVE  /\ Count \in Nat /\ idx \in Nat /\ idx < Count
           /\ idx + 1 \in 1..Count
           /\ m = muxables[idx + 1] /\ m \in Items /\ m \in Registered
<1>1. /\ muxables \in Seq(Items) /\ idx \in Nat /\ i \in Nat /\ Count \in Nat
  BY DEF FairInv, TypeOK, Count
<1>2. idx < Count /\ idx + 1 \in 1..Count
  BY <1>1 DEF FairInv
<1>3. m = muxables[idx + 1]
  BY <1>2 DEF AtIdx
<1>4. muxables[idx + 1] \in Items /\ muxables[idx + 1] \in Registered
  BY <1>1, <1>2 DEF Registered, ToSet, Count
<1>5. QED
  BY <1>1, <1>2, <1>3, <1>4

-----------------------------------------------------------------------------
(***************************************************************************)
(* One lemma per action that the invariant does not trivially survive.     *)
(***************************************************************************)
LEMMA InsertFair ==
    ASSUME FairInv, NEW x \in Items, spin_insert(x)
    PROVE  FairInv'
<1>1. /\ muxables \in Seq(Items) /\ Count \in Nat /\ x \notin inserted
      /\ idx \in Nat /\ IsInjective(muxables)
      /\ muxables' = Append(muxables, x)
      /\ inserted' = inserted \cup {x} /\ passed' = [passed EXCEPT ![x] = {}]
      /\ idx' = idx /\ ready' = ready
  BY DEF FairInv, TypeOK, Count, spin_insert
<1>2. /\ muxables' \in Seq(Items) /\ Count' = Count + 1
      /\ \A p \in 1..Count : muxables'[p] = muxables[p]
      /\ muxables'[Count + 1] = x
  BY <1>1 DEF Count
<1>3. \A p \in 1..Count : muxables[p] \in Registered
  BY <1>1 DEF Registered, ToSet, Count
<1>4. \A p \in 1..Count : muxables[p] # x
  BY <1>1, <1>3 DEF FairInv
<1>5. Registered' = Registered \cup {x}
  <2>1. DOMAIN muxables = 1..Count /\ DOMAIN muxables' = 1..Count + 1
    BY <1>1, <1>2 DEF Count
  <2>2. 1..Count + 1 = (1..Count) \cup {Count + 1}
    BY <1>1
  <2>3. QED
    BY <1>2, <2>1, <2>2 DEF Registered, ToSet
<1>6. IsInjective(muxables)'
  <2>1. DOMAIN muxables = 1..Count /\ DOMAIN muxables' = 1..Count + 1
    BY <1>1, <1>2 DEF Count
  <2>2. \A p \in 1..Count + 1 : p \in 1..Count \/ p = Count + 1
    BY <1>1
  <2>3. QED
    BY <1>1, <1>2, <1>4, <2>1, <2>2 DEF IsInjective
<1>7. TypeOK'
  BY <1>1, <1>2, <1>6 DEF FairInv, TypeOK, spin_insert, select_vars
<1>8. idx' < Count' \/ idx' = 0
  BY <1>1, <1>2 DEF FairInv
<1>9. passed \in [Items -> SUBSET Items]
  BY DEF FairInv, TypeOK
<1>10. /\ Registered' \subseteq inserted'
       /\ \A w \in Items : passed'[w] \subseteq inserted'
       /\ \A w \in Items \ Waiting' : passed'[w] = {}
  BY <1>1, <1>5, <1>9 DEF FairInv, Waiting
<1>11. Ahead'
  <2> SUFFICES ASSUME NEW p \in 1..Count + 1, NEW q \in 1..Count + 1,
                      muxables'[q] \in passed'[muxables'[p]],
                      muxables'[p] \in ready
               PROVE  Before(p, q)'
    BY <1>1, <1>2 DEF Ahead
  <2>1. muxables'[p] \in Items
    BY <1>1, <1>2 DEF Count
  <2>2. muxables'[p] # x /\ muxables'[q] # x
    <3>1. passed'[x] = {}
      BY <1>1, <1>9
    <3>2. muxables'[p] # x
      BY <3>1
    <3>3. passed'[muxables'[p]] = passed[muxables'[p]]
      BY <1>1, <1>9, <2>1, <3>2
    <3>4. x \notin passed[muxables'[p]]
      BY <1>1, <2>1 DEF FairInv
    <3>5. QED
      BY <3>2, <3>3, <3>4
  <2>3. p \in 1..Count /\ q \in 1..Count
    <3>1. p # Count + 1 /\ q # Count + 1
      BY <1>2, <2>2
    <3>2. QED
      BY <1>1, <3>1
  <2>4. Before(p, q)
    BY <1>1, <1>2, <1>9, <2>1, <2>2, <2>3 DEF FairInv, Ahead
  <2>5. QED
    BY <1>1, <2>4 DEF Before
<1>12. QED
  BY <1>1, <1>5, <1>7, <1>8, <1>10, <1>11 DEF FairInv, spin_insert, Intact

\* What the application consumes was just returned: nobody has passed it.
LEMMA ConsumeFair ==
    ASSUME FairInv, consume
    PROVE  FairInv'
<1>1. /\ muxables' = muxables /\ idx' = idx /\ inserted' = inserted
      /\ ready' = ready \ {returned}
      /\ passed' = [passed EXCEPT ![returned] = {}]
      /\ passed \in [Items -> SUBSET Items]
  BY DEF FairInv, TypeOK, consume
<1>2. /\ Registered' = Registered /\ Count' = Count
      /\ \A p, q \in 1..Count : Before(p, q)' = Before(p, q)
  BY <1>1 DEF Registered, Count, Before
<1>3. TypeOK'
  BY <1>1, <1>2 DEF FairInv, TypeOK, consume, select_vars
<1>4. \A w \in Items : passed'[w] = IF w = returned THEN {} ELSE passed[w]
  BY <1>1
<1>5. /\ \A w \in Items : passed'[w] \subseteq inserted'
      /\ \A w \in Items \ Waiting' : passed'[w] = {}
  BY <1>1, <1>2, <1>4 DEF FairInv, Waiting
<1>6. \A p \in 1..Count : muxables[p] \in Items
  BY DEF FairInv, TypeOK, Count
<1>7. Ahead'
  BY <1>1, <1>2, <1>4, <1>6 DEF FairInv, Ahead
<1>8. QED
  BY <1>1, <1>2, <1>3, <1>5, <1>7 DEF FairInv, consume, Intact

\* Whoever was not ready has not been passed.
LEMMA ReadyFair ==
    ASSUME FairInv, NEW x \in Items, become_ready(x)
    PROVE  FairInv'
<1>1. /\ muxables' = muxables /\ idx' = idx /\ inserted' = inserted
      /\ passed' = passed /\ ready' = ready \cup {x} /\ x \notin ready
  BY DEF become_ready, ghosts
<1>2. /\ Registered' = Registered /\ Count' = Count
      /\ \A p, q \in 1..Count : Before(p, q)' = Before(p, q)
  BY <1>1 DEF Registered, Count, Before
<1>3. TypeOK'
  BY <1>1, <1>2 DEF FairInv, TypeOK, become_ready, select_vars
<1>4. passed[x] = {}
  BY <1>1 DEF FairInv, Waiting
<1>5. Ahead'
  BY <1>1, <1>2, <1>4 DEF FairInv, Ahead
<1>6. QED
  BY <1>1, <1>2, <1>3, <1>5 DEF FairInv, Waiting, become_ready, Intact

\* A miss: the muxable polled does not wait.
LEMMA PollFair ==
    ASSUME FairInv, NEW x \in Items, select_poll(x)
    PROVE  FairInv'
<1>1. /\ muxables' = muxables /\ idx' = NextIdx /\ inserted' = inserted
      /\ passed' = passed /\ ready' = ready
      /\ x \in AtIdx /\ x \notin ready /\ i < Count /\ i' = i + 1
  BY DEF select_poll
<1>2. /\ Count \in Nat /\ idx \in Nat /\ idx < Count
      /\ idx + 1 \in 1..Count /\ x = muxables[idx + 1]
  BY <1>1, PolledAtIdx
<1>3. Registered' = Registered /\ Count' = Count
  BY <1>1 DEF Registered, Count
<1>4. idx' \in Nat /\ idx' < Count'
  BY <1>1, <1>2, <1>3 DEF NextIdx
<1>5. TypeOK'
  <2>1. i' \in 0..Count' /\ idx' \in 0..Count'
    BY <1>1, <1>2, <1>3, <1>4 DEF FairInv, TypeOK
  <2>2. QED
    BY <1>1, <2>1 DEF FairInv, TypeOK, select_poll
<1>6. Ahead'
  <2> SUFFICES ASSUME NEW p \in 1..Count, NEW q \in 1..Count,
                      muxables[p] \in ready,
                      muxables[q] \in passed[muxables[p]]
               PROVE  Before(p, q)'
    BY <1>1, <1>3 DEF Ahead
  <2>1. p # idx + 1
    BY <1>1, <1>2
  <2>2. Before(p, q)
    BY DEF FairInv, Ahead
  <2>3. QED
    BY <1>1, <1>2, <2>1, <2>2, NextIdxOrder
<1>7. QED
  BY <1>1, <1>3, <1>4, <1>5, <1>6
     DEF FairInv, Waiting, select_poll, Intact

\* A hit: the muxable returned goes behind all that still wait.
LEMMA ReturnFair ==
    ASSUME FairInv, NEW x \in Items, select_returns(x)
    PROVE  FairInv'
<1>1. /\ muxables' = muxables /\ idx' = NextIdx /\ inserted' = inserted
      /\ ready' = ready /\ x \in AtIdx /\ x \in ready /\ i < Count
      /\ passed' = [w \in Items |->
                       IF w = x THEN {}
                       ELSE IF w \in Waiting THEN passed[w] \cup {x}
                       ELSE passed[w]]
  BY DEF select_returns, IdxAfterReturn
<1>2. /\ Count \in Nat /\ idx \in Nat /\ idx < Count
      /\ idx + 1 \in 1..Count /\ x = muxables[idx + 1] /\ x \in Registered
  BY <1>1, PolledAtIdx
<1>3. /\ Registered' = Registered /\ Count' = Count /\ Waiting' = Waiting
  BY <1>1 DEF Registered, Count, Waiting
<1>4. idx' \in Nat /\ idx' < Count'
  BY <1>1, <1>2, <1>3 DEF NextIdx
<1>5. passed \in [Items -> SUBSET Items]
  BY DEF FairInv, TypeOK
<1>6. TypeOK'
  <2>1. passed' \in [Items -> SUBSET Items]
    BY <1>1, <1>5
  <2>2. /\ idx' \in 0..Count' /\ i' \in 0..Count' /\ handle' \in Nat
        /\ timeout' = timeout /\ expired' = expired
    BY <1>2, <1>3, <1>4
       DEF FairInv, TypeOK, select_returns, Return, select_vars
  <2>3. QED
    BY <1>1, <2>1, <2>2 DEF FairInv, TypeOK, select_returns, Return
<1>7. \A w \in Items : passed'[w] \subseteq inserted'
  BY <1>1, <1>2 DEF FairInv
<1>8. \A w \in Items \ Waiting' : passed'[w] = {}
  BY <1>1, <1>3 DEF FairInv
<1>9. Ahead'
  <2> SUFFICES ASSUME NEW p \in 1..Count, NEW q \in 1..Count,
                      muxables[p] \in ready,
                      muxables[q] \in passed'[muxables[p]]
               PROVE  Before(p, q)'
    BY <1>1, <1>3 DEF Ahead
  <2>1. /\ muxables[p] \in Items /\ muxables[p] \in Registered
        /\ IsInjective(muxables) /\ DOMAIN muxables = 1..Count
    BY DEF FairInv, TypeOK, Registered, ToSet, Count
  <2>2. muxables[p] # x
    BY <1>1, <2>1
  <2>3. p # idx + 1
    BY <1>2, <2>2
  <2>4. CASE muxables[q] = x
    <3>1. q = idx + 1
      BY <1>2, <2>1, <2>4 DEF IsInjective
    <3>2. QED
      BY <1>1, <1>2, <2>3, <3>1, NextIdxOrder
  <2>5. CASE muxables[q] # x
    <3>1. muxables[q] \in passed[muxables[p]]
      BY <1>1, <2>1, <2>2, <2>5
    <3>2. Before(p, q)
      BY <3>1 DEF FairInv, Ahead
    <3>3. QED
      BY <1>1, <1>2, <2>3, <3>2, NextIdxOrder
  <2>6. QED
    BY <2>4, <2>5
<1>10. QED
  BY <1>1, <1>3, <1>4, <1>6, <1>7, <1>8, <1>9
     DEF FairInv, select_returns, Return, Intact

\* The steps that touch neither the vector nor what waits.
LEMMA OtherFair ==
    ASSUME FairInv, UNCHANGED <<muxables, idx, ready, inserted, passed>>,
           TypeOK', (pc = "scan" => returned = NoItem)'
    PROVE  FairInv'
BY DEF FairInv, Count, Registered, Waiting, ToSet, Ahead, Before, Intact

-----------------------------------------------------------------------------
\* A removal closes the gap.
LEMMA RemoveShifts ==
    ASSUME muxables \in Seq(Items), NEW h \in 1..Count, RemoveFrom(h)
    PROVE  /\ Count \in Nat /\ DOMAIN muxables = 1..Count
           /\ muxables' \in Seq(Items) /\ Len(muxables') = Count - 1
           /\ \A p \in 1..Count - 1 :
                 muxables'[p] = IF p < h THEN muxables[p] ELSE muxables[p + 1]
<1>1. /\ muxables \in Seq(Items) /\ Count \in Nat /\ h \in 1..Count
      /\ DOMAIN muxables = 1..Count
      /\ muxables' = RemoveAt(muxables, h)
  BY DEF Count, RemoveFrom
<1>2. /\ muxables' \in Seq(Items) /\ Len(muxables') = Count - 1
      /\ \A p \in 1..Count - 1 :
            muxables'[p] = IF p < h THEN muxables[p] ELSE muxables[p + 1]
  <2>1. /\ SubSeq(muxables, 1, h - 1) \in Seq(Items)
        /\ Len(SubSeq(muxables, 1, h - 1)) = h - 1
        /\ \A p \in 1..h - 1 : SubSeq(muxables, 1, h - 1)[p] = muxables[p]
    BY <1>1 DEF Count
  <2>2. /\ SubSeq(muxables, h + 1, Count) \in Seq(Items)
        /\ Len(SubSeq(muxables, h + 1, Count)) = Count - h
        /\ \A p \in 1..Count - h :
              SubSeq(muxables, h + 1, Count)[p] = muxables[h + p]
    <3>1. /\ h + 1 \in 1..Count + 1 /\ Count = Len(muxables)
      BY <1>1 DEF Count
    <3>2. /\ SubSeq(muxables, h + 1, Count) \in Seq(Items)
          /\ Len(SubSeq(muxables, h + 1, Count)) = Count - h
      <4>1. Count \in h..Len(muxables) /\ h \in Nat
        BY <1>1, <3>1
      <4>2. Count \in (h + 1) - 1..Len(muxables)
        BY <4>1
      <4>3. h + 1 \in 1..Len(muxables) + 1
        BY <3>1
      <4>4. /\ SubSeq(muxables, h + 1, Count) \in Seq(Items)
            /\ Len(SubSeq(muxables, h + 1, Count)) = Count - (h + 1) + 1
        BY <1>1, <4>2, <4>3, SubSeqProperties
      <4>5. QED
        BY <1>1, <4>1, <4>4
    <3>3. ASSUME NEW p \in 1..Count - h
          PROVE  SubSeq(muxables, h + 1, Count)[p] = muxables[h + p]
      BY <1>1, <3>1
    <3>4. QED
      BY <3>2, <3>3
  <2> DEFINE front == SubSeq(muxables, 1, h - 1)
             back  == SubSeq(muxables, h + 1, Count)
  <2>3. muxables' = front \o back
    BY <1>1 DEF RemoveAt, Count
  <2> HIDE DEF front, back
  <2>4. /\ front \o back \in Seq(Items) /\ Len(front \o back) = Count - 1
        /\ \A p \in 1..Count - 1 :
              (front \o back)[p] = IF p < h THEN front[p] ELSE back[p - h + 1]
    <3>1. /\ front \in Seq(Items) /\ Len(front) = h - 1
          /\ back \in Seq(Items) /\ Len(back) = Count - h
      BY <2>1, <2>2 DEF front, back
    <3>2. /\ front \o back \in Seq(Items)
          /\ Len(front \o back) = Len(front) + Len(back)
          /\ \A p \in 1..Len(front) + Len(back) :
                (front \o back)[p] = IF p <= Len(front) THEN front[p]
                                                       ELSE back[p - Len(front)]
      BY <3>1, ConcatProperties
    <3>3. h \in Int /\ Count \in Int /\ Len(front) + Len(back) = Count - 1
      BY <1>1, <3>1
    <3>4. \A p \in 1..Count - 1 :
             (p <= h - 1 <=> p < h) /\ p - (h - 1) = p - h + 1
      BY <3>3
    <3>5. \A p \in 1..Count - 1 :
             (front \o back)[p] = IF p < h THEN front[p] ELSE back[p - h + 1]
      BY <3>1, <3>2, <3>3, <3>4
    <3>6. QED
      BY <3>2, <3>3, <3>5
  <2>5. \A p \in 1..Count - 1 : ~(p < h) =>
           p - h + 1 \in 1..Count - h /\ h + (p - h + 1) = p + 1
    BY <1>1
  <2>6. \A p \in 1..Count - 1 : p < h => p \in 1..h - 1
    BY <1>1
  <2>7. QED
    BY <2>1, <2>2, <2>3, <2>4, <2>5, <2>6 DEF front, back
<1>3. QED
  BY <1>1, <1>2

\* A removal, the first or a later one, leaves some muxable that was once
\* inserted out of the vector.
LEMMA RemoveBreaks ==
    ASSUME MuxInv, spin_remove, Intact'
    PROVE  UNCHANGED <<muxables, passed>>
<1> SUFFICES ASSUME NEW h \in 1..Count, RemoveFrom(h) PROVE FALSE
  BY DEF spin_remove
<1>1. /\ Count \in Nat /\ h \in 1..Count /\ DOMAIN muxables = 1..Count
      /\ muxables' \in Seq(Items) /\ inserted' = inserted
      /\ DOMAIN muxables' = 1..Count - 1
  BY RemoveShifts DEF MuxInv, spin_remove
<1>2. \A p \in 1..Count - 1 :
          muxables'[p] = IF p < h THEN muxables[p] ELSE muxables[p + 1]
  BY RemoveShifts DEF MuxInv
<1>3. \A p \in 1..Count - 1 : \E q \in 1..Count :
          q # h /\ muxables'[p] = muxables[q]
  <2> SUFFICES ASSUME NEW p \in 1..Count - 1
               PROVE  \E q \in 1..Count : q # h /\ muxables'[p] = muxables[q]
    OBVIOUS
  <2>1. CASE p < h
    BY <1>1, <1>2, <2>1
  <2>2. CASE ~(p < h)
    <3>1. p + 1 \in 1..Count /\ p + 1 # h
      BY <1>1, <2>2
    <3>2. QED
      BY <1>2, <2>2, <3>1
  <2>3. QED
    BY <2>1, <2>2
<1>4. \A x \in Registered' : \E q \in 1..Count : q # h /\ x = muxables[q]
  BY <1>1, <1>2, <1>3 DEF Registered, ToSet
<1>5. Registered' \subseteq Registered
  BY <1>1, <1>4 DEF Registered, ToSet
<1>6. Intact
  BY <1>1, <1>5 DEF Intact
<1>7. IsInjective(muxables) /\ Registered \subseteq inserted
  BY <1>6 DEF MuxInv, FairInv, TypeOK
<1>8. muxables[h] \in Registered'
  BY <1>1, <1>7 DEF Intact, Registered, ToSet
<1>9. QED
  BY <1>1, <1>4, <1>7, <1>8 DEF IsInjective

\* Nothing comes back to the vector: each muxable is inserted once.
LEMMA IntactBefore ==
    ASSUME MuxInv, [Next]_vars, Intact'
    PROVE  Intact
<1>1. ASSUME NEW x \in Items, spin_insert(x)
      PROVE  Intact
  <2>1. /\ muxables \in Seq(Items) /\ Count \in Nat
        /\ muxables' = Append(muxables, x) /\ x \notin inserted
        /\ inserted' = inserted \cup {x}
    BY <1>1 DEF MuxInv, Count, spin_insert
  <2>2. /\ DOMAIN muxables = 1..Count /\ DOMAIN muxables' = 1..Count + 1
        /\ \A p \in 1..Count : muxables'[p] = muxables[p]
        /\ muxables'[Count + 1] = x
    BY <2>1 DEF Count
  <2>3. 1..Count + 1 = (1..Count) \cup {Count + 1}
    BY <2>1
  <2>4. Registered' = Registered \cup {x}
    BY <2>2, <2>3 DEF Registered, ToSet
  <2>5. QED
    BY <2>1, <2>4 DEF Intact
<1>2. CASE spin_remove
  BY <1>2, RemoveBreaks DEF Intact, Registered, spin_remove
<1>3. CASE UNCHANGED <<muxables, inserted>>
  BY <1>3 DEF Intact, Registered
<1>4. QED
  BY <1>1, <1>2, <1>3
     DEF Next, Scan, become_ready, consume, select, deadline_passes,
         select_times_out, select_poll, select_returns, select_wraps, vars,
         ghosts

\* Until the first removal, FairInv is inductive.
LEMMA NextFair ==
    ASSUME MuxInv, [Next]_vars, Intact'
    PROVE  FairInv'
<1> FairInv
  BY IntactBefore DEF MuxInv
<1>1. ASSUME NEW m \in Items, spin_insert(m) \/ become_ready(m)
      PROVE  FairInv'
  BY <1>1, InsertFair, ReadyFair
<1>2. CASE spin_remove
  <2>1. UNCHANGED <<muxables, passed, idx, ready, inserted>>
    BY <1>2, RemoveBreaks DEF spin_remove, MuxInv, Count, NoHandle
  <2>2. TypeOK'
    <3>1. removes' \in 0..MaxRemoves
      BY <1>2, MuxAssumption DEF FairInv, TypeOK, spin_remove
    <3>2. QED
      BY <1>2, <2>1, <3>1
         DEF FairInv, TypeOK, spin_remove, select_vars, Count
  <2>3. QED
    BY <1>2, <2>1, <2>2, OtherFair DEF FairInv, spin_remove
<1>3. CASE consume
  BY <1>3, ConsumeFair
<1>4. ASSUME NEW t \in Timeouts, select(t)
      PROVE  FairInv'
  <2>1. TypeOK'
    BY <1>4, MuxAssumption DEF FairInv, TypeOK, select, Count, NoHandle, NoItem
  <2>2. QED
    BY <1>4, <2>1, OtherFair DEF select
<1>5. CASE deadline_passes
  <2>1. TypeOK'
    BY <1>5 DEF FairInv, TypeOK, deadline_passes, Count, ghosts
  <2>2. QED
    BY <1>5, <2>1, OtherFair DEF FairInv, deadline_passes, ghosts
<1>6. CASE select_times_out
  <2>1. TypeOK'
    BY <1>6 DEF FairInv, TypeOK, select_times_out, Return, select_vars, Count,
                ghosts
  <2>2. QED
    BY <1>6, <2>1, OtherFair DEF select_times_out, Return, ghosts
<1>7. ASSUME NEW m \in Items, select_poll(m) \/ select_returns(m)
      PROVE  FairInv'
  BY <1>7, PollFair, ReturnFair
<1>8. CASE select_wraps
  <2>1. TypeOK'
    BY <1>8 DEF FairInv, TypeOK, select_wraps, Return, select_vars, Count,
                ghosts
  <2>2. QED
    BY <1>8, <2>1, OtherFair DEF FairInv, select_wraps, Return, ghosts
<1>9. CASE UNCHANGED vars
  <2>1. TypeOK'
    BY <1>9 DEF FairInv, TypeOK, vars, select_vars, Count, ghosts
  <2>2. QED
    BY <1>9, <2>1, OtherFair DEF FairInv, vars, ghosts
<1>10. QED
  BY <1>1, <1>2, <1>3, <1>4, <1>5, <1>6, <1>7, <1>8, <1>9 DEF Next, Scan

\* What the first removal leaves.
LEMMA NextTypes ==
    ASSUME MuxInv, [Next]_vars
    PROVE  /\ muxables' \in Seq(Items)
           /\ idx' \in Nat
           /\ handle' \in Nat \cup {NoHandle}
<1>1. muxables \in Seq(Items) /\ idx \in Nat /\ handle \in Nat \cup {NoHandle}
  BY DEF MuxInv
<1>2. muxables' \in Seq(Items)
  <2>1. ASSUME NEW x \in Items, spin_insert(x) PROVE muxables' \in Seq(Items)
    BY <1>1, <2>1 DEF spin_insert
  <2>2. CASE spin_remove
    <3>1. ASSUME NEW h \in 1..Count, RemoveFrom(h)
          PROVE  muxables' \in Seq(Items)
      <4>1. h \in 1..Count /\ Count \in Nat /\ Count = Len(muxables)
        BY <1>1 DEF Count
      <4>2. SubSeq(muxables, 1, h - 1) \in Seq(Items)
        BY <1>1, <4>1
      <4>3. SubSeq(muxables, h + 1, Len(muxables)) \in Seq(Items)
        BY <1>1, <4>1
      <4>4. muxables' = RemoveAt(muxables, h)
        BY <3>1 DEF RemoveFrom
      <4>5. QED
        BY <4>2, <4>3, <4>4 DEF RemoveAt
    <3>2. QED
      BY <1>1, <2>2, <3>1 DEF spin_remove
  <2>3. CASE UNCHANGED muxables
    BY <1>1, <2>3
  <2>4. QED
    BY <2>1, <2>2, <2>3
       DEF Next, Scan, become_ready, consume, select, deadline_passes,
           select_times_out, select_poll, select_returns, select_wraps, vars
<1>3. Count \in Nat /\ NextIdx \in Nat
  BY <1>1 DEF Count, NextIdx
<1>4. idx' \in Nat /\ handle' \in Nat \cup {NoHandle}
  BY <1>1, <1>3
     DEF Next, Scan, spin_insert, spin_remove, become_ready, consume, select,
         deadline_passes, select_times_out, select_poll, select_returns,
         select_wraps, IdxAfterReturn, vars
<1>5. QED
  BY <1>2, <1>4

\* The cyclic order is an invariant of every multiplexer, until something is
\* removed from it.
THEOREM FairInvariant == Spec => []MuxInv
<1>1. Init => MuxInv
  <2>1. Init => FairInv
    BY InitFair
  <2>2. QED
    BY <2>1 DEF Init, MuxInv
<1>2. MuxInv /\ [Next]_vars => MuxInv'
  BY NextFair, NextTypes DEF MuxInv
<1>3. QED
  BY <1>1, <1>2, PTL DEF Spec

\* The index never leaves the vector, "where we know it's safe to do so"
\* (spin_mux.c:101), however many muxables come in at whatever moment, until
\* one is removed.
THEOREM IndexStaysInRange == Spec => []IdxInRange
<1>1. MuxInv => IdxInRange
  BY DEF MuxInv, FairInv, TypeOK, IdxInRange, Count
<1>2. QED
  BY <1>1, FairInvariant, PTL

\* "This gives some degree of 'fairness'" (spin_mux.c:115): for any number of
\* muxables, none is returned twice while another one waits, until one is
\* removed.
THEOREM StrictRoundRobin == Spec => RoundRobin
<1> DEFINE Fair == \A m \in Items : Intact /\ Returns(m) =>
                       \A w \in Waiting \ {m} : m \notin passed[w]
<1>1. ASSUME MuxInv, Next PROVE Fair
  <2> SUFFICES ASSUME NEW m \in Items, Intact, Returns(m),
                      NEW w \in Waiting \ {m}, m \in passed[w]
               PROVE  FALSE
    OBVIOUS
  <2> FairInv
    BY <1>1 DEF MuxInv
  <2>1. m # NoItem
    BY ItemAssumption
  <2>2. select_returns(m)
    BY <1>1, <2>1
       DEF Returns, Next, Scan, spin_insert, become_ready, spin_remove,
           consume, select, deadline_passes, select_times_out, select_poll,
           select_returns, select_wraps, FairInv
  <2>3. /\ Count \in Nat /\ idx \in Nat /\ idx < Count
        /\ idx + 1 \in 1..Count /\ m = muxables[idx + 1]
    BY <2>2, PolledAtIdx DEF select_returns
  <2>4. PICK p \in 1..Count : muxables[p] = w
    BY DEF FairInv, TypeOK, Waiting, Registered, ToSet, Count
  <2>5. Before(p, idx + 1) /\ p # idx + 1
    BY <2>3, <2>4 DEF FairInv, Ahead, Waiting
  <2>6. QED
    BY <2>3, <2>4, <2>5 DEF Before
<1>2. QED
  BY <1>1, FairInvariant, PTL DEF Spec, RoundRobin

-----------------------------------------------------------------------------
\* The types survive removals: each muxable is inserted once, so the vector
\* stays free of duplicates and is never intact again.
TypeInv == TypeOK /\ Registered \subseteq inserted

LEMMA TypesInsert ==
    ASSUME TypeInv, NEW x \in Items, spin_insert(x)
    PROVE  /\ Count \in Nat /\ Count' = Count + 1
           /\ muxables' \in Seq(Items) /\ IsInjective(muxables)'
           /\ Registered' \subseteq inserted' /\ (Intact' => Intact)
<1>1. /\ muxables \in Seq(Items) /\ Count \in Nat /\ x \notin inserted
      /\ muxables' = Append(muxables, x) /\ inserted' = inserted \cup {x}
      /\ IsInjective(muxables) /\ Registered \subseteq inserted
  BY DEF TypeInv, TypeOK, Count, spin_insert
<1>2. /\ muxables' \in Seq(Items) /\ Count' = Count + 1
      /\ \A p \in 1..Count : muxables'[p] = muxables[p]
      /\ muxables'[Count + 1] = x
      /\ DOMAIN muxables = 1..Count /\ DOMAIN muxables' = 1..Count + 1
  BY <1>1 DEF Count
<1>3. \A p \in 1..Count + 1 : p \in 1..Count \/ p = Count + 1
  BY <1>1
<1>4. \A p \in 1..Count : muxables[p] # x
  BY <1>1, <1>2 DEF Registered, ToSet
<1>5. Registered' = Registered \cup {x}
  <2>1. 1..Count + 1 = (1..Count) \cup {Count + 1}
    BY <1>1
  <2>2. QED
    BY <1>2, <2>1 DEF Registered, ToSet
<1>6. IsInjective(muxables)'
  BY <1>1, <1>2, <1>3, <1>4 DEF IsInjective
<1>7. QED
  BY <1>1, <1>2, <1>5, <1>6 DEF Intact

LEMMA TypesRemove ==
    ASSUME TypeInv, spin_remove, NEW h \in 1..Count, RemoveFrom(h)
    PROVE  /\ muxables' \in Seq(Items) /\ IsInjective(muxables)'
           /\ Registered' \subseteq inserted' /\ ~Intact'
<1>1. /\ Count \in Nat /\ h \in 1..Count /\ DOMAIN muxables = 1..Count
      /\ muxables' \in Seq(Items) /\ inserted' = inserted
      /\ DOMAIN muxables' = 1..Count - 1
      /\ IsInjective(muxables) /\ Registered \subseteq inserted
  BY RemoveShifts DEF TypeInv, TypeOK, spin_remove
<1>2. \A p \in 1..Count - 1 :
          muxables'[p] = muxables[IF p < h THEN p ELSE p + 1]
  BY RemoveShifts DEF TypeInv, TypeOK
<1> DEFINE Old(p) == IF p < h THEN p ELSE p + 1
<1>3. \A p \in 1..Count - 1 : Old(p) \in 1..Count /\ Old(p) # h
  BY <1>1
<1>4. \A p, q \in 1..Count - 1 : Old(p) = Old(q) => p = q
  BY <1>1
<1>5. \A p \in 1..Count - 1 : muxables'[p] = muxables[Old(p)]
  BY <1>2
<1> HIDE DEF Old
<1>6. IsInjective(muxables)'
  BY <1>1, <1>3, <1>4, <1>5 DEF IsInjective
<1>7. Registered' \subseteq Registered
  BY <1>1, <1>3, <1>5 DEF Registered, ToSet
<1>8. muxables[h] \in Registered
  BY <1>1 DEF Registered, ToSet
<1>9. muxables[h] \notin Registered'
  BY <1>1, <1>3, <1>5 DEF Registered, ToSet, IsInjective
<1>10. QED
  BY <1>1, <1>6, <1>7, <1>8, <1>9 DEF Intact

LEMMA TypesNext ==
    ASSUME TypeInv, [Next]_vars
    PROVE  TypeInv'
<1> USE DEF TypeInv, Registered
<1>n. Count \in Nat /\ idx \in Nat /\ NextIdx \in Nat /\ i \in Nat
  BY DEF TypeOK, Count, NextIdx
<1>m. Count > 0 => NextIdx \in 0..Count
  BY <1>n DEF NextIdx
<1>1. ASSUME NEW x \in Items, spin_insert(x) PROVE TypeInv'
  <2>1. passed' \in [Items -> SUBSET Items] /\ inserted' \subseteq Items
    BY <1>1 DEF TypeOK, spin_insert
  <2>2. Intact' => idx' \in 0..Count' /\ i' \in 0..Count'
    <3>1. Count' = Count + 1 /\ (Intact' => Intact)
      BY <1>1, TypesInsert
    <3>2. idx' = idx /\ i' = i
      BY <1>1 DEF spin_insert, select_vars
    <3>3. Intact => idx \in 0..Count /\ i \in 0..Count
      BY DEF TypeOK
    <3>4. QED
      BY <1>n, <3>1, <3>2, <3>3
  <2>3. QED
    BY <1>1, <2>1, <2>2, TypesInsert DEF TypeOK, spin_insert, select_vars
<1>2. ASSUME NEW x \in Items, become_ready(x) PROVE TypeInv'
  BY <1>2 DEF TypeOK, become_ready, select_vars, ghosts, Intact, Count
<1>3. CASE spin_remove
  <2>1. ASSUME NEW h \in 1..Count, RemoveFrom(h) PROVE TypeInv'
    <3>1. removes' \in 0..MaxRemoves
      BY <1>3, MuxAssumption DEF TypeOK, spin_remove
    <3>2. passed' \in [Items -> SUBSET Items]
      BY <2>1 DEF TypeOK, RemoveFrom
    <3>3. QED
      BY <1>3, <2>1, <3>1, <3>2, TypesRemove DEF TypeOK, spin_remove, select_vars
  <2>2. CASE UNCHANGED <<muxables, passed>>
    <3>1. removes' \in 0..MaxRemoves
      BY <1>3, MuxAssumption DEF TypeOK, spin_remove
    <3>2. QED
      BY <1>3, <2>2, <3>1 DEF TypeOK, spin_remove, select_vars, Intact, Count
  <2>3. QED
    BY <1>3, <2>1, <2>2 DEF spin_remove
<1>4. CASE consume
  BY <1>4 DEF TypeOK, consume, select_vars, Intact, Count
<1>5. ASSUME NEW t \in Timeouts, select(t) PROVE TypeInv'
  BY <1>5, <1>n, MuxAssumption DEF TypeOK, select, Intact, Count
<1>6. CASE deadline_passes
  BY <1>6 DEF TypeOK, deadline_passes, Intact, Count, ghosts
<1>7. CASE select_times_out
  BY <1>7 DEF TypeOK, select_times_out, Return, select_vars, Intact, Count, ghosts
<1>8. ASSUME NEW x \in Items, select_poll(x) PROVE TypeInv'
  BY <1>8, <1>n, <1>m DEF TypeOK, select_poll, Intact, Count
<1>9. ASSUME NEW x \in Items, select_returns(x) PROVE TypeInv'
  <2>1. passed' \in [Items -> SUBSET Items]
    BY <1>9 DEF TypeOK, select_returns
  <2>2. QED
    BY <1>9, <1>n, <1>m, <2>1
       DEF TypeOK, select_returns, IdxAfterReturn, Return, select_vars, Intact, Count
<1>10. CASE select_wraps
  BY <1>10, <1>n DEF TypeOK, select_wraps, Return, select_vars, Intact, Count, ghosts
<1>11. CASE UNCHANGED vars
  BY <1>11 DEF TypeOK, vars, select_vars, ghosts, Intact, Count
<1>12. QED
  BY <1>1, <1>2, <1>3, <1>4, <1>5, <1>6, <1>7, <1>8, <1>9, <1>10, <1>11 DEF Next, Scan

\* Every variable keeps its type, whatever callbacks remove: no muxable is in
\* the vector twice, and select's index and counter stay within it as long as
\* nothing has been removed.
THEOREM TypesCorrect == Spec => []TypeOK
<1>1. Init => TypeInv
  BY InitFair DEF FairInv, TypeInv
<1>2. TypeInv => TypeOK
  BY DEF TypeInv
<1>3. QED
  BY <1>1, <1>2, TypesNext, PTL DEF Spec
==============================================================================
