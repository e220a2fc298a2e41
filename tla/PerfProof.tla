------------------------------ MODULE PerfProof ------------------------------
(***************************************************************************)
(* What is proved of Perf, for every size of the ring, every batching of   *)
(* the server and every batching of the client up to the number of slots.  *)
(*                                                                         *)
(* The ring is followed by counters that do not wrap: conf messages are    *)
(* confirmed to the client, rel released by the server, Published and      *)
(* Given say how far the client has got and Taken and Acquired how far the *)
(* server has.  Every index is a counter modulo N and every number one     *)
(* modulo Wrap; since the counters are at most N apart, what one step      *)
(* writes does not concern the other messages in circulation.              *)
(***************************************************************************)
EXTENDS Perf, FiniteSetTheorems, WellFoundedInduction, SequenceTheorems, TLAPS


(***************************************************************************)
(* Remainders, and the largest of a set                                    *)
(***************************************************************************)
\* A number is a multiple of m and its remainder.
LEMMA Quotient ==
    ASSUME NEW m \in Nat \ {0}, NEW k \in Int
    PROVE  /\ k % m \in 0..m - 1
           /\ \E q \in Int : k = m * q + (k % m)
<1>1. k \div m \in Int
  OBVIOUS
<1>2. k = m * (k \div m) + (k % m)
  OBVIOUS
<1>3. k % m \in 0..m - 1
  OBVIOUS
<1>4. \E q \in Int : k = m * q + (k % m)
  <2> HIDE <1>2
  <2>1. WITNESS k \div m \in Int
  <2>2. QED
    BY <1>2
<1>5. QED
  BY <1>3, <1>4

\* Only the remainder is left of a multiple of m and a remainder.
LEMMA Remainder ==
    ASSUME NEW m \in Nat \ {0}, NEW q \in Int, NEW r \in 0..m - 1
    PROVE  (m * q + r) % m = r
OBVIOUS

\* Two numbers that differ by less than m have different remainders.
LEMMA Apart ==
    ASSUME NEW m \in Nat \ {0}, NEW j \in Int, NEW k \in Int, j % m = k % m,
           j <= k, k < j + m
    PROVE  j = k
<1>1. PICK p \in Int : j = m * p + (j % m)
  BY Quotient
<1>2. PICK q \in Int : k = m * q + (k % m)
  BY Quotient
<1>3. m * (q - p) = k - j
  BY <1>1, <1>2
<1>4. CASE q - p <= 0
  BY <1>3, <1>4
<1>5. CASE q - p >= 1
  <2>1. m * (q - p) >= m
    BY <1>5
  <2>2. QED
    BY <1>3, <2>1
<1>6. QED
  BY <1>4, <1>5

\* A number and the one m further have the same remainder.
LEMMA Again ==
    ASSUME NEW m \in Nat \ {0}, NEW k \in Int
    PROVE  (k + m) % m = k % m
<1>1. PICK q \in Int : k = m * q + (k % m)
  BY Quotient
<1>2. k + m = m * (q + 1) + (k % m) /\ q + 1 \in Int
  BY <1>1
<1>3. k % m \in 0..m - 1
  BY Quotient
<1>4. (m * (q + 1) + (k % m)) % m = k % m
  BY <1>2, <1>3, Remainder
<1>5. QED
  BY <1>2, <1>4

\* A distance may be added before or after the remainder is taken.
LEMMA Within ==
    ASSUME NEW m \in Nat \ {0}, NEW k \in Int, NEW d \in Int
    PROVE  ((k % m) + d) % m = (k + d) % m
<1>1. PICK q \in Int : k = m * q + (k % m)
  BY Quotient
<1>2. k % m \in Int
  BY Quotient
<1>n. (k % m) + d \in Int
  BY <1>2
<1>3. PICK p \in Int : (k % m) + d = m * p + (((k % m) + d) % m)
  BY Quotient, <1>n
<1>4. k + d = m * (q + p) + (((k % m) + d) % m) /\ q + p \in Int
  <2>1. m * (q + p) = m * q + m * p
    OBVIOUS
  <2>2. ((k % m) + d) % m \in Int
    BY Quotient, <1>2
  <2>3. QED
    BY <1>1, <1>2, <1>3, <2>1, <2>2
<1>5. ((k % m) + d) % m \in 0..m - 1
  BY Quotient, <1>2
<1>6. QED
  BY <1>4, <1>5, Remainder

\* Positions of the ring: N of them in a row are different slots.
LEMMA SlotFacts ==
    /\ \A k \in Int : Slot(k) \in Slots
    /\ \A j, k \in Int : Slot(j) = Slot(k) /\ j <= k /\ k < j + N => j = k
    /\ \A k \in Int : Slot(k + N) = Slot(k)
    /\ \A k, d \in Int : Slot(Slot(k) + d) = Slot(k + d)
<1>1. N \in Nat \ {0}
  BY PerfAssumption
<1>2. \A k \in Int : Slot(k) \in Slots
  BY <1>1, Quotient DEF Slot, Slots
<1>3. ASSUME NEW j \in Int, NEW k \in Int, Slot(j) = Slot(k), j <= k, k < j + N
      PROVE  j = k
  BY <1>1, <1>3, Apart DEF Slot
<1>4. \A k \in Int : Slot(k + N) = Slot(k)
  BY <1>1, Again DEF Slot
<1>5. \A k, d \in Int : Slot(Slot(k) + d) = Slot(k + d)
  BY <1>1, Within DEF Slot
<1>6. QED
  BY <1>2, <1>3, <1>4, <1>5

\* Sequence numbers go on from one another.
LEMMA CountedFacts ==
    /\ \A k \in Int : Counted(k) \in SeqNo
    /\ \A k, d \in Int : Counted(Counted(k) + d) = Counted(k + d)
<1>1. Wrap \in Nat \ {0}
  BY PerfAssumption
<1>2. \A k \in Int : Counted(k) \in SeqNo
  BY <1>1, Quotient DEF Counted, SeqNo
<1>3. \A k, d \in Int : Counted(Counted(k) + d) = Counted(k + d)
  BY <1>1, Within DEF Counted
<1>4. QED
  BY <1>2, <1>3

\* Every set of natural numbers that is not empty has a least element.
LEMMA Least ==
    ASSUME NEW T \in SUBSET Nat, T # {}
    PROVE  \E n \in T : \A m \in T : n <= m
<1> DEFINE Below == {p \in Nat \X Nat : p[1] < p[2]}
<1>1. IsWellFoundedOn(Below, Nat)
  BY NatLessThanWellFounded DEF OpToRel
<1>2. \E x \in T : \A y \in T : ~ (<<y, x>> \in Below)
  <2> HIDE DEF Below
  <2> QED
    BY <1>1, WFMin
<1>3. \A x, y \in Nat : x < y => <<x, y>> \in Below
  OBVIOUS
<1>4. QED
  <2> HIDE DEF Below
  <2> QED
    <3>1. PICK x \in T : \A y \in T : ~ (<<y, x>> \in Below)
      BY <1>2
    <3>2. \A y \in T : ~ (y < x)
      BY <3>1, <1>3
    <3>3. QED
      BY <3>2

\* Max of a set of natural numbers with a bound is one of them.
LEMMA MaxOf ==
    ASSUME NEW S \in SUBSET Nat, S # {}, NEW b \in Nat, \A x \in S : x <= b
    PROVE  Max(S) \in S /\ \A x \in S : x <= Max(S)
<1> DEFINE T == {n \in Nat : \A x \in S : x <= n}
<1>1. PICK n \in T : \A m \in T : n <= m
  <2>1. b \in T /\ T \in SUBSET Nat
    OBVIOUS
  <2>2. QED
    BY <2>1, Least
<1>2. n \in S
  <2>1. SUFFICES ASSUME n \notin S PROVE FALSE
    OBVIOUS
  <2>2. PICK x \in S : TRUE
    OBVIOUS
  <2>3. n > 0
    BY <1>1, <2>1, <2>2
  <2>4. n - 1 \in T
    BY <1>1, <2>1, <2>3
  <2>5. QED
    BY <1>1, <2>4
<1>3. \E x \in S : \A y \in S : x >= y
  BY <1>1, <1>2
<1>4. QED
  BY <1>3 DEF Max

\* The sequences that Batch chooses from.
Sorted(S) == {q \in [1..Cardinality(S) -> S] :
                ToSet(q) = S /\ \A i, j \in DOMAIN q : i < j => q[i] < q[j]}

\* Every finite set of natural numbers can be put in order: of the largest
\* element, after the others.
LEMMA Sortable ==
    ASSUME NEW b \in Nat, NEW S \in SUBSET (0..b - 1)
    PROVE  IsFiniteSet(S) /\ Sorted(S) # {}
<1>1. \A n \in Nat : \A T \in SUBSET (0..n - 1) : IsFiniteSet(T)
  <2>1. TAKE n \in Nat
  <2>2. IsFiniteSet(0..n - 1)
    BY FS_Interval
  <2>3. QED
    BY <2>2, FS_Subset
<1> DEFINE Bad == {n \in Nat : \E T \in SUBSET (0..n - 1) : Sorted(T) = {}}
<1>2. SUFFICES ASSUME Bad # {} PROVE FALSE
  BY <1>1
<1>3. PICK n \in Nat : n \in Bad /\ \A m \in Bad : n <= m
  BY <1>2, Least
<1>4. PICK T \in SUBSET (0..n - 1) : Sorted(T) = {}
  BY <1>3
<1> HIDE DEF Bad
<1>5. CASE T = {}
  <2>1. Cardinality(T) = 0
    BY <1>5, FS_EmptySet
  <2>2. <<>> \in Sorted(T)
    BY <1>5, <2>1 DEF Sorted, ToSet
  <2>3. QED
    BY <1>4, <2>2
<1>6. CASE T # {}
  <2>0. n > 0
    <3>1. PICK x \in T : TRUE
      BY <1>6
    <3>2. x \in 0..n - 1
      OBVIOUS
    <3>3. QED
      BY <3>2
  <2>1. n > 0 /\ n - 1 \in Nat /\ n - 1 \notin Bad
    <3>1. n - 1 \in Nat /\ ~ (n <= n - 1)
      BY <2>0
    <3>2. QED
      BY <1>3, <2>0, <3>1
  <2>2. ASSUME NEW U \in SUBSET (0..n - 2) PROVE Sorted(U) # {}
    BY <2>1, <2>2 DEF Bad
  <2>3. CASE n - 1 \notin T
    BY <2>2, <2>3, <1>4, <2>1
  <2>4. CASE n - 1 \in T
    <3> DEFINE U == T \ {n - 1}
    <3>1. U \in SUBSET (0..n - 2) /\ IsFiniteSet(T)
      <4>1. IsFiniteSet(T)
        BY <1>1
      <4>2. \A x \in U : x \in 0..n - 2
        OBVIOUS
      <4>3. QED
        BY <4>1, <4>2
    <3>2. PICK q \in Sorted(U) : TRUE
      BY <2>2, <3>1
    <3>3. /\ Cardinality(U) = Cardinality(T) - 1
          /\ Cardinality(T) \in Nat /\ Cardinality(T) > 0
      BY <3>1, <2>4, FS_RemoveElement, FS_CardinalityType, FS_EmptySet
    <3> DEFINE c0 == Cardinality(T)
               r == [i \in 1..c0 |-> IF i = c0 THEN n - 1 ELSE q[i]]
    <3>4. q \in [1..c0 - 1 -> U] /\ ToSet(q) = U /\ \A i, j \in 1..c0 - 1 : i < j => q[i] < q[j]
      BY <3>2, <3>3 DEF Sorted
    <3>r. /\ DOMAIN r = 1..c0 /\ c0 \in 1..c0 /\ r[c0] = n - 1
          /\ \A i \in 1..c0 - 1 : i \in 1..c0 /\ r[i] = q[i] /\ r[i] \in U
          /\ \A i \in 1..c0 : i = c0 \/ i \in 1..c0 - 1
      BY <3>3, <3>4
    <3>5. r \in [1..c0 -> T]
      <4>1. \A i \in 1..c0 : r[i] \in T
        <5> HIDE DEF r, c0
        <5> QED
          BY <3>r, <2>4
      <4>2. QED
        BY <4>1
    <3>6. \A x \in T : \E i \in 1..c0 : r[i] = x
      <4>1. TAKE x \in T
      <4>2. CASE x = n - 1
        BY <4>2, <3>3
      <4>3. CASE x # n - 1
        <5>1. PICK i \in 1..c0 - 1 : q[i] = x
          BY <4>3, <3>4 DEF ToSet
        <5>2. i \in 1..c0 /\ r[i] = x
          BY <5>1, <3>3
        <5>3. QED
          BY <5>2
      <4>4. QED
        BY <4>2, <4>3
    <3>7. ToSet(r) = T
      BY <3>5, <3>6 DEF ToSet
    <3>8. \A i, j \in 1..c0 : i < j => r[i] < r[j]
      <4> SUFFICES ASSUME NEW i \in 1..c0, NEW j \in 1..c0, i < j
                   PROVE  r[i] < r[j]
        OBVIOUS
      <4>1. i \in 1..c0 - 1 /\ r[i] = q[i] /\ q[i] \in 0..n - 2
        <5>1. i \in 1..c0 - 1
          BY <3>3
        <5>2. r[i] = q[i] /\ q[i] \in U
          BY <5>1, <3>r
        <5>3. QED
          BY <5>1, <5>2, <3>1
      <4>2. CASE j = c0
        BY <4>1, <4>2, <3>r
      <4>3. CASE j \in 1..c0 - 1
        BY <4>1, <4>3, <3>3, <3>4
      <4>4. QED
        BY <4>2, <4>3, <3>r
    <3>9. r \in Sorted(T)
      BY <3>5, <3>7, <3>8 DEF Sorted
    <3>10. QED
      BY <3>9, <1>4
  <2>5. QED
    BY <2>3, <2>4
<1>7. QED
  BY <1>5, <1>6

-----------------------------------------------------------------------------
(***************************************************************************)
(* The invariant                                                           *)
(***************************************************************************)
Muxables == {"device", "wr_data", "wr_buff", "rd_data", "rd_buff"}

\* The types of the two programs' states.
ClientType ==
    [mux : Seq(Muxables), idx : Nat, connected : BOOLEAN, exited : BOOLEAN,
     wanting : SUBSET Ids, filled : SUBSET [id : Ids, buf : Slots],
     wr_buff_q : Seq(Ids), wr_buff_use : Nat, wr_data_q : Seq(Ids), wr_data_use : Nat,
     wr_buff_acq_idx : Slots, wr_out_index : Slots, wr_rel_index : Slots,
     wr_sync_counter : SeqNo, seq : SeqNo, sending : Seq([id : Ids, buf : Slots])]

ServerType ==
    [mux : Seq(Muxables), idx : Nat, connected : BOOLEAN,
     rd_buff_q : Nat, rd_buff_use : Nat, rd_data_q : Seq(Slots),
     rd_acq_index : Slots, rd_rel_index : Slots, rd_sync_counter : SeqNo,
     seq_exp : SeqNo, lost : BOOLEAN, sync_error : BOOLEAN, releasing : Seq(Slots)]

\* Where the client is between two polls: not connected; about to ask for, or with
\* requests for, a buffer for each id that has none; or with none of those.
ClientTurn ==
    \/ /\ ~c.connected /\ c.mux \in {<<"device">>, <<>>} /\ c.idx = 0
       /\ c.wr_buff_q = <<>> /\ c.wr_data_q = <<>> /\ c.sending = <<>> /\ c.wanting = Ids
    \/ /\ c.connected /\ \/ c.mux = <<"device", "wr_data", "wr_buff">> /\ c.idx = 0
                         \/ c.mux = <<"wr_data", "wr_buff">> /\ c.idx = 1
       /\ c.sending = <<>> /\ c.wr_buff_q = Batch(c.wanting)
    \/ /\ c.connected /\ c.mux = <<"wr_data", "wr_buff">> /\ c.idx = 0
       /\ c.wr_buff_q = <<>> /\ c.wanting = {}

\* The server: not connected; about to read; or with what it has read.
ServerTurn ==
    \/ /\ ~s.connected /\ s.mux \in {<<"device">>, <<>>} /\ s.idx = 0
       /\ s.rd_buff_q = 0 /\ s.rd_data_q = <<>> /\ s.releasing = <<>>
    \/ /\ s.connected /\ \/ s.mux = <<"device", "rd_data", "rd_buff">> /\ s.idx = 0
                         \/ s.mux = <<"rd_data", "rd_buff">> /\ s.idx = 1
       /\ s.rd_data_q = <<>>
    \/ /\ s.connected /\ s.mux = <<"rd_data", "rd_buff">> /\ s.idx = 0
       /\ s.releasing = <<>> /\ Len(s.rd_data_q) <= Lesser(ServerBatching, N)

\* Nothing is left half-done between two polls of the client, and its queues hold no
\* more than its batching.
ClientInv ==
    /\ c \in ClientType
    /\ ~c.exited /\ c.filled = {} /\ c.wr_buff_use = 0 /\ c.wr_data_use = 0
    /\ ClientTurn
    /\ Len(c.wr_buff_q) + Len(c.sending) + Len(c.wr_data_q) <= Batching

\* The server has seen no error, and its queue is no longer than the ring.
ServerInv ==
    /\ s \in ServerType
    /\ ~s.sync_error /\ ~s.lost /\ s.rd_buff_use <= s.rd_buff_q /\ s.rd_buff_q <= N
    /\ ServerTurn

\* The messages up to which the client has published and given buffers, ...
Published(conf) == conf + Len(c.wr_data_q)
Given(conf)     == Published(conf) + Len(c.sending)
\* ... and up to which the server has taken them from its queue, and acquired.
Taken(rel)      == rel + Len(s.releasing)
Acquired(rel)   == Taken(rel) + Len(s.rd_data_q) + s.rd_buff_use

\* The client's indices and numbers are those of its counters, ...
ClientRing(conf) ==
    /\ c.wr_rel_index = Slot(conf)
    /\ c.wr_out_index = Slot(Published(conf)) /\ c.wr_sync_counter = Counted(Published(conf))
    /\ c.wr_buff_acq_idx = Slot(Given(conf)) /\ c.seq = Counted(Given(conf))
    /\ \A i \in 1..Len(c.sending) : c.sending[i].buf = Slot(Published(conf) + i - 1)

\* ... and so are the server's, and the buffers it has are the next ones.
ServerRing(rel) ==
    /\ s.rd_rel_index = Slot(rel) /\ s.seq_exp = Counted(rel)
    /\ s.rd_acq_index = Slot(Acquired(rel)) /\ s.rd_sync_counter = Counted(Acquired(rel))
    /\ \A i \in 1..Len(s.releasing) : s.releasing[i] = Slot(rel + i - 1)
    /\ \A i \in 1..Len(s.rd_data_q) : s.rd_data_q[i] = Slot(Taken(rel) + i - 1)

\* The server is behind the client, and the client at most a lap ahead.
Order(conf, rel) ==
    conf <= rel /\ Acquired(rel) <= Published(conf) /\ Given(conf) <= conf + N

\* The headers from the oldest message that is not confirmed, for one lap: received,
\* published, and empty; and the numbers in the buffers that have one.
Ring(conf, rel, pub, given) ==
    /\ head \in [Slots -> {EMPTY, RXD} \cup SeqNo] /\ stamp \in [Slots -> SeqNo]
    /\ \A k \in conf..rel - 1 : head[Slot(k)] = RXD
    /\ \A k \in rel..pub - 1 : head[Slot(k)] = Counted(k)
    /\ \A k \in pub..conf + N - 1 : head[Slot(k)] = EMPTY
    /\ \A k \in rel..given - 1 : stamp[Slot(k)] = Counted(k)

\* All of it together, for some counters: the inductive invariant.
IInv(conf, rel) ==
    /\ ClientInv /\ ServerInv
    /\ ClientRing(conf) /\ ServerRing(rel) /\ Order(conf, rel)
    /\ Ring(conf, rel, Published(conf), Given(conf))

Inv == \E conf, rel \in Nat : IInv(conf, rel)

\* It says what the runs check.
LEMMA InvImplies ==
    ASSUME Inv, Batching <= N
    PROVE  TypeOK /\ NothingLost
<1>1. PICK conf \in Nat, rel \in Nat : IInv(conf, rel)
  BY DEF Inv
<1>2. c \in ClientType /\ s \in ServerType /\ ClientInv /\ ServerInv
  BY <1>1 DEF IInv, ClientInv, ServerInv
<1>3. NothingLost
  BY <1>1 DEF IInv, ClientInv, ServerInv, NothingLost
<1>t. /\ Len(c.wr_buff_q) \in Nat /\ Len(c.wr_data_q) \in Nat /\ Len(c.sending) \in Nat
      /\ Len(s.rd_data_q) \in Nat /\ c.wanting \subseteq Ids /\ s.rd_buff_q \in Nat /\ s.rd_buff_use \in Nat
  BY <1>2 DEF ClientType, ServerType
<1>4. TypeOK
  <2>1. head \in [Slots -> {EMPTY, RXD} \cup SeqNo] /\ stamp \in [Slots -> SeqNo]
    BY <1>1 DEF IInv, Ring
  <2>2. c.idx \in 0..Len(c.mux)
    <3>1. \/ c.idx = 0 /\ c.mux \in Seq(Muxables)
          \/ c.idx = 1 /\ c.mux = <<"wr_data", "wr_buff">>
      BY <1>2 DEF ClientInv, ClientTurn, ClientType
    <3>2. QED
      BY <3>1
  <2>3. s.idx \in 0..Len(s.mux)
    BY <1>2 DEF ServerInv, ServerTurn
  <2>4. c.filled \subseteq [id : Ids, buf : Slots] /\ c.wr_buff_use = 0 /\ c.wr_data_use = 0
        /\ Len(c.wr_buff_q) <= N /\ Len(c.wr_data_q) <= N
    <3>1. /\ c.filled = {} /\ c.wr_buff_use = 0 /\ c.wr_data_use = 0
          /\ Len(c.wr_buff_q) + Len(c.sending) + Len(c.wr_data_q) <= Batching
      BY <1>2 DEF ClientInv
    <3>2. c.filled \subseteq [id : Ids, buf : Slots]
      BY <3>1
    <3>3. Len(c.wr_buff_q) <= N /\ Len(c.wr_data_q) <= N
      <4>1. Batching \in Nat /\ N \in Nat /\ Batching <= N
        BY PerfAssumption
      <4>2. \A i, j, k \in Nat : i + j + k <= Batching => i <= N /\ k <= N
        BY <4>1
      <4>3. QED
        BY <3>1, <1>t, <4>2
    <3>4. QED
      BY <3>1, <3>2, <3>3
  <2>5. Len(s.rd_data_q) <= N
    BY <1>2, <1>t, PerfAssumption DEF ServerInv, ServerTurn, Lesser
  <2>6. s.rd_buff_use <= s.rd_buff_q /\ s.rd_buff_q <= N
    BY <1>2 DEF ServerInv
  <2>7. QED
    BY <1>t, <2>1, <2>2, <2>3, <2>4, <2>5, <2>6 DEF TypeOK
<1>5. QED
  BY <1>3, <1>4

\* It holds at the start, with no message.
LEMMA InitInv ==
    ASSUME Init
    PROVE  Inv
<1>0. N \in Nat \ {0} /\ Batching \in Nat \ {0} /\ ServerBatching \in Nat \ {0} /\ Wrap \in Nat \ {0}
  BY PerfAssumption
<1>s. Slot(0) = 0 /\ Counted(0) = 0 /\ 0 \in Slots /\ 0 \in SeqNo
  <2>1. (N * 0 + 0) % N = 0 /\ (Wrap * 0 + 0) % Wrap = 0
    BY <1>0, Remainder
  <2>2. QED
    BY <1>0, <2>1 DEF Slot, Counted, Slots, SeqNo
<1>1. c \in ClientType
  BY <1>s DEF Init, ClientType
<1>2. s \in ServerType
  BY <1>s DEF Init, ServerType
<1>3. ClientInv
  BY <1>0, <1>1 DEF Init, ClientInv, ClientTurn
<1>4. ServerInv
  BY <1>0, <1>2 DEF Init, ServerInv, ServerTurn
<1>5. Published(0) = 0 /\ Given(0) = 0 /\ Taken(0) = 0 /\ Acquired(0) = 0
  BY DEF Init, Published, Given, Taken, Acquired
<1>6. ClientRing(0) /\ ServerRing(0)
  BY <1>s, <1>5 DEF Init, ClientRing, ServerRing
<1>7. Order(0, 0)
  BY <1>0, <1>5 DEF Order
<1>8. Ring(0, 0, 0, 0)
  <2>1. head \in [Slots -> {EMPTY, RXD} \cup SeqNo] /\ stamp \in [Slots -> SeqNo]
    BY <1>s DEF Init
  <2>2. \A k \in 0..N - 1 : head[Slot(k)] = EMPTY
    BY SlotFacts DEF Init
  <2>3. QED
    BY <1>0, <2>1, <2>2 DEF Ring
<1>9. IInv(0, 0)
  BY <1>3, <1>4, <1>5, <1>6, <1>7, <1>8 DEF IInv
<1>10. QED
  BY <1>9 DEF Inv

-----------------------------------------------------------------------------
(***************************************************************************)
(* The server's steps                                                      *)
(***************************************************************************)
\* What the proofs use of the server's state.
LEMMA ServerTypes ==
    ASSUME ServerInv
    PROVE  /\ Len(s.rd_data_q) \in Nat /\ Len(s.releasing) \in Nat
           /\ s.rd_data_q \in Seq(Slots) /\ s.releasing \in Seq(Slots)
           /\ s.rd_buff_q \in Nat /\ s.rd_buff_use \in Nat
           /\ s.mux \in Seq(Muxables) /\ s.idx \in Nat /\ s.connected \in BOOLEAN
BY DEF ServerInv, ServerType

\* And of the client's.
LEMMA ClientTypes ==
    ASSUME ClientInv
    PROVE  /\ Len(c.wr_buff_q) \in Nat /\ Len(c.wr_data_q) \in Nat /\ Len(c.sending) \in Nat
           /\ c.wr_buff_q \in Seq(Ids) /\ c.wr_data_q \in Seq(Ids)
           /\ c.sending \in Seq([id : Ids, buf : Slots])
           /\ c.mux \in Seq(Muxables) /\ c.idx \in Nat /\ c.connected \in BOOLEAN
           /\ c.wanting \in SUBSET Ids
BY DEF ClientInv, ClientType

\* A step that leaves the client as it is.
LEMMA ServerStep ==
    ASSUME NEW conf \in Nat, NEW rel \in Nat, NEW rel2 \in Nat, IInv(conf, rel), c' = c,
           ServerInv', ServerRing(rel2)',
           conf <= rel2, Acquired(rel2)' <= Published(conf),
           NEW pub, NEW given, pub = Published(conf), given = Given(conf),
           Ring(conf, rel2, pub, given)'
    PROVE  Inv'
<1>1. ClientInv'
  BY DEF IInv, ClientInv, ClientTurn
<1>2. Published(conf)' = pub /\ Given(conf)' = given
  BY DEF Published, Given
<1>3. ClientRing(conf)'
  BY DEF IInv, ClientRing, Published, Given
<1>4. Order(conf, rel2)'
  BY <1>2 DEF IInv, Order
<1>5. Ring(conf, rel2, Published(conf), Given(conf))'
  BY <1>2 DEF Ring
<1>6. IInv(conf, rel2)'
  BY <1>1, <1>3, <1>4, <1>5 DEF IInv
<1>7. QED
  BY <1>6 DEF Inv

\* What neither header nor number disturbs.
LEMMA SameRing ==
    ASSUME NEW conf, NEW rel, NEW pub, NEW given, Ring(conf, rel, pub, given),
           UNCHANGED <<head, stamp>>
    PROVE  Ring(conf, rel, pub, given)'
BY DEF Ring

\* What the invariant says of the counters.
LEMMA Counts ==
    ASSUME NEW conf \in Nat, NEW rel \in Nat, IInv(conf, rel)
    PROVE  /\ Published(conf) \in Nat /\ Given(conf) \in Nat
           /\ Taken(rel) \in Nat /\ Acquired(rel) \in Nat
           /\ conf <= rel /\ rel <= Taken(rel) /\ Taken(rel) <= Acquired(rel)
           /\ Acquired(rel) <= Published(conf) /\ Published(conf) <= Given(conf)
           /\ Given(conf) <= conf + N
<1>1. ClientInv /\ ServerInv /\ Order(conf, rel)
  BY DEF IInv
<1>2. /\ Len(s.rd_data_q) \in Nat /\ Len(s.releasing) \in Nat /\ s.rd_buff_use \in Nat
      /\ Len(c.wr_data_q) \in Nat /\ Len(c.sending) \in Nat
  BY <1>1, ServerTypes, ClientTypes
<1>n. \A i, j, k, l \in Nat : /\ i + j \in Nat /\ i + j + k \in Nat /\ i + j + k + l \in Nat
                            /\ i <= i + j /\ i + j <= i + j + k /\ i + j <= i + j + k + l
  OBVIOUS
<1>3. Published(conf) \in Nat /\ Given(conf) \in Nat /\ Published(conf) <= Given(conf)
  BY <1>2, <1>n DEF Published, Given
<1>4. /\ Taken(rel) \in Nat /\ Acquired(rel) \in Nat
      /\ rel <= Taken(rel) /\ Taken(rel) <= Acquired(rel)
  BY <1>2, <1>n DEF Taken, Acquired
<1>5. QED
  BY <1>1, <1>3, <1>4 DEF Order

\* The multiplexer goes on to the next channel, or to the first.
LEMMA ServerMoved ==
    ASSUME ServerInv, s.mux # <<>>
    PROVE  /\ MovedOn(s) \in ServerType
           /\ MovedOn(s).idx = (IF s.idx >= Len(s.mux) - 1 THEN 0 ELSE s.idx + 1)
           /\ MovedOn(s).mux = s.mux /\ MovedOn(s).connected = s.connected
           /\ MovedOn(s).rd_buff_q = s.rd_buff_q /\ MovedOn(s).rd_buff_use = s.rd_buff_use
           /\ MovedOn(s).rd_data_q = s.rd_data_q /\ MovedOn(s).releasing = s.releasing
           /\ MovedOn(s).rd_acq_index = s.rd_acq_index /\ MovedOn(s).rd_rel_index = s.rd_rel_index
           /\ MovedOn(s).rd_sync_counter = s.rd_sync_counter /\ MovedOn(s).seq_exp = s.seq_exp
           /\ MovedOn(s).lost = s.lost /\ MovedOn(s).sync_error = s.sync_error
<1>1. s \in ServerType
  BY DEF ServerInv
<1> DEFINE x == IF s.idx >= Len(s.mux) - 1 THEN 0 ELSE s.idx + 1
<1>2. x \in Nat
  BY <1>1 DEF ServerType
<1>3. MovedOn(s) = [s EXCEPT !.idx = x]
  BY DEF MovedOn
<1> HIDE DEF x
<1>4. MovedOn(s) \in ServerType /\ MovedOn(s).idx = x
  BY <1>1, <1>2, <1>3 DEF ServerType
<1>5. QED
  BY <1>1, <1>3, <1>4 DEF ServerType, x

\* The server's turn to collect what it has read.
LEMMA RdDatas ==
    ASSUME NEW conf \in Nat, NEW rel \in Nat, IInv(conf, rel), s.releasing = <<>>, on_new_rd_datas
    PROVE  Inv'
<1>0. ServerInv /\ s \in ServerType /\ ServerBatching \in Nat \ {0} /\ N \in Nat \ {0}
  BY PerfAssumption DEF IInv, ServerInv
<1>1. /\ s.connected /\ s.mux = <<"rd_data", "rd_buff">> /\ s.idx = 0
      /\ Len(s.rd_data_q) <= ServerBatching
  BY <1>0, ServerTypes DEF ServerInv, ServerTurn, on_new_rd_datas, Polls, AtIdx, Lesser
<1> DEFINE d == s.rd_data_q
<1>2. Lesser(ServerBatching, Len(d)) = Len(d) /\ d \in Seq(Slots) /\ Len(d) \in Nat
  BY <1>0, <1>1, ServerTypes DEF Lesser
<1>3. SubSeq(d, Len(d) + 1, Len(d)) = <<>> /\ SubSeq(d, 1, Len(d)) = d
  BY <1>2
<1> DEFINE p == MovedOn(s)
<1>m. /\ p \in ServerType /\ p.idx = 1 /\ p.mux = s.mux /\ p.connected = s.connected
      /\ p.rd_buff_q = s.rd_buff_q /\ p.rd_buff_use = s.rd_buff_use /\ p.rd_data_q = d
      /\ p.rd_acq_index = s.rd_acq_index /\ p.rd_rel_index = s.rd_rel_index
      /\ p.rd_sync_counter = s.rd_sync_counter /\ p.seq_exp = s.seq_exp
      /\ p.lost = s.lost /\ p.sync_error = s.sync_error
  <2>1. s.mux # <<>> /\ Len(s.mux) = 2
    BY <1>1
  <2>2. (IF s.idx >= Len(s.mux) - 1 THEN 0 ELSE s.idx + 1) = 1
    BY <1>1, <2>1
  <2>3. QED
    BY <1>0, <2>1, <2>2, ServerMoved
<1>t. p \in ServerType /\ d \in Seq(Slots) /\ <<>> \in Seq(Slots)
  BY <1>m, <1>2
<1> HIDE DEF p
<1>4. s' = [p EXCEPT !.rd_data_q = <<>>, !.releasing = d]
  BY <1>m, <1>2, <1>3 DEF on_new_rd_datas, p
<1>5. s' \in ServerType
  <2> HIDE DEF d
  <2> QED
    BY <1>4, <1>t DEF ServerType
<1>6. /\ s'.idx = 1 /\ s'.rd_data_q = <<>> /\ s'.releasing = d
      /\ s'.mux = s.mux /\ s'.connected = s.connected
      /\ s'.rd_buff_q = s.rd_buff_q /\ s'.rd_buff_use = s.rd_buff_use
      /\ s'.rd_acq_index = s.rd_acq_index /\ s'.rd_rel_index = s.rd_rel_index
      /\ s'.rd_sync_counter = s.rd_sync_counter /\ s'.seq_exp = s.seq_exp
      /\ s'.lost = s.lost /\ s'.sync_error = s.sync_error
  BY <1>4, <1>m DEF ServerType
<1>7. ServerInv'
  BY <1>0, <1>1, <1>5, <1>6 DEF ServerInv, ServerTurn
<1>8. Taken(rel)' = rel + Len(d) /\ Taken(rel) = rel /\ Acquired(rel)' = Acquired(rel)
  BY <1>2, <1>6 DEF Taken, Acquired
<1>9. ServerRing(rel)'
  BY <1>6, <1>8 DEF IInv, ServerRing
<1>10. UNCHANGED <<head, stamp, c>>
  BY DEF on_new_rd_datas
<1>11. Ring(conf, rel, Published(conf), Given(conf)) /\ Acquired(rel) <= Published(conf) /\ conf <= rel
  BY DEF IInv, Order
<1>12. PICK pub0, given0 : pub0 = Published(conf) /\ given0 = Given(conf)
  OBVIOUS
<1>13. Ring(conf, rel, pub0, given0)'
  BY <1>10, <1>11, <1>12, SameRing
<1>14. QED
  BY <1>7, <1>8, <1>9, <1>10, <1>11, <1>12, <1>13, ServerStep

\* The oldest slot is read: the ones between stay apart from it.
LEMMA RingReleased ==
    ASSUME NEW conf \in Nat, NEW rel \in Nat, NEW pub \in Nat, NEW given \in Nat,
           conf <= rel, rel < pub, pub <= given, given <= conf + N,
           Ring(conf, rel, pub, given),
           head' = [head EXCEPT ![Slot(rel)] = RXD], stamp' = stamp
    PROVE  Ring(conf, rel + 1, pub, given)'
<1>0. N \in Nat \ {0} /\ Slot(rel) \in Slots
  BY PerfAssumption, SlotFacts
<1>1. head' \in [Slots -> {EMPTY, RXD} \cup SeqNo] /\ stamp' \in [Slots -> SeqNo]
  BY DEF Ring
<1>2. \A k \in Nat : Slot(k) \in Slots /\ (k # rel /\ rel - N < k /\ k < rel + N => Slot(k) # Slot(rel))
  <2>1. \A j, k \in Int : Slot(j) = Slot(k) /\ j <= k /\ k < j + N => j = k
    BY SlotFacts
  <2>2. TAKE k \in Nat
  <2>3. Slot(k) \in Slots
    BY SlotFacts
  <2>4. SUFFICES ASSUME k # rel, rel - N < k, k < rel + N, Slot(k) = Slot(rel) PROVE FALSE
    BY <2>3
  <2>5. CASE k <= rel
    BY <2>1, <2>4, <2>5, <1>0
  <2>6. CASE rel <= k
    BY <2>1, <2>4, <2>6, <1>0
  <2>7. QED
    BY <2>5, <2>6
<1>3. /\ \A k \in Nat : k # rel /\ rel - N < k /\ k < rel + N => head'[Slot(k)] = head[Slot(k)]
      /\ head'[Slot(rel)] = RXD
  BY <1>0, <1>2 DEF Ring
<1>4. \A k \in conf..rel : head'[Slot(k)] = RXD
  BY <1>0, <1>3 DEF Ring
<1>5. \A k \in rel + 1..pub - 1 : head'[Slot(k)] = Counted(k)
  BY <1>0, <1>3 DEF Ring
<1>6. \A k \in pub..conf + N - 1 : head'[Slot(k)] = EMPTY
  BY <1>0, <1>3 DEF Ring
<1>7. \A k \in rel + 1..given - 1 : stamp'[Slot(k)] = Counted(k)
  BY DEF Ring
<1>8. QED
  BY <1>1, <1>4, <1>5, <1>6, <1>7 DEF Ring

\* The server compares a number and releases the buffer: it is the one that it
\* expects, and the oldest.
LEMMA Release ==
    ASSUME NEW conf \in Nat, NEW rel \in Nat, IInv(conf, rel), release
    PROVE  Inv'
<1>0. /\ ServerInv /\ s \in ServerType /\ ServerBatching \in Nat \ {0} /\ N \in Nat \ {0}
      /\ ServerRing(rel) /\ s.releasing # <<>>
  BY PerfAssumption DEF IInv, ServerInv, release
<1> DEFINE r == s.releasing
           b == Head(r)
<1>1. /\ r \in Seq(Slots) /\ Len(r) \in Nat /\ Len(r) > 0 /\ b = r[1]
      /\ Tail(r) \in Seq(Slots) /\ Len(Tail(r)) = Len(r) - 1 /\ Len(Tail(r)) \in Nat
      /\ \A i \in 1..Len(r) - 1 : Tail(r)[i] = r[i + 1]
  BY <1>0, ServerTypes, HeadTailProperties
<1>2. b = Slot(rel) /\ b = s.rd_rel_index /\ b \in Slots
  <2>1. 1 \in 1..Len(r) /\ rel + 1 - 1 = rel
    BY <1>1
  <2>2. r[1] = Slot(rel + 1 - 1) /\ s.rd_rel_index = Slot(rel)
    BY <1>0, <2>1 DEF ServerRing
  <2>3. Slot(rel) \in Slots
    BY SlotFacts
  <2>4. QED
    BY <2>1, <2>2, <2>3, <1>1
<1>3. /\ conf <= rel /\ rel < Published(conf) /\ Published(conf) <= Given(conf)
      /\ Given(conf) <= conf + N /\ Acquired(rel) <= Published(conf)
      /\ Published(conf) \in Nat /\ Given(conf) \in Nat /\ Acquired(rel) \in Nat /\ Taken(rel) \in Nat
  <2>1. Taken(rel) = rel + Len(r)
    BY DEF Taken
  <2>2. QED
    BY <2>1, <1>1, Counts
<1>4. stamp[b] = Counted(rel) /\ s.seq_exp = Counted(rel) /\ s.lost = FALSE
  BY <1>0, <1>2, <1>3, SMTT(30) DEF IInv, Ring, ServerRing, ServerInv, ServerType
<1>5. Counted(stamp[b] + 1) = Counted(rel + 1) /\ Counted(rel + 1) \in SeqNo
      /\ Slot(s.rd_rel_index + 1) = Slot(rel + 1) /\ Slot(rel + 1) \in Slots
  <2>1. Counted(Counted(rel) + 1) = Counted(rel + 1) /\ Counted(rel + 1) \in SeqNo
        /\ Slot(Slot(rel) + 1) = Slot(rel + 1) /\ Slot(rel + 1) \in Slots
    <3>1. rel \in Int /\ 1 \in Int /\ rel + 1 \in Int
      OBVIOUS
    <3>2. Counted(Counted(rel) + 1) = Counted(rel + 1) /\ Counted(rel + 1) \in SeqNo
      BY <3>1, CountedFacts
    <3>3. Slot(Slot(rel) + 1) = Slot(rel + 1) /\ Slot(rel + 1) \in Slots
      BY <3>1, SlotFacts
    <3>4. QED
      BY <3>2, <3>3
  <2>2. QED
    BY <2>1, <1>2, <1>4
<1> DEFINE p == Compared(s, b)
           q == [p EXCEPT !.releasing = Tail(@), !.rd_rel_index = Slot(@ + 1)]
<1> HIDE DEF r, b
<1>6. p = [s EXCEPT !.lost = FALSE, !.seq_exp = Counted(rel + 1)]
  BY <1>4, <1>5 DEF Compared
<1>7. /\ p \in ServerType /\ p.lost = FALSE /\ p.seq_exp = Counted(rel + 1)
      /\ p.idx = s.idx /\ p.mux = s.mux /\ p.connected = s.connected
      /\ p.rd_buff_q = s.rd_buff_q /\ p.rd_buff_use = s.rd_buff_use /\ p.rd_data_q = s.rd_data_q
      /\ p.rd_acq_index = s.rd_acq_index /\ p.rd_rel_index = s.rd_rel_index
      /\ p.rd_sync_counter = s.rd_sync_counter
      /\ p.releasing = r /\ p.sync_error = s.sync_error
  <2> HIDE DEF p
  <2>1. p \in ServerType
    BY <1>0, <1>5, <1>6 DEF ServerType
  <2>2. QED
    BY <1>0, <1>6, <2>1 DEF ServerType, r
<1> HIDE DEF p
<1>8. q = [p EXCEPT !.releasing = Tail(r), !.rd_rel_index = Slot(rel + 1)]
  BY <1>5, <1>7
<1>9. /\ q \in ServerType /\ q.lost = FALSE /\ q.seq_exp = Counted(rel + 1)
      /\ q.idx = s.idx /\ q.mux = s.mux /\ q.connected = s.connected
      /\ q.rd_buff_q = s.rd_buff_q /\ q.rd_buff_use = s.rd_buff_use /\ q.rd_data_q = s.rd_data_q
      /\ q.rd_acq_index = s.rd_acq_index /\ q.rd_rel_index = Slot(rel + 1)
      /\ q.rd_sync_counter = s.rd_sync_counter
      /\ q.releasing = Tail(r) /\ q.sync_error = s.sync_error
  <2> HIDE DEF q
  <2>0. p \in ServerType /\ Tail(r) \in Seq(Slots) /\ Slot(rel + 1) \in Slots
    BY <1>1, <1>5, <1>7
  <2>1. q \in ServerType
    BY <2>0, <1>8 DEF ServerType
  <2>2. /\ q.lost = p.lost /\ q.seq_exp = p.seq_exp
        /\ q.idx = p.idx /\ q.mux = p.mux /\ q.connected = p.connected
        /\ q.rd_buff_q = p.rd_buff_q /\ q.rd_buff_use = p.rd_buff_use /\ q.rd_data_q = p.rd_data_q
        /\ q.rd_acq_index = p.rd_acq_index /\ q.rd_rel_index = Slot(rel + 1)
        /\ q.rd_sync_counter = p.rd_sync_counter
        /\ q.releasing = Tail(r) /\ q.sync_error = p.sync_error
    BY <2>0, <1>8 DEF ServerType
  <2>3. QED
    BY <2>1, <2>2, <1>7
<1>10. /\ head' = [head EXCEPT ![Slot(rel)] = RXD] /\ stamp' = stamp /\ c' = c
       /\ s' = IF q.releasing = <<>> THEN server_get_new_buffers(q) ELSE q
  BY <1>2 DEF release, p, b, r
<1> HIDE DEF q
<1> DEFINE room == IF q.releasing = <<>> THEN Lesser(q.rd_buff_q + ServerBatching, N) ELSE q.rd_buff_q
<1>11. room \in Nat /\ s.rd_buff_use <= room /\ room <= N
  <2>1. /\ s.rd_buff_q \in Nat /\ s.rd_buff_use \in Nat
        /\ s.rd_buff_use <= s.rd_buff_q /\ s.rd_buff_q <= N
    BY <1>0, ServerTypes DEF ServerInv
  <2>2. room = s.rd_buff_q \/ room = Lesser(s.rd_buff_q + ServerBatching, N)
    BY <1>9
  <2>3. QED
    BY <2>1, <2>2, <1>0 DEF Lesser
<1>12. s' = [q EXCEPT !.rd_buff_q = room]
  BY <1>9, <1>10 DEF server_get_new_buffers, ServerType
<1> HIDE DEF room
<1>13. /\ s' \in ServerType /\ s'.lost = FALSE /\ s'.seq_exp = Counted(rel + 1)
       /\ s'.idx = s.idx /\ s'.mux = s.mux /\ s'.connected = s.connected
       /\ s'.rd_buff_q = room /\ s'.rd_buff_use = s.rd_buff_use /\ s'.rd_data_q = s.rd_data_q
       /\ s'.rd_acq_index = s.rd_acq_index /\ s'.rd_rel_index = Slot(rel + 1)
       /\ s'.rd_sync_counter = s.rd_sync_counter
       /\ s'.releasing = Tail(r) /\ s'.sync_error = s.sync_error
  <2>1. s' \in ServerType
    BY <1>9, <1>11, <1>12 DEF ServerType
  <2>2. /\ s'.lost = q.lost /\ s'.seq_exp = q.seq_exp
        /\ s'.idx = q.idx /\ s'.mux = q.mux /\ s'.connected = q.connected
        /\ s'.rd_buff_q = room /\ s'.rd_buff_use = q.rd_buff_use /\ s'.rd_data_q = q.rd_data_q
        /\ s'.rd_acq_index = q.rd_acq_index /\ s'.rd_rel_index = q.rd_rel_index
        /\ s'.rd_sync_counter = q.rd_sync_counter
        /\ s'.releasing = q.releasing /\ s'.sync_error = q.sync_error
    <3>1. q \in ServerType
      BY <1>9
    <3>2. QED
      BY <3>1, <1>12 DEF ServerType
  <2>3. QED
    BY <2>1, <2>2, <1>9
<1>14. ServerInv'
  <2>1. /\ s.connected /\ s.rd_data_q = <<>>
        /\ \/ s.mux = <<"device", "rd_data", "rd_buff">> /\ s.idx = 0
           \/ s.mux = <<"rd_data", "rd_buff">> /\ s.idx = 1
    BY <1>0 DEF ServerInv, ServerTurn
  <2>2. ServerTurn'
    BY <2>1, <1>13 DEF ServerTurn
  <2>3. QED
    BY <2>2, <1>0, <1>11, <1>13 DEF ServerInv
<1>15. Taken(rel + 1)' = Taken(rel) /\ Acquired(rel + 1)' = Acquired(rel)
  <2>1. Taken(rel + 1)' = Taken(rel)
    <3>1. Taken(rel + 1)' = rel + 1 + Len(Tail(r))
      BY <1>13 DEF Taken
    <3>2. Taken(rel) = rel + Len(r)
      BY DEF Taken, r
    <3>3. QED
      BY <1>1, <3>1, <3>2
  <2>2. QED
    BY <2>1, <1>13 DEF Acquired
<1>16. ServerRing(rel + 1)'
  <2>1. \A i \in 1..Len(r) - 1 : Tail(r)[i] = Slot(rel + 1 + i - 1)
    <3>1. TAKE i \in 1..Len(r) - 1
    <3>2. i + 1 \in 1..Len(r) /\ rel + (i + 1) - 1 = rel + 1 + i - 1
      BY <1>1
    <3>3. r[i + 1] = Slot(rel + (i + 1) - 1)
      BY <3>2, <1>0 DEF ServerRing, r
    <3>4. QED
      BY <3>2, <3>3, <1>1
  <2>2. \A i \in 1..Len(s'.releasing) : s'.releasing[i] = Slot(rel + 1 + i - 1)
    BY <2>1, <1>1, <1>13
  <2>3. QED
    BY <2>2, <1>0, <1>13, <1>15 DEF ServerRing
<1>17. PICK pub \in Nat, given \in Nat : pub = Published(conf) /\ given = Given(conf)
  BY <1>3
<1>18. Ring(conf, rel + 1, pub, given)'
  <2>1. Ring(conf, rel, pub, given) /\ conf <= rel /\ rel < pub /\ pub <= given /\ given <= conf + N
    BY <1>3, <1>17 DEF IInv
  <2> HIDE <1>17
  <2>2. QED
    BY <2>1, <1>10, RingReleased
<1>19. QED
  BY <1>3, <1>10, <1>14, <1>15, <1>16, <1>17, <1>18, ServerStep

\* How many messages that follow each other the server can find.
Run(a, x, w) == {m \in 0..w : \A k \in 0..m - 1 : head[Slot(a + k)] = Counted(x + k)}

\* What the server finds beyond the messages it has taken: the published ones,
\* then EMPTY slots, then RXD ones.
LEMMA Found ==
    ASSUME NEW conf \in Nat, NEW rel \in Nat, NEW pub \in Nat, NEW given \in Nat,
           Ring(conf, rel, pub, given), NEW a \in Nat, NEW w \in Nat,
           conf <= rel, rel <= a, a <= pub, pub <= conf + N, a + w <= rel + N
    PROVE  LET n == Max(Run(Slot(a), Counted(a), w))
           IN  /\ n \in 0..w /\ a + n <= pub
               /\ n < w => head[Slot(Slot(a) + n)] \in {EMPTY, RXD}
<1>0. N \in Nat \ {0}
  BY PerfAssumption
<1>1. \A k \in Int : Slot(Slot(a) + k) = Slot(a + k) /\ Counted(Counted(a) + k) = Counted(a + k)
  <2>0. a \in Int
    OBVIOUS
  <2>1. \A k \in Int : Slot(Slot(a) + k) = Slot(a + k)
    BY <2>0, SlotFacts
  <2>2. \A k \in Int : Counted(Counted(a) + k) = Counted(a + k)
    BY <2>0, CountedFacts
  <2>3. QED
    BY <2>1, <2>2
<1>2. \A k \in Int : Counted(k) # EMPTY /\ Counted(k) # RXD
  <2>1. \A x \in SeqNo : x # EMPTY /\ x # RXD
    BY PerfAssumption DEF SeqNo, EMPTY, RXD
  <2>2. QED
    BY <2>1, CountedFacts
<1>3. ASSUME NEW k \in 0..w - 1, ~ (a + k < pub)
      PROVE  head[Slot(a + k)] \in {EMPTY, RXD}
  <2>1. CASE a + k < conf + N
    <3>1. a + k \in pub..conf + N - 1
      BY <1>0, <1>3, <2>1
    <3>2. QED
      BY <3>1 DEF Ring
  <2>2. CASE ~ (a + k < conf + N)
    <3>1. a + k - N \in conf..rel - 1 /\ (a + k - N) + N = a + k
      BY <1>0, <2>2
    <3>2. Slot((a + k - N) + N) = Slot(a + k - N)
      BY <3>1, SlotFacts
    <3>3. head[Slot(a + k - N)] = RXD
      BY <3>1 DEF Ring
    <3>4. QED
      BY <3>1, <3>2, <3>3
  <2>3. QED
    BY <2>1, <2>2
<1>4. ASSUME NEW k \in 0..w - 1, a + k < pub
      PROVE  head[Slot(a + k)] = Counted(a + k)
  <2>1. a + k \in rel..pub - 1
    BY <1>4
  <2>2. QED
    BY <2>1 DEF Ring
<1> DEFINE M == Run(Slot(a), Counted(a), w)
           n == Max(M)
<1>5. M = {m \in 0..w : \A k \in 0..m - 1 : head[Slot(a + k)] = Counted(a + k)}
  <2>1. \A m \in 0..w : \A k \in 0..m - 1 :
          /\ Slot(Slot(a) + k) = Slot(a + k) /\ Counted(Counted(a) + k) = Counted(a + k)
    BY <1>1
  <2>2. QED
    BY <2>1 DEF Run
<1>6. M \in SUBSET Nat /\ 0 \in M /\ \A m \in M : m <= w
  BY <1>5
<1>7. n \in M /\ \A m \in M : m <= n
  <2> HIDE DEF M
  <2> QED
    BY <1>6, MaxOf
<1>8. n \in 0..w
  BY <1>5, <1>7
<1> HIDE DEF n
<1>9. a + n <= pub
  <2>1. CASE n = 0
    BY <2>1
  <2>2. CASE n > 0
    <3>1. n - 1 \in 0..n - 1 /\ n - 1 \in 0..w - 1
      BY <1>8, <2>2
    <3>2. head[Slot(a + (n - 1))] = Counted(a + (n - 1)) /\ a + (n - 1) \in Int
      <4>1. \A k \in 0..n - 1 : head[Slot(a + k)] = Counted(a + k)
        BY <1>5, <1>7
      <4>2. QED
        BY <3>1, <4>1
    <3>3. a + (n - 1) < pub
      BY <3>1, <3>2, <1>2, <1>3
    <3>4. QED
      BY <3>3, <1>8
  <2>3. QED
    BY <2>1, <2>2, <1>8
<1>10. ASSUME n < w PROVE head[Slot(a + n)] \in {EMPTY, RXD}
  <2>1. n \in 0..w - 1
    BY <1>8, <1>10
  <2>2. CASE a + n < pub
    <3>1. n + 1 \in 0..w /\ ~ (n + 1 <= n)
      BY <2>1
    <3>2. \A k \in 0..n : head[Slot(a + k)] = Counted(a + k)
      <4>1. TAKE k \in 0..n
      <4>2. k \in 0..w - 1 /\ a + k < pub
        BY <2>1, <2>2
      <4>3. QED
        BY <4>2, <1>4
    <3>3. (n + 1) - 1 = n
      BY <2>1
    <3>4. n + 1 \in M
      BY <3>1, <3>2, <3>3, <1>5
    <3>5. QED
      BY <3>1, <3>4, <1>7
  <2>3. CASE ~ (a + n < pub)
    BY <2>1, <2>3, <1>3
  <2>4. QED
    BY <2>2, <2>3
<1>11. n < w => head[Slot(Slot(a) + n)] \in {EMPTY, RXD}
  BY <1>1, <1>8, <1>10
<1>12. QED
  BY <1>8, <1>9, <1>11 DEF n

\* The server's turn to read: it meets no slot that is out of step, and its data
\* queue has place for what it gets.
LEMMA RdBuffs ==
    ASSUME NEW conf \in Nat, NEW rel \in Nat, IInv(conf, rel), s.releasing = <<>>, on_new_rd_buffs
    PROVE  Inv'
<1>0. /\ ServerInv /\ s \in ServerType /\ ServerBatching \in Nat \ {0} /\ N \in Nat \ {0}
      /\ ServerRing(rel)
  BY PerfAssumption DEF IInv, ServerInv
<1>1. s.connected /\ s.mux = <<"rd_data", "rd_buff">> /\ s.idx = 1 /\ s.rd_data_q = <<>>
  BY <1>0, ServerTypes DEF ServerInv, ServerTurn, on_new_rd_buffs, Polls, AtIdx
<1> DEFINE p == MovedOn(s)
<1>2. /\ p \in ServerType /\ p.idx = 0 /\ p.mux = s.mux /\ p.connected = s.connected
      /\ p.rd_buff_q = s.rd_buff_q /\ p.rd_buff_use = s.rd_buff_use /\ p.rd_data_q = s.rd_data_q
      /\ p.rd_acq_index = s.rd_acq_index /\ p.rd_rel_index = s.rd_rel_index
      /\ p.rd_sync_counter = s.rd_sync_counter /\ p.seq_exp = s.seq_exp
      /\ p.lost = s.lost /\ p.sync_error = s.sync_error /\ p.releasing = s.releasing
  <2>1. s.mux # <<>> /\ Len(s.mux) = 2
    BY <1>1
  <2>2. (IF s.idx >= Len(s.mux) - 1 THEN 0 ELSE s.idx + 1) = 0
    BY <1>1, <2>1
  <2>3. QED
    BY <1>0, <2>1, <2>2, ServerMoved
<1> DEFINE a == Acquired(rel)
           w == s.rd_buff_q - s.rd_buff_use
           n == Max(Run(Slot(a), Counted(a), w))
<1>3. /\ s.rd_buff_q \in Nat /\ s.rd_buff_use \in Nat
      /\ s.rd_buff_use <= s.rd_buff_q /\ s.rd_buff_q <= N
  BY <1>0, ServerTypes DEF ServerInv
<1>4. a \in Nat /\ w \in Nat /\ a = rel + s.rd_buff_use /\ a + w = rel + s.rd_buff_q
  <2>1. Len(s.releasing) = 0 /\ Len(s.rd_data_q) = 0
    BY <1>1
  <2>2. a = rel + s.rd_buff_use
    BY <2>1, <1>3 DEF Acquired, Taken
  <2> HIDE DEF a
  <2>3. QED
    BY <2>2, <1>3
<1>5. /\ n \in 0..w /\ a + n <= Published(conf)
      /\ n < w => head[Slot(Slot(a) + n)] \in {EMPTY, RXD}
  <2>0. PICK pub \in Nat, given \in Nat : pub = Published(conf) /\ given = Given(conf)
    BY Counts
  <2>1. /\ conf <= rel /\ rel <= a /\ a <= pub /\ pub <= conf + N /\ a + w <= rel + N
        /\ Ring(conf, rel, pub, given)
    <3>1. pub <= given /\ given <= conf + N /\ a <= pub /\ conf <= rel
      BY <2>0, Counts
    <3>2. Ring(conf, rel, pub, given)
      BY <2>0 DEF IInv
    <3>3. rel <= a /\ a + w <= rel + N
      <4>1. \A i, j \in Nat : j <= N => rel <= rel + i /\ rel + j <= rel + N
        BY <1>0
      <4> HIDE DEF a, w
      <4>2. QED
        BY <1>3, <1>4, <4>1
    <3> HIDE DEF a, w
    <3>4. QED
      BY <3>1, <3>2, <3>3, <1>4, <1>0
  <2> HIDE <2>0 DEF a, w
  <2>2. /\ n \in 0..w /\ a + n <= pub
        /\ n < w => head[Slot(Slot(a) + n)] \in {EMPTY, RXD}
    BY <2>1, <1>4, Found, SMTT(30)
  <2>3. QED
    BY <2>0, <2>2
<1>6. /\ s.rd_acq_index = Slot(a) /\ s.rd_sync_counter = Counted(a) /\ s.rd_rel_index = Slot(rel)
      /\ s.seq_exp = Counted(rel)
  BY <1>0 DEF ServerRing
<1> DEFINE use == s.rd_buff_use + n
           r == read_buffer_ready(p)
<1>7. use \in Nat /\ use <= s.rd_buff_q /\ use <= N /\ a + n = rel + use /\ n \in Nat
  <2>1. \A i, j \in Nat : \A k \in 0..j - i :
          i <= j /\ j <= N => i + k \in Nat /\ i + k <= j /\ i + k <= N /\ k \in Nat
    BY <1>0
  <2>2. \A i, j, k \in Nat : (i + j) + k = i + (j + k)
    OBVIOUS
  <2>3. n \in 0..s.rd_buff_q - s.rd_buff_use
    BY <1>5
  <2> HIDE DEF n, a
  <2>4. use \in Nat /\ use <= s.rd_buff_q /\ use <= N /\ n \in Nat
    BY <1>3, <2>1, <2>3
  <2>5. QED
    BY <1>3, <1>4, <2>2, <2>4
<1>8. /\ r = [p EXCEPT !.rd_buff_use = use, !.rd_acq_index = Slot(a + n),
                      !.rd_sync_counter = Counted(a + n), !.sync_error = FALSE]
      /\ Slot(a + n) \in Slots /\ Counted(a + n) \in SeqNo
  <2>1. a \in Int /\ n \in Int /\ a + n \in Int
    <3> HIDE DEF a, n
    <3>1. QED
      BY <1>4, <1>7
  <2>2. /\ Slot(Slot(a) + n) = Slot(a + n) /\ Slot(a + n) \in Slots
        /\ Counted(Counted(a) + n) = Counted(a + n) /\ Counted(a + n) \in SeqNo
    <3> HIDE DEF a, n
    <3>1. QED
      BY <2>1, SlotFacts, CountedFacts
  <2>3. n = Max({m \in 0..w : \A k \in 0..m - 1 : head[Slot(Slot(a) + k)] = Counted(Counted(a) + k)})
    BY DEF Run
  <2>4. r = [p EXCEPT !.rd_buff_use = p.rd_buff_use + n, !.rd_acq_index = Slot(p.rd_acq_index + n),
                      !.rd_sync_counter = Counted(p.rd_sync_counter + n),
                      !.sync_error = n < w /\ head[Slot(p.rd_acq_index + n)] \notin {EMPTY, RXD}]
    <3> DEFINE wait == p.rd_buff_q - p.rd_buff_use
               many == Max({m \in 0..wait : \A k \in 0..m - 1 :
                              head[Slot(p.rd_acq_index + k)] = Counted(p.rd_sync_counter + k)})
    <3>1. r = [p EXCEPT !.rd_buff_use = p.rd_buff_use + many,
                        !.rd_acq_index = Slot(p.rd_acq_index + many),
                        !.rd_sync_counter = Counted(p.rd_sync_counter + many),
                        !.sync_error = /\ many < wait
                                       /\ head[Slot(p.rd_acq_index + many)] \notin {EMPTY, RXD}]
      <4> HIDE DEF p
      <4>1. QED
        BY Zenon DEF read_buffer_ready
    <3>2. wait = w /\ p.rd_acq_index = Slot(a) /\ p.rd_sync_counter = Counted(a)
      <4> HIDE DEF p, n, a
      <4>1. QED
        BY <1>2, <1>6
    <3>3. many = n
      <4> HIDE DEF p, n, a, w, wait
      <4>1. QED
        BY <3>2, <2>3
    <3> HIDE DEF p, n, a, w, wait, many
    <3>4. QED
      BY <3>1, <3>2, <3>3
  <2>5. (n < w /\ head[Slot(p.rd_acq_index + n)] \notin {EMPTY, RXD}) = FALSE
    <3> HIDE DEF p, n, a, w
    <3>1. QED
      BY <1>2, <1>5, <1>6
  <2>6. Slot(p.rd_acq_index + n) = Slot(a + n) /\ Counted(p.rd_sync_counter + n) = Counted(a + n)
        /\ p.rd_buff_use + n = use
    <3> HIDE DEF p, n, a
    <3>1. QED
      BY <1>2, <1>6, <2>2
  <2>7. QED
    BY <2>2, <2>4, <2>5, <2>6
<1> HIDE DEF a, w, n, use, p
<1>9. /\ r \in ServerType /\ r.idx = 0 /\ r.mux = s.mux /\ r.connected = s.connected
      /\ r.rd_buff_q = s.rd_buff_q /\ r.rd_buff_use = use /\ r.rd_data_q = <<>>
      /\ r.rd_acq_index = Slot(a + n) /\ r.rd_rel_index = s.rd_rel_index
      /\ r.rd_sync_counter = Counted(a + n) /\ r.seq_exp = s.seq_exp
      /\ r.lost = s.lost /\ r.sync_error = FALSE /\ r.releasing = s.releasing
  <2> HIDE DEF r
  <2>0. p \in ServerType
    BY <1>2
  <2>1. r \in ServerType
    BY <1>7, <1>8, <2>0 DEF ServerType
  <2>2. /\ r.idx = p.idx /\ r.mux = p.mux /\ r.connected = p.connected
        /\ r.rd_buff_q = p.rd_buff_q /\ r.rd_buff_use = use /\ r.rd_data_q = p.rd_data_q
        /\ r.rd_acq_index = Slot(a + n) /\ r.rd_rel_index = p.rd_rel_index
        /\ r.rd_sync_counter = Counted(a + n) /\ r.seq_exp = p.seq_exp
        /\ r.lost = p.lost /\ r.sync_error = FALSE /\ r.releasing = p.releasing
    BY <1>8, <2>0 DEF ServerType
  <2>3. QED
    BY <2>1, <2>2, <1>1, <1>2
<1> DEFINE num == Lesser(ServerBatching, use)
           taken == [i \in 1..num |-> Slot(N + r.rd_acq_index - r.rd_buff_use + i - 1)]
<1>10. num \in Nat /\ num <= ServerBatching /\ num <= use /\ num <= N
  BY <1>0, <1>7 DEF Lesser
<1> HIDE DEF r
<1>11. /\ taken \in Seq(Slots) /\ Len(taken) = num
       /\ \A i \in 1..num : taken[i] = Slot(rel + i - 1)
  <2> HIDE DEF num
  <2>1. ASSUME NEW i \in 1..num
        PROVE  /\ Slot(N + r.rd_acq_index - r.rd_buff_use + i - 1) = Slot(rel + i - 1)
               /\ Slot(rel + i - 1) \in Slots
    <3> DEFINE d == N - use + i - 1
    <3>0. /\ a \in Int /\ n \in Int /\ use \in Int /\ N \in Int /\ i \in Int /\ rel \in Int
          /\ a + n = rel + use
      BY <1>0, <1>4, <1>7, <1>10
    <3>1. a + n \in Int /\ d \in Int /\ (a + n) + d = (rel + i - 1) + N /\ rel + i - 1 \in Int
      <4> HIDE DEF use
      <4> QED
        BY <3>0
    <3>2. Slot(a + n) \in Int
      BY <3>1, SlotFacts DEF Slots
    <3>3. N + r.rd_acq_index - r.rd_buff_use + i - 1 = Slot(a + n) + d
      BY <1>0, <1>7, <1>9, <1>10, <3>2
    <3> HIDE DEF d
    <3>4. Slot(Slot(a + n) + d) = Slot((a + n) + d)
      BY <3>1, SlotFacts
    <3>5. Slot((rel + i - 1) + N) = Slot(rel + i - 1) /\ Slot(rel + i - 1) \in Slots
      BY <3>1, SlotFacts
    <3>6. QED
      BY <3>1, <3>3, <3>4, <3>5
  <2>2. QED
    BY <2>1, <1>10
<1>12. Pushed(r.rd_data_q, taken) = taken
  <2>1. Len(r.rd_data_q) = 0 /\ r.rd_data_q = <<>>
    BY <1>9
  <2> HIDE DEF taken, num
  <2>2. Lesser(Len(taken), N - Len(r.rd_data_q)) = num
    BY <2>1, <1>0, <1>10, <1>11 DEF Lesser
  <2>3. SubSeq(taken, 1, num) = taken
    BY <1>10, <1>11
  <2>4. QED
    BY <2>1, <2>2, <2>3, <1>11 DEF Pushed
<1>13. /\ UNCHANGED <<head, stamp, c>>
       /\ s' = [r EXCEPT !.rd_buff_q = r.rd_buff_q - num, !.rd_buff_use = r.rd_buff_use - num,
                         !.rd_data_q = taken]
  <2>1. num = Lesser(ServerBatching, r.rd_buff_use)
    BY <1>9
  <2>2. ~ r.sync_error
    BY <1>9
  <2>3. /\ UNCHANGED <<head, stamp, c>>
        /\ s' = [r EXCEPT !.rd_buff_q = r.rd_buff_q - num, !.rd_buff_use = r.rd_buff_use - num,
                          !.rd_data_q = Pushed(r.rd_data_q, taken)]
    <3>1. r = read_buffer_ready(MovedOn(s))
      BY DEF r, p
    <3>2. QED
      BY <2>1, <2>2, <3>1 DEF on_new_rd_buffs
  <2> HIDE DEF taken
  <2>4. QED
    BY <2>3, <1>12
<1> HIDE DEF taken, num
<1>14. /\ s' \in ServerType /\ s'.idx = 0 /\ s'.mux = s.mux /\ s'.connected = s.connected
       /\ s'.rd_buff_q = s.rd_buff_q - num /\ s'.rd_buff_use = use - num /\ s'.rd_data_q = taken
       /\ s'.rd_acq_index = Slot(a + n) /\ s'.rd_rel_index = s.rd_rel_index
       /\ s'.rd_sync_counter = Counted(a + n) /\ s'.seq_exp = s.seq_exp
       /\ s'.lost = s.lost /\ s'.sync_error = FALSE /\ s'.releasing = <<>>
  <2>0. r \in ServerType /\ r.rd_buff_q - num \in Nat /\ r.rd_buff_use - num \in Nat /\ taken \in Seq(Slots)
    BY <1>3, <1>7, <1>9, <1>10, <1>11
  <2>1. s' \in ServerType
    BY <1>13, <2>0 DEF ServerType
  <2>2. /\ s'.idx = r.idx /\ s'.mux = r.mux /\ s'.connected = r.connected
        /\ s'.rd_buff_q = r.rd_buff_q - num /\ s'.rd_buff_use = r.rd_buff_use - num
        /\ s'.rd_data_q = taken
        /\ s'.rd_acq_index = r.rd_acq_index /\ s'.rd_rel_index = r.rd_rel_index
        /\ s'.rd_sync_counter = r.rd_sync_counter /\ s'.seq_exp = r.seq_exp
        /\ s'.lost = r.lost /\ s'.sync_error = r.sync_error /\ s'.releasing = r.releasing
    BY <1>13, <2>0 DEF ServerType
  <2>3. QED
    BY <2>1, <2>2, <1>9
<1>15. ServerInv'
  <2>1. s'.rd_buff_use <= s'.rd_buff_q /\ s'.rd_buff_q <= N
    BY <1>0, <1>3, <1>7, <1>10, <1>14
  <2>2. Len(s'.rd_data_q) <= Lesser(ServerBatching, N)
    BY <1>0, <1>10, <1>11, <1>14 DEF Lesser
  <2>3. ServerTurn'
    BY <2>2, <1>1, <1>14 DEF ServerTurn
  <2>4. QED
    BY <2>1, <2>3, <1>0, <1>14 DEF ServerInv
<1>16. Taken(rel)' = rel /\ Acquired(rel)' = a + n
  <2>1. Taken(rel)' = rel
    BY <1>14 DEF Taken
  <2>2. Acquired(rel)' = rel + num + (use - num)
    BY <2>1, <1>11, <1>14 DEF Acquired
  <2>3. QED
    BY <2>1, <2>2, <1>7, <1>10
<1>17. ServerRing(rel)'
  <2>1. /\ s'.rd_rel_index = Slot(rel) /\ s'.seq_exp = Counted(rel)
        /\ s'.rd_acq_index = Slot(Acquired(rel)') /\ s'.rd_sync_counter = Counted(Acquired(rel)')
    BY <1>6, <1>14, <1>16
  <2>2. \A i \in 1..Len(s'.releasing) : s'.releasing[i] = Slot(rel + i - 1)
    BY <1>14
  <2>3. \A i \in 1..Len(s'.rd_data_q) : s'.rd_data_q[i] = Slot(Taken(rel)' + i - 1)
    BY <1>11, <1>14, <1>16
  <2>4. QED
    BY <2>1, <2>2, <2>3 DEF ServerRing
<1>18. PICK pub, given : pub = Published(conf) /\ given = Given(conf)
  OBVIOUS
<1>19. Ring(conf, rel, pub, given)' /\ conf <= rel
  <2>1. Ring(conf, rel, pub, given) /\ conf <= rel
    BY <1>18 DEF IInv, Order
  <2>2. QED
    BY <2>1, <1>13, SameRing
<1>20. QED
  BY <1>5, <1>13, <1>15, <1>16, <1>17, <1>18, <1>19, ServerStep

\* What is left of a multiplexer's vector when the device is removed.
Without(m) == RemoveAt(m, CHOOSE i \in DOMAIN m : m[i] = "device")

\* The vectors that the two programs' multiplexers come to have.
LEMMA Vectors ==
    ASSUME NEW S, NEW d \in S, NEW x \in S, NEW y \in S
    PROVE  /\ <<>> \in Seq(S) /\ <<d>> \in Seq(S) /\ <<x, y>> \in Seq(S) /\ <<d, x, y>> \in Seq(S)
           /\ Len(<<d>>) = 1 /\ Len(<<x, y>>) = 2 /\ Len(<<d, x, y>>) = 3
           /\ Append(Append(<<d>>, x), y) = <<d, x, y>>
<1>1. /\ <<>> \in Seq(S) /\ <<d>> \in Seq(S) /\ <<x, y>> \in Seq(S) /\ <<d, x, y>> \in Seq(S)
      /\ Len(<<d>>) = 1 /\ Len(<<x, y>>) = 2 /\ Len(<<d, x, y>>) = 3
  OBVIOUS
<1> DEFINE p == Append(<<d>>, x)
           q == Append(p, y)
<1>2. p \in Seq(S)
  BY <1>1
<1>3. Len(p) = 2 /\ p[1] = d /\ p[2] = x
  BY <1>1
<1> HIDE DEF p
<1>4. \A t \in Seq(S) : /\ Append(t, y) \in Seq(S)
                       /\ Len(Append(t, y)) = Len(t) + 1 /\ Append(t, y)[Len(t) + 1] = y
                       /\ \A i \in 1..Len(t) : Append(t, y)[i] = t[i]
  BY AppendProperties
<1>5. /\ q \in Seq(S) /\ Len(q) = Len(p) + 1 /\ q[Len(p) + 1] = y
      /\ \A i \in 1..Len(p) : q[i] = p[i]
  BY <1>2, <1>4
<1> HIDE DEF q
<1>6. Len(q) = 3 /\ q[1] = d /\ q[2] = x /\ q[3] = y
  BY <1>3, <1>5
<1>7. q = <<d, x, y>>
  <2> DEFINE r == <<d, x, y>>
  <2>1. r \in Seq(S) /\ Len(r) = 3 /\ r[1] = d /\ r[2] = x /\ r[3] = y
    OBVIOUS
  <2> HIDE DEF r
  <2>2. \A i \in 1..3 : i = 1 \/ i = 2 \/ i = 3
    OBVIOUS
  <2>3. \A i \in 1..3 : q[i] = r[i]
    BY <1>6, <2>1, <2>2
  <2>4. q = r
    BY <1>5, <1>6, <2>1, <2>3
  <2>5. QED
    BY <2>4 DEF r
<1>8. QED
  BY <1>1, <1>7 DEF q, p

\* The muxables are different ones.
LEMMA Names ==
    /\ "device" \in Muxables /\ "wr_data" \in Muxables /\ "wr_buff" \in Muxables
    /\ "rd_data" \in Muxables /\ "rd_buff" \in Muxables
    /\ "wr_data" # "device" /\ "wr_buff" # "device" /\ "wr_data" # "wr_buff"
    /\ "rd_data" # "device" /\ "rd_buff" # "device" /\ "rd_data" # "rd_buff"
BY DEF Muxables

\* The vectors without the device.
LEMMA DeviceGone ==
    ASSUME NEW x \in Muxables, NEW y \in Muxables, x # "device", y # "device"
    PROVE  /\ Without(<<"device">>) = <<>>
           /\ Without(<<"device", x, y>>) = <<x, y>>
<1>0. "device" \in Muxables
  BY Names
<1>1. (CHOOSE i \in DOMAIN <<"device">> : <<"device">>[i] = "device") = 1
  OBVIOUS
<1> DEFINE m == <<"device", x, y>>
<1>2. \A i \in DOMAIN m : m[i] = "device" <=> i = 1
  OBVIOUS
<1>3. (CHOOSE i \in DOMAIN m : m[i] = "device") = 1
  <2>1. 1 \in DOMAIN m
    OBVIOUS
  <2> HIDE DEF m
  <2>2. QED
    BY <1>2, <2>1
<1>4. Without(m) = SubSeq(m, 1, 0) \o SubSeq(m, 2, 3)
  <2>1. Len(m) = 3
    OBVIOUS
  <2> HIDE DEF m
  <2>2. Without(m) = RemoveAt(m, 1)
    BY <1>3 DEF Without
  <2>3. RemoveAt(m, 1) = SubSeq(m, 1, 1 - 1) \o SubSeq(m, 1 + 1, Len(m))
    BY DEF RemoveAt
  <2>4. 1 - 1 = 0 /\ 1 + 1 = 2
    OBVIOUS
  <2>5. QED
    BY <2>1, <2>2, <2>3, <2>4
<1>5. SubSeq(m, 2, 3) = <<x, y>>
  <2>1. m \in Seq(Muxables) /\ Len(m) = 3 /\ m[2] = x /\ m[3] = y
    BY <1>0, Vectors
  <2> HIDE DEF m
  <2>2. SubSeq(m, 2, 3) \in Seq(Muxables) /\ Len(SubSeq(m, 2, 3)) = 2
        /\ SubSeq(m, 2, 3)[1] = m[2] /\ SubSeq(m, 2, 3)[2] = m[3]
    BY <2>1
  <2> DEFINE z == SubSeq(m, 2, 3)
  <2>3. z \in Seq(Muxables) /\ Len(z) = 2 /\ z[1] = x /\ z[2] = y
    BY <2>1, <2>2
  <2> HIDE DEF z
  <2>4. z = <<x, y>>
    BY <2>3
  <2>5. QED
    BY <2>4 DEF z
<1>6. Without(m) = <<x, y>>
  <2>1. SubSeq(m, 1, 0) = <<>>
    OBVIOUS
  <2>2. <<>> \o <<x, y>> = <<x, y>>
    OBVIOUS
  <2> HIDE DEF m
  <2>3. Without(m) = <<>> \o <<x, y>>
    BY <1>4, <1>5, <2>1
  <2>4. QED
    BY <2>2, <2>3
<1>7. Without(<<"device">>) = <<>>
  BY <1>1 DEF Without, RemoveAt
<1>8. QED
  BY <1>6, <1>7

\* The server's turn to look after its device.
LEMMA ServerChannels ==
    ASSUME NEW conf \in Nat, NEW rel \in Nat, IInv(conf, rel), s.releasing = <<>>,
           server_on_new_channels
    PROVE  Inv'
<1>0. /\ ServerInv /\ s \in ServerType /\ ServerBatching \in Nat \ {0} /\ N \in Nat \ {0}
      /\ ServerRing(rel)
  BY PerfAssumption DEF IInv, ServerInv
<1>1. /\ s.idx = 0 /\ s.rd_data_q = <<>>
      /\ \/ ~s.connected /\ s.mux = <<"device">> /\ s.rd_buff_q = 0
         \/ s.connected /\ s.mux = <<"device", "rd_data", "rd_buff">>
  BY <1>0, ServerTypes DEF ServerInv, ServerTurn, server_on_new_channels, Polls, AtIdx
<1> DEFINE p == MovedOn(s)
           x == p.idx
<1>2. /\ p \in ServerType /\ x \in {0, 1} /\ (~s.connected => x = 0) /\ (s.connected => x = 1)
      /\ p.mux = s.mux /\ p.connected = s.connected
      /\ p.rd_buff_q = s.rd_buff_q /\ p.rd_buff_use = s.rd_buff_use /\ p.rd_data_q = s.rd_data_q
      /\ p.rd_acq_index = s.rd_acq_index /\ p.rd_rel_index = s.rd_rel_index
      /\ p.rd_sync_counter = s.rd_sync_counter /\ p.seq_exp = s.seq_exp
      /\ p.lost = s.lost /\ p.sync_error = s.sync_error /\ p.releasing = s.releasing
  <2>1. /\ s.mux # <<>> /\ (~s.connected => Len(s.mux) = 1) /\ (s.connected => Len(s.mux) = 3)
    <3>1. CASE ~s.connected /\ s.mux = <<"device">>
      BY <3>1
    <3>2. CASE s.connected /\ s.mux = <<"device", "rd_data", "rd_buff">>
      BY <3>2
    <3>3. QED
      BY <1>1, <3>1, <3>2
  <2> DEFINE v == IF s.idx >= Len(s.mux) - 1 THEN 0 ELSE s.idx + 1
  <2>2. v \in {0, 1} /\ (~s.connected => v = 0) /\ (s.connected => v = 1)
    <3>0. s.idx = 0
      BY <1>1
    <3>1. CASE s.connected
      <4>1. Len(s.mux) = 3
        BY <2>1, <3>1
      <4>2. v = 1
        BY <3>0, <4>1
      <4> HIDE DEF v
      <4>3. QED
        BY <3>1, <4>2
    <3>2. CASE ~s.connected
      <4>1. Len(s.mux) = 1
        BY <2>1, <3>2
      <4>2. v = 0
        BY <3>0, <4>1
      <4> HIDE DEF v
      <4>3. QED
        BY <3>2, <4>2
    <3>3. QED
      BY <3>1, <3>2
  <2>3. QED
    BY <1>0, <2>1, <2>2, ServerMoved
<1> HIDE DEF p
<1> DEFINE room == Lesser(p.rd_buff_q + ServerBatching, N)
<1>3. room \in Nat /\ room <= N /\ s.rd_buff_use <= room
  <2>1. /\ s.rd_buff_q \in Nat /\ s.rd_buff_use \in Nat
        /\ s.rd_buff_use <= s.rd_buff_q /\ s.rd_buff_q <= N /\ p.rd_buff_q = s.rd_buff_q
    BY <1>0, <1>2, ServerTypes DEF ServerInv
  <2>2. QED
    BY <1>0, <2>1 DEF Lesser
<1>4. \E m \in {s.mux, Without(s.mux), <<"device", "rd_data", "rd_buff">>},
         t \in BOOLEAN, u \in {s.rd_buff_q, room} :
        /\ s' = [p EXCEPT !.mux = m, !.connected = t, !.rd_buff_q = u]
        /\ \/ ~s.connected /\ ~t /\ u = s.rd_buff_q /\ m \in {s.mux, Without(s.mux)}
           \/ ~s.connected /\ t /\ m = <<"device", "rd_data", "rd_buff">>
           \/ s.connected /\ t /\ u = s.rd_buff_q /\ m = Without(s.mux)
  <2>0. p \in ServerType /\ p.mux = s.mux /\ p.connected = s.connected /\ p.rd_buff_q = s.rd_buff_q
        /\ s.connected \in BOOLEAN
    BY <1>0, <1>2 DEF ServerType
  <2>1. CASE ~s.connected /\ s' = p
    <3>1. p = [p EXCEPT !.mux = s.mux, !.connected = FALSE, !.rd_buff_q = s.rd_buff_q]
      BY <2>0, <2>1 DEF ServerType
    <3>2. QED
      BY <2>1, <3>1
  <2>2. CASE ~s.connected /\ s' = Removed(p, "device")
    <3>1. s' = [p EXCEPT !.mux = Without(s.mux)]
      BY <2>0, <2>2 DEF Removed, Without
    <3>2. s' = [p EXCEPT !.mux = Without(s.mux), !.connected = FALSE, !.rd_buff_q = s.rd_buff_q]
      BY <2>0, <2>2, <3>1 DEF ServerType
    <3>3. QED
      BY <2>2, <3>2
  <2>3. CASE /\ ~s.connected
             /\ s' = server_get_new_buffers([Inserted(Inserted(p, "rd_data"), "rd_buff")
                                               EXCEPT !.connected = TRUE])
    <3>1. Append(Append(s.mux, "rd_data"), "rd_buff") = <<"device", "rd_data", "rd_buff">>
      <4>1. s.mux = <<"device">>
        BY <1>1, <2>3
      <4>2. Append(Append(<<"device">>, "rd_data"), "rd_buff") = <<"device", "rd_data", "rd_buff">>
        BY Names, Vectors
      <4>3. QED
        BY <4>1, <4>2
    <3> DEFINE i1 == Inserted(p, "rd_data")
               i2 == Inserted(i1, "rd_buff")
               i3 == [i2 EXCEPT !.connected = TRUE]
    <3>2. i1 = [p EXCEPT !.mux = Append(s.mux, "rd_data")]
      BY <2>0 DEF Inserted
    <3>3. i2 = [i1 EXCEPT !.mux = <<"device", "rd_data", "rd_buff">>]
      <4>1. i1.mux = Append(s.mux, "rd_data")
        <5> HIDE DEF i1
        <5>1. QED
          BY <2>0, <3>2 DEF ServerType
      <4> HIDE DEF i1
      <4>2. QED
        BY <3>1, <4>1 DEF Inserted
    <3>4. i3 = [p EXCEPT !.mux = <<"device", "rd_data", "rd_buff">>, !.connected = TRUE]
      <4> HIDE DEF i1, i2
      <4>1. QED
        BY <2>0, <3>2, <3>3 DEF ServerType
    <3>5. i3.rd_buff_q = p.rd_buff_q
      <4> HIDE DEF i3
      <4>1. QED
        BY <2>0, <3>4 DEF ServerType
    <3>6. s' = [i3 EXCEPT !.rd_buff_q = room]
      <4>1. s' = server_get_new_buffers(i3)
        BY <2>3
      <4> HIDE DEF i3
      <4>2. QED
        BY <3>5, <4>1 DEF server_get_new_buffers
    <3>7. s' = [p EXCEPT !.mux = <<"device", "rd_data", "rd_buff">>, !.connected = TRUE, !.rd_buff_q = room]
      <4> HIDE DEF i3, room
      <4>1. QED
        BY <2>0, <3>4, <3>6 DEF ServerType
    <3>8. QED
      BY <2>3, <3>7
  <2>4. CASE s.connected /\ s' = Removed(p, "device")
    <3>1. s' = [p EXCEPT !.mux = Without(s.mux)]
      BY <2>0, <2>4 DEF Removed, Without
    <3>2. s' = [p EXCEPT !.mux = Without(s.mux), !.connected = TRUE, !.rd_buff_q = s.rd_buff_q]
      BY <2>0, <2>4, <3>1 DEF ServerType
    <3>3. QED
      BY <2>4, <3>2
  <2>5. QED
    BY <2>1, <2>2, <2>3, <2>4 DEF server_on_new_channels, p
<1> HIDE DEF room
<1>5. PICK m \in {s.mux, Without(s.mux), <<"device", "rd_data", "rd_buff">>},
           t \in BOOLEAN, u \in {s.rd_buff_q, room} :
        /\ s' = [p EXCEPT !.mux = m, !.connected = t, !.rd_buff_q = u]
        /\ \/ ~s.connected /\ ~t /\ u = s.rd_buff_q /\ m \in {s.mux, Without(s.mux)}
           \/ ~s.connected /\ t /\ m = <<"device", "rd_data", "rd_buff">>
           \/ s.connected /\ t /\ u = s.rd_buff_q /\ m = Without(s.mux)
  BY <1>4
<1>6. /\ \/ ~t /\ m \in {<<"device">>, <<>>} /\ x = 0 /\ u = 0
         \/ t /\ m = <<"device", "rd_data", "rd_buff">> /\ x = 0
         \/ t /\ m = <<"rd_data", "rd_buff">> /\ x = 1
      /\ m \in Seq(Muxables)
  <2>1. Without(<<"device">>) = <<>> /\ Without(<<"device", "rd_data", "rd_buff">>) = <<"rd_data", "rd_buff">>
    BY Names, DeviceGone
  <2>2. \/ ~t /\ m \in {<<"device">>, <<>>} /\ x = 0 /\ u = 0
        \/ t /\ m = <<"device", "rd_data", "rd_buff">> /\ x = 0
        \/ t /\ m = <<"rd_data", "rd_buff">> /\ x = 1
    BY <1>1, <1>2, <1>5, <2>1
  <2>3. m \in Seq(Muxables)
    <3>1. /\ <<"device">> \in Seq(Muxables) /\ <<>> \in Seq(Muxables)
          /\ <<"device", "rd_data", "rd_buff">> \in Seq(Muxables) /\ <<"rd_data", "rd_buff">> \in Seq(Muxables)
      BY Names, Vectors
    <3>2. QED
      BY <2>2, <3>1
  <2>4. QED
    BY <2>2, <2>3
<1>7. u \in Nat /\ s.rd_buff_use <= u /\ u <= N
  <2>1. /\ s.rd_buff_q \in Nat /\ s.rd_buff_use <= s.rd_buff_q /\ s.rd_buff_q <= N
    BY <1>0, ServerTypes DEF ServerInv
  <2>2. QED
    BY <1>3, <2>1
<1>8. /\ s' \in ServerType /\ s'.idx = x /\ s'.mux = m /\ s'.connected = t
      /\ s'.rd_buff_q = u /\ s'.rd_buff_use = s.rd_buff_use /\ s'.rd_data_q = s.rd_data_q
      /\ s'.rd_acq_index = s.rd_acq_index /\ s'.rd_rel_index = s.rd_rel_index
      /\ s'.rd_sync_counter = s.rd_sync_counter /\ s'.seq_exp = s.seq_exp
      /\ s'.lost = s.lost /\ s'.sync_error = s.sync_error /\ s'.releasing = s.releasing
  <2>0. p \in ServerType /\ s' = [p EXCEPT !.mux = m, !.connected = t, !.rd_buff_q = u]
        /\ m \in Seq(Muxables) /\ u \in Nat
    BY <1>2, <1>5, <1>6, <1>7
  <2>1. s' \in ServerType
    BY <2>0 DEF ServerType
  <2>2. /\ s'.idx = p.idx /\ s'.mux = m /\ s'.connected = t
        /\ s'.rd_buff_q = u /\ s'.rd_buff_use = p.rd_buff_use /\ s'.rd_data_q = p.rd_data_q
        /\ s'.rd_acq_index = p.rd_acq_index /\ s'.rd_rel_index = p.rd_rel_index
        /\ s'.rd_sync_counter = p.rd_sync_counter /\ s'.seq_exp = p.seq_exp
        /\ s'.lost = p.lost /\ s'.sync_error = p.sync_error /\ s'.releasing = p.releasing
    BY <2>0 DEF ServerType
  <2>3. QED
    BY <2>1, <2>2, <1>2
<1> HIDE <1>5 DEF x
<1>9. ServerInv'
  <2>1. ServerTurn'
    BY <1>1, <1>6, <1>8 DEF ServerTurn
  <2>2. QED
    BY <2>1, <1>0, <1>7, <1>8 DEF ServerInv
<1>10. Taken(rel)' = Taken(rel) /\ Acquired(rel)' = Acquired(rel)
  BY <1>8 DEF Taken, Acquired
<1>11. ServerRing(rel)'
  BY <1>0, <1>8, <1>10 DEF ServerRing
<1>12. UNCHANGED <<head, stamp, c>>
  BY DEF server_on_new_channels
<1>13. PICK pub, given : pub = Published(conf) /\ given = Given(conf)
  OBVIOUS
<1>14. Ring(conf, rel, pub, given)' /\ conf <= rel /\ Acquired(rel) <= Published(conf)
  <2>1. Ring(conf, rel, pub, given) /\ conf <= rel /\ Acquired(rel) <= Published(conf)
    BY <1>13 DEF IInv, Order
  <2>2. QED
    BY <2>1, <1>12, SameRing
<1>15. QED
  BY <1>9, <1>10, <1>11, <1>12, <1>13, <1>14, ServerStep

-----------------------------------------------------------------------------
(***************************************************************************)
(* The client's steps                                                      *)
(***************************************************************************)
LEMMA BatchOf ==
    ASSUME NEW S \in SUBSET Ids
    PROVE  /\ Batch(S) \in Seq(Ids) /\ Len(Batch(S)) = Cardinality(S) /\ Cardinality(S) \in Nat
           /\ \A x \in S : \E i \in 1..Len(Batch(S)) : Batch(S)[i] = x
           /\ \A i \in 1..Len(Batch(S)) : Batch(S)[i] \in S
           /\ \A i, j \in 1..Len(Batch(S)) : Batch(S)[i] = Batch(S)[j] => i = j
<1>1. IsFiniteSet(S) /\ Sorted(S) # {} /\ Cardinality(S) \in Nat
  <2>1. Batching \in Nat /\ S \in SUBSET (0..Batching - 1)
    BY PerfAssumption DEF Ids
  <2>2. IsFiniteSet(S) /\ Sorted(S) # {}
    BY <2>1, Sortable
  <2>3. QED
    BY <2>2, FS_CardinalityType
<1> DEFINE q == Batch(S)
           l == Cardinality(S)
<1>2. q \in Sorted(S)
  <2>1. Batch(S) = CHOOSE r \in [1..Cardinality(S) -> S] :
                     ToSet(r) = S /\ \A i, j \in DOMAIN r : i < j => r[i] < r[j]
    BY DEF Batch
  <2>2. \E r \in [1..Cardinality(S) -> S] : ToSet(r) = S /\ \A i, j \in DOMAIN r : i < j => r[i] < r[j]
    BY <1>1 DEF Sorted
  <2> HIDE DEF q
  <2>3. QED
    BY <2>1, <2>2 DEF Sorted, q
<1> HIDE DEF q, l
<1>3. q \in [1..l -> S] /\ ToSet(q) = S /\ \A i, j \in 1..l : i < j => q[i] < q[j]
  BY <1>2 DEF Sorted, l
<1>4. l \in Nat
  BY <1>1 DEF l
<1>5. q \in Seq(Ids) /\ Len(q) = l
  BY <1>3, <1>4
<1>6. \A x \in S : \E i \in 1..l : q[i] = x
  BY <1>3 DEF ToSet
<1>7. \A i \in 1..l : q[i] \in S /\ q[i] \in Int
  <2>1. \A x \in S : x \in Int
    BY PerfAssumption DEF Ids
  <2>2. QED
    BY <1>3, <2>1
<1>8. \A i, j \in 1..l : q[i] = q[j] => i = j
  <2>1. TAKE i, j \in 1..l
  <2>2. CASE i < j
    BY <1>3, <1>7, <2>2
  <2>3. CASE j < i
    BY <1>3, <1>7, <2>3
  <2>4. QED
    BY <1>4, <2>2, <2>3
<1>9. QED
  BY <1>4, <1>5, <1>6, <1>7, <1>8 DEF q, l

\* No ids make an empty batch.
LEMMA BatchOfNone == Batch({}) = <<>>
<1>1. Batch({}) \in Seq(Ids) /\ Len(Batch({})) = 0
  BY BatchOf, FS_EmptySet
<1>2. QED
  BY <1>1

\* As many as the ids that are asked for again.
LEMMA BatchOfSome ==
    ASSUME NEW q \in Seq(Ids)
    PROVE  ToSet(q) \in SUBSET Ids /\ Len(Batch(ToSet(q))) <= Len(q)
<1>1. ToSet(q) \in SUBSET Ids
  BY DEF ToSet
<1>2. Len(q) \in Nat /\ DOMAIN q = 1..Len(q)
  OBVIOUS
<1>3. Cardinality(ToSet(q)) <= Len(q)
  <2>1. q \in Surjection(1..Len(q), ToSet(q))
    BY <1>2 DEF ToSet, Surjection
  <2>2. ExistsSurjection(1..Len(q), ToSet(q))
    BY <2>1 DEF ExistsSurjection
  <2>3. QED
    BY <1>2, <2>2, FS_SurjCardinalityBound
<1>4. QED
  BY <1>1, <1>3, BatchOf

\* A step that leaves the server as it is.
LEMMA ClientStep ==
    ASSUME NEW conf \in Nat, NEW rel \in Nat, NEW conf2 \in Nat, IInv(conf, rel), s' = s,
           ClientInv', ClientRing(conf2)',
           NEW pub, NEW given, pub = Published(conf2)', given = Given(conf2)',
           conf2 <= rel, Acquired(rel) <= pub, given <= conf2 + N,
           Ring(conf2, rel, pub, given)'
    PROVE  Inv'
<1>1. ServerInv'
  BY DEF IInv, ServerInv, ServerTurn
<1>2. Acquired(rel)' = Acquired(rel)
  BY DEF Acquired, Taken
<1>3. ServerRing(rel)'
  BY DEF IInv, ServerRing, Acquired, Taken
<1>4. Order(conf2, rel)'
  BY <1>2 DEF Order
<1>5. Ring(conf2, rel, Published(conf2), Given(conf2))'
  BY DEF Ring
<1>6. IInv(conf2, rel)'
  BY <1>1, <1>3, <1>4, <1>5 DEF IInv
<1>7. QED
  BY <1>6 DEF Inv

\* The client's multiplexer goes on.
LEMMA ClientMoved ==
    ASSUME ClientInv
    PROVE  /\ MovedOn(c) \in ClientType
           /\ MovedOn(c).idx = (IF c.idx >= Len(c.mux) - 1 THEN 0 ELSE c.idx + 1)
           /\ MovedOn(c).mux = c.mux /\ MovedOn(c).connected = c.connected
           /\ MovedOn(c).exited = c.exited /\ MovedOn(c).wanting = c.wanting
           /\ MovedOn(c).filled = c.filled
           /\ MovedOn(c).wr_buff_q = c.wr_buff_q /\ MovedOn(c).wr_buff_use = c.wr_buff_use
           /\ MovedOn(c).wr_data_q = c.wr_data_q /\ MovedOn(c).wr_data_use = c.wr_data_use
           /\ MovedOn(c).wr_buff_acq_idx = c.wr_buff_acq_idx
           /\ MovedOn(c).wr_out_index = c.wr_out_index /\ MovedOn(c).wr_rel_index = c.wr_rel_index
           /\ MovedOn(c).wr_sync_counter = c.wr_sync_counter /\ MovedOn(c).seq = c.seq
           /\ MovedOn(c).sending = c.sending
<1>1. c \in ClientType
  BY DEF ClientInv
<1> DEFINE x == IF c.idx >= Len(c.mux) - 1 THEN 0 ELSE c.idx + 1
<1>2. x \in Nat
  BY <1>1 DEF ClientType
<1>3. MovedOn(c) = [c EXCEPT !.idx = x]
  BY DEF MovedOn
<1> HIDE DEF x
<1>4. MovedOn(c) \in ClientType /\ MovedOn(c).idx = x
  BY <1>1, <1>2, <1>3 DEF ClientType
<1>5. QED
  BY <1>1, <1>3, <1>4 DEF ClientType, x

\* The next slot is published: the ones between stay apart from it.
LEMMA RingPublished ==
    ASSUME NEW conf \in Nat, NEW rel \in Nat, NEW pub \in Nat, NEW given \in Nat,
           conf <= rel, rel <= pub, pub < given, given <= conf + N,
           Ring(conf, rel, pub, given),
           head' = [head EXCEPT ![Slot(pub)] = Counted(pub)], stamp' = stamp
    PROVE  Ring(conf, rel, pub + 1, given)'
<1>0. N \in Nat \ {0} /\ Slot(pub) \in Slots /\ Counted(pub) \in SeqNo
  BY PerfAssumption, SlotFacts, CountedFacts
<1>1. head' \in [Slots -> {EMPTY, RXD} \cup SeqNo] /\ stamp' \in [Slots -> SeqNo]
  BY <1>0 DEF Ring
<1>2. \A k \in Nat : Slot(k) \in Slots /\ (k # pub /\ pub - N < k /\ k < pub + N => Slot(k) # Slot(pub))
  <2>1. \A j, k \in Int : Slot(j) = Slot(k) /\ j <= k /\ k < j + N => j = k
    BY SlotFacts
  <2>2. TAKE k \in Nat
  <2>3. Slot(k) \in Slots
    BY SlotFacts
  <2>4. SUFFICES ASSUME k # pub, pub - N < k, k < pub + N, Slot(k) = Slot(pub) PROVE FALSE
    BY <2>3
  <2>5. CASE k <= pub
    BY <2>1, <2>4, <2>5, <1>0
  <2>6. CASE pub <= k
    BY <2>1, <2>4, <2>6, <1>0
  <2>7. QED
    BY <2>5, <2>6
<1>3. /\ \A k \in Nat : k # pub /\ pub - N < k /\ k < pub + N => head'[Slot(k)] = head[Slot(k)]
      /\ head'[Slot(pub)] = Counted(pub)
  BY <1>0, <1>2 DEF Ring
<1>4. \A k \in conf..rel - 1 : head'[Slot(k)] = RXD
  BY <1>0, <1>3 DEF Ring
<1>5. \A k \in rel..pub : head'[Slot(k)] = Counted(k)
  <2>1. TAKE k \in rel..pub
  <2>2. CASE k = pub
    BY <1>3, <2>2
  <2>3. CASE k # pub
    <3>1. k \in rel..pub - 1 /\ k \in Nat /\ pub - N < k /\ k < pub + N
      BY <1>0, <2>3
    <3>2. QED
      BY <3>1, <2>3, <1>3 DEF Ring
  <2>4. QED
    BY <2>2, <2>3
<1>6. \A k \in pub + 1..conf + N - 1 : head'[Slot(k)] = EMPTY
  BY <1>0, <1>3 DEF Ring
<1>7. \A k \in rel..given - 1 : stamp'[Slot(k)] = Counted(k)
  BY DEF Ring
<1>8. \A k \in rel..(pub + 1) - 1 : head'[Slot(k)] = Counted(k)
  BY <1>5
<1>9. QED
  BY <1>1, <1>4, <1>6, <1>7, <1>8 DEF Ring

\* The client publishes a message of its batch: its buffer is the next one of the
\* ring, so the process does not end.
LEMMA Publish ==
    ASSUME NEW conf \in Nat, NEW rel \in Nat, IInv(conf, rel), publish
    PROVE  Inv'
<1>0. ClientInv /\ c \in ClientType /\ N \in Nat \ {0} /\ ClientRing(conf) /\ c.sending # <<>>
  BY PerfAssumption DEF IInv, ClientInv, publish
<1> DEFINE q == c.sending
           d == c.wr_data_q
           m == Head(q)
<1>1. /\ q \in Seq([id : Ids, buf : Slots]) /\ Len(q) \in Nat /\ Len(q) > 0 /\ m = q[1]
      /\ Tail(q) \in Seq([id : Ids, buf : Slots]) /\ Len(Tail(q)) = Len(q) - 1 /\ Len(Tail(q)) \in Nat
      /\ \A i \in 1..Len(q) - 1 : Tail(q)[i] = q[i + 1]
      /\ m.id \in Ids /\ m.buf \in Slots
  <2>1. q \in Seq([id : Ids, buf : Slots]) /\ q # <<>>
    BY <1>0, ClientTypes
  <2> HIDE DEF q
  <2>2. Len(q) \in Nat /\ Len(q) > 0
    BY <2>1
  <2>3. /\ m \in [id : Ids, buf : Slots] /\ m = q[1]
        /\ Tail(q) \in Seq([id : Ids, buf : Slots]) /\ Len(Tail(q)) = Len(q) - 1
        /\ \A i \in 1..Len(Tail(q)) : Tail(q)[i] = q[i + 1]
    <3>1. m = q[1] /\ q[1] \in [id : Ids, buf : Slots]
      <4> DEFINE R == [id : Ids, buf : Slots]
      <4>1. q \in Seq(R)
        BY <2>1
      <4> HIDE DEF R
      <4>2. q[1] \in R
        BY <4>1, <2>2
      <4>3. m = q[1]
        BY <4>1, <2>1
      <4>4. QED
        BY <4>2, <4>3 DEF R
    <3>2. Tail(q) \in Seq([id : Ids, buf : Slots])
      BY <2>1
    <3>3. Len(Tail(q)) = Len(q) - 1
      BY <2>1, <2>2
    <3>4. \A i \in 1..Len(Tail(q)) : Tail(q)[i] = q[i + 1]
      BY <2>1, HeadTailProperties
    <3>5. QED
      BY <3>1, <3>2, <3>3, <3>4
  <2>4. Len(Tail(q)) \in Nat
    BY <2>3
  <2> HIDE DEF m
  <2>5. m.id \in Ids /\ m.buf \in Slots
    BY <2>3
  <2>6. QED
    BY <2>1, <2>2, <2>3, <2>4, <2>5
<1>2. d \in Seq(Ids) /\ Len(d) \in Nat /\ Append(d, m.id) \in Seq(Ids) /\ Len(Append(d, m.id)) = Len(d) + 1
  BY <1>0, <1>1, ClientTypes, AppendProperties
<1>3. PICK pub \in Nat, given \in Nat : pub = Published(conf) /\ given = Given(conf)
  BY Counts
<1>4. /\ conf <= rel /\ rel <= pub /\ pub < given /\ given <= conf + N /\ Acquired(rel) <= pub
      /\ Ring(conf, rel, pub, given)
      /\ pub = conf + Len(d) /\ given = pub + Len(q)
  <2>1. given = pub + Len(q) /\ pub = conf + Len(d)
    BY <1>3 DEF Given, Published
  <2>2. /\ conf <= rel /\ rel <= Acquired(rel) /\ Acquired(rel) <= pub /\ given <= conf + N
        /\ Acquired(rel) \in Nat
    <3>1. rel <= Taken(rel) /\ Taken(rel) <= Acquired(rel) /\ Taken(rel) \in Nat /\ Acquired(rel) \in Nat
      BY Counts
    <3>2. QED
      BY <1>3, <3>1, Counts
  <2>3. Ring(conf, rel, pub, given)
    BY <1>3 DEF IInv
  <2>4. \A i, j, k \in Nat : j > 0 /\ k = i + j => i < k
    OBVIOUS
  <2>5. pub < given
    BY <2>1, <2>4, <1>1
  <2>6. rel <= pub
    BY <2>2
  <2>7. QED
    BY <2>1, <2>2, <2>3, <2>5, <2>6
<1>5. /\ c.wr_rel_index = Slot(conf)
      /\ c.wr_out_index = Slot(pub) /\ c.wr_sync_counter = Counted(pub)
      /\ c.wr_buff_acq_idx = Slot(given) /\ c.seq = Counted(given)
      /\ \A i \in 1..Len(q) : q[i].buf = Slot(pub + i - 1)
  BY <1>0, <1>3 DEF ClientRing
<1> HIDE <1>3
<1>6. m.buf = Slot(pub)
  <2>1. 1 \in 1..Len(q) /\ pub + 1 - 1 = pub
    BY <1>1
  <2>2. q[1].buf = Slot(pub + 1 - 1)
    BY <1>5, <2>1
  <2>3. QED
    BY <2>1, <2>2, <1>1
<1>7. /\ Counted(Counted(pub) + 1) = Counted(pub + 1) /\ Counted(pub + 1) \in SeqNo
      /\ Slot(Slot(pub) + 1) = Slot(pub + 1) /\ Slot(pub + 1) \in Slots
  <2>1. pub \in Int /\ 1 \in Int /\ pub + 1 \in Int
    OBVIOUS
  <2>2. Counted(Counted(pub) + 1) = Counted(pub + 1) /\ Counted(pub + 1) \in SeqNo
    BY <2>1, CountedFacts
  <2>3. Slot(Slot(pub) + 1) = Slot(pub + 1) /\ Slot(pub + 1) \in Slots
    BY <2>1, SlotFacts
  <2>4. QED
    BY <2>2, <2>3
<1>8. /\ head' = [head EXCEPT ![Slot(pub)] = Counted(pub)] /\ stamp' = stamp /\ s' = s
      /\ c' = [c EXCEPT !.sending = Tail(q), !.wr_data_q = Append(d, m.id),
                        !.wr_sync_counter = Counted(pub + 1), !.wr_out_index = Slot(pub + 1)]
  <2>1. m.buf = c.wr_out_index
    BY <1>5, <1>6
  <2>2. /\ head' = [head EXCEPT ![m.buf] = c.wr_sync_counter] /\ UNCHANGED <<stamp, s>>
        /\ c' = [c EXCEPT !.sending = Tail(q), !.wr_data_q = Append(d, m.id),
                          !.wr_sync_counter = Counted(c.wr_sync_counter + 1),
                          !.wr_out_index = Slot(c.wr_out_index + 1)]
    BY <2>1 DEF publish
  <2> HIDE DEF q, d, m
  <2>3. Counted(c.wr_sync_counter + 1) = Counted(pub + 1) /\ Slot(c.wr_out_index + 1) = Slot(pub + 1)
    BY <1>5, <1>7
  <2>4. QED
    BY <2>2, <2>3, <1>5, <1>6
<1> DEFINE tq == Tail(q)
           ad == Append(d, m.id)
<1>9. /\ tq \in Seq([id : Ids, buf : Slots]) /\ ad \in Seq(Ids) /\ Len(tq) = Len(q) - 1
      /\ Len(ad) = Len(d) + 1 /\ \A i \in 1..Len(q) - 1 : tq[i] = q[i + 1]
  BY <1>1, <1>2
<1> HIDE DEF tq, ad, m
<1>10. c' = [c EXCEPT !.sending = tq, !.wr_data_q = ad,
                      !.wr_sync_counter = Counted(pub + 1), !.wr_out_index = Slot(pub + 1)]
  BY <1>8 DEF tq, ad
<1>11. c' \in ClientType
  BY <1>0, <1>7, <1>9, <1>10 DEF ClientType
<1>12. /\ c'.sending = tq /\ c'.wr_data_q = ad
       /\ c'.wr_sync_counter = Counted(pub + 1) /\ c'.wr_out_index = Slot(pub + 1)
       /\ c'.mux = c.mux /\ c'.idx = c.idx /\ c'.connected = c.connected /\ c'.exited = c.exited
       /\ c'.wanting = c.wanting /\ c'.filled = c.filled
       /\ c'.wr_buff_q = c.wr_buff_q /\ c'.wr_buff_use = c.wr_buff_use /\ c'.wr_data_use = c.wr_data_use
       /\ c'.wr_buff_acq_idx = c.wr_buff_acq_idx /\ c'.wr_rel_index = c.wr_rel_index /\ c'.seq = c.seq
  BY <1>0, <1>10 DEF ClientType
<1>13. ClientInv'
  <2>1. /\ c.connected /\ c.mux = <<"wr_data", "wr_buff">> /\ c.idx = 0
        /\ c.wr_buff_q = <<>> /\ c.wanting = {}
    BY <1>0 DEF ClientInv, ClientTurn
  <2>2. ClientTurn'
    BY <2>1, <1>12 DEF ClientTurn
  <2>4. Len(c'.wr_buff_q) + Len(c'.sending) + Len(c'.wr_data_q) <= Batching
    <3>1. Len(c.wr_buff_q) + Len(q) + Len(d) <= Batching /\ Len(c.wr_buff_q) \in Nat
      BY <1>0, ClientTypes DEF ClientInv
    <3>2. Len(c.wr_buff_q) + Len(tq) + Len(ad) = Len(c.wr_buff_q) + Len(q) + Len(d)
      <4> HIDE DEF q, d
      <4>1. QED
        <5>1. Len(tq) = Len(q) - 1 /\ Len(ad) = Len(d) + 1 /\ Len(tq) \in Nat /\ Len(ad) \in Nat
          BY <1>9
        <5>2. Len(q) \in Nat /\ Len(d) \in Nat /\ Len(c.wr_buff_q) \in Nat
          BY <3>1, <1>1, <1>2
        <5> DEFINE L(x) == Len(x)
        <5>3. /\ L(tq) = L(q) - 1 /\ L(ad) = L(d) + 1
              /\ L(q) \in Nat /\ L(d) \in Nat /\ L(c.wr_buff_q) \in Nat
          BY <5>1, <5>2
        <5> HIDE DEF L
        <5>4. L(c.wr_buff_q) + L(tq) + L(ad) = L(c.wr_buff_q) + L(q) + L(d)
          BY <5>3
        <5>5. QED
          BY <5>4 DEF L
    <3>3. QED
      BY <3>1, <3>2, <1>12
  <2>5. QED
    BY <2>2, <2>4, <1>0, <1>11, <1>12 DEF ClientInv
<1>14. Published(conf)' = pub + 1 /\ Given(conf)' = given
  <2> HIDE DEF q, d
  <2>1. Published(conf)' = conf + Len(ad)
    BY <1>12 DEF Published
  <2>2. Published(conf)' = pub + 1
    BY <2>1, <1>2, <1>4, <1>9
  <2>3. Given(conf)' = (pub + 1) + Len(tq)
    BY <2>2, <1>12 DEF Given
  <2>4. QED
    BY <2>2, <2>3, <1>1, <1>4, <1>9
<1>15. ClientRing(conf)'
  <2>1. \A i \in 1..Len(tq) : tq[i].buf = Slot(pub + 1 + i - 1)
    <3>1. TAKE i \in 1..Len(tq)
    <3>2. i \in 1..Len(q) - 1 /\ i + 1 \in 1..Len(q) /\ pub + (i + 1) - 1 = pub + 1 + i - 1
      BY <1>1, <1>9
    <3>3. q[i + 1].buf = Slot(pub + (i + 1) - 1)
      BY <3>2, <1>5
    <3>4. QED
      BY <3>2, <3>3, <1>9
  <2>2. /\ c'.wr_rel_index = Slot(conf)
        /\ c'.wr_out_index = Slot(Published(conf)') /\ c'.wr_sync_counter = Counted(Published(conf)')
        /\ c'.wr_buff_acq_idx = Slot(Given(conf)') /\ c'.seq = Counted(Given(conf)')
    BY <1>5, <1>12, <1>14
  <2>3. \A i \in 1..Len(c'.sending) : c'.sending[i].buf = Slot(Published(conf)' + i - 1)
    BY <2>1, <1>12, <1>14
  <2>4. QED
    BY <2>2, <2>3 DEF ClientRing
<1>16. Ring(conf, rel, pub + 1, given)'
  BY <1>4, <1>8, RingPublished
<1>17. Acquired(rel) <= pub + 1
  <2>1. Acquired(rel) \in Nat
    BY Counts
  <2>2. QED
    BY <2>1, <1>4
<1>18. QED
  BY <1>4, <1>8, <1>13, <1>14, <1>15, <1>16, <1>17, ClientStep

\* The slots of the writes that were received become EMPTY, and the next ones
\* beyond the ring.
LEMMA RingFreed ==
    ASSUME NEW conf \in Nat, NEW rel \in Nat, NEW pub \in Nat, NEW given \in Nat, NEW n \in Nat,
           conf + n <= rel, rel <= pub, pub <= given, given <= conf + N,
           Ring(conf, rel, pub, given), stamp' = stamp,
           head' = [b \in Slots |-> IF \E i \in 0..n - 1 : b = Slot(Slot(conf) + i)
                                    THEN EMPTY ELSE head[b]]
    PROVE  Ring(conf + n, rel, pub, given)'
<1>0. N \in Nat \ {0}
  BY PerfAssumption
<1> DEFINE Done(b) == \E i \in 0..n - 1 : b = Slot(Slot(conf) + i)
<1>1. \A i \in 0..n - 1 : Slot(Slot(conf) + i) = Slot(conf + i)
  <2>1. conf \in Int /\ \A i \in 0..n - 1 : i \in Int
    OBVIOUS
  <2>2. QED
    BY <2>1, SlotFacts
<1>2. ASSUME NEW k \in conf + n..conf + N - 1
      PROVE  ~ Done(Slot(k)) /\ Slot(k) \in Slots
  <2>0. Slot(k) \in Slots
    BY SlotFacts
  <2> SUFFICES ASSUME Done(Slot(k)) PROVE FALSE
    BY <2>0
  <2>1. PICK i \in 0..n - 1 : Slot(k) = Slot(conf + i)
    BY <1>1
  <2>2. conf + i \in Int /\ k \in Int /\ conf + i <= k /\ k < (conf + i) + N /\ conf + i # k
    BY <1>0
  <2>3. \A j, l \in Int : Slot(j) = Slot(l) /\ j <= l /\ l < j + N => j = l
    BY SlotFacts
  <2>4. QED
    BY <2>1, <2>2, <2>3
<1>3. ASSUME NEW k \in conf + N..conf + n + N - 1
      PROVE  Done(Slot(k)) /\ Slot(k) \in Slots
  <2>1. k - N - conf \in 0..n - 1 /\ conf + (k - N - conf) = k - N /\ k - N \in Int /\ (k - N) + N = k
    BY <1>0
  <2>2. Slot((k - N) + N) = Slot(k - N)
    BY <2>1, SlotFacts
  <2>3. Slot(Slot(conf) + (k - N - conf)) = Slot(k - N)
    BY <2>1, <1>1
  <2>4. Slot(k) = Slot(Slot(conf) + (k - N - conf))
    BY <2>1, <2>2, <2>3
  <2>5. QED
    BY <2>1, <2>4, SlotFacts
<1>4. \A b \in Slots : head'[b] = IF Done(b) THEN EMPTY ELSE head[b]
  OBVIOUS
<1>h. DOMAIN head' = Slots
  OBVIOUS
<1> HIDE DEF Done
<1>5. \A k \in conf + n..conf + N - 1 : head'[Slot(k)] = head[Slot(k)]
  BY <1>2, <1>4
<1>6. \A k \in conf + N..conf + n + N - 1 : head'[Slot(k)] = EMPTY
  BY <1>3, <1>4
<1>7. head' \in [Slots -> {EMPTY, RXD} \cup SeqNo] /\ stamp' \in [Slots -> SeqNo]
  <2>1. head \in [Slots -> {EMPTY, RXD} \cup SeqNo] /\ stamp \in [Slots -> SeqNo]
    BY DEF Ring
  <2>2. QED
    BY <2>1 DEF Done
<1>8. \A k \in conf + n..rel - 1 : head'[Slot(k)] = RXD
  <2>1. TAKE k \in conf + n..rel - 1
  <2>2. k \in conf..rel - 1 /\ k \in conf + n..conf + N - 1
    BY <1>0
  <2>3. head[Slot(k)] = RXD
    BY <2>2 DEF Ring
  <2>4. QED
    BY <2>2, <2>3, <1>5
<1>9. \A k \in rel..pub - 1 : head'[Slot(k)] = Counted(k)
  <2>1. TAKE k \in rel..pub - 1
  <2>2. k \in conf + n..conf + N - 1
    BY <1>0
  <2>3. head[Slot(k)] = Counted(k)
    BY DEF Ring
  <2>4. QED
    BY <2>2, <2>3, <1>5
<1>10. \A k \in pub..conf + n + N - 1 : head'[Slot(k)] = EMPTY
  <2>1. TAKE k \in pub..conf + n + N - 1
  <2>2. CASE k \in conf + N..conf + n + N - 1
    BY <2>2, <1>6
  <2>3. CASE k \in pub..conf + N - 1
    <3>1. k \in conf + n..conf + N - 1
      BY <2>3
    <3>2. head[Slot(k)] = EMPTY
      BY <2>3 DEF Ring
    <3>3. QED
      BY <3>1, <3>2, <1>5
  <2>4. QED
    BY <2>2, <2>3, <1>0
<1>11. \A k \in rel..given - 1 : stamp'[Slot(k)] = Counted(k)
  BY DEF Ring
<1>12. QED
  BY <1>7, <1>8, <1>9, <1>10, <1>11 DEF Ring

\* The writes that the client finds received are some of those the server has read.
LEMMA ReceivedOf ==
    ASSUME NEW conf \in Nat, NEW rel \in Nat, NEW pub \in Nat, NEW given \in Nat,
           Ring(conf, rel, pub, given), NEW d \in Nat, pub = conf + d, conf <= rel, rel <= pub
    PROVE  LET n == Max({m \in 0..d : \A k \in 0..m - 1 : head[Slot(Slot(conf) + k)] = RXD})
           IN  n \in 0..d /\ conf + n <= rel
<1> DEFINE M == {m \in 0..d : \A k \in 0..m - 1 : head[Slot(Slot(conf) + k)] = RXD}
           n == Max(M)
<1>1. M \in SUBSET Nat /\ 0 \in M /\ \A m \in M : m <= d
  OBVIOUS
<1>2. n \in M
  <2> HIDE DEF M
  <2>1. QED
    BY <1>1, MaxOf
<1>3. n \in 0..d /\ \A k \in 0..n - 1 : head[Slot(Slot(conf) + k)] = RXD
  BY <1>2
<1> HIDE DEF n, M
<1>4. SUFFICES ASSUME ~ (conf + n <= rel) PROVE FALSE
  BY <1>3 DEF n, M
<1> DEFINE k == rel - conf
<1>5. k \in 0..n - 1 /\ k \in Int /\ conf + k = rel /\ rel \in rel..pub - 1
  BY <1>3, <1>4
<1>6. head[Slot(Slot(conf) + k)] = RXD
  BY <1>3, <1>5
<1>7. Slot(Slot(conf) + k) = Slot(rel)
  <2>1. conf \in Int
    OBVIOUS
  <2> HIDE DEF k
  <2>2. QED
    BY <1>5, <2>1, SlotFacts
<1>8. head[Slot(rel)] = Counted(rel)
  BY <1>5 DEF Ring
<1>9. Counted(rel) # RXD
  <2>1. \A x \in SeqNo : x # RXD
    BY PerfAssumption DEF SeqNo, RXD
  <2>2. QED
    BY <2>1, CountedFacts
<1>10. QED
  BY <1>6, <1>7, <1>8, <1>9

\* The requests of a vector that is no longer than the queue are all queued.
LEMMA PushedAll ==
    ASSUME NEW z \in Seq(Ids), Len(z) <= N
    PROVE  Pushed(<<>>, z) = z
<1>0. N \in Nat \ {0} /\ Len(z) \in Nat
  BY PerfAssumption
<1>1. Lesser(Len(z), N - Len(<<>>)) = Len(z)
  BY <1>0 DEF Lesser
<1>2. <<>> \o SubSeq(z, 1, Len(z)) = z
  OBVIOUS
<1>3. QED
  BY <1>1, <1>2 DEF Pushed

\* As many ids as the batching.
LEMMA AllIds == Ids \in SUBSET Ids /\ Len(Batch(Ids)) = Batching
<1>1. Batching \in Nat \ {0} /\ 0 \in Int /\ Batching - 1 \in Int
  BY PerfAssumption
<1>2. Cardinality(0..Batching - 1) = IF 0 > Batching - 1 THEN 0 ELSE (Batching - 1) - 0 + 1
  BY <1>1, FS_Interval
<1>3. Cardinality(Ids) = Batching
  BY <1>1, <1>2 DEF Ids
<1>4. Ids \in SUBSET Ids
  OBVIOUS
<1>5. QED
  BY <1>3, <1>4, BatchOf

\* The client's turn to see which of its writes were received.
LEMMA WrDatas ==
    ASSUME NEW conf \in Nat, NEW rel \in Nat, IInv(conf, rel), Batching <= N,
           c.sending = <<>>, on_new_wr_datas
    PROVE  Inv'
<1>0. /\ ClientInv /\ c \in ClientType /\ N \in Nat \ {0} /\ Batching \in Nat \ {0}
      /\ ClientRing(conf)
  BY PerfAssumption DEF IInv, ClientInv
<1>1. /\ c.connected /\ c.mux = <<"wr_data", "wr_buff">> /\ c.idx = 0
      /\ c.wr_buff_q = <<>> /\ c.wanting = {}
  <2>1. c.idx < Len(c.mux) /\ c.mux[c.idx + 1] = "wr_data"
    BY DEF on_new_wr_datas, Polls, AtIdx
  <2>2. c.mux # <<>> /\ (c.mux = <<"wr_data", "wr_buff">> => c.idx # 1)
        /\ (c.mux = <<"device", "wr_data", "wr_buff">> => c.idx # 0)
        /\ (c.mux = <<"device">> => c.idx # 0)
    BY <2>1, Names, ClientTypes, <1>0
  <2>3. QED
    BY <2>2, <1>0 DEF ClientInv, ClientTurn
<1> DEFINE d == c.wr_data_q
           l == Len(d)
           n == Received(c)
           p == MovedOn(c)
<1>2. d \in Seq(Ids) /\ l \in Nat /\ l <= Batching
  <2>1. d \in Seq(Ids) /\ l \in Nat
    BY <1>0, ClientTypes
  <2>2. 0 + 0 + l <= Batching
    BY <1>0, <1>1 DEF ClientInv
  <2> HIDE DEF l
  <2>3. QED
    BY <2>1, <2>2, <1>0
<1>3. PICK pub \in Nat, given \in Nat : pub = Published(conf) /\ given = Given(conf)
  BY Counts
<1>4. /\ conf <= rel /\ rel <= pub /\ pub <= given /\ given <= conf + N /\ Acquired(rel) <= pub
      /\ Ring(conf, rel, pub, given) /\ pub = conf + l /\ given = pub
  <2>1. pub = conf + l
    BY <1>3 DEF Published
  <2>2. given = pub + 0
    BY <1>3 DEF Given
  <2>3. /\ conf <= rel /\ rel <= pub /\ given <= conf + N /\ Acquired(rel) <= pub
    <3>1. /\ rel <= Taken(rel) /\ Taken(rel) <= Acquired(rel) /\ Taken(rel) \in Nat /\ Acquired(rel) \in Nat
          /\ conf <= rel /\ given <= conf + N /\ Acquired(rel) <= pub
      BY <1>3, Counts
    <3>2. QED
      BY <3>1
  <2>4. Ring(conf, rel, pub, given)
    BY <1>3 DEF IInv
  <2> HIDE <1>3 DEF l
  <2>5. QED
    BY <2>1, <2>2, <2>3, <2>4
<1>5. /\ c.wr_rel_index = Slot(conf)
      /\ c.wr_out_index = Slot(pub) /\ c.wr_sync_counter = Counted(pub)
      /\ c.wr_buff_acq_idx = Slot(pub) /\ c.seq = Counted(pub)
  BY <1>0, <1>3, <1>4 DEF ClientRing
<1> HIDE <1>3
<1>6. n \in 0..l /\ conf + n <= rel
  <2>1. l - 0 = l
    BY <1>2
  <2>2. n = Max({m \in 0..l : \A k \in 0..m - 1 : head[Slot(Slot(conf) + k)] = RXD})
    <3>1. c.wr_data_use = 0 /\ c.wr_rel_index = Slot(conf)
      BY <1>0, <1>5 DEF ClientInv
    <3> HIDE DEF l
    <3>2. n = Max({m \in 0..l - 0 : \A k \in 0..m - 1 : head[Slot(Slot(conf) + k)] = RXD})
      BY <3>1 DEF Received, l, d
    <3>3. QED
      BY <3>2, <2>1
  <2> HIDE DEF n, l
  <2>3. QED
    BY <2>2, <1>2, <1>4, ReceivedOf
<1>7. /\ p \in ClientType /\ p.idx = 1
      /\ p.mux = c.mux /\ p.connected = c.connected /\ p.exited = c.exited /\ p.wanting = {}
      /\ p.filled = c.filled /\ p.wr_buff_q = <<>> /\ p.wr_buff_use = c.wr_buff_use
      /\ p.wr_data_q = d /\ p.wr_data_use = 0 /\ p.wr_buff_acq_idx = c.wr_buff_acq_idx
      /\ p.wr_out_index = c.wr_out_index /\ p.wr_rel_index = Slot(conf)
      /\ p.wr_sync_counter = c.wr_sync_counter /\ p.seq = c.seq /\ p.sending = <<>>
  <2>1. Len(c.mux) = 2
    BY <1>1
  <2>2. (IF c.idx >= Len(c.mux) - 1 THEN 0 ELSE c.idx + 1) = 1
    BY <1>1, <2>1
  <2>3. c.wr_data_use = 0
    BY <1>0 DEF ClientInv
  <2>4. QED
    BY <1>0, <1>1, <1>5, <2>2, <2>3, ClientMoved
<1> HIDE DEF p
<1> DEFINE some == ToSet(SubSeq(d, 1, n))
           q == [p EXCEPT !.wr_data_use = @ + n, !.wr_rel_index = Slot(@ + n)]
<1>8. /\ s' = s /\ stamp' = stamp
      /\ head' = [b \in Slots |-> IF \E i \in 0..n - 1 : b = Slot(Slot(conf) + i) THEN EMPTY ELSE head[b]]
      /\ c' = IF q.wr_data_use = 0 THEN q ELSE AskedAgain(Completed(q))
  <2>1. /\ s' = s /\ stamp' = stamp
        /\ head' = [b \in Slots |-> IF \E i \in 0..n - 1 : b = Slot(c.wr_rel_index + i) THEN EMPTY ELSE head[b]]
        /\ c' = IF q.wr_data_use = 0 THEN q ELSE AskedAgain(Completed(q))
    BY DEF on_new_wr_datas, p
  <2> HIDE DEF n, q
  <2>2. QED
    BY <2>1, <1>5
<1> HIDE DEF n
<1>9. /\ n \in Nat /\ Slot(conf + n) \in Slots /\ Slot(Slot(conf) + n) = Slot(conf + n)
  <2>1. n \in Nat /\ conf \in Int /\ n \in Int /\ conf + n \in Int
    BY <1>2, <1>6
  <2>2. QED
    BY <2>1, SlotFacts
<1>10. q = [p EXCEPT !.wr_data_use = n, !.wr_rel_index = Slot(conf + n)]
  <2>1. p.wr_data_use + n = n /\ Slot(p.wr_rel_index + n) = Slot(conf + n)
    BY <1>7, <1>9
  <2>2. QED
    BY <2>1
<1> HIDE DEF q
<1>11. q \in ClientType
  BY <1>7, <1>9, <1>10 DEF ClientType
<1>12. /\ q.wr_data_use = n /\ q.wr_rel_index = Slot(conf + n) /\ q.idx = 1
       /\ q.mux = c.mux /\ q.connected = c.connected /\ q.exited = c.exited /\ q.wanting = {}
       /\ q.filled = c.filled /\ q.wr_buff_q = <<>> /\ q.wr_buff_use = c.wr_buff_use
       /\ q.wr_data_q = d /\ q.wr_buff_acq_idx = c.wr_buff_acq_idx
       /\ q.wr_out_index = c.wr_out_index
       /\ q.wr_sync_counter = c.wr_sync_counter /\ q.seq = c.seq /\ q.sending = <<>>
  <2>1. /\ q.wr_data_use = n /\ q.wr_rel_index = Slot(conf + n) /\ q.idx = p.idx
        /\ q.mux = p.mux /\ q.connected = p.connected /\ q.exited = p.exited /\ q.wanting = p.wanting
        /\ q.filled = p.filled /\ q.wr_buff_q = p.wr_buff_q /\ q.wr_buff_use = p.wr_buff_use
        /\ q.wr_data_q = p.wr_data_q /\ q.wr_buff_acq_idx = p.wr_buff_acq_idx
        /\ q.wr_out_index = p.wr_out_index
        /\ q.wr_sync_counter = p.wr_sync_counter /\ q.seq = p.seq /\ q.sending = p.sending
    BY <1>7, <1>10 DEF ClientType
  <2>2. QED
    BY <2>1, <1>7
<1>13. /\ SubSeq(d, n + 1, l) \in Seq(Ids) /\ Len(SubSeq(d, n + 1, l)) = l - n
       /\ SubSeq(d, 1, n) \in Seq(Ids) /\ Len(SubSeq(d, 1, n)) = n
  <2> HIDE DEF d
  <2>1. n \in Nat /\ n <= l /\ d \in Seq(Ids) /\ l = Len(d) /\ l \in Nat
    BY <1>2, <1>6, <1>9
  <2> HIDE DEF l
  <2>2. /\ SubSeq(d, n + 1, l) \in Seq(Ids) /\ Len(SubSeq(d, n + 1, l)) = l - n
    BY <2>1
  <2>3. /\ SubSeq(d, 1, n) \in Seq(Ids) /\ Len(SubSeq(d, 1, n)) = n
    BY <2>1
  <2>4. QED
    BY <2>2, <2>3
<1>14. some \in SUBSET Ids /\ Batch(some) \in Seq(Ids) /\ Len(Batch(some)) \in Nat /\ Len(Batch(some)) <= n
  <2>1. some \in SUBSET Ids /\ Len(Batch(some)) <= n
    <3> DEFINE z == SubSeq(d, 1, n)
    <3>1. z \in Seq(Ids) /\ Len(z) = n
      BY <1>13
    <3> HIDE DEF z
    <3>2. ToSet(z) \in SUBSET Ids /\ Len(Batch(ToSet(z))) <= n
      BY <3>1, BatchOfSome
    <3>3. QED
      BY <3>2 DEF z
  <2> HIDE DEF some
  <2>2. QED
    BY <2>1, BatchOf
<1> HIDE DEF some, d, l
<1>15. /\ c' \in ClientType /\ c'.wr_data_use = 0 /\ c'.wr_rel_index = Slot(conf + n) /\ c'.idx = 1
       /\ c'.mux = c.mux /\ c'.connected = c.connected /\ c'.exited = c.exited
       /\ c'.wanting = some /\ c'.wr_buff_q = Batch(some) /\ c'.wr_data_q = SubSeq(d, n + 1, l)
       /\ c'.filled = c.filled /\ c'.wr_buff_use = c.wr_buff_use
       /\ c'.wr_buff_acq_idx = c.wr_buff_acq_idx /\ c'.wr_out_index = c.wr_out_index
       /\ c'.wr_sync_counter = c.wr_sync_counter /\ c'.seq = c.seq /\ c'.sending = <<>>
  <2>e. c.filled = {}
    BY <1>0 DEF ClientInv
  <2>1. CASE n = 0
    <3>1. c' = q
      BY <1>8, <1>12, <2>1
    <3>2. SubSeq(d, n + 1, l) = d
      <4>1. n + 1 = 1 /\ l = Len(d) /\ d \in Seq(Ids)
        BY <1>2, <2>1 DEF l
      <4>2. QED
        BY <4>1
    <3>3. some = {}
      <4>1. SubSeq(d, 1, n) = <<>>
        BY <1>13, <2>1
      <4>2. ToSet(<<>>) = {}
        BY DEF ToSet
      <4>3. some = ToSet(SubSeq(d, 1, n))
        BY DEF some
      <4>4. QED
        BY <4>1, <4>2, <4>3
    <3>4. Batch(some) = <<>>
      BY <3>3, BatchOfNone
    <3>5. QED
      BY <3>1, <3>2, <3>3, <3>4, <1>11, <1>12, <2>1
  <2>2. CASE n # 0
    <3> DEFINE a == Completed(q)
    <3>1. c' = AskedAgain(a)
      BY <1>8, <1>12, <2>2
    <3>2. Lesser(Batching, q.wr_data_use) = n /\ n - n = 0
      BY <1>0, <1>2, <1>6, <1>9, <1>12 DEF Lesser
    <3>3. a = [q EXCEPT !.wr_data_q = SubSeq(d, n + 1, l), !.wr_data_use = 0, !.wanting = some,
                        !.filled = {}]
      <4>1. /\ SubSeq(q.wr_data_q, n + 1, Len(q.wr_data_q)) = SubSeq(d, n + 1, l)
            /\ q.wr_data_use - n = 0
            /\ q.wanting \cup ToSet(SubSeq(q.wr_data_q, 1, n)) = some
        BY <1>12, <3>2 DEF some, l
      <4>e. q.filled = {}
        BY <1>0, <1>12 DEF ClientInv
      <4> DEFINE gone == ToSet(SubSeq(q.wr_data_q, 1, n))
                 held == {m \in q.filled : m.id \notin gone}
      <4>h. held = {}
        BY <4>e
      <4>2. a = [q EXCEPT !.wr_data_q = SubSeq(q.wr_data_q, n + 1, Len(q.wr_data_q)),
                          !.wr_data_use = q.wr_data_use - n,
                          !.wanting = q.wanting \cup ToSet(SubSeq(q.wr_data_q, 1, n)),
                          !.filled = held]
        BY <3>2 DEF Completed
      <4> HIDE DEF a, held, gone
      <4>3. QED
        BY <4>1, <4>2, <4>h
    <3> HIDE DEF a
    <3>4. a \in ClientType
      BY <3>3, <1>11, <1>13, <1>14 DEF ClientType
    <3>5. /\ a.wr_data_q = SubSeq(d, n + 1, l) /\ a.wr_data_use = 0 /\ a.wanting = some
          /\ a.wr_rel_index = q.wr_rel_index /\ a.idx = q.idx
          /\ a.mux = q.mux /\ a.connected = q.connected /\ a.exited = q.exited
          /\ a.filled = {} /\ a.wr_buff_q = q.wr_buff_q /\ a.wr_buff_use = q.wr_buff_use
          /\ a.wr_buff_acq_idx = q.wr_buff_acq_idx /\ a.wr_out_index = q.wr_out_index
          /\ a.wr_sync_counter = q.wr_sync_counter /\ a.seq = q.seq /\ a.sending = q.sending
      BY <3>3, <1>11 DEF ClientType
    <3>6. Pushed(a.wr_buff_q, Batch(a.wanting)) = Batch(some)
      <4>1. a.wr_buff_q = <<>> /\ a.wanting = some
        BY <3>5, <1>12
      <4> DEFINE z == Batch(some)
      <4>2. z \in Seq(Ids) /\ Len(z) <= N
        BY <1>0, <1>2, <1>6, <1>9, <1>14
      <4> HIDE DEF z
      <4>3. Pushed(<<>>, z) = z
        BY <4>2, PushedAll
      <4>4. QED
        BY <4>1, <4>3 DEF z
    <3>7. c' = [a EXCEPT !.wr_buff_q = Batch(some)]
      BY <3>1, <3>6 DEF AskedAgain, get_new_buffers
    <3>8. c' \in ClientType
      BY <3>4, <3>7, <1>14 DEF ClientType
    <3>9. /\ c'.wr_buff_q = Batch(some) /\ c'.wr_data_q = a.wr_data_q /\ c'.wr_data_use = a.wr_data_use
          /\ c'.wanting = a.wanting
          /\ c'.wr_rel_index = a.wr_rel_index /\ c'.idx = a.idx
          /\ c'.mux = a.mux /\ c'.connected = a.connected /\ c'.exited = a.exited
          /\ c'.filled = a.filled /\ c'.wr_buff_use = a.wr_buff_use
          /\ c'.wr_buff_acq_idx = a.wr_buff_acq_idx /\ c'.wr_out_index = a.wr_out_index
          /\ c'.wr_sync_counter = a.wr_sync_counter /\ c'.seq = a.seq /\ c'.sending = a.sending
      BY <3>4, <3>7 DEF ClientType
    <3>10. QED
      BY <3>5, <3>8, <3>9, <1>12, <2>e
  <2>3. QED
    BY <2>1, <2>2
<1>16. ClientInv'
  <2>1. ClientTurn'
    BY <1>1, <1>15 DEF ClientTurn
  <2>2. Len(c'.wr_buff_q) + Len(c'.sending) + Len(c'.wr_data_q) <= Batching
    <3>1. Len(c'.wr_buff_q) = Len(Batch(some)) /\ Len(c'.sending) = 0 /\ Len(c'.wr_data_q) = l - n
      BY <1>13, <1>15
    <3>2. \A i \in Nat : i <= n => i + 0 + (l - n) <= Batching
      BY <1>0, <1>2, <1>6, <1>9
    <3>3. QED
      BY <3>1, <3>2, <1>14
  <2>3. QED
    BY <2>1, <2>2, <1>0, <1>15 DEF ClientInv
<1>17. PICK conf2 \in Nat : conf2 = conf + n
  BY <1>9
<1>18. /\ conf2 + (l - n) = pub /\ conf2 <= rel /\ pub <= conf2 + N
       /\ c'.wr_rel_index = Slot(conf2) /\ Len(c'.wr_data_q) = l - n /\ Len(c'.sending) = 0
  <2>1. conf2 + (l - n) = pub /\ conf2 <= rel /\ pub <= conf2 + N
    BY <1>0, <1>2, <1>4, <1>6, <1>9, <1>17
  <2>2. c'.wr_rel_index = Slot(conf2)
    BY <1>15, <1>17
  <2>3. Len(c'.wr_data_q) = l - n /\ Len(c'.sending) = 0
    BY <1>13, <1>15
  <2>4. QED
    BY <2>1, <2>2, <2>3
<1>19. Ring(conf2, rel, pub, pub)'
  <2>1. conf + n <= rel /\ rel <= pub /\ pub <= pub /\ pub <= conf + N /\ Ring(conf, rel, pub, pub)
    BY <1>4, <1>6
  <2>2. PICK m \in Nat : m = n
    BY <1>9
  <2>3. /\ stamp' = stamp /\ conf + m <= rel
        /\ head' = [b \in Slots |-> IF \E i \in 0..m - 1 : b = Slot(Slot(conf) + i) THEN EMPTY ELSE head[b]]
    BY <1>8, <2>1, <2>2
  <2>4. conf2 = conf + m
    BY <2>2, <1>17
  <2> HIDE <2>2, <1>17
  <2>5. Ring(conf + m, rel, pub, pub)'
    BY <2>1, <2>3, RingFreed
  <2>6. QED
    BY <2>4, <2>5
<1> HIDE <1>17
<1>20. Published(conf2)' = pub /\ Given(conf2)' = pub
  <2>1. Published(conf2)' = conf2 + (l - n)
    BY <1>18 DEF Published
  <2>2. Published(conf2)' = pub
    BY <2>1, <1>18
  <2>3. Given(conf2)' = pub + 0
    BY <2>2, <1>18 DEF Given
  <2>4. QED
    BY <2>2, <2>3
<1>21. ClientRing(conf2)'
  <2>1. /\ c'.wr_rel_index = Slot(conf2)
        /\ c'.wr_out_index = Slot(pub) /\ c'.wr_sync_counter = Counted(pub)
        /\ c'.wr_buff_acq_idx = Slot(pub) /\ c'.seq = Counted(pub)
    BY <1>5, <1>15, <1>18
  <2>2. \A i \in 1..Len(c'.sending) : c'.sending[i].buf = Slot(Published(conf2)' + i - 1)
    BY <1>18
  <2>3. QED
    BY <2>1, <2>2, <1>20 DEF ClientRing
<1>22. QED
  <2>1. s' = s /\ conf2 <= rel /\ Acquired(rel) <= pub /\ pub <= conf2 + N
    BY <1>4, <1>8, <1>18
  <2>2. QED
    BY <2>1, <1>16, <1>19, <1>20, <1>21, ClientStep

\* The slots that the client asks for are all free: as many as its ids at most
\* are in circulation.
LEMMA GrantedOf ==
    ASSUME NEW conf \in Nat, NEW rel \in Nat, NEW pub \in Nat, NEW given \in Nat,
           Ring(conf, rel, pub, given), NEW l \in Nat, pub + l <= conf + N
    PROVE  Max({m \in 0..l : \A k \in 0..m - 1 : head[Slot(Slot(pub) + k)] = EMPTY}) = l
<1> DEFINE M == {m \in 0..l : \A k \in 0..m - 1 : head[Slot(Slot(pub) + k)] = EMPTY}
           n == Max(M)
<1>0. N \in Nat
  BY PerfAssumption
<1>1. ASSUME NEW k \in 0..l - 1
      PROVE  head[Slot(Slot(pub) + k)] = EMPTY
  <2>1. pub + k \in pub..conf + N - 1 /\ pub \in Int /\ k \in Int
    BY <1>0
  <2>2. Slot(Slot(pub) + k) = Slot(pub + k)
    BY <2>1, SlotFacts
  <2>3. head[Slot(pub + k)] = EMPTY
    BY <2>1 DEF Ring
  <2>4. QED
    BY <2>2, <2>3
<1>2. M \in SUBSET Nat /\ l \in M /\ \A m \in M : m <= l
  BY <1>1
<1>3. n \in M /\ l <= n
  <2> HIDE DEF M
  <2>1. QED
    BY <1>2, MaxOf
<1>4. n \in Nat /\ n <= l
  <2> HIDE DEF M, n
  <2>1. QED
    BY <1>2, <1>3
<1>5. n = l
  <2> HIDE DEF n
  <2>1. QED
    BY <1>3, <1>4
<1>6. QED
  BY <1>5

\* The largest of one number is that number.
LEMMA MaxOne ==
    ASSUME NEW i \in Nat
    PROVE  Max({i}) = i
<1> DEFINE S == {i}
<1>1. S \in SUBSET Nat /\ S # {} /\ \A x \in S : x <= i
  OBVIOUS
<1>2. Max(S) \in S
  <2> HIDE DEF S
  <2>1. QED
    BY <1>1, MaxOf
<1>3. QED
  BY <1>2

\* The next slots of the ring get the next numbers.
LEMMA RingGiven ==
    ASSUME NEW conf \in Nat, NEW rel \in Nat, NEW pub \in Nat, NEW l \in Nat,
           conf <= rel, rel <= pub, pub + l <= conf + N,
           Ring(conf, rel, pub, pub), head' = head,
           NEW Mine, \A b \in Slots : Mine[b] = {i \in 1..l : Slot(pub + i - 1) = b},
           stamp' = [b \in Slots |-> IF Mine[b] = {} THEN stamp[b]
                                     ELSE Counted(Counted(pub) + Max(Mine[b]) - 1)]
    PROVE  Ring(conf, rel, pub, pub + l)'
<1>0. N \in Nat \ {0}
  BY PerfAssumption
<1>1. ASSUME NEW b \in Slots, Mine[b] # {}
      PROVE  \E i \in 1..l : /\ Slot(pub + i - 1) = b
                             /\ Mine[b] = {i} /\ stamp'[b] = Counted(pub + i - 1)
  <2>1. PICK i \in 1..l : Slot(pub + i - 1) = b
    BY <1>1
  <2>2. ASSUME NEW j \in 1..l, Slot(pub + j - 1) = b
        PROVE  j = i
    <3>1. \A x, y \in Int : Slot(x) = Slot(y) /\ x <= y /\ y < x + N => x = y
      BY SlotFacts
    <3>2. CASE i <= j
      <4>1. /\ pub + i - 1 \in Int /\ pub + j - 1 \in Int /\ pub + i - 1 <= pub + j - 1
            /\ pub + j - 1 < (pub + i - 1) + N
        BY <1>0, <3>2
      <4>2. pub + i - 1 = pub + j - 1
        BY <2>1, <2>2, <3>1, <4>1
      <4>3. QED
        BY <4>2
    <3>3. CASE j <= i
      <4>1. /\ pub + i - 1 \in Int /\ pub + j - 1 \in Int /\ pub + j - 1 <= pub + i - 1
            /\ pub + i - 1 < (pub + j - 1) + N
        BY <1>0, <3>3
      <4>2. pub + i - 1 = pub + j - 1
        BY <2>1, <2>2, <3>1, <4>1
      <4>3. QED
        BY <4>2
    <3>4. QED
      BY <3>2, <3>3
  <2>3. Mine[b] = {i}
    BY <2>1, <2>2
  <2>4. Max(Mine[b]) = i
    BY <2>3, MaxOne
  <2>5. stamp'[b] = Counted(Counted(pub) + i - 1)
    BY <1>1, <2>4
  <2>6. Counted(Counted(pub) + (i - 1)) = Counted(pub + (i - 1)) /\ Counted(pub) \in SeqNo
    <3>1. pub \in Int /\ i - 1 \in Int
      OBVIOUS
    <3>2. QED
      BY <3>1, CountedFacts
  <2>7. Counted(pub) + i - 1 = Counted(pub) + (i - 1) /\ pub + i - 1 = pub + (i - 1)
    BY <2>6 DEF SeqNo
  <2>8. QED
    BY <2>1, <2>3, <2>5, <2>6, <2>7
<1>2. \A b \in Slots : Mine[b] = {} => stamp'[b] = stamp[b]
  OBVIOUS
<1>3. head' \in [Slots -> {EMPTY, RXD} \cup SeqNo] /\ stamp' \in [Slots -> SeqNo]
  <2>1. head \in [Slots -> {EMPTY, RXD} \cup SeqNo] /\ stamp \in [Slots -> SeqNo]
    BY DEF Ring
  <2>2. \A b \in Slots : stamp'[b] \in SeqNo
    <3>1. TAKE b \in Slots
    <3>2. CASE Mine[b] = {}
      BY <1>2, <2>1, <3>2
    <3>3. CASE Mine[b] # {}
      <4>1. PICK i \in 1..l : stamp'[b] = Counted(pub + i - 1)
        BY <1>1, <3>3
      <4>2. pub + i - 1 \in Int
        OBVIOUS
      <4>3. QED
        BY <4>1, <4>2, CountedFacts
    <3>4. QED
      BY <3>2, <3>3
  <2>3. QED
    BY <2>1, <2>2
<1>4. \A k \in rel..pub + l - 1 : stamp'[Slot(k)] = Counted(k)
  <2>1. TAKE k \in rel..pub + l - 1
  <2>2. Slot(k) \in Slots /\ k \in Int /\ pub \in Int
    BY SlotFacts
  <2>3. CASE Mine[Slot(k)] = {}
    <3>1. k < pub
      <4>1. SUFFICES ASSUME k >= pub PROVE FALSE
        BY <2>2
      <4>2. k - pub + 1 \in 1..l /\ pub + (k - pub + 1) - 1 = k
        BY <4>1
      <4>3. k - pub + 1 \in Mine[Slot(k)]
        BY <2>2, <4>2
      <4>4. QED
        BY <2>3, <4>3
    <3>2. k \in rel..pub - 1
      BY <3>1
    <3>3. stamp[Slot(k)] = Counted(k)
      BY <3>2 DEF Ring
    <3>4. QED
      BY <1>2, <2>2, <2>3, <3>3
  <2>4. CASE Mine[Slot(k)] # {}
    <3>1. PICK i \in 1..l : Slot(pub + i - 1) = Slot(k) /\ stamp'[Slot(k)] = Counted(pub + i - 1)
      BY <1>1, <2>2, <2>4
    <3>2. pub + i - 1 = k
      <4>1. \A x, y \in Int : Slot(x) = Slot(y) /\ x <= y /\ y < x + N => x = y
        BY SlotFacts
      <4>2. pub + i - 1 \in Int /\ pub + i - 1 < k + N /\ k < (pub + i - 1) + N
        BY <1>0, <2>2
      <4>3. CASE pub + i - 1 <= k
        BY <2>2, <3>1, <4>1, <4>2, <4>3
      <4>4. CASE k <= pub + i - 1
        BY <2>2, <3>1, <4>1, <4>2, <4>4
      <4>5. QED
        BY <2>2, <4>2, <4>3, <4>4
    <3>3. QED
      BY <3>1, <3>2
  <2>5. QED
    BY <2>3, <2>4
<1>5. /\ \A k \in conf..rel - 1 : head'[Slot(k)] = RXD
      /\ \A k \in rel..pub - 1 : head'[Slot(k)] = Counted(k)
      /\ \A k \in pub..conf + N - 1 : head'[Slot(k)] = EMPTY
  BY DEF Ring
<1>6. PICK given \in Nat : given = pub + l
  OBVIOUS
<1>7. \A k \in rel..given - 1 : stamp'[Slot(k)] = Counted(k)
  <2>1. \A k \in rel..given - 1 : k \in rel..pub + l - 1
    BY <1>6
  <2>2. QED
    BY <1>4, <2>1
<1>8. Ring(conf, rel, pub, given)'
  <2> HIDE <1>6
  <2>1. QED
    BY <1>3, <1>5, <1>7 DEF Ring
<1>9. QED
  BY <1>6, <1>8

\* How many the numbers up to l are.
LEMMA UpTo ==
    ASSUME NEW l \in Nat
    PROVE  Cardinality(1..l) = l
<1>1. 1 \in Int /\ l \in Int
  OBVIOUS
<1>2. Cardinality(1..l) = IF 1 > l THEN 0 ELSE l - 1 + 1
  BY <1>1, FS_Interval
<1>3. QED
  BY <1>2

\* The messages of the ids q, in the slots from g on.
Named(q, g) == [i \in 1..Len(q) |-> [id |-> q[i], buf |-> Slot(g + i - 1)]]

\* The client asks for a buffer for each of the ids q, and gets the slots from
\* g on.
Granted(p, q, l, g) ==
    /\ q \in [1..l -> Ids] /\ \A i, j \in 1..l : q[i] = q[j] => i = j
    /\ p \in ClientType /\ p.wr_buff_q = q /\ p.wr_buff_use = l
    /\ p.wr_buff_acq_idx = Slot(g + l) /\ p.filled = {} /\ p.wanting = ToSet(q)
\* What the client has then: each id with its slot.
Filled(p, q, g) ==
    [p EXCEPT !.wr_buff_q = <<>>, !.wr_buff_use = 0, !.wanting = {}, !.filled = ToSet(Named(q, g))]

\* Each of the results of a poll that grants every request is kept.
LEMMA PreparedOf ==
    ASSUME NEW p, NEW q, NEW l \in Nat, NEW g \in Nat, l <= Batching, Granted(p, q, l, g)
    PROVE  Prepared(p) = Filled(p, q, g)
<1>g. /\ q \in [1..l -> Ids] /\ \A i, j \in 1..l : q[i] = q[j] => i = j
      /\ p \in ClientType /\ p.wr_buff_q = q /\ p.wr_buff_use = l
      /\ p.wr_buff_acq_idx = Slot(g + l) /\ p.filled = {} /\ p.wanting = ToSet(q)
  BY DEF Granted
<1>0. N \in Nat \ {0} /\ Batching \in Nat \ {0}
  BY PerfAssumption
<1>q. q \in Seq(Ids) /\ l = Len(q)
  BY <1>g
<1>1. Results(p) = 1..l
  <2>1. Lesser(Batching, l) = l
    BY <1>0 DEF Lesser
  <2>2. QED
    BY <1>g, <2>1 DEF Results
<1> DEFINE Kept == {i \in Results(p) : \A j \in Results(p) : j > i => p.wr_buff_q[j] # p.wr_buff_q[i]}
           ids  == {p.wr_buff_q[i] : i \in Kept}
           n    == Cardinality(Results(p))
           new  == {[id |-> p.wr_buff_q[i],
                     buf |-> Slot(N + p.wr_buff_acq_idx - p.wr_buff_use + i - 1)] : i \in Kept}
<1>2. Prepared(p) = [p EXCEPT !.wr_buff_q = SubSeq(p.wr_buff_q, n + 1, Len(p.wr_buff_q)),
                              !.wr_buff_use = p.wr_buff_use - n,
                              !.wanting = p.wanting \ ids,
                              !.filled = {m \in p.filled : m.id \notin ids} \cup new]
  BY DEF Prepared
<1>3. Kept = 1..l
  <2>1. \A i, j \in 1..l : j > i => q[j] # q[i]
    BY <1>g
  <2>2. QED
    BY <1>1, <1>g, <2>1
<1>4. n = l
  BY <1>1, UpTo
<1>5. ids = ToSet(q)
  <2>1. ids = {q[i] : i \in 1..l}
    BY <1>3, <1>g
  <2>2. ToSet(q) = {q[i] : i \in 1..l}
    BY <1>q DEF ToSet
  <2>3. QED
    BY <2>1, <2>2
<1>6. new = ToSet(Named(q, g))
  <2>0. \A a, b, i \in Int : N + a - b + i - 1 = a + (N - b + i - 1)
    BY <1>0
  <2>1. \A i \in 1..l : Slot(N + Slot(g + l) - l + i - 1) = Slot(g + i - 1)
    <3>1. TAKE i \in 1..l
    <3>2. g + l \in Int /\ N - l + i - 1 \in Int /\ g + i - 1 \in Int /\ Slot(g + l) \in Int
          /\ (g + l) + (N - l + i - 1) = (g + i - 1) + N
      <4>1. Slot(g + l) \in Slots
        BY SlotFacts
      <4>2. QED
        BY <1>0, <4>1 DEF Slots
    <3>3. Slot(Slot(g + l) + (N - l + i - 1)) = Slot((g + i - 1) + N)
      BY <3>2, SlotFacts
    <3>4. Slot((g + i - 1) + N) = Slot(g + i - 1)
      BY <3>2, SlotFacts
    <3>5. N + Slot(g + l) - l + i - 1 = Slot(g + l) + (N - l + i - 1)
      <4>1. l \in Int /\ i \in Int
        OBVIOUS
      <4>2. QED
        BY <2>0, <3>2, <4>1
    <3>6. QED
      BY <3>3, <3>4, <3>5
  <2>2. new = {[id |-> q[i], buf |-> Slot(N + Slot(g + l) - l + i - 1)] : i \in 1..l}
    BY <1>3, <1>g
  <2>3. new = {[id |-> q[i], buf |-> Slot(g + i - 1)] : i \in 1..l}
    BY <2>1, <2>2
  <2>4. ToSet(Named(q, g)) = {[id |-> q[i], buf |-> Slot(g + i - 1)] : i \in 1..l}
    BY <1>q DEF ToSet, Named
  <2>5. QED
    BY <2>3, <2>4
<1> HIDE DEF Kept, ids, n, new
<1>7. /\ SubSeq(p.wr_buff_q, n + 1, Len(p.wr_buff_q)) = <<>> /\ p.wr_buff_use - n = 0
      /\ p.wanting \ ids = {} /\ {m \in p.filled : m.id \notin ids} \cup new = ToSet(Named(q, g))
  <2>1. SubSeq(q, l + 1, l) = <<>>
    BY <1>q
  <2>2. QED
    BY <1>4, <1>5, <1>6, <1>g, <1>q, <2>1
<1>8. QED
  BY <1>2, <1>7 DEF Filled

\* The messages as a set.
LEMMA NamedSet ==
    ASSUME NEW q \in Seq(Ids), NEW g \in Nat
    PROVE  /\ DOMAIN q = 1..Len(q) /\ ToSet(q) = {q[i] : i \in 1..Len(q)}
           /\ ToSet(Named(q, g)) = {[id |-> q[i], buf |-> Slot(g + i - 1)] : i \in 1..Len(q)}
BY DEF ToSet, Named

\* The ids' messages in the order of the ids.
LEMMA ByIdOf ==
    ASSUME NEW q \in Seq(Ids), NEW g \in Nat, Batch(ToSet(q)) = q,
           \A i, j \in 1..Len(q) : q[i] = q[j] => i = j,
           NEW p, p.filled = ToSet(Named(q, g))
    PROVE  ById(p) = Named(q, g)
<1> DEFINE F == p.filled
           l == Len(q)
           r == Batch({m.id : m \in F})
           M(i) == [id |-> q[i], buf |-> Slot(g + i - 1)]
<1>1. F = {M(i) : i \in 1..l} /\ DOMAIN q = 1..l /\ ToSet(q) = {q[i] : i \in 1..l}
  BY NamedSet
<1>2. \A i \in 1..l : M(i).id = q[i]
  OBVIOUS
<1>3. ById(p) = [i \in DOMAIN r |-> CHOOSE m \in F : m.id = r[i]]
  BY DEF ById
<1>4. Named(q, g) = [i \in 1..l |-> M(i)]
  BY DEF Named
<1> HIDE DEF F, M
<1>5. {m.id : m \in F} = ToSet(q)
  BY <1>1, <1>2
<1>6. r = q
  BY <1>5
<1> HIDE DEF r
<1>7. ASSUME NEW i \in 1..l
      PROVE  (CHOOSE m \in F : m.id = r[i]) = M(i)
  <2>1. M(i) \in F /\ M(i).id = r[i]
    BY <1>1, <1>2, <1>6
  <2>2. \A m \in F : m.id = r[i] => m = M(i)
    BY <1>1, <1>2, <1>6
  <2>3. QED
    BY <2>1, <2>2
<1>8. QED
  BY <1>1, <1>3, <1>4, <1>6, <1>7

\* The messages as a sequence.
LEMMA NamedType ==
    ASSUME NEW q \in Seq(Ids), NEW g \in Nat
    PROVE  /\ Named(q, g) \in Seq([id : Ids, buf : Slots]) /\ Len(Named(q, g)) = Len(q)
           /\ \A i \in 1..Len(q) : Named(q, g)[i].buf = Slot(g + i - 1)
<1> DEFINE l == Len(q)
<1>1. l \in Nat /\ \A i \in 1..l : q[i] \in Ids
  OBVIOUS
<1>2. \A i \in 1..l : Slot(g + i - 1) \in Slots
  <2>1. \A i \in 1..l : g + i - 1 \in Int
    BY <1>1
  <2>2. QED
    BY <2>1, SlotFacts
<1>3. Named(q, g) = [i \in 1..l |-> [id |-> q[i], buf |-> Slot(g + i - 1)]]
  BY DEF Named
<1> HIDE DEF l
<1> DEFINE R == [id : Ids, buf : Slots]
           M(i) == [id |-> q[i], buf |-> Slot(g + i - 1)]
           x == Named(q, g)
<1>4. \A i \in 1..l : M(i) \in R
  BY <1>1, <1>2
<1>a. x = [i \in 1..l |-> M(i)]
  BY <1>3
<1>5. x \in Seq(R) /\ Len(x) = l
  <2> HIDE DEF R, M, x
  <2>1. x \in [1..l -> R]
    BY <1>4, <1>a
  <2>2. QED
    BY <1>1, <2>1
<1>6. QED
  BY <1>3, <1>5 DEF l

\* The ids q have the slots from g on, and there is place for them in the queue.
Numbered(p, q, l, g) ==
    /\ Batch(ToSet(q)) = q
    /\ q \in [1..l -> Ids] /\ \A i, j \in 1..l : q[i] = q[j] => i = j
    /\ p \in ClientType /\ p.filled = ToSet(Named(q, g)) /\ p.seq = Counted(g)
    /\ \E e \in Nat : Len(p.wr_data_q) = e /\ l + e <= N
\* The client with its messages about to be published, and their numbers in place.
Sending(p, q, l, g) ==
    [p EXCEPT !.seq = Counted(g + l), !.filled = {}, !.sending = Named(q, g)]
StampedFrom(g, Mine) ==
    [b \in Slots |-> IF Mine[b] = {} THEN stamp[b] ELSE Counted(Counted(g) + Max(Mine[b]) - 1)]
\* Mine says which of the messages lie in a slot.
InSlots(l, g, Mine) == \A b \in Slots : Mine[b] = {i \in 1..l : Slot(g + i - 1) = b}

\* What the client sends when each of its ids has a buffer and a place in the
\* queue.
LEMMA SentOf ==
    ASSUME NEW p, NEW q, NEW l \in Nat, NEW g \in Nat, Numbered(p, q, l, g),
           NEW Mine, InSlots(l, g, Mine)
    PROVE  send_perf_messages(p) = Sending(p, q, l, g) /\ Stamped(p) = StampedFrom(g, Mine)
<1>g. /\ q \in [1..l -> Ids] /\ \A i, j \in 1..l : q[i] = q[j] => i = j
      /\ p \in ClientType /\ p.filled = ToSet(Named(q, g)) /\ p.seq = Counted(g)
  BY DEF Numbered
<1>b. Batch(ToSet(q)) = q
  BY DEF Numbered
<1>m. \A b \in Slots : Mine[b] = {i \in 1..l : Slot(g + i - 1) = b}
  BY DEF InSlots
<1>e. PICK e \in Nat : Len(p.wr_data_q) = e /\ l + e <= N
  BY DEF Numbered
<1> DEFINE msgs == ById(p)
           With(b) == {i \in DOMAIN msgs : msgs[i].buf = b}
           sent == SubSeq(msgs, 1, Lesser(Len(msgs), N - Len(p.wr_data_q)))
<1>q. q \in Seq(Ids) /\ l = Len(q)
  BY <1>g
<1>1. msgs = Named(q, g)
  BY <1>b, <1>g, <1>q, ByIdOf
<1>2. /\ msgs \in Seq([id : Ids, buf : Slots]) /\ Len(msgs) = l
      /\ \A i \in 1..l : msgs[i].buf = Slot(g + i - 1)
  <2>1. /\ Named(q, g) \in Seq([id : Ids, buf : Slots]) /\ Len(Named(q, g)) = Len(q)
        /\ \A i \in 1..Len(q) : Named(q, g)[i].buf = Slot(g + i - 1)
    BY <1>q, NamedType
  <2> HIDE DEF msgs
  <2>2. QED
    BY <1>1, <1>q, <2>1
<1>3. send_perf_messages(p) = [p EXCEPT !.seq = Counted(p.seq + Len(msgs)),
                                        !.filled = p.filled \ ToSet(sent), !.sending = sent]
  BY DEF send_perf_messages
<1>4. Stamped(p) = [b \in Slots |->
                      IF With(b) = {} THEN stamp[b] ELSE Counted(p.seq + Max(With(b)) - 1)]
  BY DEF Stamped
<1>5. Lesser(l, N - e) = l
  BY <1>e, PerfAssumption DEF Lesser
<1> HIDE DEF msgs
<1>7. sent = msgs
  <2>1. SubSeq(msgs, 1, Len(msgs)) = msgs
    BY <1>2
  <2>2. QED
    BY <1>2, <1>5, <1>e, <2>1
<1> HIDE DEF sent
<1>8. p.filled \ ToSet(sent) = {} /\ Counted(p.seq + Len(msgs)) = Counted(g + l)
  <2>1. Counted(Counted(g) + l) = Counted(g + l)
    <3>1. g \in Int /\ l \in Int
      OBVIOUS
    <3>2. QED
      BY <3>1, CountedFacts
  <2>2. QED
    BY <1>1, <1>2, <1>7, <1>g, <2>1
<1>9. \A b \in Slots : With(b) = Mine[b]
  <2>1. \A b : With(b) = {i \in 1..l : Slot(g + i - 1) = b}
    BY <1>2
  <2> HIDE DEF With
  <2>2. QED
    BY <1>m, <2>1
<1> HIDE DEF With
<1>10. send_perf_messages(p) = Sending(p, q, l, g)
  BY <1>1, <1>3, <1>7, <1>8 DEF Sending
<1>11. Stamped(p) = StampedFrom(g, Mine)
  BY <1>4, <1>9, <1>g DEF StampedFrom
<1>12. QED
  BY <1>10, <1>11

\* The client's turn to be granted buffers, to number its messages and to write
\* them into the buffers.
LEMMA WrBuffs ==
    ASSUME NEW conf \in Nat, NEW rel \in Nat, IInv(conf, rel), Batching <= N,
           c.sending = <<>>, on_new_wr_buffs
    PROVE  Inv'
<1>0. /\ ClientInv /\ c \in ClientType /\ N \in Nat \ {0} /\ Batching \in Nat \ {0}
      /\ ClientRing(conf)
  BY PerfAssumption DEF IInv, ClientInv
<1>1. /\ c.connected /\ c.mux = <<"wr_data", "wr_buff">> /\ c.idx = 1
      /\ c.wr_buff_q = Batch(c.wanting)
  <2>1. c.idx < Len(c.mux) /\ c.mux[c.idx + 1] = "wr_buff"
    BY DEF on_new_wr_buffs, Polls, AtIdx
  <2>2. c.mux # <<>> /\ (c.mux = <<"wr_data", "wr_buff">> => c.idx # 0)
        /\ (c.mux = <<"device", "wr_data", "wr_buff">> => c.idx # 0)
        /\ (c.mux = <<"device">> => c.idx # 0)
    BY <2>1, Names, ClientTypes, <1>0
  <2>3. QED
    BY <2>2, <1>0 DEF ClientInv, ClientTurn
<1>q. PICK q : q = c.wr_buff_q
  OBVIOUS
<1>2. PICK l \in Nat : l = Len(q)
  <2>1. Len(c.wr_buff_q) \in Nat
    BY <1>0, ClientTypes
  <2>2. QED
    BY <2>1, <1>q
<1> DEFINE e == Len(c.wr_data_q)
<1>3. /\ q \in Seq(Ids) /\ l = Len(q) /\ ToSet(q) = c.wanting
      /\ \A i, j \in 1..Len(q) : q[i] = q[j] => i = j
  <2> DEFINE S == c.wanting
  <2>1. S \in SUBSET Ids
    BY <1>0, ClientTypes
  <2>2. q = Batch(S)
    BY <1>1, <1>q
  <2> HIDE DEF S
  <2>3. /\ Batch(S) \in Seq(Ids)
        /\ \A x \in S : \E i \in 1..Len(Batch(S)) : Batch(S)[i] = x
        /\ \A i \in 1..Len(Batch(S)) : Batch(S)[i] \in S
        /\ \A i, j \in 1..Len(Batch(S)) : Batch(S)[i] = Batch(S)[j] => i = j
    BY <2>1, BatchOf
  <2> HIDE <1>q
  <2>4. /\ q \in Seq(Ids) /\ \A x \in S : \E i \in 1..Len(q) : q[i] = x
        /\ \A i \in 1..Len(q) : q[i] \in S
        /\ \A i, j \in 1..Len(q) : q[i] = q[j] => i = j
    BY <2>2, <2>3
  <2>5. ToSet(q) = S
    <3>1. ToSet(q) = {q[i] : i \in 1..Len(q)}
      BY <2>4 DEF ToSet
    <3>2. QED
      BY <2>4, <3>1
  <2>7. l = Len(q)
    BY <1>2
  <2>8. QED
    BY <2>4, <2>5, <2>7 DEF S
<1>b. Batch(ToSet(q)) = q
  <2>1. q = Batch(c.wanting) /\ ToSet(q) = c.wanting
    BY <1>1, <1>3, <1>q
  <2>2. QED
    BY <2>1
<1>d. q \in [1..l -> Ids]
  <2>1. q \in Seq(Ids) /\ l = Len(q)
    BY <1>3
  <2>2. q \in [1..Len(q) -> Ids]
    BY <2>1
  <2>3. QED
    BY <2>1, <2>2
<1>4. e \in Nat /\ l + e <= Batching /\ l + e <= N
  <2>1. e \in Nat
    BY <1>0, ClientTypes
  <2>2. l + 0 + e <= Batching
    BY <1>0, <1>2, <1>q DEF ClientInv
  <2> HIDE DEF e
  <2>3. QED
    BY <1>0, <2>1, <2>2
<1>5. PICK pub \in Nat, given \in Nat : pub = Published(conf) /\ given = Given(conf)
  BY Counts
<1>6. /\ conf <= rel /\ rel <= pub /\ Acquired(rel) <= pub
      /\ Ring(conf, rel, pub, pub) /\ pub = conf + e /\ pub + l <= conf + N
  <2>1. pub = conf + e
    BY <1>5 DEF Published
  <2>2. given = pub + 0
    BY <1>5 DEF Given
  <2>3. /\ conf <= rel /\ rel <= pub /\ Acquired(rel) <= pub
    <3>1. /\ rel <= Taken(rel) /\ Taken(rel) <= Acquired(rel) /\ Taken(rel) \in Nat /\ Acquired(rel) \in Nat
          /\ conf <= rel /\ Acquired(rel) <= pub
      BY <1>5, Counts
    <3>2. QED
      BY <3>1
  <2>4. Ring(conf, rel, pub, given)
    BY <1>5 DEF IInv
  <2> HIDE <1>5 DEF e
  <2>5. given = pub /\ pub + l <= conf + N
    BY <1>0, <1>4, <2>1, <2>2
  <2>6. QED
    BY <2>1, <2>3, <2>4, <2>5
<1>7. /\ c.wr_rel_index = Slot(conf)
      /\ c.wr_out_index = Slot(pub) /\ c.wr_sync_counter = Counted(pub)
      /\ c.wr_buff_acq_idx = Slot(pub) /\ c.seq = Counted(pub)
  <2>1. Given(conf) = pub
    <3>1. Given(conf) = pub + 0
      BY <1>5 DEF Given
    <3>2. QED
      BY <3>1
  <2>2. QED
    BY <1>0, <1>5, <2>1 DEF ClientRing
<1>m. Published(conf) = pub
  BY <1>5
<1> HIDE <1>q, <1>2, <1>5 DEF e
<1> DEFINE m == MovedOn(c)
           p == write_buffer_ready(m)
<1>8. /\ m \in ClientType /\ m.idx = 0
      /\ m.mux = c.mux /\ m.connected = c.connected /\ m.exited = c.exited
      /\ m.wanting = c.wanting /\ m.filled = c.filled /\ m.wr_buff_q = c.wr_buff_q
      /\ m.wr_buff_use = c.wr_buff_use /\ m.wr_data_q = c.wr_data_q /\ m.wr_data_use = c.wr_data_use
      /\ m.wr_buff_acq_idx = c.wr_buff_acq_idx /\ m.wr_out_index = c.wr_out_index
      /\ m.wr_rel_index = c.wr_rel_index
      /\ m.wr_sync_counter = c.wr_sync_counter /\ m.seq = c.seq /\ m.sending = c.sending
  <2>1. Len(c.mux) = 2
    BY <1>1
  <2>2. (IF c.idx >= Len(c.mux) - 1 THEN 0 ELSE c.idx + 1) = 0
    BY <1>1, <2>1
  <2>3. QED
    BY <1>0, <2>2, ClientMoved
<1>9. /\ m.wr_buff_q = q /\ m.wr_buff_use = 0 /\ m.wr_data_use = 0 /\ m.filled = {} /\ ~m.exited
      /\ m.connected /\ m.mux = <<"wr_data", "wr_buff">> /\ m.sending = <<>> /\ m.wanting = ToSet(q)
      /\ Len(m.wr_data_q) = e /\ m.wr_data_q \in [1..e -> Ids] /\ m.wr_rel_index = Slot(conf)
      /\ m.wr_out_index = Slot(pub) /\ m.wr_sync_counter = Counted(pub)
      /\ m.wr_buff_acq_idx = Slot(pub) /\ m.seq = Counted(pub)
  <2>1. c.wr_buff_use = 0 /\ c.wr_data_use = 0 /\ c.filled = {} /\ ~c.exited
    BY <1>0 DEF ClientInv
  <2>2. q = c.wr_buff_q
    BY <1>q
  <2>3. c.wr_data_q \in Seq(Ids) /\ c.wr_data_q \in [1..Len(c.wr_data_q) -> Ids]
    <3>1. c.wr_data_q \in Seq(Ids)
      BY <1>0, ClientTypes
    <3>2. QED
      BY <3>1
  <2> HIDE DEF m
  <2>4. QED
    BY <1>1, <1>3, <1>7, <1>8, <2>1, <2>2, <2>3 DEF e
<1> HIDE DEF m
<1>10. p = [m EXCEPT !.wr_buff_use = l, !.wr_buff_acq_idx = Slot(pub + l)]
  <2> DEFINE n == Max({x \in 0..Len(m.wr_buff_q) - m.wr_buff_use :
                         \A k \in 0..x - 1 : head[Slot(m.wr_buff_acq_idx + k)] = EMPTY})
  <2>1. p = [m EXCEPT !.wr_buff_use = m.wr_buff_use + n, !.wr_buff_acq_idx = Slot(m.wr_buff_acq_idx + n)]
    BY DEF write_buffer_ready
  <2>2. n = l
    <3>1. Len(m.wr_buff_q) - m.wr_buff_use = l /\ m.wr_buff_acq_idx = Slot(pub)
      BY <1>3, <1>9
    <3>2. n = Max({x \in 0..l : \A k \in 0..x - 1 : head[Slot(Slot(pub) + k)] = EMPTY})
      BY <3>1
    <3> HIDE DEF n
    <3>3. QED
      BY <3>2, <1>6, GrantedOf
  <2> HIDE DEF n, p
  <2>3. m.wr_buff_use + n = l /\ Slot(m.wr_buff_acq_idx + n) = Slot(pub + l)
    <3>1. pub \in Int /\ l \in Int
      OBVIOUS
    <3>2. Slot(Slot(pub) + l) = Slot(pub + l)
      BY <3>1, SlotFacts
    <3>3. QED
      BY <1>9, <2>2, <3>2
  <2>4. QED
    BY <2>1, <2>3
<1>s. Slot(pub + l) \in Slots /\ Counted(pub + l) \in SeqNo
  <2>1. pub + l \in Int
    OBVIOUS
  <2>2. QED
    BY <2>1, SlotFacts, CountedFacts
<1>11. /\ head' = head /\ s' = s
       /\ IF p.wr_buff_use = 0 THEN c' = p /\ stamp' = stamp
          ELSE stamp' = Stamped(Prepared(p)) /\ c' = send_perf_messages(Prepared(p))
  BY DEF on_new_wr_buffs, m
<1> HIDE DEF p
<1>12. p \in ClientType
  BY <1>8, <1>10, <1>s DEF ClientType
<1>13. /\ p.wr_buff_use = l /\ p.wr_buff_acq_idx = Slot(pub + l)
       /\ p.mux = m.mux /\ p.idx = m.idx /\ p.connected = m.connected
       /\ p.exited = m.exited /\ p.wanting = m.wanting /\ p.filled = m.filled
       /\ p.wr_buff_q = m.wr_buff_q /\ p.wr_data_q = m.wr_data_q /\ p.wr_data_use = m.wr_data_use
       /\ p.wr_out_index = m.wr_out_index /\ p.wr_rel_index = m.wr_rel_index
       /\ p.wr_sync_counter = m.wr_sync_counter
       /\ p.seq = m.seq /\ p.sending = m.sending
  BY <1>8, <1>10 DEF ClientType
<1> DEFINE Mine == [b \in Slots |-> {i \in 1..l : Slot(pub + i - 1) = b}]
<1>14. /\ c' \in ClientType /\ c'.sending = Named(q, pub) /\ c'.wr_buff_q = <<>> /\ c'.wanting = {}
       /\ c'.wr_buff_use = 0 /\ c'.filled = {} /\ c'.seq = Counted(pub + l)
       /\ c'.wr_buff_acq_idx = Slot(pub + l)
       /\ c'.mux = p.mux /\ c'.idx = p.idx /\ c'.connected = p.connected
       /\ c'.exited = p.exited /\ c'.wr_data_q = p.wr_data_q /\ c'.wr_data_use = p.wr_data_use
       /\ c'.wr_out_index = p.wr_out_index /\ c'.wr_rel_index = p.wr_rel_index
       /\ c'.wr_sync_counter = p.wr_sync_counter
       /\ Ring(conf, rel, pub, pub + l)'
  <2>1. CASE l = 0
    <3>1. c' = p /\ stamp' = stamp
      BY <1>11, <1>13, <2>1
    <3>2. q = <<>> /\ ToSet(q) = {} /\ Named(q, pub) = <<>>
      <4>1. q = <<>>
        <5>1. q \in Seq(Ids) /\ Len(q) = 0
          BY <1>3, <2>1
        <5> HIDE <2>1
        <5>2. QED
          BY <5>1
      <4>2. ToSet(<<>>) = {}
        BY DEF ToSet
      <4>3. Named(q, pub) \in Seq([id : Ids, buf : Slots]) /\ Len(Named(q, pub)) = Len(q)
        BY <1>3, NamedType
      <4>4. Named(q, pub) = <<>>
        BY <4>3, <1>3, <2>1
      <4>5. QED
        BY <4>1, <4>2, <4>4
    <3>3. pub + l = pub
      BY <2>1
    <3>4. Ring(conf, rel, pub, pub)'
      BY <3>1, <1>6, <1>11, SameRing
    <3>5. Ring(conf, rel, pub, pub + l)'
      BY <3>3, <3>4
    <3>6. /\ p.sending = <<>> /\ p.wr_buff_q = <<>> /\ p.wanting = {} /\ p.wr_buff_use = 0 /\ p.filled = {}
          /\ p.seq = Counted(pub + l) /\ p.wr_buff_acq_idx = Slot(pub + l)
      BY <1>9, <1>13, <2>1, <3>2, <3>3
    <3>7. QED
      BY <1>12, <1>13, <3>1, <3>2, <3>5, <3>6
  <2>2. CASE l # 0
    <3> DEFINE x == Prepared(p)
    <3>1. stamp' = Stamped(x) /\ c' = send_perf_messages(x)
      BY <1>11, <1>13, <2>2
    <3>2. x = [p EXCEPT !.wr_buff_q = <<>>, !.wr_buff_use = 0, !.wanting = {},
                        !.filled = ToSet(Named(q, pub))]
      <4>1. l <= Batching
        BY <1>0, <1>4
      <4>2. Granted(p, q, l, pub)
        <5>1. p.wr_buff_q = q /\ p.wr_buff_use = l /\ p.filled = {} /\ p.wanting = ToSet(q)
              /\ p.wr_buff_acq_idx = Slot(pub + l)
          BY <1>9, <1>13
        <5>2. \A i, j \in 1..l : q[i] = q[j] => i = j
          BY <1>3
        <5>3. QED
          BY <1>d, <1>12, <5>1, <5>2 DEF Granted
      <4>3. Prepared(p) = Filled(p, q, pub)
        BY <4>1, <4>2, PreparedOf
      <4>4. QED
        BY <4>3 DEF Filled
    <3>3. Named(q, pub) \in Seq([id : Ids, buf : Slots]) /\ ToSet(Named(q, pub)) \in SUBSET [id : Ids, buf : Slots]
      <4>1. Named(q, pub) \in Seq([id : Ids, buf : Slots])
        BY <1>3, NamedType
      <4> DEFINE R == [id : Ids, buf : Slots]
                 z == Named(q, pub)
      <4> HIDE DEF R, z
      <4>2. z \in Seq(R) => ToSet(z) \in SUBSET R
        BY DEF ToSet
      <4>3. QED
        BY <4>1, <4>2 DEF R, z
    <3> HIDE DEF x
    <3>4. x \in ClientType
      <4> DEFINE z == ToSet(Named(q, pub))
      <4>1. z \in SUBSET [id : Ids, buf : Slots]
        BY <3>3
      <4> DEFINE none == <<>>
      <4>2. x = [p EXCEPT !.wr_buff_q = none, !.wr_buff_use = 0, !.wanting = {}, !.filled = z]
        BY <3>2
      <4>3. none \in Seq(Ids)
        OBVIOUS
      <4> HIDE DEF z, none, Mine
      <4>4. QED
        BY <4>1, <4>2, <4>3, <1>12 DEF ClientType
    <3>5. /\ x.wr_buff_q = <<>> /\ x.wr_buff_use = 0 /\ x.wanting = {}
          /\ x.filled = ToSet(Named(q, pub))
          /\ x.mux = p.mux /\ x.idx = p.idx /\ x.connected = p.connected
          /\ x.exited = p.exited /\ x.wr_data_q = p.wr_data_q /\ x.wr_data_use = p.wr_data_use
          /\ x.wr_buff_acq_idx = p.wr_buff_acq_idx /\ x.wr_out_index = p.wr_out_index
          /\ x.wr_rel_index = p.wr_rel_index
          /\ x.wr_sync_counter = p.wr_sync_counter /\ x.seq = p.seq /\ x.sending = p.sending
      BY <3>2, <1>12 DEF ClientType
    <3>6. /\ c' = [x EXCEPT !.seq = Counted(pub + l), !.filled = {}, !.sending = Named(q, pub)]
          /\ stamp' = [b \in Slots |-> IF Mine[b] = {} THEN stamp[b]
                                       ELSE Counted(Counted(pub) + Max(Mine[b]) - 1)]
      <4>1. Numbered(x, q, l, pub)
        <5>1. x.filled = ToSet(Named(q, pub)) /\ x.seq = Counted(pub) /\ Len(x.wr_data_q) = e
          BY <1>9, <1>13, <3>5
        <5>2. \A i, j \in 1..l : q[i] = q[j] => i = j
          BY <1>3
        <5>3. \E k \in Nat : Len(x.wr_data_q) = k /\ l + k <= N
          BY <1>4, <5>1
        <5>4. QED
          BY <1>b, <1>d, <3>4, <5>1, <5>2, <5>3 DEF Numbered
      <4>2. InSlots(l, pub, Mine)
        BY DEF InSlots
      <4> HIDE DEF Mine
      <4>3. send_perf_messages(x) = Sending(x, q, l, pub) /\ Stamped(x) = StampedFrom(pub, Mine)
        BY <4>1, <4>2, SentOf
      <4>4. QED
        BY <3>1, <4>3 DEF Sending, StampedFrom
    <3>7. c' \in ClientType
      BY <3>3, <3>4, <3>6, <1>s DEF ClientType
    <3>8. /\ c'.seq = Counted(pub + l) /\ c'.filled = {} /\ c'.sending = Named(q, pub)
          /\ c'.mux = x.mux /\ c'.idx = x.idx /\ c'.connected = x.connected
          /\ c'.exited = x.exited /\ c'.wanting = x.wanting /\ c'.wr_buff_q = x.wr_buff_q
          /\ c'.wr_buff_use = x.wr_buff_use /\ c'.wr_data_q = x.wr_data_q
          /\ c'.wr_data_use = x.wr_data_use
          /\ c'.wr_buff_acq_idx = x.wr_buff_acq_idx /\ c'.wr_out_index = x.wr_out_index
          /\ c'.wr_rel_index = x.wr_rel_index
          /\ c'.wr_sync_counter = x.wr_sync_counter
      BY <3>4, <3>6 DEF ClientType
    <3>9. Ring(conf, rel, pub, pub + l)'
      <4>1. \A b \in Slots : Mine[b] = {i \in 1..l : Slot(pub + i - 1) = b}
        OBVIOUS
      <4>2. stamp' = [b \in Slots |-> IF Mine[b] = {} THEN stamp[b]
                                      ELSE Counted(Counted(pub) + Max(Mine[b]) - 1)]
        BY <3>6
      <4> HIDE DEF Mine
      <4>3. QED
        <5>1. /\ conf <= rel /\ rel <= pub /\ pub + l <= conf + N
              /\ Ring(conf, rel, pub, pub) /\ head' = head
          BY <1>6, <1>11
        <5>2. QED
          BY <4>1, <4>2, <5>1, RingGiven
    <3>10. QED
      BY <1>13, <3>5, <3>7, <3>8, <3>9
  <2>3. QED
    BY <2>1, <2>2
<1>15. /\ Len(c'.sending) = l /\ Len(c'.wr_data_q) = e /\ Len(c'.wr_buff_q) = 0
       /\ \A i \in 1..l : c'.sending[i].buf = Slot(pub + i - 1)
  <2>1. /\ Len(Named(q, pub)) = Len(q)
        /\ \A i \in 1..Len(q) : Named(q, pub)[i].buf = Slot(pub + i - 1)
    BY <1>3, NamedType
  <2>2. QED
    BY <2>1, <1>3, <1>9, <1>13, <1>14
<1>16. ClientInv'
  <2>1. ClientTurn'
    BY <1>8, <1>9, <1>13, <1>14 DEF ClientTurn
  <2>2. Len(c'.wr_buff_q) + Len(c'.sending) + Len(c'.wr_data_q) <= Batching
    BY <1>0, <1>4, <1>15
  <2>3. ~c'.exited /\ c'.wr_data_use = 0
    BY <1>9, <1>13, <1>14
  <2>4. QED
    BY <2>1, <2>2, <2>3, <1>14 DEF ClientInv
<1>17. Published(conf)' = pub /\ Given(conf)' = pub + l
  <2>1. Published(conf)' = pub
    BY <1>6, <1>15 DEF Published
  <2>2. QED
    BY <2>1, <1>15 DEF Given
<1>18. ClientRing(conf)'
  <2>1. /\ c'.wr_rel_index = Slot(conf)
        /\ c'.wr_out_index = Slot(pub) /\ c'.wr_sync_counter = Counted(pub)
        /\ c'.wr_buff_acq_idx = Slot(pub + l) /\ c'.seq = Counted(pub + l)
    BY <1>9, <1>13, <1>14
  <2>2. \A i \in 1..Len(c'.sending) : c'.sending[i].buf = Slot(pub + i - 1)
    BY <1>15
  <2>3. QED
    BY <2>1, <2>2, <1>17 DEF ClientRing
<1>19. PICK given2 \in Nat : given2 = pub + l
  OBVIOUS
<1>20. /\ Ring(conf, rel, pub, given2)' /\ given2 <= conf + N /\ Given(conf)' = given2
  BY <1>6, <1>14, <1>17, <1>19
<1> HIDE <1>19
<1>21. QED
  BY <1>6, <1>11, <1>16, <1>17, <1>18, <1>20, ClientStep

\* The client's turn to look after its device.
LEMMA ClientChannels ==
    ASSUME NEW conf \in Nat, NEW rel \in Nat, IInv(conf, rel), Batching <= N, c.sending = <<>>,
           client_on_new_channels
    PROVE  Inv'
<1>0. /\ ClientInv /\ c \in ClientType /\ Batching \in Nat \ {0} /\ N \in Nat \ {0}
      /\ ClientRing(conf)
  BY PerfAssumption DEF IInv, ClientInv
<1>1. /\ c.idx = 0
      /\ \/ /\ ~c.connected /\ c.mux = <<"device">> /\ c.wr_buff_q = <<>>
            /\ c.wr_data_q = <<>> /\ c.wanting = Ids
         \/ c.connected /\ c.mux = <<"device", "wr_data", "wr_buff">> /\ c.wr_buff_q = Batch(c.wanting)
  <2>1. c.idx < Len(c.mux) /\ c.mux[c.idx + 1] = "device"
    BY DEF client_on_new_channels, Polls, AtIdx
  <2>2. c.mux # <<>> /\ c.mux # <<"wr_data", "wr_buff">>
    <3>1. c.mux = <<"wr_data", "wr_buff">> => c.idx # 0 /\ c.idx # 1
      BY <2>1, Names
    <3>2. c.mux = <<"wr_data", "wr_buff">> => c.idx = 0 \/ c.idx = 1
      BY <1>0 DEF ClientInv, ClientTurn
    <3>3. c.mux # <<>>
      BY <2>1, <1>0, ClientTypes
    <3>4. QED
      BY <3>1, <3>2, <3>3
  <2>3. QED
    BY <2>2, <1>0 DEF ClientInv, ClientTurn
<1> DEFINE p == MovedOn(c)
           x == p.idx
<1>2. /\ p \in ClientType /\ x \in {0, 1} /\ (~c.connected => x = 0) /\ (c.connected => x = 1)
      /\ p.mux = c.mux /\ p.connected = c.connected /\ p.exited = c.exited
      /\ p.wanting = c.wanting /\ p.filled = c.filled /\ p.wr_buff_q = c.wr_buff_q
      /\ p.wr_buff_use = c.wr_buff_use /\ p.wr_data_q = c.wr_data_q /\ p.wr_data_use = c.wr_data_use
      /\ p.wr_buff_acq_idx = c.wr_buff_acq_idx /\ p.wr_out_index = c.wr_out_index
      /\ p.wr_rel_index = c.wr_rel_index
      /\ p.wr_sync_counter = c.wr_sync_counter /\ p.seq = c.seq /\ p.sending = c.sending
  <2>1. /\ (~c.connected => Len(c.mux) = 1) /\ (c.connected => Len(c.mux) = 3)
    <3>1. CASE ~c.connected /\ c.mux = <<"device">>
      BY <3>1
    <3>2. CASE c.connected /\ c.mux = <<"device", "wr_data", "wr_buff">>
      BY <3>2
    <3>3. QED
      BY <1>1, <3>1, <3>2
  <2> DEFINE v == IF c.idx >= Len(c.mux) - 1 THEN 0 ELSE c.idx + 1
  <2>2. v \in {0, 1} /\ (~c.connected => v = 0) /\ (c.connected => v = 1)
    <3>0. c.idx = 0
      BY <1>1
    <3>1. CASE c.connected
      <4>1. Len(c.mux) = 3
        BY <2>1, <3>1
      <4>2. v = 1
        BY <3>0, <4>1
      <4> HIDE DEF v
      <4>3. QED
        BY <3>1, <4>2
    <3>2. CASE ~c.connected
      <4>1. Len(c.mux) = 1
        BY <2>1, <3>2
      <4>2. v = 0
        BY <3>0, <4>1
      <4> HIDE DEF v
      <4>3. QED
        BY <3>2, <4>2
    <3>3. QED
      BY <3>1, <3>2
  <2>3. QED
    BY <1>0, <2>2, ClientMoved
<1> HIDE DEF p
<1> DEFINE all == Batch(Ids)
<1>3. all \in Seq(Ids) /\ Len(all) = Batching /\ Pushed(<<>>, all) = all
  <2>1. all \in Seq(Ids) /\ Len(all) = Batching
    BY AllIds, BatchOf
  <2> HIDE DEF all
  <2>2. QED
    BY <2>1, PushedAll
<1>4. \E m \in {c.mux, Without(c.mux), <<"device", "wr_data", "wr_buff">>},
         t \in BOOLEAN, u \in {c.wr_buff_q, all} :
        /\ c' = [p EXCEPT !.mux = m, !.connected = t, !.wr_buff_q = u]
        /\ \/ ~c.connected /\ ~t /\ u = c.wr_buff_q /\ m \in {c.mux, Without(c.mux)}
           \/ ~c.connected /\ t /\ u = all /\ m = <<"device", "wr_data", "wr_buff">>
           \/ c.connected /\ t /\ u = c.wr_buff_q /\ m = Without(c.mux)
  <2>0. p \in ClientType /\ p.mux = c.mux /\ p.connected = c.connected /\ p.wr_buff_q = c.wr_buff_q
        /\ c.connected \in BOOLEAN /\ p.wanting = c.wanting
    BY <1>0, <1>2 DEF ClientType
  <2>1. CASE ~c.connected /\ c' = p
    <3>1. p = [p EXCEPT !.mux = c.mux, !.connected = FALSE, !.wr_buff_q = c.wr_buff_q]
      BY <2>0, <2>1 DEF ClientType
    <3>2. QED
      BY <2>1, <3>1
  <2>2. CASE ~c.connected /\ c' = Removed(p, "device")
    <3>1. c' = [p EXCEPT !.mux = Without(c.mux)]
      BY <2>0, <2>2 DEF Removed, Without
    <3>2. c' = [p EXCEPT !.mux = Without(c.mux), !.connected = FALSE, !.wr_buff_q = c.wr_buff_q]
      BY <2>0, <2>2, <3>1 DEF ClientType
    <3>3. QED
      BY <2>2, <3>2
  <2>3. CASE /\ ~c.connected
             /\ c' = get_new_buffers([Inserted(Inserted(p, "wr_data"), "wr_buff")
                                               EXCEPT !.connected = TRUE])
    <3>1. Append(Append(c.mux, "wr_data"), "wr_buff") = <<"device", "wr_data", "wr_buff">>
      <4>1. c.mux = <<"device">>
        BY <1>1, <2>3
      <4>2. Append(Append(<<"device">>, "wr_data"), "wr_buff") = <<"device", "wr_data", "wr_buff">>
        BY Names, Vectors
      <4>3. QED
        BY <4>1, <4>2
    <3> DEFINE i1 == Inserted(p, "wr_data")
               i2 == Inserted(i1, "wr_buff")
               i3 == [i2 EXCEPT !.connected = TRUE]
    <3>2. i1 = [p EXCEPT !.mux = Append(c.mux, "wr_data")]
      BY <2>0 DEF Inserted
    <3>3. i2 = [i1 EXCEPT !.mux = <<"device", "wr_data", "wr_buff">>]
      <4>1. i1.mux = Append(c.mux, "wr_data")
        <5> HIDE DEF i1
        <5>1. QED
          BY <2>0, <3>2 DEF ClientType
      <4> HIDE DEF i1
      <4>2. QED
        BY <3>1, <4>1 DEF Inserted
    <3>4. i3 = [p EXCEPT !.mux = <<"device", "wr_data", "wr_buff">>, !.connected = TRUE]
      <4> HIDE DEF i1, i2
      <4>1. QED
        BY <2>0, <3>2, <3>3 DEF ClientType
    <3>5. i3.wr_buff_q = <<>> /\ i3.wanting = Ids
      <4>1. p.wr_buff_q = <<>> /\ p.wanting = Ids
        BY <1>1, <2>0, <2>3
      <4> HIDE DEF i3
      <4>2. i3.wr_buff_q = p.wr_buff_q /\ i3.wanting = p.wanting
        BY <2>0, <3>4 DEF ClientType
      <4>3. QED
        BY <4>1, <4>2
    <3>6. c' = [i3 EXCEPT !.wr_buff_q = all]
      <4>1. c' = get_new_buffers(i3)
        BY <2>3
      <4> HIDE DEF i3
      <4>2. Pushed(i3.wr_buff_q, Batch(i3.wanting)) = all
        BY <1>3, <3>5
      <4>3. c' = [i3 EXCEPT !.wr_buff_q = Pushed(i3.wr_buff_q, Batch(i3.wanting))]
        BY <4>1 DEF get_new_buffers
      <4>4. QED
        BY <4>2, <4>3
    <3>7. c' = [p EXCEPT !.mux = <<"device", "wr_data", "wr_buff">>, !.connected = TRUE, !.wr_buff_q = all]
      <4> HIDE DEF i3, all
      <4>1. QED
        BY <2>0, <3>4, <3>6 DEF ClientType
    <3>8. QED
      BY <2>3, <3>7
  <2>4. CASE c.connected /\ c' = Removed(p, "device")
    <3>1. c' = [p EXCEPT !.mux = Without(c.mux)]
      BY <2>0, <2>4 DEF Removed, Without
    <3>2. c' = [p EXCEPT !.mux = Without(c.mux), !.connected = TRUE, !.wr_buff_q = c.wr_buff_q]
      BY <2>0, <2>4, <3>1 DEF ClientType
    <3>3. QED
      BY <2>4, <3>2
  <2>5. QED
    BY <2>1, <2>2, <2>3, <2>4 DEF client_on_new_channels, p
<1>5. PICK m \in {c.mux, Without(c.mux), <<"device", "wr_data", "wr_buff">>},
           t \in BOOLEAN, u \in {c.wr_buff_q, all} :
        /\ c' = [p EXCEPT !.mux = m, !.connected = t, !.wr_buff_q = u]
        /\ \/ ~c.connected /\ ~t /\ u = c.wr_buff_q /\ m \in {c.mux, Without(c.mux)}
           \/ ~c.connected /\ t /\ u = all /\ m = <<"device", "wr_data", "wr_buff">>
           \/ c.connected /\ t /\ u = c.wr_buff_q /\ m = Without(c.mux)
  BY <1>4
<1>6. /\ \/ ~t /\ m \in {<<"device">>, <<>>} /\ x = 0 /\ u = <<>> /\ c.wr_data_q = <<>> /\ c.wanting = Ids
         \/ t /\ m = <<"device", "wr_data", "wr_buff">> /\ x = 0 /\ u = Batch(c.wanting)
         \/ t /\ m = <<"wr_data", "wr_buff">> /\ x = 1 /\ u = Batch(c.wanting)
      /\ m \in Seq(Muxables)
  <2>1. Without(<<"device">>) = <<>> /\ Without(<<"device", "wr_data", "wr_buff">>) = <<"wr_data", "wr_buff">>
    BY Names, DeviceGone
  <2>2. \/ ~t /\ m \in {<<"device">>, <<>>} /\ x = 0 /\ u = <<>> /\ c.wr_data_q = <<>> /\ c.wanting = Ids
        \/ t /\ m = <<"device", "wr_data", "wr_buff">> /\ x = 0 /\ u = Batch(c.wanting)
        \/ t /\ m = <<"wr_data", "wr_buff">> /\ x = 1 /\ u = Batch(c.wanting)
    <3>1. CASE ~c.connected /\ ~t /\ u = c.wr_buff_q /\ m \in {c.mux, Without(c.mux)}
      BY <1>1, <1>2, <2>1, <3>1
    <3>2. CASE ~c.connected /\ t /\ u = all /\ m = <<"device", "wr_data", "wr_buff">>
      BY <1>1, <1>2, <3>2
    <3>3. CASE c.connected /\ t /\ u = c.wr_buff_q /\ m = Without(c.mux)
      BY <1>1, <1>2, <2>1, <3>3
    <3>4. QED
      BY <1>5, <3>1, <3>2, <3>3
  <2>3. m \in Seq(Muxables)
    <3>1. /\ <<"device">> \in Seq(Muxables) /\ <<>> \in Seq(Muxables)
          /\ <<"device", "wr_data", "wr_buff">> \in Seq(Muxables) /\ <<"wr_data", "wr_buff">> \in Seq(Muxables)
      BY Names, Vectors
    <3>2. QED
      BY <2>2, <3>1
  <2>4. QED
    BY <2>2, <2>3
<1>7. u \in Seq(Ids) /\ Len(u) + Len(c.sending) + Len(c.wr_data_q) <= Batching
  <2>1. CASE u = c.wr_buff_q
    BY <2>1, <1>0, ClientTypes DEF ClientInv
  <2>2. CASE ~c.connected /\ u = all
    <3>1. c.wr_data_q = <<>>
      BY <1>1, <2>2
    <3>2. Len(u) = Batching /\ Len(c.sending) = 0 /\ Len(c.wr_data_q) = 0 /\ u \in Seq(Ids)
      BY <1>3, <2>2, <3>1
    <3>3. QED
      BY <1>0, <3>2
  <2>3. QED
    BY <1>5, <2>1, <2>2
<1> HIDE DEF all
<1>8. /\ c' \in ClientType /\ c'.idx = x /\ c'.mux = m /\ c'.connected = t /\ c'.wr_buff_q = u
      /\ c'.exited = c.exited /\ c'.wanting = c.wanting /\ c'.filled = c.filled
      /\ c'.wr_buff_use = c.wr_buff_use /\ c'.wr_data_q = c.wr_data_q /\ c'.wr_data_use = c.wr_data_use
      /\ c'.wr_buff_acq_idx = c.wr_buff_acq_idx /\ c'.wr_out_index = c.wr_out_index
      /\ c'.wr_rel_index = c.wr_rel_index
      /\ c'.wr_sync_counter = c.wr_sync_counter /\ c'.seq = c.seq /\ c'.sending = c.sending
  <2>0. p \in ClientType /\ c' = [p EXCEPT !.mux = m, !.connected = t, !.wr_buff_q = u]
        /\ m \in Seq(Muxables) /\ u \in Seq(Ids)
    BY <1>2, <1>5, <1>6, <1>7
  <2>1. c' \in ClientType
    BY <2>0 DEF ClientType
  <2>2. /\ c'.idx = p.idx /\ c'.mux = m /\ c'.connected = t /\ c'.wr_buff_q = u
        /\ c'.exited = p.exited /\ c'.wanting = p.wanting /\ c'.filled = p.filled
        /\ c'.wr_buff_use = p.wr_buff_use /\ c'.wr_data_q = p.wr_data_q /\ c'.wr_data_use = p.wr_data_use
        /\ c'.wr_buff_acq_idx = p.wr_buff_acq_idx /\ c'.wr_out_index = p.wr_out_index
        /\ c'.wr_rel_index = p.wr_rel_index
        /\ c'.wr_sync_counter = p.wr_sync_counter /\ c'.seq = p.seq /\ c'.sending = p.sending
    BY <2>0 DEF ClientType
  <2>3. QED
    BY <2>1, <2>2, <1>2
<1> HIDE <1>5 DEF x
<1>9. ClientInv'
  <2>1. ClientTurn'
    <3>1. c'.sending = <<>> /\ c'.wanting = c.wanting /\ c'.wr_data_q = c.wr_data_q
      BY <1>8
    <3>2. CASE ~t /\ m \in {<<"device">>, <<>>} /\ x = 0 /\ u = <<>> /\ c.wr_data_q = <<>> /\ c.wanting = Ids
      BY <1>8, <3>1, <3>2 DEF ClientTurn
    <3>3. CASE t /\ m = <<"device", "wr_data", "wr_buff">> /\ x = 0 /\ u = Batch(c.wanting)
      BY <1>8, <3>1, <3>3 DEF ClientTurn
    <3>4. CASE t /\ m = <<"wr_data", "wr_buff">> /\ x = 1 /\ u = Batch(c.wanting)
      BY <1>8, <3>1, <3>4 DEF ClientTurn
    <3>5. QED
      BY <1>6, <3>2, <3>3, <3>4
  <2>2. QED
    BY <2>1, <1>0, <1>7, <1>8 DEF ClientInv
<1>10. Published(conf)' = Published(conf) /\ Given(conf)' = Given(conf)
  BY <1>8 DEF Published, Given
<1>11. ClientRing(conf)'
  BY <1>0, <1>8, <1>10 DEF ClientRing
<1>12. UNCHANGED <<head, stamp, s>>
  BY DEF client_on_new_channels
<1>13. PICK pub, given : pub = Published(conf) /\ given = Given(conf)
  OBVIOUS
<1>14. /\ Ring(conf, rel, pub, given)' /\ conf <= rel /\ Acquired(rel) <= pub /\ given <= conf + N
       /\ pub = Published(conf)' /\ given = Given(conf)'
  <2>1. /\ Ring(conf, rel, pub, given) /\ conf <= rel /\ Acquired(rel) <= pub /\ given <= conf + N
    BY <1>13 DEF IInv, Order
  <2>2. QED
    BY <2>1, <1>10, <1>12, <1>13, SameRing
<1> HIDE <1>13
<1>15. QED
  BY <1>9, <1>11, <1>12, <1>14, ClientStep

-----------------------------------------------------------------------------
(***************************************************************************)
(* The theorems                                                            *)
(***************************************************************************)
\* A step of neither program keeps the invariant.
LEMMA Stutter ==
    ASSUME Inv, UNCHANGED vars
    PROVE  Inv'
<1>1. PICK conf \in Nat, rel \in Nat : IInv(conf, rel)
  BY DEF Inv
<1>2. c' = c /\ s' = s /\ head' = head /\ stamp' = stamp
  BY DEF vars
<1>3. ServerInv' /\ ServerRing(rel)'
  BY <1>1, <1>2 DEF IInv, ServerInv, ServerTurn, ServerRing, Taken, Acquired
<1>4. PICK pub, given : pub = Published(conf) /\ given = Given(conf)
  OBVIOUS
<1>5. Ring(conf, rel, pub, given)'
  BY <1>1, <1>2, <1>4, SameRing DEF IInv
<1>6. conf <= rel /\ Acquired(rel)' <= Published(conf)
  BY <1>1, <1>2 DEF IInv, Order, Taken, Acquired
<1>7. QED
  BY <1>1, <1>2, <1>3, <1>4, <1>5, <1>6, ServerStep

\* So does a step of either.
LEMMA Stepwise ==
    ASSUME Inv, Batching <= N, [Next]_vars
    PROVE  Inv'
<1>1. PICK conf \in Nat, rel \in Nat : IInv(conf, rel)
  BY DEF Inv
<1>2. CASE client_select
  <2>1. c.sending = <<>>
    BY <1>2 DEF client_select
  <2>2. CASE on_new_wr_buffs
    BY <1>1, <2>1, <2>2, WrBuffs
  <2>3. CASE on_new_wr_datas
    BY <1>1, <2>1, <2>3, WrDatas
  <2>4. CASE client_on_new_channels
    BY <1>1, <2>1, <2>4, ClientChannels
  <2>5. QED
    BY <1>2, <2>2, <2>3, <2>4 DEF client_select
<1>3. CASE publish
  BY <1>1, <1>3, Publish
<1>4. CASE server_select
  <2>1. s.releasing = <<>>
    BY <1>4 DEF server_select
  <2>2. CASE on_new_rd_buffs
    BY <1>1, <2>1, <2>2, RdBuffs
  <2>3. CASE on_new_rd_datas
    BY <1>1, <2>1, <2>3, RdDatas
  <2>4. CASE server_on_new_channels
    BY <1>1, <2>1, <2>4, ServerChannels
  <2>5. QED
    BY <1>4, <2>2, <2>3, <2>4 DEF server_select
<1>5. CASE release
  BY <1>1, <1>5, Release
<1>6. CASE UNCHANGED vars
  BY <1>6, Stutter
<1>7. QED
  BY <1>2, <1>3, <1>4, <1>5, <1>6 DEF Next, Client, Server

\* The inductive invariant.
THEOREM Invariant ==
    ASSUME Batching <= N
    PROVE  Spec => []Inv
<1>1. Inv /\ [Next]_vars => Inv'
  BY Stepwise
<1> QED
  BY <1>1, InitInv, PTL DEF Spec

\* Every variable keeps its type, no queue exceeds the ring, and the indices of the
\* multiplexers stay within reach of their vectors.
THEOREM TypeCorrect ==
    ASSUME Batching <= N
    PROVE  Spec => []TypeOK
<1>1. Inv => TypeOK
  BY InvImplies
<1> QED
  BY <1>1, Invariant, PTL

\* With a client batching of at most the number of slots, whatever the server's,
\* the server never counts a message as lost and never meets a slot that is out of
\* step with it, and the client never ends at a buffer that is not the next one
\* (camio_perf's client and server).
THEOREM NothingIsLost ==
    ASSUME Batching <= N
    PROVE  Spec => []NothingLost
<1>1. Inv => NothingLost
  BY InvImplies
<1> QED
  BY <1>1, Invariant, PTL
=============================================================================
