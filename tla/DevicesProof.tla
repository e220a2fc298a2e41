---------------------------- MODULE DevicesProof ----------------------------
(***************************************************************************)
(* What is proved of Devices, for every set of devices, every number of    *)
(* descriptors and connections, and every order of the calls.              *)
(*                                                                         *)
(* Own says of one device d, with o the descriptors of everybody else,     *)
(* that every open descriptor is d's, one channel's, one of o, or one of   *)
(* the process's own; Good says it of a device in the middle of a call,    *)
(* with what each driver makes of its private structure (Shape) and what   *)
(* the server counts (Counted).  Every function of the drivers keeps it,   *)
(* and leaves o alone.  Orderly puts the devices together: what one device *)
(* may touch is disjoint from what the others have, so that a step of one  *)
(* keeps Own for all.  A udp device that fails half-way is where it stops  *)
(* being true, as Devices says: only the types are kept from there on.     *)
(***************************************************************************)
EXTENDS Devices, SequenceTheorems, TLAPS

(***************************************************************************)
(* Types.                                                                  *)
(***************************************************************************)
Tcp == {"server", "client"}

Roles    == {"socket", "listening", "connection", "rd", "wr", "file"}
Entries  == {Free} \cup [owner : Kinds, n : 0..MaxConns, role : Roles]
                   \cup {Std[f] : f \in 0..2}
Numbers  == {NO_FD} \cup Fds
Privs    == [alive : BOOLEAN, fd : Numbers, con_fd_tmp : Numbers,
             rd_fd : Numbers, wr_fd : Numbers,
             connected : BOOLEAN, rd_only : BOOLEAN, wr_only : BOOLEAN]
\* These close one descriptor when they destroy a channel, so that it may have
\* no other.
Paired(d, rd, wr) == d \in Tcp \cup {"mfio"} => wr = rd
Channels == {c \in [dev : Kinds \ {"ttt"}, rd_fd : Numbers, wr_fd : Numbers, is : SUBSET Entries] :
               Paired(c.dev, c.rd_fd, c.wr_fd)}
Served   == Seq(Int)
States   == [d : Kinds, table : [Fds -> Entries], p : Privs, chans : Seq(Channels),
             accepted : 0..MaxConns, served : Served, half_failed : BOOLEAN]

\* Which pairs of descriptors are allowed.
LEMMA PairedIs ==
    /\ \A d, fd : Paired(d, fd, fd)
    /\ \A d, rd, wr : d \in {"udp", "fio", "stdio"} => Paired(d, rd, wr)
BY DEF Paired, Tcp

\* The descriptors and their numbers.
LEMMA FdsAre ==
    /\ MaxFd \in Nat /\ MaxConns \in Nat /\ Fds = 0..MaxFd /\ 0..2 \subseteq Fds
    /\ NO_FD = -1 /\ NO_FD \notin Fds /\ NO_FD \in Numbers
    /\ \A f \in Fds : f \in Int /\ f > -1 /\ ~(f < 0) /\ f # NO_FD
    /\ \A f \in Numbers : f \in Int /\ (f \in Fds <=> f # NO_FD) /\ (f > -1 <=> f # NO_FD)
    /\ "process" \notin Kinds /\ "none" \notin Kinds
BY DevicesAssumption DEF Fds, NO_FD, Numbers

\* What a descriptor can be open on.
LEMMA EntryIs ==
    ASSUME NEW e \in Entries
    PROVE  /\ e = Free \/ e.owner \in Kinds \/ e.owner = "process"
           /\ e.owner \in Kinds \cup {"process"} => e # Free
           /\ e # Free => e.owner \in Kinds \cup {"process"}
           /\ e.n \in Int
<1>1. Free.owner = "none" /\ Free.n = 0
  BY DEF Free, Open
<1>2. \A f \in 0..2 : Std[f].owner = "process" /\ Std[f].n = f
  BY DEF Std, Open
<1>3. CASE e = Free
  BY <1>1, <1>3, FdsAre
<1>4. CASE e \in [owner : Kinds, n : 0..MaxConns, role : Roles]
  BY <1>1, <1>4, FdsAre
<1>5. CASE \E f \in 0..2 : e = Std[f]
  BY <1>1, <1>2, <1>5, FdsAre
<1> QED
  BY <1>3, <1>4, <1>5 DEF Entries

\* What a device opens is an entry of its own (Opened).
LEMMA OpenIs ==
    ASSUME NEW d \in Kinds, NEW role \in Roles, NEW n \in 0..MaxConns
    PROVE  /\ Open(d, role, n) \in Entries /\ Open(d, role, n) # Free
           /\ Open(d, role, n).owner = d /\ Open(d, role, n).n = n
           /\ Open(d, role, n).role = role
<1>1. Open(d, role, n).owner = d /\ Open(d, role, n).n = n /\ Open(d, role, n).role = role
  BY DEF Open
<1>2. Open(d, role, n) \in Entries
  BY DEF Open, Entries
<1> QED
  BY <1>1, <1>2, EntryIs

\* A state is the record of its fields.
State(d, tab, p, chs, acc, srv, half) ==
    [d |-> d, table |-> tab, p |-> p, chans |-> chs, accepted |-> acc,
     served |-> srv, half_failed |-> half]

\* The fields of a state, and their types.
LEMMA StateIs ==
    ASSUME NEW s \in States
    PROVE  /\ s = State(s.d, s.table, s.p, s.chans, s.accepted, s.served, s.half_failed)
           /\ s.d \in Kinds /\ s.table \in [Fds -> Entries] /\ s.p \in Privs
           /\ s.chans \in Seq(Channels) /\ s.accepted \in 0..MaxConns
           /\ s.served \in Served /\ s.half_failed \in BOOLEAN
BY DEF States, State

\* A record with fields of these types is a state.
LEMMA IsState ==
    ASSUME NEW d \in Kinds, NEW tab \in [Fds -> Entries], NEW p \in Privs,
           NEW chs \in Seq(Channels), NEW acc \in 0..MaxConns, NEW srv \in Served,
           NEW half \in BOOLEAN, NEW s, s = State(d, tab, p, chs, acc, srv, half)
    PROVE  /\ s \in States /\ s.d = d /\ s.table = tab /\ s.p = p /\ s.chans = chs
           /\ s.accepted = acc /\ s.served = srv /\ s.half_failed = half
BY DEF States, State

Priv(alive, fd, con, rd, wr, connected, rd_only, wr_only) ==
    [alive |-> alive, fd |-> fd, con_fd_tmp |-> con, rd_fd |-> rd, wr_fd |-> wr,
     connected |-> connected, rd_only |-> rd_only, wr_only |-> wr_only]

\* The fields of a private structure, and their types.
LEMMA PrivIs ==
    ASSUME NEW p \in Privs
    PROVE  /\ p = Priv(p.alive, p.fd, p.con_fd_tmp, p.rd_fd, p.wr_fd, p.connected,
                       p.rd_only, p.wr_only)
           /\ p.alive \in BOOLEAN /\ p.connected \in BOOLEAN
           /\ p.rd_only \in BOOLEAN /\ p.wr_only \in BOOLEAN
           /\ p.fd \in Numbers /\ p.con_fd_tmp \in Numbers
           /\ p.rd_fd \in Numbers /\ p.wr_fd \in Numbers
BY DEF Privs, Priv

\* The changes that the code makes to a state, by field.
LEMMA Changed ==
    ASSUME NEW s \in States
    PROVE  /\ \A f, x : [s EXCEPT !.table[f] = x] =
                State(s.d, [s.table EXCEPT ![f] = x], s.p, s.chans, s.accepted, s.served,
                      s.half_failed)
           /\ \A x : [s EXCEPT !.p.fd = x] =
                State(s.d, s.table, [s.p EXCEPT !.fd = x], s.chans, s.accepted, s.served,
                      s.half_failed)
           /\ \A x : [s EXCEPT !.p.con_fd_tmp = x] =
                State(s.d, s.table, [s.p EXCEPT !.con_fd_tmp = x], s.chans, s.accepted,
                      s.served, s.half_failed)
           /\ \A x, y : [s EXCEPT !.p.con_fd_tmp = x, !.accepted = y] =
                State(s.d, s.table, [s.p EXCEPT !.con_fd_tmp = x], s.chans, y,
                      s.served, s.half_failed)
           /\ \A x, y : [s EXCEPT !.p.con_fd_tmp = x, !.p.connected = y] =
                State(s.d, s.table, [s.p EXCEPT !.con_fd_tmp = x, !.connected = y], s.chans,
                      s.accepted, s.served, s.half_failed)
           /\ \A x : [s EXCEPT !.p.connected = x] =
                State(s.d, s.table, [s.p EXCEPT !.connected = x], s.chans,
                      s.accepted, s.served, s.half_failed)
           /\ \A x : [s EXCEPT !.p.rd_fd = x] =
                State(s.d, s.table, [s.p EXCEPT !.rd_fd = x], s.chans,
                      s.accepted, s.served, s.half_failed)
           /\ \A x : [s EXCEPT !.p.wr_fd = x] =
                State(s.d, s.table, [s.p EXCEPT !.wr_fd = x], s.chans,
                      s.accepted, s.served, s.half_failed)
           /\ \A x, y : [s EXCEPT !.p.rd_fd = x, !.half_failed = y] =
                State(s.d, s.table, [s.p EXCEPT !.rd_fd = x], s.chans,
                      s.accepted, s.served, y)
           /\ \A x, y : [s EXCEPT !.p.rd_fd = x, !.p.wr_fd = y] =
                State(s.d, s.table, [s.p EXCEPT !.rd_fd = x, !.wr_fd = y], s.chans,
                      s.accepted, s.served, s.half_failed)
           /\ \A x : [s EXCEPT !.half_failed = x] =
                State(s.d, s.table, s.p, s.chans, s.accepted, s.served, x)
           /\ \A x, y : [s EXCEPT !.chans = x, !.served = y] =
                State(s.d, s.table, s.p, x, s.accepted, y, s.half_failed)
           /\ \A x : [s EXCEPT !.chans = x] =
                State(s.d, s.table, s.p, x, s.accepted, s.served, s.half_failed)
           /\ \A x : [s EXCEPT !.p = x] =
                State(s.d, s.table, x, s.chans, s.accepted, s.served, s.half_failed)
           /\ \A x : [s EXCEPT !.table = x] =
                State(s.d, x, s.p, s.chans, s.accepted, s.served, s.half_failed)
<1>1. PICK d, tab, p, chs, acc, srv, half : s = State(d, tab, p, chs, acc, srv, half)
  BY StateIs
<1>2. /\ s.d = d /\ s.table = tab /\ s.p = p /\ s.chans = chs
      /\ s.accepted = acc /\ s.served = srv /\ s.half_failed = half
  BY <1>1 DEF State
<1>3. ASSUME NEW f, NEW x
      PROVE  [s EXCEPT !.table[f] = x] =
             State(s.d, [s.table EXCEPT ![f] = x], s.p, s.chans, s.accepted, s.served,
             s.half_failed)
  BY <1>1, <1>2 DEF State
<1>4. ASSUME NEW x
      PROVE  [s EXCEPT !.p.fd = x] =
             State(s.d, s.table, [s.p EXCEPT !.fd = x], s.chans, s.accepted, s.served,
             s.half_failed)
  BY <1>1, <1>2 DEF State
<1>5. ASSUME NEW x
      PROVE  [s EXCEPT !.p.con_fd_tmp = x] =
             State(s.d, s.table, [s.p EXCEPT !.con_fd_tmp = x], s.chans, s.accepted,
             s.served, s.half_failed)
  BY <1>1, <1>2 DEF State
<1>6. ASSUME NEW x, NEW y
      PROVE  [s EXCEPT !.p.con_fd_tmp = x, !.accepted = y] =
             State(s.d, s.table, [s.p EXCEPT !.con_fd_tmp = x], s.chans, y,
             s.served, s.half_failed)
  <2>1. PICK t : t = [s EXCEPT !.p.con_fd_tmp = x]
    OBVIOUS
  <2>2. [s EXCEPT !.p.con_fd_tmp = x, !.accepted = y] = [t EXCEPT !.accepted = y]
    BY <2>1
  <2>3. t = State(s.d, s.table, [s.p EXCEPT !.con_fd_tmp = x], s.chans, s.accepted,
                   s.served, s.half_failed)
    BY <1>1, <1>2, <2>1 DEF State
  <2> QED
    BY <1>1, <1>2, <2>2, <2>3 DEF State
<1>7. ASSUME NEW x, NEW y
      PROVE  [s EXCEPT !.p.con_fd_tmp = x, !.p.connected = y] =
             State(s.d, s.table, [s.p EXCEPT !.con_fd_tmp = x, !.connected = y], s.chans,
             s.accepted, s.served, s.half_failed)
  <2>1. PICK t : t = [s EXCEPT !.p.con_fd_tmp = x]
    OBVIOUS
  <2>2. [s EXCEPT !.p.con_fd_tmp = x, !.p.connected = y] = [t EXCEPT !.p.connected = y]
    BY <2>1
  <2>3. t = State(s.d, s.table, [s.p EXCEPT !.con_fd_tmp = x], s.chans, s.accepted,
                   s.served, s.half_failed)
    BY <1>1, <1>2, <2>1 DEF State
  <2> QED
    BY <1>1, <1>2, <2>2, <2>3 DEF State
<1>8. ASSUME NEW x
      PROVE  [s EXCEPT !.p.connected = x] =
             State(s.d, s.table, [s.p EXCEPT !.connected = x], s.chans,
             s.accepted, s.served, s.half_failed)
  BY <1>1, <1>2 DEF State
<1>9. ASSUME NEW x
      PROVE  [s EXCEPT !.p.rd_fd = x] =
             State(s.d, s.table, [s.p EXCEPT !.rd_fd = x], s.chans,
             s.accepted, s.served, s.half_failed)
  BY <1>1, <1>2 DEF State
<1>10. ASSUME NEW x
      PROVE  [s EXCEPT !.p.wr_fd = x] =
             State(s.d, s.table, [s.p EXCEPT !.wr_fd = x], s.chans,
             s.accepted, s.served, s.half_failed)
  BY <1>1, <1>2 DEF State
<1>11. ASSUME NEW x, NEW y
      PROVE  [s EXCEPT !.p.rd_fd = x, !.half_failed = y] =
             State(s.d, s.table, [s.p EXCEPT !.rd_fd = x], s.chans,
             s.accepted, s.served, y)
  <2>1. PICK t : t = [s EXCEPT !.p.rd_fd = x]
    OBVIOUS
  <2>2. [s EXCEPT !.p.rd_fd = x, !.half_failed = y] = [t EXCEPT !.half_failed = y]
    BY <2>1
  <2>3. t = State(s.d, s.table, [s.p EXCEPT !.rd_fd = x], s.chans, s.accepted, s.served,
                  s.half_failed)
    BY <1>1, <1>2, <2>1 DEF State
  <2> QED
    BY <1>1, <1>2, <2>2, <2>3 DEF State
<1>12. ASSUME NEW x, NEW y
      PROVE  [s EXCEPT !.p.rd_fd = x, !.p.wr_fd = y] =
             State(s.d, s.table, [s.p EXCEPT !.rd_fd = x, !.wr_fd = y], s.chans,
             s.accepted, s.served, s.half_failed)
  <2>1. PICK t : t = [s EXCEPT !.p.rd_fd = x]
    OBVIOUS
  <2>2. [s EXCEPT !.p.rd_fd = x, !.p.wr_fd = y] = [t EXCEPT !.p.wr_fd = y]
    BY <2>1
  <2>3. t = State(s.d, s.table, [s.p EXCEPT !.rd_fd = x], s.chans, s.accepted, s.served,
                  s.half_failed)
    BY <1>1, <1>2, <2>1 DEF State
  <2> QED
    BY <1>1, <1>2, <2>2, <2>3 DEF State
<1>13. ASSUME NEW x
      PROVE  [s EXCEPT !.half_failed = x] =
             State(s.d, s.table, s.p, s.chans, s.accepted, s.served, x)
  BY <1>1, <1>2 DEF State
<1>14. ASSUME NEW x, NEW y
      PROVE  [s EXCEPT !.chans = x, !.served = y] =
             State(s.d, s.table, s.p, x, s.accepted, y, s.half_failed)
  <2>1. PICK t : t = [s EXCEPT !.chans = x]
    OBVIOUS
  <2>2. [s EXCEPT !.chans = x, !.served = y] = [t EXCEPT !.served = y]
    BY <2>1
  <2>3. t = State(s.d, s.table, s.p, x, s.accepted, s.served, s.half_failed)
    BY <1>1, <1>2, <2>1 DEF State
  <2> QED
    BY <1>1, <1>2, <2>2, <2>3 DEF State
<1>15. ASSUME NEW x
      PROVE  [s EXCEPT !.chans = x] =
             State(s.d, s.table, s.p, x, s.accepted, s.served, s.half_failed)
  BY <1>1, <1>2 DEF State
<1>16. ASSUME NEW x
      PROVE  [s EXCEPT !.p = x] =
             State(s.d, s.table, x, s.chans, s.accepted, s.served, s.half_failed)
  BY <1>1, <1>2 DEF State
<1>17. ASSUME NEW x
      PROVE  [s EXCEPT !.table = x] =
             State(s.d, x, s.p, s.chans, s.accepted, s.served, s.half_failed)
  BY <1>1, <1>2 DEF State
<1> QED
  BY <1>3, <1>4, <1>5, <1>6, <1>7, <1>8, <1>9, <1>10, <1>11, <1>12, <1>13,
     <1>14, <1>15, <1>16, <1>17

(***************************************************************************)
(* Who has which descriptor.                                               *)
(***************************************************************************)
\* What device d with private structure p is going to hand over or to close.
Mine(d, p) ==
    IF ~p.alive \/ p.connected THEN {}
    ELSE IF d \in Tcp THEN {p.fd, p.con_fd_tmp} \ {NO_FD}
    ELSE {p.rd_fd, p.wr_fd} \ {NO_FD}

HeldBy(c) == ToFd({c.rd_fd, c.wr_fd})

\* With o the descriptors of everybody else, every descriptor is one of d's, one
\* of a channel's, one of o, or nobody's.
Own(o, d, tab, p, chs) ==
    /\ o \subseteq Fds /\ Mine(d, p) \subseteq Fds
    /\ \A f \in o : tab[f] # Free
    /\ \A i \in 1..Len(chs) :
         /\ chs[i].is = {tab[f] : f \in HeldBy(chs[i])} /\ Free \notin chs[i].is
         /\ HeldBy(chs[i]) \cap (o \cup Mine(d, p)) = {}
    /\ \A i, j \in 1..Len(chs) : i # j => HeldBy(chs[i]) \cap HeldBy(chs[j]) = {}
    /\ Mine(d, p) \cap o = {}
    /\ \A f \in Mine(d, p) : tab[f].owner \in {d, "process"}
    /\ \A f \in Fds : tab[f].owner \in Kinds =>
         \/ f \in o \cup Mine(d, p)
         \/ \E i \in 1..Len(chs) : f \in HeldBy(chs[i])

\* One descriptor of the table changes, or one channel is added.
SetAt(new, tab, f, e) == new = [tab EXCEPT ![f] = e]
Longer(new, chs, c)   == new = Append(chs, c)
Backed(c, tab)        == c.is = {tab[f] : f \in HeldBy(c)}

\* The descriptors of S are closed.
Freed(new, tab, S) == \A f \in Fds : new[f] = IF f \in S THEN Free ELSE tab[f]

\* Some of what a device has is closed, and the rest is lost.
Split(S, closed, lost) == S = closed \cup lost /\ closed \cap lost = {}

\* A private structure with the same descriptors.
LEMMA OwnSame ==
    ASSUME NEW o, NEW d, NEW tab, NEW p, NEW q, NEW chs,
           Own(o, d, tab, p, chs), Mine(d, q) = Mine(d, p)
    PROVE  Own(o, d, tab, q, chs)
BY DEF Own

\* A free descriptor is nobody's.
LEMMA FreeIs ==
    ASSUME NEW o, NEW d \in Kinds, NEW tab \in [Fds -> Entries], NEW p, NEW chs,
           Own(o, d, tab, p, chs), NEW f \in Fds, tab[f] = Free
    PROVE  /\ f \notin o /\ f \notin Mine(d, p)
           /\ \A i \in 1..Len(chs) : f \notin HeldBy(chs[i])
<1>1. f \notin o
  BY DEF Own
<1>2. f \notin Mine(d, p)
  BY FdsAre DEF Own, Free, Open
<1>3. ASSUME NEW i \in 1..Len(chs), f \in HeldBy(chs[i]) PROVE FALSE
  <2>1. chs[i].is = {tab[g] : g \in HeldBy(chs[i])} /\ Free \notin chs[i].is
    BY DEF Own
  <2> QED
    BY <1>3, <2>1
<1> QED
  BY <1>1, <1>2, <1>3

\* A device opens a free descriptor, and it is its own.
LEMMA OwnOpen ==
    ASSUME NEW o, NEW d \in Kinds, NEW tab \in [Fds -> Entries], NEW p, NEW q, NEW chs,
           Own(o, d, tab, p, chs), NEW f \in Fds, tab[f] = Free,
           NEW e \in Entries, e.owner = d, Mine(d, q) = Mine(d, p) \cup {f},
           NEW new, SetAt(new, tab, f, e)
    PROVE  Own(o, d, new, q, chs) /\ \A g \in o : new[g] = tab[g]
<1>1. /\ f \notin o /\ f \notin Mine(d, p)
      /\ \A i \in 1..Len(chs) : f \notin HeldBy(chs[i])
  BY FreeIs
<1>2. new[f] = e /\ \A g \in Fds : g # f => new[g] = tab[g]
  BY DEF SetAt
<1>3. e # Free
  BY EntryIs
<1>4. o \subseteq Fds /\ Mine(d, p) \subseteq Fds
  BY DEF Own
<1>5. ASSUME NEW i \in 1..Len(chs)
      PROVE  /\ chs[i].is = {new[g] : g \in HeldBy(chs[i])} /\ Free \notin chs[i].is
             /\ HeldBy(chs[i]) \cap (o \cup Mine(d, q)) = {}
  <2>1. /\ chs[i].is = {tab[g] : g \in HeldBy(chs[i])} /\ Free \notin chs[i].is
        /\ HeldBy(chs[i]) \cap (o \cup Mine(d, p)) = {}
    BY DEF Own
  <2>2. \A g \in HeldBy(chs[i]) : new[g] = tab[g]
    BY <1>1, <1>2 DEF HeldBy, ToFd
  <2>3. {new[g] : g \in HeldBy(chs[i])} = {tab[g] : g \in HeldBy(chs[i])}
    BY <2>2
  <2> QED
    BY <1>1, <2>1, <2>3
<1>6. \A g \in Mine(d, q) : new[g].owner \in {d, "process"}
  BY <1>1, <1>2, <1>4 DEF Own
<1>7. ASSUME NEW g \in Fds, new[g].owner \in Kinds
      PROVE  \/ g \in o \cup Mine(d, q)
             \/ \E i \in 1..Len(chs) : g \in HeldBy(chs[i])
  BY <1>2, <1>7 DEF Own
<1>8. o \subseteq Fds /\ Mine(d, q) \subseteq Fds /\ \A g \in o : new[g] = tab[g]
  BY <1>1, <1>2, <1>4
<1>9. (\A g \in o : new[g] # Free) /\ Mine(d, q) \cap o = {}
  BY <1>1, <1>8 DEF Own
<1>10. \A i, j \in 1..Len(chs) : i # j => HeldBy(chs[i]) \cap HeldBy(chs[j]) = {}
  BY DEF Own
<1> QED
  BY <1>5, <1>6, <1>7, <1>8, <1>9, <1>10 DEF Own

\* A device changes what one of its descriptors is for (tcp_listen).
LEMMA OwnRole ==
    ASSUME NEW o, NEW d \in Kinds, NEW tab \in [Fds -> Entries], NEW p, NEW chs,
           Own(o, d, tab, p, chs), NEW f \in Mine(d, p),
           NEW e \in Entries, e.owner = tab[f].owner, NEW new, SetAt(new, tab, f, e)
    PROVE  Own(o, d, new, p, chs) /\ \A g \in o : new[g] = tab[g]
<1>1. o \subseteq Fds /\ Mine(d, p) \subseteq Fds /\ f \in Fds /\ f \notin o
  BY DEF Own
<1>2. new[f] = e /\ \A g \in Fds : g # f => new[g] = tab[g]
  BY <1>1 DEF SetAt
<1>3. \A g \in Fds : new[g].owner = tab[g].owner
  BY <1>2
<1>4. ASSUME NEW i \in 1..Len(chs)
      PROVE  chs[i].is = {new[g] : g \in HeldBy(chs[i])}
  <2>1. /\ chs[i].is = {tab[g] : g \in HeldBy(chs[i])}
        /\ HeldBy(chs[i]) \cap (o \cup Mine(d, p)) = {}
    BY DEF Own
  <2>2. \A g \in HeldBy(chs[i]) : new[g] = tab[g]
    BY <1>2, <2>1 DEF HeldBy, ToFd
  <2> QED
    BY <2>1, <2>2
<1>5. \A g \in o : new[g] = tab[g]
  BY <1>1, <1>2
<1> QED
  BY <1>1, <1>3, <1>4, <1>5 DEF Own

\* What a device hands to a new channel.
LEMMA OwnHand ==
    ASSUME NEW o, NEW d \in Kinds, NEW tab \in [Fds -> Entries], NEW p, NEW q,
           NEW chs \in Seq(Channels), Own(o, d, tab, p, chs),
           NEW c \in Channels, HeldBy(c) \subseteq Mine(d, p),
           Backed(c, tab), Mine(d, q) = Mine(d, p) \ HeldBy(c),
           NEW new, Longer(new, chs, c)
    PROVE  Own(o, d, tab, q, new)
<1>0. PICK n \in Nat : n = Len(chs)
  BY LenProperties
<1>1. new = Append(chs, c) /\ n = Len(chs)
  BY <1>0 DEF Longer
<1>2. Len(new) = n + 1 /\ new[n + 1] = c /\ \A i \in 1..n : new[i] = chs[i]
  BY <1>1
<1>3. \A i \in 1..Len(new) : i \in 1..n \/ i = n + 1
  BY <1>2
<1>4. \A f \in Mine(d, p) : tab[f] # Free
  <2> TAKE f \in Mine(d, p)
  <2>1. f \in Fds /\ tab[f].owner \in {d, "process"}
    BY DEF Own
  <2> QED
    BY <2>1, EntryIs
<1>5. ASSUME NEW i \in 1..Len(new)
      PROVE  /\ new[i].is = {tab[f] : f \in HeldBy(new[i])} /\ Free \notin new[i].is
             /\ HeldBy(new[i]) \cap (o \cup Mine(d, q)) = {}
  <2>1. CASE i \in 1..n
    BY <1>1, <1>2, <2>1 DEF Own
  <2>2. CASE i = n + 1
    <3>1. new[i] = c
      BY <1>2, <2>2
    <3>2. Free \notin c.is
      BY <1>4 DEF Backed
    <3>3. HeldBy(c) \cap (o \cup Mine(d, q)) = {}
      BY DEF Own
    <3> QED
      BY <3>1, <3>2, <3>3 DEF Backed
  <2> QED
    BY <1>3, <2>1, <2>2
<1>6. ASSUME NEW i \in 1..Len(new), NEW j \in 1..Len(new), i # j
      PROVE  HeldBy(new[i]) \cap HeldBy(new[j]) = {}
  <2>1. \A k \in 1..n : HeldBy(new[k]) \cap HeldBy(c) = {}
    BY <1>1, <1>2 DEF Own
  <2>2. CASE i \in 1..n /\ j \in 1..n
    BY <1>1, <1>2, <1>6, <2>2 DEF Own
  <2>3. CASE i = n + 1 \/ j = n + 1
    BY <1>2, <1>3, <1>6, <2>1, <2>3
  <2> QED
    BY <1>3, <2>2, <2>3
<1>7. ASSUME NEW f \in Fds, tab[f].owner \in Kinds
      PROVE  \/ f \in o \cup Mine(d, q)
             \/ \E i \in 1..Len(new) : f \in HeldBy(new[i])
  <2>1. CASE f \in HeldBy(c)
    <3>1. n + 1 \in 1..Len(new)
      BY <1>2
    <3> QED
      BY <1>2, <2>1, <3>1
  <2>2. CASE f \notin HeldBy(c)
    <3>1. \/ f \in o \cup Mine(d, p)
          \/ \E i \in 1..n : f \in HeldBy(chs[i])
      BY <1>1, <1>7 DEF Own
    <3>2. \A i \in 1..n : i \in 1..Len(new)
      BY <1>2
    <3> QED
      BY <1>2, <2>2, <3>1, <3>2
  <2> QED
    BY <2>1, <2>2
<1> QED
  BY <1>1, <1>5, <1>6, <1>7 DEF Own

\* The channels after one of them is destroyed.
LEMMA RemoveAtIs ==
    ASSUME NEW S, NEW s \in Seq(S), NEW i \in 1..Len(s)
    PROVE  /\ RemoveAt(s, i) \in Seq(S) /\ Len(RemoveAt(s, i)) = Len(s) - 1
           /\ \A k \in 1..Len(s) - 1 :
                RemoveAt(s, i)[k] = s[IF k < i THEN k ELSE k + 1]
<1>1. PICK n \in Nat : n = Len(s) /\ i \in 1..n
  OBVIOUS
<1>2. PICK a : a = SubSeq(s, 1, i - 1)
  OBVIOUS
<1>3. PICK b : b = SubSeq(s, i + 1, n)
  OBVIOUS
<1>4. RemoveAt(s, i) = a \o b
  BY <1>1, <1>2, <1>3 DEF RemoveAt
<1>5. a \in Seq(S) /\ Len(a) = i - 1 /\ \A k \in 1..i - 1 : a[k] = s[k]
  <2>1. \A k \in 1..i - 1 : s[k] \in S
    BY <1>1, ElementOfSeq
  <2> QED
    BY <1>1, <1>2, <2>1
<1>6. b \in Seq(S) /\ Len(b) = n - i /\ \A k \in 1..n - i : b[k] = s[i + k]
  <2>1. \A k \in i + 1..n : s[k] \in S
    BY <1>1, ElementOfSeq
  <2>2. /\ SubSeq(s, i + 1, n) \in Seq(S)
        /\ Len(SubSeq(s, i + 1, n)) = IF i + 1 <= n THEN n - (i + 1) + 1 ELSE 0
        /\ \A k \in 1..n - (i + 1) + 1 : SubSeq(s, i + 1, n)[k] = s[i + 1 + k - 1]
    BY <1>1, <2>1, SubSeqProperties
  <2>3. (IF i + 1 <= n THEN n - (i + 1) + 1 ELSE 0) = n - i /\ n - (i + 1) + 1 = n - i
    BY <1>1
  <2>4. \A k \in 1..n - i : i + 1 + k - 1 = i + k
    BY <1>1
  <2>5. Len(b) = n - i /\ b \in Seq(S)
    BY <1>3, <2>2, <2>3
  <2>6. ASSUME NEW k \in 1..n - i PROVE b[k] = s[i + k]
    BY <1>3, <2>2, <2>3, <2>4
  <2> QED
    BY <2>5, <2>6
<1>7. /\ a \o b \in Seq(S) /\ Len(a \o b) = n - 1
      /\ \A k \in 1..n - 1 : (a \o b)[k] = IF k <= i - 1 THEN a[k] ELSE b[k - (i - 1)]
  <2>1. /\ a \o b \in Seq(S) /\ Len(a \o b) = Len(a) + Len(b)
        /\ \A k \in 1..Len(a) + Len(b) : (a \o b)[k] = IF k <= Len(a) THEN a[k] ELSE b[k - Len(a)]
    BY <1>5, <1>6, ConcatProperties
  <2>2. Len(a) + Len(b) = n - 1 /\ Len(a) = i - 1
    BY <1>1, <1>5, <1>6
  <2> QED
    BY <2>1, <2>2
<1>8. ASSUME NEW k \in 1..n - 1 PROVE (a \o b)[k] = s[IF k < i THEN k ELSE k + 1]
  <2>1. CASE k < i
    <3>1. k \in 1..i - 1 /\ k <= i - 1
      BY <1>1, <2>1
    <3> QED
      BY <1>5, <1>7, <2>1, <3>1
  <2>2. CASE ~(k < i)
    <3>1. k - (i - 1) \in 1..n - i /\ ~(k <= i - 1) /\ i + (k - (i - 1)) = k + 1
      BY <1>1, <2>2
    <3>2. b[k - (i - 1)] = s[k + 1]
      BY <1>6, <3>1
    <3> QED
      BY <1>7, <2>2, <3>1, <3>2
  <2> QED
    BY <2>1, <2>2
<1> QED
  BY <1>1, <1>4, <1>7, <1>8

\* A channel is destroyed and closes what it holds: nobody else had it.
LEMMA OwnClose ==
    ASSUME NEW o, NEW d \in Kinds, NEW tab \in [Fds -> Entries], NEW p,
           NEW chs \in Seq(Channels), Own(o, d, tab, p, chs),
           NEW i \in 1..Len(chs), NEW new, Freed(new, tab, HeldBy(chs[i]))
    PROVE  /\ Own(o, d, new, p, RemoveAt(chs, i)) /\ \A f \in o : new[f] = tab[f]
<1> USE DEF Freed
<1>1. PICK n \in Nat : n = Len(chs) /\ i \in 1..n
  OBVIOUS
<1>2. PICK r : r = RemoveAt(chs, i)
  OBVIOUS
<1> DEFINE At1(k) == IF k < i THEN k ELSE k + 1
<1>3. /\ Len(r) = n - 1 /\ \A k \in 1..n - 1 : r[k] = chs[At1(k)]
      /\ 1..Len(r) = 1..n - 1
  BY <1>1, <1>2, RemoveAtIs
<1>4. /\ \A k \in 1..n - 1 : At1(k) \in 1..n /\ At1(k) # i
      /\ \A k, l \in 1..n - 1 : k # l => At1(k) # At1(l)
      /\ \A j \in 1..n : j # i => \E k \in 1..n - 1 : At1(k) = j
  <2>1. \A k \in 1..n - 1 : At1(k) \in 1..n /\ At1(k) # i
    BY <1>1
  <2>2. \A k, l \in 1..n - 1 : k # l => At1(k) # At1(l)
    BY <1>1
  <2>3. ASSUME NEW j \in 1..n, j # i PROVE \E k \in 1..n - 1 : At1(k) = j
    <3>1. CASE j < i
      <4>1. j \in 1..n - 1 /\ At1(j) = j
        BY <1>1, <3>1
      <4> QED
        BY <4>1
    <3>2. CASE j > i
      <4>1. j - 1 \in 1..n - 1 /\ At1(j - 1) = j
        BY <1>1, <3>2
      <4> QED
        BY <4>1
    <3> QED
      BY <1>1, <2>3, <3>1, <3>2
  <2> QED
    BY <2>1, <2>2, <2>3
<1> HIDE DEF At1
<1>5. \A j \in 1..n : j # i => HeldBy(chs[j]) \cap HeldBy(chs[i]) = {}
  BY <1>1 DEF Own
<1>6. ASSUME NEW j \in 1..n, j # i
      PROVE  chs[j].is = {new[f] : f \in HeldBy(chs[j])}
  <2>1. chs[j].is = {tab[f] : f \in HeldBy(chs[j])}
    BY <1>1 DEF Own
  <2>2. \A f \in HeldBy(chs[j]) : new[f] = tab[f]
    BY <1>5, <1>6 DEF HeldBy, ToFd
  <2> QED
    BY <2>1, <2>2
<1>7. ASSUME NEW k \in 1..Len(r)
      PROVE  /\ r[k].is = {new[f] : f \in HeldBy(r[k])} /\ Free \notin r[k].is
             /\ HeldBy(r[k]) \cap (o \cup Mine(d, p)) = {}
  <2>1. PICK j \in 1..n : j # i /\ r[k] = chs[j]
    BY <1>3, <1>4
  <2>2. Free \notin chs[j].is /\ HeldBy(chs[j]) \cap (o \cup Mine(d, p)) = {}
    BY <1>1 DEF Own
  <2> QED
    BY <1>6, <2>1, <2>2
<1>8. ASSUME NEW k \in 1..Len(r), NEW l \in 1..Len(r), k # l
      PROVE  HeldBy(r[k]) \cap HeldBy(r[l]) = {}
  <2>1. /\ At1(k) \in 1..n /\ At1(l) \in 1..n /\ At1(k) # At1(l)
        /\ r[k] = chs[At1(k)] /\ r[l] = chs[At1(l)]
    BY <1>3, <1>4, <1>8
  <2> QED
    BY <1>1, <2>1 DEF Own
<1>9. \A f \in o \cup Mine(d, p) : new[f] = tab[f]
  BY <1>1 DEF Own
<1>10. ASSUME NEW f \in Fds, new[f].owner \in Kinds
       PROVE  \/ f \in o \cup Mine(d, p)
              \/ \E k \in 1..Len(r) : f \in HeldBy(r[k])
  <2>1. new[f] = tab[f] /\ f \notin HeldBy(chs[i])
    BY <1>10, FdsAre DEF Free, Open
  <2>2. CASE \E j \in 1..n : f \in HeldBy(chs[j])
    <3>1. PICK j \in 1..n : f \in HeldBy(chs[j])
      BY <2>2
    <3>2. j # i
      BY <2>1, <3>1
    <3>3. PICK k \in 1..n - 1 : At1(k) = j
      BY <1>4, <3>2
    <3> QED
      BY <1>3, <3>1, <3>3
  <2>3. CASE ~\E j \in 1..n : f \in HeldBy(chs[j])
    BY <1>1, <1>10, <2>1, <2>3 DEF Own
  <2> QED
    BY <2>2, <2>3
<1>11. o \subseteq Fds /\ Mine(d, p) \subseteq Fds /\ Mine(d, p) \cap o = {}
  BY DEF Own
<1>12. /\ \A f \in o : new[f] # Free
       /\ \A f \in Mine(d, p) : new[f].owner \in {d, "process"}
  BY <1>9 DEF Own
<1> QED
  BY <1>2, <1>7, <1>8, <1>9, <1>10, <1>11, <1>12 DEF Own

\* What a device leaves when it is destroyed: what it does not close is from now
\* on nobody's to use.
LEMMA OwnDestroy ==
    ASSUME NEW o, NEW d \in Kinds, NEW tab \in [Fds -> Entries], NEW p, NEW q, NEW chs,
           Own(o, d, tab, p, chs), NEW closed, NEW lost, Split(Mine(d, p), closed, lost),
           Mine(d, q) = {}, NEW new, Freed(new, tab, closed)
    PROVE  Own(o \cup lost, d, new, q, chs)
<1> USE DEF Freed, Split
<1>1. /\ o \subseteq Fds /\ Mine(d, p) \subseteq Fds /\ Mine(d, p) \cap o = {}
      /\ \A f \in Mine(d, p) : tab[f].owner \in {d, "process"}
      /\ \A f \in o : tab[f] # Free
  BY DEF Own
<1>2. \A f \in o \cup lost : f \in Fds /\ f \notin closed /\ new[f] = tab[f]
  BY <1>1
<1>3. ASSUME NEW f \in o \cup lost PROVE new[f] # Free
  BY <1>1, <1>2, EntryIs
<1>4. ASSUME NEW i \in 1..Len(chs)
      PROVE  /\ chs[i].is = {new[f] : f \in HeldBy(chs[i])} /\ Free \notin chs[i].is
             /\ HeldBy(chs[i]) \cap (o \cup Mine(d, p)) = {}
  <2>1. /\ chs[i].is = {tab[f] : f \in HeldBy(chs[i])} /\ Free \notin chs[i].is
        /\ HeldBy(chs[i]) \cap (o \cup Mine(d, p)) = {}
    BY DEF Own
  <2>2. \A f \in HeldBy(chs[i]) : new[f] = tab[f]
    BY <2>1 DEF HeldBy, ToFd
  <2> QED
    BY <2>1, <2>2
<1>5. ASSUME NEW f \in Fds, new[f].owner \in Kinds
      PROVE  f \in o \cup lost \/ \E i \in 1..Len(chs) : f \in HeldBy(chs[i])
  <2>1. new[f] = tab[f] /\ f \notin closed
    BY <1>5, FdsAre DEF Free, Open
  <2> QED
    BY <1>5, <2>1 DEF Own
<1>6. \A i, j \in 1..Len(chs) : i # j => HeldBy(chs[i]) \cap HeldBy(chs[j]) = {}
  BY DEF Own
<1> QED
  BY <1>1, <1>2, <1>3, <1>4, <1>5, <1>6 DEF Own

(***************************************************************************)
(* A device in the middle of a call.                                       *)
(***************************************************************************)
\* What each driver makes of its private structure, between calls.
Shape(d, p) ==
    /\ d = "server" => ~p.connected /\ (p.con_fd_tmp # NO_FD => p.con_fd_tmp # p.fd)
    /\ d = "client" => p.connected \/ p.con_fd_tmp = p.fd
    /\ d \in {"fio", "stdio"} /\ p.connected => Populated(p)
    /\ d = "mfio" => p.wr_fd = NO_FD /\ (p.connected => p.rd_fd > -1)

\* The server has handed out all connections but the one that it has ready.
Counted(d, tab, p, acc, srv) ==
    /\ \A k \in 1..Len(srv) : srv[k] = k
    /\ d = "server" /\ p.alive =>
         /\ acc - Len(srv) = IF p.con_fd_tmp # NO_FD THEN 1 ELSE 0
         /\ p.con_fd_tmp # NO_FD => tab[p.con_fd_tmp].n = acc

Fits(s) ==
    /\ s \in States /\ s.p.alive
    /\ s.d \notin Tcp \/ s.p.connected => s.p.con_fd_tmp = NO_FD

\* A call that began in z has come to s, and the descriptors o of everybody else
\* are as they were.
Near(o, z, s) ==
    /\ Fits(s) /\ s.d = z.d
    /\ ~s.half_failed =>
         /\ ~z.half_failed
         /\ Own(o, s.d, s.table, s.p, s.chans)
         /\ \A f \in o : s.table[f] = z.table[f]
         /\ Counted(s.d, s.table, s.p, s.accepted, s.served)
         /\ s.d # "server" => s.accepted = z.accepted /\ s.served = z.served

Good(o, z, s) == Near(o, z, s) /\ (~s.half_failed => Shape(s.d, s.p))

\* The two fields of an outcome.
LEMMA OutIs == \A err, s : Out(err, s).err = err /\ Out(err, s).s = s
BY DEF Out

\* The changes that the code makes to a private structure.
LEMMA PrivChanged ==
    ASSUME NEW p \in Privs
    PROVE  /\ \A x \in Numbers :
                /\ [p EXCEPT !.fd = x] =
                     Priv(p.alive, x, p.con_fd_tmp, p.rd_fd, p.wr_fd, p.connected,
                          p.rd_only, p.wr_only)
                /\ [p EXCEPT !.con_fd_tmp = x] =
                     Priv(p.alive, p.fd, x, p.rd_fd, p.wr_fd, p.connected,
                          p.rd_only, p.wr_only)
                /\ [p EXCEPT !.rd_fd = x] =
                     Priv(p.alive, p.fd, p.con_fd_tmp, x, p.wr_fd, p.connected,
                          p.rd_only, p.wr_only)
                /\ [p EXCEPT !.wr_fd = x] =
                     Priv(p.alive, p.fd, p.con_fd_tmp, p.rd_fd, x, p.connected,
                          p.rd_only, p.wr_only)
           /\ \A x, y \in Numbers :
                [p EXCEPT !.rd_fd = x, !.wr_fd = y] =
                  Priv(p.alive, p.fd, p.con_fd_tmp, x, y, p.connected, p.rd_only, p.wr_only)
           /\ \A x \in Numbers, y \in BOOLEAN :
                [p EXCEPT !.con_fd_tmp = x, !.connected = y] =
                  Priv(p.alive, p.fd, x, p.rd_fd, p.wr_fd, y, p.rd_only, p.wr_only)
           /\ \A y \in BOOLEAN :
                [p EXCEPT !.connected = y] =
                  Priv(p.alive, p.fd, p.con_fd_tmp, p.rd_fd, p.wr_fd, y, p.rd_only, p.wr_only)
<1>1. PICK a, b, c, d, e, f, g, h : p = Priv(a, b, c, d, e, f, g, h)
  BY PrivIs
<1>2. /\ p.alive = a /\ p.fd = b /\ p.con_fd_tmp = c /\ p.rd_fd = d /\ p.wr_fd = e
      /\ p.connected = f /\ p.rd_only = g /\ p.wr_only = h
  BY <1>1 DEF Priv
<1>3. ASSUME NEW x
      PROVE  [p EXCEPT !.fd = x] =
             Priv(p.alive, x, p.con_fd_tmp, p.rd_fd, p.wr_fd, p.connected, p.rd_only, p.wr_only)
  BY <1>1, <1>2 DEF Priv
<1>4. ASSUME NEW x
      PROVE  [p EXCEPT !.con_fd_tmp = x] =
             Priv(p.alive, p.fd, x, p.rd_fd, p.wr_fd, p.connected, p.rd_only, p.wr_only)
  BY <1>1, <1>2 DEF Priv
<1>5. ASSUME NEW x
      PROVE  [p EXCEPT !.rd_fd = x] =
             Priv(p.alive, p.fd, p.con_fd_tmp, x, p.wr_fd, p.connected, p.rd_only, p.wr_only)
  BY <1>1, <1>2 DEF Priv
<1>6. ASSUME NEW x
      PROVE  [p EXCEPT !.wr_fd = x] =
             Priv(p.alive, p.fd, p.con_fd_tmp, p.rd_fd, x, p.connected, p.rd_only, p.wr_only)
  BY <1>1, <1>2 DEF Priv
<1>7. ASSUME NEW x
      PROVE  [p EXCEPT !.connected = x] =
             Priv(p.alive, p.fd, p.con_fd_tmp, p.rd_fd, p.wr_fd, x, p.rd_only, p.wr_only)
  BY <1>1, <1>2 DEF Priv
<1>8. ASSUME NEW x, NEW y
      PROVE  [p EXCEPT !.rd_fd = x, !.wr_fd = y] =
             Priv(p.alive, p.fd, p.con_fd_tmp, x, y, p.connected, p.rd_only, p.wr_only)
  <2>1. PICK q : q = [p EXCEPT !.rd_fd = x]
    OBVIOUS
  <2>2. [p EXCEPT !.rd_fd = x, !.wr_fd = y] = [q EXCEPT !.wr_fd = y]
    BY <2>1
  <2>3. q = Priv(p.alive, p.fd, p.con_fd_tmp, x, p.wr_fd, p.connected, p.rd_only, p.wr_only)
    BY <1>1, <1>2, <2>1 DEF Priv
  <2> QED
    BY <1>1, <1>2, <2>2, <2>3 DEF Priv
<1>9. ASSUME NEW x, NEW y
      PROVE  [p EXCEPT !.con_fd_tmp = x, !.connected = y] =
             Priv(p.alive, p.fd, x, p.rd_fd, p.wr_fd, y, p.rd_only, p.wr_only)
  <2>1. PICK q : q = [p EXCEPT !.con_fd_tmp = x]
    OBVIOUS
  <2>2. [p EXCEPT !.con_fd_tmp = x, !.connected = y] = [q EXCEPT !.connected = y]
    BY <2>1
  <2>3. q = Priv(p.alive, p.fd, x, p.rd_fd, p.wr_fd, p.connected, p.rd_only, p.wr_only)
    BY <1>1, <1>2, <2>1 DEF Priv
  <2> QED
    BY <1>1, <1>2, <2>2, <2>3 DEF Priv
<1> QED
  BY <1>3, <1>4, <1>5, <1>6, <1>7, <1>8, <1>9

\* A state made of another one's fields.
LEMMA Made ==
    ASSUME NEW s \in States, NEW tab \in [Fds -> Entries], NEW p \in Privs,
           NEW chs \in Seq(Channels), NEW acc \in 0..MaxConns, NEW srv \in Served,
           NEW half \in BOOLEAN, NEW t, t = State(s.d, tab, p, chs, acc, srv, half)
    PROVE  /\ t \in States /\ t.d = s.d /\ t.table = tab /\ t.p = p /\ t.chans = chs
           /\ t.accepted = acc /\ t.served = srv /\ t.half_failed = half
<1>1. s.d \in Kinds
  BY StateIs
<1>2. PICK d \in Kinds : d = s.d
  BY <1>1
<1>3. t = State(d, tab, p, chs, acc, srv, half)
  BY <1>2
<1> QED
  BY <1>2, <1>3, IsState

\* What is opened is free, and closing it undoes it.
LEMMA OpenedIs ==
    ASSUME NEW s \in States, NEW role \in Roles, NEW n \in 0..MaxConns,
           NEW x \in Opened(s, role, n)
    PROVE  /\ x.fd \in Fds /\ s.table[x.fd] = Free
           /\ x.s = State(s.d, [s.table EXCEPT ![x.fd] = Open(s.d, role, n)], s.p, s.chans,
                          s.accepted, s.served, s.half_failed)
           /\ x.s \in States
           /\ Close(x.s, x.fd) = s
<1>1. PICK f \in Fds : /\ s.table[f] = Free
                       /\ x = [fd |-> f, s |-> [s EXCEPT !.table[f] = Open(s.d, role, n)]]
  BY DEF Opened, Lowest
<1>2. x.fd = f /\ x.s = [s EXCEPT !.table[f] = Open(s.d, role, n)]
  BY <1>1
<1>3. PICK tab : tab = [s.table EXCEPT ![f] = Open(s.d, role, n)]
  OBVIOUS
<1>4. x.s = State(s.d, tab, s.p, s.chans, s.accepted, s.served, s.half_failed)
  <2>1. \A g, e : [s EXCEPT !.table[g] = e] =
          State(s.d, [s.table EXCEPT ![g] = e], s.p, s.chans, s.accepted, s.served, s.half_failed)
    BY Changed
  <2> QED
    BY <1>2, <1>3, <2>1
<1>5. tab \in [Fds -> Entries]
  BY <1>3, OpenIs, StateIs
<1>6. x.s \in States /\ x.s.table = tab
  <2>1. /\ s.p \in Privs /\ s.chans \in Seq(Channels) /\ s.accepted \in 0..MaxConns
        /\ s.served \in Served /\ s.half_failed \in BOOLEAN
    BY StateIs
  <2> QED
    BY <1>4, <1>5, <2>1, Made
<1>7. [tab EXCEPT ![f] = Free] = s.table
  BY <1>1, <1>3, StateIs
<1>8. Close(x.s, f) = State(s.d, [tab EXCEPT ![f] = Free], s.p, s.chans, s.accepted, s.served,
                            s.half_failed)
  <2>1. PICK t \in States : t = x.s
    BY <1>6
  <2>2. Close(t, f) = [t EXCEPT !.table[f] = Free]
    BY DEF Close
  <2>3. \A g, e : [t EXCEPT !.table[g] = e] =
          State(t.d, [t.table EXCEPT ![g] = e], t.p, t.chans, t.accepted, t.served, t.half_failed)
    BY Changed
  <2>4. Close(t, f) = State(t.d, [t.table EXCEPT ![f] = Free], t.p, t.chans, t.accepted, t.served,
                            t.half_failed)
    BY <2>2, <2>3
  <2>5. /\ t.d = s.d /\ t.table = tab /\ t.p = s.p /\ t.chans = s.chans
        /\ t.accepted = s.accepted /\ t.served = s.served /\ t.half_failed = s.half_failed
    BY <1>4, <2>1 DEF State
  <2> QED
    BY <2>1, <2>4, <2>5
<1> QED
  BY <1>1, <1>2, <1>3, <1>4, <1>6, <1>7, <1>8, StateIs

\* A call that opens one more descriptor.
LEMMA OpenNear ==
    ASSUME NEW o, NEW z, NEW s, Near(o, z, s),
           NEW f \in Fds, s.table[f] = Free, NEW e \in Entries, e.owner = s.d,
           NEW q \in Privs, q.alive, s.d \notin Tcp \/ q.connected => q.con_fd_tmp = NO_FD,
           ~s.half_failed => Mine(s.d, q) = Mine(s.d, s.p) \cup {f},
           NEW acc \in 0..MaxConns, s.d # "server" => acc = s.accepted,
           NEW tab, SetAt(tab, s.table, f, e),
           ~s.half_failed => Counted(s.d, tab, q, acc, s.served),
           NEW t, t = State(s.d, tab, q, s.chans, acc, s.served, s.half_failed)
    PROVE  /\ Near(o, z, t) /\ t.d = s.d /\ t.p = q /\ t.half_failed = s.half_failed
           /\ t.table = tab /\ t.accepted = acc /\ t.served = s.served /\ t.chans = s.chans
<1>1. /\ s \in States /\ s.d = z.d /\ s.d \in Kinds /\ s.table \in [Fds -> Entries]
      /\ s.p \in Privs /\ s.chans \in Seq(Channels) /\ s.accepted \in 0..MaxConns
      /\ s.served \in Served /\ s.half_failed \in BOOLEAN
  <2>1. s \in States /\ s.d = z.d
    BY DEF Near, Fits
  <2> QED
    BY <2>1, StateIs
<1>2. tab \in [Fds -> Entries]
  BY <1>1 DEF SetAt
<1>3. /\ t \in States /\ t.d = s.d /\ t.table = tab /\ t.p = q /\ t.chans = s.chans
      /\ t.accepted = acc /\ t.served = s.served /\ t.half_failed = s.half_failed
  BY <1>1, <1>2, Made
<1>4. Fits(t)
  BY <1>3 DEF Fits
<1>5. ASSUME ~s.half_failed
      PROVE  Own(o, s.d, tab, q, s.chans) /\ \A g \in o : tab[g] = s.table[g]
  <2>1. Own(o, s.d, s.table, s.p, s.chans)
    BY <1>5 DEF Near
  <2>2. Mine(s.d, q) = Mine(s.d, s.p) \cup {f}
    BY <1>5
  <2>3. PICK d \in Kinds, old \in [Fds -> Entries], p \in Privs, chs \in Seq(Channels) :
          d = s.d /\ old = s.table /\ p = s.p /\ chs = s.chans
    BY <1>1
  <2>4. Own(o, d, old, p, chs) /\ Mine(d, q) = Mine(d, p) \cup {f} /\ e.owner = d /\ old[f] = Free
        /\ SetAt(tab, old, f, e)
    BY <2>1, <2>2, <2>3
  <2>5. Own(o, d, tab, q, chs)
    BY <2>4, OwnOpen
  <2>6. \A g \in o : tab[g] = old[g]
    <3>1. o \subseteq Fds /\ f \notin o
      BY <2>4 DEF Own
    <3> QED
      BY <2>4, <3>1 DEF SetAt
  <2> QED
    BY <2>3, <2>5, <2>6
<1> QED
  BY <1>1, <1>3, <1>4, <1>5 DEF Near

\* A call that only changes the private structure.
LEMMA PrivNear ==
    ASSUME NEW o, NEW z, NEW s, Near(o, z, s),
           NEW q \in Privs, q.alive, s.d \notin Tcp \/ q.connected => q.con_fd_tmp = NO_FD,
           ~s.half_failed => Mine(s.d, q) = Mine(s.d, s.p),
           ~s.half_failed => Counted(s.d, s.table, q, s.accepted, s.served),
           NEW t, t = State(s.d, s.table, q, s.chans, s.accepted, s.served, s.half_failed)
    PROVE  /\ Near(o, z, t) /\ t.d = s.d /\ t.p = q /\ t.half_failed = s.half_failed
           /\ t.table = s.table /\ t.accepted = s.accepted /\ t.served = s.served
           /\ t.chans = s.chans
<1>1. /\ s \in States /\ s.d = z.d /\ s.d \in Kinds /\ s.table \in [Fds -> Entries]
      /\ s.p \in Privs /\ s.chans \in Seq(Channels) /\ s.accepted \in 0..MaxConns
      /\ s.served \in Served /\ s.half_failed \in BOOLEAN
  <2>1. s \in States /\ s.d = z.d
    BY DEF Near, Fits
  <2> QED
    BY <2>1, StateIs
<1>2. /\ t \in States /\ t.d = s.d /\ t.table = s.table /\ t.p = q /\ t.chans = s.chans
      /\ t.accepted = s.accepted /\ t.served = s.served /\ t.half_failed = s.half_failed
  BY <1>1, Made
<1>3. Fits(t)
  BY <1>2 DEF Fits
<1>4. ~s.half_failed => Own(o, s.d, s.table, q, s.chans)
  BY OwnSame DEF Near
<1> QED
  BY <1>1, <1>2, <1>3, <1>4 DEF Near

\* A new channel, or too little memory for it.
LEMMA NewChannelIs ==
    ASSUME NEW s \in States, s.d # "ttt", NEW rd \in Numbers, NEW wr \in Numbers,
           s.d = "server" => rd \in Fds, Paired(s.d, rd, wr), NEW out \in NewChannel(s, rd, wr)
    PROVE  \/ out.err = "ENOMEM" /\ out.s = s
           \/ out.err = "ENOERROR" /\ \E c \in Channels, srv \in Served, chs \in Seq(Channels) :
                /\ HeldBy(c) = {rd, wr} \ {NO_FD} /\ Backed(c, s.table)
                /\ srv = IF s.d = "server" THEN Append(s.served, s.table[rd].n) ELSE s.served
                /\ Longer(chs, s.chans, c)
                /\ out.s = State(s.d, s.table, s.p, chs, s.accepted, srv, s.half_failed)
                /\ out.s \in States
<1>1. PICK c : c = [dev |-> s.d, rd_fd |-> rd, wr_fd |-> wr,
                    is |-> {s.table[f] : f \in {rd, wr} \cap Fds}]
  OBVIOUS
<1>2. c \in Channels
  <2>1. {s.table[f] : f \in {rd, wr} \cap Fds} \in SUBSET Entries
    BY StateIs
  <2> QED
    BY <1>1, <2>1, StateIs DEF Channels, Paired
<1>3. HeldBy(c) = {rd, wr} \ {NO_FD} /\ Backed(c, s.table)
  <2>1. HeldBy(c) = {rd, wr} \cap Fds
    BY <1>1 DEF HeldBy, ToFd
  <2>2. {rd, wr} \cap Fds = {rd, wr} \ {NO_FD}
    BY FdsAre
  <2> QED
    BY <1>1, <2>1, <2>2 DEF Backed
<1>4. PICK chs : Longer(chs, s.chans, c)
  BY DEF Longer
<1>5. chs \in Seq(Channels)
  BY <1>2, <1>4, StateIs, AppendProperties DEF Longer
<1>6. PICK srv : srv = IF s.d = "server" THEN Append(s.served, s.table[rd].n) ELSE s.served
  OBVIOUS
<1>7. srv \in Served
  <2>1. CASE s.d = "server"
    <3>1. s.table[rd] \in Entries
      BY <2>1, StateIs
    <3>2. s.table[rd].n \in Int
      BY <3>1, EntryIs
    <3> QED
      BY <1>6, <2>1, <3>2, StateIs, AppendProperties DEF Served
  <2>2. CASE s.d # "server"
    BY <1>6, <2>2, StateIs
  <2> QED
    BY <2>1, <2>2
<1>8. PICK t : t = [s EXCEPT !.chans = chs, !.served = srv]
  OBVIOUS
<1>9. t = State(s.d, s.table, s.p, chs, s.accepted, srv, s.half_failed)
  <2>1. \A x, y : [s EXCEPT !.chans = x, !.served = y] =
            State(s.d, s.table, s.p, x, s.accepted, y, s.half_failed)
    BY Changed
  <2> QED
    BY <1>8, <2>1
<1>10. t \in States
  <2>1. /\ s.p \in Privs /\ s.table \in [Fds -> Entries] /\ s.accepted \in 0..MaxConns
        /\ s.half_failed \in BOOLEAN
    BY StateIs
  <2> HIDE <1>8, <1>6
  <2> QED
    BY <1>5, <1>7, <1>9, <2>1, Made
<1>11. out \in {Out("ENOMEM", s), Out("ENOERROR", t)}
  <2>1. t = [s EXCEPT !.chans = Append(@, c),
                      !.served = IF s.d = "server" THEN Append(@, s.table[rd].n) ELSE @]
    BY <1>4, <1>6, <1>8, StateIs DEF State, Longer
  <2> QED
    BY <1>1, <2>1 DEF NewChannel
<1>12. CASE out = Out("ENOMEM", s)
  BY <1>12, OutIs
<1>13. CASE out = Out("ENOERROR", t)
  <2>1. out.err = "ENOERROR" /\ out.s = t
    BY <1>13, OutIs
  <2> HIDE <1>8
  <2> QED
    BY <1>2, <1>3, <1>4, <1>5, <1>6, <1>7, <1>9, <1>10, <2>1
<1> QED
  BY <1>11, <1>12, <1>13

\* A call that hands what the device has ready to a new channel.
LEMMA HandNear ==
    ASSUME NEW o, NEW z, NEW s, Near(o, z, s), NEW c \in Channels,
           Backed(c, s.table),
           NEW q \in Privs, q.alive, s.d \notin Tcp \/ q.connected => q.con_fd_tmp = NO_FD,
           ~s.half_failed => /\ HeldBy(c) \subseteq Mine(s.d, s.p)
                             /\ Mine(s.d, q) = Mine(s.d, s.p) \ HeldBy(c),
           NEW srv \in Served, s.d # "server" => srv = s.served,
           ~s.half_failed => Counted(s.d, s.table, q, s.accepted, srv),
           NEW chs, Longer(chs, s.chans, c),
           NEW t, t = State(s.d, s.table, q, chs, s.accepted, srv, s.half_failed)
    PROVE  Near(o, z, t) /\ t.d = s.d /\ t.p = q /\ t.half_failed = s.half_failed
<1>1. /\ s \in States /\ s.d = z.d /\ s.d \in Kinds /\ s.table \in [Fds -> Entries]
      /\ s.p \in Privs /\ s.chans \in Seq(Channels) /\ s.accepted \in 0..MaxConns
      /\ s.served \in Served /\ s.half_failed \in BOOLEAN
  <2>1. s \in States /\ s.d = z.d
    BY DEF Near, Fits
  <2> QED
    BY <2>1, StateIs
<1>3. chs \in Seq(Channels)
  BY <1>1, AppendProperties DEF Longer
<1>4. /\ t \in States /\ t.d = s.d /\ t.table = s.table /\ t.p = q /\ t.chans = chs
      /\ t.accepted = s.accepted /\ t.served = srv /\ t.half_failed = s.half_failed
  BY <1>1, <1>3, Made
<1>5. Fits(t)
  BY <1>4 DEF Fits
<1>6. ~s.half_failed => Own(o, s.d, s.table, q, chs)
  BY <1>1, OwnHand DEF Near
<1> QED
  BY <1>1, <1>4, <1>5, <1>6 DEF Near

\* The private structure becomes q.
PrivSet(t, s, q) == t = [s EXCEPT !.p = q]

\* What HandNear says of a channel that NewChannel has made, when the device's
\* private structure becomes q afterwards.
LEMMA Hands ==
    ASSUME NEW o, NEW z, NEW s, Near(o, z, s), s.d # "ttt",
           NEW rd \in Numbers, NEW wr \in Numbers, s.d = "server" => rd \in Fds,
           Paired(s.d, rd, wr), NEW out \in NewChannel(s, rd, wr), out.err = "ENOERROR",
           NEW q \in Privs, q.alive, s.d \notin Tcp \/ q.connected => q.con_fd_tmp = NO_FD,
           ~s.half_failed => /\ {rd, wr} \ {NO_FD} \subseteq Mine(s.d, s.p)
                             /\ Mine(s.d, q) = Mine(s.d, s.p) \ {rd, wr},
           s.d = "server" => s.p.con_fd_tmp = rd /\ q.con_fd_tmp = NO_FD,
           NEW t, PrivSet(t, out.s, q)
    PROVE  /\ out.s \in States /\ out.s.p = s.p /\ out.s.d = s.d
           /\ Near(o, z, t) /\ t.d = s.d /\ t.p = q /\ t.half_failed = s.half_failed
<1>1. /\ s \in States /\ s.d = z.d /\ s.d \in Kinds /\ s.table \in [Fds -> Entries]
      /\ s.p \in Privs /\ s.chans \in Seq(Channels) /\ s.accepted \in 0..MaxConns
      /\ s.served \in Served /\ s.half_failed \in BOOLEAN
  <2>1. s \in States /\ s.d = z.d
    BY DEF Near, Fits
  <2> QED
    BY <2>1, StateIs
<1>2. PICK c \in Channels, srv \in Served, chs \in Seq(Channels) :
        /\ HeldBy(c) = {rd, wr} \ {NO_FD} /\ Backed(c, s.table)
        /\ srv = IF s.d = "server" THEN Append(s.served, s.table[rd].n) ELSE s.served
        /\ Longer(chs, s.chans, c)
        /\ out.s = State(s.d, s.table, s.p, chs, s.accepted, srv, s.half_failed)
        /\ out.s \in States
  BY <1>1, NewChannelIs
<1>3. /\ out.s.d = s.d /\ out.s.table = s.table /\ out.s.p = s.p /\ out.s.chans = chs
      /\ out.s.accepted = s.accepted /\ out.s.served = srv /\ out.s.half_failed = s.half_failed
  BY <1>2 DEF State
<1>4. t = State(s.d, s.table, q, chs, s.accepted, srv, s.half_failed)
  <2>1. PICK x \in States : x = out.s
    BY <1>2
  <2>2. \A y : [x EXCEPT !.p = y] =
                 State(x.d, x.table, y, x.chans, x.accepted, x.served, x.half_failed)
    BY Changed
  <2> QED
    BY <1>3, <2>1, <2>2 DEF PrivSet
<1>5. /\ s.d # "server" => srv = s.served
      /\ s.d = "server" => srv = Append(s.served, s.table[rd].n)
  BY <1>2
<1>6. ASSUME ~s.half_failed
      PROVE  Counted(s.d, s.table, q, s.accepted, srv)
  <2>1. Counted(s.d, s.table, s.p, s.accepted, s.served) /\ s.p.alive
    BY <1>6 DEF Near, Fits
  <2>2. CASE s.d # "server"
    BY <1>5, <2>1, <2>2 DEF Counted
  <2>3. CASE s.d = "server"
    <3>1. s.p.con_fd_tmp = rd /\ q.con_fd_tmp = NO_FD /\ rd # NO_FD
      BY <2>3, FdsAre
    <3>2. s.accepted - Len(s.served) = 1 /\ s.table[rd].n = s.accepted
      BY <2>1, <2>3, <3>1 DEF Counted
    <3>3. PICK k \in Nat : k = Len(s.served)
      BY <1>1, LenProperties DEF Served
    <3>4. s.accepted \in Nat /\ s.accepted = k + 1
      BY <1>1, <3>2, <3>3, FdsAre
    <3>5. Len(srv) = k + 1 /\ srv[k + 1] = k + 1 /\ \A j \in 1..k : srv[j] = s.served[j]
      BY <1>1, <1>5, <2>3, <3>2, <3>3, <3>4, AppendProperties DEF Served
    <3>6. \A j \in 1..k : s.served[j] = j
      BY <2>1, <3>3 DEF Counted
    <3>7. \A j \in 1..Len(srv) : srv[j] = j
      <4>1. \A j \in 1..k + 1 : j \in 1..k \/ j = k + 1
        OBVIOUS
      <4> QED
        BY <3>5, <3>6, <4>1
    <3>8. s.accepted - Len(srv) = 0
      BY <3>4, <3>5
    <3> QED
      BY <3>1, <3>7, <3>8 DEF Counted
  <2> QED
    BY <2>2, <2>3
<1>7. ~s.half_failed => /\ HeldBy(c) \subseteq Mine(s.d, s.p)
                        /\ Mine(s.d, q) = Mine(s.d, s.p) \ HeldBy(c)
  <2>1. NO_FD \notin Mine(s.d, s.p)
    BY DEF Mine
  <2> QED
    BY <1>2, <2>1
<1>8. Backed(c, s.table) /\ Longer(chs, s.chans, c)
  BY <1>2
<1>9. Near(o, z, t) /\ t.d = s.d /\ t.p = q /\ t.half_failed = s.half_failed
  BY <1>4, <1>5, <1>6, <1>7, <1>8, HandNear, SMTT(30)
<1> QED
  BY <1>2, <1>3, <1>9

(***************************************************************************)
(* tcp                                                                     *)
(***************************************************************************)
\* A socket is opened and kept, or everything is as it was
\* (tcp_resolve_bind_connect).
LEMMA TcpResolve ==
    ASSUME NEW o, NEW z, NEW s, Near(o, z, s), s.d \in Tcp,
           ~s.p.connected, s.p.con_fd_tmp = NO_FD, s.p.fd = NO_FD, NEW dc,
           NEW out \in tcp_resolve_bind_connect(s, dc)
    PROVE  \/ out.s = s /\ out.err \in {"EBADOPT", "EINVALID", "ENOTREADY"}
           \/ /\ out.err = "ENOERROR" /\ Near(o, z, out.s) /\ out.s.d = s.d
              /\ out.s.p = [s.p EXCEPT !.fd = out.s.p.fd] /\ out.s.p.fd \in Fds
              /\ out.s.table[out.s.p.fd] = Open(s.d, "socket", 0)
              /\ ~out.s.p.connected /\ out.s.p.con_fd_tmp = NO_FD
<1>1. /\ s \in States /\ s.d = z.d /\ s.d \in Kinds /\ s.table \in [Fds -> Entries]
      /\ s.p \in Privs /\ s.p.alive /\ s.accepted \in 0..MaxConns
  <2>1. s \in States /\ s.d = z.d /\ s.p.alive
    BY DEF Near, Fits
  <2> QED
    BY <2>1, StateIs
<1>2. "socket" \in Roles /\ 0 \in 0..MaxConns
  BY FdsAre DEF Roles
<1>3. \A x \in Opened(s, "socket", 0) : Close(x.s, x.fd) = s
  BY <1>1, <1>2, OpenedIs
<1>4. CASE out \in {Out("EBADOPT", s), Out("EINVALID", s)}
  BY <1>4, OutIs
<1>5. CASE \E x \in Opened(s, "socket", 0) :
             out = Out(IF dc THEN "ENOTREADY" ELSE "EINVALID", Close(x.s, x.fd))
  BY <1>3, <1>5, OutIs
<1>6. CASE \E x \in Opened(s, "socket", 0) : out = Out("ENOERROR", [x.s EXCEPT !.p.fd = x.fd])
  <2>1. PICK x \in Opened(s, "socket", 0) : out = Out("ENOERROR", [x.s EXCEPT !.p.fd = x.fd])
    BY <1>6
  <2>2. PICK e : e = Open(s.d, "socket", 0)
    OBVIOUS
  <2>3. PICK f : f = x.fd
    OBVIOUS
  <2>4. PICK tab : SetAt(tab, s.table, f, e)
    BY DEF SetAt
  <2>5. /\ f \in Fds /\ s.table[f] = Free
        /\ x.s = State(s.d, tab, s.p, s.chans, s.accepted, s.served, s.half_failed)
        /\ x.s \in States
    BY <1>1, <1>2, <2>2, <2>3, <2>4, OpenedIs DEF SetAt
  <2>6. e \in Entries /\ e.owner = s.d
    BY <1>1, <1>2, <2>2, OpenIs
  <2>7. PICK q : q = [s.p EXCEPT !.fd = f]
    OBVIOUS
  <2>8. f \in Numbers
    BY <2>5 DEF Numbers
  <2>9. q = Priv(s.p.alive, f, s.p.con_fd_tmp, s.p.rd_fd, s.p.wr_fd, s.p.connected,
                 s.p.rd_only, s.p.wr_only)
    BY <1>1, <2>7, <2>8, PrivChanged
  <2>10. q \in Privs /\ q.fd = f /\ q.con_fd_tmp = NO_FD /\ ~q.connected /\ q.alive
    <3>1. /\ s.p.alive \in BOOLEAN /\ s.p.con_fd_tmp \in Numbers /\ s.p.rd_fd \in Numbers
          /\ s.p.wr_fd \in Numbers /\ s.p.connected \in BOOLEAN /\ s.p.rd_only \in BOOLEAN
          /\ s.p.wr_only \in BOOLEAN
      BY <1>1, PrivIs
    <3> QED
      BY <1>1, <2>8, <2>9, <3>1 DEF Priv, Privs
  <2>11. Mine(s.d, q) = Mine(s.d, s.p) \cup {f}
    BY <1>1, <2>5, <2>10, FdsAre DEF Mine
  <2>12. ~s.half_failed => Counted(s.d, tab, q, s.accepted, s.served)
    BY <1>1, <2>10 DEF Near, Counted
  <2>13. out.s = State(s.d, tab, q, s.chans, s.accepted, s.served, s.half_failed)
    <3>1. PICK y \in States : y = x.s
      BY <2>5
    <3>2. \A g : [y EXCEPT !.p.fd = g] =
                   State(y.d, y.table, [y.p EXCEPT !.fd = g], y.chans, y.accepted, y.served,
                         y.half_failed)
      BY Changed
    <3>3. /\ y.d = s.d /\ y.table = tab /\ y.p = s.p /\ y.chans = s.chans
          /\ y.accepted = s.accepted /\ y.served = s.served /\ y.half_failed = s.half_failed
      BY <2>5, <3>1 DEF State
    <3> QED
      BY <2>1, <2>3, <2>7, <3>1, <3>2, <3>3, OutIs, SMTT(30)
  <2>14. /\ Near(o, z, out.s) /\ out.s.d = s.d /\ out.s.p = q /\ out.s.table = tab
    BY <1>1, <2>4, <2>5, <2>6, <2>10, <2>11, <2>12, <2>13, OpenNear, SMTT(30)
  <2>15. tab[f] = e
    BY <1>1, <2>4, <2>5 DEF SetAt
  <2> QED
    BY <2>1, <2>2, <2>5, <2>7, <2>10, <2>14, <2>15, OutIs
<1> QED
  BY <1>4, <1>5, <1>6 DEF tcp_resolve_bind_connect

\* A socket that has been bound is listening afterwards, or stays as it was
\* (tcp_listen).
LEMMA TcpListen ==
    ASSUME NEW o, NEW z, NEW s, Near(o, z, s), s.d \in Tcp, s.p.fd \in Fds,
           ~s.p.connected, s.p.con_fd_tmp = NO_FD, s.table[s.p.fd] = Open(s.d, "socket", 0),
           NEW out \in tcp_listen(s)
    PROVE  /\ Near(o, z, out.s) /\ out.s.d = s.d /\ out.s.p = s.p
           /\ out.err \in {"ECHECKERRORNO", "ENOERROR"}
           /\ s.d = "client" => out.err = "ENOERROR"
<1>1. /\ s \in States /\ s.d = z.d /\ s.d \in Kinds /\ s.table \in [Fds -> Entries]
      /\ s.p \in Privs /\ s.p.alive /\ s.accepted \in 0..MaxConns /\ s.chans \in Seq(Channels)
      /\ s.served \in Served /\ s.half_failed \in BOOLEAN
  <2>1. s \in States /\ s.d = z.d /\ s.p.alive
    BY DEF Near, Fits
  <2> QED
    BY <2>1, StateIs
<1>2. CASE /\ out \in {Out("ECHECKERRORNO", s), Out("ENOERROR", s)}
           /\ s.d = "client" => out.err = "ENOERROR"
  BY <1>2, OutIs
<1>3. CASE out = Out("ENOERROR", [s EXCEPT !.table[s.p.fd].role = "listening"])
  <2>1. PICK f \in Fds : f = s.p.fd
    OBVIOUS
  <2>2. PICK e : e = Open(s.d, "listening", 0)
    OBVIOUS
  <2>3. e \in Entries /\ e.owner = s.d
    <3>1. "listening" \in Roles /\ 0 \in 0..MaxConns
      BY FdsAre DEF Roles
    <3> QED
      BY <1>1, <2>2, <3>1, OpenIs
  <2>4. PICK tab : SetAt(tab, s.table, f, e)
    BY DEF SetAt
  <2>5. PICK t : t = out.s
    OBVIOUS
  <2>6. t = State(s.d, tab, s.p, s.chans, s.accepted, s.served, s.half_failed)
    <3>1. PICK d, old, p, chs, acc, srv, half : s = State(d, old, p, chs, acc, srv, half)
      BY <1>1, StateIs
    <3>2. /\ s.d = d /\ s.table = old /\ s.p = p /\ s.chans = chs
          /\ s.accepted = acc /\ s.served = srv /\ s.half_failed = half
      BY <3>1 DEF State
    <3>3. t = [s EXCEPT !.table[f].role = "listening"]
      BY <1>3, <2>1, <2>5, OutIs
    <3>4. t = State(d, [old EXCEPT ![f].role = "listening"], p, chs, acc, srv, half)
      BY <3>1, <3>3 DEF State
    <3>5. old[f] = Open(d, "socket", 0)
      BY <2>1, <3>2
    <3>6. [old[f] EXCEPT !.role = "listening"] = e
      BY <2>2, <3>2, <3>5 DEF Open
    <3>7. [old EXCEPT ![f].role = "listening"] =
            [old EXCEPT ![f] = [old[f] EXCEPT !.role = "listening"]]
      OBVIOUS
    <3>8. tab = [old EXCEPT ![f].role = "listening"]
      BY <2>4, <3>2, <3>6, <3>7 DEF SetAt
    <3> QED
      BY <3>2, <3>4, <3>8
  <2>7. tab \in [Fds -> Entries] /\ tab[f] = e /\ \A g \in Fds : g # f => tab[g] = s.table[g]
    BY <1>1, <2>3, <2>4 DEF SetAt
  <2>8. /\ t \in States /\ t.d = s.d /\ t.table = tab /\ t.p = s.p /\ t.chans = s.chans
        /\ t.accepted = s.accepted /\ t.served = s.served /\ t.half_failed = s.half_failed
    BY <1>1, <2>6, <2>7, Made
  <2>9. ASSUME ~s.half_failed
        PROVE  Own(o, s.d, tab, s.p, s.chans) /\ \A g \in o : tab[g] = s.table[g]
    <3>1. Own(o, s.d, s.table, s.p, s.chans)
      BY <2>9 DEF Near
    <3>2. f \in Mine(s.d, s.p)
      BY <1>1, <2>1, FdsAre DEF Mine
    <3>3. e.owner = s.table[f].owner
      <4>1. Open(s.d, "socket", 0).owner = s.d
        BY DEF Open
      <4> QED
        BY <2>1, <2>3, <4>1
    <3>4. Own(o, s.d, tab, s.p, s.chans)
      BY <1>1, <2>3, <2>4, <3>1, <3>2, <3>3, OwnRole
    <3>5. \A g \in o : g \in Fds /\ g # f
      BY <3>1, <3>2 DEF Own
    <3> QED
      BY <2>7, <3>4, <3>5
  <2>10. ~s.half_failed => Counted(s.d, tab, s.p, s.accepted, s.served)
    BY DEF Near, Counted
  <2>11. Near(o, z, t)
    <3>1. Fits(t)
      BY <1>1, <2>8 DEF Near, Fits
    <3>2. ASSUME ~t.half_failed
          PROVE  /\ ~z.half_failed /\ Own(o, t.d, t.table, t.p, t.chans)
                 /\ \A g \in o : t.table[g] = z.table[g]
                 /\ Counted(t.d, t.table, t.p, t.accepted, t.served)
                 /\ t.d # "server" => t.accepted = z.accepted /\ t.served = z.served
      <4>1. /\ ~z.half_failed /\ \A g \in o : s.table[g] = z.table[g]
            /\ s.d # "server" => s.accepted = z.accepted /\ s.served = z.served
        BY <2>8, <3>2 DEF Near
      <4>2. Own(o, s.d, tab, s.p, s.chans) /\ \A g \in o : tab[g] = s.table[g]
        BY <2>8, <2>9, <3>2
      <4>3. Counted(s.d, tab, s.p, s.accepted, s.served)
        BY <2>8, <2>10, <3>2
      <4> QED
        BY <2>8, <4>1, <4>2, <4>3
    <3> QED
      BY <1>1, <2>8, <3>1, <3>2 DEF Near
  <2> QED
    BY <1>3, <2>5, <2>8, <2>11, OutIs
<1> QED
  BY <1>2, <1>3, OutIs DEF tcp_listen, Listens, Tcp

\* accept() gives the server its next connection (tcp_accept).
LEMMA TcpAccept ==
    ASSUME NEW o, NEW z, NEW s, Near(o, z, s), s.d = "server", s.p.fd \in Fds,
           ~s.p.connected, s.p.con_fd_tmp = NO_FD, NEW out \in tcp_accept(s)
    PROVE  /\ Good(o, z, out.s) /\ out.s.d = s.d /\ ~out.s.p.connected
           /\ out.err \in {"ECHECKERRORNO", "ETRYAGAIN", "ENOERROR"}
           /\ out.err = "ENOERROR" => out.s.p.con_fd_tmp \in Fds
<1>1. /\ s \in States /\ s.d = z.d /\ s.d \in Kinds /\ s.table \in [Fds -> Entries]
      /\ s.p \in Privs /\ s.p.alive /\ s.accepted \in 0..MaxConns /\ s.chans \in Seq(Channels)
      /\ s.served \in Served /\ s.half_failed \in BOOLEAN
  <2>1. s \in States /\ s.d = z.d /\ s.p.alive
    BY DEF Near, Fits
  <2> QED
    BY <2>1, StateIs
<1>2. PICK none : none = [s EXCEPT !.p.con_fd_tmp = NO_FD]
  OBVIOUS
<1>3. none = s
  <2>1. s.p = [s.p EXCEPT !.con_fd_tmp = NO_FD]
    BY <1>1 DEF Privs
  <2>2. none = State(s.d, s.table, [s.p EXCEPT !.con_fd_tmp = NO_FD], s.chans, s.accepted,
                     s.served, s.half_failed)
    <3>1. \A x : [s EXCEPT !.p.con_fd_tmp = x] =
                   State(s.d, s.table, [s.p EXCEPT !.con_fd_tmp = x], s.chans, s.accepted,
                         s.served, s.half_failed)
      BY <1>1, Changed
    <3> QED
      BY <1>2, <3>1
  <2> QED
    BY <1>1, <2>1, <2>2, StateIs
<1>4. Good(o, z, s)
  BY DEF Good, Shape, Tcp
<1>5. CASE out.s = none /\ out.err \in {"ECHECKERRORNO", "ETRYAGAIN"}
  BY <1>3, <1>4, <1>5
<1>6. CASE /\ s.accepted # MaxConns
           /\ \E x \in Opened(s, "connection", s.accepted + 1) :
                out = Out("ENOERROR", [x.s EXCEPT !.p.con_fd_tmp = x.fd, !.accepted = @ + 1])
  <2>1. PICK x \in Opened(s, "connection", s.accepted + 1) :
          out = Out("ENOERROR", [x.s EXCEPT !.p.con_fd_tmp = x.fd, !.accepted = @ + 1])
    BY <1>6
  <2>2. PICK acc \in 0..MaxConns : acc = s.accepted + 1
    BY <1>1, <1>6, FdsAre
  <2>3. PICK f : f = x.fd
    OBVIOUS
  <2>4. PICK e : e = Open(s.d, "connection", acc)
    OBVIOUS
  <2>5. "connection" \in Roles
    BY DEF Roles
  <2>6. PICK tab : SetAt(tab, s.table, f, e)
    BY DEF SetAt
  <2>7. /\ f \in Fds /\ s.table[f] = Free
        /\ x.s = State(s.d, tab, s.p, s.chans, s.accepted, s.served, s.half_failed)
        /\ x.s \in States
    BY <1>1, <2>1, <2>2, <2>3, <2>4, <2>5, <2>6, OpenedIs DEF SetAt
  <2>8. e \in Entries /\ e.owner = s.d /\ e.n = acc
    BY <1>1, <2>2, <2>4, <2>5, OpenIs
  <2>9. PICK q : q = [s.p EXCEPT !.con_fd_tmp = f]
    OBVIOUS
  <2>10. f \in Numbers
    BY <2>7 DEF Numbers
  <2>11. q \in Privs /\ q.alive /\ ~q.connected /\ q.fd = s.p.fd /\ q.con_fd_tmp = f
    BY <1>1, <2>9, <2>10 DEF Privs
  <2>12. Mine(s.d, q) = Mine(s.d, s.p) \cup {f}
    BY <1>1, <2>7, <2>11, FdsAre DEF Mine, Tcp
  <2>13. tab[f] = e
    BY <1>1, <2>6, <2>7 DEF SetAt
  <2>14. ~s.half_failed => Counted(s.d, tab, q, acc, s.served)
    <3> SUFFICES ASSUME ~s.half_failed PROVE Counted(s.d, tab, q, acc, s.served)
      OBVIOUS
    <3>1. Counted(s.d, s.table, s.p, s.accepted, s.served)
      BY DEF Near
    <3>2. PICK k \in Nat : k = Len(s.served)
      BY <1>1, LenProperties DEF Served
    <3>3. s.accepted - k = 0
      BY <1>1, <3>1, <3>2 DEF Counted
    <3>4. acc - k = 1
      BY <1>1, <2>2, <3>2, <3>3, FdsAre
    <3>5. q.con_fd_tmp # NO_FD /\ tab[q.con_fd_tmp].n = acc
      BY <2>7, <2>8, <2>11, <2>13, FdsAre
    <3>6. \A j \in 1..Len(s.served) : s.served[j] = j
      BY <3>1 DEF Counted
    <3> QED
      BY <3>2, <3>4, <3>5, <3>6 DEF Counted
  <2>15. out.s = State(s.d, tab, q, s.chans, acc, s.served, s.half_failed) /\ out.err = "ENOERROR"
    <3>1. PICK y \in States : y = x.s
      BY <2>7
    <3>2. \A g, a : [y EXCEPT !.p.con_fd_tmp = g, !.accepted = a] =
                   State(y.d, y.table, [y.p EXCEPT !.con_fd_tmp = g], y.chans, a, y.served,
                         y.half_failed)
      BY Changed
    <3>3. /\ y.d = s.d /\ y.table = tab /\ y.p = s.p /\ y.chans = s.chans
          /\ y.accepted = s.accepted /\ y.served = s.served /\ y.half_failed = s.half_failed
      BY <2>7, <3>1 DEF State
    <3>4. [y EXCEPT !.p.con_fd_tmp = f, !.accepted = @ + 1] =
            [y EXCEPT !.p.con_fd_tmp = f, !.accepted = y.accepted + 1]
      BY <3>1 DEF States
    <3>5. out = Out("ENOERROR", [y EXCEPT !.p.con_fd_tmp = f, !.accepted = y.accepted + 1])
      BY <2>1, <2>3, <3>1, <3>4
    <3>6. [y EXCEPT !.p.con_fd_tmp = f, !.accepted = acc] =
             State(y.d, y.table, [y.p EXCEPT !.con_fd_tmp = f], y.chans, acc, y.served,
                   y.half_failed)
      BY <3>2
    <3>7. y.accepted + 1 = acc
      BY <2>2, <3>3
    <3>8. out.s = [y EXCEPT !.p.con_fd_tmp = f, !.accepted = acc] /\ out.err = "ENOERROR"
      BY <3>5, <3>7, OutIs
    <3> QED
      BY <2>9, <3>3, <3>6, <3>8, SMTT(30)
  <2>16. /\ Near(o, z, out.s) /\ out.s.d = s.d /\ out.s.p = q /\ out.s.half_failed = s.half_failed
    <3>1. /\ s.d \notin Tcp \/ q.connected => q.con_fd_tmp = NO_FD
          /\ s.d # "server" => acc = s.accepted
      BY <2>11 DEF Tcp
    <3>2. PICK t : t = out.s
      OBVIOUS
    <3>3. t = State(s.d, tab, q, s.chans, acc, s.served, s.half_failed)
      BY <2>15, <3>2
    <3>4. Near(o, z, t) /\ t.d = s.d /\ t.p = q /\ t.half_failed = s.half_failed
      <4> HIDE <3>2
      <4> QED
        BY <2>6, <2>7, <2>8, <2>11, <2>12, <2>14, <3>1, <3>3, OpenNear
    <3> QED
      BY <3>2, <3>4
  <2>17. ~s.half_failed => f # s.p.fd
    <3> SUFFICES ASSUME ~s.half_failed PROVE f # s.p.fd
      OBVIOUS
    <3>1. Own(o, s.d, s.table, s.p, s.chans)
      BY DEF Near
    <3>2. s.p.fd \in Mine(s.d, s.p)
      BY <1>1, FdsAre DEF Mine, Tcp
    <3> QED
      BY <1>1, <2>7, <3>1, <3>2, FreeIs
  <2>18. Good(o, z, out.s)
    BY <2>11, <2>16, <2>17 DEF Good, Shape
  <2>19. out.s.p.con_fd_tmp \in Fds /\ ~out.s.p.connected
    BY <2>7, <2>11, <2>16
  <2>20. out.err = "ENOERROR"
    BY <2>15
  <2> QED
    BY <2>16, <2>18, <2>19, <2>20
<1>7. \/ out \in {Out("ECHECKERRORNO", none), Out("ETRYAGAIN", none)}
      \/ \E x \in IF s.accepted = MaxConns THEN {} ELSE Opened(s, "connection", s.accepted + 1) :
            out = Out("ENOERROR", [x.s EXCEPT !.p.con_fd_tmp = x.fd, !.accepted = @ + 1])
  BY <1>2, Zenon DEF tcp_accept
<1>8. CASE out \in {Out("ECHECKERRORNO", none), Out("ETRYAGAIN", none)}
  <2>1. out.s = none /\ out.err \in {"ECHECKERRORNO", "ETRYAGAIN"}
    BY <1>8, OutIs
  <2> QED
    BY <1>5, <2>1
<1>9. CASE \E x \in IF s.accepted = MaxConns THEN {} ELSE Opened(s, "connection", s.accepted + 1) :
             out = Out("ENOERROR", [x.s EXCEPT !.p.con_fd_tmp = x.fd, !.accepted = @ + 1])
  <2>1. s.accepted # MaxConns
    BY <1>9, Zenon
  <2>2. \E x \in Opened(s, "connection", s.accepted + 1) :
          out = Out("ENOERROR", [x.s EXCEPT !.p.con_fd_tmp = x.fd, !.accepted = @ + 1])
    BY <1>9, <2>1, Zenon
  <2> QED
    BY <1>6, <2>1, <2>2, Zenon
<1> QED
  BY <1>7, <1>8, <1>9

\* What tcp_connect_peek does once it has a socket.
Accepts(s) == IF Listens(s) THEN tcp_accept(s)
              ELSE {Out("ENOERROR", [s EXCEPT !.p.con_fd_tmp = s.p.fd])}

\* What the next connection of a server is, or a client's socket.
LEMMA TcpAccepting ==
    ASSUME NEW o, NEW z, NEW s, Near(o, z, s), s.d \in Tcp, s.p.fd \in Fds,
           ~s.p.connected, s.p.con_fd_tmp = NO_FD,
           NEW out \in Accepts(s)
    PROVE  /\ Good(o, z, out.s) /\ out.s.d = s.d /\ ~out.s.p.connected
           /\ out.err \in {"ECHECKERRORNO", "ETRYAGAIN", "ENOERROR"}
           /\ out.err = "ENOERROR" => out.s.p.con_fd_tmp \in Fds
<1>1. CASE s.d = "server"
  <2>1. out \in tcp_accept(s)
    BY <1>1 DEF Listens, Accepts
  <2> QED
    BY <1>1, <2>1, TcpAccept
<1>2. CASE s.d = "client"
  <2>1. /\ s \in States /\ s.d = z.d /\ s.p \in Privs /\ s.p.alive
    <3>1. s \in States /\ s.d = z.d /\ s.p.alive
      BY DEF Near, Fits
    <3> QED
      BY <3>1, StateIs
  <2>2. out = Out("ENOERROR", [s EXCEPT !.p.con_fd_tmp = s.p.fd])
    BY <1>2 DEF Listens, Accepts
  <2>3. PICK q : q = [s.p EXCEPT !.con_fd_tmp = s.p.fd]
    OBVIOUS
  <2>4. q \in Privs /\ q.alive /\ ~q.connected /\ q.fd = s.p.fd /\ q.con_fd_tmp = s.p.fd
    BY <2>1, <2>3 DEF Privs
  <2>5. PICK t : t = out.s
    OBVIOUS
  <2>6. t = State(s.d, s.table, q, s.chans, s.accepted, s.served, s.half_failed)
    <3>1. \A x : [s EXCEPT !.p.con_fd_tmp = x] =
                   State(s.d, s.table, [s.p EXCEPT !.con_fd_tmp = x], s.chans, s.accepted,
                         s.served, s.half_failed)
      BY <2>1, Changed
    <3> QED
      BY <2>2, <2>3, <2>5, <3>1, OutIs
  <2>7. Mine(s.d, q) = Mine(s.d, s.p)
    BY <2>1, <2>4 DEF Mine
  <2>8. ~s.half_failed => Counted(s.d, s.table, q, s.accepted, s.served)
    BY <1>2 DEF Near, Counted
  <2>9. Near(o, z, t) /\ t.d = s.d /\ t.p = q
    BY <2>4, <2>6, <2>7, <2>8, PrivNear
  <2>10. Good(o, z, t)
    BY <1>2, <2>4, <2>9 DEF Good, Shape
  <2> QED
    BY <2>2, <2>4, <2>5, <2>9, <2>10, OutIs
<1> QED
  BY <1>1, <1>2 DEF Tcp

\* A tcp device opens its socket, and accepts a connection (tcp_connect_peek).
LEMMA TcpPeek ==
    ASSUME NEW o, NEW z, NEW s, Good(o, z, s), s.d \in Tcp,
           ~s.p.connected, s.p.con_fd_tmp = NO_FD, NEW out \in tcp_connect_peek(s)
    PROVE  /\ Good(o, z, out.s) /\ out.s.d = s.d /\ ~out.s.p.connected
           /\ out.err \in {"EBADOPT", "EINVALID", "ECHECKERRORNO", "ETRYAGAIN", "ENOERROR"}
           /\ out.err = "ENOERROR" => out.s.p.con_fd_tmp \in Fds
<1> DEFINE Accepting(t) == IF Listens(t) THEN tcp_accept(t)
                           ELSE {Out("ENOERROR", [t EXCEPT !.p.con_fd_tmp = t.p.fd])}
           Told(a) == Out(IF a.err = "ENOTREADY" THEN "ETRYAGAIN" ELSE a.err, a.s)
           Found   == Then({Told(a) : a \in tcp_resolve_bind_connect(s, ~Listens(s))},
                           "ENOERROR", tcp_listen)
           Open1   == IF s.p.fd # NO_FD THEN {Out("ENOERROR", s)} ELSE Found
<1>1. PICK r \in Open1 : IF r.err # "ENOERROR" THEN out = r ELSE out \in Accepts(r.s)
  <2>1. out \in Then(Open1, "ENOERROR", Accepting)
    BY Zenon DEF tcp_connect_peek
  <2>2. PICK r \in Open1 : IF r.err # "ENOERROR" THEN out = r ELSE out \in Accepting(r.s)
    BY <2>1 DEF Then
  <2> QED
    BY <2>2 DEF Accepts
<1>2. s \in States /\ s.p \in Privs /\ Near(o, z, s)
  BY StateIs DEF Good, Near, Fits
<1>3. CASE s.p.fd # NO_FD
  <2>1. r = Out("ENOERROR", s)
    BY <1>3
  <2>2. out \in Accepts(s)
    BY <1>1, <2>1, OutIs
  <2>3. s.p.fd \in Fds
    BY <1>2, <1>3, PrivIs, FdsAre
  <2> QED
    BY <1>2, <2>2, <2>3, TcpAccepting
<1>4. CASE s.p.fd = NO_FD
  <2>1. r \in Then({Told(a) : a \in tcp_resolve_bind_connect(s, ~Listens(s))},
                    "ENOERROR", tcp_listen)
    BY <1>4
  <2>2. PICK a \in tcp_resolve_bind_connect(s, ~Listens(s)) :
          IF Told(a).err # "ENOERROR" THEN r = Told(a) ELSE r \in tcp_listen(Told(a).s)
    BY <2>1 DEF Then
  <2>3. /\ Told(a).err = (IF a.err = "ENOTREADY" THEN "ETRYAGAIN" ELSE a.err) /\ Told(a).s = a.s
    BY OutIs
  <2> HIDE DEF Told, Accepting
  <2>5. CASE a.s = s /\ a.err \in {"EBADOPT", "EINVALID", "ENOTREADY"}
    <3>1. out = Told(a)
      BY <1>1, <2>2, <2>3, <2>5
    <3> QED
      BY <2>3, <2>5, <3>1
  <2>6. CASE /\ a.err = "ENOERROR" /\ Near(o, z, a.s) /\ a.s.d = s.d
             /\ a.s.p = [s.p EXCEPT !.fd = a.s.p.fd] /\ a.s.p.fd \in Fds
             /\ a.s.table[a.s.p.fd] = Open(s.d, "socket", 0)
             /\ ~a.s.p.connected /\ a.s.p.con_fd_tmp = NO_FD
    <3>1. PICK b : b = a.s
      OBVIOUS
    <3>2. /\ Near(o, z, b) /\ b.d = s.d /\ b.p.fd \in Fds /\ b.p = [s.p EXCEPT !.fd = b.p.fd]
          /\ b.table[b.p.fd] = Open(b.d, "socket", 0)
          /\ ~b.p.connected /\ b.p.con_fd_tmp = NO_FD
      BY <2>6, <3>1
    <3>3. r \in tcp_listen(b)
      BY <2>2, <2>3, <2>6, <3>1
    <3>4. /\ Near(o, z, r.s) /\ r.s.d = b.d /\ r.s.p = b.p
          /\ r.err \in {"ECHECKERRORNO", "ENOERROR"}
          /\ b.d = "client" => r.err = "ENOERROR"
      BY <3>2, <3>3, TcpListen
    <3>5. CASE r.err = "ENOERROR"
      <4>1. out \in Accepts(r.s)
        BY <1>1, <3>5
      <4> QED
        BY <3>2, <3>4, <4>1, TcpAccepting
    <3>6. CASE r.err # "ENOERROR"
      <4>1. out = r /\ s.d = "server" /\ r.err = "ECHECKERRORNO"
        BY <1>1, <3>2, <3>4, <3>6 DEF Tcp
      <4>2. Shape(r.s.d, r.s.p)
        BY <3>2, <3>4, <4>1 DEF Shape
      <4> QED
        BY <3>2, <3>4, <4>1, <4>2 DEF Good
    <3> QED
      BY <3>5, <3>6
  <2> QED
    BY <1>2, <1>4, <2>5, <2>6, TcpResolve
<1> QED
  BY <1>3, <1>4

\* What is ready is in con_fd_tmp (tcp_device_ready).
LEMMA TcpReady ==
    ASSUME NEW o, NEW z, NEW s, Good(o, z, s), s.d \in Tcp, NEW out \in tcp_device_ready(s)
    PROVE  /\ Good(o, z, out.s) /\ out.s.d = s.d
           /\ out.err = "EREADY" => out.s.p.con_fd_tmp \in Fds /\ ~out.s.p.connected
           /\ out.err # "ENOERROR"
<1>1. s \in States /\ s.p \in Privs /\ Near(o, z, s) /\ s.p.con_fd_tmp \in Numbers
  BY StateIs, PrivIs DEF Good, Near, Fits
<1>2. CASE s.p.connected
  BY <1>2, OutIs DEF tcp_device_ready
<1>3. CASE ~s.p.connected /\ s.p.con_fd_tmp # NO_FD
  BY <1>1, <1>3, OutIs, FdsAre DEF tcp_device_ready
<1>4. CASE ~s.p.connected /\ s.p.con_fd_tmp = NO_FD
  <2>1. PICK a \in tcp_connect_peek(s) :
          out = Out(CASE a.err = "ETRYAGAIN" -> "ENOTREADY"
                      [] a.err = "ENOERROR"  -> "EREADY"
                      [] OTHER               -> a.err, a.s)
    BY <1>4 DEF tcp_device_ready
  <2>2. /\ Good(o, z, a.s) /\ a.s.d = s.d /\ ~a.s.p.connected
        /\ a.err \in {"EBADOPT", "EINVALID", "ECHECKERRORNO", "ETRYAGAIN", "ENOERROR"}
        /\ a.err = "ENOERROR" => a.s.p.con_fd_tmp \in Fds
    BY <1>4, TcpPeek
  <2>3. out.s = a.s /\ out.err # "ENOERROR" /\ (out.err = "EREADY" => a.err = "ENOERROR")
    BY <2>1, <2>2, OutIs
  <2> QED
    BY <2>2, <2>3
<1> QED
  BY <1>2, <1>3, <1>4

\* What is ready goes to a channel, and is forgotten (tcp_connect).
LEMMA TcpConnect ==
    ASSUME NEW o, NEW z, NEW s, Good(o, z, s), s.d \in Tcp, NEW out \in tcp_connect(s)
    PROVE  Good(o, z, out.s) /\ out.s.d = s.d
<1> DEFINE Construct(t) == tcp_channel_construct(t, t.p.con_fd_tmp)
           Finish(t)    == {Out("ENOERROR", HandedOver(t))}
           First        == Then(tcp_device_ready(s), "EREADY", Construct)
<1>1. PICK r \in First : IF r.err # "ENOERROR" THEN out = r ELSE out \in Finish(r.s)
  <2>1. out \in Then(First, "ENOERROR", Finish)
    BY Zenon DEF tcp_connect
  <2> QED
    BY <2>1 DEF Then
<1>2. PICK a \in tcp_device_ready(s) : IF a.err # "EREADY" THEN r = a ELSE r \in Construct(a.s)
  BY DEF Then
<1>3. /\ Good(o, z, a.s) /\ a.s.d = s.d
      /\ a.err = "EREADY" => a.s.p.con_fd_tmp \in Fds /\ ~a.s.p.connected
  BY TcpReady
<1>4. CASE a.err # "EREADY"
  <2>1. r = a /\ a.err # "ENOERROR"
    BY <1>2, <1>4, TcpReady
  <2> QED
    BY <1>1, <1>3, <2>1
<1>5. CASE a.err = "EREADY"
  <2>1. PICK b \in States : b = a.s
    BY <1>3 DEF Good, Near, Fits
  <2>2. /\ Near(o, z, b) /\ b.d = s.d /\ b.p.con_fd_tmp \in Fds /\ ~b.p.connected
        /\ (~b.half_failed => Shape(b.d, b.p)) /\ b.p \in Privs /\ b.p.alive
    BY <1>3, <1>5, <2>1, StateIs DEF Good, Near, Fits
  <2>3. r \in NewChannel(b, b.p.con_fd_tmp, b.p.con_fd_tmp)
    BY <1>2, <1>5, <2>1 DEF tcp_channel_construct
  <2>4. b.d # "ttt" /\ b.p.con_fd_tmp \in Numbers
    BY <2>2 DEF Tcp, Numbers
  <2>5. CASE r.err # "ENOERROR"
    <3>1. r.s = b
      BY <2>3, <2>4, <2>5, <2>2, PairedIs, NewChannelIs
    <3> QED
      BY <1>1, <1>3, <2>1, <2>2, <2>5, <3>1
  <2>6. CASE r.err = "ENOERROR"
    <3>1. PICK rd : rd = b.p.con_fd_tmp
      OBVIOUS
    <3>2. PICK q : q = [b.p EXCEPT !.con_fd_tmp = NO_FD, !.connected = (b.d # "server")]
      OBVIOUS
    <3>3. /\ q \in Privs /\ q.alive = b.p.alive /\ q.fd = b.p.fd /\ q.con_fd_tmp = NO_FD
          /\ q.connected = (b.d # "server")
      BY <2>2, <3>2, FdsAre DEF Privs
    <3>4. PICK t : PrivSet(t, r.s, q)
      BY DEF PrivSet
    <3>5. ~b.half_failed => /\ {rd, rd} \ {NO_FD} \subseteq Mine(b.d, b.p)
                            /\ Mine(b.d, q) = Mine(b.d, b.p) \ {rd, rd}
      <4> SUFFICES ASSUME ~b.half_failed
                   PROVE  /\ {rd, rd} \ {NO_FD} \subseteq Mine(b.d, b.p)
                          /\ Mine(b.d, q) = Mine(b.d, b.p) \ {rd, rd}
        OBVIOUS
      <4>1. Shape(b.d, b.p) /\ rd # NO_FD
        BY <2>2, <3>1, FdsAre
      <4>2. Mine(b.d, b.p) = {b.p.fd, rd} \ {NO_FD}
        BY <2>2, <3>1 DEF Mine
      <4>3. CASE b.d = "server"
        <5>1. b.p.fd # rd
          BY <3>1, <4>1, <4>3 DEF Shape
        <5>2. Mine(b.d, q) = {b.p.fd} \ {NO_FD}
          BY <2>2, <3>3, <4>3 DEF Mine
        <5> QED
          BY <4>1, <4>2, <5>1, <5>2
      <4>4. CASE b.d = "client"
        <5>1. b.p.fd = rd
          BY <2>2, <3>1, <4>1, <4>4 DEF Shape
        <5>2. Mine(b.d, q) = {}
          BY <3>3, <4>4 DEF Mine
        <5> QED
          BY <4>1, <4>2, <5>1, <5>2
      <4> QED
        BY <2>2, <4>3, <4>4 DEF Tcp
    <3>6. /\ r.s \in States /\ r.s.p = b.p /\ r.s.d = b.d
          /\ Near(o, z, t) /\ t.d = b.d /\ t.p = q
      <4>1. rd \in Numbers /\ (b.d = "server" => rd \in Fds) /\ r \in NewChannel(b, rd, rd)
        BY <2>2, <2>3, <2>4, <3>1
      <4>2. b.d \notin Tcp \/ q.connected => q.con_fd_tmp = NO_FD
        BY <3>3
      <4>3. b.d = "server" => b.p.con_fd_tmp = rd /\ q.con_fd_tmp = NO_FD
        BY <3>1, <3>3
      <4>4. q.alive /\ q \in Privs
        BY <2>2, <3>3
      <4> HIDE <3>2, <3>1
      <4> QED
        BY <2>2, <2>4, <2>6, <3>4, <3>5, PairedIs, <4>1, <4>2, <4>3, <4>4, Hands
    <3>7. Shape(t.d, t.p)
      BY <2>2, <3>3, <3>6, FdsAre DEF Shape, Tcp
    <3>8. t = HandedOver(r.s)
      <4>1. PICK y \in States : y = r.s
        BY <3>6
      <4>2. y.p = b.p /\ y.d = b.d
        BY <3>6, <4>1
      <4>3. \A x, v : [y EXCEPT !.p.con_fd_tmp = x, !.p.connected = v] =
                      State(y.d, y.table, [y.p EXCEPT !.con_fd_tmp = x, !.connected = v],
                            y.chans, y.accepted, y.served, y.half_failed)
        BY Changed
      <4>4. \A x : [y EXCEPT !.p = x] =
                   State(y.d, y.table, x, y.chans, y.accepted, y.served, y.half_failed)
        BY Changed
      <4>5. HandedOver(y) = [y EXCEPT !.p.con_fd_tmp = NO_FD, !.p.connected = (y.d # "server")]
        BY DEF HandedOver, Listens
      <4>6. t = State(y.d, y.table, q, y.chans, y.accepted, y.served, y.half_failed)
        BY <3>4, <4>1, <4>4 DEF PrivSet
      <4>7. HandedOver(y) = State(y.d, y.table, [y.p EXCEPT !.con_fd_tmp = NO_FD, !.connected = (y.d # "server")],
                            y.chans, y.accepted, y.served, y.half_failed)
        BY <4>3, <4>5
      <4> QED
        BY <3>2, <4>1, <4>2, <4>6, <4>7
    <3>9. out.s = t
      BY <1>1, <2>6, <3>8, OutIs
    <3> QED
      BY <2>2, <3>6, <3>7, <3>9 DEF Good
  <2> QED
    BY <2>5, <2>6
<1> QED
  BY <1>4, <1>5

(***************************************************************************)
(* udp, fio, stdio, mfio and ttt                                           *)
(***************************************************************************)
\* Setting a field of the private structure is setting the structure.
LEMMA SettingIs ==
    ASSUME NEW s \in States
    PROVE  /\ \A x : PrivSet([s EXCEPT !.p.rd_fd = x], s, [s.p EXCEPT !.rd_fd = x])
           /\ \A x : PrivSet([s EXCEPT !.p.wr_fd = x], s, [s.p EXCEPT !.wr_fd = x])
           /\ \A x, y : PrivSet([s EXCEPT !.p.rd_fd = x, !.p.wr_fd = y], s,
                                [s.p EXCEPT !.rd_fd = x, !.wr_fd = y])
           /\ \A x : PrivSet([s EXCEPT !.p.connected = x], s, [s.p EXCEPT !.connected = x])
<1>1. \A x : [s EXCEPT !.p = x] =
             State(s.d, s.table, x, s.chans, s.accepted, s.served, s.half_failed)
  BY Changed
<1>2. ASSUME NEW x
      PROVE  PrivSet([s EXCEPT !.p.rd_fd = x], s, [s.p EXCEPT !.rd_fd = x])
  <2>1. \A y : [s EXCEPT !.p.rd_fd = y] =
               State(s.d, s.table, [s.p EXCEPT !.rd_fd = y], s.chans, s.accepted, s.served,
                     s.half_failed)
    BY Changed
  <2> QED
    BY <1>1, <2>1 DEF PrivSet
<1>3. ASSUME NEW x
      PROVE  PrivSet([s EXCEPT !.p.wr_fd = x], s, [s.p EXCEPT !.wr_fd = x])
  <2>1. \A y : [s EXCEPT !.p.wr_fd = y] =
               State(s.d, s.table, [s.p EXCEPT !.wr_fd = y], s.chans, s.accepted, s.served,
                     s.half_failed)
    BY Changed
  <2> QED
    BY <1>1, <2>1 DEF PrivSet
<1>4. ASSUME NEW x, NEW y
      PROVE  PrivSet([s EXCEPT !.p.rd_fd = x, !.p.wr_fd = y], s,
                     [s.p EXCEPT !.rd_fd = x, !.wr_fd = y])
  <2>1. \A v, w : [s EXCEPT !.p.rd_fd = v, !.p.wr_fd = w] =
               State(s.d, s.table, [s.p EXCEPT !.rd_fd = v, !.wr_fd = w], s.chans, s.accepted,
                     s.served, s.half_failed)
    BY Changed
  <2> QED
    BY <1>1, <2>1 DEF PrivSet
<1>5. ASSUME NEW x
      PROVE  PrivSet([s EXCEPT !.p.connected = x], s, [s.p EXCEPT !.connected = x])
  <2>1. \A y : [s EXCEPT !.p.connected = y] =
               State(s.d, s.table, [s.p EXCEPT !.connected = y], s.chans, s.accepted, s.served,
                     s.half_failed)
    BY Changed
  <2> QED
    BY <1>1, <2>1 DEF PrivSet
<1> QED
  BY <1>2, <1>3, <1>4, <1>5

\* A call that opens a descriptor and keeps it in the private structure.
LEMMA OpenSet ==
    ASSUME NEW o, NEW z, NEW s, Near(o, z, s), s.d \notin Tcp, NEW role \in Roles,
           NEW x \in Opened(s, role, 0),
           NEW q \in Privs, q.alive, q.con_fd_tmp = NO_FD,
           ~s.half_failed => Mine(s.d, q) = Mine(s.d, s.p) \cup {x.fd},
           NEW t, PrivSet(t, x.s, q)
    PROVE  Near(o, z, t) /\ t.d = s.d /\ t.p = q /\ t.half_failed = s.half_failed
<1>1. /\ s \in States /\ s.d = z.d /\ s.d \in Kinds /\ s.table \in [Fds -> Entries]
      /\ s.accepted \in 0..MaxConns
  <2>1. s \in States /\ s.d = z.d
    BY DEF Near, Fits
  <2> QED
    BY <2>1, StateIs
<1>2. PICK e : e = Open(s.d, role, 0)
  OBVIOUS
<1>3. PICK f : f = x.fd
  OBVIOUS
<1>4. PICK tab : SetAt(tab, s.table, f, e)
  BY DEF SetAt
<1>5. 0 \in 0..MaxConns
  BY FdsAre
<1>6. /\ f \in Fds /\ s.table[f] = Free
      /\ x.s = State(s.d, tab, s.p, s.chans, s.accepted, s.served, s.half_failed)
      /\ x.s \in States
  BY <1>1, <1>2, <1>3, <1>4, <1>5, OpenedIs DEF SetAt
<1>7. e \in Entries /\ e.owner = s.d
  BY <1>1, <1>2, <1>5, OpenIs
<1>8. t = State(s.d, tab, q, s.chans, s.accepted, s.served, s.half_failed)
  <2>1. PICK y \in States : y = x.s
    BY <1>6
  <2>2. \A g : [y EXCEPT !.p = g] =
               State(y.d, y.table, g, y.chans, y.accepted, y.served, y.half_failed)
    BY Changed
  <2>3. /\ y.d = s.d /\ y.table = tab /\ y.chans = s.chans
        /\ y.accepted = s.accepted /\ y.served = s.served /\ y.half_failed = s.half_failed
    BY <1>6, <2>1 DEF State
  <2> QED
    BY <2>1, <2>2, <2>3 DEF PrivSet
<1>9. ~s.half_failed => Counted(s.d, tab, q, s.accepted, s.served)
  BY DEF Near, Counted, Tcp
<1>10. ~s.half_failed => Mine(s.d, q) = Mine(s.d, s.p) \cup {f}
  BY <1>3
<1> HIDE <1>2, <1>3
<1> QED
  BY <1>1, <1>4, <1>6, <1>7, <1>8, <1>9, <1>10, OpenNear

\* What is left of connect() when its channel is made, or has failed.
Finishes(r, out) == IF r.err # "ENOERROR" THEN out = r ELSE out \in Connected(r.s)

NowConnected(q, p) == q = [p EXCEPT !.connected = TRUE]

\* connect() that has come to b is over, with c.
Rested(o, z, b, c) ==
    /\ Near(o, z, c) /\ c.d = b.d /\ c.half_failed = b.half_failed
    /\ c = b \/ NowConnected(c.p, b.p)

\* connect() of these devices, once they have what the channel is made of.
LEMMA ConnectRest ==
    ASSUME NEW o, NEW z, NEW s, Near(o, z, s), s.d \notin Tcp, s.d # "ttt", ~s.p.connected,
           NEW rd \in Numbers, NEW wr \in Numbers, Paired(s.d, rd, wr),
           ~s.half_failed => Mine(s.d, s.p) = {rd, wr} \ {NO_FD},
           NEW r \in NewChannel(s, rd, wr),
           NEW out, Finishes(r, out)
    PROVE  Rested(o, z, s, out.s)
<1> SUFFICES /\ Near(o, z, out.s) /\ out.s.d = s.d
             /\ out.s.half_failed = s.half_failed
             /\ out.s = s \/ NowConnected(out.s.p, s.p)
  BY DEF Rested
<1>1. /\ s \in States /\ s.d = z.d /\ s.d \in Kinds /\ s.p \in Privs /\ s.p.alive
      /\ s.p.con_fd_tmp = NO_FD
  <2>1. s \in States /\ s.d = z.d /\ s.p.alive /\ s.p.con_fd_tmp = NO_FD
    BY DEF Near, Fits
  <2> QED
    BY <2>1, StateIs
<1>2. s.d # "server"
  BY DEF Tcp
<1>3. CASE r.err # "ENOERROR"
  <2>1. r.s = s
    BY <1>1, <1>2, <1>3, NewChannelIs
  <2> QED
    BY <1>3, <2>1 DEF Finishes
<1>4. CASE r.err = "ENOERROR"
  <2>1. PICK q : q = [s.p EXCEPT !.connected = TRUE]
    OBVIOUS
  <2>2. q \in Privs /\ q.alive = s.p.alive /\ q.con_fd_tmp = s.p.con_fd_tmp /\ q.connected = TRUE
    BY <1>1, <2>1 DEF Privs
  <2>3. q.alive /\ q.con_fd_tmp = NO_FD /\ q.connected
    BY <1>1, <2>2
  <2>4. Mine(s.d, q) = {}
    BY <2>3 DEF Mine
  <2>5. ~s.half_failed => /\ {rd, wr} \ {NO_FD} \subseteq Mine(s.d, s.p)
                          /\ Mine(s.d, q) = Mine(s.d, s.p) \ {rd, wr}
    BY <2>4
  <2>6. PICK t : PrivSet(t, r.s, q)
    BY DEF PrivSet
  <2>7. /\ r.s \in States /\ r.s.p = s.p /\ r.s.d = s.d
        /\ Near(o, z, t) /\ t.d = s.d /\ t.p = q /\ t.half_failed = s.half_failed
    <3> HIDE <2>1
    <3> QED
      BY <1>2, <1>4, <2>2, <2>3, <2>5, <2>6, Hands
  <2>8. t = [r.s EXCEPT !.p.connected = TRUE]
    <3>1. PICK y \in States : y = r.s
      BY <2>7
    <3>2. y.p = s.p
      BY <2>7, <3>1
    <3>3. PrivSet([y EXCEPT !.p.connected = TRUE], y, [y.p EXCEPT !.connected = TRUE])
      BY SettingIs
    <3> QED
      BY <2>1, <2>6, <3>1, <3>2, <3>3 DEF PrivSet
  <2>9. out.s = t
    BY <1>4, <2>8, OutIs DEF Connected, Finishes
  <2> QED
    BY <2>1, <2>7, <2>9 DEF NowConnected
<1> QED
  BY <1>3, <1>4

\* A socket is opened, or everything is as it was (udp_resolve).
LEMMA UdpResolve ==
    ASSUME NEW s \in States, NEW role \in Roles, NEW r \in udp_resolve(s, role)
    PROVE  \/ r.fd = NO_FD /\ r.s = s
           \/ r \in Opened(s, role, 0) /\ r.fd \in Fds /\ r.fd # NO_FD
<1>1. 0 \in 0..MaxConns
  BY FdsAre
<1>2. CASE r = [fd |-> NO_FD, s |-> s]
  BY <1>2
<1>3. CASE \E x \in Opened(s, role, 0) : r = [fd |-> NO_FD, s |-> Close(x.s, x.fd)]
  <2>1. PICK x \in Opened(s, role, 0) : r = [fd |-> NO_FD, s |-> Close(x.s, x.fd)]
    BY <1>3
  <2>2. Close(x.s, x.fd) = s
    BY <1>1, OpenedIs
  <2> QED
    BY <2>1, <2>2, SMTT(30)
<1>4. CASE r \in Opened(s, role, 0)
  BY <1>1, <1>4, OpenedIs, FdsAre
<1> QED
  BY <1>2, <1>3, <1>4 DEF udp_resolve

\* close() keeps the rest of the state.
LEMMA CloseIs ==
    ASSUME NEW s \in States, NEW f
    PROVE  \E tab \in [Fds -> Entries] :
             /\ Close(s, f) = State(s.d, tab, s.p, s.chans, s.accepted, s.served, s.half_failed)
             /\ \A g \in Fds : tab[g] = IF g = f THEN Free ELSE s.table[g]
<1>1. s.table \in [Fds -> Entries] /\ Free \in Entries
  BY StateIs DEF Entries
<1>2. CASE f \in Fds
  <2>1. PICK tab : tab = [s.table EXCEPT ![f] = Free]
    OBVIOUS
  <2>2. \A g, e : [s EXCEPT !.table[g] = e] =
          State(s.d, [s.table EXCEPT ![g] = e], s.p, s.chans, s.accepted, s.served, s.half_failed)
    BY Changed
  <2>3. Close(s, f) = State(s.d, tab, s.p, s.chans, s.accepted, s.served, s.half_failed)
    BY <1>2, <2>1, <2>2 DEF Close
  <2>4. tab \in [Fds -> Entries] /\ \A g \in Fds : tab[g] = IF g = f THEN Free ELSE s.table[g]
    BY <1>1, <2>1
  <2> QED
    BY <2>3, <2>4
<1>3. CASE f \notin Fds
  <2>1. Close(s, f) = State(s.d, s.table, s.p, s.chans, s.accepted, s.served, s.half_failed)
    BY <1>3, StateIs DEF Close
  <2> QED
    BY <1>1, <1>3, <2>1
<1> QED
  BY <1>2, <1>3

\* Opening a descriptor changes nothing but the table.
LEMMA OpenedKeeps ==
    ASSUME NEW s \in States, NEW role \in Roles, NEW x \in Opened(s, role, 0)
    PROVE  x.s \in States /\ x.s.p = s.p /\ x.s.d = s.d /\ x.fd \in Fds /\ x.fd # NO_FD
<1>1. 0 \in 0..MaxConns
  BY FdsAre
<1>2. /\ x.fd \in Fds /\ x.s \in States
      /\ x.s = State(s.d, [s.table EXCEPT ![x.fd] = Open(s.d, role, 0)], s.p, s.chans,
                     s.accepted, s.served, s.half_failed)
  BY <1>1, OpenedIs
<1>3. x.s.p = s.p /\ x.s.d = s.d
  BY <1>2 DEF State
<1> QED
  BY <1>2, <1>3, FdsAre

\* What is left of a udp device that has failed half-way.
LEMMA UdpTearDown ==
    ASSUME NEW o, NEW z, NEW s \in States, s.p.alive, s.p.con_fd_tmp = NO_FD, s.d = z.d
    PROVE  Good(o, z, udp_tear_down(s)) /\ udp_tear_down(s).d = s.d
<1>1. /\ s.d \in Kinds /\ s.p \in Privs /\ s.chans \in Seq(Channels) /\ s.accepted \in 0..MaxConns
      /\ s.served \in Served /\ s.table \in [Fds -> Entries]
  BY StateIs
<1>2. PICK q \in Privs, tab \in [Fds -> Entries] :
        /\ q.alive /\ q.con_fd_tmp = NO_FD
        /\ udp_tear_down(s) = State(s.d, tab, q, s.chans, s.accepted, s.served, TRUE)
  <2>1. CASE s.p.rd_fd = 0
    <3>1. \A x : [s EXCEPT !.half_failed = x] =
                 State(s.d, s.table, s.p, s.chans, s.accepted, s.served, x)
      BY Changed
    <3>2. udp_tear_down(s) = State(s.d, s.table, s.p, s.chans, s.accepted, s.served, TRUE)
      BY <2>1, <3>1 DEF udp_tear_down
    <3> QED
      BY <1>1, <3>2
  <2>2. CASE s.p.rd_fd # 0
    <3>1. PICK f : f = IF s.p.rd_fd > -1 THEN 1 ELSE 0
      OBVIOUS
    <3>2. PICK tab \in [Fds -> Entries] :
            Close(s, f) = State(s.d, tab, s.p, s.chans, s.accepted, s.served, s.half_failed)
      BY CloseIs
    <3>3. PICK y : y = Close(s, f)
      OBVIOUS
    <3>4. /\ y \in States /\ y.d = s.d /\ y.table = tab /\ y.p = s.p /\ y.chans = s.chans
          /\ y.accepted = s.accepted /\ y.served = s.served /\ y.half_failed = s.half_failed
      <4>1. y = State(s.d, tab, s.p, s.chans, s.accepted, s.served, s.half_failed)
        BY <3>2, <3>3
      <4>2. s.half_failed \in BOOLEAN
        BY StateIs
      <4> HIDE <3>3
      <4> QED
        BY <1>1, <4>1, <4>2, Made
    <3>5. \A x, v : [y EXCEPT !.p.rd_fd = x, !.half_failed = v] =
                State(y.d, y.table, [y.p EXCEPT !.rd_fd = x], y.chans,
                      y.accepted, y.served, v)
      BY <3>4, Changed
    <3>6. PICK q : q = [s.p EXCEPT !.rd_fd = NO_FD]
      OBVIOUS
    <3>7. q \in Privs /\ q.alive = s.p.alive /\ q.con_fd_tmp = s.p.con_fd_tmp
      BY <1>1, <3>6, FdsAre DEF Privs
    <3>8. udp_tear_down(s) = [y EXCEPT !.p.rd_fd = NO_FD, !.half_failed = TRUE]
      BY <2>2, <3>1, <3>3 DEF udp_tear_down
    <3>9. udp_tear_down(s) = State(s.d, tab, q, s.chans, s.accepted, s.served, TRUE)
      <4>1. [y EXCEPT !.p.rd_fd = NO_FD, !.half_failed = TRUE] =
                State(y.d, y.table, [y.p EXCEPT !.rd_fd = NO_FD], y.chans,
                      y.accepted, y.served, TRUE)
        BY <3>5
      <4> QED
        BY <3>4, <3>6, <3>8, <4>1
    <3>10. q.alive /\ q.con_fd_tmp = NO_FD /\ q \in Privs
      BY <3>7
    <3> HIDE <3>6, <3>3, <3>1
    <3> QED
      BY <3>9, <3>10
  <2> QED
    BY <2>1, <2>2
<1>3. PICK t : t = udp_tear_down(s)
  OBVIOUS
<1>4. /\ t \in States /\ t.d = s.d /\ t.p = q /\ t.half_failed
  <2>1. t = State(s.d, tab, q, s.chans, s.accepted, s.served, TRUE)
    BY <1>2, <1>3
  <2> HIDE <1>3
  <2>2. TRUE \in BOOLEAN
    OBVIOUS
  <2>3. /\ t \in States /\ t.d = s.d /\ t.p = q /\ t.half_failed = TRUE
    BY <1>1, <1>2, <2>1, <2>2 DEF State, States
  <2> QED
    BY <2>3
<1>5. Good(o, z, t)
  BY <1>2, <1>4 DEF Good, Near, Fits
<1> QED
  BY <1>3, <1>4, <1>5

\* Both sockets are opened, or the device has failed half-way (udp_connect_peek).
LEMMA UdpPeek ==
    ASSUME NEW o, NEW z, NEW s, Good(o, z, s), s.d = "udp", NEW out \in udp_connect_peek(s)
    PROVE  /\ Good(o, z, out.s) /\ out.s.d = s.d
           /\ out.err = "ENOERROR" => ~out.s.p.connected
<1>1. /\ s \in States /\ s.d = z.d /\ s.p \in Privs /\ s.p.alive /\ Near(o, z, s)
      /\ s.p.con_fd_tmp = NO_FD /\ s.d \notin Tcp
  <2>1. s \in States /\ s.d = z.d /\ s.p.alive /\ s.p.con_fd_tmp = NO_FD /\ Near(o, z, s)
    BY DEF Good, Near, Fits, Tcp
  <2> QED
    BY <2>1, StateIs DEF Tcp
<1>2. \A t : Near(o, z, t) /\ t.d = s.d => Good(o, z, t)
  BY DEF Good, Shape
<1>3. CASE s.p.connected
  <2>1. out = Out("EALLREADYCONNECTED", s)
    BY <1>3 DEF udp_connect_peek
  <2> QED
    BY <2>1, OutIs
<1>4. CASE ~s.p.connected /\ (s.p.rd_fd > -1 \/ s.p.wr_fd > -1)
  <2>1. out = Out("ENOERROR", s)
    BY <1>4 DEF udp_connect_peek
  <2> QED
    BY <1>4, <2>1, OutIs
<1>5. CASE ~s.p.connected /\ ~(s.p.rd_fd > -1 \/ s.p.wr_fd > -1)
  <2>1. PICK rd \in udp_resolve(s, "rd") :
          out \in IF rd.fd = NO_FD THEN {Out("EINVALID", rd.s)}
                  ELSE {IF wr.fd = NO_FD THEN Out("EINVALID", udp_tear_down(wr.s))
                        ELSE Out("ENOERROR", [wr.s EXCEPT !.p.wr_fd = wr.fd]) :
                          wr \in udp_resolve([rd.s EXCEPT !.p.rd_fd = rd.fd], "wr")}
    BY <1>5, Zenon DEF udp_connect_peek
  <2>2. "rd" \in Roles /\ "wr" \in Roles
    BY DEF Roles
  <2>3. s.p.rd_fd = NO_FD /\ s.p.wr_fd = NO_FD
    BY <1>1, <1>5, PrivIs, FdsAre
  <2>4. CASE rd.fd = NO_FD
    <3>1. rd.s = s
      BY <1>1, <2>2, <2>4, UdpResolve
    <3> QED
      BY <2>1, <2>4, <3>1, OutIs
  <2>5. CASE rd.fd # NO_FD
    <3>1. rd \in Opened(s, "rd", 0) /\ rd.fd \in Fds
      BY <1>1, <2>2, <2>5, UdpResolve
    <3>2. rd.s \in States /\ rd.s.p = s.p /\ rd.s.d = s.d
      BY <1>1, <2>2, <3>1, OpenedKeeps
    <3>3. PICK f : f = rd.fd
      OBVIOUS
    <3>4. PICK q : q = [s.p EXCEPT !.rd_fd = f]
      OBVIOUS
    <3>5. /\ q \in Privs /\ q.alive = s.p.alive /\ q.con_fd_tmp = s.p.con_fd_tmp
          /\ q.connected = s.p.connected /\ q.rd_fd = f /\ q.wr_fd = s.p.wr_fd
      BY <1>1, <3>1, <3>3, <3>4 DEF Privs, Numbers
    <3>6. Mine(s.d, q) = Mine(s.d, s.p) \cup {f}
      BY <1>1, <1>5, <2>3, <2>5, <3>3, <3>5 DEF Mine
    <3>7. PICK t : t = [rd.s EXCEPT !.p.rd_fd = f]
      OBVIOUS
    <3>8. PrivSet(t, rd.s, q)
      <4>1. PrivSet([rd.s EXCEPT !.p.rd_fd = f], rd.s, [rd.s.p EXCEPT !.rd_fd = f])
        BY <3>2, SettingIs
      <4> QED
        BY <3>2, <3>4, <3>7, <4>1
    <3>9. Near(o, z, t) /\ t.d = s.d /\ t.p = q
      <4>1. q \in Privs /\ q.alive /\ q.con_fd_tmp = NO_FD
        BY <1>1, <3>5
      <4>2. ~s.half_failed => Mine(s.d, q) = Mine(s.d, s.p) \cup {rd.fd}
        BY <3>3, <3>6
      <4> HIDE <3>3, <3>4, <3>7
      <4> QED
        BY <1>1, <2>2, <3>1, <3>8, <4>1, <4>2, OpenSet
    <3>10. t \in States
      BY <3>9 DEF Near, Fits
    <3>11. PICK wr \in udp_resolve(t, "wr") :
             out = IF wr.fd = NO_FD THEN Out("EINVALID", udp_tear_down(wr.s))
                   ELSE Out("ENOERROR", [wr.s EXCEPT !.p.wr_fd = wr.fd])
      BY <2>1, <2>5, <3>3, <3>7
    <3> HIDE <3>7, <3>4, <3>3
    <3>12. CASE wr.fd = NO_FD
      <4>1. wr.s = t
        BY <2>2, <3>10, <3>12, UdpResolve
      <4>2. out = Out("EINVALID", udp_tear_down(t))
        BY <3>11, <3>12, <4>1
      <4>3. t.p.alive /\ t.p.con_fd_tmp = NO_FD /\ t.d = z.d
        BY <1>1, <3>5, <3>9
      <4>4. Good(o, z, udp_tear_down(t)) /\ udp_tear_down(t).d = t.d
        BY <3>10, <4>3, UdpTearDown
      <4> QED
        BY <3>9, <4>2, <4>4, OutIs
    <3>13. CASE wr.fd # NO_FD
      <4>1. wr \in Opened(t, "wr", 0) /\ wr.fd \in Fds
        BY <2>2, <3>10, <3>13, UdpResolve
      <4>2. wr.s \in States /\ wr.s.p = t.p /\ wr.s.d = t.d
        BY <2>2, <3>10, <4>1, OpenedKeeps
      <4>3. PICK g : g = wr.fd
        OBVIOUS
      <4>4. PICK v : v = [q EXCEPT !.wr_fd = g]
        OBVIOUS
      <4>5. /\ v \in Privs /\ v.alive = q.alive /\ v.con_fd_tmp = q.con_fd_tmp
            /\ v.connected = q.connected /\ v.rd_fd = q.rd_fd /\ v.wr_fd = g
        BY <3>5, <4>1, <4>3, <4>4 DEF Privs, Numbers
      <4>6. Mine(t.d, v) = Mine(t.d, q) \cup {g}
        BY <1>1, <1>5, <2>3, <3>5, <3>9, <3>13, <4>3, <4>5 DEF Mine
      <4>7. PICK u : u = [wr.s EXCEPT !.p.wr_fd = g]
        OBVIOUS
      <4>8. PrivSet(u, wr.s, v)
        <5>1. PrivSet([wr.s EXCEPT !.p.wr_fd = g], wr.s, [wr.s.p EXCEPT !.wr_fd = g])
          BY <4>2, SettingIs
        <5> QED
          BY <3>9, <4>2, <4>4, <4>7, <5>1
      <4>9. Near(o, z, u) /\ u.d = t.d /\ u.p = v
        <5>1. v \in Privs /\ v.alive /\ v.con_fd_tmp = NO_FD /\ t.d \notin Tcp
          BY <1>1, <3>5, <3>9, <4>5
        <5>2. ~t.half_failed => Mine(t.d, v) = Mine(t.d, t.p) \cup {wr.fd}
          BY <3>9, <4>3, <4>6
        <5> HIDE <4>3, <4>4, <4>7
        <5> QED
          BY <2>2, <3>9, <4>1, <4>8, <5>1, <5>2, OpenSet
      <4>10. out = Out("ENOERROR", u)
        BY <3>11, <3>13, <4>3, <4>7
      <4>11. ~u.p.connected
        BY <1>5, <3>5, <4>5, <4>9
      <4> HIDE <4>7
      <4> QED
        BY <1>2, <3>9, <4>9, <4>10, <4>11, OutIs
    <3> QED
      BY <3>12, <3>13
  <2> QED
    BY <2>4, <2>5
<1> QED
  BY <1>3, <1>4, <1>5

\* What is known of a device of another kind than tcp, during a call.
LEMMA Parts ==
    ASSUME NEW o, NEW z, NEW s, Good(o, z, s), s.d \notin Tcp
    PROVE  /\ s \in States /\ s.d = z.d /\ s.d \in Kinds /\ s.p \in Privs /\ s.p.alive
           /\ Near(o, z, s) /\ s.p.con_fd_tmp = NO_FD
           /\ s.p.rd_fd \in Numbers /\ s.p.wr_fd \in Numbers
           /\ ~s.half_failed => Shape(s.d, s.p)
<1>1. s \in States /\ s.d = z.d /\ s.p.alive /\ s.p.con_fd_tmp = NO_FD /\ Near(o, z, s)
      /\ (~s.half_failed => Shape(s.d, s.p))
  BY DEF Good, Near, Fits
<1>2. s.p \in Privs /\ s.d \in Kinds
  BY <1>1, StateIs
<1> QED
  BY <1>1, <1>2, PrivIs

\* udp_device_ready.
LEMMA UdpReady ==
    ASSUME NEW o, NEW z, NEW s, Good(o, z, s), s.d = "udp", NEW out \in udp_device_ready(s)
    PROVE  Good(o, z, out.s) /\ out.s.d = s.d
<1>1. CASE s.p.rd_fd > -1 \/ s.p.wr_fd > -1
  <2>1. out = Out("EREADY", s)
    BY <1>1 DEF udp_device_ready
  <2> QED
    BY <2>1, OutIs
<1>2. CASE ~(s.p.rd_fd > -1 \/ s.p.wr_fd > -1)
  <2>1. PICK a \in udp_connect_peek(s) :
          out = Out(IF a.err = "ENOERROR" THEN "EREADY" ELSE a.err, a.s)
    BY <1>2 DEF udp_device_ready
  <2>2. out.s = a.s
    BY <2>1, OutIs
  <2> QED
    BY <2>2, UdpPeek
<1> QED
  BY <1>1, <1>2

\* Both sockets go to the channel (udp_connect).
LEMMA UdpConnect ==
    ASSUME NEW o, NEW z, NEW s, Good(o, z, s), s.d = "udp", NEW out \in udp_connect(s)
    PROVE  Good(o, z, out.s) /\ out.s.d = s.d
<1> DEFINE Construct(t) == udp_channel_construct(t, t.p.rd_fd, t.p.wr_fd)
           First        == Then(udp_connect_peek(s), "ENOERROR", Construct)
<1>1. PICK r \in First : Finishes(r, out)
  <2>1. out \in Then(First, "ENOERROR", Connected)
    BY Zenon DEF udp_connect
  <2> QED
    BY <2>1 DEF Then, Finishes
<1>2. PICK a \in udp_connect_peek(s) : IF a.err # "ENOERROR" THEN r = a ELSE r \in Construct(a.s)
  BY DEF Then
<1>3. PICK b : b = a.s
  OBVIOUS
<1>4. /\ Good(o, z, b) /\ b.d = s.d
      /\ a.err = "ENOERROR" => ~b.p.connected
  BY <1>3, UdpPeek
<1>5. CASE a.err # "ENOERROR"
  BY <1>1, <1>2, <1>3, <1>4, <1>5 DEF Finishes
<1>6. CASE a.err = "ENOERROR"
  <2>1. r \in NewChannel(b, b.p.rd_fd, b.p.wr_fd)
    BY <1>2, <1>3, <1>6 DEF udp_channel_construct
  <2>2. b.d \notin Tcp /\ b.d # "ttt"
    BY <1>4 DEF Tcp
  <2>3. /\ b.p.rd_fd \in Numbers /\ b.p.wr_fd \in Numbers /\ b.p.alive /\ Near(o, z, b)
    BY <1>4, <2>2, Parts
  <2>4. Mine(b.d, b.p) = {b.p.rd_fd, b.p.wr_fd} \ {NO_FD}
    BY <1>4, <1>6, <2>2, <2>3 DEF Mine
  <2>5. Rested(o, z, b, out.s)
    <3>1. PICK rd, wr : rd = b.p.rd_fd /\ wr = b.p.wr_fd
      OBVIOUS
    <3>2. /\ rd \in Numbers /\ wr \in Numbers /\ r \in NewChannel(b, rd, wr)
          /\ Mine(b.d, b.p) = {rd, wr} \ {NO_FD}
      BY <2>1, <2>3, <2>4, <3>1
    <3>3. Near(o, z, b) /\ ~b.p.connected /\ Finishes(r, out)
      BY <1>1, <1>4, <1>6, <2>3
    <3>4. \A x, y : Paired(b.d, x, y)
      BY <1>4, PairedIs
    <3> HIDE <1>3, <3>1
    <3> QED
      BY <2>2, <3>2, <3>3, <3>4, ConnectRest
  <2> QED
    BY <1>4, <2>5 DEF Good, Shape, Rested
<1> QED
  BY <1>5, <1>6

\* A file or a standard stream opens at most one descriptor, for the directions
\* that have none (fio_connect_peek).
LEMMA FioPeek ==
    ASSUME NEW o, NEW z, NEW s, Good(o, z, s), s.d \in {"fio", "stdio"},
           NEW out \in fio_connect_peek(s)
    PROVE  /\ Good(o, z, out.s) /\ out.s.d = s.d
           /\ out.err = "ENOERROR" => Populated(out.s.p)
<1>1. /\ s.d \notin Tcp /\ s \in States /\ s.d = z.d /\ s.d \in Kinds /\ s.p \in Privs /\ s.p.alive
      /\ Near(o, z, s) /\ s.p.con_fd_tmp = NO_FD
      /\ s.p.rd_fd \in Numbers /\ s.p.wr_fd \in Numbers
      /\ ~s.half_failed => Shape(s.d, s.p)
  <2>1. s.d \notin Tcp
    BY DEF Tcp
  <2> QED
    BY <2>1, Parts
<1>2. CASE Populated(s.p)
  <2>1. out = Out("ENOERROR", s)
    BY <1>2 DEF fio_connect_peek
  <2> QED
    BY <1>2, <2>1, OutIs
<1>3. CASE ~Populated(s.p) /\ out = Out("EINVALID", s)
  BY <1>3, OutIs
<1>4. CASE /\ ~Populated(s.p)
           /\ \E x \in Opened(s, "file", 0) :
                out = Out("ENOERROR", [x.s EXCEPT !.p.rd_fd = IF @ < 0 THEN x.fd ELSE @,
                                                  !.p.wr_fd = IF @ < 0 THEN x.fd ELSE @])
  <2>1. PICK x \in Opened(s, "file", 0) :
                out = Out("ENOERROR", [x.s EXCEPT !.p.rd_fd = IF @ < 0 THEN x.fd ELSE @,
                                                  !.p.wr_fd = IF @ < 0 THEN x.fd ELSE @])
    BY <1>4
  <2>2. "file" \in Roles
    BY DEF Roles
  <2>3. x.s \in States /\ x.s.p = s.p /\ x.fd \in Fds /\ x.fd # NO_FD
    BY <1>1, <2>2, OpenedKeeps
  <2>4. PICK f : f = x.fd
    OBVIOUS
  <2>5. PICK rd : rd = IF s.p.rd_fd < 0 THEN f ELSE s.p.rd_fd
    OBVIOUS
  <2>6. PICK wr : wr = IF s.p.wr_fd < 0 THEN f ELSE s.p.wr_fd
    OBVIOUS
  <2>7. rd \in Fds /\ wr \in Fds /\ rd > -1 /\ wr > -1 /\ rd \in Numbers /\ wr \in Numbers
    <3>1. \A n \in Numbers : n < 0 \/ n \in Fds
      BY DevicesAssumption DEF Numbers, NO_FD, Fds
    <3>2. \A n \in Fds : n > -1 /\ n \in Numbers
      BY FdsAre DEF Numbers
    <3> QED
      BY <1>1, <2>3, <2>4, <2>5, <2>6, <3>1, <3>2
  <2>8. PICK q : q = [s.p EXCEPT !.rd_fd = rd, !.wr_fd = wr]
    OBVIOUS
  <2>9. /\ q \in Privs /\ q.alive = s.p.alive /\ q.con_fd_tmp = s.p.con_fd_tmp
        /\ q.connected = s.p.connected /\ q.rd_fd = rd /\ q.wr_fd = wr
    BY <1>1, <2>7, <2>8 DEF Privs
  <2>10. Populated(q)
    BY <2>7, <2>9 DEF Populated
  <2>11. ASSUME ~s.half_failed PROVE Mine(s.d, q) = Mine(s.d, s.p) \cup {f}
    <3>1. ~s.p.connected
      BY <1>1, <1>4, <2>11 DEF Shape
    <3>2. s.p.rd_fd = NO_FD \/ s.p.wr_fd = NO_FD
      BY <1>1, <1>4, FdsAre DEF Populated
    <3>3. /\ s.p.rd_fd = NO_FD => rd = f
          /\ s.p.rd_fd # NO_FD => rd = s.p.rd_fd
          /\ s.p.wr_fd = NO_FD => wr = f
          /\ s.p.wr_fd # NO_FD => wr = s.p.wr_fd
      <4>1. NO_FD < 0 /\ \A n \in Numbers : n # NO_FD => ~(n < 0)
        BY DevicesAssumption DEF Numbers, NO_FD, Fds
      <4> QED
        BY <1>1, <2>5, <2>6, <4>1
    <3>4. Mine(s.d, q) = {rd, wr} \ {NO_FD} /\ Mine(s.d, s.p) = {s.p.rd_fd, s.p.wr_fd} \ {NO_FD}
      BY <1>1, <2>9, <3>1 DEF Mine
    <3> QED
      BY <2>3, <2>4, <3>2, <3>3, <3>4
  <2>12. PICK t : t = [x.s EXCEPT !.p.rd_fd = rd, !.p.wr_fd = wr]
    OBVIOUS
  <2>13. PrivSet(t, x.s, q)
    <3>1. PrivSet([x.s EXCEPT !.p.rd_fd = rd, !.p.wr_fd = wr], x.s,
                  [x.s.p EXCEPT !.rd_fd = rd, !.wr_fd = wr])
      BY <2>3, SettingIs
    <3> QED
      BY <2>3, <2>8, <2>12, <3>1
  <2>14. out = Out("ENOERROR", t)
    <3>1. PICK y \in States : y = x.s
      BY <2>3
    <3>2. [y EXCEPT !.p.rd_fd = IF @ < 0 THEN f ELSE @, !.p.wr_fd = IF @ < 0 THEN f ELSE @] =
          [y EXCEPT !.p.rd_fd = IF y.p.rd_fd < 0 THEN f ELSE y.p.rd_fd,
                    !.p.wr_fd = IF y.p.wr_fd < 0 THEN f ELSE y.p.wr_fd]
      <4>1. y.p \in Privs
        BY StateIs
      <4> QED
        BY <4>1 DEF States, Privs
    <3>3. y.p = s.p
      BY <2>3, <3>1
    <3> QED
      BY <2>1, <2>4, <2>5, <2>6, <2>12, <3>1, <3>2, <3>3
  <2>15. Near(o, z, t) /\ t.d = s.d /\ t.p = q
    <3>1. q.alive /\ q.con_fd_tmp = NO_FD /\ q \in Privs
      BY <1>1, <2>9
    <3>2. ~s.half_failed => Mine(s.d, q) = Mine(s.d, s.p) \cup {x.fd}
      BY <2>4, <2>11
    <3> HIDE <2>4, <2>5, <2>6, <2>8, <2>12
    <3> QED
      BY <1>1, <2>2, <2>13, <3>1, <3>2, OpenSet
  <2>16. Good(o, z, t)
    BY <1>1, <2>10, <2>15 DEF Good, Shape
  <2> HIDE <2>12
  <2> QED
    BY <2>10, <2>14, <2>15, <2>16, OutIs
<1>5. \/ Populated(s.p)
      \/ ~Populated(s.p) /\ out = Out("EINVALID", s)
      \/ /\ ~Populated(s.p)
         /\ \E x \in Opened(s, "file", 0) :
              out = Out("ENOERROR", [x.s EXCEPT !.p.rd_fd = IF @ < 0 THEN x.fd ELSE @,
                                                !.p.wr_fd = IF @ < 0 THEN x.fd ELSE @])
  BY Zenon DEF fio_connect_peek
<1> QED
  BY <1>2, <1>3, <1>4, <1>5

\* fio_device_ready.
LEMMA FioReady ==
    ASSUME NEW o, NEW z, NEW s, Good(o, z, s), s.d \in {"fio", "stdio"},
           NEW out \in fio_device_ready(s)
    PROVE  Good(o, z, out.s) /\ out.s.d = s.d
<1>1. CASE s.p.connected
  <2>1. out = Out("ENOMORE", s)
    BY <1>1 DEF fio_device_ready
  <2> QED
    BY <2>1, OutIs
<1>2. CASE ~s.p.connected
  <2>1. PICK a \in fio_connect_peek(s) :
          out = Out(IF a.err = "ENOERROR" THEN "EREADY" ELSE a.err, a.s)
    BY <1>2 DEF fio_device_ready
  <2>2. out.s = a.s
    BY <2>1, OutIs
  <2> QED
    BY <2>2, FioPeek
<1> QED
  BY <1>1, <1>2

\* What a file has open goes to the channel (fio_connect).
LEMMA FioConnect ==
    ASSUME NEW o, NEW z, NEW s, Good(o, z, s), s.d \in {"fio", "stdio"},
           NEW out \in fio_connect(s)
    PROVE  Good(o, z, out.s) /\ out.s.d = s.d
<1> DEFINE Construct(t) == IF t.p.connected THEN {Out("EALLREADYCONNECTED", t)}
                           ELSE fio_channel_construct(t, t.p.rd_fd, t.p.wr_fd)
           First        == Then(fio_connect_peek(s), "ENOERROR", Construct)
<1>1. PICK r \in First : Finishes(r, out)
  <2>1. out \in Then(First, "ENOERROR", Connected)
    BY Zenon DEF fio_connect
  <2> QED
    BY <2>1 DEF Then, Finishes
<1>2. PICK a \in fio_connect_peek(s) : IF a.err # "ENOERROR" THEN r = a ELSE r \in Construct(a.s)
  BY DEF Then
<1>3. PICK b : b = a.s
  OBVIOUS
<1>4. /\ Good(o, z, b) /\ b.d = s.d
      /\ a.err = "ENOERROR" => Populated(b.p)
  BY <1>3, FioPeek
<1>5. CASE a.err # "ENOERROR"
  BY <1>1, <1>2, <1>3, <1>4, <1>5 DEF Finishes
<1>6. CASE a.err = "ENOERROR" /\ b.p.connected
  <2>1. r = Out("EALLREADYCONNECTED", b)
    BY <1>2, <1>3, <1>6
  <2>2. r.err = "EALLREADYCONNECTED" /\ r.s = b
    BY <2>1, OutIs
  <2>3. out.s = b
    BY <1>1, <2>2 DEF Finishes
  <2> QED
    BY <1>4, <2>3
<1>7. CASE a.err = "ENOERROR" /\ ~b.p.connected
  <2>1. r \in NewChannel(b, b.p.rd_fd, b.p.wr_fd)
    BY <1>2, <1>3, <1>7 DEF fio_channel_construct
  <2>2. b.d \notin Tcp /\ b.d # "ttt"
    BY <1>4 DEF Tcp
  <2>3. /\ b.p.rd_fd \in Numbers /\ b.p.wr_fd \in Numbers /\ b.p.alive /\ Near(o, z, b)
        /\ b.p \in Privs
    BY <1>4, <2>2, Parts
  <2>4. Mine(b.d, b.p) = {b.p.rd_fd, b.p.wr_fd} \ {NO_FD}
    BY <1>4, <1>7, <2>2, <2>3 DEF Mine
  <2>5. Rested(o, z, b, out.s)
    <3>1. PICK rd, wr : rd = b.p.rd_fd /\ wr = b.p.wr_fd
      OBVIOUS
    <3>2. /\ rd \in Numbers /\ wr \in Numbers /\ r \in NewChannel(b, rd, wr)
          /\ Mine(b.d, b.p) = {rd, wr} \ {NO_FD}
      BY <2>1, <2>3, <2>4, <3>1
    <3>3. Near(o, z, b) /\ ~b.p.connected /\ Finishes(r, out)
      BY <1>1, <1>4, <1>7, <2>3
    <3>4. \A x, y : Paired(b.d, x, y)
      <4>1. b.d = "fio" \/ b.d = "stdio"
        BY <1>4
      <4> QED
        BY <4>1 DEF Paired, Tcp
    <3> HIDE <1>3, <3>1
    <3> QED
      BY <2>2, <3>2, <3>3, <3>4, ConnectRest
  <2>6. Populated(out.s.p)
    <3>1. PICK q : q = [b.p EXCEPT !.connected = TRUE]
      OBVIOUS
    <3>2. /\ q.rd_fd = b.p.rd_fd /\ q.wr_fd = b.p.wr_fd
          /\ q.rd_only = b.p.rd_only /\ q.wr_only = b.p.wr_only
      BY <2>3, <3>1 DEF Privs
    <3>3. Populated(q)
      BY <1>4, <1>7, <3>2 DEF Populated
    <3> QED
      BY <1>4, <1>7, <2>5, <3>1, <3>3 DEF NowConnected, Rested
  <2> QED
    BY <1>4, <2>5, <2>6 DEF Good, Shape, Rested
<1> QED
  BY <1>5, <1>6, <1>7

\* A mapped file opens one descriptor, and keeps it also where it cannot be
\* mapped (mfio_connect_peek).
LEMMA MfioPeek ==
    ASSUME NEW o, NEW z, NEW s, Good(o, z, s), s.d = "mfio", NEW out \in mfio_connect_peek(s)
    PROVE  Good(o, z, out.s) /\ out.s.d = s.d /\ (out.err = "ENOERROR" => out.s.p.rd_fd > -1)
<1>1. /\ s.d \notin Tcp /\ s \in States /\ s.d = z.d /\ s.d \in Kinds /\ s.p \in Privs /\ s.p.alive
      /\ Near(o, z, s) /\ s.p.con_fd_tmp = NO_FD
      /\ s.p.rd_fd \in Numbers /\ s.p.wr_fd \in Numbers
      /\ ~s.half_failed => Shape(s.d, s.p)
  <2>1. s.d \notin Tcp
    BY DEF Tcp
  <2> QED
    BY <2>1, Parts
<1>2. CASE s.p.rd_fd > -1
  <2>1. out = Out("ENOERROR", s)
    BY <1>2 DEF mfio_connect_peek
  <2> QED
    BY <1>2, <2>1, OutIs
<1>3. CASE ~(s.p.rd_fd > -1) /\ out = Out("EINVALID", s)
  BY <1>3, OutIs
<1>4. CASE ~(s.p.rd_fd > -1) /\ \E err \in {"ECHECKERRORNO", "ENOERROR"}, x \in Opened(s, "file", 0) :
             out = Out(err, [x.s EXCEPT !.p.rd_fd = x.fd])
  <2>1. PICK err \in {"ECHECKERRORNO", "ENOERROR"}, x \in Opened(s, "file", 0) :
          out = Out(err, [x.s EXCEPT !.p.rd_fd = x.fd])
    BY <1>4
  <2>2. "file" \in Roles
    BY DEF Roles
  <2>3. x.s \in States /\ x.s.p = s.p /\ x.fd \in Fds /\ x.fd # NO_FD
    BY <1>1, <2>2, OpenedKeeps
  <2>4. PICK f : f = x.fd
    OBVIOUS
  <2>5. f \in Numbers /\ f > -1 /\ s.p.rd_fd = NO_FD
    BY <1>1, <1>4, <2>3, <2>4, FdsAre DEF Numbers
  <2>6. PICK q : q = [s.p EXCEPT !.rd_fd = f]
    OBVIOUS
  <2>7. /\ q \in Privs /\ q.alive = s.p.alive /\ q.con_fd_tmp = s.p.con_fd_tmp
        /\ q.connected = s.p.connected /\ q.rd_fd = f /\ q.wr_fd = s.p.wr_fd
    BY <1>1, <2>5, <2>6 DEF Privs
  <2>8. ASSUME ~s.half_failed PROVE Mine(s.d, q) = Mine(s.d, s.p) \cup {f}
    <3>1. ~s.p.connected /\ s.p.wr_fd = NO_FD
      BY <1>1, <1>4, <2>8 DEF Shape
    <3> QED
      BY <1>1, <2>3, <2>4, <2>5, <2>7, <3>1 DEF Mine
  <2>9. PICK t : t = [x.s EXCEPT !.p.rd_fd = f]
    OBVIOUS
  <2>10. PrivSet(t, x.s, q)
    <3>1. PrivSet([x.s EXCEPT !.p.rd_fd = f], x.s, [x.s.p EXCEPT !.rd_fd = f])
      BY <2>3, SettingIs
    <3> QED
      BY <2>3, <2>6, <2>9, <3>1
  <2>11. Near(o, z, t) /\ t.d = s.d /\ t.p = q /\ t.half_failed = s.half_failed
    <3>1. q.alive /\ q.con_fd_tmp = NO_FD /\ q \in Privs
      BY <1>1, <2>7
    <3>2. ~s.half_failed => Mine(s.d, q) = Mine(s.d, s.p) \cup {x.fd}
      BY <2>4, <2>8
    <3> HIDE <2>4, <2>6, <2>9
    <3> QED
      BY <1>1, <2>2, <2>10, <3>1, <3>2, OpenSet
  <2>12. ~t.half_failed => Shape(t.d, t.p)
    BY <1>1, <2>5, <2>7, <2>11 DEF Shape
  <2>13. out = Out(err, t)
    BY <2>1, <2>4, <2>9
  <2>14. t.p.rd_fd > -1
    BY <2>5, <2>7, <2>11
  <2> HIDE <2>9
  <2> QED
    BY <2>11, <2>12, <2>13, <2>14, OutIs DEF Good
<1>5. CASE ~(s.p.rd_fd > -1)
  <2>1. out \in {Out("EINVALID", s)} \cup
                UNION {{Out(err, [x.s EXCEPT !.p.rd_fd = x.fd]) : err \in {"ECHECKERRORNO", "ENOERROR"}} :
                         x \in Opened(s, "file", 0)}
    BY <1>5, Zenon DEF mfio_connect_peek
  <2>2. CASE out = Out("EINVALID", s)
    BY <1>3, <1>5, <2>2
  <2>3. ASSUME NEW x \in Opened(s, "file", 0),
               out \in {Out(err, [x.s EXCEPT !.p.rd_fd = x.fd]) : err \in {"ECHECKERRORNO", "ENOERROR"}}
        PROVE  Good(o, z, out.s) /\ out.s.d = s.d /\ (out.err = "ENOERROR" => out.s.p.rd_fd > -1)
    <3>1. \E err \in {"ECHECKERRORNO", "ENOERROR"} : out = Out(err, [x.s EXCEPT !.p.rd_fd = x.fd])
      BY <2>3, Zenon
    <3> QED
      BY <1>4, <1>5, <3>1, Zenon
  <2> QED
    BY <2>1, <2>2, <2>3, Zenon
<1> QED
  BY <1>2, <1>5, Zenon

\* mfio_device_ready.
LEMMA MfioReady ==
    ASSUME NEW o, NEW z, NEW s, Good(o, z, s), s.d = "mfio", NEW out \in mfio_device_ready(s)
    PROVE  Good(o, z, out.s) /\ out.s.d = s.d
<1>1. PICK a \in mfio_connect_peek(s) :
        out = Out(IF a.err = "ENOERROR" THEN "EREADY" ELSE a.err, a.s)
  BY DEF mfio_device_ready
<1>2. out.s = a.s
  BY <1>1, OutIs
<1> QED
  BY <1>2, MfioPeek

\* The descriptor of a mapped file goes to the channel (mfio_connect).
LEMMA MfioConnect ==
    ASSUME NEW o, NEW z, NEW s, Good(o, z, s), s.d = "mfio", NEW out \in mfio_connect(s)
    PROVE  Good(o, z, out.s) /\ out.s.d = s.d
<1> DEFINE Construct(t) == IF t.p.connected THEN {Out("EALLREADYCONNECTED", t)}
                           ELSE mfio_channel_construct(t, t.p.rd_fd)
           First        == Then(mfio_connect_peek(s), "ENOERROR", Construct)
<1>1. PICK r \in First : Finishes(r, out)
  <2>1. out \in Then(First, "ENOERROR", Connected)
    BY Zenon DEF mfio_connect
  <2> QED
    BY <2>1 DEF Then, Finishes
<1>2. PICK a \in mfio_connect_peek(s) : IF a.err # "ENOERROR" THEN r = a ELSE r \in Construct(a.s)
  BY DEF Then
<1>3. PICK b : b = a.s
  OBVIOUS
<1>4. /\ Good(o, z, b) /\ b.d = s.d
      /\ a.err = "ENOERROR" => b.p.rd_fd > -1
  BY <1>3, MfioPeek
<1>5. CASE a.err # "ENOERROR"
  BY <1>1, <1>2, <1>3, <1>4, <1>5 DEF Finishes
<1>6. CASE a.err = "ENOERROR" /\ b.p.connected
  <2>1. r = Out("EALLREADYCONNECTED", b)
    BY <1>2, <1>3, <1>6
  <2>2. r.err = "EALLREADYCONNECTED" /\ r.s = b
    BY <2>1, OutIs
  <2>3. out.s = b
    BY <1>1, <2>2 DEF Finishes
  <2> QED
    BY <1>4, <2>3
<1>7. CASE a.err = "ENOERROR" /\ ~b.p.connected
  <2>1. r \in NewChannel(b, b.p.rd_fd, b.p.rd_fd)
    BY <1>2, <1>3, <1>7 DEF mfio_channel_construct
  <2>2. b.d \notin Tcp /\ b.d # "ttt"
    BY <1>4 DEF Tcp
  <2>3. /\ b.p.rd_fd \in Numbers /\ b.p.wr_fd \in Numbers /\ b.p.alive /\ Near(o, z, b)
        /\ b.p \in Privs /\ (~b.half_failed => Shape(b.d, b.p))
    BY <1>4, <2>2, Parts
  <2>4. ~b.half_failed => Mine(b.d, b.p) = {b.p.rd_fd, b.p.rd_fd} \ {NO_FD}
    BY <1>4, <1>7, <2>2, <2>3 DEF Mine, Shape
  <2>5. Rested(o, z, b, out.s)
    <3>1. PICK rd : rd = b.p.rd_fd
      OBVIOUS
    <3>2. /\ rd \in Numbers /\ r \in NewChannel(b, rd, rd)
          /\ ~b.half_failed => Mine(b.d, b.p) = {rd, rd} \ {NO_FD}
          /\ Paired(b.d, rd, rd)
      BY <2>1, <2>3, <2>4, <3>1, PairedIs
    <3>3. Near(o, z, b) /\ ~b.p.connected /\ Finishes(r, out)
      BY <1>1, <1>4, <1>7, <2>3
    <3> HIDE <1>3, <3>1
    <3> QED
      BY <2>2, <3>2, <3>3, ConnectRest
  <2>6. CASE out.s = b
    BY <1>4, <2>6
  <2>7. CASE NowConnected(out.s.p, b.p)
    <3>1. PICK q : q = [b.p EXCEPT !.connected = TRUE]
      OBVIOUS
    <3>2. q.rd_fd = b.p.rd_fd /\ q.wr_fd = b.p.wr_fd
      BY <2>3, <3>1 DEF Privs
    <3>3. PICK c : c = out.s
      OBVIOUS
    <3>4. Near(o, z, c) /\ c.d = b.d /\ c.p = q
      BY <2>5, <2>7, <3>1, <3>3 DEF NowConnected, Rested
    <3>5. ASSUME ~c.half_failed PROVE Shape(c.d, c.p)
      <4>1. Shape(b.d, b.p)
        BY <2>3, <2>5, <3>3, <3>5 DEF Rested
      <4> QED
        BY <1>4, <1>7, <3>2, <3>4, <4>1 DEF Shape
    <3> QED
      BY <1>4, <3>3, <3>4, <3>5 DEF Good
  <2> QED
    BY <2>5, <2>6, <2>7 DEF Rested
<1> QED
  BY <1>5, <1>6, <1>7

\* A ttt device does nothing.
LEMMA TttCalls ==
    ASSUME NEW o, NEW z, NEW s, Good(o, z, s), NEW out \in ttt_device_ready(s) \cup ttt_connect(s)
    PROVE  Good(o, z, out.s) /\ out.s.d = s.d
<1>1. out = Out("ENOTREADY", s)
  BY DEF ttt_device_ready, ttt_connect
<1> QED
  BY <1>1, OutIs

\* Every call to ready or connect keeps its device in order.
LEMMA CallGood ==
    ASSUME NEW o, NEW z, NEW s, Good(o, z, s),
           NEW out, out \in device_ready(s) \/ out \in device_connect(s)
    PROVE  Good(o, z, out.s) /\ out.s.d = s.d
<1>1. s.d \in {"server", "client", "udp", "fio", "mfio", "stdio", "ttt"}
  <2>1. s.d \in Kinds
    BY StateIs DEF Good, Near, Fits
  <2> QED
    BY <2>1, DevicesAssumption
<1>2. CASE s.d \in {"server", "client"}
  <2>1. out \in tcp_device_ready(s) \/ out \in tcp_connect(s)
    BY <1>2 DEF device_ready, device_connect
  <2> QED
    BY <1>2, <2>1, TcpReady, TcpConnect DEF Tcp
<1>3. CASE s.d = "udp"
  <2>1. out \in udp_device_ready(s) \/ out \in udp_connect(s)
    BY <1>3 DEF device_ready, device_connect
  <2> QED
    BY <1>3, <2>1, UdpReady, UdpConnect
<1>4. CASE s.d \in {"fio", "stdio"}
  <2>1. out \in fio_device_ready(s) \/ out \in fio_connect(s)
    BY <1>4 DEF device_ready, device_connect
  <2> QED
    BY <1>4, <2>1, FioReady, FioConnect
<1>5. CASE s.d = "mfio"
  <2>1. out \in mfio_device_ready(s) \/ out \in mfio_connect(s)
    BY <1>5 DEF device_ready, device_connect
  <2> QED
    BY <1>5, <2>1, MfioReady, MfioConnect
<1>6. CASE s.d = "ttt"
  <2>1. out \in ttt_device_ready(s) \/ out \in ttt_connect(s)
    BY <1>6 DEF device_ready, device_connect
  <2> QED
    BY <2>1, TttCalls
<1> QED
  BY <1>1, <1>2, <1>3, <1>4, <1>5, <1>6

(***************************************************************************)
(* All devices together.                                                   *)
(***************************************************************************)
\* What the devices other than d have.
Elses(d, pv) == UNION {Mine(e, pv[e]) : e \in Kinds \ {d}}

\* Every device owns its descriptors, when rest are nobody's to use.
Orderly(tab, pv, chs, acc, srv, rest) ==
    \A d \in Kinds : /\ Own(rest \cup Elses(d, pv), d, tab, pv[d], chs)
                     /\ Shape(d, pv[d])
                     /\ Counted(d, tab, pv[d], acc, srv)

\* Elses, element by element.
LEMMA ElsesAre ==
    ASSUME NEW d, NEW pv
    PROVE  \A f : f \in Elses(d, pv) <=> \E e \in Kinds : e # d /\ f \in Mine(e, pv[e])
BY DEF Elses

\* d has done something, and the other devices' descriptors are as they were.
DoneBy(d, tab, pv, acc, srv, rest, tab2, pv2, chs2, acc2, srv2, rest2) ==
    /\ \A e \in Kinds : e # d => pv2[e] = pv[e]
    /\ Own(rest2 \cup Elses(d, pv), d, tab2, pv2[d], chs2)
    /\ Shape(d, pv2[d]) /\ Counted(d, tab2, pv2[d], acc2, srv2)
    /\ \A f \in Elses(d, pv) : tab2[f] = tab[f]
    /\ rest2 \subseteq rest \cup Mine(d, pv[d])
    /\ d # "server" => acc2 = acc /\ srv2 = srv

\* Then everybody is in order.
LEMMA OrderlyKept ==
    ASSUME NEW tab \in [Fds -> Entries], NEW pv \in [Kinds -> Privs], NEW chs, NEW acc, NEW srv,
           NEW rest, Orderly(tab, pv, chs, acc, srv, rest),
           NEW d \in Kinds, NEW tab2 \in [Fds -> Entries], NEW pv2 \in [Kinds -> Privs],
           NEW chs2, NEW acc2, NEW srv2, NEW rest2,
           DoneBy(d, tab, pv, acc, srv, rest, tab2, pv2, chs2, acc2, srv2, rest2)
    PROVE  Orderly(tab2, pv2, chs2, acc2, srv2, rest2)
<1> USE DEF DoneBy
<1>1. Elses(d, pv2) = Elses(d, pv)
  BY DEF Elses
<1>2. SUFFICES ASSUME NEW e \in Kinds, e # d
               PROVE  /\ Own(rest2 \cup Elses(e, pv2), e, tab2, pv2[e], chs2)
                      /\ Shape(e, pv2[e])
                      /\ Counted(e, tab2, pv2[e], acc2, srv2)
  BY <1>1 DEF Orderly
<1>3. /\ Own(rest \cup Elses(e, pv), e, tab, pv[e], chs)
      /\ Own(rest \cup Elses(d, pv), d, tab, pv[d], chs)
      /\ Shape(e, pv[e]) /\ Counted(e, tab, pv[e], acc, srv) /\ pv2[e] = pv[e]
  BY <1>2 DEF Orderly
<1>4. Mine(e, pv2[e]) = Mine(e, pv[e]) /\ Mine(e, pv[e]) \subseteq Elses(d, pv)
  BY <1>2, <1>3, ElsesAre
<1>5. Elses(e, pv2) \cup Mine(e, pv2[e]) = Elses(d, pv) \cup Mine(d, pv2[d])
  <2>1. \A f : f \in Elses(e, pv2) \cup Mine(e, pv2[e]) <=> \E g \in Kinds : f \in Mine(g, pv2[g])
    BY <1>2, ElsesAre
  <2>2. \A f : f \in Elses(d, pv2) \cup Mine(d, pv2[d]) <=> \E g \in Kinds : f \in Mine(g, pv2[g])
    BY ElsesAre
  <2> QED
    BY <1>1, <2>1, <2>2
<1>6. /\ Mine(e, pv[e]) \cap rest = {} /\ Mine(e, pv[e]) \cap Mine(d, pv[d]) = {}
      /\ Mine(e, pv[e]) \cap Mine(d, pv2[d]) = {}
  BY <1>3, <1>4 DEF Own
<1>7. Mine(e, pv[e]) \cap Elses(e, pv2) = {}
  <2>1. ASSUME NEW f \in Mine(e, pv[e]), f \in Elses(e, pv2) PROVE FALSE
    <3>1. PICK g \in Kinds : g # e /\ f \in Mine(g, pv2[g])
      BY <2>1, ElsesAre
    <3>2. CASE g = d
      BY <1>6, <2>1, <3>1, <3>2
    <3>3. CASE g # d
      <4>1. f \in Elses(e, pv)
        BY <3>1, <3>3, ElsesAre
      <4> QED
        BY <1>3, <2>1, <4>1 DEF Own
    <3> QED
      BY <3>2, <3>3
  <2> QED
    BY <2>1
<1>8. \A f \in Elses(e, pv2) : tab2[f] # Free
  <2>1. SUFFICES ASSUME NEW f \in Elses(d, pv) \cup Mine(d, pv2[d]) PROVE tab2[f] # Free
    BY <1>5
  <2>2. CASE f \in Elses(d, pv)
    BY <2>2 DEF Own
  <2>3. CASE f \in Mine(d, pv2[d])
    <3>1. tab2[f].owner \in {d, "process"} /\ f \in Fds
      BY <2>3 DEF Own
    <3>2. tab2[f] \in Entries
      BY <3>1
    <3> QED
      BY <3>1, <3>2, EntryIs
  <2> QED
    BY <2>2, <2>3
<1>9. PICK o, n, m : /\ o = rest2 \cup Elses(e, pv2) /\ n = Mine(e, pv2[e])
                     /\ m = (rest2 \cup Elses(d, pv)) \cup Mine(d, pv2[d])
  OBVIOUS
<1>10. /\ o \cup n = m /\ m \subseteq Fds /\ n \cap o = {}
       /\ \A f \in o : tab2[f] # Free
       /\ \A f \in n : tab2[f].owner \in {e, "process"}
  <2>1. o \cup n = m
    BY <1>5, <1>9
  <2>2. m \subseteq Fds
    BY <1>9 DEF Own
  <2>3. n \cap o = {}
    BY <1>4, <1>6, <1>7, <1>9
  <2>4. \A f \in o : tab2[f] # Free
    BY <1>8, <1>9 DEF Own
  <2>5. \A f \in n : tab2[f].owner \in {e, "process"}
    BY <1>3, <1>4, <1>9 DEF Own
  <2> QED
    BY <2>1, <2>2, <2>3, <2>4, <2>5
<1>11. Own(o, e, tab2, pv2[e], chs2)
  <2>1. /\ \A i \in 1..Len(chs2) :
             /\ chs2[i].is = {tab2[f] : f \in HeldBy(chs2[i])} /\ Free \notin chs2[i].is
             /\ HeldBy(chs2[i]) \cap m = {}
        /\ \A i, j \in 1..Len(chs2) : i # j => HeldBy(chs2[i]) \cap HeldBy(chs2[j]) = {}
        /\ \A f \in Fds : tab2[f].owner \in Kinds =>
             f \in m \/ \E i \in 1..Len(chs2) : f \in HeldBy(chs2[i])
    BY <1>9 DEF Own
  <2> QED
    BY <1>9, <1>10, <2>1 DEF Own
<1>12. Counted(e, tab2, pv2[e], acc2, srv2)
  <2>1. CASE e # "server"
    BY <2>1 DEF Counted
  <2>2. CASE e = "server"
    <3>1. acc2 = acc /\ srv2 = srv
      BY <1>2, <2>2
    <3>2. ASSUME pv[e].alive, pv[e].con_fd_tmp # NO_FD
          PROVE  tab2[pv[e].con_fd_tmp] = tab[pv[e].con_fd_tmp]
      <4>1. ~pv[e].connected
        BY <1>3, <2>2 DEF Shape
      <4>2. pv[e].con_fd_tmp \in Mine(e, pv[e])
        BY <2>2, <3>2, <4>1 DEF Mine, Tcp
      <4> QED
        BY <1>4, <4>2
    <3> QED
      BY <1>3, <2>2, <3>1, <3>2 DEF Counted
  <2> QED
    BY <2>1, <2>2
<1> QED
  BY <1>3, <1>9, <1>11, <1>12

\* The standard descriptors, until stdio takes them.
Spare == IF "stdio" \in Kinds /\ todo["stdio"] > 0 THEN 0..2 ELSE {}

Typed ==
    /\ table \in [Fds -> Entries] /\ priv \in [Kinds -> Privs] /\ chans \in Seq(Channels)
    /\ accepted \in 0..MaxConns /\ served \in Served /\ left \subseteq Fds
    /\ half_failed \in BOOLEAN /\ todo \in [Kinds -> Nat]
    /\ \A d \in Kinds : d \notin Tcp \/ priv[d].connected => priv[d].con_fd_tmp = NO_FD
    /\ "stdio" \in Kinds =>
         todo["stdio"] \in {0, 1} /\ (todo["stdio"] > 0 => ~priv["stdio"].alive)

Owned == ~half_failed =>
    /\ left \cap Spare = {}
    /\ \A f \in Spare : table[f] = Std[f]
    /\ \A k \in 1..Len(served) : served[k] = k
    /\ Orderly(table, priv, chans, accepted, served, left \cup Spare)

Inv == Typed /\ Owned

\* A private structure that has not been constructed, or has been destroyed.
LEMMA UnconnectedIs ==
    /\ Unconnected \in Privs /\ ~Unconnected.alive /\ ~Unconnected.connected
    /\ Unconnected.con_fd_tmp = NO_FD /\ Unconnected.fd = NO_FD
    /\ Unconnected.rd_fd = NO_FD /\ Unconnected.wr_fd = NO_FD
    /\ ~Unconnected.rd_only /\ ~Unconnected.wr_only
BY FdsAre DEF Unconnected, Privs

\* The state in which a call of device d begins.
LEMMA AtIs ==
    ASSUME Typed, NEW d \in Kinds
    PROVE  /\ At(d) = State(d, table, priv[d], chans, accepted, served, half_failed)
           /\ At(d) \in States /\ At(d).d = d /\ At(d).table = table /\ At(d).p = priv[d]
           /\ At(d).chans = chans /\ At(d).accepted = accepted /\ At(d).served = served
           /\ At(d).half_failed = half_failed
<1>1. At(d) = State(d, table, priv[d], chans, accepted, served, half_failed)
  BY DEF At, State
<1>2. priv[d] \in Privs
  BY DEF Typed
<1> QED
  BY <1>1, <1>2, IsState DEF Typed

\* A step of device d, in which the descriptors lost become nobody's.
LEMMA Became ==
    ASSUME Inv, NEW d \in Kinds, NEW t \in States, t.d = d, Becomes(t),
           d \notin Tcp \/ t.p.connected => t.p.con_fd_tmp = NO_FD,
           t.p.alive => priv[d].alive, todo' = todo, left' \subseteq Fds,
           ~t.half_failed =>
             /\ ~half_failed /\ left' \subseteq left \cup Mine(d, priv[d])
             /\ Own((left' \cup Spare) \cup Elses(d, priv), d, t.table, t.p, t.chans)
             /\ \A f \in (left \cup Spare) \cup Elses(d, priv) : t.table[f] = table[f]
             /\ Shape(d, t.p) /\ Counted(d, t.table, t.p, t.accepted, t.served)
             /\ d # "server" => t.accepted = accepted /\ t.served = served
    PROVE  Inv'
<1>1. /\ t.d \in Kinds /\ t.table \in [Fds -> Entries] /\ t.p \in Privs
      /\ t.chans \in Seq(Channels) /\ t.accepted \in 0..MaxConns
      /\ t.served \in Served /\ t.half_failed \in BOOLEAN
  BY StateIs
<1>2. /\ table' = t.table /\ priv' = [priv EXCEPT ![d] = t.p] /\ chans' = t.chans
      /\ accepted' = t.accepted /\ served' = t.served /\ half_failed' = t.half_failed
  BY DEF Becomes
<1>3. Typed
  BY DEF Inv
<1>4. /\ priv' \in [Kinds -> Privs] /\ priv'[d] = t.p
      /\ \A e \in Kinds : e # d => priv'[e] = priv[e]
  BY <1>1, <1>2, <1>3 DEF Typed
<1>5. Typed'
  <2>1. \A e \in Kinds : e \notin Tcp \/ priv'[e].connected => priv'[e].con_fd_tmp = NO_FD
    BY <1>3, <1>4 DEF Typed
  <2>2. "stdio" \in Kinds =>
          todo'["stdio"] \in {0, 1} /\ (todo'["stdio"] > 0 => ~priv'["stdio"].alive)
    BY <1>3, <1>4 DEF Typed
  <2> QED
    BY <1>1, <1>2, <1>3, <1>4, <2>1, <2>2 DEF Typed
<1>6. Spare' = Spare
  BY DEF Spare
<1>7. ASSUME ~half_failed'
      PROVE  /\ left' \cap Spare' = {}
             /\ \A f \in Spare' : table'[f] = Std[f]
             /\ \A k \in 1..Len(served') : served'[k] = k
             /\ Orderly(table', priv', chans', accepted', served', left' \cup Spare')
  <2>1. /\ ~half_failed /\ left' \subseteq left \cup Mine(d, priv[d])
        /\ Own((left' \cup Spare) \cup Elses(d, priv), d, table', priv'[d], chans')
        /\ \A f \in (left \cup Spare) \cup Elses(d, priv) : table'[f] = table[f]
        /\ Shape(d, priv'[d]) /\ Counted(d, table', priv'[d], accepted', served')
        /\ d # "server" => accepted' = accepted /\ served' = served
    BY <1>2, <1>4, <1>7
  <2>2. /\ left \cap Spare = {} /\ \A f \in Spare : table[f] = Std[f]
        /\ Orderly(table, priv, chans, accepted, served, left \cup Spare)
    BY <2>1 DEF Inv, Owned
  <2>3. Mine(d, priv[d]) \cap Spare = {}
    BY <2>2 DEF Orderly, Own
  <2>4. left' \cap Spare = {} /\ \A f \in Spare : table'[f] = Std[f]
    BY <2>1, <2>2, <2>3
  <2>5. Orderly(table', priv', chans', accepted', served', left' \cup Spare)
    <3>1. table \in [Fds -> Entries] /\ priv \in [Kinds -> Privs] /\ table' \in [Fds -> Entries]
      BY <1>1, <1>2, <1>3 DEF Typed
    <3>2. left' \cup Spare \subseteq (left \cup Spare) \cup Mine(d, priv[d])
      BY <2>1
    <3>3. \A f \in Elses(d, priv) : table'[f] = table[f]
      BY <2>1
    <3>4. DoneBy(d, table, priv, accepted, served, left \cup Spare,
                 table', priv', chans', accepted', served', left' \cup Spare)
      BY <1>4, <2>1, <3>2, <3>3 DEF DoneBy
    <3> QED
      BY <2>2, <3>1, <1>4, <3>4, OrderlyKept
  <2>6. \A k \in 1..Len(served') : served'[k] = k
    BY <2>1 DEF Counted
  <2> QED
    BY <1>6, <2>4, <2>5, <2>6
<1> QED
  BY <1>5, <1>7 DEF Inv, Owned

\* ready and connect, of any device.
LEMMA CallsKeep ==
    ASSUME Inv, NEW d \in Kinds, priv[d].alive, todo' = todo, left' = left,
           NEW out, out \in device_ready(At(d)) \/ out \in device_connect(At(d)),
           Becomes(out.s)
    PROVE  Inv'
<1>1. Typed
  BY DEF Inv
<1>2. PICK o : o = (left \cup Spare) \cup Elses(d, priv)
  OBVIOUS
<1>3. PICK z \in States : z = At(d)
  BY <1>1, AtIs
<1>4. /\ z.d = d /\ z.table = table /\ z.p = priv[d] /\ z.chans = chans
      /\ z.accepted = accepted /\ z.served = served /\ z.half_failed = half_failed
  BY <1>1, <1>3, AtIs
<1>5. Good(o, z, z)
  <2>1. Fits(z)
    BY <1>1, <1>4 DEF Fits, Typed
  <2>2. ASSUME ~half_failed
        PROVE  /\ Own(o, d, table, priv[d], chans) /\ Shape(d, priv[d])
               /\ Counted(d, table, priv[d], accepted, served)
    BY <1>2, <2>2 DEF Inv, Owned, Orderly
  <2> QED
    BY <1>4, <2>1, <2>2 DEF Good, Near
<1>6. Good(o, z, out.s) /\ out.s.d = d
  BY <1>3, <1>4, <1>5, CallGood
<1>7. PICK t : t = out.s
  OBVIOUS
<1>8. /\ t \in States /\ t.d = d /\ Becomes(t) /\ t.p.alive
      /\ d \notin Tcp \/ t.p.connected => t.p.con_fd_tmp = NO_FD
  BY <1>6, <1>7 DEF Good, Near, Fits
<1>9. ~t.half_failed =>
        /\ ~half_failed /\ Own(o, d, t.table, t.p, t.chans)
        /\ \A f \in o : t.table[f] = table[f]
        /\ Shape(d, t.p) /\ Counted(d, t.table, t.p, t.accepted, t.served)
        /\ d # "server" => t.accepted = accepted /\ t.served = served
  BY <1>4, <1>6, <1>7 DEF Good, Near
<1>10. left' \subseteq Fds /\ left' \subseteq left \cup Mine(d, priv[d])
  BY <1>1 DEF Typed
<1> HIDE <1>7
<1> QED
  BY <1>2, <1>8, <1>9, <1>10, Became

\* destroy: what a device has ready is lost, what a server listens on is closed.
LEMMA DestroyKeeps ==
    ASSUME Inv, NEW d \in Kinds, destroy(d)
    PROVE  Inv'
<1>1. Typed /\ priv[d].alive /\ left' = left \cup Ready(d) /\ todo' = todo
  BY DEF Inv, destroy
<1>2. PICK u \in States : u = At(d)
  BY <1>1, AtIs
<1>3. /\ u.d = d /\ u.table = table /\ u.p = priv[d] /\ u.chans = chans
      /\ u.accepted = accepted /\ u.served = served /\ u.half_failed = half_failed
  BY <1>1, <1>2, AtIs
<1>4. PICK closed : closed = IF d = "server" THEN {priv[d].fd} \ {NO_FD} ELSE {}
  OBVIOUS
<1>5. \E t \in States : /\ Becomes(t) /\ t.d = d /\ t.p = Unconnected /\ t.chans = chans
                        /\ t.accepted = accepted /\ t.served = served
                        /\ t.half_failed = half_failed
                        /\ \A f \in Fds : t.table[f] = IF f \in closed THEN Free ELSE table[f]
  <2>1. PICK s : s = [u EXCEPT !.p = Unconnected]
    OBVIOUS
  <2>2. PICK v : v = IF d \in Tcp THEN tcp_destroy(u) ELSE s
    OBVIOUS
  <2>3. Becomes([s EXCEPT !.table = v.table])
    BY <1>2, <2>1, <2>2 DEF destroy, Tcp
  <2>4. s = State(d, table, Unconnected, chans, accepted, served, half_failed)
    <3>1. \A x : [u EXCEPT !.p = x] =
                   State(u.d, u.table, x, u.chans, u.accepted, u.served, u.half_failed)
      BY Changed
    <3> QED
      BY <1>3, <2>1, <3>1
  <2>5. /\ s \in States /\ s.d = d /\ s.table = table /\ s.p = Unconnected /\ s.chans = chans
        /\ s.accepted = accepted /\ s.served = served /\ s.half_failed = half_failed
    <3>1. /\ table \in [Fds -> Entries] /\ chans \in Seq(Channels) /\ accepted \in 0..MaxConns
          /\ served \in Served /\ half_failed \in BOOLEAN /\ Unconnected \in Privs
      BY <1>1, UnconnectedIs DEF Typed
    <3> HIDE <2>1
    <3> QED
      BY <2>4, <3>1, IsState
  <2>6. /\ v.table \in [Fds -> Entries]
        /\ \A f \in Fds : v.table[f] = IF f \in closed THEN Free ELSE table[f]
    <3>1. CASE d = "server"
      <4>1. v = Close(u, priv[d].fd)
        BY <1>3, <2>2, <3>1 DEF tcp_destroy, Listens, Tcp
      <4>2. PICK tab \in [Fds -> Entries] :
              /\ Close(u, priv[d].fd) =
                   State(u.d, tab, u.p, u.chans, u.accepted, u.served, u.half_failed)
              /\ \A g \in Fds : tab[g] = IF g = priv[d].fd THEN Free ELSE u.table[g]
        BY CloseIs
      <4>3. v.table = tab
        BY <4>1, <4>2 DEF State
      <4>4. \A g \in Fds : g = priv[d].fd <=> g \in closed
        BY <1>4, <3>1, FdsAre
      <4> QED
        BY <1>3, <4>2, <4>3, <4>4
    <3>2. CASE d # "server"
      <4>1. v.table = table
        BY <1>3, <2>2, <2>5, <3>2 DEF tcp_destroy, Listens
      <4> QED
        BY <1>1, <1>4, <3>2, <4>1 DEF Typed
    <3> QED
      BY <3>1, <3>2
  <2>7. PICK t : t = [s EXCEPT !.table = v.table]
    OBVIOUS
  <2>8. t = State(d, v.table, Unconnected, chans, accepted, served, half_failed)
    <3>1. PICK y \in States : y = s
      BY <2>5
    <3>2. \A x : [y EXCEPT !.table = x] =
                   State(y.d, x, y.p, y.chans, y.accepted, y.served, y.half_failed)
      BY Changed
    <3>3. t = State(y.d, v.table, y.p, y.chans, y.accepted, y.served, y.half_failed)
      BY <2>7, <3>1, <3>2
    <3> QED
      BY <2>5, <3>1, <3>3
  <2>9. /\ t \in States /\ t.d = d /\ t.table = v.table /\ t.p = Unconnected /\ t.chans = chans
        /\ t.accepted = accepted /\ t.served = served /\ t.half_failed = half_failed
    <3>1. /\ v.table \in [Fds -> Entries] /\ chans \in Seq(Channels) /\ accepted \in 0..MaxConns
          /\ served \in Served /\ half_failed \in BOOLEAN /\ Unconnected \in Privs
      BY <1>1, <2>6, UnconnectedIs DEF Typed
    <3>2. PICK tab \in [Fds -> Entries] : tab = v.table
      BY <3>1
    <3>3. t = State(d, tab, Unconnected, chans, accepted, served, half_failed)
      BY <2>8, <3>2
    <3>4. /\ t \in States /\ t.d = d /\ t.table = tab /\ t.p = Unconnected /\ t.chans = chans
          /\ t.accepted = accepted /\ t.served = served /\ t.half_failed = half_failed
      <4> HIDE <2>7, <2>2, <3>2
      <4> QED
        BY <3>1, <3>3, IsState
    <3> QED
      BY <3>2, <3>4
  <2>10. Becomes(t)
    BY <2>3, <2>7
  <2> HIDE <2>7, <2>2
  <2> QED
    BY <2>6, <2>9, <2>10
<1>6. PICK t \in States : /\ Becomes(t) /\ t.d = d /\ t.p = Unconnected /\ t.chans = chans
                          /\ t.accepted = accepted /\ t.served = served
                          /\ t.half_failed = half_failed
                          /\ \A f \in Fds : t.table[f] = IF f \in closed THEN Free ELSE table[f]
  BY <1>5
<1>7. Ready(d) \subseteq Fds
  <2>1. /\ priv[d].con_fd_tmp \in Numbers /\ priv[d].rd_fd \in Numbers
        /\ priv[d].wr_fd \in Numbers
    BY <1>3, StateIs, PrivIs
  <2> QED
    BY <2>1, FdsAre DEF Ready
<1>8. ASSUME ~half_failed
      PROVE  /\ Mine(d, priv[d]) = closed \cup Ready(d) /\ closed \cap Ready(d) = {}
             /\ left' \subseteq left \cup Mine(d, priv[d])
  <2>1. Shape(d, priv[d])
    BY <1>8 DEF Inv, Owned, Orderly
  <2>2. Mine(d, priv[d]) = closed \cup Ready(d) /\ closed \cap Ready(d) = {}
    <3>1. CASE d = "server"
      BY <1>1, <1>4, <2>1, <3>1 DEF Mine, Ready, Shape, Tcp
    <3>2. CASE d = "client"
      BY <1>1, <1>4, <2>1, <3>2 DEF Mine, Ready, Shape, Tcp
    <3>3. CASE d \notin Tcp
      BY <1>1, <1>4, <3>3 DEF Mine, Ready, Tcp
    <3> QED
      BY <3>1, <3>2, <3>3 DEF Tcp
  <2> QED
    BY <1>1, <2>2
<1>9. ASSUME ~half_failed
      PROVE  /\ Own((left' \cup Spare) \cup Elses(d, priv), d, t.table, t.p, t.chans)
             /\ \A f \in (left \cup Spare) \cup Elses(d, priv) : t.table[f] = table[f]
  <2>1. PICK o : o = (left \cup Spare) \cup Elses(d, priv)
    OBVIOUS
  <2>2. Own(o, d, table, priv[d], chans)
    BY <1>9, <2>1 DEF Inv, Owned, Orderly
  <2>3. Mine(d, t.p) = {}
    BY <1>6, UnconnectedIs DEF Mine
  <2>4. table \in [Fds -> Entries]
    BY <1>1 DEF Typed
  <2>5. Own(o \cup Ready(d), d, t.table, t.p, chans) /\ \A f \in o : t.table[f] = table[f]
    <3>1. Split(Mine(d, priv[d]), closed, Ready(d)) /\ Freed(t.table, table, closed)
      BY <1>6, <1>8, <1>9 DEF Split, Freed
    <3> HIDE <1>4, <2>1
    <3>2. Own(o \cup Ready(d), d, t.table, t.p, chans)
      BY <2>2, <2>3, <2>4, <3>1, OwnDestroy
    <3>3. \A f \in o : t.table[f] = table[f]
      <4>1. o \subseteq Fds /\ closed \cap o = {}
        BY <2>2, <3>1 DEF Own, Split
      <4> QED
        BY <3>1, <4>1 DEF Freed
    <3> QED
      BY <3>2, <3>3
  <2>6. (left' \cup Spare) \cup Elses(d, priv) = o \cup Ready(d)
    BY <1>1, <2>1
  <2> QED
    BY <1>6, <2>1, <2>5, <2>6
<1>10. Shape(d, t.p)
  BY <1>6, UnconnectedIs, FdsAre DEF Shape
<1>11. ~half_failed => Counted(d, t.table, t.p, t.accepted, t.served)
  BY <1>6, UnconnectedIs DEF Counted, Inv, Owned, Orderly
<1>12. /\ d \notin Tcp \/ t.p.connected => t.p.con_fd_tmp = NO_FD
       /\ ~t.p.alive /\ left' \subseteq Fds
  BY <1>1, <1>6, <1>7, UnconnectedIs DEF Typed
<1> QED
  BY <1>1, <1>6, <1>8, <1>9, <1>10, <1>11, <1>12, Became

\* t is s with other descriptors open.
OpenOn(t, s, tab) == t = State(s.d, tab, s.p, s.chans, s.accepted, s.served, s.half_failed)

\* The fields of such a state.
LEMMA OpenOnIs ==
    ASSUME NEW s \in States, NEW tab \in [Fds -> Entries], NEW t, OpenOn(t, s, tab)
    PROVE  /\ t \in States /\ t.d = s.d /\ t.table = tab /\ t.p = s.p /\ t.chans = s.chans
           /\ t.accepted = s.accepted /\ t.served = s.served /\ t.half_failed = s.half_failed
<1>1. /\ s.p \in Privs /\ s.chans \in Seq(Channels) /\ s.accepted \in 0..MaxConns
      /\ s.served \in Served /\ s.half_failed \in BOOLEAN
  BY StateIs
<1>2. t = State(s.d, tab, s.p, s.chans, s.accepted, s.served, s.half_failed)
  BY DEF OpenOn
<1> QED
  BY <1>1, <1>2, Made

\* close() frees one descriptor, and nothing else.
LEMMA CloseOne ==
    ASSUME NEW s \in States, NEW f
    PROVE  \E tab \in [Fds -> Entries] : OpenOn(Close(s, f), s, tab) /\ Freed(tab, s.table, {f})
<1>1. PICK tab \in [Fds -> Entries] :
        /\ Close(s, f) = State(s.d, tab, s.p, s.chans, s.accepted, s.served, s.half_failed)
        /\ \A g \in Fds : tab[g] = IF g = f THEN Free ELSE s.table[g]
  BY CloseIs
<1>2. OpenOn(Close(s, f), s, tab)
  BY <1>1 DEF OpenOn
<1>3. Freed(tab, s.table, {f})
  BY <1>1 DEF Freed
<1> QED
  BY <1>2, <1>3

\* A channel closes the descriptors that it holds.
LEMMA CloseBoth ==
    ASSUME NEW s \in States, NEW c
    PROVE  /\ \E tab \in [Fds -> Entries] :
                /\ OpenOn(Close(Close(s, c.rd_fd), c.wr_fd), s, tab)
                /\ Freed(tab, s.table, HeldBy(c))
           /\ c.wr_fd = c.rd_fd => \E tab \in [Fds -> Entries] :
                /\ OpenOn(Close(s, c.rd_fd), s, tab)
                /\ Freed(tab, s.table, HeldBy(c))
<1>1. PICK tab1 \in [Fds -> Entries] :
        OpenOn(Close(s, c.rd_fd), s, tab1) /\ Freed(tab1, s.table, {c.rd_fd})
  BY CloseOne
<1>2. PICK x : x = Close(s, c.rd_fd)
  OBVIOUS
<1>3. /\ x \in States /\ x.d = s.d /\ x.table = tab1 /\ x.p = s.p /\ x.chans = s.chans
      /\ x.accepted = s.accepted /\ x.served = s.served /\ x.half_failed = s.half_failed
  BY <1>1, <1>2, OpenOnIs
<1>4. PICK tab2 \in [Fds -> Entries] :
        OpenOn(Close(x, c.wr_fd), x, tab2) /\ Freed(tab2, x.table, {c.wr_fd})
  BY <1>3, CloseOne
<1>5. OpenOn(Close(Close(s, c.rd_fd), c.wr_fd), s, tab2)
  BY <1>2, <1>3, <1>4 DEF OpenOn
<1>6. Freed(tab2, s.table, HeldBy(c))
  BY <1>1, <1>3, <1>4 DEF Freed, HeldBy, ToFd
<1>7. c.wr_fd = c.rd_fd => Freed(tab1, s.table, HeldBy(c))
  BY <1>1 DEF Freed, HeldBy, ToFd
<1> QED
  BY <1>1, <1>5, <1>6, <1>7

\* destroy_channel: the device that made the channel may have gone.
LEMMA DestroyChannelKeeps ==
    ASSUME Inv, NEW i \in 1..Len(chans), destroy_channel(i)
    PROVE  Inv'
<1>1. Typed /\ todo' = todo /\ left' = left
  BY DEF Inv, destroy_channel
<1>2. PICK c \in Channels : c = chans[i]
  BY <1>1, ElementOfSeq DEF Typed
<1>3. PICK d \in Kinds : d = c.dev /\ d # "ttt" /\ Paired(d, c.rd_fd, c.wr_fd)
  BY <1>2 DEF Channels
<1>4. PICK r : r = RemoveAt(chans, i)
  OBVIOUS
<1>5. r \in Seq(Channels)
  BY <1>1, <1>4, RemoveAtIs DEF Typed
<1>6. PICK u \in States : u = At(d)
  BY <1>1, AtIs
<1>7. /\ u.d = d /\ u.table = table /\ u.p = priv[d] /\ u.chans = chans
      /\ u.accepted = accepted /\ u.served = served /\ u.half_failed = half_failed
  BY <1>1, <1>6, AtIs
<1>8. PICK s : s = [u EXCEPT !.chans = r]
  OBVIOUS
<1>9. /\ s \in States /\ s.d = d /\ s.table = table /\ s.p = priv[d] /\ s.chans = r
      /\ s.accepted = accepted /\ s.served = served /\ s.half_failed = half_failed
  <2>1. s = State(u.d, u.table, u.p, r, u.accepted, u.served, u.half_failed)
    <3>1. \A x : [u EXCEPT !.chans = x] =
                   State(u.d, u.table, u.p, x, u.accepted, u.served, u.half_failed)
      BY Changed
    <3> QED
      BY <1>8, <3>1
  <2>2. /\ u.table \in [Fds -> Entries] /\ u.p \in Privs /\ u.accepted \in 0..MaxConns
        /\ u.served \in Served /\ u.half_failed \in BOOLEAN
    BY StateIs
  <2> HIDE <1>8, <1>4
  <2> QED
    BY <1>5, <1>7, <2>1, <2>2, Made
<1>10. PICK t : /\ Becomes(t)
                /\ \/ t = Close(s, c.rd_fd) /\ c.wr_fd = c.rd_fd
                   \/ t = Close(Close(s, c.rd_fd), c.wr_fd)
  <2>1. s = [At(c.dev) EXCEPT !.chans = RemoveAt(@, i)]
    BY <1>3, <1>4, <1>6, <1>7, <1>8
  <2>2. Becomes(CASE d \in {"server", "client"} -> tcp_channel_destroy(s, c)
                  [] d = "udp"                  -> udp_channel_destroy(s, c)
                  [] d \in {"fio", "stdio"}     -> fio_channel_destroy(s, c)
                  [] d = "mfio"                 -> mfio_channel_destroy(s, c))
    BY <1>2, <1>3, <2>1 DEF destroy_channel
  <2>3. CASE d \in {"server", "client"} \/ d = "mfio"
    <3>1. Becomes(Close(s, c.rd_fd))
      BY <2>2, <2>3 DEF tcp_channel_destroy, mfio_channel_destroy
    <3> QED
      BY <1>3, <2>3, <3>1 DEF Paired, Tcp
  <2>4. CASE d = "udp" \/ d \in {"fio", "stdio"}
    <3>1. Becomes(Close(Close(s, c.rd_fd), c.wr_fd))
      BY <2>2, <2>4 DEF udp_channel_destroy, fio_channel_destroy
    <3> QED
      BY <3>1
  <2> QED
    BY <1>3, <2>3, <2>4, DevicesAssumption
<1>11. PICK tab \in [Fds -> Entries] : OpenOn(t, s, tab) /\ Freed(tab, s.table, HeldBy(c))
  BY <1>9, <1>10, CloseBoth
<1>12. /\ t \in States /\ t.d = d /\ t.table = tab /\ t.p = priv[d] /\ t.chans = r
       /\ t.accepted = accepted /\ t.served = served /\ t.half_failed = half_failed
  BY <1>9, <1>11, OpenOnIs
<1>13. ASSUME ~half_failed
       PROVE  /\ Own((left \cup Spare) \cup Elses(d, priv), d, t.table, t.p, t.chans)
              /\ \A f \in (left \cup Spare) \cup Elses(d, priv) : t.table[f] = table[f]
              /\ Shape(d, t.p) /\ Counted(d, t.table, t.p, t.accepted, t.served)
  <2>1. PICK o : o = (left \cup Spare) \cup Elses(d, priv)
    OBVIOUS
  <2>2. Own(o, d, table, priv[d], chans) /\ Shape(d, priv[d])
        /\ Counted(d, table, priv[d], accepted, served)
    BY <1>13, <2>1 DEF Inv, Owned, Orderly
  <2>3. Freed(tab, table, HeldBy(chans[i]))
    BY <1>2, <1>9, <1>11
  <2>4. Own(o, d, tab, priv[d], r)
    <3>1. table \in [Fds -> Entries] /\ chans \in Seq(Channels)
      BY <1>1 DEF Typed
    <3>2. Own(o, d, tab, priv[d], RemoveAt(chans, i))
      <4> HIDE <2>1
      <4> QED
        BY <2>2, <2>3, <3>1, OwnClose
    <3> QED
      BY <1>4, <3>2
  <2>5. \A f \in o \cup Mine(d, priv[d]) : tab[f] = table[f]
    BY <2>2, <2>3 DEF Own, Freed
  <2>6. Counted(d, tab, priv[d], accepted, served)
    <3>1. ASSUME d = "server", priv[d].alive, priv[d].con_fd_tmp # NO_FD
          PROVE  tab[priv[d].con_fd_tmp] = table[priv[d].con_fd_tmp]
      <4>1. priv[d].con_fd_tmp \in Mine(d, priv[d])
        BY <2>2, <3>1 DEF Shape, Mine, Tcp
      <4> QED
        BY <2>5, <4>1
    <3> QED
      BY <2>2, <3>1 DEF Counted
  <2> QED
    BY <1>12, <2>1, <2>2, <2>4, <2>5, <2>6
<1>14. /\ d \notin Tcp \/ t.p.connected => t.p.con_fd_tmp = NO_FD
       /\ t.p.alive => priv[d].alive
       /\ left' \subseteq Fds /\ left' \subseteq left \cup Mine(d, priv[d])
  BY <1>1, <1>12 DEF Typed
<1>15. ~t.half_failed =>
         /\ ~half_failed /\ left' \subseteq left \cup Mine(d, priv[d])
         /\ Own((left' \cup Spare) \cup Elses(d, priv), d, t.table, t.p, t.chans)
         /\ \A f \in (left \cup Spare) \cup Elses(d, priv) : t.table[f] = table[f]
         /\ Shape(d, t.p) /\ Counted(d, t.table, t.p, t.accepted, t.served)
         /\ d # "server" => t.accepted = accepted /\ t.served = served
  BY <1>1, <1>12, <1>13, <1>14
<1> HIDE <1>8, <1>4
<1> QED
  BY <1>1, <1>10, <1>12, <1>14, <1>15, Became

\* A new device, which stdio is when it has the standard descriptors.
Begun(d, p) ==
    /\ p \in Privs /\ p.alive /\ ~p.connected /\ p.fd = NO_FD /\ p.con_fd_tmp = NO_FD
    /\ p.rd_fd \in {NO_FD, 0} /\ p.wr_fd \in {NO_FD, 1, 2}
    /\ d # "stdio" => p.rd_fd = NO_FD /\ p.wr_fd = NO_FD

\* A device begins with nothing, or with the standard descriptors (the constructors).
LEMMA ConstructIs ==
    ASSUME NEW d \in Kinds, construct(d)
    PROVE  \E p : Begun(d, p) /\ priv' = [priv EXCEPT ![d] = p]
<1>1. PICK fresh : fresh = [Unconnected EXCEPT !.alive = TRUE]
  OBVIOUS
<1>2. 0 \in Numbers /\ 1 \in Numbers /\ 2 \in Numbers /\ NO_FD \in Numbers
  BY FdsAre DEF Numbers
<1>3. Begun("fio", fresh)
  BY <1>1, <1>2, UnconnectedIs DEF Begun, Privs
<1>4. ASSUME NEW q \in fio_construct(fresh) PROVE Begun("fio", q)
  <2>1. PICK m : q = [fresh EXCEPT !.rd_only = m = "rd", !.wr_only = m = "wr"]
    BY DEF fio_construct
  <2>2. PICK ro \in BOOLEAN, wo \in BOOLEAN : ro = (m = "rd") /\ wo = (m = "wr")
    OBVIOUS
  <2>3. q = [fresh EXCEPT !.rd_only = ro, !.wr_only = wo]
    BY <2>1, <2>2
  <2> QED
    BY <1>3, <2>3 DEF Begun, Privs
<1>5. ASSUME NEW p \in stdio_construct(fresh) PROVE Begun("stdio", p)
  <2>1. PICK q \in fio_construct(fresh), out \in {1, 2} :
          p = [q EXCEPT !.rd_fd = IF q.wr_only THEN NO_FD ELSE 0,
                        !.wr_fd = IF q.rd_only THEN NO_FD ELSE out]
    BY DEF stdio_construct
  <2>2. PICK rd \in {NO_FD, 0}, wr \in {NO_FD, 1, 2} : p = [q EXCEPT !.rd_fd = rd, !.wr_fd = wr]
    BY <2>1
  <2>3. rd \in Numbers /\ wr \in Numbers
    BY <1>2
  <2> QED
    BY <1>4, <2>2, <2>3 DEF Begun, Privs
<1>6. PICK p : /\ p \in CASE d = "fio"   -> fio_construct(fresh)
                          [] d = "stdio" -> stdio_construct(fresh)
                          [] OTHER       -> {fresh}
               /\ priv' = [priv EXCEPT ![d] = p]
  BY <1>1 DEF construct
<1>7. Begun(d, p)
  <2>1. CASE d = "fio"
    BY <1>4, <1>6, <2>1
  <2>2. CASE d = "stdio"
    BY <1>5, <1>6, <2>2
  <2>3. CASE d # "fio" /\ d # "stdio"
    BY <1>3, <1>6, <2>3 DEF Begun
  <2> QED
    BY <2>1, <2>2, <2>3
<1> QED
  BY <1>6, <1>7

\* construct: stdio takes the standard descriptors, and a server starts to count.
LEMMA ConstructKeeps ==
    ASSUME Inv, NEW d \in Kinds, construct(d)
    PROVE  Inv'
<1>1. Typed
  BY DEF Inv
<1>2. PICK p : Begun(d, p) /\ priv' = [priv EXCEPT ![d] = p]
  BY ConstructIs
<1>3. /\ ~priv[d].alive /\ todo[d] > 0 /\ todo' = [todo EXCEPT ![d] = @ - 1]
      /\ accepted' = IF d = "server" THEN 0 ELSE accepted
      /\ served' = IF d = "server" THEN <<>> ELSE served
      /\ table' = table /\ chans' = chans /\ left' = left /\ half_failed' = half_failed
  BY DEF construct
<1>4. /\ priv' \in [Kinds -> Privs] /\ priv'[d] = p
      /\ \A e \in Kinds : e # d => priv'[e] = priv[e]
  BY <1>1, <1>2 DEF Typed, Begun
<1>5. /\ todo' \in [Kinds -> Nat] /\ todo'[d] = todo[d] - 1
      /\ \A e \in Kinds : e # d => todo'[e] = todo[e]
  <2>1. todo[d] \in Nat /\ todo[d] - 1 \in Nat
    BY <1>1, <1>3 DEF Typed
  <2> QED
    BY <1>1, <1>3, <2>1 DEF Typed
<1>6. accepted' \in 0..MaxConns /\ served' \in Served
  BY <1>1, <1>3, FdsAre, EmptySeq DEF Typed, Served
<1>7. Typed'
  <2>1. \A e \in Kinds : e \notin Tcp \/ priv'[e].connected => priv'[e].con_fd_tmp = NO_FD
    BY <1>1, <1>2, <1>4 DEF Typed, Begun
  <2>2. "stdio" \in Kinds =>
          todo'["stdio"] \in {0, 1} /\ (todo'["stdio"] > 0 => ~priv'["stdio"].alive)
    <3>1. ASSUME "stdio" \in Kinds
          PROVE  todo["stdio"] \in {0, 1} /\ (todo["stdio"] > 0 => ~priv["stdio"].alive)
      BY <1>1, <3>1 DEF Typed
    <3>2. CASE d = "stdio"
      BY <1>3, <1>5, <3>1, <3>2
    <3>3. CASE d # "stdio"
      BY <1>4, <1>5, <3>1, <3>3
    <3> QED
      BY <3>2, <3>3
  <2> QED
    BY <1>1, <1>3, <1>4, <1>5, <1>6, <2>1, <2>2 DEF Typed
<1>8. /\ Spare' \subseteq Spare
      /\ d = "stdio" => Spare' = {} /\ Spare = 0..2
      /\ d # "stdio" => Spare' = Spare
  <2>1. CASE d = "stdio"
    <3>1. todo[d] = 1 /\ todo'[d] = 0
      BY <1>1, <1>3, <1>5, <2>1 DEF Typed
    <3> QED
      BY <2>1, <3>1 DEF Spare
  <2>2. CASE d # "stdio"
    BY <1>5, <2>2 DEF Spare
  <2> QED
    BY <2>1, <2>2
<1>9. ASSUME ~half_failed
      PROVE  /\ left' \cap Spare' = {}
             /\ \A f \in Spare' : table'[f] = Std[f]
             /\ \A k \in 1..Len(served') : served'[k] = k
             /\ Orderly(table', priv', chans', accepted', served', left' \cup Spare')
  <2>1. /\ left \cap Spare = {} /\ \A f \in Spare : table[f] = Std[f]
        /\ Orderly(table, priv, chans, accepted, served, left \cup Spare)
    BY <1>9 DEF Inv, Owned
  <2>2. left' \cap Spare' = {} /\ \A f \in Spare' : table'[f] = Std[f]
    BY <1>3, <1>8, <2>1
  <2>3. /\ Own((left \cup Spare) \cup Elses(d, priv), d, table, priv[d], chans)
        /\ Counted(d, table, priv[d], accepted, served)
    BY <2>1 DEF Orderly
  <2>4. Mine(d, priv[d]) = {}
    BY <1>3 DEF Mine
  <2>5. Own((left \cup Spare') \cup Elses(d, priv), d, table, p, chans)
    <3>1. CASE d # "stdio"
      <4>1. Mine(d, p) = {}
        BY <1>2, <3>1 DEF Mine, Begun
      <4> QED
        BY <1>8, <2>3, <2>4, <3>1, <4>1, OwnSame
    <3>2. CASE d = "stdio"
      <4>1. Mine(d, p) \subseteq Spare
        BY <1>2, <1>8, <3>2, FdsAre DEF Mine, Begun, Tcp
      <4>2. Spare \cap Elses(d, priv) = {}
        <5>1. ASSUME NEW e \in Kinds, e # d PROVE Spare \cap Mine(e, priv[e]) = {}
          BY <2>1, <5>1 DEF Orderly, Own
        <5> QED
          BY <5>1, ElsesAre
      <4>3. ASSUME NEW f \in Spare PROVE table[f].owner = "process"
        <5>1. f \in 0..2 /\ table[f] = Std[f]
          BY <1>8, <2>1, <3>2, <4>3
        <5>2. Std[f] = Open("process", "std", f)
          BY <5>1 DEF Std
        <5> QED
          BY <5>1, <5>2 DEF Open
      <4>4. PICK o, n : o = (left \cup Spare) \cup Elses(d, priv) /\ n = left \cup Elses(d, priv)
        OBVIOUS
      <4>5. /\ n \subseteq o /\ Mine(d, p) \subseteq o /\ Mine(d, p) \cap n = {}
            /\ \A f \in o : f \in n \/ table[f].owner = "process"
        BY <2>1, <4>1, <4>2, <4>3, <4>4
      <4>6. Own(o, d, table, priv[d], chans)
        BY <2>3, <4>4
      <4>7. Own(n, d, table, p, chans)
        BY <2>4, <4>1, <4>3, <4>5, <4>6, FdsAre DEF Own
      <4> QED
        BY <1>8, <3>2, <4>4, <4>7
    <3> QED
      BY <3>1, <3>2
  <2>6. Shape(d, p) /\ Counted(d, table, p, accepted', served')
    <3>1. Shape(d, p)
      BY <1>2, FdsAre DEF Shape, Begun
    <3>2. CASE d # "server"
      BY <1>3, <2>3, <3>1, <3>2 DEF Counted
    <3>3. CASE d = "server"
      <4>1. PICK srv, n : srv = served' /\ n = Len(srv)
        OBVIOUS
      <4>2. n = 0 /\ accepted' = 0
        BY <1>3, <3>3, <4>1, EmptySeq
      <4>3. p.con_fd_tmp = NO_FD
        BY <1>2 DEF Begun
      <4>4. \A k \in 1..n : srv[k] = k
        BY <4>2
      <4>5. Counted(d, table, p, 0, srv)
        <5>1. Len(srv) = n
          BY <4>1
        <5> HIDE <4>1
        <5> QED
          BY <4>2, <4>3, <4>4, <5>1 DEF Counted
      <4> QED
        BY <3>1, <4>1, <4>2, <4>5
    <3> QED
      BY <3>1, <3>2, <3>3
  <2>7. DoneBy(d, table, priv, accepted, served, left \cup Spare,
               table', priv', chans', accepted', served', left' \cup Spare')
    BY <1>3, <1>4, <1>8, <2>5, <2>6 DEF DoneBy
  <2>8. table \in [Fds -> Entries] /\ priv \in [Kinds -> Privs] /\ table' \in [Fds -> Entries]
    BY <1>1, <1>3 DEF Typed
  <2>9. Orderly(table', priv', chans', accepted', served', left' \cup Spare')
    BY <1>4, <2>1, <2>7, <2>8, OrderlyKept
  <2>10. \A k \in 1..Len(served') : served'[k] = k
    BY <2>6 DEF Counted
  <2> QED
    BY <2>2, <2>9, <2>10
<1> QED
  BY <1>3, <1>7, <1>9 DEF Inv, Owned

\* No device is constructed, and only the standard descriptors are open.
LEMMA Initially == Init => Inv
<1> SUFFICES ASSUME Init PROVE Inv
  OBVIOUS
<1>1. /\ table = [f \in Fds |-> IF f \in 0..2 THEN Std[f] ELSE Free]
      /\ priv = [d \in Kinds |-> Unconnected]
      /\ chans = <<>> /\ accepted = 0 /\ served = <<>> /\ left = {} /\ half_failed = FALSE
  BY DEF Init
<1>2. table \in [Fds -> Entries]
  <2>1. Free \in Entries /\ \A f \in 0..2 : Std[f] \in Entries
    BY DEF Entries
  <2> QED
    BY <1>1, <2>1
<1>3. priv \in [Kinds -> Privs] /\ \A d \in Kinds : priv[d] = Unconnected
  BY <1>1, UnconnectedIs
<1>4. todo \in [Kinds -> Nat] /\ ("stdio" \in Kinds => todo["stdio"] \in {0, 1})
  <2>1. PICK some \in SUBSET Kinds :
          todo = [d \in Kinds |-> IF d \notin some THEN 0
                                  ELSE IF d = "stdio" THEN 1 ELSE MaxUses]
    BY DEF Init
  <2> QED
    BY <2>1, DevicesAssumption
<1>5. Typed
  <2>1. /\ chans \in Seq(Channels) /\ served \in Served /\ accepted \in 0..MaxConns
        /\ left \subseteq Fds /\ half_failed \in BOOLEAN
    <3>1. chans \in Seq(Channels)
      BY <1>1, EmptySeq
    <3>2. served \in Served
      BY <1>1, EmptySeq DEF Served
    <3>3. accepted \in 0..MaxConns
      BY <1>1, FdsAre
    <3> QED
      BY <1>1, <3>1, <3>2, <3>3
  <2>2. \A d \in Kinds : priv[d].con_fd_tmp = NO_FD /\ ~priv[d].alive
    BY <1>3, UnconnectedIs
  <2> QED
    BY <1>2, <1>3, <1>4, <2>1, <2>2 DEF Typed
<1>6. Spare \subseteq 0..2 /\ \A f \in Spare : table[f] = Std[f]
  <2>1. Spare \subseteq 0..2
    BY DEF Spare
  <2> QED
    BY <1>1, <2>1, FdsAre
<1>7. \A f \in Fds : table[f].owner \notin Kinds
  <2>1. ASSUME NEW f \in 0..2 PROVE Std[f].owner = "process"
    <3>1. Std[f] = Open("process", "std", f)
      BY DEF Std
    <3> QED
      BY <3>1 DEF Open
  <2>2. Free.owner = "none"
    BY DEF Free, Open
  <2> QED
    BY <1>1, <2>1, <2>2, FdsAre
<1>8. \A f \in Spare : table[f] # Free
  <2>1. ASSUME NEW f \in 0..2 PROVE Std[f] # Free
    <3>1. Std[f] = Open("process", "std", f)
      BY DEF Std
    <3> QED
      BY <3>1 DEF Open, Free
  <2> QED
    BY <1>6, <2>1
<1>9. \A d \in Kinds : Mine(d, priv[d]) = {} /\ Elses(d, priv) = {}
  <2>1. \A d \in Kinds : Mine(d, priv[d]) = {}
    BY <1>3, UnconnectedIs DEF Mine
  <2> QED
    BY <2>1, ElsesAre
<1>10. 1..Len(chans) = {} /\ 1..Len(served) = {}
  BY <1>1, EmptySeq
<1>11. ASSUME NEW d \in Kinds
       PROVE  /\ Own((left \cup Spare) \cup Elses(d, priv), d, table, priv[d], chans)
              /\ Shape(d, priv[d])
              /\ Counted(d, table, priv[d], accepted, served)
  <2>1. Own((left \cup Spare) \cup Elses(d, priv), d, table, priv[d], chans)
    <3>1. (left \cup Spare) \cup Elses(d, priv) = Spare /\ Spare \subseteq Fds
      BY <1>1, <1>6, <1>9, FdsAre
    <3>2. Own(Spare, d, table, priv[d], chans)
      BY <1>7, <1>8, <1>9, <1>10, <3>1 DEF Own
    <3> QED
      BY <3>1, <3>2
  <2>2. Shape(d, priv[d])
    BY <1>3, UnconnectedIs, FdsAre DEF Shape
  <2>3. Counted(d, table, priv[d], accepted, served)
    BY <1>3, <1>10, UnconnectedIs DEF Counted
  <2> QED
    BY <2>1, <2>2, <2>3
<1>12. Owned
  BY <1>1, <1>6, <1>10, <1>11 DEF Owned, Orderly
<1> QED
  BY <1>5, <1>12 DEF Inv

\* Every step keeps the invariant: a step is a call of one device, or the end of one
\* channel.
LEMMA Stepwise == Inv /\ [Next]_vars => Inv'
<1> SUFFICES ASSUME Inv, [Next]_vars PROVE Inv'
  OBVIOUS
<1>1. CASE UNCHANGED vars
  <2>1. Typed' /\ Spare' = Spare
    BY <1>1 DEF Inv, Typed, Spare, vars
  <2>2. Owned'
    BY <1>1, <2>1 DEF Inv, Owned, vars
  <2> QED
    BY <2>1, <2>2 DEF Inv
<1>2. ASSUME NEW d \in Kinds, construct(d) PROVE Inv'
  BY <1>2, ConstructKeeps
<1>3. ASSUME NEW d \in Kinds, ready(d) PROVE Inv'
  <2>1. PICK out \in device_ready(At(d)) : Becomes(out.s)
    BY <1>3 DEF ready
  <2>2. priv[d].alive /\ todo' = todo /\ left' = left
    BY <1>3 DEF ready
  <2> QED
    BY <2>1, <2>2, CallsKeep
<1>4. ASSUME NEW d \in Kinds, connect(d) PROVE Inv'
  <2>1. PICK out \in device_connect(At(d)) : Becomes(out.s)
    BY <1>4 DEF connect
  <2>2. priv[d].alive /\ todo' = todo /\ left' = left
    BY <1>4 DEF connect
  <2> QED
    BY <2>1, <2>2, CallsKeep
<1>5. ASSUME NEW d \in Kinds, destroy(d) PROVE Inv'
  BY <1>5, DestroyKeeps
<1>6. ASSUME NEW i \in 1..Len(chans), destroy_channel(i) PROVE Inv'
  BY <1>6, DestroyChannelKeeps
<1> QED
  BY <1>1, <1>2, <1>3, <1>4, <1>5, <1>6 DEF Next

\* The inductive invariant.
THEOREM Invariant == Spec => []Inv
<1> QED
  BY Initially, Stepwise, PTL DEF Spec

\* Every variable keeps its type, and a device that has connected has nothing
\* left to connect.
THEOREM TypeCorrect == Spec => []TypeOK
<1>1. Inv => TypeOK
  BY DEF Inv, Typed, TypeOK, Entries, Privs, Numbers, Roles
<1> QED
  BY <1>1, Invariant, PTL

\* A channel's descriptors stay open on what the channel was made of, and belong to
\* no other channel, whatever is destroyed, closed and opened since; what a device
\* has ready is its own (the destroy functions of all drivers).
THEOREM ChannelsOwn == Spec => []OwnDescriptors
<1>1. ASSUME Inv, ~half_failed PROVE OwnDescriptors
  <2>1. Orderly(table, priv, chans, accepted, served, left \cup Spare)
    BY <1>1 DEF Inv, Owned
  <2>2. ASSUME NEW i \in 1..Len(chans)
        PROVE  /\ {table[f] : f \in Held(i)} = chans[i].is /\ Free \notin chans[i].is
               /\ \A j \in 1..Len(chans) : i # j => Held(i) \cap Held(j) = {}
    <3>1. chans[i] \in Channels
      BY <1>1, ElementOfSeq DEF Inv, Typed
    <3>2. PICK d \in Kinds : d = chans[i].dev
      BY <3>1 DEF Channels
    <3>3. Own((left \cup Spare) \cup Elses(d, priv), d, table, priv[d], chans)
      BY <2>1 DEF Orderly
    <3>4. \A j : Held(j) = HeldBy(chans[j])
      BY DEF Held, HeldBy
    <3>5. {table[f] : f \in HeldBy(chans[i])} = chans[i].is /\ Free \notin chans[i].is
      BY <3>3 DEF Own
    <3>6. \A j \in 1..Len(chans) : i # j => HeldBy(chans[i]) \cap HeldBy(chans[j]) = {}
      BY <3>3 DEF Own
    <3> QED
      BY <3>4, <3>5, <3>6
  <2>3. ASSUME NEW d \in Kinds, NEW f \in Ready(d) PROVE table[f].owner \in {d, "process"}
    <3>1. f \in Mine(d, priv[d])
      BY <2>3 DEF Ready, Mine, Tcp
    <3> QED
      BY <2>1, <3>1 DEF Orderly, Own
  <2> QED
    BY <2>2, <2>3 DEF OwnDescriptors
<1>2. Inv => OwnDescriptors
  BY <1>1 DEF OwnDescriptors
<1> QED
  BY <1>2, Invariant, PTL

\* What is open belongs to a channel, or is a device's that has it ready or listens
\* on it, but for what a device had ready when it was destroyed.
THEOREM NothingLeaks == Spec => []NoLeak
<1>1. ASSUME Inv, ~half_failed, NEW f \in Fds, table[f].owner \in Kinds, f \notin left
      PROVE  \/ \E i \in 1..Len(chans) : f \in Held(i)
             \/ \E d \in {table[f].owner} : f \in Ready(d) \/ (priv[d].alive /\ f = priv[d].fd)
  <2>1. PICK d \in Kinds : d = table[f].owner
    BY <1>1
  <2>2. /\ Orderly(table, priv, chans, accepted, served, left \cup Spare)
        /\ \A g \in Spare : table[g] = Std[g]
    BY <1>1 DEF Inv, Owned
  <2>3. Own((left \cup Spare) \cup Elses(d, priv), d, table, priv[d], chans)
    BY <2>2 DEF Orderly
  <2>4. \/ f \in Spare \/ f \in Elses(d, priv) \/ f \in Mine(d, priv[d])
        \/ \E i \in 1..Len(chans) : f \in HeldBy(chans[i])
    BY <1>1, <2>1, <2>3 DEF Own
  <2>5. f \notin Spare
    <3>1. ASSUME NEW g \in 0..2 PROVE Std[g].owner = "process"
      <4>1. Std[g] = Open("process", "std", g)
        BY DEF Std
      <4> QED
        BY <4>1 DEF Open
    <3>2. Spare \subseteq 0..2
      BY DEF Spare
    <3> QED
      BY <1>1, <2>2, <3>1, <3>2, FdsAre
  <2>6. f \notin Elses(d, priv)
    <3>1. ASSUME NEW e \in Kinds, e # d, f \in Mine(e, priv[e]) PROVE FALSE
      <4>1. Own((left \cup Spare) \cup Elses(e, priv), e, table, priv[e], chans)
        BY <2>2 DEF Orderly
      <4>2. table[f].owner \in {e, "process"}
        BY <3>1, <4>1 DEF Own
      <4> QED
        BY <2>1, <3>1, <4>2, FdsAre
    <3> QED
      BY <3>1, ElsesAre
  <2>7. CASE f \in Mine(d, priv[d])
    <3>1. priv[d].alive /\ (f \in Ready(d) \/ f = priv[d].fd)
      BY <2>7 DEF Mine, Ready, Tcp
    <3> QED
      BY <2>1, <3>1
  <2>8. CASE \E i \in 1..Len(chans) : f \in HeldBy(chans[i])
    BY <2>8 DEF Held, HeldBy
  <2> QED
    BY <2>4, <2>5, <2>6, <2>7, <2>8
<1>2. Inv => NoLeak
  BY <1>1 DEF NoLeak
<1> QED
  BY <1>2, Invariant, PTL

\* Every connection that the server accepts becomes one channel, in the order of
\* the connections (tcp_accept and tcp_connect).
THEOREM InOrderOfAccept == Spec => []AcceptedInOrder
<1>1. Inv => AcceptedInOrder
  BY DEF Inv, Owned, Orderly, Counted, AcceptedInOrder
<1> QED
  BY <1>1, Invariant, PTL
=============================================================================
