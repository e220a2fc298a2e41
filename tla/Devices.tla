------------------------------ MODULE Devices ------------------------------
(***************************************************************************)
(* The devices that make channels over file descriptors, and the table of  *)
(* descriptors of their process: tcp as a listening server and as a        *)
(* client, udp, fio, mfio, stdio (fio over descriptors 0 and 1) and ttt    *)
(* (src/drivers/<name>/<name>_controller.c), with the constructors and     *)
(* destructors of their channels (src/drivers/<name>/<name>_channel.c).    *)
(*                                                                         *)
(* A device opens descriptors when it is asked whether it is ready, hands  *)
(* them to a channel when it connects, and each of the two is destroyed on *)
(* its own, in any order.  Descriptors are plain numbers: whoever keeps    *)
(* one that has been closed may hold, and close, somebody else's.          *)
(*                                                                         *)
(* A function of the code that may change state is an operator from a      *)
(* state s to the set of its outcomes, each an error code and a state.  s  *)
(* has the table, the private structure p of device d, the live channels,  *)
(* and what the listening socket has accepted and served.                  *)
(***************************************************************************)
EXTENDS Integers, Sequences, FiniteSets, SequencesExt

CONSTANTS
    Kinds,      \* the devices of a run
    MaxLive,    \* bound: different devices in one behaviour
    MaxUses,    \* bound: how often each of them is constructed
    MaxFd,      \* the process's largest descriptor
    MaxConns    \* bound: connections that clients make to the server

ASSUME DevicesAssumption ==
    /\ Kinds \subseteq {"server", "client", "udp", "fio", "mfio", "stdio", "ttt"}
    /\ MaxLive \in Nat /\ MaxUses \in Nat
    /\ MaxFd \in Nat /\ MaxFd >= 2 /\ MaxConns \in Nat

VARIABLES
    table,      \* what each descriptor is open on
    priv,       \* the devices' private structures
    chans,      \* the channels that exist
    accepted,   \* connections accepted by the present server
    served,     \* those that it has handed to a channel, in order
    todo,       \* how often each device is still going to be constructed
    left,       \* descriptors that a device had ready when it was destroyed
    half_failed \* a udp device has opened one socket and failed at the other

vars == <<table, priv, chans, accepted, served, todo, left, half_failed>>

Fds   == 0..MaxFd
NO_FD == -1

Open(owner, role, n) == [owner |-> owner, role |-> role, n |-> n]
Free == Open("none", "free", 0)
Std  == [f \in 0..2 |-> Open("process", "std", f)]

Unconnected == [alive |-> FALSE, fd |-> NO_FD, con_fd_tmp |-> NO_FD,
                rd_fd |-> NO_FD, wr_fd |-> NO_FD, connected |-> FALSE,
                rd_only |-> FALSE, wr_only |-> FALSE]

\* stdio is constructed once: a second one would take 0 and 1 for its own
\* although the first one's channel may have closed them.
Init ==
    /\ table = [f \in Fds |-> IF f \in 0..2 THEN Std[f] ELSE Free]
    /\ priv = [d \in Kinds |-> Unconnected]
    /\ chans = <<>>
    /\ accepted = 0 /\ served = <<>>
    /\ \E some \in SUBSET Kinds :
         /\ Cardinality(some) = MaxLive
         /\ todo = [d \in Kinds |-> IF d \notin some THEN 0
                                   ELSE IF d = "stdio" THEN 1 ELSE MaxUses]
    /\ left = {} /\ half_failed = FALSE

(***************************************************************************)
(* System calls, and the plumbing of outcomes                              *)
(***************************************************************************)
Out(err, s) == [err |-> err, s |-> s]

\* Goes on with rest where a call has returned ok, and returns its error where not.
Then(outcomes, ok, rest(_)) ==
    {o \in outcomes : o.err # ok} \cup UNION {rest(o.s) : o \in {x \in outcomes : x.err = ok}}

\* A call that opens a descriptor takes the lowest free one; these are its
\* successes.  Every caller also has an outcome in which it fails.
Lowest(s) == {f \in Fds : s.table[f] = Free /\ \A g \in 0..f - 1 : s.table[g] # Free}
Opened(s, role, n) ==
    {[fd |-> f, s |-> [s EXCEPT !.table[f] = Open(s.d, role, n)]] : f \in Lowest(s)}

\* close() of something that is not open does nothing.
Close(s, fd) == IF fd \in Fds THEN [s EXCEPT !.table[fd] = Free] ELSE s

\* A channel of these descriptors, or memory is short.  (When it is short for
\* the buffers, the half-built channel is already stored in *channel_o,
\* tcp_controller.c:249-254; the application uses a channel only after ENOERROR.)
NewChannel(s, rd, wr) ==
    {Out("ENOMEM", s),
     Out("ENOERROR",
         [s EXCEPT !.chans = Append(@, [dev |-> s.d, rd_fd |-> rd, wr_fd |-> wr,
                                        is |-> {s.table[f] : f \in {rd, wr} \cap Fds}]),
                   !.served = IF s.d = "server" THEN Append(@, s.table[rd].n) ELSE @])}

Connected(s) == {Out("ENOERROR", [s EXCEPT !.p.connected = TRUE])}

(***************************************************************************)
(* tcp                                                                     *)
(***************************************************************************)
Listens(s) == s.d = "server"

\* Every address is tried in turn, and a socket that cannot be bound or
\* connected is closed again; the last error is what counts.
tcp_resolve_bind_connect(s, do_connect) ==
    {Out("EBADOPT", s), Out("EINVALID", s)}
    \cup {Out(IF do_connect THEN "ENOTREADY" ELSE "EINVALID", Close(o.s, o.fd)) :
              o \in Opened(s, "socket", 0)}
    \cup {Out("ENOERROR", [o.s EXCEPT !.p.fd = o.fd]) : o \in Opened(s, "socket", 0)}

\* A socket that cannot be made to listen is kept, and never accepts.
tcp_listen(s) ==
    IF ~Listens(s) THEN {Out("ENOERROR", s)}
    ELSE {Out("ECHECKERRORNO", s),
          Out("ENOERROR", [s EXCEPT !.table[s.p.fd].role = "listening"])}

\* accept(): nobody is waiting, an error, or the next connection.
tcp_accept(s) ==
    LET none == [s EXCEPT !.p.con_fd_tmp = NO_FD]
    IN  {Out("ECHECKERRORNO", none)}
        \cup IF s.table[s.p.fd].role # "listening" THEN {}
             ELSE {Out("ETRYAGAIN", none)}
                  \cup {Out("ENOERROR", [o.s EXCEPT !.p.con_fd_tmp = o.fd, !.accepted = @ + 1]) :
                          o \in IF s.accepted = MaxConns THEN {}
                                ELSE Opened(s, "connection", s.accepted + 1)}

tcp_connect_peek(s) ==
    LET Accepting(t) == IF Listens(t) THEN tcp_accept(t)
                        ELSE {Out("ENOERROR", [t EXCEPT !.p.con_fd_tmp = t.p.fd])}
        resolved     == IF s.p.fd # NO_FD THEN {Out("ENOERROR", s)}
                        ELSE Then({Out(IF o.err = "ENOTREADY" THEN "ETRYAGAIN" ELSE o.err, o.s) :
                                     o \in tcp_resolve_bind_connect(s, ~Listens(s))},
                                  "ENOERROR", tcp_listen)
    IN  Then(resolved, "ENOERROR", Accepting)

\* Mutant: what an earlier call has accepted is forgotten.
tcp_device_ready_forgetting(s) ==
    IF s.p.connected THEN {Out("EALLREADYCONNECTED", s)}
    ELSE {Out(IF o.err = "ENOERROR" THEN "EREADY" ELSE "ENOTREADY", o.s) : o \in tcp_connect_peek(s)}

tcp_device_ready(s) ==
    IF s.p.connected THEN {Out("EALLREADYCONNECTED", s)}
    ELSE IF s.p.con_fd_tmp # NO_FD THEN {Out("EREADY", s)}
    ELSE {Out(CASE o.err = "ETRYAGAIN" -> "ENOTREADY"
                [] o.err = "ENOERROR"  -> "EREADY"
                [] OTHER               -> o.err, o.s) : o \in tcp_connect_peek(s)}

tcp_channel_construct(s, fd) == NewChannel(s, fd, fd)

\* Mutant: the descriptor that the channel has got is remembered.
HandedOverKept(s) == [s EXCEPT !.p.connected = ~Listens(s)]

\* Only a client connects once.
HandedOver(s) == [s EXCEPT !.p.con_fd_tmp = NO_FD, !.p.connected = ~Listens(s)]

tcp_connect(s) ==
    LET Construct(t) == tcp_channel_construct(t, t.p.con_fd_tmp)
        Finish(t)    == {Out("ENOERROR", HandedOver(t))}
    IN  Then(Then(tcp_device_ready(s), "EREADY", Construct), "ENOERROR", Finish)

\* Mutant: the channel's descriptor of a client is closed too.
tcp_destroy_all(s) == Close(s, s.p.fd)

tcp_destroy(s) == IF Listens(s) THEN Close(s, s.p.fd) ELSE s

\* Mutant: the test of the descriptor is the wrong way round.
tcp_channel_destroy_open(s, c) == IF c.rd_fd < 0 THEN Close(s, c.rd_fd) ELSE s

tcp_channel_destroy(s, c) == Close(s, c.rd_fd)

(***************************************************************************)
(* udp: one socket to read from and one to write to                        *)
(***************************************************************************)
udp_resolve(s, role) ==
    {[fd |-> NO_FD, s |-> s]} \cup {[fd |-> NO_FD, s |-> Close(o.s, o.fd)] : o \in Opened(s, role, 0)}
    \cup Opened(s, role, 0)

\* What is done with the first socket when there is no second one: the number
\* that is closed is that of the truth value rd_fd > -1, and a first socket
\* with number 0 is not looked at.
udp_tear_down(s) ==
    IF s.p.rd_fd = 0 THEN [s EXCEPT !.half_failed = TRUE]
    ELSE [Close(s, IF s.p.rd_fd > -1 THEN 1 ELSE 0) EXCEPT !.p.rd_fd = NO_FD, !.half_failed = TRUE]

udp_connect_peek(s) ==
    IF s.p.connected THEN {Out("EALLREADYCONNECTED", s)}
    ELSE IF s.p.rd_fd > -1 \/ s.p.wr_fd > -1 THEN {Out("ENOERROR", s)}
    ELSE UNION {IF rd.fd = NO_FD THEN {Out("EINVALID", rd.s)}
                ELSE LET t == [rd.s EXCEPT !.p.rd_fd = rd.fd]
                     IN  {IF wr.fd = NO_FD THEN Out("EINVALID", udp_tear_down(wr.s))
                          ELSE Out("ENOERROR", [wr.s EXCEPT !.p.wr_fd = wr.fd]) :
                            wr \in udp_resolve(t, "wr")} : rd \in udp_resolve(s, "rd")}

\* Says ready, even after the device has connected.
udp_device_ready(s) ==
    IF s.p.rd_fd > -1 \/ s.p.wr_fd > -1 THEN {Out("EREADY", s)}
    ELSE {Out(IF o.err = "ENOERROR" THEN "EREADY" ELSE o.err, o.s) : o \in udp_connect_peek(s)}

udp_channel_construct(s, rd, wr) == NewChannel(s, rd, wr)

udp_connect(s) ==
    LET Construct(t) == udp_channel_construct(t, t.p.rd_fd, t.p.wr_fd)
    IN  Then(Then(udp_connect_peek(s), "ENOERROR", Construct), "ENOERROR", Connected)

udp_channel_destroy(s, c) == Close(Close(s, c.rd_fd), c.wr_fd)

(***************************************************************************)
(* fio and stdio                                                           *)
(***************************************************************************)
Populated(p) ==
    \/ p.rd_fd > -1 /\ p.wr_fd > -1
    \/ p.rd_fd > -1 /\ p.wr_fd < 0 /\ p.rd_only
    \/ p.wr_fd > -1 /\ p.rd_fd < 0 /\ p.wr_only

\* One descriptor is opened, and serves both directions where both are open.
fio_connect_peek(s) ==
    IF Populated(s.p) THEN {Out("ENOERROR", s)}
    ELSE {Out("EINVALID", s)} \cup
         {Out("ENOERROR", [o.s EXCEPT !.p.rd_fd = IF @ < 0 THEN o.fd ELSE @,
                                      !.p.wr_fd = IF @ < 0 THEN o.fd ELSE @]) :
            o \in Opened(s, "file", 0)}

fio_device_ready(s) ==
    IF s.p.connected THEN {Out("ENOMORE", s)}
    ELSE {Out(IF o.err = "ENOERROR" THEN "EREADY" ELSE o.err, o.s) : o \in fio_connect_peek(s)}

fio_channel_construct(s, rd, wr) == NewChannel(s, rd, wr)

fio_connect(s) ==
    LET Construct(t) == IF t.p.connected THEN {Out("EALLREADYCONNECTED", t)}
                        ELSE fio_channel_construct(t, t.p.rd_fd, t.p.wr_fd)
    IN  Then(Then(fio_connect_peek(s), "ENOERROR", Construct), "ENOERROR", Connected)

fio_channel_destroy(s, c) == Close(Close(s, c.rd_fd), c.wr_fd)

\* The modes that a file or stdio is constructed with.  Of the descriptors that
\* a user may supply (fio_controller.c:63-68), only stdio's are modelled.
fio_construct(p) == {[p EXCEPT !.rd_only = m = "rd", !.wr_only = m = "wr"] : m \in {"both", "rd", "wr"}}
stdio_construct(p) ==
    UNION {{[q EXCEPT !.rd_fd = IF q.wr_only THEN NO_FD ELSE 0,
                      !.wr_fd = IF q.rd_only THEN NO_FD ELSE out] : out \in {1, 2}} :
             q \in fio_construct(p)}

(***************************************************************************)
(* mfio and ttt.  rd_fd stands for mfio's base_fd.                         *)
(***************************************************************************)
\* A file that cannot be mapped stays open: the next call finds it ready.
mfio_connect_peek(s) ==
    IF s.p.rd_fd > -1 THEN {Out("ENOERROR", s)}
    ELSE {Out("EINVALID", s)} \cup
         UNION {{Out(err, [o.s EXCEPT !.p.rd_fd = o.fd]) : err \in {"ECHECKERRORNO", "ENOERROR"}} :
                  o \in Opened(s, "file", 0)}

mfio_device_ready(s) ==
    {Out(IF o.err = "ENOERROR" THEN "EREADY" ELSE o.err, o.s) : o \in mfio_connect_peek(s)}

mfio_channel_construct(s, fd) == NewChannel(s, fd, fd)

mfio_connect(s) ==
    LET Construct(t) == IF t.p.connected THEN {Out("EALLREADYCONNECTED", t)}
                        ELSE mfio_channel_construct(t, t.p.rd_fd)
    IN  Then(Then(mfio_connect_peek(s), "ENOERROR", Construct), "ENOERROR", Connected)

mfio_channel_destroy(s, c) == Close(s, c.rd_fd)

\* A ttt device is never ready, so it never connects.
ttt_device_ready(s) == {Out("ENOTREADY", s)}
ttt_connect(s)      == ttt_device_ready(s)

(***************************************************************************)
(* The application: any call of the interface, in any order.               *)
(***************************************************************************)
At(d) == [d |-> d, table |-> table, p |-> priv[d], chans |-> chans, accepted |-> accepted,
          served |-> served, half_failed |-> half_failed]

Becomes(s) ==
    /\ table' = s.table /\ priv' = [priv EXCEPT ![s.d] = s.p]
    /\ chans' = s.chans /\ accepted' = s.accepted /\ served' = s.served
    /\ half_failed' = s.half_failed

device_ready(s) ==
    CASE s.d \in {"server", "client"} -> tcp_device_ready(s)
      [] s.d = "udp"                  -> udp_device_ready(s)
      [] s.d \in {"fio", "stdio"}     -> fio_device_ready(s)
      [] s.d = "mfio"                 -> mfio_device_ready(s)
      [] s.d = "ttt"                  -> ttt_device_ready(s)

device_connect(s) ==
    CASE s.d \in {"server", "client"} -> tcp_connect(s)
      [] s.d = "udp"                  -> udp_connect(s)
      [] s.d \in {"fio", "stdio"}     -> fio_connect(s)
      [] s.d = "mfio"                 -> mfio_connect(s)
      [] s.d = "ttt"                  -> ttt_connect(s)

construct(d) ==
    /\ ~priv[d].alive /\ todo[d] > 0
    /\ LET fresh == [Unconnected EXCEPT !.alive = TRUE]
       IN  \E p \in CASE d = "fio"   -> fio_construct(fresh)
                      [] d = "stdio" -> stdio_construct(fresh)
                      [] OTHER       -> {fresh} : priv' = [priv EXCEPT ![d] = p]
    /\ todo' = [todo EXCEPT ![d] = @ - 1]
    /\ accepted' = IF d = "server" THEN 0 ELSE accepted
    /\ served' = IF d = "server" THEN <<>> ELSE served
    /\ UNCHANGED <<table, chans, left, half_failed>>

ready(d) ==
    /\ priv[d].alive
    /\ \E o \in device_ready(At(d)) : Becomes(o.s)
    /\ UNCHANGED <<todo, left>>

connect(d) ==
    /\ priv[d].alive
    /\ \E o \in device_connect(At(d)) : Becomes(o.s)
    /\ UNCHANGED <<todo, left>>

\* What a device has opened and not yet handed to a channel.
Ready(d) ==
    LET p == priv[d]
    IN  IF ~p.alive \/ p.connected THEN {}
        ELSE IF d \in {"server", "client"} THEN {p.con_fd_tmp} \ {NO_FD}
        ELSE {p.rd_fd, p.wr_fd} \ {NO_FD}

destroy(d) ==
    /\ priv[d].alive
    /\ LET s == [At(d) EXCEPT !.p = Unconnected]
           t == IF d \in {"server", "client"} THEN tcp_destroy(At(d)) ELSE s
       IN  Becomes([s EXCEPT !.table = t.table])
    /\ left' = left \cup Ready(d)
    /\ UNCHANGED todo

destroy_channel(i) ==
    LET c == chans[i]
        s == [At(c.dev) EXCEPT !.chans = RemoveAt(@, i)]
    IN  /\ Becomes(CASE c.dev \in {"server", "client"} -> tcp_channel_destroy(s, c)
                     [] c.dev = "udp"                  -> udp_channel_destroy(s, c)
                     [] c.dev \in {"fio", "stdio"}     -> fio_channel_destroy(s, c)
                     [] c.dev = "mfio"                 -> mfio_channel_destroy(s, c))
        /\ UNCHANGED <<todo, left>>

Next ==
    \/ \E d \in Kinds : construct(d) \/ ready(d) \/ connect(d) \/ destroy(d)
    \/ \E i \in 1..Len(chans) : destroy_channel(i)

Spec == Init /\ [][Next]_vars

-----------------------------------------------------------------------------
ToFd(S) == S \cap Fds
Held(i) == ToFd({chans[i].rd_fd, chans[i].wr_fd})

\* Every variable keeps its type, and a device that has connected has nothing
\* left to connect.
TypeOK ==
    /\ table \in [Fds -> {Free} \cup [owner : Kinds, n : 0..MaxConns,
                            role : {"socket", "listening", "connection", "rd", "wr", "file"}]
                           \cup {Std[f] : f \in 0..2}]
    /\ priv \in [Kinds -> [alive : BOOLEAN, fd : {NO_FD} \cup Fds, con_fd_tmp : {NO_FD} \cup Fds,
                           rd_fd : {NO_FD} \cup Fds, wr_fd : {NO_FD} \cup Fds,
                           connected : BOOLEAN, rd_only : BOOLEAN, wr_only : BOOLEAN]]
    /\ \A d \in Kinds : priv[d].connected => priv[d].con_fd_tmp = NO_FD
    /\ accepted \in 0..MaxConns /\ left \subseteq Fds /\ half_failed \in BOOLEAN

\* A channel's descriptors are open on what the channel was made of, and
\* belong to no other channel, whatever was destroyed, closed and opened
\* since; and what a device has ready is its own.  A udp device that fails
\* half-way breaks this: it closes descriptor 1, whoever has it.
OwnDescriptors == ~half_failed =>
    /\ \A i \in 1..Len(chans) : {table[f] : f \in Held(i)} = chans[i].is /\ Free \notin chans[i].is
    /\ \A i, j \in 1..Len(chans) : i # j => Held(i) \cap Held(j) = {}
    /\ \A d \in Kinds : \A f \in Ready(d) : table[f].owner \in {d, "process"}

\* No descriptor leaks: what is open belongs to a channel, or is a device's,
\* which has it ready or listens on it.  The only ones that are lost are those
\* that a device had ready when it was destroyed, and the first socket of a udp
\* device that fails half-way.
NoLeak == ~half_failed =>
    \A f \in Fds : table[f].owner \in Kinds /\ f \notin left =>
        \/ \E i \in 1..Len(chans) : f \in Held(i)
        \/ \E d \in {table[f].owner} : f \in Ready(d) \/ (priv[d].alive /\ f = priv[d].fd)

\* Every connection that the server accepts becomes one channel, in the order
\* of the connections, although ready and connect both accept and either of
\* them may fail after it has: at most the last one is still to be handed out.
AcceptedInOrder == ~half_failed =>
    /\ \A k \in 1..Len(served) : served[k] = k
    /\ "server" \in Kinds /\ priv["server"].alive =>
         accepted - Len(served) = IF priv["server"].con_fd_tmp # NO_FD THEN 1 ELSE 0
==============================================================================
