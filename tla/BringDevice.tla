----------------------------- MODULE BringDevice -----------------------------
(***************************************************************************)
(* The bring device (src/src/drivers/bring/bring_device.c): how a server   *)
(* process and a client process that were given the same name come to map  *)
(* the same file.  The server creates the file, fills in its header and    *)
(* then writes BRING_MAGIC_SERVER; a client that finds that magic maps the *)
(* file, removes its name from the file system and answers with            *)
(* BRING_MAGIC_CLIENT.  There is no other communication.                   *)
(*                                                                         *)
(* Every system call and every access to the shared magic is a step, so    *)
(* the peeks of all processes interleave.  A process may crash between any *)
(* two steps and start afresh; its file stays.  What BringChannel does     *)
(* with the mapped file begins after this.                                 *)
(***************************************************************************)
EXTENDS Integers, FiniteSets

CONSTANTS
    Servers, Clients,   \* the processes that use the name
    MaxFiles,           \* bound: files created with that name
    MaxCrashes,         \* bound: crashes in all
    StaleFiles,         \* what an earlier run may have left under the name
    CallsMayFail,       \* may mmap, mlock, lseek and write fail?
    Retries,            \* does an application go on after an error?
    Impatient           \* does it ask for results without a ready first?

ASSUME DeviceAssumption ==
    /\ Servers \cap Clients = {}
    /\ MaxFiles \in Nat \ {0} /\ MaxCrashes \in Nat
    /\ StaleFiles \subseteq {"absent", "empty", "sized", "announced"}
    /\ CallsMayFail \in BOOLEAN /\ Retries \in BOOLEAN
    /\ Impatient \in BOOLEAN

Procs  == Servers \cup Clients
Files  == 1..MaxFiles
NoFile == 0

VARIABLES
    path,           \* the file the name refers to
    created,        \* files created so far
    file,           \* [Files -> size set?, header filled in?, magic]
    pc,             \* where each process is in its peek
    opened,         \* the peek's local descriptor
    bring_fd,       \* the device's descriptor, and with it bring_head
    requests,       \* entries in chan_req_queue (it has room for one)
    is_connected,
    channel,        \* the file the application's channel is on
    crashes

device == <<bring_fd, requests, is_connected, channel>>
vars   == <<path, created, file, pc, opened, device, crashes>>

Empty == [sized |-> FALSE, header |-> FALSE, magic |-> "zero"]
Leftover(kind) ==
    [sized  |-> kind \in {"sized", "announced"},
     header |-> kind = "announced",
     magic  |-> IF kind = "announced" THEN "SERVER" ELSE "zero"]

Init ==
    /\ \E kind \in StaleFiles :
          /\ path    = IF kind = "absent" THEN NoFile ELSE 1
          /\ created = IF kind = "absent" THEN 0 ELSE 1
          /\ file    = [f \in Files |-> IF f = 1 /\ kind # "absent"
                                        THEN Leftover(kind) ELSE Empty]
    /\ pc = [p \in Procs |-> "idle"]
    /\ opened   = [p \in Procs |-> NoFile]
    /\ bring_fd = [p \in Procs |-> NoFile]
    /\ requests = [p \in Procs |-> 0]
    /\ is_connected = [p \in Procs |-> FALSE]
    /\ channel  = [p \in Procs |-> NoFile]
    /\ crashes = 0

-----------------------------------------------------------------------------
Goto(p, label) == pc' = [pc EXCEPT ![p] = label]
Move(p, from, to) == pc[p] = from /\ Goto(p, to)

\* The peek ends with an error: its descriptor is closed.
Give_up(p) ==
    /\ Goto(p, "failed")
    /\ opened' = [opened EXCEPT ![p] = NoFile]

\* A peek runs when a request waits; channel_result also runs one on an
\* empty queue, if the application calls it unasked.
Peeks(p) == requests[p] = 1 \/ Impatient

\* camio_ctrl_chan_req: a full queue is refused and nothing changes.
FullOrNot(p) == FALSE                                    \* mutant
QueueFull(p) == requests[p] = 1

channel_request(p) ==
    /\ pc[p] = "idle"
    /\ ~QueueFull(p)
    /\ requests' = [requests EXCEPT ![p] = @ + 1]
    /\ UNCHANGED <<path, created, file, pc, opened, bring_fd, is_connected,
                   channel, crashes>>

-----------------------------------------------------------------------------
(***************************************************************************)
(* bring_connect_peek_server.                                              *)
(***************************************************************************)

\* Is there a stale file of that name?
server_open(s) ==
    /\ pc[s] = "idle" /\ Peeks(s)
    /\ bring_fd[s] = NoFile
    /\ Goto(s, IF path = NoFile THEN "create" ELSE "unlink")
    /\ UNCHANGED <<path, created, file, opened, device, crashes>>

\* Removes whatever the name refers to by now; if it is gone, an error.
server_unlink(s) ==
    /\ pc[s] = "unlink"
    /\ path' = NoFile
    /\ Goto(s, IF path = NoFile THEN "failed" ELSE "create")
    /\ UNCHANGED <<created, file, opened, device, crashes>>

\* O_CREAT | O_TRUNC: a file that has appeared meanwhile loses its contents.
server_create(s) ==
    /\ Move(s, "create", "resize")
    /\ IF path = NoFile
       THEN /\ created < MaxFiles
            /\ created' = created + 1
            /\ path' = created + 1
            /\ UNCHANGED file
       ELSE /\ file' = [file EXCEPT ![path] = Empty]
            /\ UNCHANGED <<path, created>>
    /\ opened' = [opened EXCEPT ![s] = path']
    /\ UNCHANGED <<device, crashes>>

server_resize(s) ==
    /\ Move(s, "resize", "map")
    /\ file' = [file EXCEPT ![opened[s]].sized = TRUE]
    /\ UNCHANGED <<path, created, opened, device, crashes>>

\* mmap, mlock, the header; the device keeps descriptor and mapping.
server_map(s) ==
    /\ Move(s, "map", "announce")
    /\ file' = [file EXCEPT ![opened[s]].header = TRUE]
    /\ bring_fd' = [bring_fd EXCEPT ![s] = opened[s]]
    /\ opened' = [opened EXCEPT ![s] = NoFile]
    /\ UNCHANGED <<path, created, requests, is_connected, channel, crashes>>

\* lseek, write, mmap or mlock fails: the file stays, and so does its name.
\* Bounded by MaxFiles, because the next attempt creates another file.
server_call_fails(s) ==
    /\ CallsMayFail
    /\ created < MaxFiles
    /\ pc[s] \in {"resize", "map"}
    /\ Give_up(s)
    /\ UNCHANGED <<path, created, file, device, crashes>>

server_announce(s) ==
    /\ Move(s, "announce", "look")
    /\ file' = [file EXCEPT ![bring_fd[s]].magic = "SERVER"]
    /\ UNCHANGED <<path, created, opened, device, crashes>>

\* bring_connect_peek: has a client answered?
AnsweredEarly(f) == file[f].magic # "zero"               \* mutant
Answered(f) == file[f].magic = "CLIENT"

server_look(s) ==
    /\ \/ pc[s] = "look"
       \/ pc[s] = "idle" /\ Peeks(s) /\ bring_fd[s] # NoFile
    /\ Goto(s, IF Answered(bring_fd[s]) THEN "ready" ELSE "idle")
    /\ UNCHANGED <<path, created, file, opened, device, crashes>>

-----------------------------------------------------------------------------
(***************************************************************************)
(* bring_connect_peek_client.  A file that is not there or not announced   *)
(* is ETRYAGAIN: the peek ends, and a later one starts over.               *)
(***************************************************************************)
client_open(c) ==
    /\ pc[c] = "idle" /\ Peeks(c)
    /\ bring_fd[c] = NoFile
    /\ path # NoFile
    /\ opened' = [opened EXCEPT ![c] = path]
    /\ Goto(c, "magic")
    /\ UNCHANGED <<path, created, file, device, crashes>>

AnnouncedOrNot(f) == file[f].sized                       \* mutant
Announced(f) == file[f].sized /\ file[f].magic = "SERVER"

client_read_magic(c) ==
    /\ pc[c] = "magic"
    /\ IF Announced(opened[c])
       THEN Goto(c, "header") /\ UNCHANGED opened
       ELSE Goto(c, "idle") /\ opened' = [opened EXCEPT ![c] = NoFile]
    /\ UNCHANGED <<path, created, file, device, crashes>>

\* The rest of the header, which is there unless the file was truncated.
client_read_header(c) ==
    /\ pc[c] = "header"
    /\ IF file[opened[c]].sized
       THEN Goto(c, "map") /\ UNCHANGED opened
       ELSE Goto(c, "idle") /\ opened' = [opened EXCEPT ![c] = NoFile]
    /\ UNCHANGED <<path, created, file, device, crashes>>

client_map_answering(c) ==                               \* mutant
    /\ Move(c, "map", "claim")
    /\ file' = [file EXCEPT ![opened[c]].magic = "CLIENT"]
    /\ UNCHANGED <<path, created, opened, device, crashes>>

client_map(c) ==
    /\ Move(c, "map", "claim")
    /\ UNCHANGED <<path, created, file, opened, device, crashes>>

client_call_fails(c) ==
    /\ CallsMayFail
    /\ pc[c] = "map"
    /\ Give_up(c)
    /\ UNCHANGED <<path, created, file, device, crashes>>

\* unlink: removes the name, whichever file it refers to by now.  The client
\* that finds no name any more was too late.
NameFreeOrNot == TRUE                                    \* mutant
NamePresent == path # NoFile

client_claim(c) ==
    /\ pc[c] = "claim"
    /\ path' = NoFile
    /\ IF NamePresent
       THEN /\ Goto(c, "answer")
            /\ bring_fd' = [bring_fd EXCEPT ![c] = opened[c]]
            /\ opened' = [opened EXCEPT ![c] = NoFile]
       ELSE /\ Give_up(c)
            /\ UNCHANGED bring_fd
    /\ UNCHANGED <<created, file, requests, is_connected, channel, crashes>>

client_answer_silently(c) ==                             \* mutant
    /\ Move(c, "answer", "ready")
    /\ UNCHANGED <<path, created, file, opened, device, crashes>>

client_answer(c) ==
    /\ Move(c, "answer", "ready")
    /\ file' = [file EXCEPT ![bring_fd[c]].magic = "CLIENT"]
    /\ UNCHANGED <<path, created, opened, device, crashes>>

\* A later request finds the device connected.
client_look(c) ==
    /\ pc[c] = "idle" /\ Peeks(c)
    /\ bring_fd[c] # NoFile
    /\ Goto(c, "ready")
    /\ UNCHANGED <<path, created, file, opened, device, crashes>>

-----------------------------------------------------------------------------
\* bring_channel_result: takes the request, if there is one, and answers it
\* with the only channel or with EALLREADYCONNECTED.  It does not look at
\* whether a peek has succeeded.
AsksResult(p) ==
    \/ pc[p] = "ready"
    \/ pc[p] = "idle" /\ Impatient /\ requests[p] = 1

channel_result(p) ==
    /\ AsksResult(p)
    /\ bring_fd[p] # NoFile
    /\ Goto(p, "idle")
    /\ requests' = [requests EXCEPT ![p] = 0]
    /\ IF requests[p] = 1 /\ ~is_connected[p]
       THEN /\ is_connected' = [is_connected EXCEPT ![p] = TRUE]
            /\ channel' = [channel EXCEPT ![p] = bring_fd[p]]
       ELSE UNCHANGED <<is_connected, channel>>
    /\ UNCHANGED <<path, created, file, opened, bring_fd, crashes>>

\* No memory for the channel or its buffers: the request is answered with
\* the error, and the device stays unconnected.
channel_result_fails(p) ==
    /\ CallsMayFail
    /\ AsksResult(p)
    /\ requests[p] = 1 /\ ~is_connected[p]
    /\ Goto(p, "failed")
    /\ requests' = [requests EXCEPT ![p] = 0]
    /\ UNCHANGED <<path, created, file, opened, bring_fd, is_connected,
                   channel, crashes>>

\* The application calls ready again after an error.
retry(p) ==
    /\ Retries
    /\ Move(p, "failed", "idle")
    /\ UNCHANGED <<path, created, file, opened, device, crashes>>

\* The process is gone and is started again; the file system stays.
Restart(p) ==
    /\ Goto(p, "idle")
    /\ opened'   = [opened EXCEPT ![p] = NoFile]
    /\ bring_fd' = [bring_fd EXCEPT ![p] = NoFile]
    /\ requests' = [requests EXCEPT ![p] = 0]
    /\ is_connected' = [is_connected EXCEPT ![p] = FALSE]
    /\ channel'  = [channel EXCEPT ![p] = NoFile]
    /\ UNCHANGED <<path, created, file>>

\* A result asked for before any file is mapped: bring_channel_construct
\* reads the geometry of the rings through a NULL bring_head.
channel_result_dies(p) ==
    /\ AsksResult(p)
    /\ bring_fd[p] = NoFile
    /\ Restart(p)
    /\ UNCHANGED crashes

\* The process dies for any other reason, at any point.
crash(p) ==
    /\ crashes < MaxCrashes
    /\ crashes' = crashes + 1
    /\ Restart(p)

-----------------------------------------------------------------------------
ServerPeek(s) ==
    \/ server_open(s) \/ server_unlink(s) \/ server_create(s)
    \/ server_resize(s) \/ server_map(s) \/ server_announce(s)
    \/ server_look(s)
ClientPeek(c) ==
    \/ client_open(c) \/ client_read_magic(c) \/ client_read_header(c)
    \/ client_map(c) \/ client_claim(c) \/ client_answer(c)
    \/ client_look(c)
Application(p) == channel_request(p) \/ channel_result(p) \/ retry(p)

Next ==
    \/ \E s \in Servers : ServerPeek(s) \/ server_call_fails(s)
    \/ \E c \in Clients : ClientPeek(c) \/ client_call_fails(c)
    \/ \E p \in Procs : \/ Application(p) \/ channel_result_fails(p)
                       \/ channel_result_dies(p) \/ crash(p)

Spec == Init /\ [][Next]_vars

\* Every process keeps polling its device; nothing obliges a call to fail or
\* a process to crash.
Fairness ==
    /\ \A s \in Servers : WF_vars(ServerPeek(s) \/ Application(s))
    /\ \A c \in Clients : WF_vars(ClientPeek(c) \/ Application(c))
FairSpec == Spec /\ Fairness

-----------------------------------------------------------------------------
(***************************************************************************)
(* Properties.                                                             *)
(***************************************************************************)
TypeOK ==
    /\ path \in Files \cup {NoFile}
    /\ created \in 0..MaxFiles
    /\ file \in [Files -> [sized : BOOLEAN, header : BOOLEAN,
                           magic : {"zero", "SERVER", "CLIENT"}]]
    /\ pc \in [Procs -> {"idle", "failed", "ready", "unlink", "create",
                         "resize", "map", "announce", "look", "magic",
                         "header", "claim", "answer"}]
    /\ opened \in [Procs -> Files \cup {NoFile}]
    /\ bring_fd \in [Procs -> Files \cup {NoFile}]
    /\ requests \in [Procs -> 0..1]
    /\ is_connected \in [Procs -> BOOLEAN]
    /\ channel \in [Procs -> Files \cup {NoFile}]
    /\ crashes \in 0..MaxCrashes

\* The header a client maps the file by is complete: the server fills it in
\* before the magic, and a client reads it after the magic.
MappedHeaderComplete ==
    \A c \in Clients :
        pc[c] \in {"map", "claim"} => file[opened[c]].header

\* However many clients find the same announced file, one of them gets it.
OneClientPerFile ==
    \A c, d \in Clients :
        bring_fd[c] # NoFile /\ bring_fd[c] = bring_fd[d] => c = d

\* A server hands out a channel only when a client is at the other end.
ServerHasPeer ==
    \A s \in Servers :
        channel[s] # NoFile =>
            \E c \in Clients : bring_fd[c] = channel[s]

\* A file that a client has taken is not found under the name any more, so
\* no later client can open it, whoever crashed and restarted meanwhile.
TakenIsUnnamed ==
    path # NoFile => file[path].magic # "CLIENT"

\* "Remove the filename from the filesystem. Since the and reader are both
\* still connected to the file" (bring_device.c:349): a client that has
\* claimed a file shares it with a server that has it mapped.  (As long as
\* no server dies: the file of a dead one looks the same.)
PeerConnected ==
    \A c \in Clients :
        bring_fd[c] # NoFile =>
            \E s \in Servers : bring_fd[s] = bring_fd[c]

\* With one server and nobody crashing, server and some client both end up
\* with a channel on the same file, however many calls fail, provided they
\* do not fail for ever, and whatever file was lying around before, except
\* one that was announced and never taken.  (With that one a client opens
\* the old file, the server replaces and announces it anew, the client's
\* unlink removes the name of the new one, bring_device.c:351, and it answers
\* on the old: the server waits for ever for a client that cannot come.)
Meet ==
    <>[](\A p \in Procs : pc[p] # "failed") => <>(\E s \in Servers, c \in Clients :
          channel[s] # NoFile /\ channel[s] = channel[c])

\* The handshake implements a rendezvous: a file is offered, then taken by
\* one client, and only then does its server join.
Rendezvous ==
    INSTANCE BringRendezvous WITH
        offered <- {f \in Files : file[f].magic # "zero"},
        taker   <- [f \in Files |-> {c \in Clients : bring_fd[c] = f}],
        joined  <- {f \in Files : \E s \in Servers : channel[s] = f}
RendezvousSpec == Rendezvous!RvSpec
=============================================================================
