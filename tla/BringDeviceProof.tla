-------------------------- MODULE BringDeviceProof --------------------------
(***************************************************************************)
(* The handshake of the bring device, for any number of clients, files and *)
(* failing calls.                                                          *)
(***************************************************************************)
EXTENDS BringDevice, TLAPS

(***************************************************************************)
(* Types, with any number of servers, crashes and impatient applications.  *)
(***************************************************************************)
FileType == [sized : BOOLEAN, header : BOOLEAN, magic : {"zero", "SERVER", "CLIENT"}]
Labels   == {"idle", "failed", "ready", "unlink", "create", "resize", "map",
             "announce", "look", "magic", "header", "claim", "answer"}

\* What an application does to its device, its own death included.
AppStep(p) == \/ Application(p) \/ channel_result_fails(p)
              \/ channel_result_dies(p) \/ crash(p)

LEMMA TypeInit == Init => TypeOK
<1> SUFFICES ASSUME Init PROVE TypeOK
  OBVIOUS
<1>1. PICK kind \in StaleFiles :
        /\ path    = IF kind = "absent" THEN NoFile ELSE 1
        /\ created = IF kind = "absent" THEN 0 ELSE 1
        /\ file    = [f \in Files |-> IF f = 1 /\ kind # "absent"
                                      THEN Leftover(kind) ELSE Empty]
  BY DEF Init
<1>2. Leftover(kind) \in FileType /\ Empty \in FileType
  BY DEF Leftover, Empty, FileType
<1>3. 1 \in Files /\ created \in 0..MaxFiles
  BY <1>1, DeviceAssumption DEF Files
<1> QED
  BY <1>1, <1>2, <1>3, DeviceAssumption DEF Init, TypeOK, FileType

LEMMA TypeNext == TypeOK /\ [Next]_vars => TypeOK'
<1> SUFFICES ASSUME TypeOK, [Next]_vars PROVE TypeOK'
  OBVIOUS
<1>1. ASSUME NEW s \in Servers, ServerPeek(s) \/ server_call_fails(s)
      PROVE  TypeOK'
  <2>1. s \in Procs
    BY DEF Procs
  <2>2. CASE server_open(s)
    BY <2>1, <2>2 DEF server_open, Goto, device, TypeOK
  <2>3. CASE server_unlink(s)
    BY <2>1, <2>3 DEF server_unlink, Goto, device, TypeOK
  <2>4. CASE server_create(s)
    <3>1. path' \in Files \cup {NoFile} /\ created' \in 0..MaxFiles
      BY <2>4, DeviceAssumption DEF server_create, TypeOK, Files
    <3>2. file' \in [Files -> FileType]
      <4>1. Empty \in FileType /\ file \in [Files -> FileType]
        BY DEF Empty, FileType, TypeOK
      <4>2. file' = file \/ file' = [file EXCEPT ![path] = Empty]
        BY <2>4 DEF server_create
      <4> QED
        BY <4>1, <4>2
    <3> QED
      BY <2>1, <2>4, <3>1, <3>2 DEF server_create, Move, Goto, device,
         TypeOK, FileType
  <2>5. CASE server_resize(s)
    BY <2>1, <2>5 DEF server_resize, Move, Goto, device, TypeOK
  <2>6. CASE server_map(s)
    BY <2>1, <2>6 DEF server_map, Move, Goto, device, TypeOK
  <2>7. CASE server_announce(s)
    BY <2>1, <2>7 DEF server_announce, Move, Goto, device, TypeOK
  <2>8. CASE server_look(s)
    BY <2>1, <2>8 DEF server_look, Goto, device, TypeOK
  <2>9. CASE server_call_fails(s)
    BY <2>1, <2>9 DEF server_call_fails, Give_up, Goto, device, TypeOK
  <2> QED
    BY <1>1, <2>2, <2>3, <2>4, <2>5, <2>6, <2>7, <2>8, <2>9 DEF ServerPeek
<1>2. ASSUME NEW c \in Clients, ClientPeek(c) \/ client_call_fails(c)
      PROVE  TypeOK'
  <2>1. c \in Procs
    BY DEF Procs
  <2>2. CASE client_open(c)
    BY <2>1, <2>2 DEF client_open, Goto, device, TypeOK
  <2>3. CASE client_read_magic(c) \/ client_read_header(c)
    BY <2>1, <2>3 DEF client_read_magic, client_read_header, Goto, device, TypeOK
  <2>4. CASE client_map(c) \/ client_call_fails(c)
    BY <2>1, <2>4 DEF client_map, client_call_fails, Give_up, Move, Goto,
       device, TypeOK
  <2>5. CASE client_claim(c)
    BY <2>1, <2>5 DEF client_claim, Give_up, Goto, TypeOK
  <2>6. CASE client_answer(c)
    <3>1. file' \in [Files -> FileType]
      <4>1. file \in [Files -> FileType]
        BY DEF TypeOK, FileType
      <4>2. \A f \in FileType : [f EXCEPT !.magic = "CLIENT"] \in FileType
        BY DEF FileType
      <4>3. file' = [file EXCEPT ![bring_fd[c]].magic = "CLIENT"]
        BY <2>6 DEF client_answer
      <4> QED
        BY <4>1, <4>2, <4>3
    <3>2. pc' = [pc EXCEPT ![c] = "ready"] /\ UNCHANGED <<path, created, opened, device, crashes>>
      BY <2>6 DEF client_answer, Move, Goto
    <3> QED
      BY <2>1, <3>1, <3>2 DEF device, TypeOK, FileType
  <2>7. CASE client_look(c)
    BY <2>1, <2>7 DEF client_look, Goto, device, TypeOK
  <2> QED
    BY <1>2, <2>2, <2>3, <2>4, <2>5, <2>6, <2>7 DEF ClientPeek
<1>3. ASSUME NEW p \in Procs, AppStep(p)
      PROVE  TypeOK'
  <2>1. CASE channel_request(p)
    BY <2>1 DEF channel_request, QueueFull, TypeOK
  <2>2. CASE channel_result(p)
    <3>1. bring_fd[p] \in Files \cup {NoFile}
      BY DEF TypeOK
    <3>2. channel' \in [Procs -> Files \cup {NoFile}]
      BY <2>2, <3>1 DEF channel_result, TypeOK
    <3>3. is_connected' \in [Procs -> BOOLEAN]
      BY <2>2 DEF channel_result, TypeOK
    <3>4. pc' \in [Procs -> Labels]
      BY <2>2 DEF channel_result, Goto, TypeOK, Labels
    <3>5. requests' \in [Procs -> 0..1]
      BY <2>2 DEF channel_result, TypeOK
    <3> QED
      BY <2>2, <3>2, <3>3, <3>4, <3>5 DEF channel_result, TypeOK, Labels
  <2>3. CASE retry(p)
    BY <2>3 DEF retry, Move, Goto, device, TypeOK
  <2>4. CASE crash(p) \/ channel_result_dies(p)
    <3>1. crashes' \in 0..MaxCrashes
      BY <2>4, DeviceAssumption DEF crash, channel_result_dies, TypeOK
    <3>2. Restart(p)
      BY <2>4 DEF crash, channel_result_dies
    <3> QED
      BY <3>1, <3>2 DEF Restart, Goto, TypeOK
  <2>5. CASE channel_result_fails(p)
    BY <2>5 DEF channel_result_fails, Goto, TypeOK
  <2> QED
    BY <1>3, <2>1, <2>2, <2>3, <2>4, <2>5 DEF AppStep, Application
<1>4. CASE UNCHANGED vars
  BY <1>4 DEF vars, device, TypeOK
<1> QED
  BY <1>1, <1>2, <1>3, <1>4 DEF Next, AppStep

\* Every variable keeps its type, whoever crashes, races or asks too early: no
\* file beyond the bound, at most one request in each queue.
THEOREM TypesCorrect == Spec => []TypeOK
BY TypeInit, TypeNext, PTL DEF Spec

-----------------------------------------------------------------------------
(***************************************************************************)
(* One server; clients, crashes, failing calls and leftovers as they come. *)
(***************************************************************************)
Server == CHOOSE s \in Servers : TRUE
OneServer == Servers = {Server}

Complete(f) == f \in Files /\ file[f].sized /\ file[f].header

\* Files are numbered in the order of their creation, and those to come are
\* not announced.
InOrderOfCreation ==
    /\ path <= created
    /\ \A p \in Procs : opened[p] <= created /\ bring_fd[p] <= created
    /\ \A f \in Files : f > created => file[f].magic = "zero"

\* The steps of the server: the only one that could empty a file that others
\* use, creation, finds that the name is free.
ServerSteps ==
    \A s \in Servers :
        /\ pc[s] = "create" => path = NoFile
        /\ pc[s] \in {"resize", "map"} => opened[s] \in Files
        /\ pc[s] = "map" => file[opened[s]].sized
        /\ pc[s] = "announce" => Complete(bring_fd[s])

\* What is announced is complete, and so is what a client goes on with.
AnnouncedComplete ==
    /\ \A f \in Files : file[f].magic # "zero" => Complete(f)
    /\ \A c \in Clients :
          /\ pc[c] = "magic" => opened[c] \in Files
          /\ pc[c] \in {"header", "map", "claim"} => Complete(opened[c])
          /\ pc[c] = "answer" => Complete(bring_fd[c])

\* The name never refers to a file again that a client has taken.
TakenForGood ==
    /\ TakenIsUnnamed
    /\ \A c \in Clients : bring_fd[c] # NoFile => bring_fd[c] # path

FileInv == /\ TypeOK /\ InOrderOfCreation /\ ServerSteps
           /\ AnnouncedComplete /\ TakenForGood

LEMMA FileInit == Init => FileInv
<1> SUFFICES ASSUME Init PROVE FileInv
  OBVIOUS
<1>1. PICK kind \in StaleFiles :
        /\ path    = IF kind = "absent" THEN NoFile ELSE 1
        /\ created = IF kind = "absent" THEN 0 ELSE 1
        /\ file    = [f \in Files |-> IF f = 1 /\ kind # "absent"
                                      THEN Leftover(kind) ELSE Empty]
  BY DEF Init
<1>2. \A f \in Files : \/ file[f] = Empty
                       \/ f = 1 /\ kind # "absent" /\ file[f] = Leftover(kind)
  <2> SUFFICES ASSUME NEW f \in Files
               PROVE  file[f] = IF f = 1 /\ kind # "absent" THEN Leftover(kind) ELSE Empty
    OBVIOUS
  <2> QED
    BY <1>1
<1>3. /\ Empty.magic = "zero"
      /\ Leftover(kind).magic # "CLIENT"
      /\ Leftover(kind).magic # "zero" => Leftover(kind).sized /\ Leftover(kind).header
  BY DEF Empty, Leftover
<1>4. InOrderOfCreation
  BY <1>1, <1>2, <1>3, DeviceAssumption DEF InOrderOfCreation, Init, NoFile,
     Files, Procs
<1>5. AnnouncedComplete /\ ServerSteps
  BY <1>2, <1>3 DEF AnnouncedComplete, ServerSteps, Complete, Init, Procs
<1>6. TakenForGood
  <2>1. path # NoFile => path \in Files
    BY <1>1, DeviceAssumption DEF Files
  <2> QED
    BY <1>2, <1>3, <2>1 DEF TakenForGood, TakenIsUnnamed, Init, Procs
<1> QED
  BY TypeInit, <1>4, <1>5, <1>6 DEF FileInv

LEMMA FileNext == ASSUME OneServer, FileInv, [Next]_vars PROVE FileInv'
<1> USE DEF FileInv
<1>t. TypeOK'
  BY TypeNext
<1>d. /\ \A s \in Servers : s \in Procs /\ \A c \in Clients : s # c
      /\ \A c \in Clients : c \in Procs
      /\ \A s, r \in Servers : s = r
  BY DeviceAssumption DEF Procs, OneServer
<1>n. /\ path \in Nat /\ created \in Nat /\ NoFile = 0
      /\ \A p \in Procs : opened[p] \in Nat /\ bring_fd[p] \in Nat
      /\ Files = 1..MaxFiles /\ MaxFiles \in Nat
  BY DeviceAssumption DEF TypeOK, Files, NoFile
<1>1. ASSUME NEW s \in Servers, ServerPeek(s) \/ server_call_fails(s)
      PROVE  FileInv'
  <2>1. CASE server_open(s)
    <3>1. InOrderOfCreation'
      BY <1>d, <1>n, <1>t, <2>1 DEF server_open, Goto, device,
         InOrderOfCreation, TypeOK
    <3>2. ServerSteps'
      BY <1>d, <1>t, <2>1 DEF server_open, Goto, device, ServerSteps,
         Complete, TypeOK
    <3>3. AnnouncedComplete'
      BY <1>d, <1>t, <2>1 DEF server_open, Goto, device,
         AnnouncedComplete, Complete, TypeOK
    <3>4. TakenForGood'
      BY <1>d, <1>t, <2>1 DEF server_open, Goto, device, TakenForGood,
         TakenIsUnnamed, TypeOK
    <3> QED
      BY <1>t, <3>1, <3>2, <3>3, <3>4
  <2>2. CASE server_unlink(s)
    <3>1. InOrderOfCreation'
      BY <1>d, <1>n, <1>t, <2>2 DEF server_unlink, Goto, device,
         InOrderOfCreation, TypeOK
    <3>2. ServerSteps'
      BY <1>d, <1>t, <2>2 DEF server_unlink, Goto, device, ServerSteps,
         Complete, TypeOK
    <3>3. AnnouncedComplete'
      BY <1>d, <1>t, <2>2 DEF server_unlink, Goto, device,
         AnnouncedComplete, Complete, TypeOK
    <3>4. TakenForGood'
      BY <1>d, <1>t, <2>2 DEF server_unlink, Goto, device, TakenForGood,
         TakenIsUnnamed, TypeOK
    <3> QED
      BY <1>t, <3>1, <3>2, <3>3, <3>4
  <2>3. CASE server_create(s)
    <3>1. /\ created < MaxFiles /\ created' = created + 1 /\ path' = created + 1
          /\ path' \in Files
          /\ file' = file /\ bring_fd' = bring_fd
          /\ pc[s] = "create" /\ pc'[s] = "resize" /\ opened'[s] = path'
          /\ \A p \in Procs : p # s => pc'[p] = pc[p] /\ opened'[p] = opened[p]
      BY <1>d, <1>n, <2>3 DEF server_create, Move, Goto, device, TypeOK,
         ServerSteps
    <3>2. InOrderOfCreation'
      BY <1>d, <1>n, <1>t, <3>1 DEF InOrderOfCreation
    <3>3. ServerSteps'
      BY <1>d, <1>t, <3>1 DEF ServerSteps, Complete
    <3>4. AnnouncedComplete'
      BY <1>d, <1>t, <3>1 DEF AnnouncedComplete, Complete
    <3>5. TakenForGood'
      BY <1>d, <1>n, <1>t, <3>1 DEF TakenForGood, TakenIsUnnamed,
         InOrderOfCreation
    <3> QED
      BY <1>t, <3>2, <3>3, <3>4, <3>5
  <2>4. CASE server_resize(s)
    <3>1. InOrderOfCreation'
      BY <1>d, <1>n, <1>t, <2>4 DEF server_resize, Move, Goto, device,
         InOrderOfCreation, TypeOK
    <3>2. ServerSteps'
      BY <1>d, <1>t, <2>4 DEF server_resize, Move, Goto, device,
         ServerSteps, Complete, TypeOK
    <3>3. AnnouncedComplete'
      BY <1>d, <1>t, <2>4 DEF server_resize, Move, Goto, device,
         AnnouncedComplete, Complete, TypeOK
    <3>4. TakenForGood'
      BY <1>d, <1>t, <2>4 DEF server_resize, Move, Goto, device,
         TakenForGood, TakenIsUnnamed, TypeOK
    <3> QED
      BY <1>t, <3>1, <3>2, <3>3, <3>4
  <2>5. CASE server_map(s)
    <3>1. InOrderOfCreation'
      BY <1>d, <1>n, <1>t, <2>5 DEF server_map, Move, Goto,
         InOrderOfCreation, TypeOK
    <3>2. ServerSteps'
      BY <1>d, <1>t, <2>5 DEF server_map, Move, Goto, ServerSteps,
         Complete, TypeOK
    <3>3. AnnouncedComplete'
      BY <1>d, <1>t, <2>5 DEF server_map, Move, Goto, AnnouncedComplete,
         Complete, TypeOK
    <3>4. TakenForGood'
      BY <1>d, <1>t, <2>5 DEF server_map, Move, Goto, TakenForGood,
         TakenIsUnnamed, TypeOK
    <3> QED
      BY <1>t, <3>1, <3>2, <3>3, <3>4
  <2>6. CASE server_announce(s)
    <3>1. InOrderOfCreation'
      BY <1>d, <1>n, <1>t, <2>6 DEF server_announce, Move, Goto, device,
         InOrderOfCreation, TypeOK
    <3>2. ServerSteps'
      BY <1>d, <1>t, <2>6 DEF server_announce, Move, Goto, device,
         ServerSteps, Complete, TypeOK
    <3>3. AnnouncedComplete'
      <4>1. \A f \in Files : /\ file'[f].sized = file[f].sized
                             /\ file'[f].header = file[f].header
                             /\ file'[f].magic # file[f].magic => f = bring_fd[s]
        BY <2>6 DEF server_announce, TypeOK
      <4>2. Complete(bring_fd[s])
        BY <2>6 DEF server_announce, Move, ServerSteps
      <4>3. /\ UNCHANGED <<opened, bring_fd>>
            /\ \A c \in Clients : pc'[c] = pc[c]
        BY <1>d, <2>6 DEF server_announce, Move, Goto, device, TypeOK
      <4> QED
        BY <4>1, <4>2, <4>3 DEF AnnouncedComplete, Complete
    <3>4. TakenForGood'
      BY <1>d, <1>t, <2>6 DEF server_announce, Move, Goto, device,
         TakenForGood, TakenIsUnnamed, TypeOK
    <3> QED
      BY <1>t, <3>1, <3>2, <3>3, <3>4
  <2>7. CASE server_look(s)
    <3>1. InOrderOfCreation'
      BY <1>d, <1>n, <1>t, <2>7 DEF server_look, Goto, device,
         InOrderOfCreation, TypeOK
    <3>2. ServerSteps'
      BY <1>d, <1>t, <2>7 DEF server_look, Goto, device, ServerSteps,
         Complete, TypeOK
    <3>3. AnnouncedComplete'
      BY <1>d, <1>t, <2>7 DEF server_look, Goto, device,
         AnnouncedComplete, Complete, TypeOK
    <3>4. TakenForGood'
      BY <1>d, <1>t, <2>7 DEF server_look, Goto, device, TakenForGood,
         TakenIsUnnamed, TypeOK
    <3> QED
      BY <1>t, <3>1, <3>2, <3>3, <3>4
  <2>8. CASE server_call_fails(s)
    <3>1. InOrderOfCreation'
      BY <1>d, <1>n, <1>t, <2>8 DEF server_call_fails, Goto, Give_up,
         device, InOrderOfCreation, TypeOK
    <3>2. ServerSteps'
      BY <1>d, <1>t, <2>8 DEF server_call_fails, Goto, Give_up, device,
         ServerSteps, Complete, TypeOK
    <3>3. AnnouncedComplete'
      BY <1>d, <1>t, <2>8 DEF server_call_fails, Goto, Give_up, device,
         AnnouncedComplete, Complete, TypeOK
    <3>4. TakenForGood'
      BY <1>d, <1>t, <2>8 DEF server_call_fails, Goto, Give_up, device,
         TakenForGood, TakenIsUnnamed, TypeOK
    <3> QED
      BY <1>t, <3>1, <3>2, <3>3, <3>4
  <2> QED
    BY <1>1, <2>1, <2>2, <2>3, <2>4, <2>5, <2>6, <2>7, <2>8 DEF ServerPeek
<1>2. ASSUME NEW c \in Clients, ClientPeek(c) \/ client_call_fails(c)
      PROVE  FileInv'
  <2>1. CASE client_open(c)
    <3>1. InOrderOfCreation'
      BY <1>d, <1>n, <1>t, <2>1 DEF client_open, Goto, device,
         InOrderOfCreation, TypeOK
    <3>2. ServerSteps'
      BY <1>d, <1>t, <2>1 DEF client_open, Goto, device, ServerSteps,
         Complete, TypeOK
    <3>3. AnnouncedComplete'
      BY <1>d, <1>t, <2>1 DEF client_open, Goto, device,
         AnnouncedComplete, Complete, TypeOK
    <3>4. TakenForGood'
      BY <1>d, <1>t, <2>1 DEF client_open, Goto, device, TakenForGood,
         TakenIsUnnamed, TypeOK
    <3> QED
      BY <1>t, <3>1, <3>2, <3>3, <3>4
  <2>2. CASE client_read_magic(c)
    <3>1. /\ path' = path /\ created' = created /\ file' = file
          /\ bring_fd' = bring_fd
          /\ pc[c] = "magic"
          /\ \/ pc'[c] = "header" /\ opened'[c] = opened[c] /\ Announced(opened[c])
             \/ pc'[c] = "idle" /\ opened'[c] = NoFile
          /\ \A p \in Procs : p # c => pc'[p] = pc[p] /\ opened'[p] = opened[p]
      BY <1>d, <2>2 DEF client_read_magic, Goto, device, TypeOK
    <3>2. InOrderOfCreation'
      BY <1>d, <1>n, <1>t, <3>1 DEF InOrderOfCreation
    <3>3. ServerSteps'
      BY <1>d, <1>t, <3>1 DEF ServerSteps, Complete
    <3>4. AnnouncedComplete'
      BY <1>d, <1>t, <3>1 DEF AnnouncedComplete, Complete, Announced
    <3>5. TakenForGood'
      BY <1>d, <1>n, <1>t, <3>1 DEF TakenForGood, TakenIsUnnamed,
         InOrderOfCreation
    <3> QED
      BY <1>t, <3>2, <3>3, <3>4, <3>5
  <2>3. CASE client_read_header(c)
    <3>1. /\ path' = path /\ created' = created /\ file' = file
          /\ bring_fd' = bring_fd
          /\ pc[c] = "header"
          /\ \/ pc'[c] = "map" /\ opened'[c] = opened[c]
             \/ pc'[c] = "idle" /\ opened'[c] = NoFile
          /\ \A p \in Procs : p # c => pc'[p] = pc[p] /\ opened'[p] = opened[p]
      BY <1>d, <2>3 DEF client_read_header, Goto, device, TypeOK
    <3>2. InOrderOfCreation'
      BY <1>d, <1>n, <1>t, <3>1 DEF InOrderOfCreation
    <3>3. ServerSteps'
      BY <1>d, <1>t, <3>1 DEF ServerSteps, Complete
    <3>4. AnnouncedComplete'
      BY <1>d, <1>t, <3>1 DEF AnnouncedComplete, Complete
    <3>5. TakenForGood'
      BY <1>d, <1>n, <1>t, <3>1 DEF TakenForGood, TakenIsUnnamed,
         InOrderOfCreation
    <3> QED
      BY <1>t, <3>2, <3>3, <3>4, <3>5
  <2>4. CASE client_map(c)
    <3>1. InOrderOfCreation'
      BY <1>d, <1>n, <1>t, <2>4 DEF client_map, Move, Goto, device,
         InOrderOfCreation, TypeOK
    <3>2. ServerSteps'
      BY <1>d, <1>t, <2>4 DEF client_map, Move, Goto, device, ServerSteps,
         Complete, TypeOK
    <3>3. AnnouncedComplete'
      BY <1>d, <1>t, <2>4 DEF client_map, Move, Goto, device,
         AnnouncedComplete, Complete, TypeOK
    <3>4. TakenForGood'
      BY <1>d, <1>t, <2>4 DEF client_map, Move, Goto, device,
         TakenForGood, TakenIsUnnamed, TypeOK
    <3> QED
      BY <1>t, <3>1, <3>2, <3>3, <3>4
  <2>5. CASE client_claim(c)
    <3>1. /\ created' = created /\ file' = file
          /\ pc[c] = "claim" /\ path' = NoFile
          /\ \/ /\ pc'[c] = "answer"
                /\ bring_fd'[c] = opened[c] /\ opened'[c] = NoFile
             \/ /\ pc'[c] = "failed"
                /\ bring_fd'[c] = bring_fd[c] /\ opened'[c] = NoFile
          /\ \A p \in Procs : p # c => /\ pc'[p] = pc[p] /\ opened'[p] = opened[p]
                                        /\ bring_fd'[p] = bring_fd[p]
      <4>1. CASE NamePresent
        BY <1>d, <2>5, <4>1 DEF client_claim, Goto, TypeOK
      <4>2. CASE ~NamePresent
        BY <1>d, <2>5, <4>2 DEF client_claim, Goto, Give_up, TypeOK
      <4> QED
        BY <4>1, <4>2
    <3>2. InOrderOfCreation'
      BY <1>d, <1>n, <1>t, <3>1 DEF InOrderOfCreation
    <3>3. ServerSteps'
      BY <1>d, <1>t, <3>1 DEF ServerSteps, Complete
    <3>4. AnnouncedComplete'
      BY <1>d, <1>t, <3>1 DEF AnnouncedComplete, Complete
    <3>5. TakenForGood'
      BY <1>d, <1>n, <1>t, <3>1 DEF TakenForGood, TakenIsUnnamed,
         InOrderOfCreation
    <3> QED
      BY <1>t, <3>2, <3>3, <3>4, <3>5
  <2>6. CASE client_answer(c)
    <3>1. InOrderOfCreation'
      BY <1>d, <1>n, <1>t, <2>6 DEF client_answer, Move, Goto, device,
         InOrderOfCreation, TypeOK
    <3>2. ServerSteps'
      BY <1>d, <1>t, <2>6 DEF client_answer, Move, Goto, device,
         ServerSteps, Complete, TypeOK
    <3>3. AnnouncedComplete'
      BY <1>d, <1>t, <2>6 DEF client_answer, Move, Goto, device,
         AnnouncedComplete, Complete, TypeOK
    <3>4. TakenForGood'
      BY <1>d, <1>t, <2>6 DEF client_answer, Move, Goto, device,
         TakenForGood, TakenIsUnnamed, TypeOK
    <3> QED
      BY <1>t, <3>1, <3>2, <3>3, <3>4
  <2>7. CASE client_look(c)
    <3>1. InOrderOfCreation'
      BY <1>d, <1>n, <1>t, <2>7 DEF client_look, Goto, device,
         InOrderOfCreation, TypeOK
    <3>2. ServerSteps'
      BY <1>d, <1>t, <2>7 DEF client_look, Goto, device, ServerSteps,
         Complete, TypeOK
    <3>3. AnnouncedComplete'
      BY <1>d, <1>t, <2>7 DEF client_look, Goto, device,
         AnnouncedComplete, Complete, TypeOK
    <3>4. TakenForGood'
      BY <1>d, <1>t, <2>7 DEF client_look, Goto, device, TakenForGood,
         TakenIsUnnamed, TypeOK
    <3> QED
      BY <1>t, <3>1, <3>2, <3>3, <3>4
  <2>8. CASE client_call_fails(c)
    <3>1. InOrderOfCreation'
      BY <1>d, <1>n, <1>t, <2>8 DEF client_call_fails, Goto, Give_up,
         device, InOrderOfCreation, TypeOK
    <3>2. ServerSteps'
      BY <1>d, <1>t, <2>8 DEF client_call_fails, Goto, Give_up, device,
         ServerSteps, Complete, TypeOK
    <3>3. AnnouncedComplete'
      BY <1>d, <1>t, <2>8 DEF client_call_fails, Goto, Give_up, device,
         AnnouncedComplete, Complete, TypeOK
    <3>4. TakenForGood'
      BY <1>d, <1>t, <2>8 DEF client_call_fails, Goto, Give_up, device,
         TakenForGood, TakenIsUnnamed, TypeOK
    <3> QED
      BY <1>t, <3>1, <3>2, <3>3, <3>4
  <2> QED
    BY <1>2, <2>1, <2>2, <2>3, <2>4, <2>5, <2>6, <2>7, <2>8 DEF ClientPeek
<1>3. ASSUME NEW p \in Procs, AppStep(p)
      PROVE  FileInv'
  <2>1. CASE channel_request(p)
    <3>1. InOrderOfCreation'
      BY <1>d, <1>n, <1>t, <2>1 DEF channel_request, InOrderOfCreation, TypeOK
    <3>2. ServerSteps'
      BY <1>d, <1>t, <2>1 DEF channel_request, ServerSteps, Complete, TypeOK
    <3>3. AnnouncedComplete'
      BY <1>d, <1>t, <2>1 DEF channel_request, AnnouncedComplete, Complete, TypeOK
    <3>4. TakenForGood'
      BY <1>d, <1>t, <2>1 DEF channel_request, TakenForGood,
         TakenIsUnnamed, TypeOK
    <3> QED
      BY <1>t, <3>1, <3>2, <3>3, <3>4
  <2>2. CASE channel_result(p)
    <3>1. InOrderOfCreation'
      BY <1>d, <1>n, <1>t, <2>2 DEF channel_result, Goto,
         InOrderOfCreation, TypeOK
    <3>2. ServerSteps'
      BY <1>d, <1>t, <2>2 DEF channel_result, Goto, ServerSteps, Complete, TypeOK
    <3>3. AnnouncedComplete'
      BY <1>d, <1>t, <2>2 DEF channel_result, Goto, AnnouncedComplete,
         Complete, TypeOK
    <3>4. TakenForGood'
      BY <1>d, <1>t, <2>2 DEF channel_result, Goto, TakenForGood,
         TakenIsUnnamed, TypeOK
    <3> QED
      BY <1>t, <3>1, <3>2, <3>3, <3>4
  <2>3. CASE retry(p)
    <3>1. InOrderOfCreation'
      BY <1>d, <1>n, <1>t, <2>3 DEF retry, Move, Goto, device,
         InOrderOfCreation, TypeOK
    <3>2. ServerSteps'
      BY <1>d, <1>t, <2>3 DEF retry, Move, Goto, device, ServerSteps,
         Complete, TypeOK
    <3>3. AnnouncedComplete'
      BY <1>d, <1>t, <2>3 DEF retry, Move, Goto, device,
         AnnouncedComplete, Complete, TypeOK
    <3>4. TakenForGood'
      BY <1>d, <1>t, <2>3 DEF retry, Move, Goto, device, TakenForGood,
         TakenIsUnnamed, TypeOK
    <3> QED
      BY <1>t, <3>1, <3>2, <3>3, <3>4
  <2>4. CASE crash(p) \/ channel_result_dies(p)
    <3>0. Restart(p)
      BY <2>4 DEF crash, channel_result_dies
    <3>1. InOrderOfCreation'
      BY <1>d, <1>n, <1>t, <3>0 DEF Restart, Goto, InOrderOfCreation, TypeOK
    <3>2. ServerSteps'
      BY <1>d, <1>t, <3>0 DEF Restart, Goto, ServerSteps, Complete, TypeOK
    <3>3. AnnouncedComplete'
      BY <1>d, <1>t, <3>0 DEF Restart, Goto, AnnouncedComplete, Complete, TypeOK
    <3>4. TakenForGood'
      BY <1>d, <1>t, <3>0 DEF Restart, Goto, TakenForGood, TakenIsUnnamed, TypeOK
    <3> QED
      BY <1>t, <3>1, <3>2, <3>3, <3>4
  <2>5. CASE channel_result_fails(p)
    <3>1. InOrderOfCreation'
      BY <1>d, <1>n, <1>t, <2>5 DEF channel_result_fails, Goto,
         InOrderOfCreation, TypeOK
    <3>2. ServerSteps'
      BY <1>d, <1>t, <2>5 DEF channel_result_fails, Goto, ServerSteps,
         Complete, TypeOK
    <3>3. AnnouncedComplete'
      BY <1>d, <1>t, <2>5 DEF channel_result_fails, Goto,
         AnnouncedComplete, Complete, TypeOK
    <3>4. TakenForGood'
      BY <1>d, <1>t, <2>5 DEF channel_result_fails, Goto, TakenForGood,
         TakenIsUnnamed, TypeOK
    <3> QED
      BY <1>t, <3>1, <3>2, <3>3, <3>4
  <2> QED
    BY <1>3, <2>1, <2>2, <2>3, <2>4, <2>5 DEF AppStep, Application
<1>4. CASE UNCHANGED vars
  BY <1>t, <1>4 DEF vars, device, InOrderOfCreation, ServerSteps,
     AnnouncedComplete, Complete, TakenForGood, TakenIsUnnamed
<1> QED
  BY <1>1, <1>2, <1>3, <1>4 DEF Next, AppStep

\* A client maps a file by a complete header, with one server: it fills the
\* header in before the magic (bring_device.c:253), and nobody empties a file
\* that another process has open.
THEOREM HeadersComplete == ASSUME OneServer PROVE Spec => []MappedHeaderComplete
<1>1. FileInv => MappedHeaderComplete
  BY DEF FileInv, AnnouncedComplete, Complete, MappedHeaderComplete
<1> QED
  BY <1>1, FileInit, FileNext, PTL DEF Spec

\* No client finds a taken file under the name, with one server, whoever
\* crashes: the name is gone for good before the file is taken
\* (bring_device.c:351).
THEOREM TakenAreUnnamed == ASSUME OneServer PROVE Spec => []TakenIsUnnamed
<1>1. FileInv => TakenIsUnnamed
  BY DEF FileInv, TakenForGood
<1> QED
  BY <1>1, FileInit, FileNext, PTL DEF Spec

-----------------------------------------------------------------------------
(***************************************************************************)
(* One server, no crashes, no announced leftover, and applications that    *)
(* wait for ready: the assumptions under which the two sides meet.         *)
(***************************************************************************)
Undisturbed ==
    /\ OneServer
    /\ MaxCrashes = 0
    /\ ~Impatient
    /\ "announced" \notin StaleFiles

Offered == bring_fd[Server]     \* the file that the server has mapped

\* The server offers one file, and nothing else is ever announced.
OneOffer ==
    /\ \A f \in Files : file[f].magic # "zero" => Offered = f
    /\ Offered # NoFile =>
          /\ pc[Server] \in {"announce", "look", "ready", "idle", "failed"}
          /\ path \in {NoFile, Offered}
    /\ pc[Server] \in {"announce", "look", "ready"} => Offered # NoFile
    /\ pc[Server] \in {"resize", "map"} => path = opened[Server]
    /\ pc[Server] = "announce" => file[Offered].magic = "zero"

\* Clients on their way are on their way to that file, and one arrives.
OneTaker ==
    /\ \A c \in Clients :
          /\ pc[c] \in {"header", "map", "claim"} =>
                opened[c] = Offered /\ file[opened[c]].magic # "zero"
          /\ pc[c] \in {"answer", "ready"} => bring_fd[c] # NoFile
          /\ bring_fd[c] # NoFile =>
                /\ bring_fd[c] = Offered
                /\ path = NoFile
                /\ file[bring_fd[c]].magic # "zero"
    /\ \A c, d \in Clients :
          bring_fd[c] # NoFile /\ bring_fd[d] # NoFile => c = d

\* Answered says that a client has taken the file, and the server believes it.
Believed ==
    /\ \A f \in Files : file[f].magic = "CLIENT" =>
          \E c \in Clients : bring_fd[c] = f
    /\ pc[Server] = "ready" => Answered(Offered)
    /\ channel[Server] # NoFile =>
          channel[Server] = Offered /\ Answered(Offered)

MeetInv == FileInv /\ OneOffer /\ OneTaker /\ Believed

LEMMA MeetInit == ASSUME Undisturbed, Init PROVE MeetInv
<1>1. Server \in Servers
  BY DEF Undisturbed, OneServer
<1>2. \A f \in Files : file[f].magic = "zero"
  <2>1. PICK kind \in StaleFiles :
          file = [f \in Files |-> IF f = 1 /\ kind # "absent"
                                  THEN Leftover(kind) ELSE Empty]
    BY DEF Init
  <2>2. kind # "announced"
    BY DEF Undisturbed
  <2>3. Leftover(kind).magic = "zero" /\ Empty.magic = "zero"
    BY <2>2 DEF Leftover, Empty
  <2>4. ASSUME NEW f \in Files PROVE file[f] = Leftover(kind) \/ file[f] = Empty
    BY <2>1
  <2> QED
    BY <2>3, <2>4
<1>3. OneOffer /\ OneTaker /\ Believed
  BY <1>1, <1>2 DEF OneOffer, OneTaker, Believed, Offered, Answered, Init, Procs
<1> QED
  BY <1>3, FileInit DEF MeetInv

LEMMA MeetNext == ASSUME Undisturbed, MeetInv, [Next]_vars PROVE MeetInv'
<1> USE DEF MeetInv, FileInv
<1>t. FileInv' /\ TypeOK
  BY FileNext DEF Undisturbed
<1>d. /\ Server \in Servers /\ Server \in Procs
      /\ \A s \in Servers : s = Server
      /\ \A c \in Clients : c \in Procs /\ c # Server
      /\ ~Impatient
  BY DeviceAssumption DEF Procs, OneServer, Undisturbed
<1>n. NoFile \notin Files
  BY DEF Files, NoFile
<1>1. ASSUME NEW s \in Servers, ServerPeek(s) \/ server_call_fails(s)
      PROVE  MeetInv'
  <2>1. CASE server_open(s)
    <3>1. OneOffer'
      BY <1>d, <1>n, <1>t, <2>1 DEF server_open, Goto, device, Peeks,
         OneOffer, OneTaker, Offered, TypeOK, AnnouncedComplete,
         ServerSteps, Complete
    <3>2. OneTaker'
      BY <1>d, <1>n, <1>t, <2>1 DEF server_open, Goto, device, Peeks,
         OneOffer, OneTaker, Offered, TypeOK, AnnouncedComplete,
         ServerSteps, Complete
    <3>3. Believed'
      BY <1>d, <1>n, <1>t, <2>1 DEF server_open, Goto, device, Peeks,
         OneOffer, OneTaker, Believed, Offered, Answered, TypeOK,
         ServerSteps, AnnouncedComplete, Complete
    <3> QED
      BY <1>t, <3>1, <3>2, <3>3
  <2>2. CASE server_unlink(s)
    <3>1. OneOffer'
      BY <1>d, <1>n, <1>t, <2>2 DEF server_unlink, Goto, device, OneOffer,
         OneTaker, Offered, TypeOK, AnnouncedComplete, ServerSteps,
         Complete
    <3>2. OneTaker'
      BY <1>d, <1>n, <1>t, <2>2 DEF server_unlink, Goto, device, OneOffer,
         OneTaker, Offered, TypeOK, AnnouncedComplete, ServerSteps,
         Complete
    <3>3. Believed'
      BY <1>d, <1>n, <1>t, <2>2 DEF server_unlink, Goto, device, OneOffer,
         OneTaker, Believed, Offered, Answered, TypeOK, ServerSteps,
         AnnouncedComplete, Complete
    <3> QED
      BY <1>t, <3>1, <3>2, <3>3
  <2>3. CASE server_create(s)
    <3>1. OneOffer'
      BY <1>d, <1>n, <1>t, <2>3 DEF server_create, Move, Goto, device,
         OneOffer, OneTaker, Offered, TypeOK, AnnouncedComplete,
         ServerSteps, Complete
    <3>2. OneTaker'
      BY <1>d, <1>n, <1>t, <2>3 DEF server_create, Move, Goto, device,
         OneOffer, OneTaker, Offered, TypeOK, AnnouncedComplete,
         ServerSteps, Complete
    <3>3. Believed'
      BY <1>d, <1>n, <1>t, <2>3 DEF server_create, Move, Goto, device,
         OneOffer, OneTaker, Believed, Offered, Answered, TypeOK,
         ServerSteps, AnnouncedComplete, Complete
    <3> QED
      BY <1>t, <3>1, <3>2, <3>3
  <2>4. CASE server_resize(s)
    <3>1. OneOffer'
      BY <1>d, <1>n, <1>t, <2>4 DEF server_resize, Move, Goto, device,
         OneOffer, OneTaker, Offered, TypeOK, AnnouncedComplete,
         ServerSteps, Complete
    <3>2. OneTaker'
      BY <1>d, <1>n, <1>t, <2>4 DEF server_resize, Move, Goto, device,
         OneOffer, OneTaker, Offered, TypeOK, AnnouncedComplete,
         ServerSteps, Complete
    <3>3. Believed'
      BY <1>d, <1>n, <1>t, <2>4 DEF server_resize, Move, Goto, device,
         OneOffer, OneTaker, Believed, Offered, Answered, TypeOK,
         ServerSteps, AnnouncedComplete, Complete
    <3> QED
      BY <1>t, <3>1, <3>2, <3>3
  <2>5. CASE server_map(s)
    \* Nothing has been announced, so no client is on its way.
    <3>a. /\ s = Server /\ pc[Server] = "map" /\ Offered = NoFile
          /\ path = opened[Server]
      BY <1>d, <2>5 DEF server_map, Move, OneOffer
    <3>b. \A f \in Files : file[f].magic = "zero"
      BY <3>a, <1>n DEF OneOffer
    <3>c. \A f \in Files : file'[f].magic = file[f].magic
      BY <1>t, <2>5 DEF server_map, TypeOK
    <3>d. opened[Server] \in Files
      BY <1>d, <3>a DEF ServerSteps
    <3>e. path' = path /\ Offered' = opened[Server] /\ pc'[Server] = "announce"
      BY <1>d, <1>t, <2>5, <3>a DEF server_map, Move, Goto, Offered, TypeOK
    <3>1. OneOffer'
      BY <1>n, <3>a, <3>b, <3>c, <3>d, <3>e DEF OneOffer
    <3>2. OneTaker'
      <4>1. \A c \in Clients : /\ pc[c] \notin {"header", "map", "claim", "answer", "ready"}
                               /\ bring_fd[c] = NoFile
        BY <1>d, <1>t, <3>b DEF OneTaker, AnnouncedComplete, Complete, TypeOK
      <4>2. \A c \in Clients : pc'[c] = pc[c] /\ bring_fd'[c] = bring_fd[c]
        BY <1>d, <2>5, <3>a DEF server_map, Move, Goto, TypeOK
      <4> QED
        BY <1>n, <4>1, <4>2 DEF OneTaker
    <3>3. Believed'
      <4>1. channel' = channel
        BY <2>5 DEF server_map
      <4> QED
        BY <3>a, <3>b, <3>c, <3>e, <4>1 DEF Believed
    <3> QED
      BY <1>t, <3>1, <3>2, <3>3
  <2>6. CASE server_announce(s)
    <3>1. OneOffer'
      BY <1>d, <1>n, <1>t, <2>6 DEF server_announce, Move, Goto, device,
         OneOffer, OneTaker, Offered, TypeOK, AnnouncedComplete,
         ServerSteps, Complete
    <3>2. OneTaker'
      BY SMTT(30), <1>d, <1>n, <1>t, <2>6 DEF server_announce, Move, Goto, device,
         OneOffer, OneTaker, Offered, TypeOK, AnnouncedComplete,
         ServerSteps, Complete
    <3>3. Believed'
      BY <1>d, <1>n, <1>t, <2>6 DEF server_announce, Move, Goto, device,
         OneOffer, OneTaker, Believed, Offered, Answered, TypeOK,
         ServerSteps, AnnouncedComplete, Complete
    <3> QED
      BY <1>t, <3>1, <3>2, <3>3
  <2>7. CASE server_look(s)
    <3>1. OneOffer'
      BY <1>d, <1>n, <1>t, <2>7 DEF server_look, Goto, device, Peeks,
         OneOffer, OneTaker, Offered, TypeOK, AnnouncedComplete,
         ServerSteps, Complete
    <3>2. OneTaker'
      BY <1>d, <1>n, <1>t, <2>7 DEF server_look, Goto, device, Peeks,
         OneOffer, OneTaker, Offered, TypeOK, AnnouncedComplete,
         ServerSteps, Complete
    <3>3. Believed'
      BY <1>d, <1>n, <1>t, <2>7 DEF server_look, Goto, device, Peeks,
         OneOffer, OneTaker, Believed, Offered, Answered, TypeOK,
         ServerSteps, AnnouncedComplete, Complete
    <3> QED
      BY <1>t, <3>1, <3>2, <3>3
  <2>8. CASE server_call_fails(s)
    <3>1. OneOffer'
      BY <1>d, <1>n, <1>t, <2>8 DEF server_call_fails, Goto, Give_up,
         device, OneOffer, OneTaker, Offered, TypeOK, AnnouncedComplete,
         ServerSteps, Complete
    <3>2. OneTaker'
      BY <1>d, <1>n, <1>t, <2>8 DEF server_call_fails, Goto, Give_up,
         device, OneOffer, OneTaker, Offered, TypeOK, AnnouncedComplete,
         ServerSteps, Complete
    <3>3. Believed'
      BY <1>d, <1>n, <1>t, <2>8 DEF server_call_fails, Goto, Give_up,
         device, OneOffer, OneTaker, Believed, Offered, Answered, TypeOK,
         ServerSteps, AnnouncedComplete, Complete
    <3> QED
      BY <1>t, <3>1, <3>2, <3>3
  <2> QED
    BY <1>1, <2>1, <2>2, <2>3, <2>4, <2>5, <2>6, <2>7, <2>8 DEF ServerPeek
<1>2. ASSUME NEW c \in Clients, ClientPeek(c) \/ client_call_fails(c)
      PROVE  MeetInv'
  <2>1. CASE client_open(c)
    <3>1. OneOffer'
      BY <1>d, <1>n, <1>t, <2>1 DEF client_open, Goto, device, Peeks,
         OneOffer, OneTaker, Offered, TypeOK, AnnouncedComplete,
         ServerSteps, Complete
    <3>2. OneTaker'
      BY <1>d, <1>n, <1>t, <2>1 DEF client_open, Goto, device, Peeks,
         OneOffer, OneTaker, Offered, TypeOK, AnnouncedComplete,
         ServerSteps, Complete
    <3>3. Believed'
      BY <1>d, <1>n, <1>t, <2>1 DEF client_open, Goto, device, Peeks,
         OneOffer, OneTaker, Believed, Offered, Answered, TypeOK,
         ServerSteps, AnnouncedComplete, Complete
    <3> QED
      BY <1>t, <3>1, <3>2, <3>3
  <2>2. CASE client_read_magic(c)
    <3>1. OneOffer'
      BY <1>d, <1>n, <1>t, <2>2 DEF client_read_magic, Goto, device,
         OneOffer, OneTaker, Offered, TypeOK, AnnouncedComplete,
         ServerSteps, Complete
    <3>2. OneTaker'
      <4>1. /\ path' = path /\ file' = file /\ bring_fd' = bring_fd
            /\ \/ /\ pc'[c] = "header" /\ opened'[c] = opened[c]
                  /\ opened[c] = Offered /\ file[opened[c]].magic # "zero"
               \/ pc'[c] = "idle"
            /\ \A p \in Procs : p # c => pc'[p] = pc[p] /\ opened'[p] = opened[p]
        <5>1. CASE Announced(opened[c])
          BY <1>d, <1>t, <2>2, <5>1 DEF client_read_magic, Goto,
             device, TypeOK, Announced, OneOffer, Offered,
             AnnouncedComplete
        <5>2. CASE ~Announced(opened[c])
          BY <1>d, <1>t, <2>2, <5>2 DEF client_read_magic, Goto, device, TypeOK
        <5> QED
          BY <5>1, <5>2
      <4> QED
        BY <1>d, <4>1 DEF OneTaker, Offered
    <3>3. Believed'
      BY <1>d, <1>n, <1>t, <2>2 DEF client_read_magic, Goto, device,
         OneOffer, OneTaker, Believed, Offered, Answered, TypeOK,
         ServerSteps, AnnouncedComplete, Complete
    <3> QED
      BY <1>t, <3>1, <3>2, <3>3
  <2>3. CASE client_read_header(c)
    <3>1. OneOffer'
      BY <1>d, <1>n, <1>t, <2>3 DEF client_read_header, Goto, device,
         OneOffer, OneTaker, Offered, TypeOK, AnnouncedComplete,
         ServerSteps, Complete
    <3>2. OneTaker'
      BY <1>d, <1>n, <1>t, <2>3 DEF client_read_header, Goto, device,
         OneOffer, OneTaker, Offered, TypeOK, AnnouncedComplete,
         ServerSteps, Complete
    <3>3. Believed'
      BY <1>d, <1>n, <1>t, <2>3 DEF client_read_header, Goto, device,
         OneOffer, OneTaker, Believed, Offered, Answered, TypeOK,
         ServerSteps, AnnouncedComplete, Complete
    <3> QED
      BY <1>t, <3>1, <3>2, <3>3
  <2>4. CASE client_map(c)
    <3>1. OneOffer'
      BY <1>d, <1>n, <1>t, <2>4 DEF client_map, Move, Goto, device,
         OneOffer, OneTaker, Offered, TypeOK, AnnouncedComplete,
         ServerSteps, Complete
    <3>2. OneTaker'
      BY <1>d, <1>n, <1>t, <2>4 DEF client_map, Move, Goto, device,
         OneOffer, OneTaker, Offered, TypeOK, AnnouncedComplete,
         ServerSteps, Complete
    <3>3. Believed'
      BY <1>d, <1>n, <1>t, <2>4 DEF client_map, Move, Goto, device,
         OneOffer, OneTaker, Believed, Offered, Answered, TypeOK,
         ServerSteps, AnnouncedComplete, Complete
    <3> QED
      BY <1>t, <3>1, <3>2, <3>3
  <2>5. CASE client_claim(c)
    <3>1. OneOffer'
      BY <1>d, <1>n, <1>t, <2>5 DEF client_claim, Goto, Give_up, OneOffer,
         OneTaker, Offered, TypeOK, AnnouncedComplete, ServerSteps,
         Complete
    <3>2. OneTaker'
      <4>1. /\ file' = file /\ path' = NoFile /\ pc[c] = "claim"
            /\ \A p \in Procs : p # c => /\ pc'[p] = pc[p] /\ opened'[p] = opened[p]
                                         /\ bring_fd'[p] = bring_fd[p]
            /\ \/ pc'[c] = "answer" /\ bring_fd'[c] = opened[c] /\ path # NoFile
               \/ pc'[c] = "failed" /\ bring_fd'[c] = bring_fd[c]
        <5>1. CASE NamePresent
          BY <1>d, <1>t, <2>5, <5>1 DEF client_claim, Goto, TypeOK, NamePresent
        <5>2. CASE ~NamePresent
          BY <1>d, <1>t, <2>5, <5>2 DEF client_claim, Goto, Give_up, TypeOK
        <5> QED
          BY <5>1, <5>2
      <4>2. /\ opened[c] = Offered /\ opened[c] # NoFile
            /\ file[opened[c]].magic # "zero"
        BY <1>n, <4>1 DEF OneTaker, AnnouncedComplete, Complete
      <4>3. Offered' = Offered
        BY <1>d, <4>1 DEF Offered
      <4> QED
        BY <1>d, <4>1, <4>2, <4>3 DEF OneTaker
    <3>3. Believed'
      BY <1>d, <1>n, <1>t, <2>5 DEF client_claim, Goto, Give_up, OneOffer,
         OneTaker, Believed, Offered, Answered, TypeOK, ServerSteps,
         AnnouncedComplete, Complete
    <3> QED
      BY <1>t, <3>1, <3>2, <3>3
  <2>6. CASE client_answer(c)
    <3>1. OneOffer'
      BY <1>d, <1>n, <1>t, <2>6 DEF client_answer, Move, Goto, device,
         OneOffer, OneTaker, Offered, TypeOK, AnnouncedComplete,
         ServerSteps, Complete
    <3>2. OneTaker'
      BY SMTT(30), <1>d, <1>n, <1>t, <2>6 DEF client_answer, Move, Goto, device,
         OneOffer, OneTaker, Offered, TypeOK, AnnouncedComplete,
         ServerSteps, Complete
    <3>3. Believed'
      BY <1>d, <1>n, <1>t, <2>6 DEF client_answer, Move, Goto, device,
         OneOffer, OneTaker, Believed, Offered, Answered, TypeOK,
         ServerSteps, AnnouncedComplete, Complete
    <3> QED
      BY <1>t, <3>1, <3>2, <3>3
  <2>7. CASE client_look(c)
    <3>1. OneOffer'
      BY <1>d, <1>n, <1>t, <2>7 DEF client_look, Goto, device, Peeks,
         OneOffer, OneTaker, Offered, TypeOK, AnnouncedComplete,
         ServerSteps, Complete
    <3>2. OneTaker'
      BY <1>d, <1>n, <1>t, <2>7 DEF client_look, Goto, device, Peeks,
         OneOffer, OneTaker, Offered, TypeOK, AnnouncedComplete,
         ServerSteps, Complete
    <3>3. Believed'
      BY <1>d, <1>n, <1>t, <2>7 DEF client_look, Goto, device, Peeks,
         OneOffer, OneTaker, Believed, Offered, Answered, TypeOK,
         ServerSteps, AnnouncedComplete, Complete
    <3> QED
      BY <1>t, <3>1, <3>2, <3>3
  <2>8. CASE client_call_fails(c)
    <3>1. OneOffer'
      BY <1>d, <1>n, <1>t, <2>8 DEF client_call_fails, Goto, Give_up,
         device, OneOffer, OneTaker, Offered, TypeOK, AnnouncedComplete,
         ServerSteps, Complete
    <3>2. OneTaker'
      BY <1>d, <1>n, <1>t, <2>8 DEF client_call_fails, Goto, Give_up,
         device, OneOffer, OneTaker, Offered, TypeOK, AnnouncedComplete,
         ServerSteps, Complete
    <3>3. Believed'
      BY <1>d, <1>n, <1>t, <2>8 DEF client_call_fails, Goto, Give_up,
         device, OneOffer, OneTaker, Believed, Offered, Answered, TypeOK,
         ServerSteps, AnnouncedComplete, Complete
    <3> QED
      BY <1>t, <3>1, <3>2, <3>3
  <2> QED
    BY <1>2, <2>1, <2>2, <2>3, <2>4, <2>5, <2>6, <2>7, <2>8 DEF ClientPeek
<1>3. ASSUME NEW p \in Procs, AppStep(p)
      PROVE  MeetInv'
  <2>1. CASE channel_request(p)
    <3>1. OneOffer'
      BY <1>d, <1>n, <1>t, <2>1 DEF channel_request, OneOffer, OneTaker,
         Offered, TypeOK, AnnouncedComplete, ServerSteps, Complete
    <3>2. OneTaker'
      BY <1>d, <1>n, <1>t, <2>1 DEF channel_request, OneOffer, OneTaker,
         Offered, TypeOK, AnnouncedComplete, ServerSteps, Complete
    <3>3. Believed'
      BY <1>d, <1>n, <1>t, <2>1 DEF channel_request, OneOffer, OneTaker,
         Believed, Offered, Answered, TypeOK, ServerSteps,
         AnnouncedComplete, Complete
    <3> QED
      BY <1>t, <3>1, <3>2, <3>3
  <2>2. CASE channel_result(p)
    <3>1. OneOffer'
      BY <1>d, <1>n, <1>t, <2>2 DEF channel_result, Goto, OneOffer,
         OneTaker, Offered, TypeOK, AnnouncedComplete, ServerSteps,
         Complete
    <3>2. OneTaker'
      BY <1>d, <1>n, <1>t, <2>2 DEF channel_result, Goto, OneOffer,
         OneTaker, Offered, TypeOK, AnnouncedComplete, ServerSteps,
         Complete
    <3>3. Believed'
      BY <1>d, <1>n, <1>t, <2>2 DEF channel_result, AsksResult, Goto, OneOffer,
         OneTaker, Believed, Offered, Answered, TypeOK, ServerSteps,
         AnnouncedComplete, Complete
    <3> QED
      BY <1>t, <3>1, <3>2, <3>3
  <2>3. CASE retry(p)
    <3>1. OneOffer'
      BY <1>d, <1>n, <1>t, <2>3 DEF retry, Move, Goto, device, OneOffer,
         OneTaker, Offered, TypeOK, AnnouncedComplete, ServerSteps,
         Complete
    <3>2. OneTaker'
      BY <1>d, <1>n, <1>t, <2>3 DEF retry, Move, Goto, device, OneOffer,
         OneTaker, Offered, TypeOK, AnnouncedComplete, ServerSteps,
         Complete
    <3>3. Believed'
      BY <1>d, <1>n, <1>t, <2>3 DEF retry, Move, Goto, device, OneOffer,
         OneTaker, Believed, Offered, Answered, TypeOK, ServerSteps,
         AnnouncedComplete, Complete
    <3> QED
      BY <1>t, <3>1, <3>2, <3>3
  <2>4. CASE crash(p)
    BY <2>4, <1>t, DeviceAssumption DEF crash, TypeOK, Undisturbed
  <2>5. CASE channel_result_dies(p)
    BY <1>d, <2>5 DEF channel_result_dies, AsksResult, OneOffer, OneTaker,
       Offered, Procs
  <2>6. CASE channel_result_fails(p)
    <3>1. OneOffer'
      BY <1>d, <1>n, <1>t, <2>6 DEF channel_result_fails, AsksResult, Goto,
         OneOffer, OneTaker, Offered, TypeOK, AnnouncedComplete, ServerSteps,
         Complete
    <3>2. OneTaker'
      BY <1>d, <1>n, <1>t, <2>6 DEF channel_result_fails, Goto, OneOffer,
         OneTaker, Offered, TypeOK, AnnouncedComplete, ServerSteps,
         Complete
    <3>3. Believed'
      BY <1>d, <1>n, <1>t, <2>6 DEF channel_result_fails, Goto, OneOffer,
         OneTaker, Believed, Offered, Answered, TypeOK, ServerSteps,
         AnnouncedComplete, Complete
    <3> QED
      BY <1>t, <3>1, <3>2, <3>3
  <2> QED
    BY <1>3, <2>1, <2>2, <2>3, <2>4, <2>5, <2>6 DEF AppStep, Application
<1>4. CASE UNCHANGED vars
  BY <1>t, <1>4 DEF vars, device, OneOffer, OneTaker, Believed, Offered, Answered
<1> QED
  BY <1>1, <1>2, <1>3, <1>4 DEF Next, AppStep

\* However many clients find the same announced file, one of them gets it:
\* only the one that removes the name (bring_device.c:351).
THEOREM OneGetsIt == ASSUME Undisturbed PROVE Spec => []OneClientPerFile
<1>1. MeetInv => OneClientPerFile
  BY DEF MeetInv, OneTaker, OneClientPerFile
<1> QED
  BY <1>1, MeetInit, MeetNext, PTL DEF Spec

\* A server that hands out a channel (bring_device.c:448) has a client at the
\* other end of it.
THEOREM ServersHavePeers == ASSUME Undisturbed PROVE Spec => []ServerHasPeer
<1>1. MeetInv => ServerHasPeer
  <2> SUFFICES ASSUME MeetInv, NEW s \in Servers, channel[s] # NoFile
               PROVE  \E c \in Clients : bring_fd[c] = channel[s]
    BY DEF ServerHasPeer
  <2>1. s = Server /\ s \in Procs
    BY DEF Undisturbed, OneServer, Procs
  <2>2. channel[s] = Offered /\ Answered(Offered)
    BY <2>1 DEF MeetInv, Believed
  <2>3. Offered \in Files
    BY <2>1, <2>2 DEF MeetInv, FileInv, TypeOK, Offered
  <2> QED
    BY <2>2, <2>3 DEF MeetInv, Believed, Answered
<1> QED
  BY <1>1, MeetInit, MeetNext, PTL DEF Spec

\* A client that has claimed a file shares it with the server, as the comment
\* at bring_device.c:349 says.
THEOREM ClientsHavePeers == ASSUME Undisturbed PROVE Spec => []PeerConnected
<1>1. MeetInv => PeerConnected
  BY DEF MeetInv, OneTaker, Offered, PeerConnected, Undisturbed, OneServer
<1> QED
  BY <1>1, MeetInit, MeetNext, PTL DEF Spec

\* The handshake implements the rendezvous of BringRendezvous: a file is
\* offered, one client takes it, for good, and only then does the server join.
THEOREM HandshakeImplementsRendezvous ==
    ASSUME Undisturbed
    PROVE  Spec => RendezvousSpec
<1>1. ASSUME Init PROVE Rendezvous!RvInit
  <2>1. NoFile \notin Files
    BY DEF Files, NoFile
  <2> QED
    BY <1>1, <2>1 DEF Rendezvous!RvInit, Init, Procs
<1>2. ASSUME MeetInv, [Next]_vars
      PROVE  [Rendezvous!RvNext]_(Rendezvous!rvVars)
  <2> USE <1>2 DEF MeetInv, FileInv
  <2>t. MeetInv' /\ TypeOK /\ TypeOK'
    BY MeetNext
  <2>d. /\ Server \in Servers /\ Server \in Procs
        /\ \A s \in Servers : s = Server
        /\ \A c \in Clients : c \in Procs /\ c # Server
        /\ ~Impatient /\ NoFile \notin Files
    BY DeviceAssumption DEF Procs, OneServer, Undisturbed, Files, NoFile
  \* What the abstraction sees of a step.
  <2> DEFINE Quiet  == \A f \in Files : file'[f].magic = "zero" <=> file[f].magic = "zero"
             Kept   == \A c \in Clients : bring_fd'[c] = bring_fd[c]
             Stayed == channel'[Server] = channel[Server]
  <2>o. Quiet => UNCHANGED {f \in Files : file[f].magic # "zero"}
    OBVIOUS
  <2>k. Kept => UNCHANGED [f \in Files |-> {c \in Clients : bring_fd[c] = f}]
    OBVIOUS
  <2>j. Stayed => UNCHANGED {f \in Files : \E s \in Servers : channel[s] = f}
    BY <2>d
  <2>s. ASSUME Quiet, Kept, Stayed PROVE UNCHANGED Rendezvous!rvVars
    BY <2>o, <2>k, <2>j, <2>s DEF Rendezvous!rvVars
  <2>1. ASSUME NEW s \in Servers, ServerPeek(s) \/ server_call_fails(s)
        PROVE  [Rendezvous!RvNext]_(Rendezvous!rvVars)
    <3>1. Kept /\ Stayed
      BY <2>d, <2>t, <2>1 DEF ServerPeek, server_open, server_unlink,
         server_create, server_resize, server_map, server_announce,
         server_look, server_call_fails, device, TypeOK
    <3>2. CASE server_announce(s)
      <4>1. Offered \in Files /\ file[Offered].magic = "zero"
        BY <2>d, <2>t, <3>2 DEF server_announce, Move, OneOffer, Offered, TypeOK
      <4>2. {f \in Files : file'[f].magic # "zero"}
              = {f \in Files : file[f].magic # "zero"} \cup {Offered}
        BY <2>d, <2>t, <3>2, <4>1 DEF server_announce, Offered, TypeOK
      <4>3. Rendezvous!Offer(Offered)
        BY <2>k, <2>j, <3>1, <4>1, <4>2 DEF Rendezvous!Offer
      <4>4. \E f \in Files : Rendezvous!Offer(f)
        BY <4>1, <4>3 DEF Rendezvous!Offer
      <4>8. Rendezvous!RvNext
        BY <4>4 DEF Rendezvous!RvNext
      <4> QED
        BY <4>8
    <3>3. CASE ~server_announce(s)
      <4>1. CASE server_create(s)
        BY <2>s, <3>1, <4>1 DEF server_create, Move, ServerSteps
      <4>2. CASE server_resize(s)
        <5>1. Quiet
          BY <4>2, <2>t DEF server_resize, TypeOK
        <5> QED
          BY <2>s, <3>1, <5>1
      <4>3. CASE server_map(s)
        <5>1. Quiet
          BY <4>3, <2>t DEF server_map, TypeOK
        <5> QED
          BY <2>s, <3>1, <5>1
      <4>4. CASE \/ server_open(s) \/ server_unlink(s) \/ server_look(s)
                 \/ server_call_fails(s)
        BY <2>s, <3>1, <4>4 DEF server_open, server_unlink, server_look,
           server_call_fails
      <4> QED
        BY <2>1, <3>3, <4>1, <4>2, <4>3, <4>4 DEF ServerPeek
    <3> QED
      BY <3>2, <3>3
  <2>2. ASSUME NEW c \in Clients, ClientPeek(c) \/ client_call_fails(c)
        PROVE  [Rendezvous!RvNext]_(Rendezvous!rvVars)
    <3>1. Stayed
      BY <2>2 DEF ClientPeek, client_open, client_read_magic,
         client_read_header, client_map, client_claim, client_answer,
         client_look, client_call_fails, device
    <3>2. CASE client_claim(c) /\ NamePresent
      <4>1. /\ opened[c] = Offered /\ opened[c] \in Files
            /\ file[opened[c]].magic # "zero"
        BY <3>2 DEF client_claim, OneTaker, AnnouncedComplete, Complete
      <4>2. /\ UNCHANGED file
            /\ bring_fd' = [bring_fd EXCEPT ![c] = opened[c]]
            /\ path # NoFile
        BY <3>2 DEF client_claim, NamePresent
      <4>3. \A d \in Clients : bring_fd[d] = NoFile
        BY <4>2 DEF OneTaker
      <4>4. [f \in Files |-> {d \in Clients : bring_fd[d] = f}]'
              = [[f \in Files |-> {d \in Clients : bring_fd[d] = f}]
                   EXCEPT ![opened[c]] = {c}]
        <5>1. ASSUME NEW f \in Files
              PROVE  {d \in Clients : bring_fd'[d] = f}
                       = IF f = opened[c] THEN {c} ELSE {d \in Clients : bring_fd[d] = f}
          BY <2>d, <2>t, <4>1, <4>2, <4>3 DEF TypeOK
        <5> QED
          BY <4>1, <5>1
      <4>5. {d \in Clients : bring_fd[d] = opened[c]} = {}
        BY <2>d, <4>1, <4>3
      <4>6. Rendezvous!Take(opened[c], c)
        BY <2>o, <2>j, <3>1, <4>1, <4>2, <4>4, <4>5 DEF Rendezvous!Take
      <4>7. \E f \in Files : Rendezvous!Take(f, c)
        BY <4>1, <4>6 DEF Rendezvous!Take
      <4>8. Rendezvous!RvNext
        BY <4>7 DEF Rendezvous!RvNext
      <4> QED
        BY <4>8
    <3>3. CASE client_answer(c)
      <4>1. Offered \in Files /\ bring_fd[c] = Offered /\ file[Offered].magic # "zero"
        BY <2>d, <2>t, <3>3 DEF client_answer, Move, OneTaker, Offered, TypeOK
      <4>2. Quiet
        BY <2>t, <3>3, <4>1 DEF client_answer, TypeOK
      <4> QED
        BY <2>s, <3>1, <3>3, <4>2 DEF client_answer, device
    <3>4. CASE client_claim(c) /\ ~NamePresent
      BY <2>s, <3>1, <3>4 DEF client_claim
    <3>5. CASE \/ client_open(c) \/ client_read_magic(c) \/ client_read_header(c)
               \/ client_map(c) \/ client_look(c) \/ client_call_fails(c)
      BY <2>s, <3>1, <3>5 DEF client_open, client_read_magic,
         client_read_header, client_map, client_look, client_call_fails,
         device
    <3> QED
      BY <2>2, <3>2, <3>3, <3>4, <3>5 DEF ClientPeek
  <2>3. ASSUME NEW p \in Procs, AppStep(p)
        PROVE  [Rendezvous!RvNext]_(Rendezvous!rvVars)
    <3>1. CASE channel_request(p) \/ channel_result_fails(p) \/ retry(p)
      BY <2>s, <3>1 DEF channel_request, channel_result_fails, retry, device
    <3>2. CASE crash(p)
      BY <2>t, <3>2, DeviceAssumption DEF crash, TypeOK, Undisturbed
    <3>3. CASE channel_result(p)
      <4>1. UNCHANGED <<file, bring_fd>>
        BY <3>3 DEF channel_result
      <4>2. Quiet /\ Kept
        BY <4>1
      <4>3. CASE Stayed
        BY <2>s, <4>2, <4>3
      <4>4. CASE ~Stayed
        <5>1. /\ p = Server /\ pc[Server] = "ready"
              /\ channel' = [channel EXCEPT ![Server] = Offered]
          BY <2>d, <2>t, <3>3, <4>4 DEF channel_result, AsksResult, TypeOK, OneOffer,
             Offered
        <5>2. Offered \in Files /\ Answered(Offered)
          BY <2>d, <2>t, <5>1 DEF OneOffer, Believed, Offered, TypeOK
        <5>3. channel[Server] = NoFile /\ channel'[Server] = Offered
          BY <2>d, <2>t, <4>4, <5>1 DEF Believed, TypeOK
        <5>4. /\ {f \in Files : \E s \in Servers : channel[s] = f} = {}
              /\ {f \in Files : \E s \in Servers : channel'[s] = f} = {Offered}
          BY <2>d, <5>2, <5>3
        <5>5. {c \in Clients : bring_fd[c] = Offered} # {}
          BY <5>2 DEF Believed, Answered
        <5>6. Rendezvous!Join(Offered)
          BY <2>o, <2>k, <4>2, <5>2, <5>4, <5>5 DEF Rendezvous!Join
        <5>7. \E f \in Files : Rendezvous!Join(f)
          BY <5>2, <5>6 DEF Rendezvous!Join
        <5>8. Rendezvous!RvNext
          BY <5>7 DEF Rendezvous!RvNext
        <5> QED
          BY <5>8
      <4> QED
        BY <4>3, <4>4
    <3>4. CASE channel_result_dies(p)
      BY <2>d, <3>4 DEF channel_result_dies, AsksResult, OneOffer, OneTaker,
         Offered, Procs
    <3> QED
      BY <2>3, <3>1, <3>2, <3>3, <3>4 DEF AppStep, Application
  <2>4. CASE UNCHANGED vars
    BY <2>s, <2>4 DEF vars, device
  <2> QED
    BY <2>1, <2>2, <2>3, <2>4 DEF Next, AppStep
<1> QED
  BY <1>1, <1>2, MeetInit, MeetNext, PTL DEF Spec, RendezvousSpec,
     Rendezvous!RvSpec

=============================================================================
