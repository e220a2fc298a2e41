# CamIO2 in TLA+

CamIO2 is a C library that gives network sockets, files and shared-memory rings one
asynchronous, message-based interface. This directory holds TLA+ specifications of its
parts, configurations that check them with TLC, and proofs checked with TLAPS. It covers
the *bring* driver (a shared-memory ring between two processes) and its connect handshake,
the spinning multiplexer, the buffer pool, the channels and devices over file descriptors
(tcp, udp, files, memory-mapped files, stdio, ttt), and the two `camio_perf` programs on top
of multiplexer and ring.

## 1. The system

### 1.1 Components

| component | source (`src/src/...` unless noted) | state it keeps | operations | model |
|---|---|---|---|---|
| bring channel | `drivers/bring/bring_channel.c` | per process: four bounded queues of requests and responses, ring indices, sequence counters; shared: slot headers `seq_no`, `data_size`, and the slots | request / ready / result for read and write buffers and data, release | `BringChannel` |
| bring device | `drivers/bring/bring_device.c` | request queue of one, descriptor, mapping, `is_connected`; shared: the named file, its header and magic word | channel request / ready / result | `BringDevice` |
| spin multiplexer | `multiplexers/spin_mux.c` | vector of muxables, index `idx` | insert, remove, select | `SpinMux` |
| linear buffer pool | `buffers/buffer_malloc_linear.c` | tail, `alloc_count`, in-use marks | acquire, release | `LinearPool`, in `Channels` |
| tcp, udp, file and ttt channels | `drivers/{tcp,udp,fileio,ttt}/*_channel.c` | a read request and its buffer, a write vector and its progress, two pools | read and write request / ready / acquire / release | `FdChannel`, `Channels` |
| memory-file channel | `drivers/memfileio/mfio_channel.c` | the same without pools: windows of a mapping | the same | `MfioChannel`, `Channels` |
| tcp, udp, file, memory-file, stdio, ttt devices | `drivers/*/*_controller.c`, and the channels' constructors and destructors | descriptors, `is_connected` | construct, ready, connect, destroy | `Devices` |
| camio_perf | `src/tools/camio_perf/` | buffer and message arrays, counters | client and server main loops and callbacks | `Perf` |
| API front end | `api/` | none: dispatches to the driver after NULL checks | every call | its calls are the actions of the driver modules |
| delimiter | `drivers/delimiter/` | base channel's buffers, the partial message | cuts a byte stream into messages | not modelled, does not compile |
| registry and parameters | `camio.c`, `camio_init_all.c` | table of device kinds and their parameters | register, look up, fill in parameters from a URI | not modelled |
| URI parser, UUID, vectors | `utils/`, `types/` | - | text parsing; library templates | not modelled |
| camio_cat, camio_wc, tests, `src/old` | - | - | - | read as documentation only |

The containers underneath (`cbq` queues, vectors) come from the `chaste` library, which is
not part of the tree; they are modelled from how the code uses them. The devices over file
descriptors and their channels still have the library's older interface (`acquire` where
bring has request and result messages), which is the one that is modelled.

### 1.2 How the parts interact

An application builds a device from a URI, asks it for channels with a request message and
inserts the device's *muxable* into a multiplexer. `camio_mux_select` polls the muxables'
`ready` functions; when one is ready it runs the application's callback, which collects the
*result*, gets a channel, inserts the channel's own muxables (read buffer, read data, write
buffer, write data) and goes on the same way: request buffers, collect buffers, request
data transfers, collect completions, release buffers. A *request* only queues a message; a
*ready* does the work for as many waiting messages as it can; a *result* hands back what is
done. All of this is one thread per process and never blocks.

For the bring driver, two processes share one file. Its header names two rings. A slot has a
header of two words, `data_size` and `seq_no`; `seq_no` is 0 (EMPTY), 1 (RXD) or the number
of a message from 2 up. The writer fills an EMPTY slot and stores the number; the reader
that finds the number it expects takes the slot, and stores RXD when it has finished; the
writer that finds RXD stores EMPTY. There are no locks: the headers are the only
synchronization, and every field is written by whoever the protocol says owns the slot.

### 1.3 What is hard here, and what makes it right

* *Two processes, no locks.* A message is published by several stores and read by several
  loads. What is consumed must be what was sent, once, in order, with its own length, and no
  slot may be in the hands of both sides.
* *Four indices, four queues, two counters, wrapped by hand at different moments.* They must
  agree with the headers at every step.
* *Resource limits.* Queues of the ring's size, more requests than slots, a full ring, and
  what is reported then.
* *Odd but legal call orders.* A buffer released unsent, a bad request between good ones,
  results without ready.
* *The handshake.* Several clients, stale files, servers that crash and restart, all through
  one file name and one word of memory.
* *Fairness of the multiplexer* across early returns, timeouts and callbacks that change the
  vector being scanned.
* *Short reads and partial writes.* A channel over a descriptor takes up again, poll after
  poll, what a system call left half-done, with the state in a buffer's header; on each
  error path the one buffer of the pool must be given back or remembered, never both.
* *Numbers that stand for things.* A closed descriptor's number is the next one's. Device and
  channel share numbers and are destroyed independently.
* *Two programs that feed each other.* Each side of `camio_perf` asks for more only when
  something completes; a lost buffer anywhere stops both.

`PROJECT.json` lists these as hazards, each at its line, with the properties that cover it.
Those that no run covers are in section 5.

## 2. The modules

| module | what it is |
|---|---|
| `BringFifo` | abstract: a lossless FIFO of N places with acknowledgements |
| `BringChannel` | the bring channel's handlers, client to server, one header access per step |
| `BringChannelInv` | its inductive invariant `IInv` |
| `BringChannelLemmas`, `BringSteps`, `BringChannelProof` | the proofs: of queues and ring positions, of each action, and the theorems |
| `BringRendezvous` | abstract: a file is offered, taken once, joined |
| `BringDevice` | the connect handshake, one system call or magic access per step |
| `BringDeviceProof` | proofs of the handshake's invariants and of its refinement |
| `SpinMux` | the multiplexer, one poll per step |
| `SpinMuxProof` | proof that it is a strict round robin |
| `LinearPool` | the buffer pool's functions, on a record |
| `FdChannel` | the calls of the tcp, udp, file and ttt channels, on `LinearPool` |
| `MfioChannel` | the calls of the memory-file channel |
| `Channels` | composes the two with a reading and writing application |
| `ChannelsProof` | proofs of the pools' accounting, and of what is read and written |
| `Devices` | the devices over descriptors, their channels' lives, the descriptor table |
| `DevicesProof` | proofs of who owns which descriptor, and of what the server hands out |
| `Perf` | `camio_perf`'s client and server, their multiplexers, and the ring between them |
| `PerfProof` | proof that no message counts as lost and that neither program stops |
| `MC*` | constants for TLC |

Definitions marked *mutant* are not part of the models: each is a plausible bug, listed in
`PROJECT.json` with the property that it breaks, to show that the property can fail.

### 2.1 BringChannel

State. `seq_no`, `data_size` and `mem` are the shared ring; `mem[s]` is the number of the
message whose bytes lie in slot `s`. `wr_*` and `rd_*` are the private structures of the
writing and the reading process, under the source's names. A queue is a sequence of messages
`[type, buf, status]`, with a counter for how many from its front are "in use", as the
`cbq` queue has. `wr_pc`/`rd_pc` say where inside a handler a process is. `wr_held`,
`rd_held`, `rd_readable` are the buffers the two applications hold; `sent`, `got` and `acked`
are history.

Actions carry the handlers' names. A handler that touches the shared headers more than once
is split at each access, with the program counter in between: `write_data_request` (writes
`data_size`) and `write_data_publish` (writes `seq_no`), `read_buffer_ready` (reads `seq_no`)
and `read_buffer_size` (reads `data_size`), `write_data_ready` (reads `seq_no`),
`write_data_release` and `write_data_free` (auto-release), `*_buffer_release` and
`*_buffer_release_seq`. Everything between two accesses is local to a process and is part
of the step. Two arguments keep the model small:

* *A call with a vector of k messages is k calls with one.* Queues are private, a request
  loop handles its messages in order, and each access to a header is still its own step;
  splitting the call only adds interleavings. The loops over queues inside `ready` handlers
  keep their iterations.
* *Program order.* The header accesses are volatile and the drivers are built for x86, where
  stores are not reordered with stores nor loads with loads. The ring relies on no
  store-to-load order between different slots' headers.

The read of `data_size` for the byte count of a completed write
(`bring_channel.c:782`) is left out: the slot belongs to the writer again at that point and
the count is not kept.

The applications are those of `camio_perf`: any number of outstanding requests up to
`WrHandles`/`RdHandles`, bad and ignored requests as the constants say, buffers sent and
consumed in the order in which they came. `ReleaseUnsent` lets the writer give up a buffer
without sending it. `Polled = FALSE` is an application that only asks for write results.

### 2.2 BringDevice

A process's peek is a sequence of system calls; each is a step. `path` is the file the name
refers to, `file[f]` whether a file has its size, its header, and which magic. A crash resets
the process and leaves files alone. A file that nobody names any more stays mapped by those
who have it, so files are numbered and never reused. `StaleFiles` are the leftovers of an
earlier run, which a server that died in the middle of its peek can leave: no file, an empty
one, one with its size only, one announced and never taken. `Impatient` is an application that
asks for results without waiting for ready; before a file is mapped this ends the process, since the
channel is constructed from a NULL header (`channel_result_dies`).

### 2.3 SpinMux

`select` is split at each poll, since muxables become ready and time passes between polls.
The clock is abstracted to one bit, `expired`: has the deadline passed? The vector's memory
past its end (reached when `remove` has shrunk the vector under the index) is an arbitrary
muxable: old memory, which holds the muxable removed last or a copy of one that has moved up,
depending on how chaste's vector, which is not in the tree, removes. For the same reason a
`remove` by a pointer past the end, which looks for the contents there, removes any muxable or none. Callbacks run after `select` has last
touched its state, so what they do is modelled as done outside of it, with the pointer
(`handle`) they were given.

### 2.4 LinearPool, FdChannel, MfioChannel, Channels

`Channels` is one application and one channel, of a driver that the initial state picks. The
four drivers of `FdChannel` are copies of each other that have drifted apart, so each driver
has its own operators (`tcp_read_ready`, `udp_read_ready`, ...), composed of shared ones in
the order of that driver's code: where a request is checked (tcp and fio in the peek, after
the buffer was acquired; udp and ttt when it is made), how a size is clipped, what a finished
write leaves in the buffer's header. An operator `op(err)` is a call that returns `err`; a call
that is refused without changing anything is a stutter.

State. `rd` and `wr` are the two halves of the private structure, with their pools. `buff` has
the headers (`start`, `len` for `data_start`, `data_len`) and the memory of the channel's write
buffer and of one of another channel. Bytes are numbers: the source sends 1, 2, ..., and so
does the application, so order and loss can be told. The two ends of the descriptor are the
environment: a `read` fails, would block, or takes any part of what is there; a `write` stops
after any part of any buffer. udp reads whole datagrams, of which what does not fit is lost,
and writes a datagram whole or not at all.

The application is a single thread that reads and writes at once and asks for whatever
`Requests` and `Vectors` contain, bad hints and other channels' buffers included. It releases
what it holds once and does not touch a buffer it has handed over. After an error it stops
reading, unless `Persistent`.

### 2.5 Devices

All devices of one process, and its table of descriptors: numbers, with the lowest free one
given to the next open. A C function that may change state is an operator from a state to the
*set* of its outcomes, each an error and the state after it, and `Then` sequences two such
functions the way an early return does: the branches of failing calls, in every combination,
are the members of the set. Addresses, options and modes are left out; a file's read-only and
write-only constructions are kept, since they decide which descriptor fields are filled.
`ready`, `connect`, `destroy` and the channels' destructors may be called in any order.
Ghosts: what a descriptor was opened as (`table`), what a channel was made of (`is`), which
connections the server's channels got (`served`), what a device had ready when it was
destroyed (`left`), and whether udp's half-failure has happened (`half_failed`, see section 3).

### 2.6 Perf

Both programs of `camio_perf`, their multiplexers (`mux`, `idx`, in the order in which they insert
their muxables), and the bring channel. It composes what `SpinMux` and `BringChannel` have in
detail, at a coarser grain: a handler is one step, except that the messages of a batch are
published, and its buffers released, one by one, which is what the other process can see.
`BringChannel` justifies that grain: its refinement says that publishing and releasing are the
two events. The sequence number that the client writes at the front of a message is `stamp`;
numbers count modulo `Wrap`, more than twice the ring, so that no two in circulation are equal.
Left out are the statistics and signals, with which a program may end, and the end of the
stream (`camio_perf_server.c:167-171`), an empty message that the client never sends.

## 3. The runs

Every property's text is next to its definition. Names of runs are those of `PROJECT.json`.

| run | instance | shows |
|---|---|---|
| `bring_safe` | 3 slots, 4 messages, up to 3 messages in circulation on either side, all kinds of requests | `IInv`, which has all that is proved below in it; `TypeOK`, `NoRingSyncError`, `NoExit`, `GrantedOnce`, `AcceptedIsQueued`, and the refinement of `BringFifo` (`FifoSafety`) |
| `bring_live` | 3 slots, 5 messages, fair | `AllGoThrough`; the refinement of the fair FIFO (`FifoLive`), in which what is published is consumed and acknowledged |
| `bring_overcommit` | 2 slots, 3 messages in circulation, so that queues fill up and slots are granted twice | `CompletedWasConsumed` and `SlotCycle` survive applications that exceed the ring |
| `bring_abandon` | 2 slots, unsent buffers released | the reader still sees only good data (`InOrderDelivery`, `NoDataRace`) |
| `device_handshake` | 1 server, 3 clients, failing calls and retries, fair | one client per file, connected peers, server joins last; refines `BringRendezvous`; server and a client meet. All of it as long as no earlier server left an announced file |
| `device_restart` | 1 server, 2 clients, a crash and restart, any leftover file, impatient applications | headers still complete, a taken file is never found again |
| `mux_fair` | 3 muxables, all timeouts, a callback that removes its own | strict round robin and no poll past the end until the removal; afterwards still every ready muxable is returned, and a select with a timeout ends |
| `channels` | each of five drivers, buffers of 2 bytes, 3 bytes in and 3 out, seven kinds of read request | pools and holders agree; bytes arrive and leave in order, once; an end is the end; accepted writes complete |
| `devices` | any two of the seven devices, each constructed up to twice, 7 descriptors, 2 connections | a channel's descriptors are its own; none leaks; each accepted connection becomes one channel |
| `perf` | 3 slots, client batches of 3, server batches of 2 | no message counts as lost, neither side stops, the stream goes on for ever, although the server asks again for buffers it still waits for (the client, with batches up to the ring, does not) |

Runs that find a disagreement between the code and what is said of it:

| run | what happens |
|---|---|
| `bring_result_only` | results alone never complete a write: the handler polls the wrong queue (`bring_channel.c:825`) |
| `mux_removed` | a remove in a callback leaves the index past the end, and select returns what lies there (`spin_mux.c:101`). TLC's trace returns the removed muxable; with a vector that moves its elements down it is a copy of the last one |

Changing a line of a passing run's configuration shows what lies outside its assumptions (the
property that breaks is checked alone):

| change | what breaks, and why |
|---|---|
| `RdHandles = 4` in `MCBringSafe.cfg` | `NoRingSyncError`: with more read buffers outstanding than slots the reader meets its own old slot and reports the error that "should not happen with a blocking ring" (`bring_channel.c:199`) |
| `WrHandles = 4` in `MCBringSafe.cfg` | `AcceptedIsQueued`: a write on a full queue is trimmed to nothing and returns ENOERROR with the caller's length (`bring_channel.c:648-659`); `GrantedOnce` |
| `ReleaseUnsent = TRUE` in `MCBringSafe.cfg` | `NoExit`: a release moves `wr_rel_index` but not `wr_out_index`, so the next send ends the process (`bring_channel.c:706-715`) |
| `N`, `WrHandles`, `RdHandles` 2 and `BuffKinds = {"REQ", "BAD"}` in `MCBringSafe.cfg` | `ReadResponseHasBuffer`: a rejected read-buffer request is answered ENOERROR without a buffer, because the result handler overwrites the status (`bring_channel.c:293`, against `messages.h:22`) |
| `"announced"` in `StaleFiles` of `MCDeviceHandshake.cfg` | `PeerConnected`: a client cannot tell a dead server's file from a live one's. `Meet`: a client opens the old file, the server replaces it, the client's unlink removes the new one's name (`bring_device.c:351`) and it answers on the old one, so the server waits for ever |
| `Impatient = TRUE` there | `ServerHasPeer`: a result with a request queued does not connect first (`bring_device.c:448`), so the channel is on a file nobody has answered |
| two `Servers` in `MCDeviceRestart.cfg` | `MappedHeaderComplete`: `O_TRUNC` empties the other server's file (`bring_device.c:126`) |
| `Vectors <- TwoBuffers` in `MCChannels.cfg` | `WritesInOrder`: a write that stops in its second buffer starts again from the first, which is full again, since `write_req_curr` never moves (`tcp_channel.c:349`, against the comment at line 390) |
| `Persistent = TRUE` in `MCChannels.cfg` | `ReadsInOrder` and `EndIsTheEnd`: the refusal of a bad request leaves the buffer acquired, so the next poll finds it "ready" and hands out what was never read (`tcp_channel.c:86`) |
| `N = 2` in `MCPerf.cfg` | `NothingLost`: the client asks again for ids whose request is outstanding; with a batch larger than the ring the grants come out of order, and the next send ends it. Batches of (client, server) (2, 2) with 2 slots, and (2, 3), (3, 5), (3, 3) with 3, pass |

Three properties of the descriptor drivers name what they leave out. `InBounds` leaves out ttt,
whose read of ANY size passes `read` a length of -1 (`ttt_channel.c:81`), and mfio, whose second
write is granted a length that does not count the first (`mfio_channel.c:399`).
`WriteCompletes` leaves out writes that mfio refuses, which stay registered for ever
(`mfio_channel.c:372`). And the properties of `Devices` hold until a udp device opens one socket
and fails at the other: `close(priv->rd_fd > -1)` closes descriptor 1, whoever has it, and the
first socket leaks (`udp_controller.c:139`). Without these exceptions TLC shows each of them.

### Bounds, and why they are enough

The ring's interesting events are: a lap (every index wraps), a full ring, an empty one, and
the two ends one slot apart. Two or three slots with 4 or 5 messages have all of them, and
the indices wrap at different moments because failures and releases move them separately.
The proofs remove the bounds for the safety properties. In the handshake, what can differ is
whose file a name refers to at each step; three clients are enough for two to race while a
third arrives late, and with any leftover file one crash puts the server or a client at any
point of a second life. `MaxFiles` bounds how often a server can start over. A waiting
muxable can be overtaken by one that lies before it and one that lies after it or is inserted
meanwhile: three muxables, and one removal is enough to put the index past the end.

In `channels`, buffers of 2 bytes have a short read, a full one and one with an offset, and a
partial write of one byte; 3 bytes take two rounds in each direction, the second of which runs
into the end. The two directions share the descriptor only, so their product is kept small.
In `devices`, two devices, twice each, are enough for one to close a number that the other has
opened; each process has 7 descriptors, 3 of them standard, which two devices of two
descriptors and their successors use up, so that running out is reached as well. `perf` is not bounded in length: numbers wrap, and
the ring is lapped for ever.

Deadlock is checked in every run except two, whose systems really may stop: in `devices`
everything may have been destroyed for good, and in `perf` both devices may have failed, which
leaves both multiplexers empty.

### Fairness

`FairSpec` of `BringChannel` and `BringDevice` assumes that both processes go on polling:
the main loops of `camio_perf` call `camio_mux_select` for ever, `SpinMux` shows that select
reaches every muxable, and no handler blocks. It is weak fairness per process, never strong.
Applications need not send. No system call is obliged to fail and no process to crash; `Meet`
supposes that calls do not make the applications give up for good. `SpinMux` assumes that
`select` is called again, that a scan proceeds and that time passes; nothing obliges a muxable
to become ready. `Perf` assumes weak fairness of each program and nothing of the order in which
its muxables are served, which the model's own index decides. `Channels` assumes that the
application goes on polling for its write and that the descriptor takes something in the
end, since without the second a peer that never reads refutes every promise about writing.

## 4. The proofs

`BringChannelProof` proves for every ring size `N`, every number of messages, every slot
length and every length function, under `Disciplined`:

| theorem | says |
|---|---|
| `RingInvariant` | `Spec => []IInv` |
| `TypesCorrect` | `Spec => []TypeOK` |
| `DeliveryInOrder` | `Spec => []InOrderDelivery` |
| `CompletionMeansConsumed` | `Spec => []CompletedWasConsumed` |
| `SequenceNumbersMatch` | `Spec => []NoRingSyncError` |
| `WriterNeverExits` | `Spec => []NoExit` |
| `NothingDropped` | `Spec => AcceptedIsQueued` |
| `HeaderCycle` | `Spec => SlotCycle` |
| `NoSlotGrantedTwice` | `Spec => []GrantedOnce` |
| `Implementation` | `Spec => FifoSafety` |
| `ReaderInOrder` | `Spec => [](IInv /\ ReaderOrder)` |
| `NoSharedSlot` | `Spec => []NoDataRace` |
| `ReaderNeverRefused` | `Spec => []ReleaseAccepted` |

*Assumptions.* `RingAssumption` and `ApplicationAssumption` give the constants their types.
`Disciplined` says that neither application keeps more messages in circulation than the ring
has slots and that no unsent buffer is released. It is needed: the first three changes of
constants in section 3 are what happens without it.

*Argument.* None of the safety properties is inductive: that the reader finds its message in
slot `rd_acq_index` depends on what the writer did a lap ago. `IInv` orders the whole life of
the ring by four counters,

    acked <= Released <= Acquired <= Len(sent) <= acked + N

(completed, given back, taken, published). Message `k + 1` lives in slot `Pos(k)`. Its header
follows from where `k` lies: RXD below `Released`, its sequence number below `Len(sent)`,
EMPTY up to `acked + N` (`SlotInv`); every index is the `Pos` of a counter (`IndexInv`); and
every buffer in the writer's queues or its application's hands is the `Pos` of a definite `k`
(`DataQueueInv`, `BuffQueueInv`), while of the reader's it says how many there are
(`ReadQueueInv`). Because the window is N wide, `Pos` is
injective on it, so a step that changes one slot's header leaves the others' facts alone. The
lemma modules show this once for `Pos`, once for queues, and then one lemma per action, split
by the conjuncts that the action can disturb.

Which slots the reader has needs a second invariant, `ReaderOrder`: the buffers it acquired and
did not release are those of the messages `Len(got), Len(got) + 1, ...`, in the order readable,
in the data queue, held, in the buffer queue. A reader's step pushes the next one at the end of
one of these four, or moves the oldest of one to the end of the one before it; a completion by
the writer moves the window, and `Pos` with it, but not at those messages. So the reader's slots
belong to messages below `Len(sent)` and the writer's to messages from there on, and `Pos` is
injective (`NoSharedSlot`); and what a reader that releases in the order it read releases next
is `rd_rel_index`, the only buffer the channel accepts (`ReaderNeverRefused`). The run
`bring_abandon` also checks `NoDataRace` where unsent buffers are released, which the theorem
excludes.

`BringDeviceProof` proves, for every number of clients, files and failing calls:

| theorem | says | under |
|---|---|---|
| `TypesCorrect` | `Spec => []TypeOK` | nothing: any servers, crashes, leftovers, impatience |
| `HeadersComplete` | `Spec => []MappedHeaderComplete` | `OneServer` |
| `TakenAreUnnamed` | `Spec => []TakenIsUnnamed` | `OneServer` |
| `OneGetsIt` | `Spec => []OneClientPerFile` | `Undisturbed` |
| `ServersHavePeers` | `Spec => []ServerHasPeer` | `Undisturbed` |
| `ClientsHavePeers` | `Spec => []PeerConnected` | `Undisturbed` |
| `HandshakeImplementsRendezvous` | `Spec => RendezvousSpec` | `Undisturbed` |

*Assumptions.* `OneServer` says that the name has one server, which may crash and start again.
`Undisturbed` adds that nobody crashes, that no announced file of an earlier server lies
around, and that applications wait for ready. The rows about `BringDevice` in section 3's
table of changes are what happens without each of these.

*Argument.* A file header is completed by somebody else than who relies on it, and the name
changes hands in between. `FileInv` therefore follows the *file*: files are numbered in the
order of creation (`InOrderOfCreation`); a server between unlink and create finds the name
free, so a file is never emptied after others have seen it (`ServerSteps`); whatever carries
a magic is complete, and so is what a client has read a magic from (`AnnouncedComplete`);
whatever a client has claimed is not under the name, and cannot return to it (`TakenForGood`).
`MeetInv` adds that there is a single offer, the server's mapped file (`OneOffer`), that clients
on their way are on their way to it and the one that arrives is alone, because the unlink by
which it claims the file takes the name from the others (`OneTaker`), and that a server that
believes in a peer has read the magic that this client wrote (`Believed`). The refinement
then needs one step per action of the handshake: announcing offers, claiming takes, the
server's result joins, and everything else stutters.

`ChannelsProof` proves, for every driver, size of buffers, length of streams, set of vectors and
of requests:

| theorem | says | under |
|---|---|---|
| `PoolsAccounted` | `Spec => []PoolAccounting` | nothing: also applications that go on after errors |
| `Typed` | `Spec => []TypeOK` | nothing |
| `WithinBuffers` | `Spec => []InBounds` | nothing |
| `InOrder` | `Spec => []ReadsInOrder` | `~Persistent` |
| `EndReached` | `Spec => []EndIsTheEnd` | `~Persistent` |
| `WrittenInOrder` | `Spec => []WritesInOrder` | `OneRecord` |

*Assumptions.* `~Persistent` says that the application stops reading at the first refusal, and
`OneRecord` that a write has one buffer. The rows about `MCChannels.cfg` in section 3's table of
changes are what the code does without them.

*Argument.* `PoolAccounting` is not inductive because it speaks of fields of the pool while the
code computes the next buffer from others. `PoolIs(pool, used)` says which pool it is, all of
it; `acquire` and `release` map `PoolIs(pool, FALSE)` to `PoolIs(pool, TRUE)` and back
(`AcquireFree`, `ReleaseUsed`), cannot fail where the code relies on it, and fail where they
must. Each driver's peek then either keeps the buffer and remembers it, or gives it back.
`ReadInv` says where the bytes are that the descriptor has given out: in the buffer, after the
offset, at most the room that is left there, or in mfio's mapping up to where the last read has
come; it holds whatever the application does. `Stream` relates this to what the application
got: `delivered` followed by what waits in the buffer is what was consumed, and what waits is
the descriptor's last bytes, so the next read goes on after them. It is preserved because a
buffer that is acquired is not read into again. `WriteShape` bounds every header the application or a registered
write has. `Written` says that the wire has the bytes up to a point and that the registered
buffer, from its moved start and for its reduced length, has exactly the rest; a partial write
moves the point and the start together.

`DevicesProof` proves, for every set of devices, every number of descriptors, connections and
constructions, and every order of calls:

| theorem | says |
|---|---|
| `TypeCorrect` | `Spec => []TypeOK` |
| `ChannelsOwn` | `Spec => []OwnDescriptors` |
| `NothingLeaks` | `Spec => []NoLeak` |
| `InOrderOfAccept` | `Spec => []AcceptedInOrder` |

*Assumptions.* `DevicesAssumption` only: the types of the constants, and that the process has at
least its three standard descriptors.

*Argument.* `OwnDescriptors` and `NoLeak` are two halves of one fact, that the open descriptors are
split between the channels, the devices, and what nobody uses any more; neither half is
inductive alone, since a device is free to close its own descriptor only if it is nobody
else's, and an opened one is nobody else's only if all that are somebody's are open. `Own`
states the split from the side of one device `d`: its descriptors (`Mine`), the channels', and a
set `o` of everybody else's. Every function of the drivers keeps `Own` and does not touch `o`
(`Good`, with one lemma per function and per call, up to `CallGood`). What makes this go
through is `Shape`, which differs by driver: a server's accepted connection is not its listening
socket, and a server never counts as connected; a client's two fields name one descriptor; a
mapped file has no second one. `Paired` says that a channel that closes one descriptor has
just one. `Counted` says that the server's counters differ by the connection that it has
ready, whose table entry is the last one accepted. `Orderly` then puts the devices together:
`o` is what the others have, what a destroyed device left (`left`), and the standard
descriptors until stdio takes them (`Spare`); since `o` and `Mine` are disjoint, a step of one
device keeps `Own` for all (`OrderlyKept`). From udp's half-way failure on (`half_failed`), only
the types are kept, which is all that the properties claim.

`SpinMuxProof` proves, for every set of muxables and whatever callbacks remove:

| theorem | says |
|---|---|
| `TypesCorrect` | `Spec => []TypeOK`: also after removals the vector never holds a muxable twice |
| `FairInvariant` | `Spec => []MuxInv`: `FairInv` until something is removed |
| `IndexStaysInRange` | `Spec => []IdxInRange` |
| `StrictRoundRobin` | `Spec => RoundRobin` |

*Argument.* `RoundRobin` speaks of what was returned while `w` waits; the code keeps no such
record, only an index. The scan meets positions in the cyclic order that starts at `idx`.
`FairInv` says that whatever was returned while `w` waits comes after `w` in that order
(`Ahead`). A poll moves one position, which does not wait any more or never did, from the
front to the back and keeps the order of the others (`NextIdxOrder`); an insertion adds one
that nothing has passed yet. A muxable that is returned is at the front, hence before every
`w`, hence was not returned while `w` waits. A removal shifts positions under the index, and
the order with them: a muxable after the removed one is skipped for a turn, and the index may
point past the end. So the two properties speak of the time until the first removal
(`Intact`), and `EveryReadyServed` is what is left afterwards.

`PerfProof` proves, for every number of slots, every batching of the server and every `Wrap` of
more than two rings:

| theorem | says | under |
|---|---|---|
| `Invariant` | `Spec => []Inv` | `Batching <= N` |
| `TypeCorrect` | `Spec => []TypeOK` | `Batching <= N` |
| `NothingIsLost` | `Spec => []NothingLost` | `Batching <= N` |

*Assumptions.* `PerfAssumption` gives the constants their types, and a client batch of at least two,
since with one `get_new_channels` asks for no second channel (`camio_perf_client.c:495`) and the
client's device stays in the multiplexer. `Batching <= N` says that the
client's batch fits into the ring, which is so unless it is asked otherwise: a batch of 8 is the
default (`camio_perf.c:56`) and 1024 slots are (`bring_device.c:49`). The last row of section 3's
table of changes is what happens without it. The server's batch may be larger than the ring.

*Argument.* `NothingLost` speaks of one comparison each: a sequence number the server expects, a
header, an index of the client. Whether they come out right depends on what both programs and
the ring did a lap before. `IInv` follows the ring by counters that do not wrap,

    conf <= rel <= Taken <= Acquired <= Published <= Given <= conf + N

(confirmed to the client, released by the server, taken from its queue, acquired, published,
given a buffer). The state has no history to read them from, so `Inv` says that some `conf` and
`rel` fit; the others are those two and the lengths of the queues. Every index is a counter
modulo `N` and every number one modulo `Wrap` (`ClientRing`, `ServerRing`); the lap of headers from
`conf` on is RXD, then the messages' numbers, then EMPTY (`Ring`), and the numbers in the buffers
go up to `Given`, since the client writes them before it publishes. Two parts are what makes it go
round. `ClientTurn` says that between two polls no id is half-way: the client asks for every id
that completed in the callback that completed it, so when the buffers are polled its queue is
exactly the ids without one, each once. Hence the grants come in the order of the ring, all at
once, because at most `Batching <= N` are in circulation (`GrantedOf`); that asking again for an
id that is outstanding, which the code does not exclude, gives it two buffers, is only possible
in larger batches. `ServerTurn` says that the data queue is empty whenever the server polls for
buffers, so that a batch always fits into it, although nothing checks that. A step of one program
moves one counter, and since `Slot` is injective on a lap, leaves the headers of the other
messages alone (`RingPublished`, `RingReleased`, `RingFreed`, `RingGiven`).

*What stays with TLC.* Liveness and anything with fairness, which the proof system does not
handle (`AllGoThrough`, `FifoLive`, `Meet`, `SelectEnds`, `EveryReadyServed`, `WriteCompletes`,
`StreamGoesOn`); the behaviour of undisciplined applications; writes
of several buffers; `Perf` with a batch larger than the ring; the multiplexer after a removal.

## 5. Not modelled, and why

* The delimiter. `delim_read_peek` ends in an unfinished `if` (`delim_channel.c:397`), and other
  functions use variables that are not declared: it does not compile, and there is no
  behaviour to be faithful to.
* The registry, parameters and URI parser: sequential, at start. One thing lasts: the `found`
  flag lives in the registered table and is never cleared, so a second device with the same
  parameter is refused (`camio.c:216`).
* Bytes, offsets and the layout of the mapped bring file: the models keep which message a slot
  holds and its length.
* The ring's other direction. `bring_channel_construct` lets the client keep its write ring as its
  read ring (`bring_channel.c:961-971`, through a temporary at line 967), so what the server
  writes is never read; the server's release of a write buffer clears a header of its incoming
  ring (line 622); and the length of the server's write slots has a double minus (line 956).
  Nothing gets through, on any run, so there is no interleaving to search.
* 64-bit wrap of the sequence counters: the source argues it away (`bring_channel.c:66`).
* Logging, performance counters, and parameter checks of constructors.

What the list of hazards leaves out, because no property could say more than a line does:

* `spin_remove` returns `CAMIO_NOTIMPLEMENTED` after a successful removal (`spin_mux.c:61`). After
  a remove, the pointer that a callback holds names the muxable that moved into the place, and
  a second remove takes that one (line 55). A select with a zero timeout looks at nothing,
  because the deadline is tested before each poll (line 95, against the comment at line 86). A
  muxable whose state has not changed is delivered again, against `api.h:105-107`.
* In a vector of writes, one that is refused for its hints is skipped, and the good one after it
  is taken for out of order and ends the process (`bring_channel.c:701`). `BringChannel`'s
  application waits for a refused message.
* The device's request queue is made for one element of a pointer's size, and whole messages
  are pushed into it (`bring_device.c:545`).
* A tcp socket that cannot be made to listen is kept, and never accepts (`tcp_controller.c:174`,
  in `Devices`). A file that cannot be mapped stays open, so the next ready finds it ready
  (`mfio_controller.c:79`, in `Devices`). When there is no memory for a channel's buffers, connect
  returns an error but has already stored the half-built channel (`tcp_controller.c:249-254`);
  an application that destroyed it would close the device's descriptor. The one in `Devices` uses
  a channel only after success. A file device over descriptors that its user supplies
  (`fio_controller.c:63-68`) appears only as stdio. udp's ready still says ready after the device has
  connected (`udp_controller.c:152`, in `Devices`).
* When a stream ends, the server's callback removes the muxable it was called for, and goes on
  with the buffers of the same batch (`camio_perf_server.c:169`). A failed release returns from
  the middle of the batch, and the rest is never released (line 197, in `Perf`).

## 6. Plan

Done: the ring, its proofs, and the handshake, with its proofs; the multiplexer with its proofs;
the pool, and the channels and devices over descriptors, with their proofs; `camio_perf`, with its proof.

What is left:

1. That `Perf`'s coarse ring is implemented by `BringChannel`, as a refinement.
2. The delimiter and the ring's other direction, once their source is finished.
3. `DeviceParams`: registration and parameters.
