# A verification of TCP-Projects

TLA+ models of the network programs of this repository, model-checked with TLC
on small instances, with theorems about every part modelled, checked by TLAPS for
every instance. The modules are translated from the source; the map from each
definition to its lines is in `PROJECT.json`.

## 1. The system

The repository is a collection of small C++, C and C# network programs. They
do not call each other; what they share is a socket library.

| part | state it keeps | operations |
|---|---|---|
| **Chat server** (`tcpChatServerTHREAD/src/network/TCPChatServer.*`, `src/server.cpp`) | `clientSockets` (a map keyed by descriptor), `threads` (keyed by a running id), one mutex `mut` for both, `stdoutMut`, `isRunning` | the main thread accepts; one thread per client reads, answers pings, distributes what it reads to every key of `clientSockets`, and closes; SIGINT runs the destructor |
| **Socket library** (`tcpChatServerTHREAD/lib`) | `serverSockets`, `clientSockets` | make, bind, listen, accept, send, receive, close; every failure is an exception, whose text is printed into a fixed array, or (`SendException`) through a pointer that is never set |
| **Chat client** (`src/network/TCPChatClient.*`, `src/client.cpp`) | the list of commands, the list of event listeners, `isRunning` | an input thread (commands, chat lines), a data thread (events, chat), the main thread that registers `/ping` and waits |
| **Commands, requests, events** (`src/command`, `src/request`, `src/event`) | lists shared by the client's threads without a lock; a mutex per ping used as a semaphore | register, unregister, handle, execute; `/ping` sends `/request/Ping` and waits for `/event/Ping` |
| **File transfer** (`tcpFileSending`) | one open file and its offset; the client's output file | the server sends the file to one client at a time, the client writes what it receives until the end of the stream |
| **Port scan** (`getOpenPorts`) | the next port, `isDone`, two threads | try every port with `connect`; a second thread cancels after 10 s |
| **SELECT chat** (`tcpChatServerSELECT`) | the list of clients, the set `readfds`, one buffer for the messages of all | one loop around `select`: accept one client and read its name, then read once from each ready client and send the line back. As committed it includes a header that is not there, and `main` never calls `runServer` |
| **C# server, client, packets** (`tcpProtocolC#`; `Sockets` is the same server and client once more) | the text received so far | an iterative server that reads until `<EOF>`, answers and closes; the client sends the marker and waits; a packet is sent without either |
| **Packet interceptor** (`tcpPacketInterceptor`) | the buffer, used for each packet again; the number of packets | filter packets by address, print three hex dumps of 16 columns: IP header, TCP header, payload |
| **Packet sender** (`tcpPacketSender`) | none | connect, write, read once |
| **tcpLib** | as the socket library | an older, header-only copy of the library |

The parts interact through TCP only: chat client with chat server, file client
with file server, C# client with C# server. Inside the chat server the threads
interact through `mut`, the two maps, and the kernel's descriptor table, which
gives the number of a closed descriptor to the next connection accepted. Inside
the chat client the threads interact through the two lists and the mutex of the
ping listener.

### What makes each part correct, and what is hard about it

**Chat server.** A thread's descriptor must stay the thread's own although the
kernel gives freed numbers out again at once; `distributeData` must never write
to a closed descriptor; the two maps must agree with the clients and threads
there are; all clients must see the broadcasts in one order; a client that
leaves must be closed, announced and forgotten; the mutex must be given back.
Hard: `acceptClient` changes `clientSockets` without `mut` while the threads
iterate over it and erase from it; `closeSocket` closes first and erases later;
a failing `send` ends the process in the middle of a round; a blocking `send`
holds the mutex; `read` runs messages together.

**Chat client.** The lists that its threads share without a lock must stay
walkable; a ping must measure an answer and never hang; the client must notice
the end of the server. Hard: two threads append to the list of commands at
start-up; the data thread iterates over the listeners while the input thread
removes one; a mutex serves as a semaphore and is unlocked by a thread that
does not hold it; an answer can be lost in a longer `recv`.

**File transfer.** The copy must be the file, or the failure must be seen; the
transfer must end. Hard: short sends, short writes, errors and an interrupt at
any point; the end of the stream is the only sign of success.

**Interrupt of the chat server.** After SIGINT the process should end, no client
should be accepted any more and none left connected. Hard: the handler runs the
destructor in the middle of `main`, while the threads go on; the map of clients
does not hold a client just accepted; `main` may wait for a mutex that a thread
keeps inside a blocking `send`; a second interrupt finds members destroyed.

**SELECT chat.** A line must go to its sender, and one client must not stop the
server. Hard: what `select` reported is used after another client was accepted
and its name read; `read` returning 0 leaves an older line in the shared
buffer; an empty line does not move the iterator; nobody is ever removed; the
name is read, and the echo sent, by calls that block everybody.

**C# server.** Whoever sends the marker must be answered, and nobody else. Hard:
the marker may come in parts, or with text behind it; closing with bytes unread
resets the connection; one exception ends the server for all; a program that
closes without the marker keeps the inner loop going.

**Packet interceptor.** A dump must hold each byte once, in its column. Hard:
line feeds come from two branches; the lengths in the headers may exceed what
was received, and the buffer then holds bytes of an earlier packet.

**Port scan.** The report must be exact; a scan that is done in time must not be
called a timeout; the process must end although `connect` hangs. Hard: `isDone`
is set outside the mutex, between the reading of the clock and the check.

## 2. The modules

| module | what it is | lines of the program |
|---|---|---|
| `ChatServer` | the chat server: main thread, one thread per client, the kernel's descriptors, the clients as it sees them | `TCPChatServer.cpp`, `lib/TCPServer.cpp` |
| `ChatRoom` | what the server promises of a conversation: a floor, held by one at a time | - |
| `ChatServerRoom` | the refinement mapping from `ChatServer` to `ChatRoom` | - |
| `ChatServerInv` | the inductive invariant of `ChatServer`, in named parts | - |
| `ChatServerProofs` | theorems about `ChatServer`, and that it implements `ChatRoom` | - |
| `MCChatServer` | instances of the above | - |
| `ServerShutdown`, `ServerShutdownProofs` | the start of the chat server and its interrupt, the threads kept to what they share with `main`; theorems | `server.cpp`, `TCPChatServer.*`, `lib/TCPServer.cpp` |
| `ChatClient`, `ChatClientProofs` | the three threads of the client, the lists they share, a ping; the server as an environment; theorems | `TCPChatClient.cpp`, `client.cpp`, `command/`, `event/`, `request/` |
| `FileTransfer`, `FileTransferProofs` | both programs of the file transfer and the interrupt; theorems | `tcpFileSending/*.cpp`, `tcpLib/TCPServer.h` |
| `PortScan`, `PortScanProofs` | the scan's three threads; theorems | `getOpenPorts.c` |
| `SelectChat`, `SelectChatProofs` | the server around `select` and its client; theorems, and that it implements `EchoRounds` | `tcpChatServerSELECT/*.cpp` |
| `EchoRounds` | what that server promises: rounds, a turn for each client reported, an echo for a turn | - |
| `SelectChatRounds` | the refinement mapping from `SelectChat` to `EchoRounds` | - |
| `EofServer`, `EofServerProofs`, `MCEofServer` | the C# server, its client and `MessagePacket.SendPacket`; theorems; an instance | `tcpProtocolC#` |
| `PacketDump`, `PacketDumpProofs` | the interceptor's loop, filter and dumps; theorems | `interceptor.c` |

Definitions named `...Falls...`, `...Again`, `...Not` and the like, with a
comment that begins "Mutant of", are wrong versions of the definition after
them. No specification uses them: they show which mistake each property would
find.

### ChatServer

`fdTable`, `backlog`, `link`, `wire` and `inbox` are the kernel: which
connection each descriptor names, the listen queue, how each client has ended
its side, and the two buffers of each connection. `clientSockets`, `threads`
and `mut` are the members of the class, each map by its keys. `main` and
`clientSocket` are the program counter and the local of `runServer`; `pc`,
`socket`, `out` and `cursor` those of each `socketThread` - what it sends next
and where `distributeData`'s iterator is. A connection stands for its client
and for the thread that serves it.

There is an action for each system call and each operation on a mutex, and
`accept`'s insertion takes two (`InsertBegin`, `InsertEnd`), because it runs
without the mutex: an erase in between is a data race on the tree, and sets
`torn`. From then on nothing is kept of the map: a walk may be at any descriptor
or at its end, the process may end (`TornCrash`), and since a walk of a corrupt
tree need not come through, no step is fair any more. The properties that
depend on the map or on the end of a walk (`RegistrySound`, `LostOnlyByReuse`,
`LeaverRetired`, `RoundEnds`) claim nothing once it is torn. A round that meets
the insertion (`Rebalancing`) may skip or repeat a key. `send` blocks on a full
buffer, works, or, to a client whose connection was reset, ends the process
(`SendDies`: `SIGPIPE`, or an exception that no thread catches). `Accept` gives
the lowest free descriptor, as the kernel does.

`robbed` is a history variable, which no action reads: the connections whose key
another thread's `closeSocket` has erased, because the number was theirs by
then (`Robs`). It is there for `LostOnlyByReuse`.

Left out: `stdoutMut` and printing; the limit of the listen queue; a message
longer than the buffer of 2048 bytes, which two reads take for two messages; the
wrap of the running id that keys `threads` (a thread is named by its connection
instead); what the *client's* `recv` does to message borders, which is in
`ChatClient`; the interrupt, which is in `ServerShutdown`.

### ChatRoom

The abstract specification has no threads, descriptors or mutex: each
participant enters, talks and departs; one at a time has the floor, and only
the holder's words reach anyone. That the server implements it says that the
rounds of the threads never overlap, that a client's first notice is its join
and its last its quit, and that the quit comes only after the close. It does
not say that everyone hears everything; the code does not do that (section 4).

### ServerShutdown

`handler` is where the signal handler is in the middle of `main`: it clears
`isRunning`, destroys the `TCPChatServer`, whose destructor closes the
descriptors in the map of clients (`CloseClient`) and then the server's own
(`CloseMaster`). `dead` holds the members destroyed so far; using one is
undefined, so the process crashes or goes on (`Uses`). `main` is followed from
the first call of the constructor, with the failure of each, to `runServer`. A
client's thread is reduced to the points where it takes `mut`, uses the map or
closes its descriptor: a round of sends (`Speak`, `Sent`), a read, and the way
out. No lock keeps the handler's walk, the insertion of `main` (`InsertBegin`,
`InsertEnd`) and a thread's erasure apart. Where one meets another a map is
`torn`: the keys that are left are any of those there were, the walk may end too
early or never, and whoever uses the map may crash (`TornCrash`). Descriptors are
not numbered here; the reuse of numbers, failing sends and messages belong to
`ChatServer`. Left out is a second interrupt that another thread takes while the
handler still runs in `main`.

### ChatClient

`next` and `last` are the links of the `std::list` of commands, since two threads
append at once (`HookRead`, `HookLink`, `HookLast` are the three memory
operations of `push_back`). The listeners are a set, because `OneListener`
holds. `lock` is the mutex in each `PingListener`. `input` follows the input
thread through `CommandPing::getPing`, `data` the data thread through
`onPingEvent`; `at` is the listener that loop is at. When the input thread has
freed that node, the loop's next read may end the process, end the loop or go
on with a node that took its place. `Receive` takes any number of messages at once,
and only an event that comes alone is one. The server is there or not
(`refused`: the constructor throws, and the process ends by it or goes on with a
socket that is not connected). It answers, relays, and may end: in order
(`closed`), after which the first `send` draws a reset, or with requests or chat
lines that it has not read (`unread`), which is a reset at once (`reset`). The
error of a reset is reported once, to whichever call comes first, the data
thread's `recv` or the input thread's `send`; after that (`broken`) `recv`
returns 0 for ever and a `send` is `SIGPIPE`.

### FileTransfer

The file's bytes are `1..Size`, `copy` is the sequence of the bytes written, and
the stream between is given by how much was sent and received. `sendfile`,
`recv` and `write` may each do a part of what they are asked, or fail; so may
`accept`, and the client's `fopen`, whose null pointer goes to `fclose`.
`Interrupt` is the signal handler, which closes the file, deletes the server
object (its destructor closes the sockets) and returns to `main`. A second
delete is undefined and taken to abort. A signal before `listen`, inside
`accept` or inside the handler would use the object while it is being made or
destroyed; it is not modelled.

### PortScan

One action per call of the search thread, `ReadClock` and `CheckDone` for the
two halves of the timeout thread's loop, one action per join of `main`. The
clock is processor time, which passes because the timeout thread spins. The
host answers on a fixed set of ports, any set being possible.

### SelectChat

`readfds` is the set `select` filled; `at` is the iterator over the list. A
client sends blocks of fixed size, so its stream is a sequence of pieces, of
which only matters whether they end a string: the server reads 22 of the 32
bytes of a name, and from then on a read may begin anywhere in a block; the tail
of a block was never initialised and is of any kind. `message` is the one
buffer, `Size` pieces and who wrote each. A read overwrites as many as it brings
and leaves the rest, and what is sent back goes up to the first end of a string
(`Shown`), so it may hold bytes of somebody else: all of it after a read that
returned 0 (`StaleOnlyToLeavers`), its end after a read that brought no end of a
string (`StaleOnlyBehindUnended`). `ReadName`, `ReadLine` and `Echo` block as
the calls do. A connection passes from `up` to `fin` or `reset` when its client
is killed and to `gone` once an error was reported; sending to `gone` is
`SIGPIPE` (`EchoKills`). A client is its own descriptor: the numbers, which
index an array of 32 names, are left out, and with them an `accept` that fails,
whose -1 the code would put on the list.

### EchoRounds

The abstract specification has the clients that joined, in order, and who has
not had its turn in the round; there are no sockets and no buffers. Who has a
turn is settled when the round opens; a turn brings one echo or none. In the
mapping (`SelectChatRounds`) a round opens with `select`, the clients it
reported are those with a turn, and a turn is over when the iterator passes the
client. So that the server implements it says: a client that is accepted in a
round waits for the next one; an empty line, which makes the server read the
same client again, never brings a second echo; nobody is served whom `select`
did not report, and nobody twice; and nobody leaves the list, which is what the
code does although clients end.

### EofServer

A text is its length and the place where the marker is complete, and what was
received a prefix of it (`sent`, `taken`); so each `Receive` may return any
number of bytes, and the marker may be split. `marked` is `data.IndexOf("<EOF>")
> -1`. Closing with bytes unread makes a reset (`CloseClient`). The `try` is
around `Bind`, `Listen` and both loops, so every call in it that may throw has
an action that ends the server: `OpenFails` for those before a connection is
served (`Bind`, `Listen`, and `Accept` at any time), after which `pc` is
`failed`, and the failures of `Receive` and `Send`, after which it is `ended`
(both in `Ends`). A connection that is not accepted yet waits in the queue of
`Listen(10)`, `QueueLen` here; a `Connect` that finds it full, or no server, is
refused (`Refused`). The client program retries nothing; `SendPacket` closes at
once. Left out are failures of the network between two programs that are there,
and that a reset may discard bytes the other side has not received.

### PacketDump

A byte is its offset in the buffer, so a dump can be compared with `Layout`,
which says from the width and the length alone where each byte belongs.
`Packets` are header lengths in words and a size, which the TCP header's length
need not fit. One action prints a byte with all that its turn of the loop
prints. The decoded header fields are left out.

## 3. What the runs check

| run | instance | what it shows |
|---|---|---|
| `chat_server` | 3 clients, 2 descriptors, 1 message each, 1 message of buffer | descriptors stay the threads' own (`OwnSocket`), keys are open descriptors (`RegistrySound`), `threads` is exact, the mutex is held only inside a critical section (`HolderInside`), a client's key is gone exactly when another thread erased it after the number had become the client's (`LostOnlyByReuse`) |
| `room` | 2 clients, 2 descriptors, 2 messages of every kind, buffers of 2 | `ChatServer` implements `ChatRoom` (`RoomSpec`); the invariant of the proofs holds (`IndInv`) |
| `chat_live` | 2 clients, 2 descriptors, 1 message of every kind, fair server and readers | as long as the process lives and the map is not torn, a round ends and a leaver is retired; the notices arrive in one order |
| `server_shutdown` | 3 clients, 2 interrupts at any point | nobody is accepted after the handler; unless a map was torn, one connection at most is left open, and the process ends or waits for a mutex that a thread keeps |
| `chat_client` | 3 lines, 1 chat message, fair threads | the list of commands can always be walked, there is one listener in a ping and none outside; a ping returns; a reset or a refused connection ends the data thread or the input thread |
| `file_transfer` | 5 bytes, blocks of 2, 3 in flight, 2 interrupts, fair processes | the copy is in order, ends with the stream, and is the file when nothing was disturbed; an accepted transfer ends on both sides |
| `port_scan` | ports 0 to 3, any of them open, limit of 2 | the report is exact, the array never overflows, a timely scan counts, the process ends although the search may hang |
| `select_chat` | 2 clients, a buffer of 2 pieces, 3 pieces of stream, 2 echoes unread | what a client that is there gets starts with its own bytes, and holds another's only behind a read without an end; what `select` said still holds; one client can stop the server in three ways only; whoever connects is accepted while the loop goes round; `SelectChat` implements `EchoRounds` (`RoundsSpec`) |
| `eof_server` | 3 programs, client or packet, a queue of 1, texts of 2 to 4 bytes with a marker of 2 at the end, inside or absent | who is answered and who not; once it serves, only a packet or a killed program ends the server, or its own sockets; it goes on, ends, or is held by a text without the marker |
| `packet_dump` | 2 packets, 3 lengths of IP header, 4 of TCP header, 11 sizes around 16 and 32 | each dump is laid out as `Layout` says, nothing outside the buffer is read and no old byte is shown as payload, the dumps cover the packet |

Two clients and one descriptor would be the least for a number to be used
twice; the server's runs have three clients over two descriptors or two over
two, so that a number is reused while another client is served, and `accept`
runs out of descriptors. One chat message per client, with join and quit,
already lets three rounds of each client compete; two messages let `read` run
them together. Three lines are two pings with another command between, or a
third ping that finds the first one's node gone. Five bytes in blocks of two
have a last block that is not full; windows of three make `sendfile` short.
Four ports include the last one, which is not tried. Two clients of the SELECT
server are the one whose turn it is and one that waits; a buffer of two pieces
has a part that a short read leaves, and three pieces are a block and half of
the next, so that reads fall between blocks. Three programs of the C# server are
one that is served, one that fills the queue and one that is refused. The sizes of
the dumps are zero, below, at and above one and two lines, and negative where
the TCP header says more than was received.

**Deadlock** is checked where the system always has a next step: `AtRest` and
`Ended` stutter where a program has ended, or everyone waits for someone who
need not come. It is not checked in `server_shutdown` (the process ends),
`select_chat` (the server is killed, or blocks on one client: `HeldByOne` says
exactly when) and `eof_server` (all programs are done).

**Fairness.** Every thread of a program is scheduled (`WF` of the disjunction of
its steps), which is all a preemptive scheduler gives; in the chat server and in
`server_shutdown` only while the map is not torn. Nothing is assumed of
users, of clients connecting or leaving, of `connect` in the scan, or of the
interrupt, or of the threads in `server_shutdown`, where a send may block for
ever. `chat_live` assumes that clients go on reading, for without it
the server blocks for ever: under `ServerFairSpec` a client that does not read
keeps a round, and `mut`, from ending. `std::mutex` is not fair: with bounded
messages a thread that waits for it gets it in the end, and an unbounded stream
of messages could keep it out.

## 4. Where the code differs from what it says

Two runs end in a violation of something the repository states.

| run | stated | what happens |
|---|---|---|
| `ping_early` | "get response time from server" (`CommandPing.cpp:8`) | the mutex waited for is free; the time is that of the send |
| `interrupt` | "Handles interrupt signal" (`tcpFileSending/server.cpp:98`) | the server object is deleted twice |

The chat server differs from its comments in ways that its invariants spell out
instead. A message is to go to each client (`TCPChatServer.h:51`), but a client
accepted on a number between `close` and `erase` of its last owner has its own
key erased and hears nothing. `LostOnlyByReuse` says that, as long as the map is
not torn, a client with an open descriptor is missing from it exactly when this
happened to it. A quit message names the client that left by its number, and may
follow the join of the next `Client-5`. It is lost altogether when a `send` to
another client that has left ends the process (`LeaverRetired` and `RoundEnds`
have to allow for `~alive`, and for a torn map). The destructor "Joins all
threads" (`TCPChatServer.h:48`) and joins none (`ServerShutdown`). `/help` lists
the commands, of which two unlocked appends may lose one (`ListSound` promises
only that the walk ends).

Others follow from the models but have no run of their own: the last port is
never tried (`ReportExact` says `open \ {MaxPort}`); a short `write` is not
noticed (`CompleteWhenClean` has to exclude it); `/quit` does nothing
(`TypeCommand`); an orderly end of the server is not noticed by the client
(`ResetNoticed` has to speak of a reset, and the line the user types may take
the one error there is: then the input thread ends and the data thread does
not); a client that does not read blocks all others (`RoundEnds` needs
`FairSpec`). A client of the SELECT server that sends a line in two segments may
be sent another's bytes behind the first (`StaleOnlyBehindUnended`). One that
sends an empty line and then nothing holds up everybody, as does one that does
not send its name or does not read (`HeldByOne`). A program that closes without
the marker keeps the C# server for ever (`HeldByUnmarked`), and behind it the
queue fills until others are refused although the server runs
(`UnansweredOnlyAtEnd`). The dumps of the headers may show bytes of an earlier
packet (`InBuffer` speaks of the payload).

## 5. What is proved

TLAPS checks these for every value of the constants, from the assumptions in
the modules (names are distinct, sizes are numbers, blocks are not empty).

**`ChatServerProofs`.** `Inductive` is `Spec => []IndInv`; `TypeCorrect`,
`OwnSocketCorrect`, `RegistryCorrect`, `ThreadsCorrect`, `LostCorrect`,
`HolderCorrect` and `SameOrderCorrect` follow. None of the properties is
inductive alone. `OwnSocket` needs to know that no other thread and no pending
connection has the descriptor (`ConnInv`), and what the main thread holds
between `accept` and the start of the thread (`MainInv`). `RegistrySound` needs
that whoever is between `close` and `erase` holds the mutex, so that no iterator
moves then (`MutexInv`), and that only a thread that is leaving closes
(`OutInv`). `ThreadsExact` needs to know who is missing while the main thread
records it (`ThreadsInv`). `LostOnlyByReuse` needs to follow the key from the
insertion to the start of the thread and on, and that whoever is about to erase
still names a number the kernel has (`LostInv`). `HolderInside` (no thread keeps
`mut` while it waits for its client, waits for `mut` itself, or has ended) is
the half of `MutexInv` that says what `mut` implies of the program counters.

`SameOrder` says that no two clients see two notices in opposite orders. It is
about joins and quits for any number of messages, and about chat messages too
where each client writes one: of several, two could be the same value, and the
order of equal messages says nothing. It is not inductive. The invariant
(`OrderInv`) says that a notice which a thread has still to say is in no buffer
yet (`ToBeSaid`), and that while one is being said no other follows it in any
buffer. So the round that says `n` either comes after every `m` there is, or `n`
is new; in both cases no pair is turned round. It rests on `mut`, without which
two could be said at once, and on `WritesInv`, which knows that a chat message
being said was the only one.

The proof has one lemma for each action and part it can disturb.
`RoomCorrect` is the refinement, `Spec => RoomSpec`: each kind of step maps to a
step of the room or to none (`MainRoom`, `RoundRoom`, `SendRoom`, `BetweenRoom`,
`ClientRoom`). It needs the invariant to know that the sender holds `mut`, so
that its words are those of the holder of the floor, that a ping's answer goes
to the thread's own connection, and that a thread starts for a connection that
was not served before.

**`ChatClientProofs`.** `TypeCorrect`, `ListCorrect`, `ListenerCorrect`.
`ListSound` is not inductive: the invariant (`ListInv`) says that a node is only
appended to one whose insertion is over, and has no successor until its own is
over, so that a new link never closes a cycle, however links are lost. That no
listener is left over (`OneListener`) is inductive together with the count of
requests (`PingInv`).

**`ServerShutdownProofs`.** `TypeCorrect`, `OneLeftCorrect`,
`NoneAcceptedCorrect`. The invariant says that an open connection is in the map
or is the one `main` is about to insert, as long as no map is torn (`OpenInv`),
and how far the destruction has gone (`DeadInv`).

**`SelectChatProofs`.** `TypeCorrect`, `StaleCorrect`, `UnendedCorrect`,
`BlocksCorrect`. What makes them inductive is `FreshInv`: every client that
comes later in the list and is in `readfds` is still readable, because only its
own turn takes anything from it, and a client just accepted is not in the set.
`RoundsCorrect` is the refinement, `Spec => RoundsSpec`. Each action maps to a
step of the rounds or to none; `Select` opens a round, `Accept` joins, and the
actions that move the iterator take a turn if the client has one. That the turn
is the next in order is the fact that the list has no duplicates, and that an
echo falls into a turn needs `pc = "send" => Turn \in readfds` in the invariant.

**`EofServerProofs`.** `TypeCorrect`, `MarkerCorrect`, `AnswerCorrect`,
`EndCorrect`. The invariant follows each client program (`Waits`): until the
server ends, its connection is whole while it waits, and is closed in order
only with the answer in it. A program that was refused found the queue full or
no server; how the server ended (`ended` or `failed`) tells the connections from
its own sockets.

**`FileTransferProofs`.** `TypeCorrect`, `CopyCorrect`, `EndCorrect`,
`CompleteCorrect`. The invariant says that the copy ends before the block in
hand, and that *if no byte is missing so far it is the beginning of the file*:
that form is inductive, while "an ascending sequence of n numbers up to n is
1..n" would need an induction the provers do not have.

**`PacketDumpProofs`.** `TypeCorrect`, `DumpExactCorrect`, `InBufferCorrect`,
`DumpsCoverCorrect`, for any width, buffer and headers. `DumpExact` compares
what a loop builds with what `Layout` says at once, and is not inductive:
`Midway` says that before each byte the finished lines are the lines of `Layout`
and that the line in hand holds what belongs to it so far, without its
characters, which are written at its end. `PrintInv` says this of the section
being printed, that the earlier ones are done and the later ones are empty,
`Done` what remains of it when all is printed. No induction over data is needed,
since `Layout` is given line by line and not by recursion. `DumpsCoverCorrect`
turns the lines back into the bytes: each offset of a section is in one line and
one column.

**`PortScanProofs`.** `TypeCorrect`, `ReportCorrect`, `ArrayCorrect`,
`TimelyCorrect`. The invariant relates what is recorded to the loop variable,
and remembers that a timeout was decided on a time past the limit while `isDone`
was not set.

The lemmas about queues without duplicates (`TailOfQueue`, `AppendToQueue`) are
stated at the top of the modules that use them.

Every invariant that a run checks is proved, and both refinements;
`ChatClient`'s `TypeOK` is proved and needs no run. Only model-checked is
liveness, which is out of the prover's reach: `LeaverRetired`, `RoundEnds`,
`PingReturns`, `ResetNoticed`, `Ends`, `TransferEnds`, `InterruptEnds`,
`HeldByOne`, `RoundsAccept`, `HeldByUnmarked` and `AllAnswered`.

## 6. Not modelled, and the plan

- `Util::split`, which splits the line of a command: a pure function whose
  result no command looks at.
- The bytes of the chat's buffers: the terminator written one place past a full
  buffer (`TCPChatClient.cpp:107`) and the line repeated at the end of the input
  (`TCPChatClient.cpp:66`). Each would be a model of one line that restates it.
- The text of the exceptions; that an exception leaves a call is in each module.
- The packet sender: connect, write, read once.
- `tcpLib`, the older copy of the socket library, except for what the file
  server runs of it (`closeAllSockets`, and the start of a server in `Listen`
  and `Accept`).
- In the file transfer, a signal before `listen`, inside `accept` or inside the
  handler, which would use an object that is being made or destroyed.
- A second interrupt of the chat server taken by another thread while the handler
  runs; a chat message longer than the server's buffer.
- In the C# programs, failures of the network and a reset that discards bytes not
  yet received.
- A failing `accept` in `SelectChat`, which would put -1 on the list.
- The numbers of descriptors in `SelectChat` and `ServerShutdown`; their reuse is
  the subject of `ChatServer`.

