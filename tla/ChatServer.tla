----------------------------- MODULE ChatServer -----------------------------
(***************************************************************************)
(* The threaded chat server of tcpChatServerTHREAD: the main thread that   *)
(* accepts clients (TCPChatServer::runServer), one thread per client       *)
(* (socketThread, distributeData), the socket library they share           *)
(* (TCPServer::acceptClient, sendData, closeSocket) and, as far as the     *)
(* server can observe them, the kernel's connections and the clients.      *)
(*                                                                         *)
(* One action per stretch of code between two points where another thread  *)
(* or the kernel can be noticed: mutex operations, system calls, and the   *)
(* two ends of the one update of the shared map made without the mutex.    *)
(*                                                                         *)
(* A connection is a member of Conns for its whole life; a descriptor is a *)
(* member of Fds and is used again after close(), lowest number first.     *)
(***************************************************************************)
EXTENDS Naturals, Sequences

CONSTANTS
    Conns,      \* the connections clients make
    Fds,        \* the descriptors left to the process
    RecvBuf,    \* messages a connection buffers before send() blocks
    Lines,      \* what clients write, of Requests
    MaxSends,   \* bound: messages one client sends
    NoConn, NoFd,   \* an unused descriptor; no descriptor, map::end()
    Main, Free      \* values of mut besides the threads that hold it

ASSUME FdsAssumption == Fds \subseteq Nat
ASSUME NamesAssumption ==
    /\ NoConn \notin Conns
    /\ NoFd \notin Fds
    /\ Main \notin Conns
    /\ Free \notin Conns \cup {Main}
ASSUME BoundsAssumption == RecvBuf \in Nat \ {0} /\ MaxSends \in Nat

Requests == {"chat", "ping", "unknown"}
ASSUME LinesAssumption == Lines \subseteq Requests

Links == {"new", "up", "fin", "reset"}
Notices == {"join", "chat", "quit"}
Message == [kind : Notices \cup {"pong"}, from : Conns]
MainPoints == {"accept", "insert", "linking", "lock", "spawn", "record"}
ThreadPoints == {"unborn", "wait", "send", "read", "pong", "close", "shut",
                 "erase", "retire", "done"}

VARIABLES
    (* the kernel *)
    fdTable,    \* the connection each descriptor names, or NoConn
    backlog,    \* connections complete and not yet accepted
    link,       \* how far each client has gone in closing its connection
    wire,       \* what each client wrote and the server did not read yet
    inbox,      \* what was sent to each client and it did not read yet
    sends,      \* how many messages each client wrote
    (* the server's shared state *)
    clientSockets,  \* the keys of the map of clients
    torn,       \* an erase ran during an insert: the tree may be corrupt
    robbed,     \* connections whose key another thread's closeSocket erased
    threads,    \* the keys of the map of threads
    mut,        \* who holds TCPChatServer::mut
    alive,      \* the server process runs
    (* the main thread and the threads of the clients *)
    main, clientSocket,
    pc, socket, out,
    cursor      \* distributeData's iterator in each thread

kernelVars == <<fdTable, backlog, link, wire, inbox, sends>>
mapVars == <<clientSockets, torn, robbed>>
mainVars == <<main, clientSocket>>
threadVars == <<pc, socket, out, cursor>>
vars == <<kernelVars, mapVars, threads, mut, alive, mainVars, threadVars>>

Init ==
    /\ fdTable = [f \in Fds |-> NoConn]
    /\ backlog = {}
    /\ link = [c \in Conns |-> "new"]
    /\ wire = [c \in Conns |-> <<>>]
    /\ inbox = [c \in Conns |-> <<>>]
    /\ sends = [c \in Conns |-> 0]
    /\ clientSockets = {}
    /\ torn = FALSE
    /\ robbed = {}
    /\ threads = {}
    /\ mut = Free
    /\ alive = TRUE
    /\ main = "accept"
    /\ clientSocket = NoFd
    /\ pc = [c \in Conns |-> "unborn"]
    /\ socket = [c \in Conns |-> NoFd]
    /\ out = [c \in Conns |-> "join"]
    /\ cursor = [c \in Conns |-> NoFd]

-----------------------------------------------------------------------------
(* Nothing is looked at any more once the server has ended.                *)
Up(c) == alive /\ link[c] = "up"
At(point) == alive /\ main = point
In(c, point) == alive /\ pc[c] = point

Goto(c, point) == pc' = [pc EXCEPT ![c] = point]

(* Clients, as the server sees them.                                       *)

Connect(c) ==
    /\ alive
    /\ link[c] = "new"
    /\ link' = [link EXCEPT ![c] = "up"]
    /\ backlog' = backlog \cup {c}
    /\ UNCHANGED <<fdTable, wire, inbox, sends, mapVars, threads, mut, alive,
                   mainVars, threadVars>>

(* A line typed, or /ping. The bound on it is MaxSends. *)
ClientSends(c) ==
    /\ Up(c)
    /\ sends[c] < MaxSends
    /\ sends' = [sends EXCEPT ![c] = @ + 1]
    /\ \E r \in Lines : wire' = [wire EXCEPT ![c] = Append(@, r)]
    /\ UNCHANGED <<fdTable, backlog, link, inbox, mapVars, threads, mut, alive,
                   mainVars, threadVars>>

ClientReads(c) ==
    /\ Up(c)
    /\ inbox[c] # <<>>
    /\ inbox' = [inbox EXCEPT ![c] = Tail(@)]
    /\ UNCHANGED <<fdTable, backlog, link, wire, sends, mapVars, threads, mut,
                   alive, mainVars, threadVars>>

(* The process ends and the kernel closes its socket: with data unread the *)
(* connection is reset, otherwise it is finished in order.                 *)
ClientExits(c) ==
    /\ Up(c)
    /\ link' = [link EXCEPT ![c] = IF inbox[c] = <<>> THEN "fin" ELSE "reset"]
    /\ inbox' = [inbox EXCEPT ![c] = <<>>]
    /\ UNCHANGED <<fdTable, backlog, wire, sends, mapVars, threads, mut, alive,
                   mainVars, threadVars>>

-----------------------------------------------------------------------------
(* The main thread.                                                        *)

(* accept(): the lowest free descriptor now names the connection. *)
Accept(c) ==
    /\ At("accept")
    /\ c \in backlog
    /\ backlog' = backlog \ {c}
    /\ \E f \in Fds :
         /\ fdTable[f] = NoConn
         /\ \A g \in Fds : g < f => fdTable[g] # NoConn
         /\ fdTable' = [fdTable EXCEPT ![f] = c]
         /\ clientSocket' = f
    /\ main' = "insert"
    /\ UNCHANGED <<link, wire, inbox, sends, mapVars, threads, mut, alive,
                   threadVars>>

(* With no descriptor left accept() fails and acceptClient throws. The     *)
(* exception's text, 69 characters, is longer than its array of 61: the    *)
(* process may end there. When it does not, runServer tries again, which   *)
(* changes nothing.                                                        *)
AcceptFails ==
    /\ At("accept")
    /\ \A f \in Fds : fdTable[f] # NoConn
    /\ alive' = FALSE
    /\ UNCHANGED <<kernelVars, mapVars, threads, mut, mainVars, threadVars>>

(* clientSockets.insert() takes no mutex: it is two steps, with every step *)
(* of the other threads possible in between.                               *)
InsertBegin ==
    /\ At("insert")
    /\ main' = "linking"
    /\ UNCHANGED <<kernelVars, mapVars, threads, mut, alive, clientSocket,
                   threadVars>>

(* A key already there leaves the map as it is. *)
InsertEnd ==
    /\ At("linking")
    /\ main' = "lock"
    /\ clientSockets' = IF torn THEN {} ELSE clientSockets \cup {clientSocket}
    /\ UNCHANGED <<kernelVars, torn, robbed, threads, mut, alive, clientSocket,
                   threadVars>>

(* Mutant of LockThreads: the thread is started outside the lock. *)
LockThreadsNot ==
    /\ At("lock")
    /\ main' = "spawn"
    /\ UNCHANGED <<kernelVars, mapVars, threads, mut, alive, clientSocket,
                   threadVars>>

LockThreads ==
    /\ At("lock")
    /\ mut = Free
    /\ mut' = Main
    /\ main' = "spawn"
    /\ UNCHANGED <<kernelVars, mapVars, threads, alive, clientSocket,
                   threadVars>>

(* new thread(socketThread, clientSocket, id): it runs from here on, its   *)
(* first message is the join notice.                                       *)
SpawnThread ==
    /\ At("spawn")
    /\ main' = "record"
    /\ LET c == fdTable[clientSocket] IN
         /\ pc' = [pc EXCEPT ![c] = "wait"]
         /\ socket' = [socket EXCEPT ![c] = clientSocket]
         /\ out' = [out EXCEPT ![c] = "join"]
    /\ UNCHANGED <<kernelVars, mapVars, threads, mut, alive, clientSocket,
                   cursor>>

(* threads.insert(), then unlock. *)
RecordThread ==
    /\ At("record")
    /\ threads' = threads \cup {fdTable[clientSocket]}
    /\ mut' = Free
    /\ main' = "accept"
    /\ UNCHANGED <<kernelVars, mapVars, alive, clientSocket, threadVars>>

-----------------------------------------------------------------------------
(* distributeData.                                                         *)

IsFirst(f, S) ==
    \/ f \in S /\ \A g \in S : f <= g
    \/ f = NoFd /\ S = {}

(* The tree is being changed by the main thread, without the mutex. *)
Rebalancing == main = "linking" /\ clientSocket \notin clientSockets

(* Mutant of Distribute: no lock around the loop. *)
DistributeUnlocked(c) ==
    /\ In(c, "wait")
    /\ Goto(c, "send")
    /\ \E f \in Fds \cup {NoFd} :
         /\ IsFirst(f, clientSockets)
         /\ cursor' = [cursor EXCEPT ![c] = f]
    /\ UNCHANGED <<kernelVars, mapVars, threads, mut, alive, mainVars, socket,
                   out>>

(* mut.lock(); clientSockets.begin() *)
Distribute(c) ==
    /\ In(c, "wait")
    /\ mut = Free
    /\ mut' = c
    /\ Goto(c, "send")
    /\ \E f \in Fds \cup {NoFd} :
         /\ \/ IsFirst(f, clientSockets)
            \/ Rebalancing /\ IsFirst(f, clientSockets \cup {clientSocket})
            \/ torn
         /\ cursor' = [cursor EXCEPT ![c] = f]
    /\ UNCHANGED <<kernelVars, mapVars, threads, alive, mainVars, socket, out>>

(* What a send() that returns does. It blocks while the buffer is full;    *)
(* the first one after an orderly close is answered by a reset, at once or *)
(* later.                                                                  *)
Transmit(d, m) ==
    \/ /\ link[d] = "up"
       /\ Len(inbox[d]) < RecvBuf
       /\ inbox' = [inbox EXCEPT ![d] = Append(@, m)]
       /\ link' = link
    \/ /\ link[d] = "fin"
       /\ inbox' = inbox
       /\ \E l \in {"fin", "reset"} : link' = [link EXCEPT ![d] = l]

(* EBADF on a closed descriptor, ECONNRESET or SIGPIPE after a reset. *)
SendFails(f) == IF fdTable[f] = NoConn THEN TRUE ELSE link[fdTable[f]] = "reset"

(* Mutant of SendNext: no clientSocket++. *)
SendAgain(c) ==
    /\ In(c, "send")
    /\ cursor[c] \in Fds
    /\ ~SendFails(cursor[c])
    /\ Transmit(fdTable[cursor[c]], [kind |-> out[c], from |-> c])
    /\ UNCHANGED <<fdTable, backlog, wire, sends, mapVars, threads, mut, alive,
                   mainVars, threadVars>>

(* The iterator goes to the next key; while the tree is rebalanced under   *)
(* it, it may find itself at any key or at the end. In a torn map it may   *)
(* be anywhere, and need not come to the end.                              *)
SendNext(c) ==
    /\ In(c, "send")
    /\ cursor[c] \in Fds
    /\ ~SendFails(cursor[c])
    /\ Transmit(fdTable[cursor[c]], [kind |-> out[c], from |-> c])
    /\ \E f \in Fds \cup {NoFd} :
         /\ \/ IsFirst(f, {g \in clientSockets : g > cursor[c]})
            \/ Rebalancing /\ f \in clientSockets \cup {clientSocket, NoFd}
            \/ torn
         /\ cursor' = [cursor EXCEPT ![c] = f]
    /\ UNCHANGED <<fdTable, backlog, wire, sends, mapVars, threads, mut, alive,
                   mainVars, pc, socket, out>>

(* sendData throws, or the signal arrives; nothing in the threads catches  *)
(* either and the process ends.                                            *)
SendDies(c) ==
    /\ \/ In(c, "send") /\ cursor[c] \in Fds /\ SendFails(cursor[c])
       \/ In(c, "pong") /\ SendFails(socket[c])
    /\ alive' = FALSE
    /\ UNCHANGED <<kernelVars, mapVars, threads, mut, mainVars, threadVars>>

(* Mutant of EndDistribute: socketThread loops after the quit notice. *)
EndDistributeLoops(c) ==
    /\ In(c, "send")
    /\ cursor[c] = NoFd
    /\ mut' = Free
    /\ Goto(c, "read")
    /\ UNCHANGED <<kernelVars, mapVars, threads, alive, mainVars, socket, out,
                   cursor>>

EndDistribute(c) ==
    /\ In(c, "send")
    /\ cursor[c] = NoFd
    /\ mut' = Free
    /\ Goto(c, IF out[c] = "quit" THEN "retire" ELSE "read")
    /\ UNCHANGED <<kernelVars, mapVars, threads, alive, mainVars, socket, out,
                   cursor>>

-----------------------------------------------------------------------------
(* The rest of socketThread.                                               *)

(* One read() may return several of the client's writes run together: they *)
(* are one chat message, or one request that only "/request/Ping" alone    *)
(* matches.                                                                *)
ReadData(c) ==
    /\ In(c, "read")
    /\ \E k \in 1..Len(wire[c]) :
         /\ wire' = [wire EXCEPT ![c] = SubSeq(@, k + 1, Len(@))]
         /\ \/ /\ Head(wire[c]) = "chat"
               /\ Goto(c, "wait")
               /\ out' = [out EXCEPT ![c] = "chat"]
            \/ /\ Head(wire[c]) = "ping" /\ k = 1
               /\ Goto(c, "pong")
               /\ out' = out
            \/ /\ Head(wire[c]) # "chat"
               /\ ~(Head(wire[c]) = "ping" /\ k = 1)
               /\ UNCHANGED <<pc, out>>
    /\ UNCHANGED <<fdTable, backlog, link, inbox, sends, mapVars, threads, mut,
                   alive, mainVars, socket, cursor>>

ReadEnd(c) ==
    /\ In(c, "read")
    /\ wire[c] = <<>>
    /\ link[c] \in {"fin", "reset"}
    /\ Goto(c, "close")
    /\ UNCHANGED <<kernelVars, mapVars, threads, mut, alive, mainVars, socket,
                   out, cursor>>

(* event->sendEvent(this, socket), without the mutex. *)
SendPong(c) ==
    /\ In(c, "pong")
    /\ ~SendFails(socket[c])
    /\ Transmit(fdTable[socket[c]], [kind |-> "pong", from |-> c])
    /\ Goto(c, "read")
    /\ UNCHANGED <<fdTable, backlog, wire, sends, mapVars, threads, mut, alive,
                   mainVars, socket, out, cursor>>

(* Mutant of LockToClose: closeSocket is called without the mutex. *)
LockToCloseNot(c) ==
    /\ In(c, "close")
    /\ Goto(c, "shut")
    /\ UNCHANGED <<kernelVars, mapVars, threads, mut, alive, mainVars, socket,
                   out, cursor>>

LockToClose(c) ==
    /\ In(c, "close")
    /\ mut = Free
    /\ mut' = c
    /\ Goto(c, "shut")
    /\ UNCHANGED <<kernelVars, mapVars, threads, alive, mainVars, socket, out,
                   cursor>>

(* closeSocket: close() first; from here accept() may use the number. *)
CloseFd(c) ==
    /\ In(c, "shut")
    /\ fdTable' = [fdTable EXCEPT ![socket[c]] = NoConn]
    /\ Goto(c, "erase")
    /\ UNCHANGED <<backlog, link, wire, inbox, sends, mapVars, threads, mut,
                   alive, mainVars, socket, out, cursor>>

(* The connection that has got the descriptor of c since c closed it, if   *)
(* the main thread has inserted its key: that is the key c erases.         *)
Robs(c) ==
    LET d == fdTable[socket[c]] IN
      IF d = NoConn \/ (main = "insert" /\ clientSocket = socket[c])
      THEN {} ELSE {d}

(* Mutant of EraseClient: the key erased is the last one accepted. *)
EraseLastAccepted(c) ==
    /\ In(c, "erase")
    /\ mut' = Free
    /\ Goto(c, "wait")
    /\ out' = [out EXCEPT ![c] = "quit"]
    /\ clientSockets' = clientSockets \ {clientSocket}
    /\ robbed' = robbed \cup Robs(c)
    /\ UNCHANGED <<kernelVars, torn, alive, threads, mainVars, socket, cursor>>

(* Mutant of EraseClient: the mutex is not given back. *)
EraseKeepsLock(c) ==
    /\ In(c, "erase")
    /\ Goto(c, "wait")
    /\ out' = [out EXCEPT ![c] = "quit"]
    /\ clientSockets' = clientSockets \ {socket[c]}
    /\ robbed' = robbed \cup Robs(c)
    /\ UNCHANGED <<kernelVars, torn, alive, threads, mut, mainVars, socket,
                   cursor>>

(* ... then clientSockets.erase(socket) and unlock. Against an insert in   *)
(* progress it is a data race: the process ends, or goes on with a torn    *)
(* map. Nothing is kept of what that holds: any walk may find anything.    *)
EraseClient(c) ==
    /\ In(c, "erase")
    /\ mut' = Free
    /\ Goto(c, "wait")
    /\ out' = [out EXCEPT ![c] = "quit"]
    /\ \/ /\ ~torn /\ main # "linking"
          /\ clientSockets' = clientSockets \ {socket[c]}
          /\ robbed' = robbed \cup Robs(c)
          /\ UNCHANGED <<torn, alive>>
       \/ /\ torn \/ main = "linking"
          /\ clientSockets' = {} /\ robbed' = {} /\ torn' = TRUE
          /\ alive' \in BOOLEAN
    /\ UNCHANGED <<kernelVars, threads, mainVars, socket, cursor>>

(* A walk of a torn map, an insert into it or an erase from it follows     *)
(* links to anywhere, and may end the process. It may also go round for    *)
(* ever: no step is fair once the map is torn.                             *)
TornCrash ==
    /\ alive /\ torn
    /\ main = "linking" \/ \E c \in Conns : pc[c] \in {"send", "erase"}
    /\ alive' = FALSE
    /\ UNCHANGED <<kernelVars, mapVars, threads, mut, mainVars, threadVars>>

(* Mutant of Retire: the thread closes its descriptor once more. *)
RetireClosesAgain(c) ==
    /\ In(c, "retire")
    /\ mut = Free
    /\ threads' = threads \ {c}
    /\ fdTable' = [fdTable EXCEPT ![socket[c]] = NoConn]
    /\ Goto(c, "done")
    /\ UNCHANGED <<backlog, link, wire, inbox, sends, mapVars, mut, alive,
                   mainVars, socket, out, cursor>>

(* threads.erase(id) between lock and unlock, and the thread returns. *)
Retire(c) ==
    /\ In(c, "retire")
    /\ mut = Free
    /\ threads' = threads \ {c}
    /\ Goto(c, "done")
    /\ UNCHANGED <<kernelVars, mapVars, mut, alive, mainVars, socket, out,
                   cursor>>

-----------------------------------------------------------------------------
MainStep ==
    \/ \E c \in Conns : Accept(c)
    \/ InsertBegin
    \/ InsertEnd
    \/ LockThreads
    \/ SpawnThread
    \/ RecordThread

ThreadStep(c) ==
    \/ Distribute(c)
    \/ SendNext(c)
    \/ SendDies(c)
    \/ EndDistribute(c)
    \/ ReadData(c)
    \/ ReadEnd(c)
    \/ SendPong(c)
    \/ LockToClose(c)
    \/ CloseFd(c)
    \/ EraseClient(c)
    \/ Retire(c)

ClientStep(c) ==
    \/ Connect(c)
    \/ ClientSends(c)
    \/ ClientReads(c)
    \/ ClientExits(c)

(* The process has ended, or everyone who will ever come has come and left *)
(* and the server waits in accept().                                       *)
AtRest ==
    /\ \/ ~alive
       \/ \A c \in Conns : pc[c] = "done"
    /\ UNCHANGED vars

Next ==
    \/ MainStep
    \/ AcceptFails
    \/ TornCrash
    \/ \E c \in Conns : ThreadStep(c) \/ ClientStep(c)
    \/ AtRest

Spec == Init /\ [][Next]_vars

(* Every thread of the server is scheduled, and gets on with what it does  *)
(* as long as the map is not torn; in FairSpec every client keeps reading  *)
(* too. Nobody has to connect, to speak or to leave.                       *)
ServerFairSpec ==
    /\ Spec
    /\ WF_vars(~torn /\ MainStep)
    /\ \A c \in Conns : WF_vars(~torn /\ ThreadStep(c))

FairSpec ==
    /\ ServerFairSpec
    /\ \A c \in Conns : WF_vars(ClientReads(c))

-----------------------------------------------------------------------------
KernelTypes ==
    /\ fdTable \in [Fds -> Conns \cup {NoConn}]
    /\ backlog \subseteq Conns
    /\ link \in [Conns -> Links]
    /\ wire \in [Conns -> Seq(Lines)]
    /\ inbox \in [Conns -> Seq(Message)]
    /\ sends \in [Conns -> Nat]

SharedTypes ==
    /\ clientSockets \subseteq Fds
    /\ torn \in BOOLEAN
    /\ robbed \subseteq Conns
    /\ threads \subseteq Conns
    /\ mut \in Conns \cup {Main, Free}
    /\ alive \in BOOLEAN
    /\ main \in MainPoints
    /\ clientSocket \in Fds \cup {NoFd}

ThreadTypes ==
    /\ pc \in [Conns -> ThreadPoints]
    /\ socket \in [Conns -> Fds \cup {NoFd}]
    /\ out \in [Conns -> Notices]
    /\ cursor \in [Conns -> Fds \cup {NoFd}]

(* Every variable has values of its kind; in particular the main thread    *)
(* never works with a descriptor that accept() did not return              *)
(* (TCPChatServer.cpp:43-58).                                              *)
TypeOK == KernelTypes /\ SharedTypes /\ ThreadTypes

(* The thread of c has not closed its socket yet. *)
Open(c) ==
    \/ pc[c] \in {"read", "pong", "close", "shut"}
    \/ pc[c] \in {"wait", "send"} /\ out[c] # "quit"

(* Until it closes it, a thread's descriptor names the connection the      *)
(* thread was started for, however often the number was used before and    *)
(* whatever the other threads close (TCPChatServer.cpp:110, 124 and 145):  *)
(* it never reads, answers or closes somebody else's connection, and       *)
(* close() never fails.                                                    *)
OwnSocket == \A c \in Conns : Open(c) => fdTable[socket[c]] = c

(* As long as no erase has met an insert, a key of clientSockets is an     *)
(* open descriptor, except between close() and erase() in closeSocket,     *)
(* which mut hides from distributeData; so sendData never meets EBADF      *)
(* (TCPChatServer.cpp:70-74, TCPServer.cpp:139-151).                       *)
RegistrySound ==
    ~torn =>
      /\ \A f \in clientSockets :
           fdTable[f] = NoConn =>
             \E c \in Conns : mut = c /\ pc[c] = "erase" /\ socket[c] = f
      /\ \A c \in Conns :
           pc[c] = "send" /\ cursor[c] # NoFd => fdTable[cursor[c]] # NoConn

(* The map of threads holds exactly the threads that run, but for the one  *)
(* the main thread starts and has not recorded yet: the lock around both   *)
(* keeps a thread from removing its entry before it is made                *)
(* (TCPChatServer.cpp:55-58 and 155-157).                                  *)
ThreadsExact ==
    main # "record" => threads = {c \in Conns : pc[c] \notin {"unborn", "done"}}

(* Whoever holds mut is inside the section that ends with its unlock: it   *)
(* does not wait for mut itself or for what its own client writes, and it  *)
(* has not ended. So the others get mut unless a client that a round sends *)
(* to does not read (TCPChatServer.cpp:55-58, 68-75, 144-146, 155-157).    *)
HolderInside ==
    /\ mut = Main => main \in {"spawn", "record"}
    /\ mut \in Conns => pc[mut] \in {"send", "shut", "erase"}

(* As long as the map is not torn, a client whose thread serves it is      *)
(* missing from clientSockets exactly when the thread that had its number  *)
(* before, between its close() and its erase(), has erased the key after   *)
(* the number was given to the new client and inserted (TCPServer.cpp:92,  *)
(* 139-151): no other step of the two threads takes a key away, and none   *)
(* gives it back.                                                          *)
LostOnlyByReuse ==
    ~torn => \A c \in Conns :
        Open(c) => (socket[c] \notin clientSockets <=> c \in robbed)

(* Broadcasts m before n in the buffer of c. *)
Before(c, m, n) ==
    \E i, j \in 1..Len(inbox[c]) : i < j /\ inbox[c][i] = m /\ inbox[c][j] = n

(* The notices that are given once at most: a client comes once and leaves *)
(* once; of its chat messages no two are alike when it writes only one.    *)
SaidOnce == {"join", "quit"} \cup (IF MaxSends <= 1 THEN {"chat"} ELSE {})
GivenOnce == {m \in Message : m.kind \in SaidOnce}

(* Everyone sees the notices in the same order, even those that different  *)
(* threads send at about the same time: distributeData holds mut for the   *)
(* whole round (TCPChatServer.cpp:68-75). Said of the notices that can be  *)
(* told apart.                                                             *)
SameOrder ==
    \A c, d \in Conns : \A m, n \in GivenOnce :
        m # n /\ Before(c, m, n) => ~Before(d, n, m)

(* A client that has left is seen to leave: its thread closes, announces   *)
(* and unregisters to the end, unless the process has ended or the map is  *)
(* torn, which a walk may never come through.                              *)
LeaverRetired ==
    \A c \in Conns : pc[c] = "close" ~> (pc[c] = "done" \/ ~alive \/ torn)

(* A thread with something to send gets the mutex and comes to the end of  *)
(* the round, whoever else sends, comes or leaves, as long as the clients  *)
(* read or the process ends (TCPChatServer.cpp:66-77). A client that does  *)
(* not read blocks everyone, and so may a torn map.                        *)
RoundEnds ==
    \A c \in Conns :
        pc[c] = "wait" ~> (pc[c] \in {"read", "retire"} \/ ~alive \/ torn)
=============================================================================
