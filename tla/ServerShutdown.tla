--------------------------- MODULE ServerShutdown ---------------------------
(***************************************************************************)
(* The start and the interrupt of the threaded chat server: main installs  *)
(* a handler for SIGINT, builds the TCPChatServer and runs it; the handler *)
(* calls the destructor while main is in the middle of anything and the    *)
(* threads of the clients go on. The threads are kept to what they share   *)
(* with main: mut, the map of clients and their descriptors. What they do  *)
(* with messages, and sends that fail although nothing was closed, are the *)
(* subject of ChatServer.                                                  *)
(*                                                                         *)
(* The kernel runs the handler in the main thread, where a call that       *)
(* blocks is interrupted and started again. A std::mutex still works after *)
(* its destruction on this platform. Other uses of a destroyed object are  *)
(* undefined: the process crashes, or goes on as if nothing had happened.  *)
(*                                                                         *)
(* No lock keeps the handler's walk, main's insertion and a thread's       *)
(* erasure apart. Once one has met another (torn) the map may have lost    *)
(* any keys, a walk may end too early or never, and the process may crash. *)
(***************************************************************************)
EXTENDS Naturals, FiniteSets

CONSTANTS
    Conns,          \* the connections clients make
    Main, Free,     \* values of mut besides the threads that hold it
    MaxSignals      \* bound: interrupts

ASSUME NamesAssumption == Main \notin Conns /\ Free \notin Conns \cup {Main}
ASSUME SignalsAssumption == MaxSignals \in Nat

StartPoints == {"make", "bind", "listen", "publish"}
MainPoints == StartPoints \cup {"test", "accept", "insert", "linking",
                              "lock", "spawn"}
ThreadPoints == {"unborn", "speak", "sending", "read", "leave", "erase",
                 "quit", "quitting", "retire", "done"}

VARIABLES
    proc,           \* how the process is
    main,           \* where main is
    handler,        \* where the handler is, in the middle of main
    signals,        \* interrupts so far
    isRunning,
    dead,           \* the members that are destroyed
    backlog,        \* connections not yet accepted
    master,         \* the listening descriptor
    fd,             \* the descriptor of each connection
    clientSockets,  \* the connections in the map
    torn,           \* whether a map was used in the middle of a change
    newSocket,      \* what accept() returned last
    mut,
    pc              \* the threads

signalVars == <<handler, signals>>
objectVars == <<isRunning, dead>>
mapVars == <<clientSockets, torn>>
socketVars == <<backlog, master, fd, mapVars>>
vars == <<proc, main, signalVars, objectVars, socketVars, newSocket, mut, pc>>

NoSocket == "none"

Init ==
    /\ proc = "running"
    /\ main = "make"
    /\ handler = "no"
    /\ signals = 0
    /\ isRunning = FALSE
    /\ dead = {}
    /\ backlog = {}
    /\ master = "none"
    /\ fd = [c \in Conns |-> "none"]
    /\ clientSockets = {}
    /\ torn = FALSE
    /\ newSocket = NoSocket
    /\ mut = Free
    /\ pc = [c \in Conns |-> "unborn"]

Running == proc = "running"

(* The outcomes of a step that may use what is destroyed. *)
Uses(undefined) ==
    \/ proc' = proc
    \/ undefined /\ proc' = "crashed"

(* What a change that should leave these keys may leave. *)
Left(keys) == IF torn' THEN SUBSET (clientSockets \cup keys) ELSE {keys}

-----------------------------------------------------------------------------
(* The constructor, and main up to the loop. *)
At(point) == Running /\ handler = "no" /\ main = point

Fails(point) ==
    /\ At(point)
    /\ proc' = "failure"
    /\ UNCHANGED <<main, signalVars, objectVars, socketVars, newSocket, mut, pc>>

MakeSocket ==
    /\ At("make")
    /\ master' = "open"
    /\ main' = "bind"
    /\ UNCHANGED <<proc, signalVars, objectVars, backlog, fd, mapVars,
                   newSocket, mut, pc>>

BindSocket ==
    /\ At("bind")
    /\ main' = "listen"
    /\ UNCHANGED <<proc, signalVars, objectVars, socketVars, newSocket, mut, pc>>

ListenOnSocket ==
    /\ At("listen")
    /\ master' = "listening"
    /\ isRunning' = TRUE
    /\ main' = "publish"
    /\ UNCHANGED <<proc, signalVars, dead, backlog, fd, mapVars,
                   newSocket, mut, pc>>

(* Only now the handler finds the object. *)
Publish ==
    /\ At("publish")
    /\ main' = "test"
    /\ UNCHANGED <<proc, signalVars, objectVars, socketVars, newSocket, mut, pc>>

-----------------------------------------------------------------------------
(* runServer. *)
Test ==
    /\ At("test")
    /\ IF isRunning THEN main' = "accept" /\ UNCHANGED proc
       ELSE proc' = "success" /\ UNCHANGED main
    /\ UNCHANGED <<signalVars, objectVars, socketVars, newSocket, mut, pc>>

Accept(c) ==
    /\ At("accept") /\ master = "listening" /\ c \in backlog
    /\ backlog' = backlog \ {c}
    /\ fd' = [fd EXCEPT ![c] = "open"]
    /\ newSocket' = c
    /\ main' = "insert"
    /\ UNCHANGED <<proc, signalVars, objectVars, master, mapVars, mut, pc>>

(* accept() fails on a closed descriptor, and for reasons of its own; main *)
(* goes on unless the server was stopped. The text of the exception may    *)
(* not fit its buffer.                                                     *)
AcceptFails ==
    /\ At("accept")
    /\ \/ isRunning /\ main' = "test" /\ UNCHANGED proc
       \/ ~isRunning /\ proc' = "success" /\ UNCHANGED main
       \/ proc' = "crashed" /\ UNCHANGED main
    /\ UNCHANGED <<signalVars, objectVars, socketVars, newSocket, mut, pc>>

InsertBegin ==
    /\ At("insert")
    /\ main' = "linking"
    /\ UNCHANGED <<proc, signalVars, objectVars, socketVars, newSocket, mut, pc>>

InsertEnd ==
    /\ At("linking")
    /\ UNCHANGED torn
    /\ clientSockets' \in Left(clientSockets \cup {newSocket})
    /\ main' = "lock"
    /\ Uses("sockets" \in dead)
    /\ UNCHANGED <<signalVars, objectVars, backlog, master, fd, newSocket, mut,
                   pc>>

Lock ==
    /\ At("lock") /\ mut = Free
    /\ mut' = Main
    /\ main' = "spawn"
    /\ UNCHANGED <<proc, signalVars, objectVars, socketVars, newSocket, pc>>

Spawn ==
    /\ At("spawn")
    /\ pc' = [pc EXCEPT ![newSocket] = "speak"]
    /\ mut' = Free
    /\ main' = "test"
    /\ Uses("threads" \in dead)
    /\ UNCHANGED <<signalVars, objectVars, socketVars, newSocket>>

-----------------------------------------------------------------------------
(* The handler. *)
Interrupt ==
    /\ Running /\ handler = "no"
    /\ signals < MaxSignals
    /\ signals' = signals + 1
    /\ handler' = "enter"
    /\ UNCHANGED <<proc, main, objectVars, socketVars, newSocket, mut, pc>>

(* Who may be in the middle of the map of threads. *)
Threading == main = "spawn" \/ \E c \in Conns : pc[c] = "retire" /\ mut = Free

(* Mutant of Enter: the flag is left as it is. *)
EnterUnset ==
    /\ Running /\ handler = "enter"
    /\ IF main \in StartPoints THEN proc' = "crashed" ELSE Uses(dead # {})
    /\ dead' = dead \cup {"threads"}
    /\ torn' \in {torn \/ main = "linking", torn \/ main = "linking" \/ Threading}
    /\ handler' = "clients"
    /\ UNCHANGED <<main, signals, isRunning, backlog, master, fd, clientSockets,
                   newSocket, mut, pc>>

(* The body of ~TCPChatServer, then the end of its members. Before the     *)
(* pointer is set the handler writes through a null pointer; a second time *)
(* it destroys what is destroyed.                                          *)
Enter ==
    /\ Running /\ handler = "enter"
    /\ IF main \in StartPoints THEN proc' = "crashed" ELSE Uses(dead # {})
    /\ isRunning' = FALSE
    /\ dead' = dead \cup {"threads"}
    /\ torn' \in {torn \/ main = "linking", torn \/ main = "linking" \/ Threading}
    /\ handler' = "clients"
    /\ UNCHANGED <<main, signals, backlog, master, fd, clientSockets, newSocket,
                   mut, pc>>

(* closeAllSockets in ~TCPServer: the clients one after another. *)
CloseClient(c) ==
    /\ Running /\ handler = "clients"
    /\ c \in clientSockets /\ fd[c] = "open"
    /\ fd' = [fd EXCEPT ![c] = "closed"]
    /\ UNCHANGED <<proc, main, signalVars, objectVars, backlog, master,
                   mapVars, newSocket, mut, pc>>

(* Mutant of CloseMaster: the first socket is taken for the only one. *)
CloseMasterEarly ==
    /\ Running /\ handler = "clients"
    /\ torn \/ \E c \in clientSockets : fd[c] = "closed"
    /\ master' = "closed"
    /\ dead' = dead \cup {"sockets"}
    /\ handler' = "no"
    /\ UNCHANGED <<proc, main, signals, isRunning, backlog, fd, mapVars,
                   newSocket, mut, pc>>

(* Mutant of CloseMaster: the sockets of the server are left open. *)
CloseNoMaster ==
    /\ Running /\ handler = "clients"
    /\ torn \/ \A c \in clientSockets : fd[c] # "open"
    /\ dead' = dead \cup {"sockets"}
    /\ handler' = "no"
    /\ UNCHANGED <<proc, main, signals, isRunning, socketVars, newSocket, mut,
                   pc>>

CloseMaster ==
    /\ Running /\ handler = "clients"
    /\ torn \/ \A c \in clientSockets : fd[c] # "open"
    /\ master' = "closed"
    /\ dead' = dead \cup {"sockets"}
    /\ handler' = "no"
    /\ UNCHANGED <<proc, main, signals, isRunning, backlog, fd, mapVars,
                   newSocket, mut, pc>>

-----------------------------------------------------------------------------
(* The clients, and the threads that serve them. *)
Connect(c) ==
    /\ Running /\ master = "listening"
    /\ fd[c] = "none"
    /\ backlog' = backlog \cup {c}
    /\ UNCHANGED <<proc, main, signalVars, objectVars, master, fd,
                   mapVars, newSocket, mut, pc>>

In(c, point) == Running /\ pc[c] = point
Goto(c, point) == pc' = [pc EXCEPT ![c] = point]

Take(c, from, to) ==
    /\ In(c, from) /\ mut = Free
    /\ mut' = c
    /\ Goto(c, to)
    /\ UNCHANGED <<proc, main, signalVars, objectVars, socketVars, newSocket>>

(* distributeData: a notice or a line, and after the end the quit notice. *)
Speak(c) == Take(c, "speak", "sending")
Quit(c) == Take(c, "quit", "quitting")

(* Mutant of Sent: mut is not released. *)
SentLocked(c) ==
    /\ pc[c] \in {"sending", "quitting"} /\ Running
    /\ \A d \in clientSockets : fd[d] = "open"
    /\ Goto(c, IF pc[c] = "sending" THEN "read" ELSE "retire")
    /\ UNCHANGED <<proc, main, signalVars, objectVars, socketVars, newSocket,
                   mut>>

(* The end of the sends, which may block for ever. A descriptor that was   *)
(* closed before its turn makes one fail, and nobody catches the exception.*)
Sent(c) ==
    /\ Running /\ pc[c] \in {"sending", "quitting"}
    /\ Uses("sockets" \in dead \/ \E d \in clientSockets : fd[d] = "closed")
    /\ mut' = Free
    /\ Goto(c, IF pc[c] = "sending" THEN "read" ELSE "retire")
    /\ UNCHANGED <<main, signalVars, objectVars, socketVars, newSocket>>

(* read() returns a line, or the client has left; a call that blocks does  *)
(* not notice that the descriptor was closed, a later one does.            *)
Read(c) ==
    /\ In(c, "read")
    /\ \/ Goto(c, "speak")
       \/ Goto(c, "leave")
    /\ UNCHANGED <<proc, main, signalVars, objectVars, socketVars, newSocket,
                   mut>>

(* closeSocket: an exception that nobody catches if the handler was first. *)
Leave(c) ==
    /\ In(c, "leave") /\ mut = Free
    /\ IF fd[c] = "closed"
       THEN proc' = "crashed" /\ UNCHANGED fd
       ELSE fd' = [fd EXCEPT ![c] = "closed"] /\ UNCHANGED proc
    /\ mut' = c
    /\ Goto(c, "erase")
    /\ UNCHANGED <<main, signalVars, objectVars, backlog, master,
                   mapVars, newSocket>>

(* The handler may be going through the map at this moment, and main may   *)
(* be in the middle of its insertion.                                      *)
Erase(c) ==
    /\ In(c, "erase")
    /\ torn' = (torn \/ handler = "clients" \/ main = "linking")
    /\ clientSockets' \in Left(clientSockets \ {c})
    /\ mut' = Free
    /\ Goto(c, "quit")
    /\ Uses("sockets" \in dead)
    /\ UNCHANGED <<main, signalVars, objectVars, backlog, master, fd, newSocket>>

Retire(c) ==
    /\ In(c, "retire") /\ mut = Free
    /\ Goto(c, "done")
    /\ Uses("threads" \in dead)
    /\ UNCHANGED <<main, signalVars, objectVars, socketVars, newSocket, mut>>

(* Whoever uses the broken map may crash. *)
TornCrash ==
    /\ Running /\ torn
    /\ proc' = "crashed"
    /\ UNCHANGED <<main, signalVars, objectVars, socketVars, newSocket, mut, pc>>

-----------------------------------------------------------------------------
MainStep ==
    \/ MakeSocket \/ BindSocket \/ ListenOnSocket \/ Publish
    \/ \E point \in StartPoints \ {"publish"} : Fails(point)
    \/ Test \/ AcceptFails \/ InsertBegin \/ InsertEnd \/ Lock \/ Spawn
    \/ \E c \in Conns : Accept(c)

HandlerStep == Enter \/ CloseMaster \/ \E c \in Conns : CloseClient(c)

ThreadStep(c) ==
    \/ Speak(c) \/ Quit(c) \/ Sent(c) \/ Read(c)
    \/ Leave(c) \/ Erase(c) \/ Retire(c)

Next ==
    \/ MainStep \/ HandlerStep \/ Interrupt \/ TornCrash
    \/ \E c \in Conns : Connect(c) \/ ThreadStep(c)

Spec == Init /\ [][Next]_vars

(* Main and the handler are scheduled. accept() on the closed descriptor   *)
(* returns; of the threads nothing is assumed, for a send may block. In a  *)
(* broken map a walk or an insertion need not come to its end.             *)
FairSpec ==
    /\ Spec
    /\ WF_vars(~torn /\ MainStep)
    /\ WF_vars(~torn /\ HandlerStep)

-----------------------------------------------------------------------------
(* Every variable has values of its kind; mut is held by the one thread    *)
(* that is inside, and nobody else is.                                     *)
TypeOK ==
    /\ proc \in {"running", "success", "failure", "crashed"}
    /\ main \in MainPoints
    /\ handler \in {"no", "enter", "clients"}
    /\ signals \in 0..MaxSignals
    /\ isRunning \in BOOLEAN
    /\ dead \subseteq {"threads", "sockets"}
    /\ backlog \subseteq Conns
    /\ master \in {"none", "open", "listening", "closed"}
    /\ fd \in [Conns -> {"none", "open", "closed"}]
    /\ clientSockets \subseteq Conns
    /\ torn \in BOOLEAN
    /\ newSocket \in Conns \cup {NoSocket}
    /\ mut \in Conns \cup {Main, Free}
    /\ pc \in [Conns -> ThreadPoints]
    /\ mut = Main <=> main = "spawn"
    /\ \A c \in Conns : mut = c <=> pc[c] \in {"sending", "quitting", "erase"}

(* Once the handler is through nobody is accepted any more, although main  *)
(* may still go through its loop and threads still run                     *)
(* (TCPChatServer.cpp:40-51, TCPServer.cpp:161-182).                       *)
NoneAcceptedAfter ==
    [][\A c \in Conns :
        fd[c] = "none" /\ fd'[c] = "open" => "sockets" \notin dead]_vars

(* A process that ends in order after an interrupt leaves at most one      *)
(* connection open: the one main had accepted when the signal came and the *)
(* map did not hold yet. That is all, unless the handler's walk met a      *)
(* thread that erased its key, or main in the middle of its insertion      *)
(* (TCPServer.cpp:85-93, 145-152, 163-168).                                *)
OneLeftOpen ==
    proc = "success" /\ ~torn => \A c \in Conns : fd[c] = "open" => c = newSocket

(* An interrupt ends the process, in one way or another, unless a map was  *)
(* broken by two who used it at once; it lives on only when main has just  *)
(* accepted a client and waits for mut, which is a thread's whenever main  *)
(* could take it: that thread is inside a send, or its client keeps it     *)
(* busy (server.cpp:33-36, TCPChatServer.cpp:47-55, TCPServer.cpp:92, 151).*)
InterruptEnds ==
    [](signals > 0 =>
        <>(\/ proc # "running"
           \/ torn
           \/ [](main = "lock") /\ []<>(mut \in Conns)))
=============================================================================
