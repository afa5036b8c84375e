---------------------------- MODULE ChatServerInv ----------------------------
(***************************************************************************)
(* The inductive invariant of ChatServer, in named parts: what has to be   *)
(* known of the mutex, of the descriptors and of the thread about to be    *)
(* started for the safety properties of ChatServer to be preserved by      *)
(* every step.                                                             *)
(***************************************************************************)
EXTENDS ChatServer

(* A thread in one of its critical sections holds mut, and so does main,   *)
(* and nobody holds it anywhere else.                                      *)
MutexInv ==
    /\ \A c \in Conns : pc[c] \in {"send", "shut", "erase"} => mut = c
    /\ main \in {"spawn", "record"} => mut = Main
    /\ HolderInside

(* A thread's message is its quit notice from the time it has closed.      *)
OutInv == \A c \in Conns :
    /\ pc[c] \in {"unborn", "read", "pong", "close", "shut", "erase"} =>
         out[c] # "quit"
    /\ pc[c] \in {"retire", "done"} => out[c] = "quit"

(* The accepted connection whose thread does not run yet. *)
Pending(c) ==
    /\ main \in {"insert", "linking", "lock", "spawn"}
    /\ clientSocket \in Fds
    /\ fdTable[clientSocket] = c
    /\ pc[c] = "unborn"

(* Where a connection may be: not made, waiting, accepted, or served.      *)
ConnInv ==
    /\ \A c \in Conns : pc[c] # "unborn" => link[c] # "new"
    /\ \A c \in backlog : pc[c] = "unborn" /\ link[c] # "new"
    /\ \A f \in Fds : \A c \in Conns : fdTable[f] = c =>
         /\ c \notin backlog
         /\ link[c] # "new"
         /\ \/ Open(c) /\ socket[c] = f
            \/ Pending(c) /\ clientSocket = f

(* The main thread's connection, from accept() to the record of its thread. *)
MainInv ==
    /\ main \in {"insert", "linking", "lock", "spawn"} =>
         \E c \in Conns : Pending(c)
    /\ main = "record" =>
         /\ clientSocket \in Fds
         /\ fdTable[clientSocket] \in Conns
         /\ pc[fdTable[clientSocket]] = "wait"
         /\ out[fdTable[clientSocket]] = "join"

OwnSocketInv == \A c \in Conns :
    /\ Open(c) => socket[c] \in Fds /\ fdTable[socket[c]] = c
    /\ pc[c] = "erase" => socket[c] \in Fds

(* RegistrySound, said without mut. *)
RegistryInv ==
    ~torn =>
      /\ \A f \in clientSockets : fdTable[f] = NoConn =>
           \E c \in Conns : pc[c] = "erase" /\ socket[c] = f
      /\ \A c \in Conns : pc[c] = "send" /\ cursor[c] \in Fds =>
           fdTable[cursor[c]] # NoConn

(* ThreadsExact, with the thread that is not recorded yet. *)
ThreadsInv ==
    threads = {c \in Conns : pc[c] \notin {"unborn", "done"}}
              \ (IF main = "record" THEN {fdTable[clientSocket]} ELSE {})

(* LostOnlyByReuse, said also of the connection whose thread is about to   *)
(* be started; a connection that has no descriptor yet is not robbed.      *)
Starting(c) == main \in {"lock", "spawn"} /\ fdTable[clientSocket] = c

LostInv ==
    ~torn =>
      /\ LostOnlyByReuse
      /\ main \in {"lock", "spawn"} =>
           (clientSocket \notin clientSockets <=> fdTable[clientSocket] \in robbed)
      /\ \A c \in robbed : pc[c] # "unborn" \/ Starting(c)

(* The first round with this notice of the client is still to come.        *)
ToBeSaid(c, kind) ==
    \/ kind = "join" /\ (pc[c] = "unborn" \/ (pc[c] = "wait" /\ out[c] = "join"))
    \/ kind = "quit" /\ (out[c] # "quit" \/ pc[c] = "wait")
    \/ kind = "chat" /\ (\/ sends[c] = 0
                         \/ wire[c] # <<>>
                         \/ pc[c] = "wait" /\ out[c] = "chat")

(* A client that writes once has nothing on its way when that was read.    *)
WritesInv ==
    \A c \in Conns :
        /\ Len(wire[c]) <= sends[c] /\ sends[c] <= MaxSends
        /\ MaxSends <= 1 /\ out[c] = "chat" => sends[c] = 1 /\ wire[c] = <<>>

Buffered(c, m) == \E k \in 1..Len(inbox[c]) : inbox[c][k] = m
Saying(m) == pc[m.from] = "send" /\ out[m.from] = m.kind

(* What is in a buffer was said; what is being said is the last in every   *)
(* buffer, but for answers to pings.                                       *)
OrderInv ==
    /\ \A c \in Conns : \A m \in GivenOnce :
           Buffered(c, m) => ~ToBeSaid(m.from, m.kind)
    /\ \A c \in Conns : \A m, n \in GivenOnce :
           m # n /\ Saying(m) => ~Before(c, m, n)
    /\ SameOrder

(* The inductive invariant (the whole of it is about the mutex discipline  *)
(* of TCPChatServer.cpp:55-58, 68-75, 144-146 and 155-157 and the order of *)
(* close() and erase() in TCPServer.cpp:139-151).                          *)
IndInv ==
    /\ TypeOK
    /\ MutexInv
    /\ OutInv
    /\ ConnInv
    /\ MainInv
    /\ OwnSocketInv
    /\ RegistryInv
    /\ ThreadsInv
    /\ LostInv
    /\ WritesInv
    /\ OrderInv
=============================================================================
