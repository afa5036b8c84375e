----------------------------- MODULE SelectChat -----------------------------
(***************************************************************************)
(* The chat server around select() and its client. One loop serves all:    *)
(* it waits until something can be read, accepts at most one client and    *)
(* reads its name, then reads once from every client that was ready and    *)
(* sends the line back to the client it came from. Nobody is ever removed. *)
(*                                                                         *)
(* A client sends fixed blocks: 32 bytes of name, of which the server      *)
(* reads 22, and 2048 bytes for each line. Sizes are scaled down: a stream *)
(* is a sequence of pieces, and of a piece only matters whether it ends a  *)
(* string. A line fills as many pieces as the server's buffer has, with    *)
(* one that ends it; what follows the end was never initialised. A read    *)
(* takes any number of pieces and leaves the rest of the buffer as it was. *)
(*                                                                         *)
(* The client never reads, so echoes fill the connection. A client may be  *)
(* killed at any time. The descriptors the server holds are all valid, and *)
(* it has no signal handler, so select() does not fail. accept() does not  *)
(* fail either.                                                            *)
(***************************************************************************)
EXTENDS Naturals, Sequences, SequencesExt

CONSTANTS
    Clients,
    None,       \* no client has written the buffer yet
    Size,       \* pieces of a line, and of the server's buffer
    StreamCap,  \* pieces a connection holds before the client blocks
    EchoCap     \* echoes a connection holds before the server blocks

Pieces == {"text", "nul"}
Lines == { line \in [1..Size -> Pieces] : \E i \in 1..Size : line[i] = "nul" }

Buffers == [1..Size -> [from : Clients \cup {None}, piece : Pieces]]

ASSUME NoneAssumption == None \notin Clients
ASSUME CapsAssumption ==
    /\ Size \in Nat \ {0}
    /\ StreamCap \in Nat /\ StreamCap > Size /\ EchoCap \in Nat \ {0}

VARIABLES
    (* the clients and the kernel *)
    sending,    \* what each client sends next
    link,       \* how far each connection has gone
    stream,     \* pieces sent and not yet read
    echoes,     \* echoes sent to each client
    backlog,    \* connections not yet accepted
    (* the server *)
    clientSockets,  \* the list, in the order of accepting
    readfds,    \* the clients select() reported
    message,    \* the buffer: each piece, and who wrote it
    pc, at      \* where the loop is, and the place of its iterator

clientVars == <<sending, link, stream, echoes, backlog>>
serverVars == <<clientSockets, readfds, message, pc, at>>
vars == <<clientVars, serverVars>>

Init ==
    /\ sending = [c \in Clients |-> "name"]
    /\ link = [c \in Clients |-> "new"]
    /\ stream = [c \in Clients |-> <<>>]
    /\ echoes = [c \in Clients |-> 0]
    /\ backlog = <<>>
    /\ clientSockets = <<>>
    /\ readfds = {}
    /\ message \in [1..Size -> [from : {None}, piece : Pieces]]
    /\ pc = "select"
    /\ at = 1

-----------------------------------------------------------------------------
(* The clients. *)
Connect(c) ==
    /\ link[c] = "new"
    /\ link' = [link EXCEPT ![c] = "up"]
    /\ backlog' = Append(backlog, c)
    /\ UNCHANGED <<sending, stream, echoes, serverVars>>

Put(c, pieces) ==
    /\ link[c] = "up"
    /\ Len(stream[c]) + Len(pieces) <= StreamCap
    /\ stream' = [stream EXCEPT ![c] = @ \o pieces]

SendName(c) ==
    /\ sending[c] = "name"
    /\ \E tail \in Pieces : Put(c, <<"text", tail>>)
    /\ sending' = [sending EXCEPT ![c] = "line"]
    /\ UNCHANGED <<link, echoes, backlog, serverVars>>

(* A line, which may be empty. *)
SendLine(c) ==
    /\ sending[c] = "line"
    /\ \E line \in Lines : Put(c, line)
    /\ UNCHANGED <<sending, link, echoes, backlog, serverVars>>

(* With echoes unread the connection is reset, otherwise it is finished.   *)
Killed(c) ==
    /\ link[c] = "up"
    /\ link' = [link EXCEPT ![c] = IF echoes[c] = 0 THEN "fin" ELSE "reset"]
    /\ UNCHANGED <<sending, stream, echoes, backlog, serverVars>>

-----------------------------------------------------------------------------
(* The server. *)
Left(c) == link[c] \in {"fin", "reset", "gone"}
Readable(c) == stream[c] # <<>> \/ Left(c)
Turn == clientSockets[at]
InList == at <= Len(clientSockets)

(* Mutant of Select: the set is not cleared before it is filled again. *)
SelectKeeps ==
    /\ pc = "select"
    /\ \/ backlog # <<>>
       \/ \E c \in ToSet(clientSockets) : Readable(c)
    /\ readfds' = readfds \cup { c \in ToSet(clientSockets) : Readable(c) }
    /\ pc' = IF backlog # <<>> THEN "accept" ELSE "read"
    /\ at' = 1
    /\ UNCHANGED <<clientVars, clientSockets, message>>

(* Mutant of Select: a new client waits until nobody has anything to say. *)
SelectClientsFirst ==
    /\ pc = "select"
    /\ \/ backlog # <<>>
       \/ \E c \in ToSet(clientSockets) : Readable(c)
    /\ readfds' = { c \in ToSet(clientSockets) : Readable(c) }
    /\ pc' = IF backlog # <<>> /\ readfds' = {} THEN "accept" ELSE "read"
    /\ at' = 1
    /\ UNCHANGED <<clientVars, clientSockets, message>>

Select ==
    /\ pc = "select"
    /\ \/ backlog # <<>>
       \/ \E c \in ToSet(clientSockets) : Readable(c)
    /\ readfds' = { c \in ToSet(clientSockets) : Readable(c) }
    /\ pc' = IF backlog # <<>> THEN "accept" ELSE "read"
    /\ at' = 1
    /\ UNCHANGED <<clientVars, clientSockets, message>>

Accept ==
    /\ pc = "accept"
    /\ clientSockets' = Append(clientSockets, Head(backlog))
    /\ backlog' = Tail(backlog)
    /\ pc' = "name"
    /\ at' = Len(clientSockets) + 1
    /\ UNCHANGED <<sending, link, stream, echoes, readfds, message>>

(* What read() does when nothing is left to read: it blocks while the      *)
(* client is there, fails once after a reset, and returns 0 from then on.  *)
EndOfStream(c) ==
    /\ stream[c] = <<>>
    /\ link[c] \in {"fin", "gone"}

Failure(c) ==
    /\ stream[c] = <<>>
    /\ link[c] = "reset"
    /\ link' = [link EXCEPT ![c] = "gone"]

(* One read() of the name, which holds up everybody; its result is not     *)
(* looked at.                                                              *)
ReadName ==
    /\ pc = "name"
    /\ \/ /\ stream[Turn] # <<>>
          /\ stream' = [stream EXCEPT ![Turn] = Tail(@)]
          /\ UNCHANGED link
       \/ EndOfStream(Turn) /\ UNCHANGED <<stream, link>>
       \/ Failure(Turn) /\ UNCHANGED stream
    /\ pc' = "read"
    /\ at' = 1
    /\ UNCHANGED <<sending, echoes, backlog, clientSockets, readfds, message>>

Reading(c) == pc = "read" /\ InList /\ Turn = c /\ c \in readfds

Pass ==
    /\ pc = "read" /\ InList /\ Turn \notin readfds
    /\ at' = at + 1
    /\ UNCHANGED <<clientVars, clientSockets, readfds, message, pc>>

(* strlen() and send() go on until a piece ends the string; when none does *)
(* they also take what lies behind the buffer.                             *)
Shown == { i \in 1..Size : \A j \in 1..i : message[j].piece = "text" }

Overwritten(c, k) ==
    [i \in 1..Size |-> IF i <= k THEN [from |-> c, piece |-> stream[c][i]]
                       ELSE message[i]]

AfterRead == IF message'[1].piece = "nul" THEN "read" ELSE "send"

(* Mutant of ReadLine: an empty line does not reach the buffer. *)
ReadLineSkips(c) ==
    /\ Reading(c)
    /\ \E k \in 1..Size :
         /\ k <= Len(stream[c])
         /\ stream' = [stream EXCEPT ![c] = SubSeq(@, k + 1, Len(@))]
         /\ message' = IF Head(stream[c]) = "nul" THEN message
                       ELSE Overwritten(c, k)
    /\ pc' = AfterRead
    /\ UNCHANGED <<sending, link, echoes, backlog, clientSockets, readfds, at>>

(* Mutant of ReadLine: the last piece is lost. *)
ReadLineShort(c) ==
    /\ Reading(c)
    /\ \E k \in 1..Size :
         /\ k <= Len(stream[c])
         /\ stream' = [stream EXCEPT ![c] = SubSeq(@, k + 1, Len(@))]
         /\ message' = Overwritten(c, k - 1)
    /\ pc' = AfterRead
    /\ UNCHANGED <<sending, link, echoes, backlog, clientSockets, readfds, at>>

(* An empty line does not move the iterator: the same client is read again *)
(* without asking select().                                                *)
ReadLine(c) ==
    /\ Reading(c)
    /\ \E k \in 1..Size :
         /\ k <= Len(stream[c])
         /\ stream' = [stream EXCEPT ![c] = SubSeq(@, k + 1, Len(@))]
         /\ message' = Overwritten(c, k)
    /\ pc' = AfterRead
    /\ UNCHANGED <<sending, link, echoes, backlog, clientSockets, readfds, at>>

(* read() returns 0 and leaves in the buffer what the last client wrote.   *)
(* If that is an empty line, the loop turns without an end.                *)
ReadNothing(c) ==
    /\ Reading(c)
    /\ EndOfStream(c)
    /\ UNCHANGED <<clientVars, clientSockets, readfds, message, at>>
    /\ pc' = AfterRead

ReadFails(c) ==
    /\ Reading(c)
    /\ Failure(c)
    /\ at' = at + 1
    /\ UNCHANGED <<sending, stream, echoes, backlog, clientSockets, readfds,
                   message, pc>>

(* Mutant of Echo: the iterator stays where it is. *)
EchoStays(c) ==
    /\ pc = "send" /\ Turn = c
    /\ link[c] = "up" /\ echoes[c] < EchoCap
    /\ echoes' = [echoes EXCEPT ![c] = @ + 1]
    /\ pc' = "read"
    /\ UNCHANGED <<sending, link, stream, backlog, clientSockets, readfds,
                   message, at>>

(* send() blocks while the connection is full. *)
Echo(c) ==
    /\ pc = "send" /\ Turn = c
    /\ link[c] = "up" /\ echoes[c] < EchoCap
    /\ echoes' = [echoes EXCEPT ![c] = @ + 1]
    /\ pc' = "read" /\ at' = at + 1
    /\ UNCHANGED <<sending, link, stream, backlog, clientSockets, readfds,
                   message>>

(* After an orderly end the data is answered with a reset, which may come  *)
(* at once or late; a reset makes send() fail, and its result is not       *)
(* looked at.                                                              *)
EchoUnread(c) ==
    /\ pc = "send" /\ Turn = c
    /\ \/ link[c] = "fin" /\ UNCHANGED link
       \/ /\ link[c] \in {"fin", "reset"}
          /\ link' = [link EXCEPT ![c] = "gone"]
    /\ pc' = "read" /\ at' = at + 1
    /\ UNCHANGED <<sending, stream, echoes, backlog, clientSockets, readfds,
                   message>>

(* SIGPIPE ends the server. *)
EchoKills(c) ==
    /\ pc = "send" /\ Turn = c
    /\ link[c] = "gone"
    /\ pc' = "killed"
    /\ UNCHANGED <<clientVars, clientSockets, readfds, message, at>>

EndRound ==
    /\ pc = "read" /\ ~InList
    /\ pc' = "select"
    /\ UNCHANGED <<clientVars, clientSockets, readfds, message, at>>

-----------------------------------------------------------------------------
ClientStep(c) == Connect(c) \/ SendName(c) \/ SendLine(c) \/ Killed(c)

ServerStep ==
    \/ Select \/ Accept \/ ReadName \/ Pass \/ EndRound
    \/ \E c \in Clients :
        \/ ReadLine(c) \/ ReadNothing(c) \/ ReadFails(c)
        \/ Echo(c) \/ EchoUnread(c) \/ EchoKills(c)

Next == ServerStep \/ \E c \in Clients : ClientStep(c)

Spec == Init /\ [][Next]_vars

(* The server is scheduled. Nothing is assumed of the people who type.     *)
FairSpec == Spec /\ WF_vars(ServerStep)

-----------------------------------------------------------------------------
(* Every variable has values of its kind; each connection is new, waiting  *)
(* or in the list, and in one place only.                                  *)
TypeOK ==
    /\ sending \in [Clients -> {"name", "line"}]
    /\ link \in [Clients -> {"new", "up", "fin", "reset", "gone"}]
    /\ stream \in [Clients -> Seq(Pieces)]
    /\ \A c \in Clients : Len(stream[c]) <= StreamCap
    /\ echoes \in [Clients -> 0..EchoCap]
    /\ backlog \in Seq(Clients)
    /\ clientSockets \in Seq(Clients)
    /\ IsInjective(backlog \o clientSockets)
    /\ readfds \subseteq ToSet(clientSockets)
    /\ message \in Buffers
    /\ pc \in {"select", "accept", "name", "read", "send", "killed"}
    /\ at \in 1..(Len(clientSockets) + 1)
    /\ pc \in {"name", "send", "killed"} => InList
    /\ pc = "accept" => backlog # <<>>

(* What is sent to a client that is there starts with bytes of its own:    *)
(* the line another client left at the start of the buffer goes only to    *)
(* one that has left (server.cpp:135-148).                                 *)
StaleOnlyToLeavers ==
    pc = "send" => message[1].from = Turn \/ Left(Turn)

(* What a read of c brought, of which the loop does not ask how much.      *)
Brought(c) == 1..(Len(stream[c]) - Len(stream'[c]))

(* A client that is there is sent bytes of another one behind its own only *)
(* when the read brought no end of a string; a line that was read to its   *)
(* end is sent back as it came (server.cpp:135, 148).                      *)
StaleOnlyBehindUnended ==
    [][\A c \in Clients : Reading(c) /\ pc' = "send" /\ ~EndOfStream(c) =>
          \/ \A i \in Brought(c) : stream[c][i] = "text"
          \/ \A i \in Shown' : message'[i] = [from |-> c, piece |-> stream[c][i]]]_vars

(* A read of a client that is there and silent, which holds up everybody,  *)
(* comes only after an empty line of that client, or a tail of its name    *)
(* that begins like one: what select() reported is still true when its     *)
(* turn comes (server.cpp:102, 133-142).                                   *)
BlocksOnlyAfterEmpty ==
    \A c \in Clients :
        Reading(c) /\ ~Readable(c) => message[1] = [from |-> c, piece |-> "nul"]

(* The only ways in which one client stops the server: it has not sent its *)
(* name; it has sent an empty line and then nothing, or only more of them, *)
(* or has left when the buffer begins like one; it does not read echoes.   *)
Held(c) ==
    \/ pc = "name" /\ Turn = c /\ ~Readable(c)
    \/ Reading(c) /\ message[1].piece = "nul"
    \/ pc = "send" /\ Turn = c /\ link[c] = "up" /\ echoes[c] = EchoCap

(* The server comes back to select() again and again, or is killed, or one *)
(* client holds it for ever in one of these ways (server.cpp:76-153).      *)
HeldByOne ==
    \/ []<>(pc = "select")
    \/ <>(pc = "killed")
    \/ \E c \in Clients : <>[]Held(c)

(* As long as the server comes back to select(), everybody who connects is *)
(* accepted, however much the others write (server.cpp:110-125).           *)
RoundsAccept ==
    \A c \in Clients :
        []<>(pc = "select") /\ []<>(pc # "select")
            => (link[c] # "new" ~> c \in ToSet(clientSockets))
=============================================================================
