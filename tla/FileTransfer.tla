---------------------------- MODULE FileTransfer ----------------------------
(***************************************************************************)
(* tcpFileSending: the server sends one file to one client in blocks with  *)
(* sendfile(); the client writes what it receives until the stream ends.   *)
(* The server may be interrupted: exitHandler closes everything, deletes   *)
(* the TCPServer and returns to wherever main was.                         *)
(*                                                                         *)
(* The file's bytes are 1..Size; the stream is in order, so it is given by *)
(* how much was sent and received. The signal is modelled from listen()    *)
(* on, and never inside accept() or the handler itself.                    *)
(***************************************************************************)
EXTENDS Integers, Sequences, Functions

CONSTANTS
    Size,       \* bytes of the file
    Buffer,     \* BUFFER_SIZE
    Window,     \* bytes that the sockets hold between the two
    MaxSignals  \* bound: how often the server is interrupted

ASSUME SizesAssumption ==
    /\ Size \in Nat /\ MaxSignals \in Nat
    /\ Buffer \in Nat \ {0} /\ Window \in Nat \ {0}

VARIABLES
    server,     \* where the server's main is, or how the process ended
    file,       \* its file: open or closed
    tcpServer,  \* the object: live or deleted
    offset,     \* sendfile's offset, and so the bytes sent
    signals,    \* signals delivered
    link,       \* the connection, as the server's kernel has it
    received,   \* bytes the client received
    client,     \* where the client's main is, or how the process ended
    block,      \* bytes in its buffer, sizeRead
    copy        \* what it wrote: which byte of the file at which place

serverVars == <<server, file, tcpServer, offset, signals>>
clientVars == <<received, client, block, copy>>
vars == <<serverVars, link, clientVars>>

ServerUp == server \in {"accept", "send", "close", "finish"}
ClientUp == client \in {"create", "connect", "open", "recv", "write"}

Init ==
    /\ server = "start"
    /\ file = "closed"
    /\ tcpServer = "live"
    /\ offset = 0
    /\ signals = 0
    /\ link = "none"
    /\ received = 0
    /\ client = "create"
    /\ block = 0
    /\ copy = <<>>

(* The end of a process closes what it has open. *)
Hangup == link' = IF link = "none" THEN "refused"
                  ELSE IF link = "queued" THEN "reset"
                  ELSE IF link = "open" THEN "closed"
                  ELSE link

-----------------------------------------------------------------------------
(* The server. *)

OpenFile ==
    /\ server = "start"
    /\ \/ server' = "socket" /\ file' = "open" /\ UNCHANGED link
       \/ server' = "failed" /\ Hangup /\ UNCHANGED file
    /\ UNCHANGED <<tcpServer, offset, signals, clientVars>>

(* socket(), bind(), listen(): an exception of any of them ends the        *)
(* process.                                                                *)
Listen ==
    /\ server = "socket"
    /\ \/ server' = "accept" /\ UNCHANGED link
       \/ server' = "failed" /\ Hangup
    /\ UNCHANGED <<file, tcpServer, offset, signals, clientVars>>

Accept ==
    /\ server = "accept" /\ tcpServer = "live"
    /\ link = "queued"
    /\ link' = "open"
    /\ server' = "send"
    /\ UNCHANGED <<file, tcpServer, offset, signals, clientVars>>

(* accept() may fail, and does when it is restarted after the signal, on a *)
(* closed descriptor: the exception ends the process.                      *)
AcceptFails ==
    /\ server = "accept"
    /\ server' = "failed"
    /\ Hangup
    /\ UNCHANGED <<file, tcpServer, offset, signals, clientVars>>

InFlight == offset - received

(* Mutant of Sendfile: a block that is not full ends the loop. *)
SendfileStops ==
    /\ server = "send" /\ file = "open" /\ link = "open"
    /\ \E n \in 0..Buffer :
         /\ offset + n <= Size
         /\ InFlight + n <= Window
         /\ offset' = offset + n
         /\ server' = IF n < Buffer THEN "close" ELSE server
    /\ UNCHANGED <<file, tcpServer, signals, link, clientVars>>

(* sendfile() sends a block or less and moves the offset; it returns 0 at  *)
(* the end of the file, which ends the loop.                               *)
Sendfile ==
    /\ server = "send" /\ file = "open" /\ link = "open"
    /\ IF offset = Size
       THEN server' = "close" /\ UNCHANGED offset
       ELSE /\ \E n \in 1..Buffer :
                 /\ offset + n <= Size
                 /\ InFlight + n <= Window
                 /\ offset' = offset + n
            /\ UNCHANGED server
    /\ UNCHANGED <<file, tcpServer, signals, link, clientVars>>

(* A descriptor was closed by the signal, the client has gone, or reading  *)
(* failed: the process ends, by SIGPIPE or by exit().                      *)
SendfileFails ==
    /\ server = "send"
    /\ server' = "failed"
    /\ Hangup
    /\ UNCHANGED <<file, tcpServer, offset, signals, clientVars>>

CloseFile ==
    /\ server = "close"
    /\ file' = "closed"
    /\ server' = "finish"
    /\ UNCHANGED <<tcpServer, offset, signals, link, clientVars>>

(* exitHandler(): close the file, delete the object, whose destructor      *)
(* closes all sockets. A second delete is undefined; the process is taken  *)
(* to be aborted.                                                          *)
Handle(next) ==
    /\ file' = "closed"
    /\ Hangup
    /\ tcpServer' = "deleted"
    /\ server' = IF tcpServer = "live" THEN next ELSE "aborted"

Finish ==
    /\ server = "finish"
    /\ Handle("ended")
    /\ UNCHANGED <<offset, signals, clientVars>>

(* The handler returns to main. The bound is MaxSignals. *)
Interrupt ==
    /\ ServerUp
    /\ signals < MaxSignals
    /\ signals' = signals + 1
    /\ Handle(server)
    /\ UNCHANGED <<offset, clientVars>>

-----------------------------------------------------------------------------
(* The client. When fopen() fails fclose() is given a null pointer. *)
Create ==
    /\ client = "create"
    /\ copy' = <<>>
    /\ client' \in {"connect", "failed"}
    /\ UNCHANGED <<serverVars, link, received, block>>

(* connect() needs a listening server; it succeeds before the accept().    *)
Connect ==
    /\ client = "connect"
    /\ \/ /\ server = "accept" /\ link = "none"
          /\ link' = "queued" /\ client' = "open"
       \/ /\ link = "refused" \/ server \in {"start", "socket"}
          /\ client' = "failed" /\ UNCHANGED link
    /\ UNCHANGED <<serverVars, received, block, copy>>

(* open() may fail. *)
OpenCopy ==
    /\ client = "open"
    /\ client' \in {"recv", "failed"}
    /\ UNCHANGED <<serverVars, link, received, block, copy>>

(* recv() returns a part of what is on its way, 0 once the server's end is *)
(* closed and all was read, or an error.                                   *)
Receive ==
    /\ client = "recv"
    /\ \/ \E n \in 1..Buffer :
            /\ n <= InFlight
            /\ received' = received + n
            /\ block' = n
            /\ client' = "write"
       \/ /\ link = "closed" /\ InFlight = 0
          /\ block' = 0
          /\ client' = "write"
          /\ UNCHANGED received
       \/ /\ link = "reset"
          /\ client' = "failed"
          /\ UNCHANGED <<received, block>>
    /\ UNCHANGED <<serverVars, link, copy>>

(* Bytes of the file from one after another. *)
Bytes(from, n) == [i \in 1..n |-> from + i]

(* Mutant of Write: the end of the stream does not end the loop. *)
WriteForEver ==
    /\ client = "write"
    /\ \/ \E k \in 0..block :
            /\ block > 0 => k > 0
            /\ copy' = copy \o Bytes(received - block, k)
            /\ client' = "recv"
       \/ client' = "failed" /\ UNCHANGED copy
    /\ UNCHANGED <<serverVars, link, received, block>>

(* Mutant of Write: a block that is not full ends the loop. *)
WriteStops ==
    /\ client = "write"
    /\ \/ \E k \in 0..block :
            /\ block > 0 => k > 0
            /\ copy' = copy \o Bytes(received - block, k)
            /\ client' = IF block < Buffer THEN "done" ELSE "recv"
       \/ client' = "failed" /\ UNCHANGED copy
    /\ UNCHANGED <<serverVars, link, received, block>>

(* Mutant of Write: the whole buffer is written, whatever was received. *)
WriteBuffer ==
    /\ client = "write"
    /\ \/ /\ copy' = copy \o Bytes(received - block, Buffer)
          /\ client' = IF block = 0 THEN "done" ELSE "recv"
       \/ client' = "failed" /\ UNCHANGED copy
    /\ UNCHANGED <<serverVars, link, received, block>>

(* write() may write less than it is asked to, which the client does not   *)
(* look at, or fail, which ends it. A block of 0 bytes ends the loop.      *)
Write ==
    /\ client = "write"
    /\ \/ \E k \in 0..block :
            /\ block > 0 => k > 0
            /\ copy' = copy \o Bytes(received - block, k)
            /\ client' = IF block = 0 THEN "done" ELSE "recv"
       \/ client' = "failed" /\ UNCHANGED copy
    /\ UNCHANGED <<serverVars, link, received, block>>

-----------------------------------------------------------------------------
ServerStep ==
    \/ OpenFile
    \/ Listen
    \/ Accept
    \/ tcpServer = "deleted" /\ AcceptFails
    \/ Sendfile
    \/ SendfileFails
    \/ CloseFile
    \/ Finish

ClientStep ==
    \/ Create
    \/ Connect
    \/ OpenCopy
    \/ Receive
    \/ Write

(* A server that no client ever reaches waits for ever. *)
AtRest ==
    /\ ~ClientUp
    /\ ~ServerUp \/ server = "accept"
    /\ UNCHANGED vars

Next == ServerStep \/ AcceptFails \/ ClientStep \/ Interrupt \/ AtRest

Spec == Init /\ [][Next]_vars

FairSpec == Spec /\ WF_vars(ServerStep) /\ WF_vars(ClientStep)

-----------------------------------------------------------------------------
(* Every variable has values of its kind; the stream holds at most what    *)
(* the file has and the sockets take (server.cpp:75-85).                   *)
TypeOK ==
    /\ server \in {"start", "socket", "accept", "send", "close", "finish",
                  "ended", "failed", "aborted"}
    /\ file \in {"open", "closed"}
    /\ tcpServer \in {"live", "deleted"}
    /\ offset \in 0..Size
    /\ signals \in 0..MaxSignals
    /\ link \in {"none", "refused", "queued", "reset", "open", "closed"}
    /\ received \in 0..offset
    /\ InFlight <= Window
    /\ client \in {"create", "connect", "open", "recv", "write", "done",
                  "failed"}
    /\ block \in 0..Buffer /\ block <= received
    /\ copy \in Seq(1..Size)

(* Whatever fails, what is written are bytes that were received, each at   *)
(* most once and in the order of the file (client.cpp:68-84).              *)
CopyInOrder ==
    /\ \A i, j \in 1..Len(copy) : i < j => copy[i] < copy[j]
    /\ \A i \in 1..Len(copy) : copy[i] <= received

(* The client does not stop while bytes are on their way or the server can *)
(* still send (client.cpp:84, server.cpp:85).                              *)
NoEarlyEnd == client = "done" => InFlight = 0 /\ link = "closed"

(* When neither program was disturbed and every block was written whole    *)
(* the copy is the file (server.cpp:73-90, client.cpp:66-90). That a       *)
(* write() was short is not noticed: the client still ends in success.     *)
CompleteWhenClean ==
    client = "done" /\ server = "ended" /\ Len(copy) = received =>
        copy = Bytes(0, Size)

(* Once accepted, the transfer ends, on both sides, whatever fails.        *)
TransferEnds == link = "open" ~> ~ServerUp /\ ~ClientUp

(* "Handles interrupt signal" (server.cpp:98): the server comes to an end  *)
(* by its own means.                                                       *)
InterruptHandled == server # "aborted"
=============================================================================
