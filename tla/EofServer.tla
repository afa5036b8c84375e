------------------------------ MODULE EofServer ------------------------------
(***************************************************************************)
(* The C# server, which serves one connection after another: it receives   *)
(* until the text holds the marker "<EOF>", answers and closes. Two        *)
(* programs talk to it: the client, whose text ends with the marker and    *)
(* which waits for the answer, and MessagePacket.SendPacket, which sends   *)
(* what it was given and closes at once. The project Sockets is the same   *)
(* server and client in another namespace.                                 *)
(*                                                                         *)
(* Of a text only its length and the place where the marker is complete    *)
(* matter; the text received so far is a prefix of what was sent. Each     *)
(* Receive returns any number of the bytes that are there. A text is       *)
(* smaller than the buffers of a connection, so Send does not block.       *)
(* Connections the server has not accepted wait in the queue of Listen,    *)
(* which has an end: behind a server that is busy a Connect is refused,    *)
(* or gives up.                                                            *)
(***************************************************************************)
EXTENDS Naturals, Sequences, SequencesExt

CONSTANTS
    Clients,
    NoClient,
    Packets,    \* texts of SendPacket: length, and end of the marker or 0
    Hello,      \* the length of the text of the client
    MarkLen,    \* the length of the marker
    QueueLen    \* how many connections wait for Listen(10)

Texts == [len : Nat, mark : Nat]
HelloText == [len |-> Hello, mark |-> Hello]

ASSUME ClientAssumption == NoClient \notin Clients
ASSUME TextAssumption ==
    /\ MarkLen \in Nat \ {0} /\ Hello \in Nat /\ Hello >= MarkLen
    /\ Packets \subseteq Texts
    /\ \A t \in Packets : t.mark <= t.len
ASSUME QueueAssumption == QueueLen \in Nat \ {0}

VARIABLES
    (* the programs that talk to the server *)
    text,       \* what each will send
    step,       \* where each is
    got,        \* what the client received
    (* the connections *)
    backlog,    \* not yet accepted
    link,       \* how far the client has closed each
    closed,     \* how the server has closed each
    sent, taken,    \* bytes sent to the server, and received by it
    inbox,      \* whether the answer is waiting
    (* the server *)
    pc, current,
    marked      \* whether data holds the marker

clientVars == <<text, step, got>>
connVars == <<backlog, link, closed, sent, taken, inbox>>
serverVars == <<pc, current, marked>>
vars == <<clientVars, connVars, serverVars>>

IsClient(c) == text[c] = HelloText

Init ==
    /\ text \in [Clients -> Packets \cup {HelloText}]
    /\ step = [c \in Clients |-> "connect"]
    /\ got = [c \in Clients |-> "nothing"]
    /\ backlog = <<>>
    /\ link = [c \in Clients |-> "new"]
    /\ closed = [c \in Clients |-> "no"]
    /\ sent = [c \in Clients |-> 0]
    /\ taken = [c \in Clients |-> 0]
    /\ inbox = [c \in Clients |-> FALSE]
    /\ pc = "start"
    /\ current = NoClient
    /\ marked = FALSE

(* How Start returns: by an exception while a connection was served, or by *)
(* one of Bind, Listen and Accept, or of the socket before them.           *)
Down == pc \in {"ended", "failed"}

-----------------------------------------------------------------------------
(* The programs. An exception ends each of them. *)
Goto(c, s) == step' = [step EXCEPT ![c] = s]

Room == pc # "start" /\ ~Down /\ Len(backlog) < QueueLen

Connect(c) ==
    /\ step[c] = "connect"
    /\ Room
    /\ link' = [link EXCEPT ![c] = "up"]
    /\ backlog' = Append(backlog, c)
    /\ Goto(c, "send")
    /\ UNCHANGED <<text, got, closed, sent, taken, inbox, serverVars>>

Refused(c) ==
    /\ step[c] = "connect"
    /\ ~Room
    /\ got' = [got EXCEPT ![c] = "refused"]
    /\ Goto(c, "done")
    /\ UNCHANGED <<text, connVars, serverVars>>

(* Mutant of Send: the client does not wait for the answer. *)
SendAndClose(c) ==
    /\ step[c] = "send"
    /\ closed[c] = "no"
    /\ sent' = [sent EXCEPT ![c] = text[c].len]
    /\ Goto(c, "close")
    /\ UNCHANGED <<text, got, backlog, link, closed, taken, inbox, serverVars>>

Send(c) ==
    /\ step[c] = "send"
    /\ closed[c] = "no"
    /\ sent' = [sent EXCEPT ![c] = text[c].len]
    /\ Goto(c, IF IsClient(c) THEN "receive" ELSE "close")
    /\ UNCHANGED <<text, got, backlog, link, closed, taken, inbox, serverVars>>

SendFails(c) ==
    /\ step[c] = "send"
    /\ closed[c] # "no"
    /\ got' = [got EXCEPT ![c] = "error"]
    /\ Goto(c, "close")
    /\ UNCHANGED <<text, connVars, serverVars>>

(* A reset may overtake the answer. *)
Receive(c) ==
    /\ step[c] = "receive"
    /\ \/ /\ inbox[c]
          /\ got' = [got EXCEPT ![c] = "reply"]
          /\ inbox' = [inbox EXCEPT ![c] = FALSE]
       \/ /\ ~inbox[c] /\ closed[c] = "fin"
          /\ got' = [got EXCEPT ![c] = "end"]
          /\ UNCHANGED inbox
       \/ /\ closed[c] = "reset"
          /\ got' = [got EXCEPT ![c] = "error"]
          /\ inbox' = [inbox EXCEPT ![c] = FALSE]
    /\ Goto(c, "close")
    /\ UNCHANGED <<text, backlog, link, closed, sent, taken, serverVars>>

(* An answer that was not read turns the end into a reset. *)
Hangup(c) ==
    /\ link' = [link EXCEPT ![c] =
                  IF @ # "up" THEN @ ELSE IF inbox[c] THEN "reset" ELSE "fin"]
    /\ inbox' = [inbox EXCEPT ![c] = FALSE]

Close(c) ==
    /\ step[c] = "close"
    /\ Hangup(c)
    /\ Goto(c, "done")
    /\ UNCHANGED <<text, got, backlog, closed, sent, taken, serverVars>>

(* Some systems reset the connections of a process that is killed.         *)
Killed(c) ==
    /\ step[c] \in {"send", "receive"}
    /\ \/ Hangup(c)
       \/ /\ link' = [link EXCEPT ![c] = "reset"]
          /\ inbox' = [inbox EXCEPT ![c] = FALSE]
    /\ Goto(c, "killed")
    /\ UNCHANGED <<text, got, backlog, closed, sent, taken, serverVars>>

-----------------------------------------------------------------------------
(* The server. *)

Listen ==
    /\ pc = "start"
    /\ pc' = "accept"
    /\ UNCHANGED <<clientVars, connVars, current, marked>>

(* Mutant of Accept: data is not set back to null. *)
AcceptKeepsData ==
    /\ pc = "accept" /\ backlog # <<>>
    /\ current' = Head(backlog)
    /\ backlog' = Tail(backlog)
    /\ pc' = "receive"
    /\ UNCHANGED <<clientVars, link, closed, sent, taken, inbox, marked>>

Accept ==
    /\ pc = "accept" /\ backlog # <<>>
    /\ current' = Head(backlog)
    /\ backlog' = Tail(backlog)
    /\ marked' = FALSE
    /\ pc' = "receive"
    /\ UNCHANGED <<clientVars, link, closed, sent, taken, inbox>>

(* Mutant of HasMarker: only what this Receive returned is searched. *)
SeenAtOnce(t, from, to) ==
    t.mark # 0 /\ from + MarkLen <= t.mark /\ t.mark <= to

(* Mutant of HasMarker: the marker's first character is enough. *)
SeenBegun(t, from, to) == t.mark # 0 /\ t.mark < to + MarkLen

(* The marker may be split over any number of calls. *)
HasMarker(t, from, to) == t.mark # 0 /\ t.mark <= to

(* What comes behind the marker is not received any more. *)
ReceiveText(c) ==
    /\ pc = "receive" /\ current = c
    /\ \E n \in (taken[c] + 1)..sent[c] :
         /\ taken' = [taken EXCEPT ![c] = n]
         /\ marked' = (marked \/ HasMarker(text[c], taken[c], n))
    /\ pc' = IF marked' THEN "send" ELSE "receive"
    /\ UNCHANGED <<clientVars, backlog, link, closed, sent, inbox, current>>

(* After the end of the stream Receive returns 0 each time: without the    *)
(* marker nothing changes, and the loop does not end.                      *)
ReceiveNothing(c) ==
    /\ pc = "receive" /\ current = c
    /\ taken[c] = sent[c] /\ link[c] \in {"fin", "gone"}
    /\ pc' = IF marked THEN "send" ELSE "receive"
    /\ UNCHANGED <<clientVars, connVars, current, marked>>

(* An exception leaves both loops and ends the program: every connection   *)
(* the server had is reset or closed.                                      *)
Abandoned(c) == c = current \/ c \in ToSet(backlog)
Ends(how) ==
    /\ pc' = how
    /\ closed' = [c \in Clients |->
                    IF ~Abandoned(c) THEN closed[c]
                    ELSE IF c = current /\ taken[c] = sent[c] THEN "fin"
                    ELSE "reset"]

(* The address is in use, or there are no descriptors, or the system       *)
(* reports the end of a connection that waited.                            *)
OpenFails ==
    /\ pc \in {"start", "accept"}
    /\ Ends("failed")
    /\ UNCHANGED <<clientVars, backlog, link, sent, taken, inbox, current,
                   marked>>

(* A reset may discard bytes that were not received. *)
ReceiveFails(c) ==
    /\ pc = "receive" /\ current = c
    /\ link[c] = "reset"
    /\ Ends("ended")
    /\ UNCHANGED <<clientVars, backlog, link, sent, taken, inbox, current,
                   marked>>

(* After an orderly end the answer is met with a reset, now or later. *)
SendAnswer(c) ==
    /\ pc = "send" /\ current = c
    /\ \/ /\ link[c] = "up"
          /\ inbox' = [inbox EXCEPT ![c] = TRUE]
          /\ UNCHANGED link
       \/ link[c] = "fin" /\ UNCHANGED <<link, inbox>>
       \/ /\ link[c] = "fin"
          /\ link' = [link EXCEPT ![c] = "gone"]
          /\ UNCHANGED inbox
    /\ pc' = "shutdown"
    /\ UNCHANGED <<clientVars, backlog, closed, sent, taken, current, marked>>

SendAnswerFails(c) ==
    /\ pc = "send" /\ current = c
    /\ link[c] = "reset"
    /\ Ends("ended")
    /\ UNCHANGED <<clientVars, backlog, link, sent, taken, inbox, current,
                   marked>>

(* On a connection that was reset Shutdown may throw. *)
Shutdown(c) ==
    /\ pc = "shutdown" /\ current = c
    /\ \/ pc' = "close" /\ UNCHANGED closed
       \/ link[c] \in {"reset", "gone"} /\ Ends("ended")
    /\ UNCHANGED <<clientVars, backlog, link, sent, taken, inbox, current,
                   marked>>

(* Bytes that were not received turn the end into a reset. *)
CloseClient(c) ==
    /\ pc = "close" /\ current = c
    /\ closed' = [closed EXCEPT ![c] =
                    IF taken[c] = sent[c] THEN "fin" ELSE "reset"]
    /\ current' = NoClient
    /\ pc' = "accept"
    /\ UNCHANGED <<clientVars, backlog, link, sent, taken, inbox, marked>>

-----------------------------------------------------------------------------
ProgramStep(c) ==
    Connect(c) \/ Refused(c) \/ Send(c) \/ SendFails(c) \/ Receive(c) \/ Close(c)

ServerStep ==
    \/ Listen \/ Accept
    \/ \E c \in Clients :
        \/ ReceiveText(c) \/ ReceiveNothing(c) \/ ReceiveFails(c)
        \/ SendAnswer(c) \/ SendAnswerFails(c) \/ Shutdown(c) \/ CloseClient(c)

Next == ServerStep \/ OpenFails \/ \E c \in Clients : ProgramStep(c) \/ Killed(c)

Spec == Init /\ [][Next]_vars

(* Nobody types anything: the server and the programs only have to be      *)
(* scheduled. Nobody has to be killed, and no call has to fail.            *)
FairSpec ==
    /\ Spec
    /\ WF_vars(ServerStep)
    /\ \A c \in Clients : WF_vars(ProgramStep(c))

-----------------------------------------------------------------------------
(* Every variable has values of its kind; a connection waits or is served  *)
(* in one place only.                                                      *)
TypeOK ==
    /\ text \in [Clients -> Packets \cup {HelloText}]
    /\ step \in [Clients -> {"connect", "send", "receive", "close", "done",
                             "killed"}]
    /\ got \in [Clients -> {"nothing", "reply", "end", "error", "refused"}]
    /\ backlog \in Seq(Clients) /\ Len(backlog) <= QueueLen
    /\ link \in [Clients -> {"new", "up", "fin", "reset", "gone"}]
    /\ closed \in [Clients -> {"no", "fin", "reset"}]
    /\ sent \in [Clients -> Nat] /\ taken \in [Clients -> Nat]
    /\ \A c \in Clients : taken[c] <= sent[c] /\ sent[c] \in {0, text[c].len}
    /\ inbox \in [Clients -> BOOLEAN]
    /\ pc \in {"start", "accept", "receive", "send", "shutdown", "close",
              "ended", "failed"}
    /\ current \in Clients \cup {NoClient}
    /\ marked \in BOOLEAN

(* Only a client whose own text held the marker is answered, also when a   *)
(* text without one follows a text with one (Server.cs:34-46).             *)
AnsweredOwnMarker ==
    \A c \in Clients :
        inbox[c] \/ got[c] = "reply" => text[c].mark # 0 /\ text[c].mark <= taken[c]

(* A client program that got a connection ends without its answer only     *)
(* when the server program has ended: a marker in several parts, or seen   *)
(* too early, never costs an answer. Who is refused, because nobody        *)
(* listens or the queue is full, ends too (Server.cs:28-49, Client.cs:27). *)
UnansweredOnlyAtEnd ==
    \A c \in Clients :
        IsClient(c) /\ step[c] = "done" => Down \/ got[c] \in {"reply", "refused"}

(* Once the server listens, the client program alone never makes it throw  *)
(* while a connection is served: it takes a program that was killed or one *)
(* that does not wait for its answer. Bind, Listen and Accept may fail for *)
(* reasons of their own, which is "failed" (Server.cs:38-49, 52).          *)
EndedByOthers ==
    pc = "ended" => \E c \in Clients : step[c] = "killed" \/ ~IsClient(c)

(* The server goes on to the next client, or ends, or stays for ever with  *)
(* one client whose text is without the marker (Server.cs:36-41).          *)
HeldByUnmarked ==
    \/ []<>(pc = "accept")
    \/ <>Down
    \/ \E c \in Clients :
        <>[](/\ pc = "receive" /\ current = c
             /\ text[c].mark = 0 \/ sent[c] < text[c].mark)

(* When only the client program talks to the server, nobody is killed and  *)
(* Bind, Listen and Accept do not fail, everybody is answered who was not  *)
(* refused (Server.cs:30-50, Client.cs:20-45).                             *)
AllAnswered ==
    [](pc # "failed" /\ \A c \in Clients : IsClient(c) /\ step[c] # "killed")
        => \A c \in Clients : <>(got[c] \in {"reply", "refused"})
=============================================================================
