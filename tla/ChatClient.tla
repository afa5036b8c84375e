----------------------------- MODULE ChatClient -----------------------------
(***************************************************************************)
(* The chat client of tcpChatServerTHREAD: the main thread, the thread     *)
(* that reads the user's lines and the one that reads the server's data.   *)
(* They share two std::lists without a lock, the commands and the event    *)
(* listeners, and one mutex per ping, used to wait for the answer.         *)
(*                                                                         *)
(* The list of commands is modelled by its links, because the main and the *)
(* input thread append to it at the same time. The list of listeners never *)
(* has more than one node (OneListener), so it is a set. The server is     *)
(* external: it answers requests, relays chat, and may close, or not be     *)
(* there at all.                                                           *)
(***************************************************************************)
EXTENDS Naturals, Sequences

CONSTANTS
    MaxLines,   \* bound: lines the user types
    MaxChats    \* bound: chat messages the server relays

ASSUME BoundsAssumption == MaxLines \in Nat /\ MaxChats \in Nat

Commands == {"help", "quit", "ping"}
Pings == 1..MaxLines
NoPing == 0

VARIABLES
    next, last,     \* the list of commands: links, and the sentinel's prev
    todo, hook,     \* what each thread has to register, and its insertion
    main,           \* TCPChatClient::wait
    input,          \* getInputThread, and CommandPing::getPing in it
    data,           \* getServerDataThread, and onPingEvent in it
    typed,          \* lines the user typed
    ping,           \* the ping being made, or the last one
    listeners,      \* the list of listeners, by ping
    lock,           \* PingListener::lock, by ping
    answered,       \* pings whose listener was called
    at,             \* the node onPingEvent's loop is at
    requests,       \* requests on their way to the server
    unread,         \* chat lines are on their way to it
    wire,           \* what the server sent and was not received yet
    chats,          \* chat messages the server relayed
    server,         \* its end of the connection, see ServerEnds
    alive           \* the client's process runs

listVars == <<next, last, todo, hook>>
pingVars == <<ping, listeners, lock, answered>>
netVars == <<requests, unread, wire, chats, server>>
vars == <<listVars, main, input, data, typed, pingVars, at, netVars, alive>>

NoHook == [step |-> "none", prev |-> "end"]

(* When connect() fails the constructor prints the exception and goes on.   *)
(* The exception's text is longer than its array of 56: the process may    *)
(* end there.                                                              *)
Init ==
    /\ next = [n \in Commands \cup {"head"} |-> "end"]
    /\ last = "head"
    /\ todo = [main |-> <<"ping">>, input |-> <<"help", "quit">>]
    /\ hook = [main |-> NoHook, input |-> NoHook]
    /\ main = "join"
    /\ input = "read"
    /\ data = "recv"
    /\ typed = 0
    /\ ping = NoPing
    /\ listeners = {}
    /\ lock = [k \in Pings |-> "free"]
    /\ answered = {}
    /\ at = NoPing
    /\ requests = 0
    /\ unread = FALSE
    /\ wire = <<>>
    /\ chats = 0
    /\ server \in {"up", "refused"}
    /\ alive \in BOOLEAN /\ (server = "up" => alive)

(* The commands a walk from the head of the list finds. *)
Follow(n) == IF n = "end" THEN "end" ELSE next[n]
Reachable == {next["head"], Follow(next["head"]),
              Follow(Follow(next["head"]))} \ {"end"}

Registered(t) == alive /\ todo[t] = <<>>

-----------------------------------------------------------------------------
(* commands.push_back(): the new node gets its neighbours, the last node   *)
(* is linked to it, and the sentinel is made to point back at it.          *)

HookRead(t) ==
    /\ alive
    /\ todo[t] # <<>> /\ hook[t] = NoHook
    /\ hook' = [hook EXCEPT ![t] = [step |-> "link", prev |-> last]]
    /\ next' = [next EXCEPT ![Head(todo[t])] = "end"]
    /\ UNCHANGED <<last, todo, main, input, data, typed, pingVars, at,
                   netVars, alive>>

(* Mutant of HookLink: both links of the node are set to its neighbour. *)
HookLinkBack(t) ==
    /\ alive
    /\ hook[t].step = "link"
    /\ next' = [next EXCEPT ![hook[t].prev] = Head(todo[t]),
                            ![Head(todo[t])] = hook[t].prev]
    /\ hook' = [hook EXCEPT ![t].step = "last"]
    /\ UNCHANGED <<last, todo, main, input, data, typed, pingVars, at,
                   netVars, alive>>

HookLink(t) ==
    /\ alive
    /\ hook[t].step = "link"
    /\ next' = [next EXCEPT ![hook[t].prev] = Head(todo[t])]
    /\ hook' = [hook EXCEPT ![t].step = "last"]
    /\ UNCHANGED <<last, todo, main, input, data, typed, pingVars, at,
                   netVars, alive>>

HookLast(t) ==
    /\ alive
    /\ hook[t].step = "last"
    /\ last' = Head(todo[t])
    /\ todo' = [todo EXCEPT ![t] = Tail(@)]
    /\ hook' = [hook EXCEPT ![t] = NoHook]
    /\ UNCHANGED <<next, main, input, data, typed, pingVars, at, netVars, alive>>

-----------------------------------------------------------------------------
(* The input thread.                                                       *)

(* What a send() that returns does: the first one after the server has     *)
(* closed draws a reset, which recv() does not report.                     *)
SendSeen == server' = IF server = "closed" THEN "broken" ELSE server

(* A reset is reported once, to the first send() or recv() after it.       *)
SendFails == server = "reset"
Reported == server' = "broken"

(* From then on, or without a connection, send() raises SIGPIPE. The text  *)
(* of a SendException is written through a pointer that was never set: the *)
(* process may end there too.                                              *)
SendKills == server \in {"reset", "broken", "refused"}

(* A line of chat: the exception is caught and ends the loop.              *)
TypeChat ==
    /\ Registered("input") /\ input = "read" /\ main # "stopped"
    /\ typed < MaxLines
    /\ typed' = typed + 1
    /\ unread' = (unread \/ server = "up")
    /\ \/ /\ ~SendFails /\ ~SendKills /\ SendSeen
          /\ UNCHANGED <<input, alive>>
       \/ /\ SendFails /\ Reported
          /\ input' = "ended" /\ UNCHANGED alive
       \/ /\ SendKills
          /\ alive' = FALSE /\ UNCHANGED <<input, server>>
    /\ UNCHANGED <<listVars, main, data, pingVars, at, requests, wire, chats>>

(* /help prints what it finds; /quit does nothing; a command that is not   *)
(* found is unknown.                                                       *)
TypeCommand(name) ==
    /\ Registered("input") /\ input = "read" /\ main # "stopped"
    /\ typed < MaxLines
    /\ typed' = typed + 1
    /\ IF name = "ping" /\ name \in Reachable
       THEN /\ input' = "register"
            /\ ping' = typed + 1
       ELSE UNCHANGED <<input, ping>>
    /\ UNCHANGED <<listVars, main, data, listeners, lock, answered, at,
                   netVars, alive>>

PingRegister ==
    /\ alive /\ input = "register"
    /\ listeners' = listeners \cup {ping}
    /\ input' = "request"
    /\ UNCHANGED <<listVars, main, data, typed, ping, lock, answered, at,
                   netVars, alive>>

(* sendRequest: nothing catches the exception of a send that fails. *)
PingRequest ==
    /\ alive /\ input = "request"
    /\ requests' = IF server = "up" THEN requests + 1 ELSE requests
    /\ alive' = ~SendKills
    /\ SendSeen
    /\ input' = "wait"
    /\ UNCHANGED <<listVars, main, data, typed, pingVars, at, unread, wire,
                   chats>>

(* Mutant of PingWait: the lock is taken before the answer is waited for.  *)
PingWaitLocked ==
    /\ alive /\ input = "wait"
    /\ ping \in answered
    /\ lock' = [lock EXCEPT ![ping] = "held"]
    /\ input' = "report"
    /\ UNCHANGED <<listVars, main, data, typed, ping, listeners, answered, at,
                   netVars, alive>>

(* waitForCall: lock.lock(). *)
PingWait ==
    /\ alive /\ input = "wait"
    /\ lock[ping] = "free"
    /\ lock' = [lock EXCEPT ![ping] = "held"]
    /\ input' = "report"
    /\ UNCHANGED <<listVars, main, data, typed, ping, listeners, answered, at,
                   netVars, alive>>

(* Mutant of PingReport: the listener is not unregistered. *)
PingReportOnly ==
    /\ alive /\ input = "report"
    /\ input' = "read"
    /\ UNCHANGED <<listVars, main, data, typed, pingVars, at, netVars, alive>>

(* The time is taken, the listener unregistered, the time reported. *)
PingReport ==
    /\ alive /\ input = "report"
    /\ listeners' = listeners \ {ping}
    /\ input' = "read"
    /\ UNCHANGED <<listVars, main, data, typed, ping, lock, answered, at,
                   netVars, alive>>

(* wait() has set isRunning to false: the loop ends after the next line,   *)
(* which may still be sent, to the closed socket.                          *)
InputEnds ==
    /\ Registered("input") /\ input = "read" /\ main = "stopped"
    /\ input' = "ended"
    /\ alive' \in BOOLEAN
    /\ UNCHANGED <<listVars, main, data, typed, pingVars, at, netVars>>

-----------------------------------------------------------------------------
(* The data thread.                                                        *)

(* One recv() may return several messages run together. They are an event  *)
(* when they are exactly one; begun by an event they are dropped, begun by *)
(* chat they are printed.                                                  *)
Receive ==
    /\ alive /\ data = "recv"
    /\ \E k \in 1..Len(wire) :
         /\ wire' = SubSeq(wire, k + 1, Len(wire))
         /\ IF k = 1 /\ Head(wire) = "event" /\ listeners # {}
            THEN at' \in listeners /\ data' = "call"
            ELSE UNCHANGED <<at, data>>
    /\ UNCHANGED <<listVars, main, input, typed, pingVars, requests, unread,
                   chats, server, alive>>

(* onEventPing: lock.unlock(), whoever holds the lock. *)
CallListener ==
    /\ alive /\ data = "call"
    /\ lock' = [lock EXCEPT ![at] = "free"]
    /\ answered' = answered \cup {at}
    /\ data' = "next"
    /\ UNCHANGED <<listVars, main, input, typed, ping, listeners, at, netVars, alive>>

(* The loop reads the node again to go on. When the input thread has       *)
(* freed it the read may end the process, end the loop, or go on with the  *)
(* node that has taken its place.                                          *)
NextListener ==
    /\ alive /\ data = "next"
    /\ \/ data' = "recv" /\ at' = NoPing /\ UNCHANGED alive
       \/ /\ at \notin listeners
          /\ alive' = FALSE /\ UNCHANGED <<data, at>>
       \/ /\ at \notin listeners
          /\ at' \in listeners /\ data' = "call" /\ UNCHANGED alive
    /\ UNCHANGED <<listVars, main, input, typed, pingVars, netVars>>

(* Mutant of ReceiveFails: the exception does not end the loop. *)
ReceiveRetries ==
    /\ alive /\ data = "recv"
    /\ server \in {"reset", "refused"} /\ wire = <<>>
    /\ server' = IF server = "reset" THEN "broken" ELSE server
    /\ UNCHANGED <<listVars, main, input, data, typed, pingVars, at, requests,
                   unread, wire, chats, alive>>

(* recv() fails after a reset, once, and without a connection; the         *)
(* exception is caught and ends the loop. After an orderly close, or when  *)
(* a send() has taken the error of the reset, recv() returns 0 for ever,   *)
(* and the loop goes round without a change.                               *)
ReceiveFails ==
    /\ alive /\ data = "recv"
    /\ server \in {"reset", "refused"} /\ wire = <<>>
    /\ data' = "ended"
    /\ server' = IF server = "reset" THEN "broken" ELSE server
    /\ UNCHANGED <<listVars, main, input, typed, pingVars, at, requests, unread,
                   wire, chats, alive>>

-----------------------------------------------------------------------------
(* The main thread: join the data thread, close, stop the input thread.    *)
Joined ==
    /\ Registered("main") /\ main = "join" /\ data = "ended"
    /\ main' = "stopped"
    /\ UNCHANGED <<listVars, input, data, typed, pingVars, at, netVars, alive>>

(* ... join it, and exit. *)
Exit ==
    /\ alive /\ main = "stopped" /\ input = "ended"
    /\ alive' = FALSE
    /\ UNCHANGED <<listVars, main, input, data, typed, pingVars, at, netVars>>

-----------------------------------------------------------------------------
(* The server.                                                             *)
ServerAnswers ==
    /\ alive /\ server = "up" /\ requests > 0
    /\ requests' = requests - 1
    /\ wire' = Append(wire, "event")
    /\ UNCHANGED <<listVars, main, input, data, typed, pingVars, at, unread,
                   chats, server, alive>>

(* It reads the lines of chat. *)
ServerReads ==
    /\ alive /\ server = "up" /\ unread
    /\ unread' = FALSE
    /\ UNCHANGED <<listVars, main, input, data, typed, pingVars, at, requests,
                   wire, chats, server, alive>>

(* The bound on chat is MaxChats. *)
ServerRelays ==
    /\ alive /\ server = "up" /\ chats < MaxChats
    /\ chats' = chats + 1
    /\ wire' = Append(wire, "chat")
    /\ UNCHANGED <<listVars, main, input, data, typed, pingVars, at, requests,
                   unread, server, alive>>

(* The server's process ends: in order, or, with requests or chat unread,  *)
(* by a reset.                                                             *)
ServerEnds ==
    /\ alive /\ server = "up"
    /\ server' = IF requests = 0 /\ ~unread THEN "closed" ELSE "reset"
    /\ requests' = 0 /\ unread' = FALSE
    /\ UNCHANGED <<listVars, main, input, data, typed, pingVars, at, wire,
                   chats, alive>>

-----------------------------------------------------------------------------
InputStep ==
    \/ PingRegister
    \/ PingRequest
    \/ PingWait
    \/ PingReport

DataStep ==
    \/ Receive
    \/ CallListener
    \/ NextListener
    \/ ReceiveFails

Hook(t) == HookRead(t) \/ HookLink(t) \/ HookLast(t)

(* The process has ended, or the user has nothing more to type and the     *)
(* threads wait for data or for the user.                                  *)
AtRest ==
    /\ \/ ~alive
       \/ /\ input \in {"read", "ended"} /\ data = "recv" /\ wire = <<>>
          /\ server \notin {"reset", "refused"}
    /\ UNCHANGED vars

Next ==
    \/ \E t \in {"main", "input"} : Hook(t)
    \/ TypeChat
    \/ \E name \in Commands : TypeCommand(name)
    \/ InputStep
    \/ InputEnds
    \/ DataStep
    \/ Joined
    \/ Exit
    \/ ServerAnswers
    \/ ServerReads
    \/ ServerRelays
    \/ ServerEnds
    \/ AtRest

Spec == Init /\ [][Next]_vars

(* The client's threads are scheduled; the user and the server do as they  *)
(* please.                                                                 *)
FairSpec ==
    /\ Spec
    /\ \A t \in {"main", "input"} : WF_vars(Hook(t))
    /\ WF_vars(InputStep)
    /\ WF_vars(DataStep)
    /\ WF_vars(Joined \/ Exit)

-----------------------------------------------------------------------------
(* Every variable has values of its kind; the loop of onPingEvent is at a  *)
(* listener exactly while it is inside it (EventListenerHandler.cpp:17-24). *)
TypeOK ==
    /\ next \in [Commands \cup {"head"} -> Commands \cup {"end"}]
    /\ last \in Commands \cup {"head"}
    /\ main \in {"join", "stopped"}
    /\ input \in {"read", "register", "request", "wait", "report", "ended"}
    /\ data \in {"recv", "call", "next", "ended"}
    /\ typed \in 0..MaxLines
    /\ ping \in Pings \cup {NoPing}
    /\ listeners \subseteq Pings
    /\ lock \in [Pings -> {"free", "held"}]
    /\ answered \subseteq Pings
    /\ at \in IF data \in {"call", "next"} THEN Pings ELSE {NoPing}
    /\ requests \in 0..MaxLines
    /\ unread \in BOOLEAN
    /\ wire \in Seq({"event", "chat"})
    /\ chats \in 0..MaxChats
    /\ server \in {"up", "refused", "closed", "broken", "reset"}
    /\ alive \in BOOLEAN

(* However the appends of the two threads interleave, a walk of the list   *)
(* ends, after commands whose insertion has begun: handleCommand never     *)
(* loops (CommandHandler.cpp:25-32, client.cpp:35).                        *)
ListSound ==
    /\ Follow(Follow(Follow(next["head"]))) = "end"
    /\ ~(\E t \in {"main", "input"} :
           hook[t] = NoHook /\ todo[t] # <<>> /\ Head(todo[t]) \in Reachable)

(* Outside a ping there is no listener, and in it only its own: that is    *)
(* what lets the loop over the listeners run unlocked as far as it does    *)
(* (CommandPing.cpp:19-28).                                                *)
OneListener ==
    listeners = IF input \in {"request", "wait", "report"} THEN {ping} ELSE {}

(* A ping never hangs the input thread, whether its answer comes, is lost  *)
(* in a longer recv(), or the server ends.                                 *)
PingReturns == input = "wait" ~> (input = "read" \/ ~alive)

(* When the server's end was reset, or there is no server, the client      *)
(* stops, however the answers and the user's lines cross with the reset,   *)
(* unless a line of the user takes the error: then only the input thread   *)
(* ends (TCPChatClient.cpp:82-88, 104-115, 165-179), and the client stays. *)
(* An orderly close it never notices: recv() returning 0 is taken for data. *)
ResetNoticed ==
    server \in {"reset", "refused"} ~>
        (main = "stopped" \/ input = "ended" \/ ~alive)

(* "get response time from server" (CommandPing.cpp:8): the time is        *)
(* reported after the response.                                            *)
PingWaitsForAnswer == input = "report" => ping \in answered
=============================================================================
