-------------------------- MODULE ChatClientProofs --------------------------
(***************************************************************************)
(* Safety of the chat client for any number of lines typed and of messages *)
(* relayed: the list of commands while two threads append to it, and the   *)
(* listeners while one thread walks them and another changes them.         *)
(***************************************************************************)
EXTENDS ChatClient, TLAPS

Threads == {"main", "input"}
Nodes == Commands \cup {"head"}
Begun == [step : {"link", "last"}, prev : Nodes]

(* The registrations a thread has left, and the one it is in the midst of. *)
HookInv ==
    /\ DOMAIN todo = Threads /\ hook \in [Threads -> Begun \cup {NoHook}]
    /\ todo["main"] \in {<<"ping">>, <<>>}
    /\ todo["input"] \in {<<"help", "quit">>, <<"quit">>, <<>>}
    /\ \A t \in Threads : hook[t] # NoHook => todo[t] # <<>>

(* The commands whose insertion is not over; those linked already.         *)
Missing == { n \in Commands :
    \/ n = "ping" /\ todo["main"] # <<>>
    \/ n = "quit" /\ todo["input"] # <<>>
    \/ n = "help" /\ todo["input"] = <<"help", "quit">> }

Linked == { Head(todo[t]) : t \in {u \in Threads : hook[u].step = "last"} }

(* A node is appended to one that is complete, and has no successor until  *)
(* it is complete itself: so a new link never closes a cycle.              *)
ListInv ==
    /\ next \in [Nodes -> Commands \cup {"end"}] /\ last \in Nodes \ Missing
    /\ \A t \in Threads : hook[t] # NoHook => hook[t].prev \notin Missing
    /\ \A n \in Missing : next[n] = "end"
    /\ \A n \in Nodes : next[n] \in Missing => next[n] \in Linked
    /\ \A a, b, c \in Commands : next[a] = b /\ next[b] = c => next[c] = "end"

(* Requests are made one for a ping, and pings one for a line.             *)
PingInv ==
    /\ ping <= typed
    /\ input \notin {"read", "ended"} => ping # NoPing
    /\ requests <= IF input \in {"register", "request"} THEN ping - 1 ELSE ping

IndInv == TypeOK /\ OneListener /\ HookInv /\ ListInv /\ PingInv

-----------------------------------------------------------------------------
LEMMA Tuples ==
    /\ Tail(<<"ping">>) = <<>> /\ Head(<<"ping">>) = "ping"
    /\ Tail(<<"quit">>) = <<>> /\ Head(<<"quit">>) = "quit"
    /\ Tail(<<"help", "quit">>) = <<"quit">> /\ Head(<<"help", "quit">>) = "help"
    /\ <<"ping">> # <<>> /\ <<"quit">> # <<>> /\ <<"help", "quit">> # <<>>
    /\ <<"help", "quit">> # <<"quit">>
    /\ <<"ping">> \in Seq(Commands) /\ <<"quit">> \in Seq(Commands)
    /\ <<"help", "quit">> \in Seq(Commands) /\ <<>> \in Seq(Commands)
<1>1. /\ Tail(<<"ping">>) = <<>> /\ Tail(<<"quit">>) = <<>>
      /\ Tail(<<"help", "quit">>) = <<"quit">>
  OBVIOUS
<1>2. /\ Head(<<"ping">>) = "ping" /\ Head(<<"quit">>) = "quit"
      /\ Head(<<"help", "quit">>) = "help"
  OBVIOUS
<1>3. /\ <<"ping">> # <<>> /\ <<"quit">> # <<>> /\ <<"help", "quit">> # <<>>
      /\ <<"help", "quit">> # <<"quit">>
  OBVIOUS
<1>4. /\ <<"ping">> \in Seq(Commands) /\ <<"quit">> \in Seq(Commands)
      /\ <<"help", "quit">> \in Seq(Commands) /\ <<>> \in Seq(Commands)
  BY DEF Commands
<1> QED
  BY <1>1, <1>2, <1>3, <1>4

(* The next registration of a thread, and what is left after it.           *)
LEMMA Registering ==
    ASSUME HookInv, NEW t \in Threads, todo[t] # <<>>
    PROVE  /\ Head(todo[t]) \in Missing
           /\ \A u \in Threads \ {t} : todo[u] # <<>> => Head(todo[u]) # Head(todo[t])
<1>1. /\ t = "main" => todo[t] = <<"ping">>
      /\ t = "input" => todo[t] \in {<<"help", "quit">>, <<"quit">>}
  BY DEF HookInv, Threads
<1> QED
  BY <1>1, Tuples DEF HookInv, Threads, Commands, Missing

(* The pings: the parts of the invariant that the appends do not touch.    *)
RestTypes ==
    /\ main \in {"join", "stopped"}
    /\ input \in {"read", "register", "request", "wait", "report", "ended"}
    /\ data \in {"recv", "call", "next", "ended"}
    /\ typed \in 0..MaxLines
    /\ ping \in Pings \cup {NoPing}
    /\ listeners \subseteq Pings
    /\ lock \in [Pings -> {"free", "held"}]
    /\ answered \subseteq Pings
    /\ at \in IF data \in {"call", "next"} THEN Pings ELSE {NoPing}
    /\ requests \in 0..MaxLines
    /\ unread \in BOOLEAN
    /\ wire \in Seq({"event", "chat"})
    /\ chats \in 0..MaxChats
    /\ server \in {"up", "refused", "closed", "broken", "reset"}
    /\ alive \in BOOLEAN

LEMMA InitInv == Init => IndInv
<1> SUFFICES ASSUME Init PROVE IndInv
  OBVIOUS
<1> USE BoundsAssumption DEF Init
<1>1. HookInv
  <2>1. /\ todo["main"] = <<"ping">> /\ todo["input"] = <<"help", "quit">>
        /\ DOMAIN todo = Threads
    BY DEF Threads
  <2>2. hook \in [Threads -> Begun \cup {NoHook}] /\ \A t \in Threads : hook[t] = NoHook
    BY DEF Threads
  <2> QED
    BY <2>1, <2>2 DEF HookInv
<1>2. ListInv
  <2>1. /\ \A n \in Nodes : next[n] = "end"
        /\ Commands \subseteq Nodes /\ Missing \subseteq Commands
        /\ "end" \notin Commands
    BY DEF Nodes, Missing, Commands
  <2>2. next \in [Nodes -> Commands \cup {"end"}] /\ last \in Nodes \ Missing
    BY DEF Nodes, Missing, Commands
  <2>3. \A t \in Threads : hook[t] = NoHook
    BY DEF Threads
  <2> QED
    BY <2>1, <2>2, <2>3 DEF ListInv
<1>3. TypeOK /\ OneListener /\ PingInv
  <2>0. alive \in BOOLEAN
    OBVIOUS
  <2>1. server \in {"up", "refused", "closed", "broken", "reset"}
    OBVIOUS
  <2>2. unread \in BOOLEAN
    OBVIOUS
  <2>3. wire \in Seq({"event", "chat"})
    OBVIOUS
  <2>4. OneListener /\ PingInv
    BY DEF OneListener, PingInv, Pings, NoPing
  <2>5. RestTypes
    BY <2>0, <2>1, <2>2, <2>3 DEF RestTypes, Pings, NoPing
  <2>6. /\ next \in [Commands \cup {"head"} -> Commands \cup {"end"}]
        /\ last \in Commands \cup {"head"}
    BY DEF Commands
  <2> QED
    BY <2>4, <2>5, <2>6 DEF TypeOK, RestTypes
<1> QED
  BY <1>1, <1>2, <1>3 DEF IndInv

-----------------------------------------------------------------------------
(* The appends.                                                            *)
LEMMA HookReadKeeps ==
    ASSUME HookInv, ListInv, NEW t \in Threads, HookRead(t)
    PROVE  HookInv' /\ ListInv'
<1> DEFINE x == Head(todo[t])
<1>1. /\ x \in Missing /\ next[x] = "end"
      /\ todo[t] # <<>> /\ hook[t] = NoHook /\ todo' = todo /\ last' = last
      /\ hook' = [hook EXCEPT ![t] = [step |-> "link", prev |-> last]]
      /\ next' = [next EXCEPT ![x] = "end"]
  BY Registering DEF HookRead, ListInv
<1> HIDE DEF x
<1>2. next' = next
  BY <1>1 DEF ListInv
<1>3. [step |-> "link", prev |-> last] \in Begun
  BY DEF ListInv, Begun
<1>4. /\ hook' \in [Threads -> Begun \cup {NoHook}]
      /\ hook'[t].prev = last
      /\ \A u \in Threads \ {t} : hook'[u] = hook[u]
  BY <1>1, <1>3 DEF HookInv
<1>5. HookInv'
  BY <1>1, <1>4 DEF HookInv
<1>6. Missing' = Missing
  BY <1>1 DEF Missing
<1>7. Linked \subseteq Linked'
  <2>1. \A u \in Threads : hook[u].step = "last" => hook'[u].step = "last"
    BY <1>1, <1>4 DEF NoHook
  <2> QED
    BY <1>1, <2>1 DEF Linked
<1>8. \A u \in Threads : hook'[u] # NoHook => hook'[u].prev \notin Missing
  BY <1>4 DEF ListInv
<1>9. ListInv'
  <2>1. \A u \in Threads : hook'[u] # NoHook => hook'[u].prev \notin Missing'
    BY <1>6, <1>8
  <2>2. /\ next' \in [Nodes -> Commands \cup {"end"}] /\ last' \in Nodes \ Missing'
        /\ \A n \in Missing' : next'[n] = "end"
    BY <1>1, <1>2, <1>6 DEF ListInv
  <2>3. \A n \in Nodes : next'[n] \in Missing' => next'[n] \in Linked'
    BY <1>2, <1>6, <1>7 DEF ListInv
  <2>4. \A a, b, c \in Commands :
            next'[a] = b /\ next'[b] = c => next'[c] = "end"
    BY <1>2 DEF ListInv
  <2> QED
    BY <2>1, <2>2, <2>3, <2>4 DEF ListInv
<1> QED
  BY <1>5, <1>9

LEMMA HookLinkKeeps ==
    ASSUME HookInv, ListInv, NEW t \in Threads, HookLink(t)
    PROVE  HookInv' /\ ListInv'
<1> DEFINE x == Head(todo[t])
           p == hook[t].prev
<1>1. /\ hook[t] \in Begun /\ hook[t] # NoHook /\ todo[t] # <<>>
      /\ todo' = todo /\ last' = last
      /\ hook' = [hook EXCEPT ![t].step = "last"]
      /\ next' = [next EXCEPT ![p] = x]
  BY DEF HookLink, HookInv, NoHook
<1>2. /\ x \in Missing /\ p \in Nodes \ Missing /\ next[x] = "end" /\ x \in Commands
  BY <1>1, Registering DEF ListInv, Begun, Missing
<1>3. /\ hook' \in [Threads -> Begun \cup {NoHook}]
      /\ hook'[t].prev = p /\ hook'[t].step = "last"
      /\ \A u \in Threads \ {t} : hook'[u] = hook[u]
  BY <1>1 DEF HookInv, Begun
<1> HIDE DEF x, p
<1>4. HookInv'
  BY <1>1, <1>3 DEF HookInv
<1>5. Missing' = Missing
  BY <1>1 DEF Missing
<1>6. Linked \subseteq Linked' /\ x \in Linked'
  <2>1. \A u \in Threads : hook[u].step = "last" => hook'[u].step = "last"
    BY <1>3
  <2> QED
    BY <1>1, <1>3, <2>1 DEF Linked, x
<1>7. next' \in [Nodes -> Commands \cup {"end"}]
  BY <1>1, <1>2 DEF ListInv
<1>8. \A u \in Threads : hook'[u] # NoHook => hook'[u].prev \notin Missing
  BY <1>2, <1>3 DEF ListInv
<1>9. /\ \A n \in Missing : next'[n] = "end"
      /\ \A n \in Nodes : next'[n] \in Missing => next'[n] \in Linked'
  <2>1. \A n \in Nodes : next'[n] = IF n = p THEN x ELSE next[n]
    BY <1>1 DEF ListInv
  <2>2. Missing \subseteq Nodes
    BY DEF Missing, Nodes
  <2> QED
    BY <1>2, <1>6, <2>1, <2>2 DEF ListInv
<1>10. ASSUME NEW a \in Commands, NEW b \in Commands, NEW c \in Commands,
              next'[a] = b, next'[b] = c
       PROVE  next'[c] = "end"
  <2>1. /\ next'[a] = IF a = p THEN x ELSE next[a]
        /\ next'[b] = IF b = p THEN x ELSE next[b]
        /\ next'[c] = IF c = p THEN x ELSE next[c]
    BY <1>1 DEF ListInv, Nodes
  <2>2. next'[x] = "end" /\ "end" \notin Commands
    BY <1>1, <1>2 DEF Commands, ListInv, Nodes
  <2>3. b # x /\ a # x
    BY <1>10, <2>2
  <2>4. CASE a = p
    BY <1>10, <2>1, <2>3, <2>4
  <2>5. CASE b = p
    BY <1>10, <2>1, <2>2, <2>5
  <2>6. CASE c = p /\ a # p /\ b # p
    <3>1. next[a] = b /\ next[b] = p /\ x # p
      BY <1>2, <1>10, <2>1, <2>6
    <3>2. a # b
      BY <1>10, <2>1, <2>6 DEF ListInv
    <3>3. a \in Commands \ {x, p} /\ b \in Commands \ {x, p} /\ p \in Commands
      BY <2>3, <2>6
    <3> QED
      BY <1>2, <3>1, <3>2, <3>3 DEF Commands
  <2>7. CASE a # p /\ b # p /\ c # p
    BY <1>10, <2>1, <2>7 DEF ListInv
  <2> QED
    BY <2>4, <2>5, <2>6, <2>7
<1> QED
  BY <1>1, <1>4, <1>5, <1>7, <1>8, <1>9, <1>10 DEF ListInv

LEMMA HookLastKeeps ==
    ASSUME HookInv, ListInv, NEW t \in Threads, HookLast(t)
    PROVE  HookInv' /\ ListInv'
<1> DEFINE x == Head(todo[t])
<1>1. /\ hook[t] \in Begun /\ hook[t] # NoHook /\ todo[t] # <<>>
      /\ hook[t].step = "last"
      /\ last' = x /\ next' = next
      /\ todo' = [todo EXCEPT ![t] = Tail(todo[t])]
      /\ hook' = [hook EXCEPT ![t] = NoHook]
  BY DEF HookLast, HookInv, NoHook
<1>2. /\ x \in Missing /\ x \in Commands
      /\ \A u \in Threads \ {t} : todo[u] # <<>> => Head(todo[u]) # x
  BY <1>1, Registering DEF Missing
<1>3. HookInv' /\ Missing' = Missing \ {x}
  <2>1. CASE t = "main"
    <3>1. /\ todo["main"] = <<"ping">> /\ x = "ping" /\ todo'["main"] = <<>>
          /\ todo'["input"] = todo["input"]
      BY <1>1, <2>1, Tuples DEF HookInv, Threads
    <3> QED
      BY <1>1, <2>1, <3>1, Tuples DEF HookInv, Missing, Threads, Commands
  <2>2. CASE t = "input"
    <3>1. /\ todo'["main"] = todo["main"]
          /\ \/ /\ todo["input"] = <<"help", "quit">> /\ x = "help"
                /\ todo'["input"] = <<"quit">>
             \/ /\ todo["input"] = <<"quit">> /\ x = "quit"
                /\ todo'["input"] = <<>>
      BY <1>1, <2>2, Tuples DEF HookInv, Threads
    <3> QED
      BY <1>1, <2>2, <3>1, Tuples DEF HookInv, Missing, Threads, Commands
  <2> QED
    BY <2>1, <2>2 DEF Threads
<1>4. Linked \ {x} \subseteq Linked'
  <2> SUFFICES ASSUME NEW u \in Threads, hook[u].step = "last", Head(todo[u]) # x
               PROVE  Head(todo[u]) \in Linked'
    BY DEF Linked
  <2>1. u # t
    OBVIOUS
  <2>2. hook'[u] = hook[u] /\ todo'[u] = todo[u]
    BY <1>1, <2>1 DEF HookInv
  <2> QED
    BY <2>2 DEF Linked
<1> HIDE DEF x
<1>5. x \in Nodes
  BY <1>2 DEF Nodes
<1>6. \A u \in Threads : hook'[u] # NoHook => hook'[u].prev \notin Missing
  BY <1>1 DEF HookInv, ListInv
<1> QED
  BY <1>1, <1>3, <1>4, <1>5, <1>6 DEF ListInv

-----------------------------------------------------------------------------
(* The rest of the client, and the server, leave the commands alone.       *)
LEMMA OthersKeepList ==
    ASSUME HookInv, ListInv, UNCHANGED listVars
    PROVE  HookInv' /\ ListInv'
<1>1. UNCHANGED <<next, last, todo, hook>> /\ Missing' = Missing /\ Linked' = Linked
  BY DEF listVars, Missing, Linked
<1> QED
  BY <1>1 DEF HookInv, ListInv

LEMMA ListKeeps ==
    ASSUME HookInv, ListInv, [Next]_vars
    PROVE  HookInv' /\ ListInv'
<1>1. CASE \E t \in Threads : Hook(t)
  BY <1>1, HookReadKeeps, HookLinkKeeps, HookLastKeeps DEF Hook
<1>2. CASE UNCHANGED listVars
  BY <1>2, OthersKeepList
<1>3. CASE Next /\ ~\E t \in Threads : Hook(t)
  <2>1. UNCHANGED listVars
    BY <1>3 DEF Next, Threads, TypeChat, TypeCommand, InputStep, InputEnds,
        DataStep, Joined, Exit, ServerAnswers, ServerReads, ServerRelays, ServerEnds, AtRest,
        PingRegister, PingRequest, PingWait, PingReport, Receive, CallListener,
        NextListener, ReceiveFails, vars
  <2> QED
    BY <2>1, <1>2
<1>4. CASE UNCHANGED vars
  BY <1>2, <1>4 DEF vars
<1> QED
  BY <1>1, <1>3, <1>4

LEMMA TypesSplit ==
    TypeOK <=> RestTypes /\ next \in [Nodes -> Commands \cup {"end"}] /\ last \in Nodes
<1> QED
  BY DEF TypeOK, RestTypes, Nodes

RestInv == RestTypes /\ OneListener /\ PingInv

LEMMA InputKeeps ==
    ASSUME RestInv,
           \/ TypeChat \/ (\E name \in Commands : TypeCommand(name))
           \/ InputStep \/ InputEnds
    PROVE  RestInv'
<1> USE BoundsAssumption DEF RestInv, RestTypes, OneListener, PingInv, Pings,
        NoPing, pingVars, netVars, SendSeen, Reported
<1>1. CASE TypeChat
  <2>1. /\ typed < MaxLines /\ typed' = typed + 1 /\ input = "read"
        /\ input' \in {"read", "ended"}
        /\ UNCHANGED <<main, data, ping, listeners, lock, answered, at>>
        /\ UNCHANGED <<requests, wire, chats>>
    BY <1>1 DEF TypeChat
  <2>2. server' \in {"up", "refused", "closed", "broken", "reset"}
    BY <1>1 DEF TypeChat
  <2>3. alive' \in BOOLEAN /\ unread' \in BOOLEAN
    BY <1>1 DEF TypeChat
  <2> QED
    BY <2>1, <2>2, <2>3
<1>2. ASSUME NEW name \in Commands, TypeCommand(name) PROVE RestInv'
  BY <1>2 DEF TypeCommand
<1>3. CASE PingRegister
  BY <1>3 DEF PingRegister
<1>4. CASE PingRequest
  BY <1>4 DEF PingRequest, SendKills
<1>5. CASE PingWait
  BY <1>5 DEF PingWait
<1>6. CASE PingReport
  BY <1>6 DEF PingReport
<1>7. CASE InputEnds
  BY <1>7 DEF InputEnds
<1> QED
  BY <1>1, <1>2, <1>3, <1>4, <1>5, <1>6, <1>7 DEF InputStep

LEMMA OthersKeep ==
    ASSUME RestInv,
           \/ (\E t \in Threads : Hook(t)) \/ DataStep \/ Joined \/ Exit
           \/ ServerAnswers \/ ServerReads \/ ServerRelays \/ ServerEnds
    PROVE  RestInv'
<1> USE BoundsAssumption DEF RestInv, RestTypes, OneListener, PingInv, Pings,
        NoPing, pingVars, netVars
<1>1. ASSUME NEW t \in Threads, Hook(t) PROVE RestInv'
  BY <1>1 DEF Hook, HookRead, HookLink, HookLast
<1>2. CASE Receive
  <2>1. PICK k \in 1..Len(wire) :
          /\ wire' = SubSeq(wire, k + 1, Len(wire))
          /\ \/ at' \in listeners /\ data' = "call"
             \/ UNCHANGED <<at, data>>
    BY <1>2 DEF Receive
  <2>2. wire' \in Seq({"event", "chat"})
    <3>1. /\ Len(wire) \in Nat /\ k + 1 \in 1..(Len(wire) + 1)
          /\ \A i \in (k + 1)..Len(wire) : wire[i] \in {"event", "chat"}
      OBVIOUS
    <3> QED
      BY <2>1, <3>1
  <2> QED
    BY <1>2, <2>1, <2>2 DEF Receive
<1>3. CASE CallListener
  BY <1>3 DEF CallListener
<1>4. CASE NextListener
  BY <1>4 DEF NextListener
<1>5. CASE ReceiveFails
  <2>1. server' \in {"up", "refused", "closed", "broken", "reset"}
    BY <1>5 DEF ReceiveFails
  <2> QED
    BY <1>5, <2>1 DEF ReceiveFails
<1>6. CASE Joined \/ Exit
  BY <1>6 DEF Joined, Exit
<1>7. CASE ServerAnswers \/ ServerRelays
  <2>1. /\ Append(wire, "event") \in Seq({"event", "chat"})
        /\ Append(wire, "chat") \in Seq({"event", "chat"})
    OBVIOUS
  <2>2. /\ UNCHANGED <<main, input, data, typed, ping, listeners, lock, answered>>
        /\ UNCHANGED <<at, server, alive, unread>>
    BY <1>7 DEF ServerAnswers, ServerRelays
  <2>3. /\ requests' \in 0..MaxLines /\ requests' <= requests
        /\ wire' \in Seq({"event", "chat"}) /\ chats' \in 0..MaxChats
    <3>1. CASE ServerAnswers
      <4>1. requests > 0 /\ requests' = requests - 1 /\ chats' = chats
        BY <3>1 DEF ServerAnswers
      <4>2. wire' = Append(wire, "event")
        BY <3>1 DEF ServerAnswers
      <4> QED
        BY <2>1, <4>1, <4>2
    <3>2. CASE ServerRelays
      <4>1. requests' = requests /\ chats < MaxChats /\ chats' = chats + 1
        BY <3>2 DEF ServerRelays
      <4>2. wire' = Append(wire, "chat")
        BY <3>2 DEF ServerRelays
      <4> QED
        BY <2>1, <4>1, <4>2
    <3> QED
      BY <1>7, <3>1, <3>2
  <2> QED
    BY <2>2, <2>3
<1>8. CASE ServerEnds \/ ServerReads
  <2>1. /\ UNCHANGED <<main, input, data, typed, ping, listeners, lock, answered>>
        /\ UNCHANGED <<at, wire, chats, alive>>
    BY <1>8 DEF ServerEnds, ServerReads
  <2>2. /\ server' \in {"up", "refused", "closed", "broken", "reset"}
        /\ unread' \in BOOLEAN /\ requests' \in {0, requests}
    BY <1>8 DEF ServerEnds, ServerReads
  <2> QED
    BY <2>1, <2>2
<1> QED
  BY <1>1, <1>2, <1>3, <1>4, <1>5, <1>6, <1>7, <1>8 DEF DataStep

LEMMA Invariance == IndInv /\ [Next]_vars => IndInv'
<1> SUFFICES ASSUME IndInv, [Next]_vars PROVE IndInv'
  OBVIOUS
<1>1. HookInv' /\ ListInv'
  BY ListKeeps DEF IndInv
<1>2. RestInv
  BY TypesSplit DEF IndInv, RestInv
<1>3. ASSUME UNCHANGED vars PROVE RestInv'
  BY <1>2, <1>3 DEF vars, pingVars, netVars, RestInv, RestTypes, OneListener, PingInv
<1>4. ASSUME Next PROVE RestInv'
  <2>1. CASE AtRest
    BY <2>1, <1>3 DEF AtRest
  <2> QED
    BY <1>2, <1>4, <2>1, InputKeeps, OthersKeep DEF Next, Threads
<1>5. RestInv'
  BY <1>3, <1>4
<1>6. (RestTypes /\ next \in [Nodes -> Commands \cup {"end"}] /\ last \in Nodes)'
  BY <1>1, <1>5 DEF ListInv, RestInv
<1>7. TypeOK'
  BY <1>6 DEF TypeOK, RestTypes, Nodes
<1> QED
  BY <1>1, <1>5, <1>7 DEF IndInv, RestInv

(* The invariant holds in every state of the client.                       *)
THEOREM Inductive == Spec => []IndInv
<1> QED
  BY InitInv, Invariance, PTL DEF Spec

(* Every variable has values of its kind, however many lines are typed:    *)
(* the loop over the listeners is only ever at a ping that was made        *)
(* (EventListenerHandler.cpp:17-24).                                       *)
THEOREM TypeCorrect == Spec => []TypeOK
<1>1. IndInv => TypeOK
  BY DEF IndInv
<1> QED
  BY <1>1, Inductive, PTL

(* There is a listener in a ping only, and it is the ping's own            *)
(* (CommandPing.cpp:19-28).                                                *)
THEOREM ListenerCorrect == Spec => []OneListener
<1>1. IndInv => OneListener
  BY DEF IndInv
<1> QED
  BY <1>1, Inductive, PTL

(* However the appends of the two threads interleave, a walk of the list   *)
(* of commands ends, and finds only what was begun (CommandHandler.cpp:    *)
(* 25-32, client.cpp:35).                                                  *)
THEOREM ListCorrect == Spec => []ListSound
<1>1. IndInv => ListSound
  <2> SUFFICES ASSUME IndInv PROVE ListSound
    OBVIOUS
  <2> HookInv /\ ListInv
    BY DEF IndInv
  <2>1. Follow(Follow(Follow(next["head"]))) = "end"
    BY DEF ListInv, Follow, Nodes
  <2>2. \A n \in Reachable : n \in Missing => n \in Linked
    BY DEF ListInv, Reachable, Follow, Nodes
  <2>3. ASSUME NEW t \in Threads, hook[t] = NoHook, todo[t] # <<>>,
               Head(todo[t]) \in Reachable
        PROVE  FALSE
    <3>1. Head(todo[t]) \in Missing
      BY <2>3, Registering
    <3>2. PICK u \in Threads : hook[u].step = "last" /\ Head(todo[u]) = Head(todo[t])
      BY <2>2, <2>3, <3>1 DEF Linked
    <3>3. u # t /\ hook[u] # NoHook /\ todo[u] # <<>>
      BY <2>3, <3>2 DEF NoHook, HookInv
    <3> QED
      BY <2>3, <3>2, <3>3, Registering
  <2> QED
    BY <2>1, <2>3 DEF ListSound, Threads
<1> QED
  BY <1>1, Inductive, PTL
=============================================================================
