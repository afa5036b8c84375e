------------------------ MODULE ServerShutdownProofs ------------------------
(***************************************************************************)
(* Safety of the interrupt for any number of clients and of interrupts.    *)
(***************************************************************************)
EXTENDS ServerShutdown, TLAPS

(* Whoever has a thread or is in the map was accepted, whoever waits was   *)
(* not; main starts a thread for the client it has just accepted.          *)
ConnInv ==
    /\ \A c \in Conns : c \in backlog => fd[c] = "none"
    /\ \A c \in Conns : pc[c] # "unborn" => fd[c] # "none"
    /\ \A c \in Conns : Running /\ pc[c] = "erase" => fd[c] = "closed"
    /\ main \in {"insert", "linking", "lock", "spawn"} =>
           /\ newSocket \in Conns
           /\ pc[newSocket] = "unborn"
           /\ fd[newSocket] # "none"

(* As long as no map is broken, an open connection is in the map, but for  *)
(* the one main is about to insert; once the handler is through there is   *)
(* that one at most.                                                       *)
OpenInv ==
    ~torn =>
        /\ \A c \in Conns :
               fd[c] = "open" =>
                   \/ c \in clientSockets
                   \/ main \in {"insert", "linking"} /\ c = newSocket
        /\ "sockets" \in dead => \A c \in Conns : fd[c] = "open" => c = newSocket

(* How far the destruction has gone.                                       *)
DeadInv ==
    /\ Running /\ main \in StartPoints => dead = {} /\ handler # "clients"
    /\ Running /\ main = "publish" => isRunning
    /\ "sockets" \in dead => master = "closed"
    /\ handler = "no" /\ main \notin StartPoints /\ ~isRunning => "sockets" \in dead
    /\ proc = "success" => "sockets" \in dead

IndInv == TypeOK /\ ConnInv /\ OpenInv /\ DeadInv

LEMMA InitInv == Init => IndInv
<1> SUFFICES ASSUME Init PROVE IndInv
  OBVIOUS
<1>1. TypeOK
  <2>1. /\ mut # Main /\ main # "spawn"
        /\ \A c \in Conns : mut # c /\ pc[c] = "unborn"
    BY NamesAssumption DEF Init
  <2>2. signals \in 0..MaxSignals /\ master \in {"none", "open", "listening", "closed"}
    BY SignalsAssumption DEF Init
  <2>3. /\ fd \in [Conns -> {"none", "open", "closed"}]
        /\ pc \in [Conns -> ThreadPoints]
    BY DEF Init, ThreadPoints
  <2>4. main \in MainPoints /\ mut \in Conns \cup {Main, Free}
    BY DEF Init, MainPoints, StartPoints
  <2>5. /\ proc \in {"running", "success", "failure", "crashed"}
        /\ handler \in {"no", "enter", "clients"}
        /\ isRunning \in BOOLEAN /\ dead \subseteq {"threads", "sockets"}
        /\ backlog \subseteq Conns /\ clientSockets \subseteq Conns
        /\ newSocket \in Conns \cup {NoSocket} /\ torn \in BOOLEAN
    BY DEF Init
  <2> QED
    BY <2>1, <2>2, <2>3, <2>4, <2>5 DEF TypeOK
<1>2. ConnInv /\ OpenInv
  BY DEF Init, ConnInv, OpenInv
<1>3. DeadInv
  BY DEF Init, DeadInv, StartPoints
<1> QED
  BY <1>1, <1>2, <1>3 DEF IndInv

(* The constructor: nothing is destroyed yet.                              *)
LEMMA StartKeeps ==
    IndInv /\ (\/ MakeSocket \/ BindSocket \/ ListenOnSocket \/ Publish
               \/ \E point \in StartPoints \ {"publish"} : Fails(point))
        => IndInv'
<1> SUFFICES ASSUME IndInv,
                    \/ MakeSocket \/ BindSocket \/ ListenOnSocket \/ Publish
                    \/ \E point \in StartPoints \ {"publish"} : Fails(point)
             PROVE  IndInv'
  OBVIOUS
<1> USE NamesAssumption
    DEF At, Running, StartPoints, MainPoints, signalVars, objectVars, mapVars, socketVars
<1>1. TypeOK'
  BY DEF IndInv, TypeOK, MakeSocket, BindSocket, ListenOnSocket, Publish, Fails
<1>2. ConnInv' /\ OpenInv'
  BY DEF IndInv, ConnInv, OpenInv, MakeSocket, BindSocket, ListenOnSocket,
     Publish, Fails
<1>3. DeadInv'
  BY DEF IndInv, DeadInv, MakeSocket, BindSocket, ListenOnSocket, Publish, Fails
<1> QED
  BY <1>1, <1>2, <1>3 DEF IndInv

(* runServer: accept() needs the listening socket, which is gone once the  *)
(* handler is through.                                                     *)
LEMMA RunKeeps ==
    IndInv /\ (\/ Test \/ AcceptFails \/ InsertBegin \/ InsertEnd
               \/ Lock \/ Spawn
               \/ \E c \in Conns : Accept(c))
        => IndInv'
<1> SUFFICES ASSUME IndInv,
                    \/ Test \/ AcceptFails \/ InsertBegin \/ InsertEnd
               \/ Lock \/ Spawn
                    \/ \E c \in Conns : Accept(c)
             PROVE  IndInv'
  OBVIOUS
<1> USE NamesAssumption
    DEF At, Running, StartPoints, MainPoints, ThreadPoints, NoSocket, Uses,
        signalVars, objectVars, mapVars, socketVars
<1>1. CASE Test \/ AcceptFails
  <2>1. TypeOK'
    BY <1>1 DEF IndInv, TypeOK, Test, AcceptFails
  <2>2. ConnInv' /\ OpenInv'
    BY <1>1 DEF IndInv, ConnInv, OpenInv, Test, AcceptFails
  <2>3. DeadInv'
    BY <1>1 DEF IndInv, TypeOK, DeadInv, Test, AcceptFails
  <2> QED
    BY <2>1, <2>2, <2>3 DEF IndInv
<1>2. CASE InsertBegin
  BY <1>2 DEF IndInv, TypeOK, ConnInv, OpenInv, DeadInv, InsertBegin
<1>6. CASE InsertEnd
  <2>1. /\ clientSockets' \subseteq Conns
        /\ ~torn => clientSockets' = clientSockets \cup {newSocket}
    BY <1>6 DEF IndInv, TypeOK, ConnInv, InsertEnd, Left
  <2>2. TypeOK'
    BY <1>6, <2>1 DEF IndInv, TypeOK, InsertEnd
  <2>3. ConnInv' /\ DeadInv'
    BY <1>6 DEF IndInv, TypeOK, ConnInv, DeadInv, InsertEnd
  <2>4. OpenInv'
    BY <1>6, <2>1 DEF IndInv, OpenInv, InsertEnd
  <2> QED
    BY <2>2, <2>3, <2>4 DEF IndInv
<1>3. CASE Lock
  BY <1>3 DEF IndInv, TypeOK, ConnInv, OpenInv, DeadInv, Lock
<1>4. CASE Spawn
  <2>1. TypeOK'
    BY <1>4 DEF IndInv, TypeOK, ConnInv, Spawn
  <2>2. ConnInv' /\ OpenInv' /\ DeadInv'
    BY <1>4 DEF IndInv, TypeOK, ConnInv, OpenInv, DeadInv, Spawn
  <2> QED
    BY <2>1, <2>2 DEF IndInv
<1>5. ASSUME NEW c \in Conns, Accept(c) PROVE IndInv'
  <2>1. fd[c] = "none" /\ pc[c] = "unborn" /\ "sockets" \notin dead
    BY <1>5 DEF Accept, IndInv, TypeOK, ConnInv, DeadInv
  <2>2. TypeOK'
    BY <1>5 DEF IndInv, TypeOK, Accept
  <2>3. ConnInv' /\ OpenInv'
    BY <1>5, <2>1 DEF IndInv, TypeOK, ConnInv, OpenInv, Accept
  <2>4. DeadInv'
    BY <1>5, <2>1 DEF IndInv, DeadInv, Accept
  <2> QED
    BY <2>2, <2>3, <2>4 DEF IndInv
<1> QED
  BY <1>1, <1>2, <1>3, <1>4, <1>5, <1>6

(* The handler leaves open only what the map did not hold.                 *)
LEMMA HandlerKeeps ==
    IndInv /\ (HandlerStep \/ Interrupt \/ TornCrash) => IndInv'
<1> SUFFICES ASSUME IndInv, HandlerStep \/ Interrupt \/ TornCrash PROVE IndInv'
  OBVIOUS
<1> USE NamesAssumption, SignalsAssumption
    DEF Running, StartPoints, MainPoints, Uses, signalVars, objectVars, mapVars, socketVars
<1>1. CASE Interrupt
  BY <1>1 DEF Interrupt, IndInv, TypeOK, ConnInv, OpenInv, DeadInv
<1>2. CASE Enter
  <2>3. torn' \in BOOLEAN /\ (torn => torn')
    BY <1>2 DEF Enter, Threading, IndInv, TypeOK
  <2>1. TypeOK' /\ ConnInv' /\ OpenInv'
    BY <1>2, <2>3 DEF Enter, IndInv, TypeOK, ConnInv, OpenInv
  <2>2. DeadInv'
    BY <1>2 DEF Enter, IndInv, TypeOK, DeadInv
  <2> QED
    BY <2>1, <2>2 DEF IndInv
<1>3. CASE CloseMaster
  <2>1. TypeOK' /\ ConnInv'
    BY <1>3 DEF CloseMaster, IndInv, TypeOK, ConnInv
  <2>2. OpenInv'
    BY <1>3 DEF CloseMaster, IndInv, TypeOK, OpenInv
  <2>3. DeadInv'
    BY <1>3 DEF CloseMaster, IndInv, TypeOK, DeadInv
  <2> QED
    BY <2>1, <2>2, <2>3 DEF IndInv
<1>4. ASSUME NEW c \in Conns, CloseClient(c) PROVE IndInv'
  <2>1. TypeOK' /\ DeadInv'
    BY <1>4 DEF CloseClient, IndInv, TypeOK, DeadInv
  <2>2. ConnInv' /\ OpenInv'
    BY <1>4 DEF CloseClient, IndInv, TypeOK, ConnInv, OpenInv
  <2> QED
    BY <2>1, <2>2 DEF IndInv
<1>5. CASE TornCrash
  BY <1>5 DEF TornCrash, IndInv, TypeOK, ConnInv, OpenInv, DeadInv
<1> QED
  BY <1>1, <1>2, <1>3, <1>4, <1>5 DEF HandlerStep

(* The threads and the clients. *)
LEMMA ThreadKeeps ==
    ASSUME NEW c \in Conns, IndInv, Connect(c) \/ ThreadStep(c)
    PROVE  IndInv'
<1> USE NamesAssumption
    DEF In, Goto, Running, StartPoints, MainPoints, ThreadPoints, Uses,
        signalVars, objectVars, mapVars, socketVars
<1>1. CASE Connect(c)
  <2>1. TypeOK'
    BY <1>1 DEF Connect, IndInv, TypeOK
  <2>2. ConnInv' /\ OpenInv'
    BY <1>1 DEF Connect, IndInv, TypeOK, ConnInv, OpenInv
  <2>3. DeadInv'
    BY <1>1 DEF Connect, IndInv, TypeOK, DeadInv
  <2> QED
    BY <2>1, <2>2, <2>3 DEF IndInv
<1>2. CASE Speak(c) \/ Quit(c)
  <2>1. TypeOK'
    <3>1. CASE Speak(c)
      BY <3>1 DEF Speak, Take, IndInv, TypeOK
    <3>2. CASE Quit(c)
      BY <3>2 DEF Quit, Take, IndInv, TypeOK
    <3> QED
      BY <1>2, <3>1, <3>2
  <2>2. ConnInv'
    BY <1>2 DEF Speak, Quit, Take, IndInv, TypeOK, ConnInv
  <2>3. OpenInv'
    BY <1>2 DEF Speak, Quit, Take, IndInv, TypeOK, OpenInv
  <2>4. DeadInv'
    BY <1>2 DEF Speak, Quit, Take, IndInv, TypeOK, DeadInv
  <2> QED
    BY <2>1, <2>2, <2>3, <2>4 DEF IndInv
<1>3. CASE Sent(c)
  <2>1. TypeOK'
    BY <1>3 DEF Sent, IndInv, TypeOK
  <2>2. ConnInv'
    BY <1>3 DEF Sent, IndInv, TypeOK, ConnInv
  <2>3. OpenInv'
    BY <1>3 DEF Sent, IndInv, TypeOK, OpenInv
  <2>4. DeadInv'
    BY <1>3 DEF Sent, IndInv, TypeOK, DeadInv
  <2> QED
    BY <2>1, <2>2, <2>3, <2>4 DEF IndInv
<1>4. CASE Read(c)
  <2>1. TypeOK'
    BY <1>4 DEF Read, IndInv, TypeOK
  <2>2. ConnInv' /\ OpenInv'
    BY <1>4 DEF Read, IndInv, TypeOK, ConnInv, OpenInv
  <2>3. DeadInv'
    BY <1>4 DEF Read, IndInv, TypeOK, DeadInv
  <2> QED
    BY <2>1, <2>2, <2>3 DEF IndInv
<1>5. CASE Leave(c)
  <2>1. TypeOK'
    BY <1>5 DEF Leave, IndInv, TypeOK
  <2>2. ConnInv'
    BY <1>5 DEF Leave, IndInv, TypeOK, ConnInv
  <2>3. OpenInv'
    BY <1>5 DEF Leave, IndInv, TypeOK, OpenInv
  <2>4. DeadInv'
    BY <1>5 DEF Leave, IndInv, TypeOK, DeadInv
  <2> QED
    BY <2>1, <2>2, <2>3, <2>4 DEF IndInv
<1>6. CASE Erase(c)
  <2>5. /\ torn' \in BOOLEAN /\ (torn => torn')
        /\ clientSockets' \subseteq Conns
        /\ ~torn' => clientSockets' = clientSockets \ {c}
    BY <1>6 DEF Erase, Left, IndInv, TypeOK
  <2>1. TypeOK'
    BY <1>6, <2>5 DEF Erase, IndInv, TypeOK
  <2>2. ConnInv'
    BY <1>6 DEF Erase, IndInv, TypeOK, ConnInv
  <2>3. OpenInv'
    <3>1. fd[c] # "open"
      BY <1>6 DEF Erase, IndInv, ConnInv
    <3>2. UNCHANGED <<fd, dead, main, newSocket>>
      BY <1>6 DEF Erase
    <3> QED
      BY <3>1, <3>2, <2>5 DEF IndInv, OpenInv
  <2>4. DeadInv'
    BY <1>6 DEF Erase, IndInv, TypeOK, DeadInv
  <2> QED
    BY <2>1, <2>2, <2>3, <2>4 DEF IndInv
<1>7. CASE Retire(c)
  <2>1. TypeOK'
    BY <1>7 DEF Retire, IndInv, TypeOK
  <2>2. ConnInv' /\ OpenInv'
    BY <1>7 DEF Retire, IndInv, TypeOK, ConnInv, OpenInv
  <2>3. DeadInv'
    BY <1>7 DEF Retire, IndInv, TypeOK, DeadInv
  <2> QED
    BY <2>1, <2>2, <2>3 DEF IndInv
<1> QED
  BY <1>1, <1>2, <1>3, <1>4, <1>5, <1>6, <1>7 DEF ThreadStep

LEMMA StutterKeeps == IndInv /\ UNCHANGED vars => IndInv'
  BY DEF vars, signalVars, objectVars, mapVars, socketVars, IndInv, TypeOK, ConnInv,
     OpenInv, DeadInv, Running

(* The invariant holds for any clients and any number of interrupts.       *)
THEOREM Inductive == Spec => []IndInv
<1>1. IndInv /\ [Next]_vars => IndInv'
  BY StartKeeps, RunKeeps, HandlerKeeps, ThreadKeeps, StutterKeeps
     DEF Next, MainStep
<1> QED
  BY InitInv, <1>1, PTL DEF Spec

(* mut is held by the one thread that is inside, and by nobody else, also  *)
(* while the handler runs (TCPChatServer.cpp:54-58, 66-77, 143-158).       *)
THEOREM TypeCorrect == Spec => []TypeOK
<1>1. IndInv => TypeOK
  BY DEF IndInv
<1> QED
  BY Inductive, <1>1, PTL

(* A process that ends in order after any number of interrupts has left at *)
(* most one connection open, unless two have used a map at once            *)
(* (TCPServer.cpp:85-93, 145-152, 163-168).                                *)
THEOREM OneLeftCorrect == Spec => []OneLeftOpen
<1>1. IndInv => OneLeftOpen
  BY DEF IndInv, OpenInv, DeadInv, OneLeftOpen
<1> QED
  BY Inductive, <1>1, PTL

(* Whatever main and the threads do after the handler, no connection is    *)
(* accepted any more (TCPChatServer.cpp:40-51, TCPServer.cpp:161-182).     *)
THEOREM NoneAcceptedCorrect == Spec => NoneAcceptedAfter
<1> DEFINE Step == \A c \in Conns :
               fd[c] = "none" /\ fd'[c] = "open" => "sockets" \notin dead
<1>1. IndInv /\ [Next]_vars => [Step]_vars
  <2> SUFFICES ASSUME IndInv, Next,
                      NEW c \in Conns, fd[c] = "none", fd'[c] = "open"
               PROVE  "sockets" \notin dead
    BY DEF vars
  <2> USE DEF IndInv, TypeOK
  <2>1. ASSUME NEW d \in Conns, Accept(d) PROVE "sockets" \notin dead
    BY <2>1 DEF Accept, DeadInv
  <2>2. CASE fd' = fd
    BY <2>2
  <2>3. ASSUME NEW d \in Conns, CloseClient(d) \/ Leave(d) PROVE FALSE
    BY <2>3 DEF CloseClient, Leave
  <2>4. (\E d \in Conns : Accept(d) \/ CloseClient(d) \/ Leave(d)) \/ fd' = fd
    BY DEF Next, MainStep, HandlerStep, ThreadStep, MakeSocket, BindSocket,
       ListenOnSocket, Publish, Fails, Test, AcceptFails, Lock, Spawn,
       Interrupt, Enter, CloseMaster, Connect, Speak, Quit, Take, Sent, Read,
       Erase, Retire, TornCrash, InsertBegin, InsertEnd, mapVars, socketVars
  <2> QED
    BY <2>1, <2>2, <2>3, <2>4
<1> QED
  BY Inductive, <1>1, PTL DEF Spec, NoneAcceptedAfter
=============================================================================
