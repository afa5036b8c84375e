-------------------------- MODULE ChatServerProofs --------------------------
(***************************************************************************)
(* Proofs about ChatServer for any number of connections and descriptors.  *)
(* One lemma per part of the inductive invariant, one step per action;     *)
(* then the invariant, and the properties it implies; last, that every     *)
(* step of the server is a step of the room or none.                       *)
(***************************************************************************)
EXTENDS ChatServerInv, ChatServerRoom, SequenceTheorems, TLAPS

(* A send leaves messages in the buffers and links among the links.        *)
LEMMA TransmitTypes ==
    ASSUME KernelTypes, NEW d, NEW m \in Message, Transmit(d, m)
    PROVE  inbox' \in [Conns -> Seq(Message)] /\ link' \in [Conns -> Links]
PROOF
<1>. USE DEF KernelTypes
<1>1. CASE link[d] = "up"
  <2>1. inbox' = [inbox EXCEPT ![d] = Append(@, m)] /\ link' = link
    BY <1>1 DEF Transmit
  <2>2. d \in Conns => Append(inbox[d], m) \in Seq(Message)
    BY AppendProperties
  <2>. QED
    BY <2>1, <2>2
<1>2. CASE link[d] = "fin"
  BY <1>2 DEF Transmit, Links
<1>. QED
  BY <1>1, <1>2 DEF Transmit

(* Every step keeps the types of the kernel variables. *)
LEMMA KernelTypesStep ==
    ASSUME IndInv, [Next]_vars
    PROVE  KernelTypes'
PROOF
<1>. USE NamesAssumption DEF TypeOK, KernelTypes, SharedTypes, ThreadTypes,
      Links, vars, kernelVars, mapVars, mainVars, threadVars, Up, At, In, Goto
<1>. TypeOK BY DEF IndInv
<1>1. ASSUME NEW c \in Conns, Accept(c) PROVE KernelTypes'
  BY <1>1 DEF Accept
<1>2. ASSUME InsertBegin PROVE KernelTypes'
  BY <1>2 DEF InsertBegin
<1>3. ASSUME InsertEnd PROVE KernelTypes'
  BY <1>3 DEF InsertEnd
<1>4. ASSUME LockThreads PROVE KernelTypes'
  BY <1>4 DEF LockThreads
<1>5. ASSUME SpawnThread PROVE KernelTypes'
  BY <1>5 DEF SpawnThread
<1>6. ASSUME RecordThread PROVE KernelTypes'
  BY <1>6 DEF RecordThread
<1>7. ASSUME AcceptFails \/ TornCrash PROVE KernelTypes'
  BY <1>7 DEF AcceptFails, TornCrash
<1>8. ASSUME NEW c \in Conns, Distribute(c) PROVE KernelTypes'
  BY <1>8 DEF Distribute
<1>9. ASSUME NEW c \in Conns, SendNext(c) PROVE KernelTypes'
  <2>1. [kind |-> out[c], from |-> c] \in Message
    BY DEF Message, Notices
  <2>. QED
    BY <1>9, <2>1, TransmitTypes DEF SendNext
<1>10. ASSUME NEW c \in Conns, SendDies(c) PROVE KernelTypes'
  BY <1>10 DEF SendDies
<1>11. ASSUME NEW c \in Conns, EndDistribute(c) PROVE KernelTypes'
  BY <1>11 DEF EndDistribute
<1>12. ASSUME NEW c \in Conns, ReadData(c) PROVE KernelTypes'
  <2>1. PICK k \in 1..Len(wire[c]) :
           wire' = [wire EXCEPT ![c] = SubSeq(wire[c], k + 1, Len(wire[c]))]
    BY <1>12 DEF ReadData
  <2>2. SubSeq(wire[c], k + 1, Len(wire[c])) \in Seq(Lines)
    BY <2>1, SubSeqProperties
  <2>. QED
    BY <1>12, <2>1, <2>2 DEF ReadData
<1>13. ASSUME NEW c \in Conns, ReadEnd(c) PROVE KernelTypes'
  BY <1>13 DEF ReadEnd
<1>14. ASSUME NEW c \in Conns, SendPong(c) PROVE KernelTypes'
  <2>1. [kind |-> "pong", from |-> c] \in Message
    BY DEF Message
  <2>. QED
    BY <1>14, <2>1, TransmitTypes DEF SendPong
<1>15. ASSUME NEW c \in Conns, LockToClose(c) PROVE KernelTypes'
  BY <1>15 DEF LockToClose
<1>16. ASSUME NEW c \in Conns, CloseFd(c) PROVE KernelTypes'
  BY <1>16 DEF CloseFd
<1>17. ASSUME NEW c \in Conns, EraseClient(c) PROVE KernelTypes'
  BY <1>17 DEF EraseClient
<1>18. ASSUME NEW c \in Conns, Retire(c) PROVE KernelTypes'
  BY <1>18 DEF Retire
<1>19. ASSUME NEW c \in Conns, Connect(c) PROVE KernelTypes'
  BY <1>19 DEF Connect
<1>20. ASSUME NEW c \in Conns, ClientSends(c) PROVE KernelTypes'
  BY <1>20 DEF ClientSends
<1>21. ASSUME NEW c \in Conns, ClientReads(c) PROVE KernelTypes'
  BY <1>21 DEF ClientReads
<1>22. ASSUME NEW c \in Conns, ClientExits(c) PROVE KernelTypes'
  BY <1>22 DEF ClientExits
<1>23. CASE UNCHANGED vars
  BY <1>23
<1>. QED
  BY <1>1, <1>2, <1>3, <1>4, <1>5, <1>6, <1>7, <1>8, <1>9, <1>10, <1>11,
        <1>12, <1>13, <1>14, <1>15, <1>16, <1>17, <1>18, <1>19, <1>20, <1>21,
        <1>22, <1>23
  DEF Next, MainStep, ThreadStep, ClientStep, AtRest

(* Every step keeps the types of the shared variables. *)
LEMMA SharedTypesStep ==
    ASSUME IndInv, [Next]_vars
    PROVE  SharedTypes'
PROOF
<1>. USE NamesAssumption DEF TypeOK, KernelTypes, SharedTypes, ThreadTypes,
      MainInv, Pending, MainPoints, vars, kernelVars, mapVars, mainVars,
      threadVars, Up, At, In, Goto
<1>. TypeOK /\ MainInv /\ OwnSocketInv BY DEF IndInv
<1>1. ASSUME NEW c \in Conns, Accept(c) PROVE SharedTypes'
  BY <1>1 DEF Accept
<1>2. ASSUME InsertBegin PROVE SharedTypes'
  BY <1>2 DEF InsertBegin
<1>3. ASSUME InsertEnd PROVE SharedTypes'
  BY <1>3 DEF InsertEnd
<1>4. ASSUME LockThreads PROVE SharedTypes'
  BY <1>4 DEF LockThreads
<1>5. ASSUME SpawnThread PROVE SharedTypes'
  BY <1>5 DEF SpawnThread
<1>6. ASSUME RecordThread PROVE SharedTypes'
  BY <1>6 DEF RecordThread
<1>7. ASSUME AcceptFails \/ TornCrash PROVE SharedTypes'
  BY <1>7 DEF AcceptFails, TornCrash
<1>8. ASSUME NEW c \in Conns, Distribute(c) PROVE SharedTypes'
  BY <1>8 DEF Distribute
<1>9. ASSUME NEW c \in Conns, SendNext(c) PROVE SharedTypes'
  BY <1>9 DEF SendNext
<1>10. ASSUME NEW c \in Conns, SendDies(c) PROVE SharedTypes'
  BY <1>10 DEF SendDies
<1>11. ASSUME NEW c \in Conns, EndDistribute(c) PROVE SharedTypes'
  BY <1>11 DEF EndDistribute
<1>12. ASSUME NEW c \in Conns, ReadData(c) PROVE SharedTypes'
  BY <1>12 DEF ReadData
<1>13. ASSUME NEW c \in Conns, ReadEnd(c) PROVE SharedTypes'
  BY <1>13 DEF ReadEnd
<1>14. ASSUME NEW c \in Conns, SendPong(c) PROVE SharedTypes'
  BY <1>14 DEF SendPong
<1>15. ASSUME NEW c \in Conns, LockToClose(c) PROVE SharedTypes'
  BY <1>15 DEF LockToClose
<1>16. ASSUME NEW c \in Conns, CloseFd(c) PROVE SharedTypes'
  BY <1>16 DEF CloseFd
<1>17. ASSUME NEW c \in Conns, EraseClient(c) PROVE SharedTypes'
  <2>1. Robs(c) \subseteq Conns
    BY <1>17 DEF EraseClient, Robs, OwnSocketInv
  <2>2. clientSockets' \subseteq clientSockets /\ robbed' \subseteq Conns
    BY <1>17, <2>1 DEF EraseClient
  <2>3. torn' \in BOOLEAN /\ alive' \in BOOLEAN
    BY <1>17 DEF EraseClient
  <2>4. mut' = Free /\ UNCHANGED <<threads, main, clientSocket>>
    BY <1>17 DEF EraseClient
  <2>. QED
    BY <2>2, <2>3, <2>4
<1>18. ASSUME NEW c \in Conns, Retire(c) PROVE SharedTypes'
  BY <1>18 DEF Retire
<1>19. ASSUME NEW c \in Conns, Connect(c) PROVE SharedTypes'
  BY <1>19 DEF Connect
<1>20. ASSUME NEW c \in Conns, ClientSends(c) PROVE SharedTypes'
  BY <1>20 DEF ClientSends
<1>21. ASSUME NEW c \in Conns, ClientReads(c) PROVE SharedTypes'
  BY <1>21 DEF ClientReads
<1>22. ASSUME NEW c \in Conns, ClientExits(c) PROVE SharedTypes'
  BY <1>22 DEF ClientExits
<1>23. CASE UNCHANGED vars
  BY <1>23
<1>. QED
  BY <1>1, <1>2, <1>3, <1>4, <1>5, <1>6, <1>7, <1>8, <1>9, <1>10, <1>11,
        <1>12, <1>13, <1>14, <1>15, <1>16, <1>17, <1>18, <1>19, <1>20, <1>21,
        <1>22, <1>23
  DEF Next, MainStep, ThreadStep, ClientStep, AtRest

(* Every step keeps the types of the thread variables. *)
LEMMA ThreadTypesStep ==
    ASSUME IndInv, [Next]_vars
    PROVE  ThreadTypes'
PROOF
<1>. USE NamesAssumption DEF TypeOK, KernelTypes, SharedTypes, ThreadTypes,
      ThreadPoints, Notices, vars, kernelVars, mapVars, mainVars, threadVars,
      Up, At, In, Goto
<1>. TypeOK BY DEF IndInv
<1>1. ASSUME NEW c \in Conns, Accept(c) PROVE ThreadTypes'
  BY <1>1 DEF Accept
<1>2. ASSUME InsertBegin PROVE ThreadTypes'
  BY <1>2 DEF InsertBegin
<1>3. ASSUME InsertEnd PROVE ThreadTypes'
  BY <1>3 DEF InsertEnd
<1>4. ASSUME LockThreads PROVE ThreadTypes'
  BY <1>4 DEF LockThreads
<1>5. ASSUME SpawnThread PROVE ThreadTypes'
  BY <1>5 DEF SpawnThread
<1>6. ASSUME RecordThread PROVE ThreadTypes'
  BY <1>6 DEF RecordThread
<1>7. ASSUME AcceptFails \/ TornCrash PROVE ThreadTypes'
  BY <1>7 DEF AcceptFails, TornCrash
<1>8. ASSUME NEW c \in Conns, Distribute(c) PROVE ThreadTypes'
  BY <1>8 DEF Distribute
<1>9. ASSUME NEW c \in Conns, SendNext(c) PROVE ThreadTypes'
  BY <1>9 DEF SendNext
<1>10. ASSUME NEW c \in Conns, SendDies(c) PROVE ThreadTypes'
  BY <1>10 DEF SendDies
<1>11. ASSUME NEW c \in Conns, EndDistribute(c) PROVE ThreadTypes'
  BY <1>11 DEF EndDistribute
<1>12. ASSUME NEW c \in Conns, ReadData(c) PROVE ThreadTypes'
  BY <1>12 DEF ReadData
<1>13. ASSUME NEW c \in Conns, ReadEnd(c) PROVE ThreadTypes'
  BY <1>13 DEF ReadEnd
<1>14. ASSUME NEW c \in Conns, SendPong(c) PROVE ThreadTypes'
  BY <1>14 DEF SendPong
<1>15. ASSUME NEW c \in Conns, LockToClose(c) PROVE ThreadTypes'
  BY <1>15 DEF LockToClose
<1>16. ASSUME NEW c \in Conns, CloseFd(c) PROVE ThreadTypes'
  BY <1>16 DEF CloseFd
<1>17. ASSUME NEW c \in Conns, EraseClient(c) PROVE ThreadTypes'
  BY <1>17 DEF EraseClient
<1>18. ASSUME NEW c \in Conns, Retire(c) PROVE ThreadTypes'
  BY <1>18 DEF Retire
<1>19. ASSUME NEW c \in Conns, Connect(c) PROVE ThreadTypes'
  BY <1>19 DEF Connect
<1>20. ASSUME NEW c \in Conns, ClientSends(c) PROVE ThreadTypes'
  BY <1>20 DEF ClientSends
<1>21. ASSUME NEW c \in Conns, ClientReads(c) PROVE ThreadTypes'
  BY <1>21 DEF ClientReads
<1>22. ASSUME NEW c \in Conns, ClientExits(c) PROVE ThreadTypes'
  BY <1>22 DEF ClientExits
<1>23. CASE UNCHANGED vars
  BY <1>23
<1>. QED
  BY <1>1, <1>2, <1>3, <1>4, <1>5, <1>6, <1>7, <1>8, <1>9, <1>10, <1>11,
        <1>12, <1>13, <1>14, <1>15, <1>16, <1>17, <1>18, <1>19, <1>20, <1>21,
        <1>22, <1>23
  DEF Next, MainStep, ThreadStep, ClientStep, AtRest

(* No step takes mut from a thread or from main. *)
LEMMA MutexStep ==
    ASSUME IndInv, [Next]_vars
    PROVE  MutexInv'
PROOF
<1>. USE NamesAssumption DEF TypeOK, KernelTypes, SharedTypes, ThreadTypes,
      MutexInv, HolderInside, vars, kernelVars, mapVars, mainVars, threadVars, Up, At, In,
      Goto
<1>. TypeOK /\ MutexInv BY DEF IndInv
<1>1. ASSUME NEW c \in Conns, Accept(c) PROVE MutexInv'
  BY <1>1 DEF Accept
<1>2. ASSUME InsertBegin PROVE MutexInv'
  BY <1>2 DEF InsertBegin
<1>3. ASSUME InsertEnd PROVE MutexInv'
  BY <1>3 DEF InsertEnd
<1>4. ASSUME LockThreads PROVE MutexInv'
  BY <1>4 DEF LockThreads
<1>5. ASSUME SpawnThread PROVE MutexInv'
  BY <1>5 DEF SpawnThread
<1>6. ASSUME RecordThread PROVE MutexInv'
  BY <1>6 DEF RecordThread
<1>7. ASSUME AcceptFails \/ TornCrash PROVE MutexInv'
  BY <1>7 DEF AcceptFails, TornCrash
<1>8. ASSUME NEW c \in Conns, Distribute(c) PROVE MutexInv'
  BY <1>8 DEF Distribute
<1>9. ASSUME NEW c \in Conns, SendNext(c) PROVE MutexInv'
  BY <1>9 DEF SendNext
<1>10. ASSUME NEW c \in Conns, SendDies(c) PROVE MutexInv'
  BY <1>10 DEF SendDies
<1>11. ASSUME NEW c \in Conns, EndDistribute(c) PROVE MutexInv'
  BY <1>11 DEF EndDistribute
<1>12. ASSUME NEW c \in Conns, ReadData(c) PROVE MutexInv'
  BY <1>12 DEF ReadData
<1>13. ASSUME NEW c \in Conns, ReadEnd(c) PROVE MutexInv'
  BY <1>13 DEF ReadEnd
<1>14. ASSUME NEW c \in Conns, SendPong(c) PROVE MutexInv'
  BY <1>14 DEF SendPong
<1>15. ASSUME NEW c \in Conns, LockToClose(c) PROVE MutexInv'
  BY <1>15 DEF LockToClose
<1>16. ASSUME NEW c \in Conns, CloseFd(c) PROVE MutexInv'
  BY <1>16 DEF CloseFd
<1>17. ASSUME NEW c \in Conns, EraseClient(c) PROVE MutexInv'
  BY <1>17 DEF EraseClient
<1>18. ASSUME NEW c \in Conns, Retire(c) PROVE MutexInv'
  BY <1>18 DEF Retire
<1>19. ASSUME NEW c \in Conns, Connect(c) PROVE MutexInv'
  BY <1>19 DEF Connect
<1>20. ASSUME NEW c \in Conns, ClientSends(c) PROVE MutexInv'
  BY <1>20 DEF ClientSends
<1>21. ASSUME NEW c \in Conns, ClientReads(c) PROVE MutexInv'
  BY <1>21 DEF ClientReads
<1>22. ASSUME NEW c \in Conns, ClientExits(c) PROVE MutexInv'
  BY <1>22 DEF ClientExits
<1>23. CASE UNCHANGED vars
  BY <1>23
<1>. QED
  BY <1>1, <1>2, <1>3, <1>4, <1>5, <1>6, <1>7, <1>8, <1>9, <1>10, <1>11,
        <1>12, <1>13, <1>14, <1>15, <1>16, <1>17, <1>18, <1>19, <1>20, <1>21,
        <1>22, <1>23
  DEF Next, MainStep, ThreadStep, ClientStep, AtRest

(* A quit notice is never replaced. *)
LEMMA OutStep ==
    ASSUME IndInv, [Next]_vars
    PROVE  OutInv'
PROOF
<1>. USE NamesAssumption DEF TypeOK, KernelTypes, SharedTypes, ThreadTypes,
      OutInv, vars, kernelVars, mapVars, mainVars, threadVars, Up, At, In,
      Goto
<1>. TypeOK /\ OutInv BY DEF IndInv
<1>1. ASSUME NEW c \in Conns, Accept(c) PROVE OutInv'
  BY <1>1 DEF Accept
<1>2. ASSUME InsertBegin PROVE OutInv'
  BY <1>2 DEF InsertBegin
<1>3. ASSUME InsertEnd PROVE OutInv'
  BY <1>3 DEF InsertEnd
<1>4. ASSUME LockThreads PROVE OutInv'
  BY <1>4 DEF LockThreads
<1>5. ASSUME SpawnThread PROVE OutInv'
  BY <1>5 DEF SpawnThread
<1>6. ASSUME RecordThread PROVE OutInv'
  BY <1>6 DEF RecordThread
<1>7. ASSUME AcceptFails \/ TornCrash PROVE OutInv'
  BY <1>7 DEF AcceptFails, TornCrash
<1>8. ASSUME NEW c \in Conns, Distribute(c) PROVE OutInv'
  BY <1>8 DEF Distribute
<1>9. ASSUME NEW c \in Conns, SendNext(c) PROVE OutInv'
  BY <1>9 DEF SendNext
<1>10. ASSUME NEW c \in Conns, SendDies(c) PROVE OutInv'
  BY <1>10 DEF SendDies
<1>11. ASSUME NEW c \in Conns, EndDistribute(c) PROVE OutInv'
  BY <1>11 DEF EndDistribute
<1>12. ASSUME NEW c \in Conns, ReadData(c) PROVE OutInv'
  BY <1>12 DEF ReadData
<1>13. ASSUME NEW c \in Conns, ReadEnd(c) PROVE OutInv'
  BY <1>13 DEF ReadEnd
<1>14. ASSUME NEW c \in Conns, SendPong(c) PROVE OutInv'
  BY <1>14 DEF SendPong
<1>15. ASSUME NEW c \in Conns, LockToClose(c) PROVE OutInv'
  BY <1>15 DEF LockToClose
<1>16. ASSUME NEW c \in Conns, CloseFd(c) PROVE OutInv'
  BY <1>16 DEF CloseFd
<1>17. ASSUME NEW c \in Conns, EraseClient(c) PROVE OutInv'
  BY <1>17 DEF EraseClient
<1>18. ASSUME NEW c \in Conns, Retire(c) PROVE OutInv'
  BY <1>18 DEF Retire
<1>19. ASSUME NEW c \in Conns, Connect(c) PROVE OutInv'
  BY <1>19 DEF Connect
<1>20. ASSUME NEW c \in Conns, ClientSends(c) PROVE OutInv'
  BY <1>20 DEF ClientSends
<1>21. ASSUME NEW c \in Conns, ClientReads(c) PROVE OutInv'
  BY <1>21 DEF ClientReads
<1>22. ASSUME NEW c \in Conns, ClientExits(c) PROVE OutInv'
  BY <1>22 DEF ClientExits
<1>23. CASE UNCHANGED vars
  BY <1>23
<1>. QED
  BY <1>1, <1>2, <1>3, <1>4, <1>5, <1>6, <1>7, <1>8, <1>9, <1>10, <1>11,
        <1>12, <1>13, <1>14, <1>15, <1>16, <1>17, <1>18, <1>19, <1>20, <1>21,
        <1>22, <1>23
  DEF Next, MainStep, ThreadStep, ClientStep, AtRest

(* A connection is in one place at a time. *)
LEMMA ConnStep ==
    ASSUME IndInv, [Next]_vars
    PROVE  ConnInv'
PROOF
<1>. USE NamesAssumption DEF TypeOK, KernelTypes, SharedTypes, ThreadTypes,
      MutexInv, OutInv, ConnInv, MainInv, OwnSocketInv, Open, Pending, vars,
      kernelVars, mapVars, mainVars, threadVars, Up, At, In, Goto
<1>. TypeOK /\ MutexInv /\ OutInv /\ ConnInv /\ MainInv /\ OwnSocketInv BY DEF
      IndInv
<1>1. ASSUME NEW c \in Conns, Accept(c) PROVE ConnInv'
  BY <1>1 DEF Accept
<1>2. ASSUME InsertBegin PROVE ConnInv'
  BY <1>2 DEF InsertBegin
<1>3. ASSUME InsertEnd PROVE ConnInv'
  BY <1>3 DEF InsertEnd
<1>4. ASSUME LockThreads PROVE ConnInv'
  BY <1>4 DEF LockThreads
<1>5. ASSUME SpawnThread PROVE ConnInv'
  BY <1>5 DEF SpawnThread
<1>6. ASSUME RecordThread PROVE ConnInv'
  BY <1>6 DEF RecordThread
<1>7. ASSUME AcceptFails \/ TornCrash PROVE ConnInv'
  BY <1>7 DEF AcceptFails, TornCrash
<1>8. ASSUME NEW c \in Conns, Distribute(c) PROVE ConnInv'
  BY <1>8 DEF Distribute
<1>9. ASSUME NEW c \in Conns, SendNext(c) PROVE ConnInv'
  <2>1. \A x \in Conns : link[x] # "new" => link'[x] # "new"
    BY <1>9 DEF SendNext, Transmit, Links
  <2>2. UNCHANGED <<fdTable, backlog, mainVars, pc, socket, out>>
    BY <1>9 DEF SendNext
  <2>. QED
    BY <2>1, <2>2
<1>10. ASSUME NEW c \in Conns, SendDies(c) PROVE ConnInv'
  BY <1>10 DEF SendDies
<1>11. ASSUME NEW c \in Conns, EndDistribute(c) PROVE ConnInv'
  BY <1>11 DEF EndDistribute
<1>12. ASSUME NEW c \in Conns, ReadData(c) PROVE ConnInv'
  <2>1. /\ UNCHANGED <<fdTable, backlog, link, mainVars, socket>>
        /\ pc[c] = "read"
    BY <1>12 DEF ReadData
  <2>2. /\ pc' \in {[pc EXCEPT ![c] = p] : p \in {"wait", "pong", "read"}}
        /\ out' \in {out, [out EXCEPT ![c] = "chat"]}
    BY <1>12 DEF ReadData
  <2>3. \A x \in Conns : /\ pc'[x] = "unborn" <=> pc[x] = "unborn"
                         /\ Open(x) => Open(x)'
                         /\ Pending(x) => Pending(x)'
    BY <2>1, <2>2
  <2>. HIDE DEF Open, Pending
  <2>. QED
    BY <2>1, <2>3
<1>13. ASSUME NEW c \in Conns, ReadEnd(c) PROVE ConnInv'
  BY <1>13 DEF ReadEnd
<1>14. ASSUME NEW c \in Conns, SendPong(c) PROVE ConnInv'
  <2>1. \A x \in Conns : link[x] # "new" => link'[x] # "new"
    BY <1>14 DEF SendPong, Transmit, Links
  <2>2. /\ UNCHANGED <<fdTable, backlog, mainVars, socket, out>>
        /\ pc' = [pc EXCEPT ![c] = "read"]
        /\ pc[c] = "pong"
    BY <1>14 DEF SendPong
  <2>. QED
    BY <2>1, <2>2
<1>15. ASSUME NEW c \in Conns, LockToClose(c) PROVE ConnInv'
  BY <1>15 DEF LockToClose
<1>16. ASSUME NEW c \in Conns, CloseFd(c) PROVE ConnInv'
  BY <1>16 DEF CloseFd
<1>17. ASSUME NEW c \in Conns, EraseClient(c) PROVE ConnInv'
  BY <1>17 DEF EraseClient
<1>18. ASSUME NEW c \in Conns, Retire(c) PROVE ConnInv'
  BY <1>18 DEF Retire
<1>19. ASSUME NEW c \in Conns, Connect(c) PROVE ConnInv'
  BY <1>19 DEF Connect
<1>20. ASSUME NEW c \in Conns, ClientSends(c) PROVE ConnInv'
  BY <1>20 DEF ClientSends
<1>21. ASSUME NEW c \in Conns, ClientReads(c) PROVE ConnInv'
  BY <1>21 DEF ClientReads
<1>22. ASSUME NEW c \in Conns, ClientExits(c) PROVE ConnInv'
  BY <1>22 DEF ClientExits
<1>23. CASE UNCHANGED vars
  BY <1>23
<1>. QED
  BY <1>1, <1>2, <1>3, <1>4, <1>5, <1>6, <1>7, <1>8, <1>9, <1>10, <1>11,
        <1>12, <1>13, <1>14, <1>15, <1>16, <1>17, <1>18, <1>19, <1>20, <1>21,
        <1>22, <1>23
  DEF Next, MainStep, ThreadStep, ClientStep, AtRest

(* Nothing takes the accepted connection from the main thread. *)
LEMMA MainStepInv ==
    ASSUME IndInv, [Next]_vars
    PROVE  MainInv'
PROOF
<1>. USE NamesAssumption DEF TypeOK, KernelTypes, SharedTypes, ThreadTypes,
      MutexInv, OutInv, ConnInv, MainInv, OwnSocketInv, Open, Pending, vars,
      kernelVars, mapVars, mainVars, threadVars, Up, At, In, Goto
<1>. TypeOK /\ MutexInv /\ OutInv /\ ConnInv /\ MainInv /\ OwnSocketInv BY DEF
      IndInv
<1>1. ASSUME NEW c \in Conns, Accept(c) PROVE MainInv'
  BY <1>1 DEF Accept
<1>2. ASSUME InsertBegin PROVE MainInv'
  BY <1>2 DEF InsertBegin
<1>3. ASSUME InsertEnd PROVE MainInv'
  BY <1>3 DEF InsertEnd
<1>4. ASSUME LockThreads PROVE MainInv'
  BY <1>4 DEF LockThreads
<1>5. ASSUME SpawnThread PROVE MainInv'
  BY <1>5 DEF SpawnThread
<1>6. ASSUME RecordThread PROVE MainInv'
  BY <1>6 DEF RecordThread
<1>7. ASSUME AcceptFails \/ TornCrash PROVE MainInv'
  BY <1>7 DEF AcceptFails, TornCrash
<1>8. ASSUME NEW c \in Conns, Distribute(c) PROVE MainInv'
  BY <1>8 DEF Distribute
<1>9. ASSUME NEW c \in Conns, SendNext(c) PROVE MainInv'
  BY <1>9 DEF SendNext
<1>10. ASSUME NEW c \in Conns, SendDies(c) PROVE MainInv'
  BY <1>10 DEF SendDies
<1>11. ASSUME NEW c \in Conns, EndDistribute(c) PROVE MainInv'
  BY <1>11 DEF EndDistribute
<1>12. ASSUME NEW c \in Conns, ReadData(c) PROVE MainInv'
  BY <1>12 DEF ReadData
<1>13. ASSUME NEW c \in Conns, ReadEnd(c) PROVE MainInv'
  BY <1>13 DEF ReadEnd
<1>14. ASSUME NEW c \in Conns, SendPong(c) PROVE MainInv'
  BY <1>14 DEF SendPong
<1>15. ASSUME NEW c \in Conns, LockToClose(c) PROVE MainInv'
  BY <1>15 DEF LockToClose
<1>16. ASSUME NEW c \in Conns, CloseFd(c) PROVE MainInv'
  BY <1>16 DEF CloseFd
<1>17. ASSUME NEW c \in Conns, EraseClient(c) PROVE MainInv'
  BY <1>17 DEF EraseClient
<1>18. ASSUME NEW c \in Conns, Retire(c) PROVE MainInv'
  BY <1>18 DEF Retire
<1>19. ASSUME NEW c \in Conns, Connect(c) PROVE MainInv'
  BY <1>19 DEF Connect
<1>20. ASSUME NEW c \in Conns, ClientSends(c) PROVE MainInv'
  BY <1>20 DEF ClientSends
<1>21. ASSUME NEW c \in Conns, ClientReads(c) PROVE MainInv'
  BY <1>21 DEF ClientReads
<1>22. ASSUME NEW c \in Conns, ClientExits(c) PROVE MainInv'
  BY <1>22 DEF ClientExits
<1>23. CASE UNCHANGED vars
  BY <1>23
<1>. QED
  BY <1>1, <1>2, <1>3, <1>4, <1>5, <1>6, <1>7, <1>8, <1>9, <1>10, <1>11,
        <1>12, <1>13, <1>14, <1>15, <1>16, <1>17, <1>18, <1>19, <1>20, <1>21,
        <1>22, <1>23
  DEF Next, MainStep, ThreadStep, ClientStep, AtRest

(* A thread keeps its descriptor until it closes it. *)
LEMMA OwnSocketStep ==
    ASSUME IndInv, [Next]_vars
    PROVE  OwnSocketInv'
PROOF
<1>. USE NamesAssumption DEF TypeOK, KernelTypes, SharedTypes, ThreadTypes,
      MutexInv, OutInv, ConnInv, MainInv, OwnSocketInv, Open, Pending, vars,
      kernelVars, mapVars, mainVars, threadVars, Up, At, In, Goto
<1>. TypeOK /\ MutexInv /\ OutInv /\ ConnInv /\ MainInv /\ OwnSocketInv BY DEF
      IndInv
<1>1. ASSUME NEW c \in Conns, Accept(c) PROVE OwnSocketInv'
  BY <1>1 DEF Accept
<1>2. ASSUME InsertBegin PROVE OwnSocketInv'
  BY <1>2 DEF InsertBegin
<1>3. ASSUME InsertEnd PROVE OwnSocketInv'
  BY <1>3 DEF InsertEnd
<1>4. ASSUME LockThreads PROVE OwnSocketInv'
  BY <1>4 DEF LockThreads
<1>5. ASSUME SpawnThread PROVE OwnSocketInv'
  BY <1>5 DEF SpawnThread
<1>6. ASSUME RecordThread PROVE OwnSocketInv'
  BY <1>6 DEF RecordThread
<1>7. ASSUME AcceptFails \/ TornCrash PROVE OwnSocketInv'
  BY <1>7 DEF AcceptFails, TornCrash
<1>8. ASSUME NEW c \in Conns, Distribute(c) PROVE OwnSocketInv'
  BY <1>8 DEF Distribute
<1>9. ASSUME NEW c \in Conns, SendNext(c) PROVE OwnSocketInv'
  BY <1>9 DEF SendNext
<1>10. ASSUME NEW c \in Conns, SendDies(c) PROVE OwnSocketInv'
  BY <1>10 DEF SendDies
<1>11. ASSUME NEW c \in Conns, EndDistribute(c) PROVE OwnSocketInv'
  BY <1>11 DEF EndDistribute
<1>12. ASSUME NEW c \in Conns, ReadData(c) PROVE OwnSocketInv'
  BY <1>12 DEF ReadData
<1>13. ASSUME NEW c \in Conns, ReadEnd(c) PROVE OwnSocketInv'
  BY <1>13 DEF ReadEnd
<1>14. ASSUME NEW c \in Conns, SendPong(c) PROVE OwnSocketInv'
  BY <1>14 DEF SendPong
<1>15. ASSUME NEW c \in Conns, LockToClose(c) PROVE OwnSocketInv'
  BY <1>15 DEF LockToClose
<1>16. ASSUME NEW c \in Conns, CloseFd(c) PROVE OwnSocketInv'
  BY <1>16 DEF CloseFd
<1>17. ASSUME NEW c \in Conns, EraseClient(c) PROVE OwnSocketInv'
  BY <1>17 DEF EraseClient
<1>18. ASSUME NEW c \in Conns, Retire(c) PROVE OwnSocketInv'
  BY <1>18 DEF Retire
<1>19. ASSUME NEW c \in Conns, Connect(c) PROVE OwnSocketInv'
  BY <1>19 DEF Connect
<1>20. ASSUME NEW c \in Conns, ClientSends(c) PROVE OwnSocketInv'
  BY <1>20 DEF ClientSends
<1>21. ASSUME NEW c \in Conns, ClientReads(c) PROVE OwnSocketInv'
  BY <1>21 DEF ClientReads
<1>22. ASSUME NEW c \in Conns, ClientExits(c) PROVE OwnSocketInv'
  BY <1>22 DEF ClientExits
<1>23. CASE UNCHANGED vars
  BY <1>23
<1>. QED
  BY <1>1, <1>2, <1>3, <1>4, <1>5, <1>6, <1>7, <1>8, <1>9, <1>10, <1>11,
        <1>12, <1>13, <1>14, <1>15, <1>16, <1>17, <1>18, <1>19, <1>20, <1>21,
        <1>22, <1>23
  DEF Next, MainStep, ThreadStep, ClientStep, AtRest

(* Starting, recording and removing a thread keep the map of threads exact. *)
LEMMA ThreadsStep ==
    ASSUME IndInv, [Next]_vars
    PROVE  ThreadsInv'
PROOF
<1>. USE NamesAssumption DEF TypeOK, KernelTypes, SharedTypes, ThreadTypes,
      MutexInv, OutInv, ConnInv, MainInv, OwnSocketInv, Open, Pending,
      ThreadsInv, vars, kernelVars, mapVars, mainVars, threadVars, Up, At, In,
      Goto
<1>. TypeOK /\ MutexInv /\ OutInv /\ ConnInv /\ MainInv /\ OwnSocketInv /\
      ThreadsInv BY DEF IndInv
<1>1. ASSUME NEW c \in Conns, Accept(c) PROVE ThreadsInv'
  BY <1>1 DEF Accept
<1>2. ASSUME InsertBegin PROVE ThreadsInv'
  BY <1>2 DEF InsertBegin
<1>3. ASSUME InsertEnd PROVE ThreadsInv'
  BY <1>3 DEF InsertEnd
<1>4. ASSUME LockThreads PROVE ThreadsInv'
  BY <1>4 DEF LockThreads
<1>5. ASSUME SpawnThread PROVE ThreadsInv'
  BY <1>5 DEF SpawnThread
<1>6. ASSUME RecordThread PROVE ThreadsInv'
  BY <1>6 DEF RecordThread
<1>7. ASSUME AcceptFails \/ TornCrash PROVE ThreadsInv'
  BY <1>7 DEF AcceptFails, TornCrash
<1>8. ASSUME NEW c \in Conns, Distribute(c) PROVE ThreadsInv'
  BY <1>8 DEF Distribute
<1>9. ASSUME NEW c \in Conns, SendNext(c) PROVE ThreadsInv'
  BY <1>9 DEF SendNext
<1>10. ASSUME NEW c \in Conns, SendDies(c) PROVE ThreadsInv'
  BY <1>10 DEF SendDies
<1>11. ASSUME NEW c \in Conns, EndDistribute(c) PROVE ThreadsInv'
  BY <1>11 DEF EndDistribute
<1>12. ASSUME NEW c \in Conns, ReadData(c) PROVE ThreadsInv'
  BY <1>12 DEF ReadData
<1>13. ASSUME NEW c \in Conns, ReadEnd(c) PROVE ThreadsInv'
  BY <1>13 DEF ReadEnd
<1>14. ASSUME NEW c \in Conns, SendPong(c) PROVE ThreadsInv'
  BY <1>14 DEF SendPong
<1>15. ASSUME NEW c \in Conns, LockToClose(c) PROVE ThreadsInv'
  BY <1>15 DEF LockToClose
<1>16. ASSUME NEW c \in Conns, CloseFd(c) PROVE ThreadsInv'
  BY <1>16 DEF CloseFd
<1>17. ASSUME NEW c \in Conns, EraseClient(c) PROVE ThreadsInv'
  BY <1>17 DEF EraseClient
<1>18. ASSUME NEW c \in Conns, Retire(c) PROVE ThreadsInv'
  BY <1>18 DEF Retire
<1>19. ASSUME NEW c \in Conns, Connect(c) PROVE ThreadsInv'
  BY <1>19 DEF Connect
<1>20. ASSUME NEW c \in Conns, ClientSends(c) PROVE ThreadsInv'
  BY <1>20 DEF ClientSends
<1>21. ASSUME NEW c \in Conns, ClientReads(c) PROVE ThreadsInv'
  BY <1>21 DEF ClientReads
<1>22. ASSUME NEW c \in Conns, ClientExits(c) PROVE ThreadsInv'
  BY <1>22 DEF ClientExits
<1>23. CASE UNCHANGED vars
  BY <1>23
<1>. QED
  BY <1>1, <1>2, <1>3, <1>4, <1>5, <1>6, <1>7, <1>8, <1>9, <1>10, <1>11,
        <1>12, <1>13, <1>14, <1>15, <1>16, <1>17, <1>18, <1>19, <1>20, <1>21,
        <1>22, <1>23
  DEF Next, MainStep, ThreadStep, ClientStep, AtRest

(* Only the key of the closing thread is ever without a connection. *)
LEMMA RegistryStep ==
    ASSUME IndInv, [Next]_vars
    PROVE  RegistryInv'
PROOF
<1>. USE NamesAssumption DEF TypeOK, KernelTypes, SharedTypes, ThreadTypes,
      MutexInv, OutInv, ConnInv, MainInv, OwnSocketInv, Open, Pending,
      RegistryInv, vars, kernelVars, mapVars, mainVars, threadVars, Up, At,
      In, Goto
<1>. TypeOK /\ MutexInv /\ OutInv /\ ConnInv /\ MainInv /\ OwnSocketInv /\
      RegistryInv BY DEF IndInv
<1>1. ASSUME NEW c \in Conns, Accept(c) PROVE RegistryInv'
  BY <1>1 DEF Accept
<1>2. ASSUME InsertBegin PROVE RegistryInv'
  BY <1>2 DEF InsertBegin
<1>3. ASSUME InsertEnd PROVE RegistryInv'
  <2>1. PICK d \in Conns : Pending(d)
    BY <1>3 DEF InsertEnd
  <2>2. clientSocket \in Fds /\ fdTable[clientSocket] # NoConn
    BY <2>1
  <2>3. /\ clientSockets' \subseteq clientSockets \cup {clientSocket}
        /\ UNCHANGED <<torn, fdTable, pc, socket, cursor>>
    BY <1>3 DEF InsertEnd
  <2>. QED
    BY <2>2, <2>3
<1>4. ASSUME LockThreads PROVE RegistryInv'
  BY <1>4 DEF LockThreads
<1>5. ASSUME SpawnThread PROVE RegistryInv'
  BY <1>5 DEF SpawnThread
<1>6. ASSUME RecordThread PROVE RegistryInv'
  BY <1>6 DEF RecordThread
<1>7. ASSUME AcceptFails \/ TornCrash PROVE RegistryInv'
  BY <1>7 DEF AcceptFails, TornCrash
<1>8. ASSUME NEW c \in Conns, Distribute(c) PROVE RegistryInv'
  <2>1. \A f \in clientSockets : ~torn => fdTable[f] # NoConn
    BY <1>8 DEF Distribute
  <2>2. Rebalancing => clientSocket \in Fds /\ fdTable[clientSocket] # NoConn
    BY DEF Rebalancing
  <2>. QED
    BY <1>8, <2>1, <2>2 DEF Distribute, IsFirst
<1>9. ASSUME NEW c \in Conns, SendNext(c) PROVE RegistryInv'
  <2>1. \A f \in clientSockets : ~torn => fdTable[f] # NoConn
    BY <1>9 DEF SendNext
  <2>2. Rebalancing => clientSocket \in Fds /\ fdTable[clientSocket] # NoConn
    BY DEF Rebalancing
  <2>. QED
    BY <1>9, <2>1, <2>2 DEF SendNext, IsFirst
<1>10. ASSUME NEW c \in Conns, SendDies(c) PROVE RegistryInv'
  BY <1>10 DEF SendDies
<1>11. ASSUME NEW c \in Conns, EndDistribute(c) PROVE RegistryInv'
  BY <1>11 DEF EndDistribute
<1>12. ASSUME NEW c \in Conns, ReadData(c) PROVE RegistryInv'
  BY <1>12 DEF ReadData
<1>13. ASSUME NEW c \in Conns, ReadEnd(c) PROVE RegistryInv'
  BY <1>13 DEF ReadEnd
<1>14. ASSUME NEW c \in Conns, SendPong(c) PROVE RegistryInv'
  BY <1>14 DEF SendPong
<1>15. ASSUME NEW c \in Conns, LockToClose(c) PROVE RegistryInv'
  BY <1>15 DEF LockToClose
<1>16. ASSUME NEW c \in Conns, CloseFd(c) PROVE RegistryInv'
  BY <1>16 DEF CloseFd
<1>17. ASSUME NEW c \in Conns, EraseClient(c) PROVE RegistryInv'
  <2>1. CASE torn \/ main = "linking"
    BY <1>17, <2>1 DEF EraseClient
  <2>2. CASE ~torn /\ main # "linking"
    <3>1. /\ clientSockets' = clientSockets \ {socket[c]}
          /\ pc' = [pc EXCEPT ![c] = "wait"]
          /\ out' = [out EXCEPT ![c] = "quit"]
          /\ UNCHANGED <<torn, fdTable, socket, cursor, mainVars>>
          /\ pc[c] = "erase"
      BY <1>17, <2>2 DEF EraseClient
    <3>2. \A d \in Conns : pc[d] = "erase" => d = c
      BY <3>1
    <3>3. \A d \in Conns : pc[d] # "send"
      BY <3>1
    <3>. QED
      BY <3>1, <3>2, <3>3
  <2>. QED
    BY <2>1, <2>2
<1>18. ASSUME NEW c \in Conns, Retire(c) PROVE RegistryInv'
  BY <1>18 DEF Retire
<1>19. ASSUME NEW c \in Conns, Connect(c) PROVE RegistryInv'
  BY <1>19 DEF Connect
<1>20. ASSUME NEW c \in Conns, ClientSends(c) PROVE RegistryInv'
  BY <1>20 DEF ClientSends
<1>21. ASSUME NEW c \in Conns, ClientReads(c) PROVE RegistryInv'
  BY <1>21 DEF ClientReads
<1>22. ASSUME NEW c \in Conns, ClientExits(c) PROVE RegistryInv'
  BY <1>22 DEF ClientExits
<1>23. CASE UNCHANGED vars
  BY <1>23
<1>. QED
  BY <1>1, <1>2, <1>3, <1>4, <1>5, <1>6, <1>7, <1>8, <1>9, <1>10, <1>11,
        <1>12, <1>13, <1>14, <1>15, <1>16, <1>17, <1>18, <1>19, <1>20, <1>21,
        <1>22, <1>23
  DEF Next, MainStep, ThreadStep, ClientStep, AtRest

(* A key leaves the map by its thread, or by one that robs its connection.  *)
LEMMA LostStep ==
    ASSUME IndInv, [Next]_vars
    PROVE  LostInv'
PROOF
<1>. USE NamesAssumption DEF TypeOK, KernelTypes, SharedTypes, ThreadTypes,
      MutexInv, OutInv, ConnInv, MainInv, OwnSocketInv, Open, Pending,
      LostInv, LostOnlyByReuse, Starting, vars, kernelVars, mapVars, mainVars,
      threadVars, Up, At, In, Goto
<1>. TypeOK /\ MutexInv /\ OutInv /\ ConnInv /\ MainInv /\ OwnSocketInv /\
      LostInv BY DEF IndInv
<1>1. ASSUME NEW c \in Conns, Accept(c) PROVE LostInv'
  BY <1>1 DEF Accept
<1>2. ASSUME InsertBegin PROVE LostInv'
  BY <1>2 DEF InsertBegin
<1>3. ASSUME InsertEnd PROVE LostInv'
  BY <1>3 DEF InsertEnd
<1>4. ASSUME LockThreads PROVE LostInv'
  BY <1>4 DEF LockThreads
<1>5. ASSUME SpawnThread PROVE LostInv'
  <2>1. PICK d \in Conns : Pending(d)
    BY <1>5 DEF SpawnThread
  <2>2. /\ pc' = [pc EXCEPT ![d] = "wait"]
        /\ socket' = [socket EXCEPT ![d] = clientSocket]
        /\ out' = [out EXCEPT ![d] = "join"]
        /\ main' = "record"
        /\ UNCHANGED <<mapVars, clientSocket>>
    BY <1>5, <2>1 DEF SpawnThread
  <2>3. fdTable' = fdTable /\ fdTable[clientSocket] = d /\ main = "spawn"
    BY <1>5, <2>1 DEF SpawnThread
  <2>4. ASSUME NEW x \in Conns, Open(x)', ~torn
        PROVE  socket'[x] \notin clientSockets <=> x \in robbed
    <3>1. CASE x = d
      BY <2>2, <2>3, <2>4, <3>1
    <3>2. CASE x # d
      <4>1. Open(x) /\ socket'[x] = socket[x]
        BY <2>2, <2>4, <3>2
      <4>. QED
        BY <2>4, <4>1
    <3>. QED
      BY <3>1, <3>2
  <2>5. ASSUME NEW x \in robbed, ~torn PROVE pc'[x] # "unborn"
    BY <2>2, <2>3, <2>5
  <2>. QED
    BY <2>2, <2>4, <2>5
<1>6. ASSUME RecordThread PROVE LostInv'
  BY <1>6 DEF RecordThread
<1>7. ASSUME AcceptFails \/ TornCrash PROVE LostInv'
  BY <1>7 DEF AcceptFails, TornCrash
<1>8. ASSUME NEW c \in Conns, Distribute(c) PROVE LostInv'
  BY <1>8 DEF Distribute
<1>9. ASSUME NEW c \in Conns, SendNext(c) PROVE LostInv'
  BY <1>9 DEF SendNext
<1>10. ASSUME NEW c \in Conns, SendDies(c) PROVE LostInv'
  BY <1>10 DEF SendDies
<1>11. ASSUME NEW c \in Conns, EndDistribute(c) PROVE LostInv'
  BY <1>11 DEF EndDistribute
<1>12. ASSUME NEW c \in Conns, ReadData(c) PROVE LostInv'
  <2>1. /\ UNCHANGED <<mapVars, mainVars, socket>>
        /\ pc[c] = "read"
        /\ pc' \in {[pc EXCEPT ![c] = p] : p \in {"wait", "pong", "read"}}
        /\ out' \in {out, [out EXCEPT ![c] = "chat"]}
    BY <1>12 DEF ReadData
  <2>2. \A x \in Conns : Open(x)' => Open(x)
    BY <2>1
  <2>3. pc'[c] # "unborn" /\ \A x \in Conns \ {c} : pc'[x] = pc[x]
    BY <2>1
  <2>4. fdTable' = fdTable
    BY <1>12 DEF ReadData
  <2>. QED
    BY <2>1, <2>2, <2>3, <2>4
<1>13. ASSUME NEW c \in Conns, ReadEnd(c) PROVE LostInv'
  BY <1>13 DEF ReadEnd
<1>14. ASSUME NEW c \in Conns, SendPong(c) PROVE LostInv'
  BY <1>14 DEF SendPong
<1>15. ASSUME NEW c \in Conns, LockToClose(c) PROVE LostInv'
  BY <1>15 DEF LockToClose
<1>16. ASSUME NEW c \in Conns, CloseFd(c) PROVE LostInv'
  BY <1>16 DEF CloseFd
<1>17. ASSUME NEW c \in Conns, EraseClient(c) PROVE LostInv'
  <2>1. CASE torn \/ main = "linking"
    BY <1>17, <2>1 DEF EraseClient
  <2>2. CASE ~torn /\ main # "linking"
    <3>. DEFINE f == socket[c]
    <3>1. /\ clientSockets' = clientSockets \ {f}
          /\ robbed' = robbed \cup Robs(c)
          /\ pc' = [pc EXCEPT ![c] = "wait"]
          /\ out' = [out EXCEPT ![c] = "quit"]
          /\ UNCHANGED <<torn, fdTable, socket, mainVars>>
          /\ pc[c] = "erase"
      BY <1>17, <2>2 DEF EraseClient
    <3>2. ~Open(c)' /\ \A d \in Conns : Open(d)' => Open(d)
      BY <3>1
    <3>3. \A d \in Robs(c) : d \in Conns /\ fdTable[f] = d /\ f \in Fds
      BY <2>2, <3>1 DEF Robs
    <3>4. ASSUME NEW d \in Conns, fdTable[f] = d, f \in Fds
          PROVE  d \in Robs(c) <=> ~(main = "insert" /\ clientSocket = f)
      BY <3>4 DEF Robs
    <3>. HIDE DEF f
    <3>5. ASSUME NEW d \in Robs(c) PROVE pc[d] # "unborn" \/ Starting(d)
      <4>1. d \in Conns /\ fdTable[f] = d /\ f \in Fds
        BY <3>3, <3>5
      <4>2. ~(main = "insert" /\ clientSocket = f)
        BY <3>4, <3>5, <4>1
      <4>3. Open(d) \/ (Pending(d) /\ clientSocket = f)
        BY <4>1
      <4>. QED
        BY <2>2, <4>1, <4>2, <4>3
    <3>6. ASSUME NEW x \in Conns, Open(x)
          PROVE  socket[x] \notin clientSockets' <=> x \in robbed'
      <4>1. CASE socket[x] = f
        BY <2>2, <3>1, <3>4, <3>6, <4>1
      <4>2. CASE socket[x] # f
        BY <2>2, <3>1, <3>3, <3>6, <4>2
      <4>. QED
        BY <4>1, <4>2
    <3>7. ASSUME main \in {"lock", "spawn"}
          PROVE  clientSocket \notin clientSockets' <=>
                     fdTable[clientSocket] \in robbed'
      <4>1. CASE clientSocket = f
        <5>1. PICK p \in Conns : Pending(p)
          BY <3>7
        <5>2. p \in Robs(c)
          BY <3>4, <3>7, <4>1, <5>1
        <5>. QED
          BY <3>1, <4>1, <5>1, <5>2
      <4>2. CASE clientSocket # f
        <5>1. PICK p \in Conns : Pending(p)
          BY <3>7
        <5>2. fdTable[clientSocket] \notin Robs(c)
          <6>1. SUFFICES ASSUME fdTable[clientSocket] \in Robs(c) PROVE FALSE
            OBVIOUS
          <6>2. fdTable[f] = p /\ f \in Fds /\ ~Open(p)
            BY <3>3, <5>1, <6>1
          <6>3. Open(p) \/ clientSocket = f
            BY <6>2
          <6>. QED
            BY <4>2, <6>2, <6>3
        <5>. QED
          BY <2>2, <3>1, <3>7, <4>2, <5>1, <5>2
      <4>. QED
        BY <4>1, <4>2
    <3>8. \A d \in robbed' : pc'[d] # "unborn" \/ Starting(d)'
      BY <2>2, <3>1, <3>5
    <3>. QED
      BY <3>1, <3>2, <3>6, <3>7, <3>8
  <2>. QED
    BY <2>1, <2>2
<1>18. ASSUME NEW c \in Conns, Retire(c) PROVE LostInv'
  BY <1>18 DEF Retire
<1>19. ASSUME NEW c \in Conns, Connect(c) PROVE LostInv'
  BY <1>19 DEF Connect
<1>20. ASSUME NEW c \in Conns, ClientSends(c) PROVE LostInv'
  BY <1>20 DEF ClientSends
<1>21. ASSUME NEW c \in Conns, ClientReads(c) PROVE LostInv'
  BY <1>21 DEF ClientReads
<1>22. ASSUME NEW c \in Conns, ClientExits(c) PROVE LostInv'
  BY <1>22 DEF ClientExits
<1>23. CASE UNCHANGED vars
  BY <1>23
<1>. QED
  BY <1>1, <1>2, <1>3, <1>4, <1>5, <1>6, <1>7, <1>8, <1>9, <1>10, <1>11,
        <1>12, <1>13, <1>14, <1>15, <1>16, <1>17, <1>18, <1>19, <1>20, <1>21,
        <1>22, <1>23
  DEF Next, MainStep, ThreadStep, ClientStep, AtRest

-----------------------------------------------------------------------------
(* What a step can do to the buffers of the clients.                       *)
Heard(d) == inbox[d] # <<>> /\ inbox' = [inbox EXCEPT ![d] = Tail(@)]
HungUp(d) == inbox' = [inbox EXCEPT ![d] = <<>>]
Ponged(c, d) ==
    inbox' = [inbox EXCEPT ![d] = Append(@, [kind |-> "pong", from |-> c])]
Told(c, d) ==
    /\ pc[c] = "send" /\ UNCHANGED <<pc, out>>
    /\ inbox' = [inbox EXCEPT ![d] = Append(@, [kind |-> out[c], from |-> c])]

LEMMA InboxStep ==
    ASSUME IndInv, [Next]_vars
    PROVE  \/ inbox' = inbox
           \/ \E d \in Conns : Heard(d) \/ HungUp(d)
           \/ \E c, d \in Conns : Ponged(c, d) \/ Told(c, d)
PROOF
<1>. DEFINE Goal == \/ inbox' = inbox
                    \/ \E d \in Conns : Heard(d) \/ HungUp(d)
                    \/ \E c, d \in Conns : Ponged(c, d) \/ Told(c, d)
<1>. TypeOK /\ OwnSocketInv BY DEF IndInv
<1>1. CASE UNCHANGED vars
  BY <1>1 DEF vars, kernelVars
<1>2. CASE MainStep \/ AcceptFails \/ TornCrash
  BY <1>2 DEF MainStep, Accept, InsertBegin, InsertEnd, LockThreads,
        SpawnThread, RecordThread, AcceptFails, TornCrash, kernelVars
<1>3. ASSUME NEW c \in Conns, SendNext(c) PROVE Goal
  <2>. DEFINE d == fdTable[cursor[c]]
  <2>1. d \in Conns
    BY <1>3 DEF SendNext, SendFails, TypeOK, KernelTypes
  <2>2. pc[c] = "send" /\ UNCHANGED <<pc, out>>
    BY <1>3 DEF SendNext, In
  <2>3. Transmit(d, [kind |-> out[c], from |-> c])
    BY <1>3 DEF SendNext
  <2>4. inbox' = inbox \/ Told(c, d)
    BY <2>2, <2>3 DEF Transmit, Told
  <2>. QED
    BY <2>1, <2>4
<1>4. ASSUME NEW c \in Conns, SendPong(c) PROVE Goal
  <2>1. fdTable[socket[c]] = c
    BY <1>4 DEF SendPong, In, Open, OwnSocketInv
  <2>2. inbox' = inbox \/ Ponged(c, c)
    BY <1>4, <2>1 DEF SendPong, Transmit, Ponged
  <2>. QED
    BY <2>2
<1>5. ASSUME NEW c \in Conns,
             \/ Distribute(c) \/ SendDies(c) \/ EndDistribute(c) \/ ReadData(c)
             \/ ReadEnd(c) \/ LockToClose(c) \/ CloseFd(c) \/ EraseClient(c)
             \/ Retire(c) \/ Connect(c) \/ ClientSends(c)
      PROVE  inbox' = inbox
  BY <1>5 DEF Distribute, SendDies, EndDistribute, ReadData, ReadEnd,
        LockToClose, CloseFd, EraseClient, Retire, Connect, ClientSends,
        kernelVars
<1>6. ASSUME NEW c \in Conns, ClientReads(c) PROVE Goal
  BY <1>6 DEF ClientReads, Heard
<1>7. ASSUME NEW c \in Conns, ClientExits(c) PROVE Goal
  BY <1>7 DEF ClientExits, HungUp
<1>. QED
  BY <1>1, <1>2, <1>3, <1>4, <1>5, <1>6, <1>7
  DEF Next, ThreadStep, ClientStep, AtRest

LEMMA GivenNotPong ==
    ASSUME NEW m \in GivenOnce PROVE m.kind # "pong"
PROOF
  BY DEF GivenOnce, SaidOnce

(* Every notice that is in a buffer after a step was there, or is what the *)
(* thread in its round says.                                               *)
LEMMA OldOrTold ==
    ASSUME IndInv, [Next]_vars, NEW d \in Conns, NEW m \in GivenOnce,
           Buffered(d, m)'
    PROVE  Buffered(d, m) \/ (Saying(m) /\ UNCHANGED <<pc, out>>)
PROOF
<1>1. inbox \in [Conns -> Seq(Message)]
  BY DEF IndInv, TypeOK, KernelTypes
<1>2. PICK k \in 1..Len(inbox'[d]) : inbox'[d][k] = m
  BY DEF Buffered
<1>3. ASSUME inbox'[d] = inbox[d] PROVE Buffered(d, m)
  BY <1>2, <1>3 DEF Buffered
<1>4. ASSUME NEW b \in Conns, Heard(b) \/ HungUp(b) PROVE Buffered(d, m)
  <2>1. CASE b # d
    <3>1. inbox'[d] = inbox[d]
      BY <1>1, <1>4, <2>1 DEF Heard, HungUp
    <3>. QED
      BY <1>3, <3>1
  <2>2. CASE b = d /\ HungUp(b)
    <3>1. inbox'[d] = <<>>
      BY <1>1, <2>2 DEF HungUp
    <3>. QED
      BY <1>2, <3>1
  <2>3. CASE b = d /\ Heard(b)
    <3>1. inbox'[d] = Tail(inbox[d]) /\ inbox[d] # <<>> /\ inbox[d] \in Seq(Message)
      BY <1>1, <2>3 DEF Heard
    <3>2. inbox'[d][k] = inbox[d][k + 1] /\ k + 1 \in 1..Len(inbox[d])
      BY <1>2, <3>1
    <3>. QED
      BY <1>2, <3>2 DEF Buffered
  <2>. QED
    BY <1>4, <2>1, <2>2, <2>3
<1>5. ASSUME NEW x \in Message, inbox'[d] = Append(inbox[d], x)
      PROVE  Buffered(d, m) \/ m = x
  <2>1. inbox[d] \in Seq(Message) /\ Len(inbox[d]) \in Nat
    BY <1>1
  <2>2. /\ Len(inbox'[d]) = Len(inbox[d]) + 1
        /\ inbox'[d][Len(inbox[d]) + 1] = x
        /\ \A l \in 1..Len(inbox[d]) : inbox'[d][l] = inbox[d][l]
    BY <1>5, <2>1
  <2>3. k \in 1..Len(inbox[d]) \/ k = Len(inbox[d]) + 1
    BY <2>1, <2>2
  <2>. QED
    BY <1>2, <2>2, <2>3 DEF Buffered
<1>6. ASSUME NEW c \in Conns, NEW b \in Conns, Ponged(c, b)
      PROVE  Buffered(d, m)
  <2>1. PICK x \in Message : x = [kind |-> "pong", from |-> c]
    BY DEF Message
  <2>2. m # x
    BY <2>1, GivenNotPong DEF Message
  <2>3. inbox'[d] = inbox[d] \/ inbox'[d] = Append(inbox[d], x)
    BY <1>1, <1>6, <2>1 DEF Ponged
  <2>. QED
    BY <1>3, <1>5, <2>2, <2>3
<1>7. ASSUME NEW c \in Conns, NEW b \in Conns, Told(c, b)
      PROVE  Buffered(d, m) \/ (Saying(m) /\ UNCHANGED <<pc, out>>)
  <2>1. PICK x \in Message : x = [kind |-> out[c], from |-> c]
    BY DEF Message, IndInv, TypeOK, ThreadTypes
  <2>2. Saying(x) /\ UNCHANGED <<pc, out>>
    BY <1>7, <2>1 DEF Told, Saying
  <2>3. inbox'[d] = inbox[d] \/ inbox'[d] = Append(inbox[d], x)
    BY <1>1, <1>7, <2>1 DEF Told
  <2>. QED
    BY <1>3, <1>5, <2>2, <2>3
<1>. QED
  BY InboxStep, <1>3, <1>4, <1>6, <1>7

(* One message comes before another after a step when it did so already,   *)
(* or when the other is what the thread in its round says.                 *)
LEMMA BeforeStep ==
    ASSUME IndInv, [Next]_vars, NEW d \in Conns,
           NEW m \in GivenOnce, NEW n \in GivenOnce, Before(d, m, n)'
    PROVE  \/ Before(d, m, n)
           \/ Buffered(d, m) /\ Saying(n) /\ UNCHANGED <<pc, out>>
PROOF
<1>1. inbox \in [Conns -> Seq(Message)]
  BY DEF IndInv, TypeOK, KernelTypes
<1>2. PICK i \in 1..Len(inbox'[d]), j \in 1..Len(inbox'[d]) :
         i < j /\ inbox'[d][i] = m /\ inbox'[d][j] = n
  BY DEF Before
<1>3. ASSUME inbox'[d] = inbox[d] PROVE Before(d, m, n)
  BY <1>2, <1>3 DEF Before
<1>4. ASSUME NEW b \in Conns, Heard(b) \/ HungUp(b)
      PROVE  Before(d, m, n)
  <2>1. CASE b # d
    <3>1. inbox'[d] = inbox[d]
      BY <1>1, <1>4, <2>1 DEF Heard, HungUp
    <3>. QED
      BY <1>3, <3>1
  <2>2. CASE b = d /\ HungUp(b)
    <3>1. inbox'[d] = <<>>
      BY <1>1, <2>2 DEF HungUp
    <3>. QED
      BY <1>2, <3>1
  <2>3. CASE b = d /\ Heard(b)
    <3>1. inbox'[d] = Tail(inbox[d]) /\ inbox[d] # <<>> /\ inbox[d] \in Seq(Message)
      BY <1>1, <2>3 DEF Heard
    <3>2. /\ inbox'[d][i] = inbox[d][i + 1] /\ inbox'[d][j] = inbox[d][j + 1]
          /\ i + 1 \in 1..Len(inbox[d]) /\ j + 1 \in 1..Len(inbox[d])
          /\ i + 1 < j + 1
      BY <1>2, <3>1
    <3>. QED
      BY <1>2, <3>2 DEF Before
  <2>. QED
    BY <1>4, <2>1, <2>2, <2>3
<1>5. ASSUME NEW x \in Message, inbox'[d] = Append(inbox[d], x)
      PROVE  Before(d, m, n) \/ (n = x /\ Buffered(d, m))
  <2>1. inbox[d] \in Seq(Message) /\ Len(inbox[d]) \in Nat
    BY <1>1
  <2>2. /\ Len(inbox'[d]) = Len(inbox[d]) + 1
        /\ inbox'[d][Len(inbox[d]) + 1] = x
        /\ \A l \in 1..Len(inbox[d]) : inbox'[d][l] = inbox[d][l]
    BY <1>5, <2>1
  <2>3. i \in 1..Len(inbox[d]) /\ inbox[d][i] = m
    BY <1>2, <2>1, <2>2
  <2>4. CASE j \in 1..Len(inbox[d])
    BY <1>2, <2>2, <2>3, <2>4 DEF Before
  <2>5. CASE j \notin 1..Len(inbox[d])
    <3>1. j = Len(inbox[d]) + 1
      BY <2>1, <2>2, <2>5, <1>2
    <3>. QED
      BY <1>2, <2>2, <2>3, <3>1 DEF Buffered
  <2>. QED
    BY <2>4, <2>5
<1>6. ASSUME NEW c \in Conns, NEW b \in Conns, Ponged(c, b)
      PROVE  Before(d, m, n)
  <2>1. PICK x \in Message : x = [kind |-> "pong", from |-> c]
    BY DEF Message
  <2>2. n # x
    BY <2>1, GivenNotPong DEF Message
  <2>3. inbox'[d] = inbox[d] \/ inbox'[d] = Append(inbox[d], x)
    BY <1>1, <1>6, <2>1 DEF Ponged
  <2>. QED
    BY <1>3, <1>5, <2>2, <2>3
<1>7. ASSUME NEW c \in Conns, NEW b \in Conns, Told(c, b)
      PROVE  \/ Before(d, m, n)
             \/ Buffered(d, m) /\ Saying(n) /\ UNCHANGED <<pc, out>>
  <2>1. PICK x \in Message : x = [kind |-> out[c], from |-> c]
    BY DEF Message, IndInv, TypeOK, ThreadTypes
  <2>2. Saying(x) /\ UNCHANGED <<pc, out>>
    BY <1>7, <2>1 DEF Told, Saying
  <2>3. inbox'[d] = inbox[d] \/ inbox'[d] = Append(inbox[d], x)
    BY <1>1, <1>7, <2>1 DEF Told
  <2>. QED
    BY <1>3, <1>5, <2>2, <2>3
<1>. QED
  BY InboxStep, <1>3, <1>4, <1>6, <1>7

(* A client writes within its bound, and what it wrote last is read whole  *)
(* when it is all there is.                                                *)
LEMMA WritesStep ==
    ASSUME IndInv, [Next]_vars
    PROVE  WritesInv'
PROOF
<1>. USE BoundsAssumption
<1>. TypeOK /\ WritesInv BY DEF IndInv
<1>1. \A c \in Conns : Len(wire[c]) \in Nat /\ sends[c] \in Nat
  BY DEF TypeOK, KernelTypes
<1>2. ASSUME UNCHANGED <<wire, sends>>,
             \A c \in Conns : out'[c] = "chat" => out[c] = "chat"
      PROVE  WritesInv'
  BY <1>2 DEF WritesInv
<1>3. CASE UNCHANGED vars
  BY <1>2, <1>3 DEF vars, kernelVars, threadVars
<1>4. CASE MainStep \/ AcceptFails \/ TornCrash
  <2>1. UNCHANGED <<wire, sends>>
    BY <1>4 DEF MainStep, Accept, InsertBegin, InsertEnd, LockThreads,
          SpawnThread, RecordThread, AcceptFails, TornCrash, kernelVars
  <2>2. UNCHANGED out \/ SpawnThread
    BY <1>4 DEF MainStep, Accept, InsertBegin, InsertEnd, LockThreads,
          RecordThread, AcceptFails, TornCrash, threadVars
  <2>3. \A c \in Conns : out'[c] = "chat" => out[c] = "chat"
    BY <2>2 DEF SpawnThread, TypeOK, ThreadTypes
  <2>. QED
    BY <1>2, <2>1, <2>3
<1>5. ASSUME NEW c \in Conns,
             \/ Distribute(c) \/ SendNext(c) \/ SendDies(c) \/ EndDistribute(c)
             \/ ReadEnd(c) \/ SendPong(c) \/ LockToClose(c) \/ CloseFd(c)
             \/ EraseClient(c) \/ Retire(c) \/ Connect(c) \/ ClientReads(c)
             \/ ClientExits(c)
      PROVE  WritesInv'
  <2>1. UNCHANGED <<wire, sends>>
    BY <1>5 DEF Distribute, SendNext, SendDies, EndDistribute, ReadEnd,
          SendPong, LockToClose, CloseFd, EraseClient, Retire, Connect,
          ClientReads, ClientExits, kernelVars
  <2>2. UNCHANGED out \/ EraseClient(c)
    BY <1>5 DEF Distribute, SendNext, SendDies, EndDistribute, ReadEnd,
          SendPong, LockToClose, CloseFd, Retire, Connect, ClientReads,
          ClientExits, threadVars
  <2>3. \A d \in Conns : out'[d] = "chat" => out[d] = "chat"
    BY <2>2 DEF EraseClient, TypeOK, ThreadTypes
  <2>. QED
    BY <1>2, <2>1, <2>3
<1>6. ASSUME NEW c \in Conns, ReadData(c) PROVE WritesInv'
  <2>. SUFFICES ASSUME NEW d \in Conns
                PROVE  /\ Len(wire'[d]) <= sends'[d] /\ sends'[d] <= MaxSends
                       /\ MaxSends <= 1 /\ out'[d] = "chat" =>
                            sends'[d] = 1 /\ wire'[d] = <<>>
    BY DEF WritesInv
  <2>1. sends' = sends
    BY <1>6 DEF ReadData
  <2>2. PICK k \in 1..Len(wire[c]) :
           /\ wire' = [wire EXCEPT ![c] = SubSeq(@, k + 1, Len(@))]
           /\ out' = out \/ out' = [out EXCEPT ![c] = "chat"]
    BY <1>6 DEF ReadData
  <2>3. CASE d # c
    <3>1. wire'[d] = wire[d] /\ out'[d] = out[d]
      BY <2>2, <2>3 DEF TypeOK, KernelTypes, ThreadTypes
    <3>. QED
      BY <2>1, <3>1 DEF WritesInv
  <2>4. CASE d = c
    <3>1. /\ wire'[c] = SubSeq(wire[c], k + 1, Len(wire[c]))
          /\ wire[c] \in Seq(Lines)
      BY <2>2 DEF TypeOK, KernelTypes
    <3>2. wire'[c] \in Seq(Lines) /\ Len(wire'[c]) = Len(wire[c]) - k
      BY <2>2, <3>1, <1>1, SubSeqProperties
    <3>3. Len(wire[c]) <= sends[c] /\ sends[c] <= MaxSends
      BY DEF WritesInv
    <3>4. MaxSends <= 1 => sends[c] = 1 /\ Len(wire'[c]) = 0
      BY <1>1, <2>2, <3>2, <3>3
    <3>5. MaxSends <= 1 => sends[c] = 1 /\ wire'[c] = <<>>
      BY <3>2, <3>4
    <3>6. Len(wire'[c]) <= sends[c]
      BY <1>1, <2>2, <3>2, <3>3
    <3>. QED
      BY <2>1, <2>4, <3>3, <3>5, <3>6
  <2>. QED
    BY <2>3, <2>4
<1>7. ASSUME NEW c \in Conns, ClientSends(c) PROVE WritesInv'
  <2>. SUFFICES ASSUME NEW d \in Conns
                PROVE  /\ Len(wire'[d]) <= sends'[d] /\ sends'[d] <= MaxSends
                       /\ MaxSends <= 1 /\ out'[d] = "chat" =>
                            sends'[d] = 1 /\ wire'[d] = <<>>
    BY DEF WritesInv
  <2>1. PICK r \in Lines : wire' = [wire EXCEPT ![c] = Append(@, r)]
    BY <1>7 DEF ClientSends
  <2>2. /\ sends' = [sends EXCEPT ![c] = @ + 1] /\ sends[c] < MaxSends
        /\ out' = out
    BY <1>7 DEF ClientSends, threadVars
  <2>3. CASE d # c
    <3>1. wire'[d] = wire[d] /\ sends'[d] = sends[d]
      BY <2>1, <2>2, <2>3 DEF TypeOK, KernelTypes
    <3>. QED
      BY <2>2, <3>1 DEF WritesInv
  <2>4. CASE d = c
    <3>1. wire'[c] = Append(wire[c], r) /\ wire[c] \in Seq(Lines)
      BY <2>1 DEF TypeOK, KernelTypes
    <3>2. Len(wire'[c]) = Len(wire[c]) + 1 /\ sends'[c] = sends[c] + 1
      BY <2>2, <3>1 DEF TypeOK, KernelTypes
    <3>3. Len(wire[c]) <= sends[c]
      BY DEF WritesInv
    <3>4. MaxSends <= 1 => sends[c] # 1
      BY <1>1, <2>2
    <3>5. ~(MaxSends <= 1 /\ out[c] = "chat")
      BY <3>4 DEF WritesInv
    <3>. QED
      BY <1>1, <2>2, <2>4, <3>2, <3>3, <3>5
  <2>. QED
    BY <2>3, <2>4
<1>. QED
  BY <1>3, <1>4, <1>5, <1>6, <1>7 DEF Next, ThreadStep, ClientStep, AtRest

(* What was said is never to be said again.                                *)
LEMMA SaidStays ==
    ASSUME IndInv, [Next]_vars, NEW c \in Conns, NEW kind \in SaidOnce,
           ToBeSaid(c, kind)'
    PROVE  ToBeSaid(c, kind)
PROOF
<1>. USE DEF ToBeSaid
<1>. TypeOK /\ OutInv /\ WritesInv BY DEF IndInv
<1>1. kind = "chat" => MaxSends <= 1
  BY DEF SaidOnce
<1>2. CASE /\ pc'[c] = pc[c] /\ out'[c] = out[c]
           /\ wire'[c] = wire[c] /\ sends'[c] = sends[c]
  BY <1>2
<1>3. CASE UNCHANGED vars
  BY <1>2, <1>3 DEF vars, kernelVars, threadVars
<1>4. CASE MainStep \/ AcceptFails \/ TornCrash
  <2>1. UNCHANGED <<wire, sends>>
    BY <1>4 DEF MainStep, Accept, InsertBegin, InsertEnd, LockThreads,
          SpawnThread, RecordThread, AcceptFails, TornCrash, kernelVars
  <2>2. UNCHANGED <<pc, out>> \/ SpawnThread
    BY <1>4 DEF MainStep, Accept, InsertBegin, InsertEnd, LockThreads,
          RecordThread, AcceptFails, TornCrash, threadVars
  <2>3. CASE SpawnThread
    <3>1. PICK d \in Conns : Pending(d)
      BY <2>3 DEF SpawnThread, At, IndInv, MainInv
    <3>2. fdTable[clientSocket] = d /\ pc[d] = "unborn" /\ out[d] # "quit"
      BY <3>1 DEF Pending, OutInv
    <3>3. /\ pc' = [pc EXCEPT ![d] = "wait"]
          /\ out' = [out EXCEPT ![d] = "join"]
      BY <2>3, <3>2 DEF SpawnThread
    <3>4. CASE c = d
      <4>1. out'[c] = "join" /\ pc[c] = "unborn" /\ out[c] # "quit"
        BY <3>2, <3>3, <3>4 DEF TypeOK, ThreadTypes
      <4>. QED
        BY <2>1, <4>1
    <3>5. CASE c # d
      BY <1>2, <2>1, <3>3, <3>5 DEF TypeOK, ThreadTypes
    <3>. QED
      BY <3>4, <3>5
  <2>. QED
    BY <1>2, <2>1, <2>2, <2>3
<1>5. ASSUME NEW d \in Conns,
             \/ SendNext(d) \/ SendDies(d) \/ Connect(d) \/ ClientReads(d)
             \/ ClientExits(d)
      PROVE  UNCHANGED <<pc, out, wire, sends>>
  BY <1>5 DEF SendNext, SendDies, Connect, ClientReads, ClientExits,
        kernelVars, threadVars
<1>6. ASSUME NEW d \in Conns,
             \/ Distribute(d) \/ EndDistribute(d) \/ ReadEnd(d) \/ SendPong(d)
             \/ LockToClose(d) \/ CloseFd(d) \/ Retire(d)
      PROVE  ToBeSaid(c, kind)
  <2>1. UNCHANGED <<out, wire, sends>>
    BY <1>6 DEF Distribute, EndDistribute, ReadEnd, SendPong, LockToClose,
          CloseFd, Retire, kernelVars
  <2>2. PICK p \in ThreadPoints \ {"unborn", "wait"} : pc' = [pc EXCEPT ![d] = p]
    <3>1. \E p \in ThreadPoints \ {"unborn", "wait"} : Goto(d, p)
      BY <1>6 DEF Distribute, EndDistribute, ReadEnd, SendPong, LockToClose,
            CloseFd, Retire, ThreadPoints
    <3>. QED
      BY <3>1 DEF Goto
  <2>3. c = d => pc'[c] \notin {"unborn", "wait"}
    BY <2>2 DEF TypeOK, ThreadTypes
  <2>4. c # d => pc'[c] = pc[c]
    BY <2>2 DEF TypeOK, ThreadTypes
  <2>. QED
    BY <2>1, <2>3, <2>4
<1>7. ASSUME NEW d \in Conns, ReadData(d) PROVE ToBeSaid(c, kind)
  <2>1. /\ sends' = sends
        /\ wire[d] # <<>>
        /\ \/ out' = [out EXCEPT ![d] = "chat"] /\ pc' = [pc EXCEPT ![d] = "wait"]
           \/ out' = out /\ pc' = [pc EXCEPT ![d] = "pong"]
           \/ out' = out /\ pc' = pc
    BY <1>7 DEF ReadData, Goto
  <2>2. \A e \in Conns \ {d} : wire'[e] = wire[e]
    BY <1>7 DEF ReadData, TypeOK, KernelTypes
  <2>3. CASE c = d
    <3>1. pc[c] = "read" /\ out[c] # "quit"
      BY <1>7, <2>3 DEF ReadData, In, OutInv
    <3>2. kind # "join"
      BY <2>1, <2>3, <3>1 DEF TypeOK, ThreadTypes
    <3>. QED
      BY <2>1, <2>3, <3>1, <3>2
  <2>4. CASE c # d
    BY <1>2, <2>1, <2>2, <2>4 DEF TypeOK, ThreadTypes
  <2>. QED
    BY <2>3, <2>4
<1>8. ASSUME NEW d \in Conns, EraseClient(d) PROVE ToBeSaid(c, kind)
  <2>1. /\ UNCHANGED <<wire, sends>>
        /\ out' = [out EXCEPT ![d] = "quit"] /\ pc' = [pc EXCEPT ![d] = "wait"]
        /\ pc[d] = "erase"
    BY <1>8 DEF EraseClient, Goto, In, kernelVars
  <2>2. CASE c = d
    <3>1. out[c] # "quit" /\ out'[c] = "quit"
      BY <2>1, <2>2 DEF OutInv, TypeOK, ThreadTypes
    <3>2. kind = "quit" \/ (kind = "chat" /\ (sends[c] = 0 \/ wire[c] # <<>>))
      BY <2>1, <2>2, <3>1 DEF TypeOK, ThreadTypes
    <3>. QED
      BY <3>1, <3>2
  <2>3. CASE c # d
    BY <1>2, <2>1, <2>3 DEF TypeOK, ThreadTypes
  <2>. QED
    BY <2>2, <2>3
<1>9. ASSUME NEW d \in Conns, ClientSends(d) PROVE ToBeSaid(c, kind)
  <2>1. UNCHANGED <<pc, out>> /\ sends[d] < MaxSends
    BY <1>9 DEF ClientSends, threadVars
  <2>2. CASE c = d
    <3>1. MaxSends <= 1 => sends[c] = 0
      BY <2>1, <2>2, BoundsAssumption DEF TypeOK, KernelTypes
    <3>2. kind \in {"join", "quit", "chat"}
      BY DEF SaidOnce
    <3>. QED
      BY <1>1, <2>1, <3>1, <3>2
  <2>3. CASE c # d
    <3>1. wire'[c] = wire[c] /\ sends'[c] = sends[c]
      BY <1>9, <2>3 DEF ClientSends, TypeOK, KernelTypes
    <3>. QED
      BY <1>2, <2>1, <3>1
  <2>. QED
    BY <2>2, <2>3
<1>. QED
  BY <1>2, <1>3, <1>4, <1>5, <1>6, <1>7, <1>8, <1>9
  DEF Next, ThreadStep, ClientStep, AtRest

(* A thread that is in its round goes on with it, or has just begun it     *)
(* with what was to be said.                                               *)
LEMMA RoundBegins ==
    ASSUME IndInv, [Next]_vars, NEW c \in Conns, pc'[c] = "send"
    PROVE  /\ out'[c] = out[c]
           /\ pc[c] = "send" \/ (pc[c] = "wait" /\ inbox' = inbox)
PROOF
<1>. TypeOK /\ MainInv BY DEF IndInv
<1>1. CASE UNCHANGED <<pc, out>>
  BY <1>1
<1>2. CASE UNCHANGED vars
  BY <1>1, <1>2 DEF vars, threadVars
<1>3. CASE MainStep \/ AcceptFails \/ TornCrash
  <2>1. UNCHANGED <<pc, out>> \/ SpawnThread
    BY <1>3 DEF MainStep, Accept, InsertBegin, InsertEnd, LockThreads,
          RecordThread, AcceptFails, TornCrash, threadVars
  <2>2. CASE SpawnThread
    <3>1. PICK d \in Conns : Pending(d)
      BY <2>2 DEF SpawnThread, At, MainInv
    <3>2. /\ pc' = [pc EXCEPT ![d] = "wait"]
          /\ out' = [out EXCEPT ![d] = "join"]
      BY <2>2, <3>1 DEF SpawnThread, Pending
    <3>3. c # d
      BY <3>2 DEF TypeOK, ThreadTypes
    <3>. QED
      BY <3>2, <3>3 DEF TypeOK, ThreadTypes
  <2>. QED
    BY <1>1, <2>1, <2>2
<1>4. ASSUME NEW d \in Conns,
             \/ SendNext(d) \/ SendDies(d) \/ Connect(d) \/ ClientReads(d)
             \/ ClientExits(d) \/ ClientSends(d)
      PROVE  UNCHANGED <<pc, out>>
  BY <1>4 DEF SendNext, SendDies, Connect, ClientReads, ClientExits,
        ClientSends, threadVars
<1>5. ASSUME NEW d \in Conns, Distribute(d)
      PROVE  /\ out'[c] = out[c]
             /\ pc[c] = "send" \/ (pc[c] = "wait" /\ inbox' = inbox)
  BY <1>5 DEF Distribute, In, Goto, kernelVars, TypeOK, ThreadTypes
<1>6. ASSUME NEW d \in Conns,
             \/ EndDistribute(d) \/ ReadEnd(d) \/ SendPong(d) \/ LockToClose(d)
             \/ CloseFd(d) \/ Retire(d)
      PROVE  out'[c] = out[c] /\ pc[c] = "send"
  <2>1. UNCHANGED out
    BY <1>6 DEF EndDistribute, ReadEnd, SendPong, LockToClose, CloseFd, Retire
  <2>2. \E p \in ThreadPoints \ {"send"} : pc' = [pc EXCEPT ![d] = p]
    BY <1>6 DEF EndDistribute, ReadEnd, SendPong, LockToClose, CloseFd, Retire,
          Goto, ThreadPoints
  <2>. QED
    BY <2>1, <2>2 DEF TypeOK, ThreadTypes
<1>7. ASSUME NEW d \in Conns, ReadData(d) \/ EraseClient(d)
      PROVE  out'[c] = out[c] /\ pc[c] = "send"
  <2>1. /\ out' = out \/ \E k \in Notices : out' = [out EXCEPT ![d] = k]
        /\ pc' = pc \/ \E p \in {"wait", "pong"} : pc' = [pc EXCEPT ![d] = p]
        /\ pc[d] # "send"
    BY <1>7 DEF ReadData, EraseClient, In, Goto, Notices
  <2>2. c # d
    BY <2>1 DEF TypeOK, ThreadTypes
  <2>. QED
    BY <2>1, <2>2 DEF TypeOK, ThreadTypes
<1>. QED
  BY <1>1, <1>2, <1>3, <1>4, <1>5, <1>6, <1>7
  DEF Next, ThreadStep, ClientStep, AtRest

(* What is said in a round is not to be said again.                        *)
LEMMA SayingIsSaid ==
    ASSUME WritesInv, NEW m \in GivenOnce, Saying(m)
    PROVE  ~ToBeSaid(m.from, m.kind)
PROOF
<1>1. m.from \in Conns /\ (m.kind = "chat" => MaxSends <= 1)
  BY DEF GivenOnce, Message, SaidOnce
<1>. QED
  BY <1>1 DEF ToBeSaid, WritesInv, Saying

(* There is one round at a time.                                           *)
LEMMA OneSays ==
    ASSUME MutexInv, NEW m \in GivenOnce, NEW n \in GivenOnce,
           Saying(m), Saying(n)
    PROVE  m = n
PROOF
<1>1. /\ m \in [kind : Notices \cup {"pong"}, from : Conns]
      /\ n \in [kind : Notices \cup {"pong"}, from : Conns]
  BY DEF GivenOnce, Message
<1>2. m.from = n.from
  BY <1>1 DEF Saying, MutexInv
<1>. QED
  BY <1>1, <1>2 DEF Saying

(* The buffers stay in the order of the rounds. *)
LEMMA OrderStep ==
    ASSUME IndInv, [Next]_vars
    PROVE  OrderInv'
PROOF
<1>. MutexInv /\ WritesInv /\ OrderInv BY DEF IndInv
<1>. GivenOnce' = GivenOnce BY DEF GivenOnce, SaidOnce, Message
<1>0. \A m \in GivenOnce : m.from \in Conns /\ m.kind \in SaidOnce
  BY DEF GivenOnce, Message
<1>1. ASSUME NEW c \in Conns, NEW m \in GivenOnce, Buffered(c, m)'
      PROVE  ~ToBeSaid(m.from, m.kind)'
  <2>1. ~ToBeSaid(m.from, m.kind)
    BY <1>1, OldOrTold, SayingIsSaid DEF OrderInv
  <2>. QED
    BY <1>0, <2>1, SaidStays
<1>2. ASSUME NEW c \in Conns, NEW m \in GivenOnce, NEW n \in GivenOnce,
             m # n, Saying(m)', Before(c, m, n)'
      PROVE  FALSE
  <2>1. /\ out'[m.from] = out[m.from]
        /\ \/ pc[m.from] = "send"
           \/ pc[m.from] = "wait" /\ inbox' = inbox
    BY <1>0, <1>2, RoundBegins DEF Saying
  <2>2. CASE pc[m.from] = "send"
    <3>1. Saying(m)
      BY <1>2, <2>1, <2>2 DEF Saying
    <3>2. ~Before(c, m, n)
      BY <1>2, <3>1 DEF OrderInv
    <3>3. Saying(n)
      BY <1>2, <3>2, BeforeStep
    <3>. QED
      BY <1>2, <3>1, <3>3, OneSays
  <2>3. CASE pc[m.from] = "wait" /\ inbox' = inbox
    <3>1. ToBeSaid(m.from, m.kind)
      BY <1>0, <1>2, <2>1, <2>3 DEF ToBeSaid, Saying, SaidOnce
    <3>2. Buffered(c, m)
      BY <1>2, <2>3 DEF Before, Buffered
    <3>. QED
      BY <3>1, <3>2 DEF OrderInv
  <2>. QED
    BY <2>1, <2>2, <2>3
<1>3. ASSUME NEW c \in Conns, NEW d \in Conns,
             NEW m \in GivenOnce, NEW n \in GivenOnce,
             m # n, Before(c, m, n)', Before(d, n, m)'
      PROVE  Before(c, m, n)
  <2>. SUFFICES ASSUME ~Before(c, m, n) PROVE FALSE
    OBVIOUS
  <2>1. Saying(n)
    BY <1>3, BeforeStep
  <2>2. ~Before(d, n, m)
    BY <1>3, <2>1 DEF OrderInv
  <2>3. Saying(m)
    BY <1>3, <2>2, BeforeStep
  <2>. QED
    BY <1>3, <2>1, <2>3, OneSays
<1>4. ASSUME NEW c \in Conns, NEW d \in Conns,
             NEW m \in GivenOnce, NEW n \in GivenOnce,
             m # n, Before(c, m, n)', Before(d, n, m)'
      PROVE  FALSE
  <2>1. Before(c, m, n) /\ Before(d, n, m)
    BY <1>3, <1>4
  <2>. QED
    BY <1>4, <2>1 DEF OrderInv, SameOrder
<1>. QED
  BY <1>1, <1>2, <1>4 DEF OrderInv, SameOrder

-----------------------------------------------------------------------------
(* The server starts in a state of the invariant. *)
LEMMA InitInd == Init => IndInv
PROOF
<1>. SUFFICES ASSUME Init PROVE IndInv
  OBVIOUS
<1>. USE NamesAssumption DEF Init
<1>1. KernelTypes
  BY DEF KernelTypes, Links
<1>2. SharedTypes
  BY DEF SharedTypes, MainPoints
<1>3. ThreadTypes
  BY DEF ThreadTypes, ThreadPoints, Notices
<1>4. MutexInv /\ OutInv /\ MainInv
  BY DEF MutexInv, HolderInside, OutInv, MainInv
<1>5. ConnInv /\ OwnSocketInv
  BY DEF ConnInv, OwnSocketInv, Open
<1>6. RegistryInv /\ ThreadsInv
  BY DEF RegistryInv, ThreadsInv
<1>7. LostInv
  BY DEF LostInv, LostOnlyByReuse, Open
<1>8. WritesInv
  <2>1. ASSUME NEW c \in Conns
        PROVE  /\ Len(wire[c]) <= sends[c] /\ sends[c] <= MaxSends
               /\ out[c] # "chat"
    <3>1. Len(wire[c]) = 0 /\ sends[c] = 0 /\ out[c] = "join"
      BY EmptySeq
    <3>2. 0 <= MaxSends
      BY BoundsAssumption
    <3>. QED
      BY <3>1, <3>2
  <2>. HIDE DEF Init
  <2>. QED
    BY <2>1 DEF WritesInv
<1>9. OrderInv
  BY DEF OrderInv, SameOrder, Buffered, Before, Saying, GivenOnce, Message
<1>. QED
  BY <1>1, <1>2, <1>3, <1>4, <1>5, <1>6, <1>7, <1>8, <1>9 DEF IndInv, TypeOK

(* Every step keeps the invariant. *)
LEMMA StepInd == IndInv /\ [Next]_vars => IndInv'
PROOF
<1>. SUFFICES ASSUME IndInv, [Next]_vars PROVE IndInv'
  OBVIOUS
<1>1. KernelTypes' /\ SharedTypes' /\ ThreadTypes'
  BY KernelTypesStep, SharedTypesStep, ThreadTypesStep
<1>2. MutexInv' /\ OutInv' /\ ConnInv' /\ MainInv' /\ OwnSocketInv'
  BY MutexStep, OutStep, ConnStep, MainStepInv, OwnSocketStep
<1>3. RegistryInv' /\ ThreadsInv' /\ LostInv'
  BY RegistryStep, ThreadsStep, LostStep
<1>4. WritesInv' /\ OrderInv'
  BY WritesStep, OrderStep
<1>. QED
  BY <1>1, <1>2, <1>3, <1>4 DEF IndInv, TypeOK

(* The inductive invariant holds in every reachable state: who holds mut,  *)
(* whose each descriptor is, which keys and which threads are recorded.    *)
THEOREM Inductive == Spec => []IndInv
PROOF
  BY InitInd, StepInd, PTL DEF Spec

(* Every variable keeps its type (TCPChatServer.cpp:43-58 for the main     *)
(* thread's descriptor), however many connections and descriptors.         *)
THEOREM TypeCorrect == Spec => []TypeOK
PROOF
<1>1. IndInv => TypeOK
  BY DEF IndInv
<1>. QED
  BY <1>1, Inductive, PTL

(* A thread only ever uses its own connection's descriptor, and close()    *)
(* never fails (TCPChatServer.cpp:110, 124 and 145).                       *)
THEOREM OwnSocketCorrect == Spec => []OwnSocket
PROOF
<1>1. IndInv => OwnSocket
  BY DEF IndInv, OwnSocketInv, OwnSocket
<1>. QED
  BY <1>1, Inductive, PTL

(* distributeData never sends to a closed descriptor unless an erase has   *)
(* raced an insert (TCPChatServer.cpp:70-74, TCPServer.cpp:139-151).       *)
THEOREM RegistryCorrect == Spec => []RegistrySound
PROOF
<1>1. IndInv => RegistrySound
  <2>. SUFFICES ASSUME IndInv, ~torn PROVE RegistrySound
    BY DEF RegistrySound
  <2>. RegistryInv /\ MutexInv /\ ThreadTypes
    BY DEF IndInv, TypeOK
  <2>1. ASSUME NEW f \in clientSockets, fdTable[f] = NoConn
        PROVE  \E c \in Conns : mut = c /\ pc[c] = "erase" /\ socket[c] = f
    BY <2>1 DEF RegistryInv, MutexInv
  <2>2. ASSUME NEW c \in Conns, pc[c] = "send", cursor[c] # NoFd
        PROVE  fdTable[cursor[c]] # NoConn
    BY <2>2 DEF RegistryInv, ThreadTypes
  <2>. QED
    BY <2>1, <2>2 DEF RegistrySound
<1>. QED
  BY <1>1, Inductive, PTL

(* The map of threads is exact except between the start of a thread and    *)
(* its record (TCPChatServer.cpp:55-58 and 155-157).                       *)
THEOREM ThreadsCorrect == Spec => []ThreadsExact
PROOF
<1>1. IndInv => ThreadsExact
  BY DEF IndInv, ThreadsInv, ThreadsExact
<1>. QED
  BY <1>1, Inductive, PTL

(* The mutex is held inside the sections that end with its unlock only, so *)
(* no thread waits for a mutex that nobody will give back, however many    *)
(* threads there are (TCPChatServer.cpp:55-58, 68-75, 144-146, 155-157).   *)
THEOREM HolderCorrect == Spec => []HolderInside
PROOF
<1>1. IndInv => HolderInside
  BY DEF IndInv, MutexInv
<1>. QED
  BY <1>1, Inductive, PTL

(* Until the map is torn a served client is missing from it exactly when   *)
(* the thread that had its number before erased the key after it had been  *)
(* inserted for the new client (TCPServer.cpp:92 and 139-151).             *)
THEOREM LostCorrect == Spec => []LostOnlyByReuse
PROOF
<1>1. IndInv => LostOnlyByReuse
  BY DEF IndInv, LostInv, LostOnlyByReuse
<1>. QED
  BY <1>1, Inductive, PTL

(* All clients see the notices in one order, whichever threads send them   *)
(* and however slowly the clients read (TCPChatServer.cpp:68-75).          *)
THEOREM SameOrderCorrect == Spec => []SameOrder
PROOF
<1>1. IndInv => SameOrder
  BY DEF IndInv, OrderInv
<1>. QED
  BY <1>1, Inductive, PTL

-----------------------------------------------------------------------------
(* What the mapping says of each place of a thread, and of the mutex.      *)
PhaseTable ==
    \A c \in Conns :
        /\ pc[c] = "unborn" => PhaseOf(c) = "outside"
        /\ pc[c] \in {"wait", "send"} =>
             /\ out[c] = "join" => PhaseOf(c) = "entering"
             /\ out[c] = "chat" => PhaseOf(c) = "talking"
             /\ out[c] = "quit" => PhaseOf(c) = "departing"
        /\ pc[c] \in {"retire", "done"} => PhaseOf(c) = "left"
        /\ pc[c] \in {"read", "pong", "close", "shut", "erase"} =>
             PhaseOf(c) = "present"

FloorTable ==
    /\ \A c \in Conns : mut = c /\ pc[c] = "send" => FloorHolder = c
    /\ (\A c \in Conns : mut # c \/ pc[c] # "send") => FloorHolder = Free

LEMMA Tables == PhaseTable /\ FloorTable
PROOF
<1>1. PhaseTable
  <2>. SUFFICES ASSUME NEW c \in Conns
       PROVE  /\ pc[c] = "unborn" => PhaseOf(c) = "outside"
              /\ pc[c] \in {"wait", "send"} =>
                   /\ out[c] = "join" => PhaseOf(c) = "entering"
                   /\ out[c] = "chat" => PhaseOf(c) = "talking"
                   /\ out[c] = "quit" => PhaseOf(c) = "departing"
              /\ pc[c] \in {"retire", "done"} => PhaseOf(c) = "left"
              /\ pc[c] \in {"read", "pong", "close", "shut", "erase"} =>
                   PhaseOf(c) = "present"
    BY DEF PhaseTable
  <2>1. pc[c] \in {"read", "pong", "close", "shut", "erase"} =>
          PhaseOf(c) = "present"
    BY DEF PhaseOf
  <2>2. pc[c] \in {"retire", "done"} => PhaseOf(c) = "left"
    BY DEF PhaseOf
  <2>3. pc[c] = "unborn" => PhaseOf(c) = "outside"
    BY DEF PhaseOf
  <2>4. ASSUME pc[c] \in {"wait", "send"}
        PROVE  PhaseOf(c) = [join |-> "entering", chat |-> "talking",
                             quit |-> "departing"][out[c]]
    BY <2>4 DEF PhaseOf
  <2>. QED
    BY <2>1, <2>2, <2>3, <2>4
<1>2. FloorTable
  BY DEF FloorTable, FloorHolder
<1>. QED
  BY <1>1, <1>2

LEMMA TablesNext == PhaseTable' /\ FloorTable'
PROOF
  BY Tables, PTL

LEMMA SamePhase ==
    ASSUME NEW c \in Conns, pc'[c] = pc[c], out'[c] = out[c]
    PROVE  PhaseOf(c)' = PhaseOf(c)
PROOF
  BY DEF PhaseOf

LEMMA RoomInit == Init => Room!Init
PROOF
<1>. SUFFICES ASSUME Init PROVE Room!Init
  OBVIOUS
<1>1. \A c \in Conns : PhaseOf(c) = "outside"
  BY Tables DEF Init, PhaseTable
<1>2. FloorHolder = Free
  BY Tables DEF Init, FloorTable
<1>. QED
  BY <1>1, <1>2 DEF Room!Init, Init

(* A step that changes neither what the threads say nor the mutex nor a    *)
(* buffer is no step of the room.                                          *)
LEMMA Stutter ==
    ASSUME \A c \in Conns : PhaseOf(c)' = PhaseOf(c),
           FloorHolder' = FloorHolder, inbox' = inbox
    PROVE  UNCHANGED Room!roomVars
PROOF
  BY DEF Room!roomVars

(* The main thread only starts visits.                                     *)
LEMMA MainRoom ==
    ASSUME IndInv, MainStep \/ AcceptFails \/ TornCrash
    PROVE  [Room!Next]_(Room!roomVars)
PROOF
<1>. USE NamesAssumption DEF At, kernelVars, mapVars, threadVars
<1>. TypeOK /\ MutexInv /\ MainInv
  BY DEF IndInv
<1>1. ASSUME UNCHANGED <<pc, out, mut, inbox>>
      PROVE  UNCHANGED Room!roomVars
  <2>1. FloorHolder' = FloorHolder
    BY <1>1 DEF FloorHolder
  <2>. QED
    BY <1>1, <2>1, SamePhase, Stutter
<1>2. CASE \/ InsertBegin \/ InsertEnd \/ AcceptFails \/ TornCrash
           \/ \E c \in Conns : Accept(c)
  BY <1>1, <1>2 DEF InsertBegin, InsertEnd, AcceptFails, TornCrash, Accept
<1>3. CASE LockThreads \/ RecordThread
  <2>1. /\ mut \notin Conns /\ mut' \notin Conns
        /\ pc' = pc /\ out' = out /\ inbox' = inbox
    BY <1>3 DEF LockThreads, RecordThread, MutexInv
  <2>2. FloorHolder' = FloorHolder
    BY <2>1 DEF FloorHolder
  <2>. QED
    BY <2>1, <2>2, SamePhase, Stutter
<1>4. CASE SpawnThread
  <2>1. PICK c \in Conns : Pending(c)
    BY <1>4 DEF SpawnThread, MainInv
  <2>2. /\ fdTable[clientSocket] = c /\ pc[c] = "unborn" /\ mut = Main
        /\ pc' = [pc EXCEPT ![c] = "wait"]
        /\ out' = [out EXCEPT ![c] = "join"]
        /\ UNCHANGED <<mut, inbox>>
    BY <1>4, <2>1 DEF SpawnThread, Pending, MutexInv
  <2>3. PhaseOf(c) = "outside" /\ PhaseOf(c)' = "entering"
    BY <2>2, Tables, TablesNext DEF PhaseTable, TypeOK, ThreadTypes
  <2>4. \A d \in Conns \ {c} : PhaseOf(d)' = PhaseOf(d)
    BY <2>2, SamePhase DEF TypeOK, ThreadTypes
  <2>5. FloorHolder' = FloorHolder
    BY <2>2 DEF FloorHolder
  <2>6. Room!Move(c, "outside", "entering")
    BY <2>2, <2>3, <2>4, <2>5 DEF Room!Move
  <2>. QED
    BY <2>6 DEF Room!Next
<1>. QED
  BY <1>2, <1>3, <1>4 DEF MainStep

(* A thread that sends has the floor, and no one else has.                 *)
LEMMA FloorIsMutex ==
    ASSUME IndInv
    PROVE  /\ \A c \in Conns : pc[c] = "send" => FloorHolder = c /\ mut = c
           /\ mut = Free => FloorHolder = Free
           /\ (\A c \in Conns : pc[c] # "send") => FloorHolder = Free
PROOF
<1>1. \A c \in Conns : pc[c] = "send" => mut = c
  BY DEF IndInv, MutexInv
<1>2. Free \notin Conns
  BY NamesAssumption
<1>. QED
  BY <1>1, <1>2, Tables DEF FloorTable

(* A thread takes the floor with the mutex and yields it with the mutex.   *)
LEMMA RoundRoom ==
    ASSUME IndInv, NEW c \in Conns, Distribute(c) \/ EndDistribute(c)
    PROVE  Room!Next
PROOF
<1>. USE NamesAssumption DEF In, Goto, TypeOK, ThreadTypes
<1>. TypeOK
  BY DEF IndInv
<1>1. \A d \in Conns : pc[d] = "send" => mut = d
  BY DEF IndInv, MutexInv
<1>2. \A d \in Conns \ {c} : PhaseOf(d)' = PhaseOf(d)
  BY SamePhase DEF Distribute, EndDistribute
<1>3. CASE Distribute(c)
  <2>1. /\ pc[c] = "wait" /\ pc' = [pc EXCEPT ![c] = "send"]
        /\ mut = Free /\ mut' = c /\ out' = out /\ inbox' = inbox
    BY <1>3 DEF Distribute, kernelVars
  <2>2. FloorHolder = Free /\ FloorHolder' = c
    BY <1>1, <2>1, Tables, TablesNext DEF FloorTable
  <2>3. /\ PhaseOf(c)' = PhaseOf(c)
        /\ PhaseOf(c) \in {"entering", "talking", "departing"}
    BY <2>1, Tables, TablesNext DEF PhaseTable, Notices
  <2>4. Room!TakeFloor(c)
    BY <1>2, <2>1, <2>2, <2>3 DEF Room!TakeFloor, Room!Word
  <2>. QED
    BY <2>4 DEF Room!Next
<1>4. CASE EndDistribute(c)
  <2>1. /\ pc[c] = "send" /\ out' = out /\ inbox' = inbox /\ mut' = Free
        /\ pc' = [pc EXCEPT ![c] = IF out[c] = "quit" THEN "retire" ELSE "read"]
    BY <1>4 DEF EndDistribute, kernelVars
  <2>2. FloorHolder = c /\ FloorHolder' = Free
    BY <2>1, FloorIsMutex, TablesNext DEF FloorTable
  <2>3. /\ PhaseOf(c) \in {"entering", "talking", "departing"}
        /\ PhaseOf(c) = "departing" <=> out[c] = "quit"
        /\ PhaseOf(c)' = IF out[c] = "quit" THEN "left" ELSE "present"
    BY <2>1, Tables, TablesNext DEF PhaseTable, Notices
  <2>4. Room!YieldFloor
    BY <1>2, <2>1, <2>2, <2>3 DEF Room!YieldFloor
  <2>. QED
    BY <2>4 DEF Room!Next
<1>. QED
  BY <1>3, <1>4

(* What is sent is what the holder of the floor has to say, or an answer.  *)
LEMMA SendRoom ==
    ASSUME IndInv, NEW c \in Conns, SendNext(c) \/ SendPong(c)
    PROVE  [Room!Next]_(Room!roomVars)
PROOF
<1>. USE NamesAssumption DEF In, Goto, TypeOK, ThreadTypes
<1>. TypeOK
  BY DEF IndInv
<1>1. ASSUME NEW f \in Fds, ~SendFails(f) PROVE fdTable[f] \in Conns
  BY <1>1 DEF SendFails, KernelTypes
<1>2. CASE SendNext(c)
  <2>1. /\ pc[c] = "send" /\ cursor[c] \in Fds /\ ~SendFails(cursor[c])
        /\ Transmit(fdTable[cursor[c]], [kind |-> out[c], from |-> c])
        /\ UNCHANGED <<pc, out, mut>>
    BY <1>2 DEF SendNext
  <2>2. PICK d \in Conns : Transmit(d, [kind |-> out[c], from |-> c])
    BY <1>1, <2>1
  <2>3. /\ \A e \in Conns : PhaseOf(e)' = PhaseOf(e)
        /\ FloorHolder' = FloorHolder
    BY <2>1, SamePhase DEF FloorHolder
  <2>4. FloorHolder = c
    BY <2>1, FloorIsMutex
  <2>5. Room!Word[PhaseOf(c)] = out[c]
    BY <2>1, Tables DEF PhaseTable, Notices, Room!Word
  <2>6. CASE inbox' = inbox
    BY <2>3, <2>6, Stutter
  <2>7. CASE inbox' = [inbox EXCEPT ![d] = Append(@, [kind |-> out[c], from |-> c])]
    <3>1. Room!Say(d)
      BY <2>3, <2>4, <2>5, <2>7 DEF Room!Say, Room!Tell
    <3>. QED
      BY <3>1 DEF Room!Next
  <2>. QED
    BY <2>2, <2>6, <2>7 DEF Transmit
<1>3. CASE SendPong(c)
  <2>1. /\ pc[c] = "pong" /\ pc' = [pc EXCEPT ![c] = "read"]
        /\ UNCHANGED <<out, mut>> /\ Open(c)
        /\ Transmit(fdTable[socket[c]], [kind |-> "pong", from |-> c])
    BY <1>3 DEF SendPong, Open
  <2>2. fdTable[socket[c]] = c
    BY <2>1 DEF IndInv, OwnSocketInv
  <2>3. PhaseOf(c) = "present" /\ PhaseOf(c)' = "present"
    BY <2>1, Tables, TablesNext DEF PhaseTable
  <2>4. \A d \in Conns : PhaseOf(d)' = PhaseOf(d)
    BY <2>1, <2>3, SamePhase
  <2>5. FloorHolder' = FloorHolder
    BY <2>1 DEF FloorHolder
  <2>6. CASE inbox' = inbox
    BY <2>4, <2>5, <2>6, Stutter
  <2>7. CASE inbox' = [inbox EXCEPT ![c] = Append(@, [kind |-> "pong", from |-> c])]
    <3>1. Room!Pong(c)
      BY <2>3, <2>4, <2>5, <2>7 DEF Room!Pong, Room!Tell
    <3>. QED
      BY <3>1 DEF Room!Next
  <2>. QED
    BY <2>1, <2>2, <2>6, <2>7 DEF Transmit
<1>. QED
  BY <1>2, <1>3

(* Between rounds a thread gets something to say, or is as present as      *)
(* before, or stays gone.                                                  *)
LEMMA BetweenRoom ==
    ASSUME IndInv, NEW c \in Conns,
           \/ ReadData(c) \/ ReadEnd(c) \/ LockToClose(c) \/ CloseFd(c)
           \/ EraseClient(c) \/ Retire(c) \/ SendDies(c)
    PROVE  [Room!Next]_(Room!roomVars)
PROOF
<1>. USE NamesAssumption DEF In, Goto, TypeOK, ThreadTypes
<1>. TypeOK
  BY DEF IndInv
<1>1. ASSUME \A d \in Conns \ {c} : pc'[d] = pc[d],
             pc[c] # "send", pc'[c] # "send",
             mut' = mut \/ (mut \notin Conns \ {c} /\ mut' \in {c, Free})
      PROVE  FloorHolder' = FloorHolder
  <2>1. CASE mut' = mut
    BY <1>1, <2>1 DEF FloorHolder
  <2>2. CASE mut \notin Conns \ {c} /\ mut' \in {c, Free}
    <3>1. FloorHolder = Free /\ FloorHolder' = Free
      BY <1>1, <2>2 DEF FloorHolder
    <3>. QED
      BY <3>1
  <2>. QED
    BY <1>1, <2>1, <2>2
<1>2. CASE SendDies(c)
  <2>1. UNCHANGED <<pc, out, mut, inbox>>
    BY <1>2 DEF SendDies, kernelVars, threadVars
  <2>2. FloorHolder' = FloorHolder
    BY <2>1 DEF FloorHolder
  <2>. QED
    BY <2>1, <2>2, SamePhase, Stutter
<1>3. CASE ReadEnd(c) \/ LockToClose(c) \/ CloseFd(c) \/ Retire(c)
  <2>1. /\ \A d \in Conns \ {c} : pc'[d] = pc[d]
        /\ out' = out /\ inbox' = inbox
        /\ \/ pc[c] = "retire" /\ pc'[c] = "done"
           \/ /\ pc[c] \in {"read", "close", "shut"}
              /\ pc'[c] \in {"close", "shut", "erase"}
        /\ mut' = mut \/ (mut = Free /\ mut' = c)
    <3>1. CASE ReadEnd(c)
      BY <3>1 DEF ReadEnd, kernelVars
    <3>2. CASE LockToClose(c)
      BY <3>2 DEF LockToClose, kernelVars
    <3>3. CASE CloseFd(c)
      BY <3>3 DEF CloseFd
    <3>4. CASE Retire(c)
      BY <3>4 DEF Retire, kernelVars
    <3>. QED
      BY <1>3, <3>1, <3>2, <3>3, <3>4
  <2>2. PhaseOf(c)' = PhaseOf(c)
    BY <2>1, Tables, TablesNext DEF PhaseTable
  <2>3. \A d \in Conns : PhaseOf(d)' = PhaseOf(d)
    BY <2>1, <2>2, SamePhase
  <2>4. FloorHolder' = FloorHolder
    <3>1. pc[c] # "send" /\ pc'[c] # "send"
      BY <2>1
    <3>2. mut' = mut \/ (mut \notin Conns \ {c} /\ mut' \in {c, Free})
      BY <2>1
    <3>. QED
      BY <1>1, <2>1, <3>1, <3>2
  <2>. QED
    BY <2>1, <2>3, <2>4, Stutter
<1>4. CASE EraseClient(c)
  <2>1. /\ pc[c] = "erase" /\ pc' = [pc EXCEPT ![c] = "wait"]
        /\ out' = [out EXCEPT ![c] = "quit"]
        /\ mut = c /\ mut' = Free /\ inbox' = inbox
    BY <1>4 DEF EraseClient, IndInv, MutexInv, kernelVars
  <2>2. PhaseOf(c) = "present" /\ PhaseOf(c)' = "departing"
    BY <2>1, Tables, TablesNext DEF PhaseTable
  <2>3. \A d \in Conns \ {c} : PhaseOf(d)' = PhaseOf(d)
    BY <2>1, SamePhase
  <2>4. FloorHolder' = FloorHolder
    BY <1>1, <2>1
  <2>5. Room!Move(c, "present", "departing")
    BY <2>1, <2>2, <2>3, <2>4 DEF Room!Move
  <2>. QED
    BY <2>5 DEF Room!Next
<1>5. CASE ReadData(c)
  <2>1. /\ pc[c] = "read" /\ UNCHANGED <<mut, inbox>>
        /\ \A d \in Conns \ {c} : pc'[d] = pc[d] /\ out'[d] = out[d]
        /\ \/ pc'[c] = "wait" /\ out'[c] = "chat"
           \/ pc'[c] \in {"read", "pong"}
        /\ pc'[c] # "send"
    BY <1>5 DEF ReadData
  <2>2. \A d \in Conns \ {c} : PhaseOf(d)' = PhaseOf(d)
    BY <2>1, SamePhase
  <2>3. FloorHolder' = FloorHolder
    BY <1>1, <2>1
  <2>4. PhaseOf(c) = "present" /\ PhaseOf(c)' \in {"talking", "present"}
    BY <2>1, Tables, TablesNext DEF PhaseTable
  <2>5. CASE PhaseOf(c)' = "present"
    BY <2>1, <2>2, <2>3, <2>4, <2>5, Stutter
  <2>6. CASE PhaseOf(c)' = "talking"
    <3>1. Room!Move(c, "present", "talking")
      BY <2>1, <2>2, <2>3, <2>4, <2>6 DEF Room!Move
    <3>. QED
      BY <3>1 DEF Room!Next
  <2>. QED
    BY <2>4, <2>5, <2>6
<1>. QED
  BY <1>2, <1>3, <1>4, <1>5

(* Clients only take out of their own buffers.                             *)
LEMMA ClientRoom ==
    ASSUME IndInv, NEW c \in Conns, ClientStep(c)
    PROVE  [Room!Next]_(Room!roomVars)
PROOF
<1>1. UNCHANGED <<pc, out, mut>>
  BY DEF ClientStep, Connect, ClientSends, ClientReads, ClientExits, threadVars
<1>2. /\ \A d \in Conns : PhaseOf(d)' = PhaseOf(d)
      /\ FloorHolder' = FloorHolder
  BY <1>1, SamePhase DEF FloorHolder
<1>3. CASE Connect(c) \/ ClientSends(c)
  BY <1>2, <1>3, Stutter DEF Connect, ClientSends
<1>4. CASE ClientReads(c)
  <2>1. Room!Hear(c)
    BY <1>2, <1>4 DEF ClientReads, Room!Hear
  <2>. QED
    BY <2>1 DEF Room!Next
<1>5. CASE ClientExits(c)
  <2>1. Room!HangUp(c)
    BY <1>2, <1>5 DEF ClientExits, Room!HangUp
  <2>. QED
    BY <2>1 DEF Room!Next
<1>. QED
  BY <1>3, <1>4, <1>5 DEF ClientStep

(* Every step of the server is a step of the room or none.                 *)
LEMMA RoomStep == IndInv /\ [Next]_vars => [Room!Next]_(Room!roomVars)
PROOF
<1>. SUFFICES ASSUME IndInv, [Next]_vars PROVE [Room!Next]_(Room!roomVars)
  OBVIOUS
<1>1. CASE MainStep \/ AcceptFails \/ TornCrash
  BY <1>1, MainRoom
<1>2. ASSUME NEW c \in Conns, ThreadStep(c)
      PROVE  [Room!Next]_(Room!roomVars)
  BY <1>2, RoundRoom, SendRoom, BetweenRoom DEF ThreadStep
<1>3. ASSUME NEW c \in Conns, ClientStep(c)
      PROVE  [Room!Next]_(Room!roomVars)
  BY <1>3, ClientRoom
<1>4. CASE UNCHANGED vars
  <2>1. UNCHANGED <<pc, out, mut, inbox>>
    BY <1>4 DEF vars, kernelVars, threadVars
  <2>2. FloorHolder' = FloorHolder
    BY <2>1 DEF FloorHolder
  <2>. QED
    BY <2>1, <2>2, SamePhase, Stutter
<1>. QED
  BY <1>1, <1>2, <1>3, <1>4 DEF Next, AtRest

(* The threads, descriptors and the mutex keep what the room promises,     *)
(* however many clients there are: one speaks at a time, enters first and  *)
(* departs last (TCPChatServer.cpp:66-77 and 83-159).                      *)
THEOREM RoomCorrect == Spec => RoomSpec
PROOF
  BY RoomInit, RoomStep, Inductive, PTL DEF Spec, RoomSpec, Room!Spec
=============================================================================
