-------------------------- MODULE SelectChatProofs --------------------------
(***************************************************************************)
(* Safety of the chat server around select() for any number of clients and *)
(* any capacity of the connections.                                        *)
(***************************************************************************)
EXTENDS SelectChatRounds, TLAPS

(* The connections not yet accepted and the list of clients are sequences  *)
(* without duplicates.                                                     *)

(* The head of a queue without duplicates is not in the rest of it.        *)
LEMMA TailOfQueue ==
    ASSUME NEW S, NEW s \in Seq(S), s # <<>>, IsInjective(s)
    PROVE  /\ Head(s) \in S /\ Head(s) \in ToSet(s)
           /\ Tail(s) \in Seq(S)
           /\ IsInjective(Tail(s))
           /\ ToSet(Tail(s)) = ToSet(s) \ {Head(s)}
<1> DEFINE t == Tail(s)
<1>1. /\ t \in Seq(S) /\ Head(s) = s[1] /\ 1 \in DOMAIN s
      /\ DOMAIN s = 1..Len(s) /\ Len(s) \in Nat \ {0}
      /\ DOMAIN t = 1..(Len(s) - 1)
      /\ \A i \in 1..(Len(s) - 1) : t[i] = s[i + 1]
  OBVIOUS
<1> HIDE DEF t
<1>2. \A i, j \in 1..Len(s) : s[i] = s[j] => i = j
  BY <1>1 DEF IsInjective
<1>3. IsInjective(t)
  <2> SUFFICES ASSUME NEW i \in 1..(Len(s) - 1), NEW j \in 1..(Len(s) - 1),
                      t[i] = t[j]
               PROVE  i = j
    BY <1>1 DEF IsInjective
  <2>1. i + 1 \in 1..Len(s) /\ j + 1 \in 1..Len(s)
    BY <1>1
  <2> QED
    BY <2>1, <1>1, <1>2
<1>4. ToSet(t) \subseteq ToSet(s) \ {Head(s)}
  <2> SUFFICES ASSUME NEW i \in 1..(Len(s) - 1)
               PROVE  t[i] \in ToSet(s) \ {Head(s)}
    BY <1>1 DEF ToSet
  <2>1. i + 1 \in 1..Len(s) /\ 1 \in 1..Len(s) /\ i + 1 # 1
    BY <1>1
  <2>2. s[i + 1] # s[1]
    BY <2>1, <1>2
  <2>3. s[i + 1] \in ToSet(s)
    BY <2>1, <1>1 DEF ToSet
  <2> QED
    BY <2>2, <2>3, <1>1
<1>5. ToSet(s) \ {Head(s)} \subseteq ToSet(t)
  <2> SUFFICES ASSUME NEW i \in 1..Len(s), s[i] # s[1]
               PROVE  s[i] \in ToSet(t)
    BY <1>1 DEF ToSet
  <2>1. i - 1 \in 1..(Len(s) - 1) /\ (i - 1) + 1 = i
    BY <1>1
  <2>2. t[i - 1] = s[i]
    BY <2>1, <1>1
  <2> QED
    BY <2>1, <2>2, <1>1 DEF ToSet
<1>6. Head(s) \in S /\ Head(s) \in ToSet(s)
  BY <1>1 DEF ToSet
<1> QED
  BY <1>1, <1>3, <1>4, <1>5, <1>6 DEF t

(* A new member joins the queue at its end.                                *)
LEMMA AppendToQueue ==
    ASSUME NEW S, NEW s \in Seq(S), NEW c \in S, c \notin ToSet(s),
           IsInjective(s)
    PROVE  /\ Append(s, c) \in Seq(S)
           /\ IsInjective(Append(s, c))
           /\ ToSet(Append(s, c)) = ToSet(s) \cup {c}
<1> DEFINE t == Append(s, c)
<1>1. /\ t \in Seq(S)
      /\ DOMAIN s = 1..Len(s) /\ Len(s) \in Nat
      /\ DOMAIN t = 1..(Len(s) + 1)
      /\ t[Len(s) + 1] = c
      /\ \A i \in 1..Len(s) : t[i] = s[i]
  OBVIOUS
<1> HIDE DEF t
<1>2. \A i \in 1..Len(s) : s[i] # c
  BY <1>1 DEF ToSet
<1>3. \A i, j \in 1..Len(s) : s[i] = s[j] => i = j
  BY <1>1 DEF IsInjective
<1>4. IsInjective(t)
  <2> SUFFICES ASSUME NEW i \in 1..(Len(s) + 1), NEW j \in 1..(Len(s) + 1),
                      t[i] = t[j]
               PROVE  i = j
    BY <1>1 DEF IsInjective
  <2> QED
    BY <1>1, <1>2, <1>3
<1>5. ToSet(t) \subseteq ToSet(s) \cup {c}
  BY <1>1 DEF ToSet
<1>6. ToSet(s) \cup {c} \subseteq ToSet(t)
  BY <1>1 DEF ToSet
<1> QED
  BY <1>1, <1>4, <1>5, <1>6 DEF t

(* Two queues have no duplicates together when neither has one and they    *)
(* share nothing.                                                          *)
LEMMA TwoQueues ==
    ASSUME NEW S, NEW s \in Seq(S), NEW t \in Seq(S)
    PROVE  IsInjective(s \o t) <=>
               /\ IsInjective(s) /\ IsInjective(t)
               /\ ToSet(s) \cap ToSet(t) = {}
<1> DEFINE u == s \o t
<1>1. /\ Len(s) \in Nat /\ Len(t) \in Nat
      /\ DOMAIN s = 1..Len(s) /\ DOMAIN t = 1..Len(t)
      /\ DOMAIN u = 1..(Len(s) + Len(t))
      /\ \A i \in 1..Len(s) : u[i] = s[i]
      /\ \A i \in 1..Len(t) : u[Len(s) + i] = t[i]
  OBVIOUS
<1> HIDE DEF u
<1>2. ASSUME IsInjective(u)
      PROVE  IsInjective(s) /\ IsInjective(t) /\ ToSet(s) \cap ToSet(t) = {}
  <2>1. \A i, j \in 1..(Len(s) + Len(t)) : u[i] = u[j] => i = j
    BY <1>1, <1>2 DEF IsInjective
  <2>2. IsInjective(s)
    BY <1>1, <2>1 DEF IsInjective
  <2>3. IsInjective(t)
    <3> SUFFICES ASSUME NEW i \in 1..Len(t), NEW j \in 1..Len(t), t[i] = t[j]
                 PROVE  i = j
      BY <1>1 DEF IsInjective
    <3>1. Len(s) + i \in 1..(Len(s) + Len(t)) /\ Len(s) + j \in 1..(Len(s) + Len(t))
      BY <1>1
    <3> QED
      BY <3>1, <1>1, <2>1
  <2>4. ASSUME NEW i \in 1..Len(s), NEW j \in 1..Len(t), s[i] = t[j]
        PROVE  FALSE
    <3>1. i \in 1..(Len(s) + Len(t)) /\ Len(s) + j \in 1..(Len(s) + Len(t))
      BY <1>1
    <3>2. u[i] = u[Len(s) + j] /\ i # Len(s) + j
      BY <2>4, <1>1
    <3> QED
      BY <3>1, <3>2, <2>1
  <2>5. ToSet(s) \cap ToSet(t) = {}
    BY <2>4, <1>1 DEF ToSet
  <2> QED
    BY <2>2, <2>3, <2>5
<1>3. ASSUME IsInjective(s), IsInjective(t), ToSet(s) \cap ToSet(t) = {}
      PROVE  IsInjective(u)
  <2>1. /\ \A i, j \in 1..Len(s) : s[i] = s[j] => i = j
        /\ \A i, j \in 1..Len(t) : t[i] = t[j] => i = j
        /\ \A i \in 1..Len(s), j \in 1..Len(t) : s[i] # t[j]
    <3>1. /\ \A i, j \in 1..Len(s) : s[i] = s[j] => i = j
          /\ \A i, j \in 1..Len(t) : t[i] = t[j] => i = j
      BY <1>1, <1>3 DEF IsInjective
    <3>2. ASSUME NEW i \in 1..Len(s), NEW j \in 1..Len(t), s[i] = t[j]
          PROVE  FALSE
      <4>1. s[i] \in ToSet(s) /\ t[j] \in ToSet(t)
        BY <1>1 DEF ToSet
      <4> QED
        BY <4>1, <3>2, <1>3
    <3> QED
      BY <3>1, <3>2
  <2> SUFFICES ASSUME NEW i \in 1..(Len(s) + Len(t)),
                      NEW j \in 1..(Len(s) + Len(t)),
                      u[i] = u[j]
               PROVE  i = j
    BY <1>1 DEF IsInjective
  <2>2. \A k \in 1..(Len(s) + Len(t)) :
            k \notin 1..Len(s) => k - Len(s) \in 1..Len(t) /\ u[k] = t[k - Len(s)]
    <3> SUFFICES ASSUME NEW k \in 1..(Len(s) + Len(t)), k \notin 1..Len(s)
                 PROVE  k - Len(s) \in 1..Len(t) /\ u[k] = t[k - Len(s)]
      OBVIOUS
    <3>1. k - Len(s) \in 1..Len(t) /\ Len(s) + (k - Len(s)) = k
      BY <1>1
    <3> QED
      BY <3>1, <1>1
  <2>3. CASE i \in 1..Len(s) /\ j \in 1..Len(s)
    BY <2>3, <2>1, <1>1
  <2>4. CASE i \in 1..Len(s) /\ j \notin 1..Len(s)
    BY <2>4, <2>1, <2>2, <1>1
  <2>5. CASE i \notin 1..Len(s) /\ j \in 1..Len(s)
    BY <2>5, <2>1, <2>2, <1>1
  <2>6. CASE i \notin 1..Len(s) /\ j \notin 1..Len(s)
    <3>1. i - Len(s) = j - Len(s)
      BY <2>6, <2>1, <2>2
    <3> QED
      BY <3>1, <1>1
  <2> QED
    BY <2>3, <2>4, <2>5, <2>6
<1> QED
  BY <1>2, <1>3 DEF u

-----------------------------------------------------------------------------

(* Each connection is new, waiting or in the list, in one place only; the  *)
(* client just accepted is not one that select() reported, the one that is *)
(* sent to is.                                                             *)
QueueInv ==
    /\ IsInjective(backlog) /\ IsInjective(clientSockets)
    /\ ToSet(backlog) \cap ToSet(clientSockets) = {}
    /\ \A c \in ToSet(backlog) \cup ToSet(clientSockets) : link[c] # "new"
    /\ pc = "name" => Turn \notin readfds
    /\ pc = "send" => Turn \in readfds

(* What select() reported is still so when a client's turn comes.          *)
FreshInv ==
    /\ pc \in {"accept", "name"} => \A c \in readfds : Readable(c)
    /\ pc \in {"read", "send"} =>
           \A k \in 1..Len(clientSockets) :
               k > at /\ clientSockets[k] \in readfds => Readable(clientSockets[k])

IndInv ==
    /\ TypeOK /\ QueueInv /\ FreshInv
    /\ StaleOnlyToLeavers /\ BlocksOnlyAfterEmpty

LEMMA InitInv == Init => IndInv
<1> SUFFICES ASSUME Init PROVE IndInv
  OBVIOUS
<1> USE CapsAssumption, NoneAssumption
<1>1. /\ backlog = <<>> /\ clientSockets = <<>>
      /\ backlog \in Seq(Clients) /\ clientSockets \in Seq(Clients)
      /\ Len(clientSockets) = 0 /\ DOMAIN clientSockets = {}
  BY DEF Init
<1>2. /\ IsInjective(backlog) /\ IsInjective(clientSockets)
      /\ ToSet(backlog) = {} /\ ToSet(clientSockets) = {}
  BY <1>1 DEF IsInjective, ToSet
<1>3. IsInjective(backlog \o clientSockets)
  BY <1>1, <1>2, TwoQueues
<1>4. /\ \A c \in Clients : stream[c] \in Seq(Pieces) /\ Len(stream[c]) <= StreamCap
      /\ message \in Buffers
  BY DEF Init, Buffers
<1>5. TypeOK
  BY <1>1, <1>2, <1>3, <1>4 DEF Init, TypeOK, InList
<1> QED
  BY <1>1, <1>2, <1>5
     DEF Init, IndInv, QueueInv, FreshInv, StaleOnlyToLeavers,
         BlocksOnlyAfterEmpty, Reading

LEMMA QueueMembers ==
    ASSUME TypeOK
    PROVE  ToSet(backlog) \subseteq Clients /\ ToSet(clientSockets) \subseteq Clients
<1>1. backlog \in Seq(Clients) /\ clientSockets \in Seq(Clients)
  BY DEF TypeOK
<1> QED
  BY <1>1 DEF ToSet

(* What clients do never makes a descriptor less readable.                 *)
LEMMA ClientSteps ==
    ASSUME NEW c \in Clients, IndInv, ClientStep(c)
    PROVE  IndInv'
<1> USE CapsAssumption DEF serverVars
<1>1. /\ UNCHANGED <<clientSockets, readfds, message, pc, at, echoes>>
      /\ \A d \in Clients \ {c} : link'[d] = link[d] /\ stream'[d] = stream[d]
  BY DEF IndInv, TypeOK, ClientStep, Connect, SendName, SendLine, Put, Killed
<1>2. /\ stream' \in [Clients -> Seq(Pieces)]
      /\ \A d \in Clients : Len(stream'[d]) <= StreamCap
      /\ stream[c] # <<>> => stream'[c] # <<>>
  <2>1. CASE SendName(c) \/ SendLine(c)
    <3>1. PICK pieces \in Seq(Pieces) : pieces # <<>> /\ Put(c, pieces)
      <4>1. CASE SendName(c)
        <5>1. PICK tail \in Pieces : Put(c, <<"text", tail>>)
          BY <4>1 DEF SendName
        <5>2. <<"text", tail>> \in Seq(Pieces) /\ <<"text", tail>> # <<>>
          BY DEF Pieces
        <5> QED
          BY <5>1, <5>2
      <4>2. CASE SendLine(c)
        <5>1. PICK line \in Lines : Put(c, line)
          BY <4>2 DEF SendLine
        <5>2. /\ line \in [1..Size -> Pieces] /\ Size \in Nat \ {0}
              /\ DOMAIN line = 1..Size
          BY DEF Lines
        <5>3. line \in Seq(Pieces) /\ Len(line) = Size
          BY <5>2
        <5>4. line # <<>>
          BY <5>2, <5>3
        <5> QED
          BY <5>1, <5>3, <5>4
      <4> QED
        BY <2>1, <4>1, <4>2
    <3>2. /\ stream[c] \in Seq(Pieces)
          /\ stream' = [stream EXCEPT ![c] = stream[c] \o pieces]
          /\ Len(stream[c]) + Len(pieces) <= StreamCap
      BY <3>1 DEF Put, IndInv, TypeOK
    <3>3. /\ stream[c] \o pieces \in Seq(Pieces)
          /\ Len(stream[c] \o pieces) = Len(stream[c]) + Len(pieces)
          /\ Len(pieces) \in Nat \ {0} /\ Len(stream[c]) \in Nat
      BY <3>1, <3>2
    <3> DEFINE longer == stream[c] \o pieces
    <3>4. longer # <<>>
      BY <3>2, <3>3
    <3> HIDE DEF longer
    <3> QED
      BY <3>2, <3>3, <3>4 DEF IndInv, TypeOK, longer
  <2>2. CASE Connect(c) \/ Killed(c)
    BY <2>2 DEF Connect, Killed, IndInv, TypeOK
  <2> QED
    BY <2>1, <2>2 DEF ClientStep
<1>3. /\ link' \in [Clients -> {"new", "up", "fin", "reset", "gone"}]
      /\ Left(c) => Left(c)'
      /\ link[c] # "new" => link'[c] # "new"
  BY DEF IndInv, TypeOK, ClientStep, Connect, SendName, SendLine, Put, Killed, Left
<1>4. \A d \in Clients : (Readable(d) => Readable(d)') /\ (Left(d) => Left(d)')
  BY <1>1, <1>2, <1>3 DEF Readable, Left
<1>5. /\ backlog' \in Seq(Clients) /\ IsInjective(backlog')
      /\ ToSet(backlog) \subseteq ToSet(backlog')
      /\ \A d \in ToSet(backlog') \ ToSet(backlog) :
             link'[d] # "new" /\ d \notin ToSet(clientSockets)
  <2>1. CASE Connect(c)
    <3>1. /\ c \notin ToSet(backlog) \cup ToSet(clientSockets)
          /\ backlog' = Append(backlog, c) /\ link'[c] = "up"
      BY <2>1 DEF Connect, IndInv, TypeOK, QueueInv
    <3>2. /\ backlog' \in Seq(Clients) /\ IsInjective(backlog')
          /\ ToSet(backlog') = ToSet(backlog) \cup {c}
      BY <3>1, AppendToQueue DEF IndInv, TypeOK, QueueInv
    <3> QED
      BY <3>1, <3>2
  <2>2. CASE SendName(c) \/ SendLine(c) \/ Killed(c)
    BY <2>2 DEF SendName, SendLine, Killed, IndInv, TypeOK, QueueInv
  <2> QED
    BY <2>1, <2>2 DEF ClientStep
<1>6. ToSet(backlog) \subseteq Clients /\ ToSet(clientSockets) \subseteq Clients
  BY QueueMembers DEF IndInv
<1>7. QueueInv'
  BY <1>1, <1>3, <1>5, <1>6 DEF IndInv, QueueInv, Turn
<1>8. TypeOK'
  <2>1. IsInjective(backlog' \o clientSockets')
    BY <1>1, <1>5, <1>7, TwoQueues DEF IndInv, TypeOK, QueueInv
  <2>2. /\ sending' \in [Clients -> {"name", "line"}]
        /\ backlog # <<>> => backlog' # <<>>
    <3>1. CASE Connect(c)
      <4>1. /\ UNCHANGED sending
            /\ backlog' = Append(backlog, c) /\ backlog \in Seq(Clients)
        BY <3>1 DEF Connect, IndInv, TypeOK
      <4>2. sending \in [Clients -> {"name", "line"}]
        BY DEF IndInv, TypeOK
      <4>3. backlog' # <<>>
        BY <4>1
      <4> QED
        BY <4>1, <4>2, <4>3
    <3>2. CASE SendName(c) \/ SendLine(c) \/ Killed(c)
      BY <3>2 DEF SendName, SendLine, Killed, IndInv, TypeOK
    <3> QED
      BY <3>1, <3>2 DEF ClientStep
  <2> QED
    BY <1>1, <1>2, <1>3, <1>5, <2>1, <2>2 DEF IndInv, TypeOK, InList
<1>9. FreshInv'
  <2>1. readfds \subseteq Clients /\ \A k \in 1..Len(clientSockets) : clientSockets[k] \in Clients
    BY <1>6 DEF IndInv, TypeOK
  <2> QED
    BY <1>1, <1>4, <2>1 DEF IndInv, FreshInv
<1>10. StaleOnlyToLeavers' /\ BlocksOnlyAfterEmpty'
  <2>1. pc = "send" => Turn \in Clients
    BY DEF IndInv, TypeOK, InList, Turn
  <2> QED
    BY <1>1, <1>4, <2>1
       DEF IndInv, StaleOnlyToLeavers, BlocksOnlyAfterEmpty, Turn, Reading, InList
<1> QED
  BY <1>7, <1>8, <1>9, <1>10 DEF IndInv

(* Whose turn it is, and that nobody else has the same place.              *)
LEMMA TurnTyped ==
    ASSUME TypeOK, InList
    PROVE  /\ Turn \in Clients
           /\ at \in 1..Len(clientSockets) /\ Len(clientSockets) \in Nat
           /\ \A k \in 1..Len(clientSockets) : clientSockets[k] \in Clients
           /\ IsInjective(clientSockets) =>
                  \A k \in 1..Len(clientSockets) :
                      clientSockets[k] = Turn => k = at
<1>1. /\ clientSockets \in Seq(Clients) /\ Len(clientSockets) \in Nat
      /\ DOMAIN clientSockets = 1..Len(clientSockets)
      /\ at \in 1..Len(clientSockets)
  BY DEF TypeOK, InList
<1> QED
  BY <1>1 DEF Turn, IsInjective

LEMMA SelectStep ==
    ASSUME IndInv, Select
    PROVE  IndInv'
<1>1. /\ UNCHANGED <<clientVars, clientSockets, message>>
      /\ UNCHANGED <<sending, link, stream, echoes, backlog>>
      /\ at' = 1 /\ pc' \in {"accept", "read"}
      /\ pc' = "accept" => backlog # <<>>
      /\ readfds' = { d \in ToSet(clientSockets) : Readable(d) }
  BY DEF Select, clientVars
<1>2. \A d \in readfds' : Readable(d)'
  BY <1>1 DEF Readable, Left
<1>3. TypeOK'
  <2>1. Len(clientSockets) \in Nat
    BY DEF IndInv, TypeOK
  <2> QED
    BY <1>1, <2>1 DEF IndInv, TypeOK
<1>4. QueueInv' /\ FreshInv'
  BY <1>1, <1>2 DEF IndInv, QueueInv, FreshInv
<1>5. StaleOnlyToLeavers' /\ BlocksOnlyAfterEmpty'
  BY <1>1, <1>2 DEF StaleOnlyToLeavers, BlocksOnlyAfterEmpty, Reading
<1> QED
  BY <1>3, <1>4, <1>5 DEF IndInv

LEMMA AcceptStep ==
    ASSUME IndInv, Accept
    PROVE  IndInv'
<1> DEFINE c == Head(backlog)
<1>1. /\ backlog \in Seq(Clients) /\ backlog # <<>>
      /\ clientSockets \in Seq(Clients) /\ Len(clientSockets) \in Nat
      /\ backlog' = Tail(backlog) /\ clientSockets' = Append(clientSockets, c)
      /\ pc = "accept" /\ pc' = "name" /\ at' = Len(clientSockets) + 1
      /\ UNCHANGED <<sending, link, stream, echoes, readfds, message>>
  BY DEF Accept, IndInv, TypeOK
<1>2. /\ c \in Clients /\ c \in ToSet(backlog) /\ c \notin ToSet(clientSockets)
      /\ backlog' \in Seq(Clients) /\ IsInjective(backlog')
      /\ ToSet(backlog') = ToSet(backlog) \ {c}
  BY <1>1, TailOfQueue DEF IndInv, QueueInv
<1>3. /\ clientSockets' \in Seq(Clients) /\ IsInjective(clientSockets')
      /\ ToSet(clientSockets') = ToSet(clientSockets) \cup {c}
  BY <1>1, <1>2, AppendToQueue DEF IndInv, QueueInv
<1>4. /\ Len(clientSockets') = Len(clientSockets) + 1
      /\ clientSockets'[Len(clientSockets) + 1] = c
  BY <1>1, <1>2
<1> HIDE DEF c
<1>5. QueueInv'
  <2>1. Turn' \notin readfds'
    BY <1>1, <1>2, <1>4 DEF Turn, IndInv, TypeOK
  <2> QED
    BY <1>1, <1>2, <1>3, <2>1 DEF IndInv, QueueInv
<1>6. TypeOK'
  <2>1. IsInjective(backlog' \o clientSockets')
    BY <1>2, <1>3, <1>5, TwoQueues DEF QueueInv
  <2> QED
    BY <1>1, <1>2, <1>3, <1>4, <2>1 DEF IndInv, TypeOK, InList
<1>7. FreshInv'
  BY <1>1 DEF IndInv, FreshInv, Readable, Left
<1>8. StaleOnlyToLeavers' /\ BlocksOnlyAfterEmpty'
  BY <1>1 DEF StaleOnlyToLeavers, BlocksOnlyAfterEmpty, Reading
<1> QED
  BY <1>5, <1>6, <1>7, <1>8 DEF IndInv

(* A step that changes the kernel's side of one connection only leaves the *)
(* queues as they are, and the other connections as readable.              *)
LEMMA OneConnection ==
    ASSUME IndInv, NEW c \in Clients,
           UNCHANGED <<sending, backlog, clientSockets, readfds>>,
           \A d \in Clients \ {c} :
               link'[d] = link[d] /\ stream'[d] = stream[d],
           stream' \in [Clients -> Seq(Pieces)],
           \A d \in Clients : Len(stream'[d]) <= StreamCap,
           link' \in [Clients -> {"new", "up", "fin", "reset", "gone"}],
           link[c] # "new" => link'[c] # "new",
           echoes' \in [Clients -> 0..EchoCap],
           message' \in Buffers,
           pc' \in {"select", "read", "send", "killed"},
           at' \in 1..(Len(clientSockets) + 1),
           pc' \in {"send", "killed"} => at' <= Len(clientSockets),
           pc' = "send" => Turn' \in readfds
    PROVE  /\ TypeOK' /\ QueueInv'
           /\ \A d \in Clients \ {c} : Readable(d)' = Readable(d)
<1>1. TypeOK'
  BY DEF IndInv, TypeOK, InList
<1>2. QueueInv'
  <2>1. ToSet(backlog) \subseteq Clients /\ ToSet(clientSockets) \subseteq Clients
    BY QueueMembers DEF IndInv
  <2> QED
    BY <2>1 DEF IndInv, QueueInv
<1>3. \A d \in Clients \ {c} : Readable(d)' = Readable(d)
  BY DEF Readable, Left
<1> QED
  BY <1>1, <1>2, <1>3

LEMMA ReadNameStep ==
    ASSUME IndInv, ReadName
    PROVE  IndInv'
<1>1. /\ pc = "name" /\ pc' = "read" /\ at' = 1
      /\ UNCHANGED <<sending, echoes, backlog, clientSockets, readfds, message>>
      /\ InList /\ TypeOK /\ Turn \notin readfds
  BY DEF ReadName, IndInv, TypeOK, QueueInv
<1>2. /\ Turn \in Clients /\ Len(clientSockets) \in Nat
      /\ at \in 1..Len(clientSockets)
      /\ \A k \in 1..Len(clientSockets) : clientSockets[k] \in Clients
  BY <1>1, TurnTyped
<1> DEFINE c == Turn
<1>3. /\ \A d \in Clients \ {c} : link'[d] = link[d] /\ stream'[d] = stream[d]
      /\ stream' \in [Clients -> Seq(Pieces)]
      /\ \A d \in Clients : Len(stream'[d]) <= StreamCap
      /\ link' \in [Clients -> {"new", "up", "fin", "reset", "gone"}]
      /\ link[c] # "new" => link'[c] # "new"
  <2>1. CASE /\ stream[c] # <<>>
             /\ stream' = [stream EXCEPT ![c] = Tail(@)]
             /\ UNCHANGED link
    <3>1. /\ stream[c] \in Seq(Pieces) /\ Len(stream[c]) <= StreamCap
          /\ Len(stream[c]) \in Nat
      BY <1>1, <1>2 DEF TypeOK
    <3>2. Tail(stream[c]) \in Seq(Pieces) /\ Len(Tail(stream[c])) <= StreamCap
      BY <2>1, <3>1, CapsAssumption
    <3> QED
      BY <2>1, <3>2, <1>1, <1>2 DEF TypeOK
  <2>2. CASE UNCHANGED <<stream, link>>
    BY <2>2, <1>1, <1>2 DEF TypeOK
  <2>3. CASE Failure(c) /\ UNCHANGED stream
    BY <2>3, <1>1, <1>2 DEF TypeOK, Failure
  <2> QED
    BY <2>1, <2>2, <2>3 DEF ReadName
<1>4. /\ echoes' \in [Clients -> 0..EchoCap]
      /\ message' \in Buffers
      /\ at' \in 1..(Len(clientSockets) + 1)
  BY <1>1, <1>2 DEF TypeOK
<1> HIDE DEF c
<1>5. /\ TypeOK' /\ QueueInv'
      /\ \A d \in Clients \ {c} : Readable(d)' = Readable(d)
  BY <1>1, <1>2, <1>3, <1>4, OneConnection DEF c
<1>6. \A d \in readfds' : d \in Clients /\ Readable(d)'
  <2>1. readfds \subseteq Clients
    BY <1>1 DEF TypeOK, ToSet
  <2> QED
    BY <1>1, <1>5, <2>1 DEF IndInv, FreshInv, c
<1>7. FreshInv' /\ StaleOnlyToLeavers' /\ BlocksOnlyAfterEmpty'
  BY <1>1, <1>6 DEF FreshInv, StaleOnlyToLeavers, BlocksOnlyAfterEmpty, Reading
<1> QED
  BY <1>5, <1>7 DEF IndInv

(* Going on to the next place of the list, after a step about the client   *)
(* whose turn it was: whoever is next is as readable as select() said.     *)
LEMMA NextPlace ==
    ASSUME IndInv, InList, pc \in {"read", "send"}, TypeOK', QueueInv',
           UNCHANGED <<clientSockets, readfds>>,
           \A d \in Clients \ {Turn} : Readable(d)' = Readable(d),
           pc' = "read", at' = at + 1
    PROVE  IndInv'
<1>1. /\ Turn \in Clients /\ at \in 1..Len(clientSockets)
      /\ Len(clientSockets) \in Nat
      /\ \A k \in 1..Len(clientSockets) : clientSockets[k] \in Clients
      /\ \A k \in 1..Len(clientSockets) : clientSockets[k] = Turn => k = at
  BY TurnTyped DEF IndInv, QueueInv
<1>2. \A k \in 1..Len(clientSockets) :
          k > at /\ clientSockets[k] \in readfds => Readable(clientSockets[k])'
  <2> SUFFICES ASSUME NEW k \in 1..Len(clientSockets),
                      k > at, clientSockets[k] \in readfds
               PROVE  Readable(clientSockets[k])'
    OBVIOUS
  <2>1. Readable(clientSockets[k])
    BY DEF IndInv, FreshInv
  <2>2. clientSockets[k] \in Clients \ {Turn}
    BY <1>1
  <2> QED
    BY <2>1, <2>2 DEF Readable, Left
<1>3. FreshInv'
  BY <1>1, <1>2 DEF FreshInv
<1>4. BlocksOnlyAfterEmpty'
  BY <1>1, <1>2 DEF BlocksOnlyAfterEmpty, Reading, InList, Turn
<1>5. StaleOnlyToLeavers'
  BY DEF StaleOnlyToLeavers
<1> QED
  BY <1>3, <1>4, <1>5 DEF IndInv

(* Staying at the client whose turn it is.                                 *)
LEMMA SamePlace ==
    ASSUME IndInv, InList, pc = "read", TypeOK', QueueInv',
           UNCHANGED <<clientSockets, readfds, at>>,
           \A d \in Clients \ {Turn} : Readable(d)' = Readable(d),
           pc' \in {"read", "send"},
           pc' = "send" => message'[1].from = Turn \/ Left(Turn)',
           pc' = "read" => \/ message'[1] = [from |-> Turn, piece |-> "nul"]
                           \/ Left(Turn)'
    PROVE  IndInv'
<1>1. /\ Turn \in Clients /\ at \in 1..Len(clientSockets)
      /\ Len(clientSockets) \in Nat
      /\ \A k \in 1..Len(clientSockets) : clientSockets[k] \in Clients
      /\ \A k \in 1..Len(clientSockets) : clientSockets[k] = Turn => k = at
  BY TurnTyped DEF IndInv, QueueInv
<1>2. \A k \in 1..Len(clientSockets) :
          k > at /\ clientSockets[k] \in readfds => Readable(clientSockets[k])'
  <2> SUFFICES ASSUME NEW k \in 1..Len(clientSockets),
                      k > at, clientSockets[k] \in readfds
               PROVE  Readable(clientSockets[k])'
    OBVIOUS
  <2>1. Readable(clientSockets[k])
    BY DEF IndInv, FreshInv
  <2>2. clientSockets[k] \in Clients \ {Turn}
    BY <1>1
  <2> QED
    BY <2>1, <2>2 DEF Readable, Left
<1>3. FreshInv'
  BY <1>1, <1>2 DEF FreshInv
<1>4. BlocksOnlyAfterEmpty'
  BY <1>1 DEF BlocksOnlyAfterEmpty, Reading, InList, Turn, Readable, Left
<1>5. StaleOnlyToLeavers'
  BY <1>1 DEF StaleOnlyToLeavers, Turn, Left
<1> QED
  BY <1>3, <1>4, <1>5 DEF IndInv

LEMMA PassStep ==
    ASSUME IndInv, Pass \/ EndRound
    PROVE  IndInv'
<1>1. /\ UNCHANGED <<sending, link, stream, echoes, backlog>>
      /\ UNCHANGED <<clientSockets, readfds, message>>
      /\ pc = "read"
  BY DEF Pass, EndRound, clientVars
<1>2. CASE Pass
  <2>1. /\ InList /\ pc' = "read" /\ at' = at + 1
        /\ at \in 1..Len(clientSockets) /\ Len(clientSockets) \in Nat
    BY <1>1, <1>2, TurnTyped DEF Pass, IndInv
  <2>2. at + 1 \in 1..(Len(clientSockets) + 1)
    BY <2>1
  <2>3. TypeOK' /\ QueueInv'
    BY <1>1, <2>1, <2>2 DEF IndInv, TypeOK, QueueInv, InList
  <2>4. \A d \in Clients \ {Turn} : Readable(d)' = Readable(d)
    BY <1>1 DEF Readable, Left
  <2> QED
    BY <1>1, <2>1, <2>3, <2>4, NextPlace
<1>3. CASE EndRound
  <2>1. pc' = "select" /\ at' = at
    BY <1>3 DEF EndRound
  <2> QED
    BY <1>1, <2>1
       DEF IndInv, TypeOK, QueueInv, FreshInv, InList, StaleOnlyToLeavers,
           BlocksOnlyAfterEmpty, Reading
<1> QED
  BY <1>2, <1>3

(* The facts that every step about the client c, whose turn it is, shares. *)
LEMMA AtTurn ==
    ASSUME IndInv, NEW c \in Clients, InList, Turn = c
    PROVE  /\ Len(clientSockets) \in Nat /\ at \in 1..Len(clientSockets)
           /\ at \in 1..(Len(clientSockets) + 1)
           /\ at + 1 \in 1..(Len(clientSockets) + 1)
           /\ at <= Len(clientSockets)
<1>1. Len(clientSockets) \in Nat /\ at \in 1..Len(clientSockets)
  BY TurnTyped DEF IndInv
<1> QED
  BY <1>1

LEMMA ReadLineStep ==
    ASSUME IndInv, NEW c \in Clients, ReadLine(c)
    PROVE  IndInv'
<1>1. /\ pc = "read" /\ InList /\ Turn = c
      /\ UNCHANGED <<sending, link, echoes, backlog, clientSockets, readfds, at>>
      /\ pc' \in {"read", "send"}
      /\ pc' = "read" => message'[1].piece = "nul"
  BY DEF ReadLine, Reading, AfterRead
<1>2. PICK k \in 1..Size :
          /\ k <= Len(stream[c])
          /\ stream' = [stream EXCEPT ![c] = SubSeq(@, k + 1, Len(@))]
          /\ message' = Overwritten(c, k)
  BY DEF ReadLine
<1>3. /\ stream[c] \in Seq(Pieces) /\ Len(stream[c]) <= StreamCap
      /\ Len(stream[c]) \in Nat
      /\ k \in 1..Len(stream[c])
      /\ \A i \in 1..Len(stream[c]) : stream[c][i] \in Pieces
  BY <1>1, <1>2, CapsAssumption DEF IndInv, TypeOK
<1>9. /\ message' \in Buffers
      /\ message'[1] = [from |-> c, piece |-> stream[c][1]]
  <2>1. \A i \in 1..Size : i <= k => stream[c][i] \in Pieces
    BY <1>3, CapsAssumption
  <2>2. 1 \in 1..Size /\ 1 <= k
    BY CapsAssumption
  <2>3. message \in Buffers
    BY DEF IndInv, TypeOK
  <2> QED
    BY <1>2, <2>1, <2>2, <2>3 DEF Overwritten, Buffers
<1> DEFINE rest == SubSeq(stream[c], k + 1, Len(stream[c]))
<1>4. rest \in Seq(Pieces) /\ Len(rest) <= StreamCap
  <2>1. \A i \in (k + 1)..Len(stream[c]) : stream[c][i] \in Pieces
    BY <1>3
  <2>2. /\ k + 1 \in Nat /\ k + 1 <= Len(stream[c]) + 1
        /\ rest \in Seq(Pieces) /\ Len(rest) = Len(stream[c]) - k
    BY <1>3, <2>1
  <2> HIDE DEF rest
  <2> QED
    BY <1>3, <2>2, CapsAssumption
<1> HIDE DEF rest
<1>5. /\ stream' \in [Clients -> Seq(Pieces)]
      /\ \A d \in Clients : Len(stream'[d]) <= StreamCap
      /\ \A d \in Clients \ {c} : link'[d] = link[d] /\ stream'[d] = stream[d]
  BY <1>1, <1>2, <1>4 DEF IndInv, TypeOK, rest
<1>6. /\ link' \in [Clients -> {"new", "up", "fin", "reset", "gone"}]
      /\ echoes' \in [Clients -> 0..EchoCap]
      /\ at' \in 1..(Len(clientSockets) + 1) /\ at' <= Len(clientSockets)
  BY <1>1, <1>3, AtTurn DEF IndInv, TypeOK
<1>7. /\ TypeOK' /\ QueueInv'
      /\ \A d \in Clients \ {Turn} : Readable(d)' = Readable(d)
  <2>1. Turn' \in readfds
    <3>1. c \in readfds
      BY DEF ReadLine, Reading
    <3>2. Turn' = Turn
      BY <1>1 DEF Turn
    <3> QED
      BY <1>1, <3>1, <3>2
  <2> QED
    BY <1>1, <1>5, <1>6, <1>9, <2>1, OneConnection
<1>8. /\ pc' = "send" => message'[1].from = Turn
      /\ pc' = "read" => message'[1] = [from |-> Turn, piece |-> "nul"]
  BY <1>1, <1>9
<1> QED
  BY <1>1, <1>7, <1>8, SamePlace

LEMMA ReadNothingStep ==
    ASSUME IndInv, NEW c \in Clients, ReadNothing(c)
    PROVE  IndInv'
<1>1. /\ pc = "read" /\ InList /\ Turn = c
      /\ UNCHANGED <<sending, link, stream, echoes, backlog>>
      /\ UNCHANGED <<clientSockets, readfds, message, at>>
      /\ pc' \in {"read", "send"}
      /\ Left(Turn)'
  BY DEF ReadNothing, Reading, EndOfStream, AfterRead, clientVars, Left, Turn
<1>2. TypeOK' /\ QueueInv'
  <2>1. c \in readfds
    BY DEF ReadNothing, Reading
  <2>2. Turn' = Turn
    BY <1>1 DEF Turn
  <2> QED
    BY <1>1, <2>1, <2>2 DEF IndInv, TypeOK, QueueInv, InList
<1>3. \A d \in Clients \ {Turn} : Readable(d)' = Readable(d)
  BY <1>1 DEF Readable, Left
<1> QED
  BY <1>1, <1>2, <1>3, SamePlace

(* The steps after which the iterator moves on.                            *)
LEMMA MovingStep ==
    ASSUME IndInv, NEW c \in Clients, ReadFails(c) \/ Echo(c) \/ EchoUnread(c)
    PROVE  IndInv'
<1>1. /\ pc \in {"read", "send"} /\ InList /\ Turn = c
      /\ pc' = "read" /\ at' = at + 1
      /\ UNCHANGED <<sending, stream, backlog, clientSockets, readfds, message>>
  BY DEF ReadFails, Echo, EchoUnread, Reading, Failure, IndInv, TypeOK
<1>2. /\ \A d \in Clients \ {c} : link'[d] = link[d]
      /\ link' \in [Clients -> {"new", "up", "fin", "reset", "gone"}]
      /\ link[c] # "new" => link'[c] # "new"
  BY DEF ReadFails, Echo, EchoUnread, Failure, IndInv, TypeOK
<1>3. echoes' \in [Clients -> 0..EchoCap]
  <2>1. CASE Echo(c)
    <3>1. /\ echoes[c] \in 0..EchoCap /\ echoes[c] < EchoCap
          /\ echoes' = [echoes EXCEPT ![c] = echoes[c] + 1]
          /\ echoes \in [Clients -> 0..EchoCap]
      BY <2>1 DEF Echo, IndInv, TypeOK
    <3>2. echoes[c] + 1 \in 0..EchoCap
      BY <3>1, CapsAssumption
    <3> QED
      BY <3>1, <3>2
  <2>2. CASE ReadFails(c) \/ EchoUnread(c)
    BY <2>2 DEF ReadFails, EchoUnread, IndInv, TypeOK
  <2> QED
    BY <2>1, <2>2
<1>4. /\ stream' \in [Clients -> Seq(Pieces)]
      /\ \A d \in Clients : Len(stream'[d]) <= StreamCap
      /\ \A d \in Clients : stream'[d] = stream[d]
      /\ message' \in Buffers
      /\ at' \in 1..(Len(clientSockets) + 1)
  BY <1>1, AtTurn DEF IndInv, TypeOK
<1>5. /\ TypeOK' /\ QueueInv'
      /\ \A d \in Clients \ {Turn} : Readable(d)' = Readable(d)
  BY <1>1, <1>2, <1>3, <1>4, OneConnection
<1> QED
  BY <1>1, <1>5, NextPlace

LEMMA EchoKillsStep ==
    ASSUME IndInv, NEW c \in Clients, EchoKills(c)
    PROVE  IndInv'
<1>1. /\ pc = "send" /\ pc' = "killed"
      /\ UNCHANGED <<sending, link, stream, echoes, backlog>>
      /\ UNCHANGED <<clientSockets, readfds, message, at>>
  BY DEF EchoKills, clientVars
<1> QED
  BY <1>1 DEF IndInv, TypeOK, QueueInv, FreshInv, InList, StaleOnlyToLeavers,
              BlocksOnlyAfterEmpty, Reading

LEMMA Invariance == IndInv /\ [Next]_vars => IndInv'
<1> SUFFICES ASSUME IndInv, [Next]_vars PROVE IndInv'
  OBVIOUS
<1>1. CASE Next
  <2>1. CASE Select
    BY <2>1, SelectStep
  <2>2. CASE Accept
    BY <2>2, AcceptStep
  <2>3. CASE ReadName
    BY <2>3, ReadNameStep
  <2>4. CASE Pass \/ EndRound
    BY <2>4, PassStep
  <2>5. ASSUME NEW c \in Clients, ReadLine(c) PROVE IndInv'
    BY <2>5, ReadLineStep
  <2>6. ASSUME NEW c \in Clients, ReadNothing(c) PROVE IndInv'
    BY <2>6, ReadNothingStep
  <2>7. ASSUME NEW c \in Clients, ReadFails(c) \/ Echo(c) \/ EchoUnread(c)
        PROVE  IndInv'
    BY <2>7, MovingStep
  <2>8. ASSUME NEW c \in Clients, EchoKills(c) PROVE IndInv'
    BY <2>8, EchoKillsStep
  <2>9. ASSUME NEW c \in Clients, ClientStep(c) PROVE IndInv'
    BY <2>9, ClientSteps
  <2> QED
    BY <1>1, <2>1, <2>2, <2>3, <2>4, <2>5, <2>6, <2>7, <2>8, <2>9
       DEF Next, ServerStep
<1>2. CASE UNCHANGED vars
  BY <1>2 DEF vars, clientVars, serverVars, IndInv, TypeOK, QueueInv, FreshInv,
      InList, StaleOnlyToLeavers, BlocksOnlyAfterEmpty, Reading, Readable,
      Left, Turn
<1> QED
  BY <1>1, <1>2

(* The invariant holds in every state of the server and its clients.       *)
THEOREM Inductive == Spec => []IndInv
<1> QED
  BY InitInv, Invariance, PTL DEF Spec

(* Each connection is new, waiting or in the list, in one place only, and  *)
(* the iterator is never used past the end (server.cpp:110-153).           *)
THEOREM TypeCorrect == Spec => []TypeOK
<1>1. IndInv => TypeOK
  BY DEF IndInv
<1> QED
  BY <1>1, Inductive, PTL

(* What is sent to a client that is there starts with bytes of its own, for *)
(* a buffer of any size (server.cpp:135-148).                              *)
THEOREM StaleCorrect == Spec => []StaleOnlyToLeavers
<1>1. IndInv => StaleOnlyToLeavers
  BY DEF IndInv
<1> QED
  BY <1>1, Inductive, PTL

(* Only a step that reads from c changes what is left to read from it, and *)
(* what comes to the end of a string is sent back as it came.              *)
LEMMA EndedLine ==
    ASSUME IndInv, NEW c \in Clients, Reading(c), pc' = "send",
           ~EndOfStream(c), [Next]_vars
    PROVE  \/ \A i \in Brought(c) : stream[c][i] = "text"
           \/ \A i \in Shown' : message'[i] = [from |-> c, piece |-> stream[c][i]]
<1>1. pc = "read" /\ Turn = c
  BY DEF Reading
<1>2. ReadLine(c)
  <2>1. \A d \in Clients : ReadLine(d) \/ ReadNothing(d) => d = c
    BY <1>1 DEF ReadLine, ReadNothing, Reading
  <2>2. ~ReadNothing(c)
    BY DEF ReadNothing
  <2> QED
    BY <1>1, <2>1, <2>2
       DEF Next, ServerStep, ClientStep, Select, Accept, ReadName, Pass, EndRound,
           ReadFails, Echo, EchoUnread, EchoKills, Connect, SendName, SendLine,
           Killed, vars, serverVars
<1>3. PICK k \in 1..Size :
          /\ k <= Len(stream[c])
          /\ stream' = [stream EXCEPT ![c] = SubSeq(@, k + 1, Len(@))]
          /\ message' = Overwritten(c, k)
  BY <1>2 DEF ReadLine
<1>4. stream[c] \in Seq(Pieces) /\ Len(stream[c]) \in Nat /\ k \in 1..Len(stream[c])
  BY <1>3, CapsAssumption DEF IndInv, TypeOK
<1>5. Brought(c) = 1..k
  <2>1. stream'[c] = SubSeq(stream[c], k + 1, Len(stream[c]))
    BY <1>3 DEF IndInv, TypeOK
  <2>2. Len(stream'[c]) = Len(stream[c]) - k
    BY <1>4, <2>1
  <2> QED
    BY <1>4, <2>2 DEF Brought
<1>6. \A i \in 1..Size :
          i <= k => message'[i] = [from |-> c, piece |-> stream[c][i]]
  BY <1>3 DEF Overwritten
<1> SUFFICES ASSUME NEW j \in 1..k, stream[c][j] # "text", NEW i \in Shown'
             PROVE  message'[i] = [from |-> c, piece |-> stream[c][i]]
  BY <1>5
<1>7. j \in 1..Size /\ message'[j].piece # "text"
  <2>1. j \in 1..Size /\ j <= k
    BY <1>3, CapsAssumption
  <2>2. message'[j] = [from |-> c, piece |-> stream[c][j]]
    BY <2>1, <1>6
  <2> QED
    BY <2>1, <2>2
<1>8. i \in 1..Size /\ \A n \in 1..i : message'[n].piece = "text"
  BY DEF Shown
<1>9. i < j
  BY <1>7, <1>8, CapsAssumption
<1>10. i <= k
  BY <1>3, <1>8, <1>9, CapsAssumption
<1> QED
  BY <1>6, <1>8, <1>10

(* Bytes of another client follow its own only behind a read that brought  *)
(* no end of a string, for a buffer of any size (server.cpp:135, 148).     *)
THEOREM UnendedCorrect == Spec => StaleOnlyBehindUnended
<1> DEFINE A == \A c \in Clients : Reading(c) /\ pc' = "send" /\ ~EndOfStream(c) =>
          \/ \A i \in Brought(c) : stream[c][i] = "text"
          \/ \A i \in Shown' : message'[i] = [from |-> c, piece |-> stream[c][i]]
<1>1. IndInv /\ [Next]_vars => [A]_vars
  BY EndedLine
<1> HIDE DEF A
<1>2. Spec => [][A]_vars
  BY <1>1, Inductive, PTL DEF Spec
<1> QED
  BY <1>2 DEF StaleOnlyBehindUnended, A

(* The server waits in a read only for a client that sent an empty line    *)
(* (server.cpp:102, 133-142).                                              *)
THEOREM BlocksCorrect == Spec => []BlocksOnlyAfterEmpty
<1>1. IndInv => BlocksOnlyAfterEmpty
  BY DEF IndInv
<1> QED
  BY <1>1, Inductive, PTL

-----------------------------------------------------------------------------
(* What the rounds are made of.                                            *)
LEMMA RoundState ==
    ASSUME IndInv
    PROVE  /\ clientSockets \in Seq(Clients) /\ Len(clientSockets) \in Nat
           /\ DOMAIN clientSockets = 1..Len(clientSockets)
           /\ at \in 1..(Len(clientSockets) + 1)
           /\ \A j, k \in 1..Len(clientSockets) :
                  clientSockets[j] = clientSockets[k] => j = k
           /\ readfds \subseteq ToSet(clientSockets)
           /\ ToSet(clientSockets) = { clientSockets[k] : k \in 1..Len(clientSockets) }
           /\ pc \in {"select", "accept", "name", "read", "send", "killed"}
<1>1. /\ clientSockets \in Seq(Clients) /\ IsInjective(clientSockets)
      /\ at \in 1..(Len(clientSockets) + 1)
      /\ readfds \subseteq ToSet(clientSockets)
      /\ pc \in {"select", "accept", "name", "read", "send", "killed"}
  BY DEF IndInv, TypeOK, QueueInv
<1>2. Len(clientSockets) \in Nat /\ DOMAIN clientSockets = 1..Len(clientSockets)
  BY <1>1
<1> QED
  BY <1>1, <1>2 DEF IsInjective, ToSet

LEMMA RoundsInit == Init => Rounds!Init
<1> QED
  BY DEF Init, Rounds!Init, TurnsLeft

(* Nothing of the rounds changes in a step that moves neither the list nor *)
(* the iterator and sends nothing.                                         *)
LEMMA RoundStays ==
    ASSUME UNCHANGED <<clientSockets, readfds, at, echoes>>,
           pc \in {"read", "send", "killed"}, pc' \in {"read", "send", "killed"}
    PROVE  UNCHANGED Rounds!roundVars
<1> QED
  BY DEF Rounds!roundVars, TurnsLeft, Ahead

(* The iterator moves on: the client it leaves, if it had a turn, was the  *)
(* first of those who had one.                                             *)
LEMMA IteratorMoves ==
    ASSUME IndInv, InList, pc \in {"read", "send"}, pc' = "read", at' = at + 1,
           UNCHANGED <<clientSockets, readfds>>
    PROVE  /\ TurnsLeft' = TurnsLeft \ {Turn}
           /\ Turn \in readfds => Turn \in TurnsLeft
           /\ \A d \in TurnsLeft \ {Turn} : Rounds!JoinedBefore(Turn, d)
<1> DEFINE s == clientSockets
           n == Len(clientSockets)
<1>1. /\ n \in Nat /\ at \in 1..n
      /\ \A j, k \in 1..n : s[j] = s[k] => j = k
  BY RoundState DEF InList
<1>2. /\ TurnsLeft = readfds \cap { s[k] : k \in at..n }
      /\ TurnsLeft' = readfds \cap { s[k] : k \in (at + 1)..n }
      /\ Turn = s[at]
  BY DEF TurnsLeft, Ahead, Turn
<1> HIDE DEF s, n
<1>3. { s[k] : k \in (at + 1)..n } = { s[k] : k \in at..n } \ {s[at]}
  <2>1. ASSUME NEW k \in at..n, s[k] # s[at] PROVE k \in (at + 1)..n
    BY <1>1, <2>1
  <2>2. ASSUME NEW k \in (at + 1)..n PROVE k \in at..n /\ s[k] # s[at]
    BY <1>1, <2>2
  <2> QED
    BY <2>1, <2>2
<1>4. ASSUME NEW d \in TurnsLeft \ {Turn} PROVE Rounds!JoinedBefore(Turn, d)
  <2>1. PICK k \in at..n : d = s[k]
    BY <1>2
  <2>2. k # at /\ at < k /\ k \in 1..n
    BY <2>1, <1>1, <1>2, <1>4
  <2> QED
    BY <2>1, <2>2, <1>1, <1>2 DEF Rounds!JoinedBefore, s, n
<1>5. at \in at..n
  BY <1>1
<1> QED
  BY <1>2, <1>3, <1>4, <1>5

LEMMA RoundsStep == IndInv /\ [Next]_vars => [Rounds!Next]_(Rounds!roundVars)
<1> SUFFICES ASSUME IndInv, [Next]_vars
             PROVE  Rounds!Next \/ UNCHANGED Rounds!roundVars
  OBVIOUS
<1>1. CASE Select
  <2>1. /\ pc = "select" /\ pc' \in {"accept", "read"} /\ at' = 1
        /\ readfds' \in SUBSET ToSet(clientSockets)
        /\ UNCHANGED <<clientSockets, echoes>>
    BY <1>1 DEF Select, clientVars
  <2>2. Ahead' = ToSet(clientSockets)
    BY <2>1, RoundState DEF Ahead
  <2>3. TurnsLeft = {} /\ TurnsLeft' = readfds'
    <3>1. readfds' \cap Ahead' = readfds'
      BY <2>1, <2>2
    <3> QED
      BY <2>1, <3>1 DEF TurnsLeft
  <2> QED
    BY <2>1, <2>3 DEF Rounds!Next, Rounds!OpenRound, Rounds!ToSet, ToSet
<1>2. CASE Accept
  <2> DEFINE c == Head(backlog)
  <2>1. /\ pc = "accept" /\ pc' = "name"
        /\ clientSockets' = Append(clientSockets, c)
        /\ UNCHANGED <<echoes, readfds>>
    BY <1>2 DEF Accept
  <2>2. c \in Clients /\ c \notin ToSet(clientSockets)
    <3>1. backlog \in Seq(Clients) /\ backlog # <<>> /\ IsInjective(backlog)
          /\ ToSet(backlog) \cap ToSet(clientSockets) = {}
      BY <2>1 DEF IndInv, TypeOK, QueueInv
    <3>2. c \in Clients /\ c \in ToSet(backlog)
      BY <3>1, TailOfQueue
    <3> QED
      BY <3>1, <3>2
  <2>3. UNCHANGED TurnsLeft
    BY <2>1 DEF TurnsLeft
  <2> QED
    <3>1. Rounds!Join(c)
      BY <2>1, <2>2, <2>3 DEF Rounds!Join, Rounds!ToSet, ToSet
    <3> QED
      BY <2>2, <3>1 DEF Rounds!Next
<1>3. CASE ReadName
  <2>1. /\ pc = "name" /\ pc' = "read" /\ at' = 1
        /\ UNCHANGED <<clientSockets, readfds, echoes>>
    BY <1>3 DEF ReadName
  <2>2. Ahead' = ToSet(clientSockets)
    BY <2>1, RoundState DEF Ahead
  <2>3. UNCHANGED TurnsLeft
    BY <2>1, <2>2, RoundState DEF TurnsLeft
  <2> QED
    BY <2>1, <2>3 DEF Rounds!roundVars
<1>4. CASE Pass
  <2>1. /\ pc = "read" /\ pc' = "read" /\ InList /\ Turn \notin readfds
        /\ at' = at + 1 /\ UNCHANGED <<clientSockets, readfds, echoes>>
    BY <1>4 DEF Pass, clientVars
  <2>2. TurnsLeft' = TurnsLeft \ {Turn} /\ Turn \notin TurnsLeft
    BY <2>1, IteratorMoves DEF TurnsLeft
  <2> QED
    BY <2>1, <2>2 DEF Rounds!roundVars
<1>5. CASE EndRound
  <2>1. /\ pc = "read" /\ pc' = "select" /\ ~InList
        /\ UNCHANGED <<clientSockets, echoes>>
    BY <1>5 DEF EndRound, clientVars
  <2>2. Ahead = {}
    BY <2>1, RoundState DEF Ahead, InList
  <2>3. TurnsLeft = {} /\ TurnsLeft' = {}
    BY <2>1, <2>2 DEF TurnsLeft
  <2> QED
    BY <2>1, <2>3 DEF Rounds!roundVars
<1>6. ASSUME NEW c \in Clients,
             ReadLine(c) \/ ReadNothing(c) \/ EchoKills(c)
      PROVE  UNCHANGED Rounds!roundVars
  <2>1. /\ UNCHANGED <<clientSockets, readfds, at, echoes>>
        /\ pc \in {"read", "send"} /\ pc' \in {"read", "send", "killed"}
    BY <1>6 DEF ReadLine, ReadNothing, EchoKills, Reading, AfterRead, clientVars
  <2> QED
    BY <2>1, RoundStays
<1>7. ASSUME NEW c \in Clients, ReadFails(c) \/ Echo(c) \/ EchoUnread(c)
      PROVE  Rounds!TakeTurn(c)
  <2>1. /\ pc \in {"read", "send"} /\ pc' = "read" /\ InList /\ Turn = c
        /\ at' = at + 1 /\ UNCHANGED <<clientSockets, readfds>>
        /\ \/ echoes' = [echoes EXCEPT ![c] = @ + 1]
           \/ UNCHANGED echoes
    BY <1>7 DEF ReadFails, Echo, EchoUnread, Reading, IndInv, TypeOK
  <2>2. c \in readfds
    <3>1. CASE ReadFails(c)
      BY <3>1 DEF ReadFails, Reading
    <3>2. CASE Echo(c) \/ EchoUnread(c)
      BY <3>2 DEF Echo, EchoUnread, IndInv, QueueInv
    <3> QED
      BY <1>7, <3>1, <3>2
  <2>3. /\ TurnsLeft' = TurnsLeft \ {c} /\ c \in TurnsLeft
        /\ \A d \in TurnsLeft \ {c} : Rounds!JoinedBefore(c, d)
    BY <2>1, <2>2, IteratorMoves
  <2> QED
    BY <2>1, <2>3 DEF Rounds!TakeTurn
<1>8. ASSUME NEW c \in Clients, ClientStep(c)
      PROVE  UNCHANGED Rounds!roundVars
  <2>1. UNCHANGED <<clientSockets, readfds, pc, at, echoes>>
    BY <1>8 DEF ClientStep, Connect, SendName, SendLine, Killed, serverVars
  <2> QED
    BY <2>1 DEF Rounds!roundVars, TurnsLeft, Ahead
<1>9. CASE UNCHANGED vars
  BY <1>9 DEF vars, clientVars, serverVars, Rounds!roundVars, TurnsLeft, Ahead
<1> QED
  BY <1>1, <1>2, <1>3, <1>4, <1>5, <1>6, <1>7, <1>8, <1>9
     DEF Next, ServerStep, Rounds!Next

(* The server works in rounds, in each of which everybody has one turn at  *)
(* most, in the order of joining, for any number of clients                *)
(* (server.cpp:76-153).                                                    *)
THEOREM RoundsCorrect == Spec => RoundsSpec
<1> QED
  BY RoundsInit, RoundsStep, Inductive, PTL
     DEF Spec, RoundsSpec, Rounds!Spec
=============================================================================
