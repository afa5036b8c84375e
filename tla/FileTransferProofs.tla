------------------------- MODULE FileTransferProofs -------------------------
(***************************************************************************)
(* Safety of the file transfer for every size of the file, of the blocks   *)
(* and of the sockets' buffers, and any number of interrupts.              *)
(***************************************************************************)
EXTENDS FileTransfer, TLAPS

(* The bytes received that write() has been asked to write.                *)
Handed == IF client = "write" THEN received - block ELSE received

(* The copy is ascending and ends before the block in hand; if no byte is  *)
(* missing from it, it is the beginning of the file.                       *)
CopyInv ==
    /\ \A i, j \in 1..Len(copy) : i < j => copy[i] < copy[j]
    /\ \A i \in 1..Len(copy) : copy[i] <= Handed
    /\ Len(copy) <= Handed
    /\ Len(copy) = Handed => copy = Bytes(0, Handed)
    /\ client \in {"create", "connect", "open"} => received = 0

(* The end of the stream is seen only after the last byte, and only the    *)
(* whole file brings the server out of its loop.                           *)
EndInv ==
    /\ client = "done" \/ (client = "write" /\ block = 0) =>
           InFlight = 0 /\ link = "closed"
    /\ server \in {"close", "finish", "ended"} => offset = Size

IndInv ==
    /\ TypeOK
    /\ CopyInv
    /\ EndInv

LEMMA BytesFacts ==
    ASSUME NEW from \in Nat, NEW n \in Nat
    PROVE  /\ Bytes(from, n) \in Seq(Nat)
           /\ Len(Bytes(from, n)) = n
           /\ \A i \in 1..n : Bytes(from, n)[i] = from + i
  BY DEF Bytes

(* A sequence that holds byte i at place i is the beginning of the file.   *)
LEMMA PrefixOfFile ==
    ASSUME NEW n \in Nat, NEW k \in Nat, NEW d \in Seq(Nat),
           Len(d) = n + k,
           \A i \in 1..n : d[i] = i,
           \A i \in (n + 1)..(n + k) : d[i] = i
    PROVE  d = Bytes(0, n + k)
<1>1. \A i \in 1..(n + k) : d[i] = i
  <2> SUFFICES ASSUME NEW i \in 1..(n + k) PROVE d[i] = i
    OBVIOUS
  <2>1. i \in 1..n \/ i \in (n + 1)..(n + k)
    OBVIOUS
  <2> QED
    BY <2>1
<1>2. d = [i \in 1..(n + k) |-> d[i]]
  OBVIOUS
<1>3. Bytes(0, n + k) = [i \in 1..(n + k) |-> i]
  BY DEF Bytes
<1> QED
  BY <1>1, <1>2, <1>3

(* d is the ascending c followed by k bytes from one after another.        *)
Continues(d, c, from, k) ==
    /\ Len(d) = Len(c) + k
    /\ \A i, j \in 1..Len(d) : i < j => d[i] < d[j]
    /\ \A i \in 1..Len(d) : d[i] \in Nat /\ d[i] <= from + k
    /\ c = Bytes(0, from) => d = Bytes(0, from + k)

(* Writing the next bytes keeps an ascending sequence of bytes ascending,  *)
(* and a complete one complete.                                            *)
LEMMA ConcatBytes ==
    ASSUME NEW from \in Nat, NEW k \in Nat,
           NEW c \in Seq(Nat),
           Len(c) <= from,
           \A i, j \in 1..Len(c) : i < j => c[i] < c[j],
           \A i \in 1..Len(c) : c[i] <= from,
           NEW d, d = c \o Bytes(from, k)
    PROVE  Continues(d, c, from, k)
<1> DEFINE b == Bytes(from, k)
<1>1. /\ b \in Seq(Nat) /\ Len(b) = k
      /\ \A i \in 1..k : b[i] = from + i
  BY BytesFacts
<1>2. /\ d \in Seq(Nat)
      /\ Len(d) = Len(c) + k
      /\ \A i \in 1..Len(c) : d[i] = c[i]
      /\ \A i \in (Len(c) + 1)..(Len(c) + k) : d[i] = b[i - Len(c)]
  <2> HIDE DEF b
  <2> QED
    BY <1>1 DEF b
<1>3. Len(c) \in Nat /\ \A i \in 1..Len(c) : c[i] \in Nat
  OBVIOUS
<1>4. \A i \in (Len(c) + 1)..(Len(c) + k) : d[i] = from + (i - Len(c))
  <2> SUFFICES ASSUME NEW i \in (Len(c) + 1)..(Len(c) + k)
               PROVE  d[i] = from + (i - Len(c))
    OBVIOUS
  <2>1. i - Len(c) \in 1..k
    BY <1>3
  <2> QED
    BY <1>1, <1>2, <2>1
<1>5. \A i \in 1..Len(d) : d[i] \in Nat /\ d[i] <= from + k
  <2> SUFFICES ASSUME NEW i \in 1..Len(d)
               PROVE  d[i] \in Nat /\ d[i] <= from + k
    OBVIOUS
  <2>1. CASE i <= Len(c)
    BY <2>1, <1>2, <1>3
  <2>2. CASE i > Len(c)
    BY <2>2, <1>2, <1>3, <1>4
  <2> QED
    BY <2>1, <2>2, <1>3
<1>6. \A i, j \in 1..Len(d) : i < j => d[i] < d[j]
  <2> SUFFICES ASSUME NEW i \in 1..Len(d), NEW j \in 1..Len(d), i < j
               PROVE  d[i] < d[j]
    OBVIOUS
  <2>1. CASE j <= Len(c)
    BY <2>1, <1>2, <1>3
  <2>2. CASE i <= Len(c) /\ j > Len(c)
    BY <2>2, <1>2, <1>3, <1>4
  <2>3. CASE i > Len(c)
    BY <2>3, <1>2, <1>3, <1>4
  <2> QED
    BY <2>1, <2>2, <2>3, <1>3
<1>7. ASSUME c = Bytes(0, from) PROVE d = Bytes(0, from + k)
  <2>1. Len(c) = from /\ \A i \in 1..from : c[i] = 0 + i
    BY <1>7, BytesFacts, 0 \in Nat
  <2>2. Len(d) = from + k
    BY <1>2, <2>1
  <2>3. \A i \in 1..from : d[i] = i
    BY <1>2, <2>1
  <2>4. \A i \in (from + 1)..(from + k) : d[i] = i
    <3> SUFFICES ASSUME NEW i \in (from + 1)..(from + k) PROVE d[i] = i
      OBVIOUS
    <3>1. i \in (Len(c) + 1)..(Len(c) + k)
      BY <2>1
    <3>2. d[i] = from + (i - Len(c))
      BY <1>4, <3>1
    <3>3. from + (i - Len(c)) = i
      BY <2>1
    <3> QED
      BY <3>2, <3>3
  <2> QED
    BY <1>2, <2>2, <2>3, <2>4, PrefixOfFile
<1> QED
  BY <1>2, <1>5, <1>6, <1>7 DEF Continues

-----------------------------------------------------------------------------
LEMMA InitInv == Init => IndInv
<1> SUFFICES ASSUME Init PROVE IndInv
  OBVIOUS
<1> USE SizesAssumption DEF Init
<1>1. copy \in Seq(1..Size) /\ copy = <<>> /\ Len(copy) = 0
  OBVIOUS
<1>2. TypeOK
  BY <1>1 DEF TypeOK, InFlight
<1>3. Bytes(0, 0) = <<>>
  BY DEF Bytes
<1>4. CopyInv
  BY <1>1, <1>3 DEF CopyInv, Handed
<1> QED
  BY <1>2, <1>4 DEF IndInv, EndInv

(* The server and the signal move nothing of the client's, and bytes only  *)
(* while the connection is open.                                           *)
LEMMA ServerKeeps == IndInv /\ (ServerStep \/ AcceptFails \/ Interrupt) => IndInv'
<1> SUFFICES ASSUME IndInv, ServerStep \/ AcceptFails \/ Interrupt PROVE IndInv'
  OBVIOUS
<1> USE SizesAssumption
<1>1. UNCHANGED clientVars
  BY DEF ServerStep, Interrupt, OpenFile, Listen, Accept, AcceptFails,
     Sendfile, SendfileFails, CloseFile, Finish
<1>2. CopyInv'
  BY <1>1 DEF IndInv, CopyInv, clientVars, Handed
<1> USE DEF IndInv, TypeOK, EndInv, InFlight, clientVars
<1>3. TypeOK' /\ EndInv'
  <2>1. CASE OpenFile
    BY <2>1, <1>1 DEF OpenFile, Hangup
  <2>2. CASE Listen
    BY <2>2, <1>1 DEF Listen, Hangup
  <2>3. CASE Accept
    BY <2>3, <1>1 DEF Accept
  <2>4. CASE AcceptFails
    BY <2>4, <1>1 DEF AcceptFails, Hangup
  <2>5. CASE Sendfile
    BY <2>5, <1>1 DEF Sendfile
  <2>6. CASE SendfileFails
    BY <2>6, <1>1 DEF SendfileFails, Hangup
  <2>7. CASE CloseFile
    BY <2>7, <1>1 DEF CloseFile
  <2>8. CASE Finish
    BY <2>8, <1>1 DEF Finish, Handle, Hangup
  <2>9. CASE Interrupt
    BY <2>9, <1>1 DEF Interrupt, Handle, Hangup, ServerUp
  <2> QED
    BY <2>1, <2>2, <2>3, <2>4, <2>5, <2>6, <2>7, <2>8, <2>9 DEF ServerStep
<1> QED
  BY <1>2, <1>3

(* What the client writes continues the copy. *)
LEMMA WriteKeeps == IndInv /\ Write => IndInv'
<1> SUFFICES ASSUME IndInv, Write PROVE IndInv'
  OBVIOUS
<1> USE SizesAssumption
<1> DEFINE from == received - block
<1>1. /\ client = "write"
      /\ UNCHANGED <<serverVars, link, received, block>>
  BY DEF Write
<1>2. /\ from \in Nat /\ block \in Nat /\ received \in Nat
      /\ received <= Size /\ Handed = from /\ from + block = received
  BY <1>1 DEF IndInv, TypeOK, Handed
<1>3. CASE client' = "failed" /\ UNCHANGED copy
  <2>1. CopyInv'
    BY <1>1, <1>2, <1>3 DEF IndInv, TypeOK, CopyInv, Handed
  <2> QED
    BY <1>1, <1>3, <2>1
    DEF IndInv, TypeOK, EndInv, InFlight, serverVars
<1>4. ASSUME NEW k \in 0..block,
             copy' = copy \o Bytes(from, k),
             client' = IF block = 0 THEN "done" ELSE "recv"
      PROVE  IndInv'
  <2>1. /\ copy \in Seq(Nat) /\ Len(copy) <= from /\ k \in Nat
        /\ \A i, j \in 1..Len(copy) : i < j => copy[i] < copy[j]
        /\ \A i \in 1..Len(copy) : copy[i] <= from
        /\ Len(copy) = from => copy = Bytes(0, from)
    <3>1. copy \in Seq(1..Size)
      BY DEF IndInv, TypeOK
    <3>2. copy \in Seq(Nat)
      BY <3>1
    <3> QED
      BY <3>2, <1>2, <1>4 DEF IndInv, CopyInv
  <2> HIDE DEF from
  <2>2. /\ Len(copy') = Len(copy) + k
        /\ \A i, j \in 1..Len(copy') : i < j => copy'[i] < copy'[j]
        /\ \A i \in 1..Len(copy') : copy'[i] \in Nat /\ copy'[i] <= from + k
        /\ copy = Bytes(0, from) => copy' = Bytes(0, from + k)
    <3>1. copy' = copy \o Bytes(from, k)
      BY <1>4 DEF from
    <3>2. Continues(copy', copy, from, k)
      BY <1>2, <2>1, <3>1, ConcatBytes
    <3> QED
      BY <3>2 DEF Continues
  <2>3. copy' \in Seq(1..Size)
    <3>1. Bytes(from, k) \in Seq(1..Size)
      <4>1. \A i \in 1..k : from + i \in 1..Size
        BY <1>2, <1>4
      <4> QED
        BY <4>1, <2>1 DEF Bytes
    <3>2. copy \in Seq(1..Size)
      BY DEF IndInv, TypeOK
    <3> QED
      BY <3>1, <3>2, <1>4
  <2>4. Len(copy) \in Nat /\ from + k <= received
    BY <2>1, <1>2, <1>4
  <2>5. Handed' = received
    BY <1>1, <1>4 DEF Handed
  <2>6. CopyInv'
    <3>1. Len(copy') <= received
      BY <2>1, <2>2, <2>4, <1>2
    <3>2. \A i \in 1..Len(copy') : copy'[i] <= received
      BY <2>2, <2>4, <1>2, <2>1
    <3>3. ASSUME Len(copy') = received PROVE copy' = Bytes(0, received)
      <4>1. Len(copy) = from /\ from + k = received
        <5>1. Len(copy) + k = from + block
          BY <3>3, <2>2, <1>2
        <5>2. k <= block /\ Len(copy) <= from
          BY <1>4, <1>2, <2>1
        <5> QED
          BY <5>1, <5>2, <2>1, <2>4, <1>2
      <4> QED
        BY <4>1, <2>1, <2>2
    <3> QED
      BY <2>2, <2>5, <3>1, <3>2, <3>3, <1>4 DEF CopyInv
  <2> QED
    BY <1>1, <1>4, <2>3, <2>6
    DEF IndInv, TypeOK, EndInv, InFlight, serverVars
<1> QED
  BY <1>3, <1>4 DEF Write

LEMMA ClientKeeps == IndInv /\ ClientStep => IndInv'
<1> SUFFICES ASSUME IndInv, ClientStep PROVE IndInv'
  OBVIOUS
<1> USE SizesAssumption DEF serverVars
<1>1. CASE Create
  <2>1. copy' = <<>> /\ copy' \in Seq(1..Size) /\ Len(copy') = 0
    BY <1>1 DEF Create
  <2>2. Bytes(0, 0) = <<>>
    BY DEF Bytes
  <2>3. CopyInv'
    BY <1>1, <2>1, <2>2 DEF Create, IndInv, CopyInv, Handed
  <2> QED
    BY <1>1, <2>1, <2>3 DEF Create, IndInv, TypeOK, EndInv, InFlight
<1>2. CASE Connect
  BY <1>2 DEF Connect, IndInv, TypeOK, CopyInv, Handed, EndInv, InFlight
<1>3. CASE OpenCopy
  BY <1>3 DEF OpenCopy, IndInv, TypeOK, CopyInv, Handed, EndInv, InFlight
<1>4. CASE Receive
  BY <1>4 DEF Receive, IndInv, TypeOK, CopyInv, Handed, EndInv, InFlight
<1>5. CASE Write
  BY <1>5, WriteKeeps
<1> QED
  BY <1>1, <1>2, <1>3, <1>4, <1>5 DEF ClientStep

LEMMA Invariance == Spec => []IndInv
<1>1. IndInv /\ UNCHANGED vars => IndInv'
  BY DEF vars, serverVars, clientVars, IndInv, TypeOK, CopyInv, Handed,
     EndInv, InFlight
<1>2. IndInv /\ [Next]_vars => IndInv'
  BY <1>1, ServerKeeps, ClientKeeps DEF Next, AtRest
<1> QED
  BY InitInv, <1>2, PTL DEF Spec

(* Every variable has values of its kind, for any file and block size:     *)
(* what was received was sent, what was sent is of the file.               *)
THEOREM TypeCorrect == Spec => []TypeOK
<1>1. IndInv => TypeOK
  BY DEF IndInv
<1> QED
  BY Invariance, <1>1, PTL

-----------------------------------------------------------------------------
(* Whatever fails, the bytes written were received, each at most once and  *)
(* in order, for any sizes (client.cpp:68-84).                             *)
THEOREM CopyCorrect == Spec => []CopyInOrder
<1>1. IndInv => CopyInOrder
  BY SizesAssumption DEF IndInv, TypeOK, CopyInv, CopyInOrder, Handed
<1> QED
  BY Invariance, <1>1, PTL

(* The client never stops before the end of the stream (client.cpp:84).    *)
THEOREM EndCorrect == Spec => []NoEarlyEnd
<1>1. IndInv => NoEarlyEnd
  BY DEF IndInv, EndInv, NoEarlyEnd
<1> QED
  BY Invariance, <1>1, PTL

(* An undisturbed transfer copies the file, for any sizes                  *)
(* (server.cpp:73-90, client.cpp:66-90).                                   *)
THEOREM CompleteCorrect == Spec => []CompleteWhenClean
<1>1. IndInv => CompleteWhenClean
  <2> SUFFICES ASSUME IndInv, client = "done", server = "ended",
                      Len(copy) = received
               PROVE  copy = Bytes(0, Size)
    BY DEF CompleteWhenClean
  <2>1. received = Size
    BY SizesAssumption DEF IndInv, TypeOK, EndInv, InFlight
  <2> QED
    BY <2>1 DEF IndInv, CopyInv, Handed
<1> QED
  BY Invariance, <1>1, PTL
=============================================================================
