--------------------------- MODULE PortScanProofs ---------------------------
(***************************************************************************)
(* Safety of the port scan for every last port, limit and bound of time.   *)
(***************************************************************************)
EXTENDS PortScan, TLAPS

(* The ports whose answer is recorded: those before the loop variable, and *)
(* between connect() and close() that one too.                             *)
Tried == IF search = "close" THEN 0..port ELSE 0..(port - 1)

(* What the search has recorded so far, and that it ends at MaxPort.       *)
SearchInv ==
    /\ Ascending(found)
    /\ Range(found) = open \cap Tried
    /\ Len(found) <= IF search = "close" THEN port + 1 ELSE port
    /\ search \in {"announced", "returned"} => port = MaxPort
    /\ isDone <=> search = "returned"

(* No time read is ahead of the clock; a timeout was decided on a time     *)
(* past the limit, before isDone was set.                                  *)
TimerInv ==
    /\ time <= clock
    /\ timer = "timedout" => time >= Timeout /\ (isDone => doneAt >= time)

IndInv ==
    /\ TypeOK
    /\ SearchInv
    /\ TimerInv
    /\ exit = "success" => search = "returned"

(* Appending a value above those of an ascending sequence keeps it so.     *)
LEMMA AppendAscending ==
    ASSUME NEW s \in Seq(Nat), NEW n \in Nat,
           Ascending(s),
           \A x \in Range(s) : x < n
    PROVE  /\ Ascending(Append(s, n))
           /\ Range(Append(s, n)) = Range(s) \cup {n}
           /\ Len(Append(s, n)) = Len(s) + 1
<1> DEFINE t == Append(s, n)
<1>1. /\ Len(t) = Len(s) + 1
      /\ DOMAIN t = 1..(Len(s) + 1)
      /\ t[Len(s) + 1] = n
      /\ \A i \in 1..Len(s) : t[i] = s[i]
  OBVIOUS
<1>2. DOMAIN s = 1..Len(s) /\ Len(s) \in Nat
  OBVIOUS
<1>3. \A i \in 1..Len(s) : s[i] < n
  BY <1>2 DEF Range
<1>4. Ascending(t)
  BY <1>1, <1>2, <1>3 DEF Ascending
<1>5. Range(t) = Range(s) \cup {n}
  <2>1. Range(t) \subseteq Range(s) \cup {n}
    BY <1>1, <1>2 DEF Range
  <2>2. Range(s) \cup {n} \subseteq Range(t)
    BY <1>1, <1>2 DEF Range
  <2> QED
    BY <2>1, <2>2
<1> QED
  BY <1>1, <1>4, <1>5

LEMMA InitInv == Init => IndInv
<1> SUFFICES ASSUME Init PROVE IndInv
  OBVIOUS
<1> USE PortsAssumption DEF Init
<1>1. found = <<>> /\ Len(found) = 0 /\ DOMAIN found = {}
  OBVIOUS
<1>2. TypeOK
  <2>1. found \in Seq(0..MaxPort) /\ 0 \in 0..MaxPort /\ 0 \in 0..MaxTime
    OBVIOUS
  <2> QED
    BY <2>1 DEF TypeOK
<1>3. Range(found) = {} /\ Ascending(found)
  BY <1>1 DEF Range, Ascending
<1>4. Tried = {}
  BY DEF Tried
<1>5. SearchInv
  BY <1>1, <1>3, <1>4 DEF SearchInv
<1> QED
  BY <1>2, <1>5 DEF IndInv, TimerInv

(* The search thread keeps the invariant. *)
LEMMA SearchKeeps == IndInv /\ SearchStep => IndInv'
<1> SUFFICES ASSUME IndInv, SearchStep PROVE IndInv'
  OBVIOUS
<1> USE PortsAssumption
<1>1. CASE MakeSocket
  BY <1>1 DEF MakeSocket, IndInv, TypeOK, SearchInv, TimerInv, Tried,
     timerVars, Running
<1>2. CASE Connect
  <2> USE <1>2 DEF Connect, timerVars, mainVars
  <2>1. /\ port \in Nat /\ port < MaxPort
        /\ found \in Seq(Nat)
        /\ Range(found) = open \cap 0..(port - 1)
        /\ Ascending(found) /\ Len(found) <= port
    BY DEF IndInv, TypeOK, SearchInv, Tried
  <2>2. \A x \in Range(found) : x < port
    BY <2>1
  <2>3. found' \in Seq(0..MaxPort)
    <3>1. found \in Seq(0..MaxPort) /\ port \in 0..MaxPort
      BY DEF IndInv, TypeOK
    <3>2. Append(found, port) \in Seq(0..MaxPort)
      BY <3>1
    <3> QED
      BY <3>1, <3>2
  <2>4. /\ Ascending(found')
        /\ Range(found') = open \cap 0..port
        /\ Len(found') <= port + 1
    <3>1. CASE port \in open
      <4>1. /\ Ascending(found')
            /\ Range(found') = Range(found) \cup {port}
            /\ Len(found') = Len(found) + 1
        BY <3>1, <2>1, <2>2, AppendAscending
      <4>2. open \cap 0..port = (open \cap 0..(port - 1)) \cup {port}
        BY <3>1, <2>1
      <4> QED
        BY <4>1, <4>2, <2>1, Len(found) \in Nat
    <3>2. CASE port \notin open
      <4>1. open \cap 0..port = open \cap 0..(port - 1)
        BY <3>2, <2>1
      <4> QED
        BY <3>2, <4>1, <2>1, Len(found) \in Nat
    <3> QED
      BY <3>1, <3>2
  <2>5. SearchInv'
    BY <2>4 DEF SearchInv, Tried, IndInv
  <2> QED
    BY <2>1, <2>3, <2>5 DEF IndInv, TypeOK, TimerInv, Running
<1>3. CASE Close
  BY <1>3 DEF Close, IndInv, TypeOK, SearchInv, TimerInv, Tried, timerVars,
     Running
<1>4. CASE Announce
  BY <1>4 DEF Announce, IndInv, TypeOK, SearchInv, TimerInv, Tried, timerVars,
     mainVars, Running
<1>5. CASE SetDone
  BY <1>5 DEF SetDone, IndInv, TypeOK, SearchInv, TimerInv, Tried, timerVars,
     mainVars, Running
<1> QED
  BY <1>1, <1>2, <1>3, <1>4, <1>5 DEF SearchStep

(* So do the other threads, the clock and stuttering. *)
LEMMA OthersKeep ==
    IndInv /\ (TimerStep \/ Tick \/ MainStep \/ Ended \/ UNCHANGED vars)
        => IndInv'
<1> SUFFICES ASSUME IndInv,
                    TimerStep \/ Tick \/ MainStep \/ Ended \/ UNCHANGED vars
             PROVE  IndInv'
  OBVIOUS
<1> USE PortsAssumption
    DEF IndInv, TypeOK, SearchInv, TimerInv, Tried, searchVars, timerVars,
        mainVars
<1>1. CASE ReadClock
  BY <1>1 DEF ReadClock
<1>2. CASE CheckDone
  BY <1>2 DEF CheckDone
<1>3. CASE Tick
  BY <1>3 DEF Tick
<1>4. CASE JoinTimer
  BY <1>4 DEF JoinTimer
<1>5. CASE JoinSearch
  BY <1>5 DEF JoinSearch
<1>6. CASE UNCHANGED vars
  BY <1>6 DEF vars
<1> QED
  BY <1>1, <1>2, <1>3, <1>4, <1>5, <1>6 DEF TimerStep, MainStep, Ended

LEMMA Invariance == Spec => []IndInv
<1>1. IndInv /\ [Next]_vars => IndInv'
  BY SearchKeeps, OthersKeep DEF Next
<1> QED
  BY InitInv, <1>1, PTL DEF Spec

(* Every variable has values of its kind, for any number of ports: the port *)
(* being tried is below the last one (getOpenPorts.c:89-103).              *)
THEOREM TypeCorrect == Spec => []TypeOK
<1>1. IndInv => TypeOK
  BY DEF IndInv
<1> QED
  BY Invariance, <1>1, PTL

(* A successful scan reports exactly the answering ports below the last    *)
(* one, in order, for any number of ports (getOpenPorts.c:47-57, 89-97).   *)
THEOREM ReportCorrect == Spec => []ReportExact
<1>1. IndInv => ReportExact
  <2> SUFFICES ASSUME IndInv, exit = "success"
               PROVE  Ascending(found) /\ Range(found) = open \ {MaxPort}
    BY DEF ReportExact
  <2>1. port = MaxPort /\ search # "close"
    BY DEF IndInv, SearchInv
  <2>2. Ascending(found) /\ Range(found) = open \cap 0..(MaxPort - 1)
    BY <2>1 DEF IndInv, SearchInv, Tried
  <2>3. open \subseteq 0..MaxPort
    BY DEF IndInv, TypeOK
  <2>4. \A x \in open : x \in 0..(MaxPort - 1) <=> x # MaxPort
    BY <2>3, PortsAssumption
  <2>5. open \cap 0..(MaxPort - 1) = open \ {MaxPort}
    BY <2>4
  <2> QED
    BY <2>2, <2>5
<1> QED
  BY Invariance, <1>1, PTL

(* The array of MAX_PORT places is never written past its end              *)
(* (getOpenPorts.c:35, 95).                                                *)
THEOREM ArrayCorrect == Spec => []ArrayFits
<1>1. IndInv => ArrayFits
  BY PortsAssumption DEF IndInv, TypeOK, SearchInv, ArrayFits
<1> QED
  BY Invariance, <1>1, PTL

(* A scan done before the limit is never taken for a timeout, for any      *)
(* limit (getOpenPorts.c:130-139).                                         *)
THEOREM TimelyCorrect == Spec => []TimelyScanCounts
<1>1. IndInv => TimelyScanCounts
  BY PortsAssumption DEF IndInv, TypeOK, TimerInv, TimelyScanCounts
<1> QED
  BY Invariance, <1>1, PTL
=============================================================================
