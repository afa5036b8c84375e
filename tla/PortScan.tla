------------------------------ MODULE PortScan ------------------------------
(***************************************************************************)
(* getOpenPorts: the search thread connects to one port after another and  *)
(* records those that answer; the timeout thread watches the processor     *)
(* time and isDone; main joins the timeout thread, then the search thread. *)
(*                                                                         *)
(* connect() may take any time. The timeout thread spins, so processor     *)
(* time passes whatever the search does. The scanned host does not change  *)
(* which ports it answers on during a scan.                                *)
(***************************************************************************)
EXTENDS Integers, Sequences, Functions

CONSTANTS
    MaxPort,    \* MAX_PORT, the last port
    Timeout,    \* TIMEOUT, in seconds
    MaxTime     \* bound: seconds of processor time the model counts

ASSUME PortsAssumption ==
    /\ MaxPort \in Nat
    /\ Timeout \in Nat /\ MaxTime \in Nat
    /\ Timeout <= MaxTime

VARIABLES
    open,       \* the ports that answer
    search,     \* where search() is
    port,       \* its loop variable
    found,      \* open_ports, up to num
    isDone,     \* the flag, written without the mutex
    timer,      \* where timeoutFunc() is, or what it returned
    time,       \* the time it read last
    clock,      \* processor time since the timeout thread began
    main,       \* the thread main joins
    exit,       \* the status the process ended with
    doneAt      \* history: the time at which isDone was set

searchVars == <<search, port, found, isDone, doneAt>>
timerVars == <<timer, time>>
mainVars == <<main, exit>>
vars == <<open, searchVars, timerVars, clock, mainVars>>

Running == exit = "no"

Init ==
    /\ open \in SUBSET (0..MaxPort)
    /\ search = "loop"
    /\ port = 0
    /\ found = <<>>
    /\ isDone = FALSE
    /\ timer = "read"
    /\ time = 0
    /\ clock = 0
    /\ main = "timer"
    /\ exit = "no"
    /\ doneAt = 0

-----------------------------------------------------------------------------
(* The search thread. *)

(* Mutant of MakeSocket: the last port is tried too. *)
MakeSocketToLast ==
    /\ Running /\ search = "loop" /\ port <= MaxPort
    /\ \/ search' = "connect" /\ UNCHANGED exit
       \/ exit' = "failure" /\ UNCHANGED search
    /\ UNCHANGED <<open, port, found, isDone, doneAt, timerVars, clock, main>>

(* socket() may fail, which ends the process. *)
MakeSocket ==
    /\ Running /\ search = "loop" /\ port < MaxPort
    /\ \/ search' = "connect" /\ UNCHANGED exit
       \/ exit' = "failure" /\ UNCHANGED search
    /\ UNCHANGED <<open, port, found, isDone, doneAt, timerVars, clock, main>>

(* Mutant of Connect: the result is compared with 0 the wrong way round. *)
ConnectRefused ==
    /\ Running /\ search = "connect"
    /\ found' = IF port \in open THEN found ELSE Append(found, port)
    /\ search' = "close"
    /\ UNCHANGED <<open, port, isDone, doneAt, timerVars, clock, mainVars>>

Connect ==
    /\ Running /\ search = "connect"
    /\ found' = IF port \in open THEN Append(found, port) ELSE found
    /\ search' = "close"
    /\ UNCHANGED <<open, port, isDone, doneAt, timerVars, clock, mainVars>>

Close ==
    /\ Running /\ search = "close"
    /\ \/ search' = "loop" /\ port' = port + 1 /\ UNCHANGED exit
       \/ exit' = "failure" /\ UNCHANGED <<search, port>>
    /\ UNCHANGED <<open, found, isDone, doneAt, timerVars, clock, main>>

(* "All possible ports tested" is printed before isDone is set. *)
Announce ==
    /\ Running /\ search = "loop" /\ port >= MaxPort
    /\ search' = "announced"
    /\ UNCHANGED <<open, port, found, isDone, doneAt, timerVars, clock,
                   mainVars>>

SetDone ==
    /\ Running /\ search = "announced"
    /\ isDone' = TRUE
    /\ doneAt' = clock
    /\ search' = "returned"
    /\ UNCHANGED <<open, port, found, timerVars, clock, mainVars>>

-----------------------------------------------------------------------------
(* The timeout thread. *)
ReadClock ==
    /\ Running /\ timer = "read"
    /\ time' = clock
    /\ timer' = "check"
    /\ UNCHANGED <<open, searchVars, clock, mainVars>>

(* Mutant of CheckDone: the limit is tested before isDone. *)
CheckTimeFirst ==
    /\ Running /\ timer = "check"
    /\ timer' = IF time >= Timeout THEN "timedout"
                ELSE IF isDone THEN "done"
                ELSE "read"
    /\ UNCHANGED <<open, searchVars, time, clock, mainVars>>

CheckDone ==
    /\ Running /\ timer = "check"
    /\ timer' = IF isDone THEN "done"
                ELSE IF time < Timeout THEN "read"
                ELSE "timedout"
    /\ UNCHANGED <<open, searchVars, time, clock, mainVars>>

(* The bound on the time is MaxTime. *)
Tick ==
    /\ Running /\ clock < MaxTime
    /\ clock' = clock + 1
    /\ UNCHANGED <<open, searchVars, timerVars, mainVars>>

-----------------------------------------------------------------------------
(* The main thread. *)

(* Mutant of JoinTimer: the search is waited for first. *)
JoinSearchFirst ==
    /\ Running /\ main = "timer" /\ search = "returned"
    /\ timer \in {"done", "timedout"}
    /\ IF timer = "timedout"
       THEN exit' = "failure" /\ UNCHANGED main
       ELSE main' = "search" /\ UNCHANGED exit
    /\ UNCHANGED <<open, searchVars, timerVars, clock>>

(* After a timeout the search thread is cancelled and the process ends. *)
JoinTimer ==
    /\ Running /\ main = "timer"
    /\ timer \in {"done", "timedout"}
    /\ IF timer = "timedout"
       THEN exit' = "failure" /\ UNCHANGED main
       ELSE main' = "search" /\ UNCHANGED exit
    /\ UNCHANGED <<open, searchVars, timerVars, clock>>

(* The ports found are printed. *)
JoinSearch ==
    /\ Running /\ main = "search" /\ search = "returned"
    /\ exit' = "success"
    /\ UNCHANGED <<open, searchVars, timerVars, clock, main>>

Ended == ~Running /\ UNCHANGED vars

-----------------------------------------------------------------------------
SearchStep == MakeSocket \/ Connect \/ Close \/ Announce \/ SetDone
TimerStep == ReadClock \/ CheckDone
MainStep == JoinTimer \/ JoinSearch

Next == SearchStep \/ TimerStep \/ Tick \/ MainStep \/ Ended

Spec == Init /\ [][Next]_vars

(* The threads of the program that do not wait for a host are scheduled,   *)
(* and the spinning of the timeout thread makes the clock advance. Nothing *)
(* is assumed of the search, whose connect() may hang.                     *)
FairSpec ==
    /\ Spec
    /\ WF_vars(TimerStep)
    /\ WF_vars(Tick)
    /\ WF_vars(MainStep)

-----------------------------------------------------------------------------
(* Every variable has values of its kind; the search is inside its loop    *)
(* for the ports it tries only (getOpenPorts.c:89).                        *)
TypeOK ==
    /\ open \in SUBSET (0..MaxPort)
    /\ search \in {"loop", "connect", "close", "announced", "returned"}
    /\ port \in 0..MaxPort
    /\ search \in {"connect", "close"} => port < MaxPort
    /\ found \in Seq(0..MaxPort)
    /\ isDone \in BOOLEAN
    /\ timer \in {"read", "check", "done", "timedout"}
    /\ time \in 0..MaxTime
    /\ clock \in 0..MaxTime
    /\ main \in {"timer", "search"}
    /\ exit \in {"no", "failure", "success"}
    /\ doneAt \in 0..MaxTime

Ascending(s) == \A i, j \in 1..Len(s) : i < j => s[i] < s[j]

(* A scan that ends in success reports each answering port below the last  *)
(* one exactly once, in order, whatever the timeout thread did meanwhile   *)
(* (getOpenPorts.c:47-57, 89-97). The last port is never tried, although   *)
(* line 104 says that all are.                                             *)
ReportExact ==
    exit = "success" =>
        /\ Ascending(found)
        /\ Range(found) = open \ {MaxPort}

(* search() never writes past the end of open_ports, which has MAX_PORT    *)
(* places for MAX_PORT + 1 ports (getOpenPorts.c:35, 79, 95).              *)
ArrayFits == Len(found) <= MaxPort

(* A search that is done before the limit is not reported as a timeout,    *)
(* although isDone is set outside the mutex and between the timeout        *)
(* thread's reading of the clock and its check (getOpenPorts.c:130-139).   *)
TimelyScanCounts ==
    timer = "timedout" => ~isDone \/ doneAt >= Timeout

(* The process ends, even if a connect() hangs (getOpenPorts.c:47-53).     *)
Ends == <>(exit # "no")
=============================================================================
