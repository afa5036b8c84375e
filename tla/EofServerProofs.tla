--------------------------- MODULE EofServerProofs ---------------------------
(***************************************************************************)
(* Safety of the C# server for any number of programs and any texts.       *)
(***************************************************************************)
EXTENDS EofServer, TLAPS

(* The head of a queue without duplicates is not in the rest of it.        *)
LEMMA TailOfQueue ==
    ASSUME NEW S, NEW s \in Seq(S), s # <<>>, IsInjective(s)
    PROVE  /\ Head(s) \in S /\ Head(s) \in ToSet(s)
           /\ Tail(s) \in Seq(S)
           /\ IsInjective(Tail(s))
           /\ ToSet(Tail(s)) = ToSet(s) \ {Head(s)}
<1> DEFINE t == Tail(s)
<1>1. /\ t \in Seq(S) /\ Head(s) = s[1] /\ 1 \in DOMAIN s
      /\ DOMAIN s = 1..Len(s) /\ Len(s) \in Nat \ {0}
      /\ DOMAIN t = 1..(Len(s) - 1)
      /\ \A i \in 1..(Len(s) - 1) : t[i] = s[i + 1]
  OBVIOUS
<1> HIDE DEF t
<1>2. \A i, j \in 1..Len(s) : s[i] = s[j] => i = j
  BY <1>1 DEF IsInjective
<1>3. IsInjective(t)
  <2> SUFFICES ASSUME NEW i \in 1..(Len(s) - 1), NEW j \in 1..(Len(s) - 1),
                      t[i] = t[j]
               PROVE  i = j
    BY <1>1 DEF IsInjective
  <2>1. i + 1 \in 1..Len(s) /\ j + 1 \in 1..Len(s)
    BY <1>1
  <2> QED
    BY <2>1, <1>1, <1>2
<1>4. ToSet(t) \subseteq ToSet(s) \ {Head(s)}
  <2> SUFFICES ASSUME NEW i \in 1..(Len(s) - 1)
               PROVE  t[i] \in ToSet(s) \ {Head(s)}
    BY <1>1 DEF ToSet
  <2>1. i + 1 \in 1..Len(s) /\ 1 \in 1..Len(s) /\ i + 1 # 1
    BY <1>1
  <2>2. s[i + 1] # s[1]
    BY <2>1, <1>2
  <2>3. s[i + 1] \in ToSet(s)
    BY <2>1, <1>1 DEF ToSet
  <2> QED
    BY <2>2, <2>3, <1>1
<1>5. ToSet(s) \ {Head(s)} \subseteq ToSet(t)
  <2> SUFFICES ASSUME NEW i \in 1..Len(s), s[i] # s[1]
               PROVE  s[i] \in ToSet(t)
    BY <1>1 DEF ToSet
  <2>1. i - 1 \in 1..(Len(s) - 1) /\ (i - 1) + 1 = i
    BY <1>1
  <2>2. t[i - 1] = s[i]
    BY <2>1, <1>1
  <2> QED
    BY <2>1, <2>2, <1>1 DEF ToSet
<1>6. Head(s) \in S /\ Head(s) \in ToSet(s)
  BY <1>1 DEF ToSet
<1> QED
  BY <1>1, <1>3, <1>4, <1>5, <1>6 DEF t

(* A new member joins the queue at its end.                                *)
LEMMA AppendToQueue ==
    ASSUME NEW S, NEW s \in Seq(S), NEW c \in S, c \notin ToSet(s),
           IsInjective(s)
    PROVE  /\ Append(s, c) \in Seq(S)
           /\ IsInjective(Append(s, c))
           /\ ToSet(Append(s, c)) = ToSet(s) \cup {c}
<1> DEFINE t == Append(s, c)
<1>1. /\ t \in Seq(S)
      /\ DOMAIN s = 1..Len(s) /\ Len(s) \in Nat
      /\ DOMAIN t = 1..(Len(s) + 1)
      /\ t[Len(s) + 1] = c
      /\ \A i \in 1..Len(s) : t[i] = s[i]
  OBVIOUS
<1> HIDE DEF t
<1>2. \A i \in 1..Len(s) : s[i] # c
  BY <1>1 DEF ToSet
<1>3. \A i, j \in 1..Len(s) : s[i] = s[j] => i = j
  BY <1>1 DEF IsInjective
<1>4. IsInjective(t)
  <2> SUFFICES ASSUME NEW i \in 1..(Len(s) + 1), NEW j \in 1..(Len(s) + 1),
                      t[i] = t[j]
               PROVE  i = j
    BY <1>1 DEF IsInjective
  <2> QED
    BY <1>1, <1>2, <1>3
<1>5. ToSet(t) \subseteq ToSet(s) \cup {c}
  BY <1>1 DEF ToSet
<1>6. ToSet(s) \cup {c} \subseteq ToSet(t)
  BY <1>1 DEF ToSet
<1> QED
  BY <1>1, <1>4, <1>5, <1>6 DEF t

-----------------------------------------------------------------------------

Serving == pc \in {"receive", "send", "shutdown", "close"}

(* A connection that waits or is served and has not been answered yet.     *)
Unanswered(c) == c \in ToSet(backlog) \/ (pc \in {"receive", "send"} /\ current = c)

(* The connections that wait are different ones, and none is served.       *)
QueueInv ==
    /\ IsInjective(backlog)
    /\ Serving => current \in Clients /\ current \notin ToSet(backlog)
    /\ \A c \in Clients : step[c] \in {"connect", "send"} => sent[c] = 0

(* What the server knows of the marker, and what an answer shows.          *)
MarkerInv ==
    /\ pc \in {"send", "shutdown", "close"} => marked
    /\ Serving /\ marked =>
           text[current].mark # 0 /\ text[current].mark <= taken[current]
    /\ AnsweredOwnMarker

(* Until the server program ends: the client program is refused, or waits  *)
(* until its answer is there, and reads it.                                *)
Waits(c) ==
    /\ step[c] \in {"connect", "send"} => closed[c] = "no"
    /\ step[c] = "connect" => ~inbox[c]
    /\ step[c] \in {"send", "receive", "close"} => link[c] = "up"
    /\ link[c] \in {"reset", "gone"} => step[c] = "killed" \/ ~IsClient(c)
    /\ Unanswered(c) =>
           /\ closed[c] = "no" /\ ~inbox[c] /\ step[c] # "connect"
           /\ IsClient(c) => step[c] \in {"send", "receive", "killed"}
    /\ IsClient(c) /\ step[c] = "receive" =>
           /\ closed[c] # "no" => closed[c] = "fin" /\ inbox[c]
           /\ pc \in {"shutdown", "close"} /\ current = c => inbox[c]
    /\ IsClient(c) /\ step[c] = "close" => ~inbox[c] /\ got[c] = "reply"
    /\ IsClient(c) /\ step[c] = "done" => got[c] \in {"reply", "refused"}

ClientInv == ~Down => \A c \in Clients : Waits(c)

IndInv ==
    /\ TypeOK /\ QueueInv /\ MarkerInv
    /\ EndedByOthers
    /\ ClientInv

(* The text of a program is a text, and that of the client ends with the   *)
(* marker.                                                                 *)
LEMMA TextFacts ==
    ASSUME TypeOK, NEW c \in Clients
    PROVE  /\ text[c].len \in Nat /\ text[c].mark \in Nat
           /\ text[c].mark <= text[c].len
           /\ IsClient(c) => text[c].mark = text[c].len
<1>1. text[c] \in Packets \/ text[c] = HelloText
  BY DEF TypeOK
<1> QED
  BY <1>1, TextAssumption DEF Texts, HelloText, IsClient

LEMMA InitInv == Init => IndInv
<1> SUFFICES ASSUME Init PROVE IndInv
  OBVIOUS
<1> USE ClientAssumption
<1>1. backlog = <<>> /\ backlog \in Seq(Clients) /\ IsInjective(backlog)
      /\ ToSet(backlog) = {}
  BY DEF Init, IsInjective, ToSet
<1>2. TypeOK
  <2>1. \A c \in Clients : taken[c] <= sent[c] /\ sent[c] \in {0, text[c].len}
    BY DEF Init
  <2>2. Len(backlog) <= QueueLen
    BY <1>1, QueueAssumption DEF Init
  <2> QED
    BY <1>1, <2>1, <2>2 DEF Init, TypeOK
<1>3. QueueInv /\ MarkerInv
  BY <1>1 DEF Init, QueueInv, MarkerInv, AnsweredOwnMarker, Serving
<1>4. ClientInv /\ EndedByOthers
  BY <1>1 DEF Init, ClientInv, Waits, EndedByOthers, Unanswered
<1> QED
  BY <1>2, <1>3, <1>4 DEF IndInv

(* Behind the marker something was sent, and of the client everything was  *)
(* received.                                                               *)
LEMMA BehindMarker ==
    ASSUME IndInv, Serving, marked
    PROVE  /\ current \in Clients
           /\ step[current] \notin {"connect", "send"}
           /\ text[current].mark # 0 /\ text[current].mark <= taken[current]
           /\ IsClient(current) => taken[current] = sent[current]
<1>1. /\ current \in Clients
      /\ text[current].mark # 0 /\ text[current].mark <= taken[current]
  BY DEF IndInv, QueueInv, MarkerInv
<1>2. /\ taken[current] \in Nat /\ sent[current] \in Nat
      /\ taken[current] <= sent[current]
      /\ sent[current] \in {0, text[current].len}
  BY <1>1 DEF IndInv, TypeOK
<1>3. /\ text[current].len \in Nat /\ text[current].mark \in Nat
      /\ IsClient(current) => text[current].mark = text[current].len
  BY <1>1, TextFacts DEF IndInv
<1>4. sent[current] # 0
  BY <1>1, <1>2, <1>3
<1>5. step[current] \notin {"connect", "send"}
  BY <1>1, <1>4 DEF IndInv, QueueInv
<1>6. IsClient(current) => taken[current] = sent[current]
  BY <1>1, <1>2, <1>3, <1>4
<1> QED
  BY <1>1, <1>5, <1>6

LEMMA ConnectKeeps ==
    ASSUME NEW c \in Clients, IndInv, Connect(c)
    PROVE  IndInv'
<1> USE ClientAssumption, QueueAssumption DEF Connect, Goto, Room, Down, serverVars
<1>1. c \notin ToSet(backlog) /\ (pc \in {"receive", "send"} => current # c)
  BY DEF IndInv, ClientInv, Waits, Unanswered
<1>2. Serving => current # c
  BY <1>1, BehindMarker DEF Serving, IndInv, MarkerInv
<1>3. /\ backlog' \in Seq(Clients) /\ IsInjective(backlog')
      /\ ToSet(backlog') = ToSet(backlog) \cup {c}
      /\ Len(backlog') <= QueueLen
  BY <1>1, AppendToQueue DEF IndInv, TypeOK, QueueInv
<1>4. TypeOK'
  BY <1>3 DEF IndInv, TypeOK
<1>5. QueueInv'
  BY <1>2, <1>3 DEF IndInv, TypeOK, QueueInv, Serving
<1>6. MarkerInv'
  BY DEF IndInv, MarkerInv, AnsweredOwnMarker, Serving
<1>7. EndedByOthers'
  BY DEF IndInv, EndedByOthers
<1>8. ClientInv'
  <2> SUFFICES ASSUME NEW d \in Clients PROVE Waits(d)'
    BY DEF ClientInv, Down
  <2>1. Waits(d) /\ Waits(c) /\ ~Down
    BY DEF IndInv, ClientInv
  <2>2. d # c => ToSet(backlog') = ToSet(backlog) \cup {c}
    BY <1>3
  <2>3. CASE d = c
    BY <2>1, <2>3, <1>2 DEF Waits, Unanswered, IsClient, Serving, IndInv, TypeOK
  <2>4. CASE d # c
    BY <2>1, <2>2, <2>4 DEF Waits, Unanswered, IsClient, IndInv, TypeOK
  <2> QED
    BY <2>3, <2>4
<1> QED
  BY <1>4, <1>5, <1>6, <1>7, <1>8 DEF IndInv
(* What the programs do besides: text and queue stay as they are.          *)
LEMMA ProgramKeeps ==
    ASSUME NEW c \in Clients, IndInv,
           \/ Refused(c) \/ Send(c) \/ SendFails(c)
           \/ Receive(c) \/ Close(c) \/ Killed(c)
    PROVE  IndInv'
<1> USE DEF Goto, connVars, serverVars
<1>1. /\ UNCHANGED <<text, backlog, pc, current, marked, closed, taken>>
      /\ \A d \in Clients \ {c} :
             /\ step'[d] = step[d] /\ got'[d] = got[d] /\ link'[d] = link[d]
             /\ sent'[d] = sent[d] /\ inbox'[d] = inbox[d]
  BY DEF IndInv, TypeOK, Refused, Send, SendFails, Receive, Close, Killed, Hangup
<1>2. TypeOK'
  <2>1. text[c].len \in Nat
    BY TextFacts DEF IndInv
  <2>2. CASE Send(c)
    <3>1. taken[c] = 0 /\ sent[c] = 0
      BY <2>2 DEF Send, IndInv, TypeOK, QueueInv
    <3>2. \A d \in Clients : taken'[d] <= sent'[d] /\ sent'[d] \in {0, text'[d].len}
      BY <2>1, <2>2, <3>1, <1>1 DEF Send, IndInv, TypeOK
    <3> QED
      BY <2>1, <2>2, <3>2 DEF Send, IndInv, TypeOK
  <2>3. CASE Refused(c) \/ SendFails(c) \/ Receive(c) \/ Close(c) \/ Killed(c)
    <3>1. CASE Refused(c) \/ SendFails(c)
      BY <3>1 DEF Refused, SendFails, IndInv, TypeOK
    <3>2. CASE Receive(c)
      BY <3>2 DEF Receive, IndInv, TypeOK
    <3>3. CASE Close(c) \/ Killed(c)
      BY <3>3 DEF Close, Killed, Hangup, IndInv, TypeOK
    <3> QED
      BY <2>3, <3>1, <3>2, <3>3
  <2> QED
    BY <2>2, <2>3
<1>3. QueueInv'
  <2>1. step'[c] \notin {"connect", "send"}
    BY DEF Refused, Send, SendFails, Receive, Close, Killed, IndInv, TypeOK
  <2> QED
    BY <1>1, <2>1 DEF IndInv, QueueInv, Serving
<1>4. MarkerInv'
  <2>1. inbox'[c] \/ got'[c] = "reply" => inbox[c] \/ got[c] = "reply"
    BY DEF Refused, Send, SendFails, Receive, Close, Killed, Hangup, IndInv, TypeOK
  <2> QED
    BY <1>1, <2>1 DEF IndInv, MarkerInv, AnsweredOwnMarker, Serving
<1>5. EndedByOthers'
  <2>1. step[c] # "killed"
    BY DEF Refused, Send, SendFails, Receive, Close, Killed
  <2> QED
    BY <1>1, <2>1 DEF IndInv, EndedByOthers, IsClient
<1>6. ClientInv'
  <2> SUFFICES ASSUME NEW d \in Clients, ~Down PROVE Waits(d)'
    BY <1>1 DEF ClientInv, Down
  <2>1. Waits(d)
    BY DEF IndInv, ClientInv
  <2>2. CASE d # c
    BY <1>1, <2>1, <2>2 DEF Waits, Unanswered, IsClient
  <2>3. CASE d = c
    <3> USE <2>1, <2>3, <1>1
        DEF Waits, Unanswered, IsClient, IndInv, TypeOK
    <3>1. ~SendFails(c)
      BY DEF SendFails
    <3>6. CASE Refused(c)
      <4>1. c \notin ToSet(backlog) /\ (pc \in {"receive", "send"} => current # c)
        BY <3>6 DEF Refused
      <4>2. pc \in {"shutdown", "close"} => current # c
        BY <3>6, BehindMarker DEF Refused, Serving, MarkerInv
      <4> QED
        BY <3>6, <4>1, <4>2 DEF Refused
    <3>2. CASE Send(c)
      <4>1. pc \in {"shutdown", "close"} => current # c
        BY <3>2, BehindMarker DEF Send, Serving, MarkerInv
      <4> QED
        BY <3>2, <4>1 DEF Send
    <3>3. CASE Receive(c)
      BY <3>3 DEF Receive
    <3>4. CASE Close(c)
      BY <3>4 DEF Close, Hangup
    <3>5. CASE Killed(c)
      BY <3>5 DEF Killed, Hangup
    <3> QED
      BY <3>1, <3>2, <3>3, <3>4, <3>5, <3>6
  <2> QED
    BY <2>2, <2>3
<1> QED
  BY <1>2, <1>3, <1>4, <1>5, <1>6 DEF IndInv
(* The server accepts: data is empty again. *)
LEMMA AcceptKeeps == IndInv /\ Accept => IndInv'
<1> SUFFICES ASSUME IndInv, Accept PROVE IndInv'
  OBVIOUS
<1> USE ClientAssumption DEF Accept, clientVars
<1>1. /\ current' = Head(backlog) /\ backlog' = Tail(backlog)
      /\ current' \in Clients /\ current' \in ToSet(backlog)
      /\ backlog' \in Seq(Clients) /\ IsInjective(backlog')
      /\ ToSet(backlog') = ToSet(backlog) \ {current'}
      /\ Len(backlog') <= QueueLen
  BY TailOfQueue, QueueAssumption DEF IndInv, TypeOK, QueueInv
<1>2. TypeOK'
  BY <1>1 DEF IndInv, TypeOK
<1>3. QueueInv' /\ MarkerInv'
  BY <1>1 DEF IndInv, QueueInv, MarkerInv, AnsweredOwnMarker, Serving
<1>4. EndedByOthers' /\ ClientInv'
  BY <1>1 DEF IndInv, EndedByOthers, ClientInv, Waits, Unanswered, IsClient, Down
<1> QED
  BY <1>2, <1>3, <1>4 DEF IndInv

(* What it receives of the text brings it nearer to the marker. *)
LEMMA ReceiveKeeps ==
    ASSUME NEW c \in Clients, IndInv,
           ReceiveText(c) \/ ReceiveNothing(c)
    PROVE  IndInv'
<1> USE DEF clientVars, connVars
<1>1. /\ pc = "receive" /\ current = c /\ pc' \in {"receive", "send"}
      /\ UNCHANGED <<text, step, got, backlog, link, closed, sent, inbox, current>>
      /\ pc' = "send" => marked'
  BY DEF ReceiveText, ReceiveNothing, IndInv, TypeOK
<1>2. /\ taken' \in [Clients -> Nat] /\ marked' \in BOOLEAN
      /\ \A d \in Clients : taken[d] <= taken'[d] /\ taken'[d] <= sent[d]
      /\ marked' => text[c].mark # 0 /\ text[c].mark <= taken'[c]
  <2>1. /\ taken[c] \in Nat /\ sent[c] \in Nat /\ taken[c] <= sent[c]
        /\ marked => text[c].mark # 0 /\ text[c].mark <= taken[c]
        /\ text[c].mark \in Nat
    BY <1>1, TextFacts DEF IndInv, TypeOK, MarkerInv, Serving
  <2>2. CASE ReceiveText(c)
    <3>1. PICK n \in (taken[c] + 1)..sent[c] :
              /\ taken' = [taken EXCEPT ![c] = n]
              /\ marked' = (marked \/ HasMarker(text[c], taken[c], n))
      BY <2>2 DEF ReceiveText
    <3> QED
      BY <2>1, <3>1 DEF HasMarker, IndInv, TypeOK
  <2>3. CASE ReceiveNothing(c)
    BY <2>1, <2>3 DEF ReceiveNothing, IndInv, TypeOK
  <2> QED
    BY <2>2, <2>3
<1>3. TypeOK'
  BY <1>1, <1>2 DEF IndInv, TypeOK
<1>4. QueueInv'
  BY <1>1 DEF IndInv, QueueInv, Serving
<1>5. MarkerInv'
  <2>1. \A d \in Clients : text[d].mark \in Nat /\ taken[d] \in Nat /\ taken'[d] \in Nat
    BY <1>2, TextFacts DEF IndInv, TypeOK
  <2> QED
    BY <1>1, <1>2, <2>1 DEF IndInv, MarkerInv, AnsweredOwnMarker, Serving
<1>6. EndedByOthers' /\ ClientInv'
  BY <1>1 DEF IndInv, EndedByOthers, ClientInv, Waits, Unanswered, IsClient, Down
<1> QED
  BY <1>3, <1>4, <1>5, <1>6 DEF IndInv

(* While a connection is served only one that was reset ends the program.  *)
LEMMA EndKeeps ==
    ASSUME IndInv, ~Down, NEW how \in {"ended", "failed"}, Ends(how),
           how = "ended" =>
               current \in Clients /\ link[current] \in {"reset", "gone"},
           UNCHANGED <<clientVars, backlog, link, sent, taken, inbox, current,
                       marked>>
    PROVE  IndInv'
<1> USE DEF Ends, Down, clientVars
<1>1. TypeOK'
  BY DEF IndInv, TypeOK
<1>2. QueueInv' /\ MarkerInv' /\ ClientInv'
  BY DEF IndInv, QueueInv, MarkerInv, AnsweredOwnMarker, ClientInv, Serving
<1>3. EndedByOthers'
  BY DEF IndInv, ClientInv, Waits, EndedByOthers, IsClient
<1> QED
  BY <1>1, <1>2, <1>3 DEF IndInv

(* The answer, the end of the connection, or the end of the program. *)
LEMMA AnswerKeeps ==
    ASSUME NEW c \in Clients, IndInv,
           \/ ReceiveFails(c) \/ SendAnswer(c) \/ SendAnswerFails(c)
           \/ Shutdown(c) \/ CloseClient(c)
    PROVE  IndInv'
<1>1. CASE ReceiveFails(c)
  BY <1>1, EndKeeps DEF ReceiveFails, Down
<1>2. CASE SendAnswerFails(c)
  BY <1>2, EndKeeps DEF SendAnswerFails, Down
<1>3. CASE SendAnswer(c)
  <2> USE <1>3 DEF SendAnswer, clientVars
  <2>1. Serving /\ marked /\ current = c
    BY DEF IndInv, MarkerInv, Serving
  <2>2. /\ step[c] \notin {"connect", "send"}
        /\ text[c].mark # 0 /\ text[c].mark <= taken[c]
        /\ c \notin ToSet(backlog)
    BY <2>1, BehindMarker DEF IndInv, QueueInv
  <2>3. TypeOK'
    BY DEF IndInv, TypeOK
  <2>4. QueueInv' /\ EndedByOthers'
    BY <2>1 DEF IndInv, QueueInv, EndedByOthers, Serving, IsClient
  <2>5. MarkerInv'
    <3>1. AnsweredOwnMarker'
      BY <2>1, <2>2 DEF IndInv, TypeOK, MarkerInv, AnsweredOwnMarker
    <3> QED
      BY <3>1, <2>1 DEF IndInv, MarkerInv, Serving
  <2>6. ClientInv'
    <3> SUFFICES ASSUME NEW d \in Clients PROVE Waits(d)'
      BY DEF ClientInv, Down
    <3>1. Waits(d)
      BY DEF IndInv, ClientInv, Down
    <3>2. CASE d # c
      BY <3>1, <3>2 DEF Waits, Unanswered, IsClient, IndInv, TypeOK
    <3>3. CASE d = c
      BY <3>1, <3>3, <2>1, <2>2 DEF Waits, Unanswered, IsClient, IndInv, TypeOK
    <3> QED
      BY <3>2, <3>3
  <2> QED
    BY <2>3, <2>4, <2>5, <2>6 DEF IndInv
<1>4. CASE Shutdown(c)
  <2>1. CASE pc' = "close" /\ UNCHANGED closed
    <3> USE <1>4, <2>1 DEF Shutdown, clientVars
    <3>1. TypeOK'
      BY DEF IndInv, TypeOK
    <3> QED
      BY <3>1 DEF IndInv, QueueInv, MarkerInv, AnsweredOwnMarker, Serving,
         EndedByOthers, ClientInv, Waits, Unanswered, IsClient, Down
  <2>2. CASE link[c] \in {"reset", "gone"} /\ Ends("ended")
    BY <1>4, <2>2, EndKeeps DEF Shutdown, Down
  <2> QED
    BY <1>4, <2>1, <2>2 DEF Shutdown
<1>5. CASE CloseClient(c)
  <2> USE <1>5, ClientAssumption DEF CloseClient, clientVars
  <2>1. Serving /\ marked /\ current = c
    BY DEF IndInv, MarkerInv, Serving
  <2>2. /\ step[c] \notin {"connect", "send"}
        /\ c \notin ToSet(backlog)
        /\ IsClient(c) => closed'[c] = "fin"
    BY <2>1, BehindMarker DEF IndInv, QueueInv, TypeOK
  <2>3. TypeOK'
    BY DEF IndInv, TypeOK
  <2>4. QueueInv' /\ MarkerInv' /\ EndedByOthers'
    BY DEF IndInv, QueueInv, MarkerInv, AnsweredOwnMarker, EndedByOthers,
       Serving, IsClient
  <2>5. ClientInv'
    <3> SUFFICES ASSUME NEW d \in Clients PROVE Waits(d)'
      BY DEF ClientInv, Down
    <3>1. Waits(d)
      BY DEF IndInv, ClientInv, Down
    <3>2. CASE d # c
      BY <3>1, <3>2 DEF Waits, Unanswered, IsClient, IndInv, TypeOK
    <3>3. CASE d = c
      BY <3>1, <3>3, <2>1, <2>2 DEF Waits, Unanswered, IsClient, IndInv, TypeOK
    <3> QED
      BY <3>2, <3>3
  <2> QED
    BY <2>3, <2>4, <2>5 DEF IndInv
<1> QED
  BY <1>1, <1>2, <1>3, <1>4, <1>5

(* The server listens, or fails before it serves anybody. *)
LEMMA OpenKeeps == IndInv /\ (Listen \/ OpenFails) => IndInv'
<1> SUFFICES ASSUME IndInv, Listen \/ OpenFails PROVE IndInv'
  OBVIOUS
<1>1. CASE Listen
  <2> USE <1>1 DEF Listen, clientVars, connVars
  <2>1. TypeOK'
    BY DEF IndInv, TypeOK
  <2> QED
    BY <2>1 DEF IndInv, QueueInv, MarkerInv, AnsweredOwnMarker, Serving,
       EndedByOthers, ClientInv, Waits, Unanswered, IsClient, Down
<1>2. CASE OpenFails
  BY <1>2, EndKeeps DEF OpenFails, Down
<1> QED
  BY <1>1, <1>2

LEMMA StutterKeeps == IndInv /\ UNCHANGED vars => IndInv'
<1> SUFFICES ASSUME IndInv, UNCHANGED vars PROVE IndInv'
  OBVIOUS
<1> USE DEF vars, clientVars, connVars, serverVars
<1>1. TypeOK'
  BY DEF IndInv, TypeOK
<1> QED
  BY <1>1 DEF IndInv, QueueInv, MarkerInv, AnsweredOwnMarker, Serving,
     EndedByOthers, ClientInv, Waits, Unanswered, IsClient, Down

(* The invariant holds for any number of programs and any texts.           *)
THEOREM Inductive == Spec => []IndInv
<1>1. IndInv /\ [Next]_vars => IndInv'
  BY ConnectKeeps, ProgramKeeps, AcceptKeeps, ReceiveKeeps, AnswerKeeps,
     OpenKeeps, StutterKeeps DEF Next, ServerStep, ProgramStep
<1> QED
  BY InitInv, <1>1, PTL DEF Spec

(* Every variable keeps its kind, and what was received was sent.          *)
THEOREM TypeCorrect == Spec => []TypeOK
<1>1. IndInv => TypeOK
  BY DEF IndInv
<1> QED
  BY Inductive, <1>1, PTL

(* Only who sent the marker is answered, for any texts in any parts        *)
(* (Server.cs:34-46).                                                      *)
THEOREM MarkerCorrect == Spec => []AnsweredOwnMarker
<1>1. IndInv => AnsweredOwnMarker
  BY DEF IndInv, MarkerInv
<1> QED
  BY Inductive, <1>1, PTL

(* The client program ends without an answer only when it was refused or   *)
(* the server has ended, for a queue of any length (Server.cs:28-49,       *)
(* Client.cs:27-39).                                                       *)
THEOREM AnswerCorrect == Spec => []UnansweredOnlyAtEnd
<1>1. IndInv => UnansweredOnlyAtEnd
  BY DEF IndInv, ClientInv, Waits, UnansweredOnlyAtEnd
<1> QED
  BY Inductive, <1>1, PTL

(* While a connection is served the client program does not end the server *)
(* (Server.cs:38-52).                                                      *)
THEOREM EndCorrect == Spec => []EndedByOthers
<1>1. IndInv => EndedByOthers
  BY DEF IndInv
<1> QED
  BY Inductive, <1>1, PTL
=============================================================================
