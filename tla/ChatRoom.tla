------------------------------ MODULE ChatRoom ------------------------------
(***************************************************************************)
(* What the threaded chat server promises about a conversation, without    *)
(* threads, descriptors or locks. One participant has the floor at a time. *)
(* A participant takes the floor to announce itself, then once for every   *)
(* message, and for the last time to announce that it left. Only the       *)
(* holder's words reach anybody while it has the floor; a participant gets *)
(* the answer to its own ping besides.                                     *)
(*                                                                         *)
(* The room does not promise that words reach everyone, or reach anyone    *)
(* only once: the server does not do that (see LostOnlyByReuse in          *)
(* ChatServer, and Rebalancing there).                                     *)
(***************************************************************************)
EXTENDS Sequences

CONSTANTS Conns, Nobody

VARIABLES
    phase,      \* where each participant is in its visit
    floor,      \* who has the floor, or Nobody
    inbox       \* what each participant was told and did not read yet

roomVars == <<phase, floor, inbox>>

Phases == {"outside", "entering", "present", "talking", "departing", "left"}

(* What a participant says on the floor, by its phase. *)
Word == [entering |-> "join", talking |-> "chat", departing |-> "quit"]

Init ==
    /\ phase = [c \in Conns |-> "outside"]
    /\ floor = Nobody
    /\ inbox = [c \in Conns |-> <<>>]

Move(c, from, to) ==
    /\ phase[c] = from
    /\ phase' = [phase EXCEPT ![c] = to]
    /\ UNCHANGED <<floor, inbox>>

TakeFloor(c) ==
    /\ floor = Nobody
    /\ phase[c] \in DOMAIN Word
    /\ floor' = c
    /\ UNCHANGED <<phase, inbox>>

Tell(d, kind, from) ==
    /\ inbox' = [inbox EXCEPT ![d] = Append(@, [kind |-> kind, from |-> from])]
    /\ UNCHANGED <<phase, floor>>

Say(d) == floor \in Conns /\ Tell(d, Word[phase[floor]], floor)

YieldFloor ==
    /\ floor \in Conns
    /\ phase' = [phase EXCEPT
                    ![floor] = IF @ = "departing" THEN "left" ELSE "present"]
    /\ floor' = Nobody
    /\ UNCHANGED inbox

Pong(c) == phase[c] = "present" /\ Tell(c, "pong", c)

Hear(c) ==
    /\ inbox[c] # <<>>
    /\ inbox' = [inbox EXCEPT ![c] = Tail(@)]
    /\ UNCHANGED <<phase, floor>>

HangUp(c) ==
    /\ inbox' = [inbox EXCEPT ![c] = <<>>]
    /\ UNCHANGED <<phase, floor>>

Next ==
    \/ YieldFloor
    \/ \E c \in Conns :
         \/ Move(c, "outside", "entering")
         \/ Move(c, "present", "talking")
         \/ Move(c, "present", "departing")
         \/ TakeFloor(c)
         \/ Say(c)
         \/ Pong(c)
         \/ Hear(c)
         \/ HangUp(c)

Spec == Init /\ [][Next]_roomVars
=============================================================================
