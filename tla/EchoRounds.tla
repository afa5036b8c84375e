----------------------------- MODULE EchoRounds -----------------------------
(***************************************************************************)
(* What the chat server around select() promises, without sockets, streams *)
(* and buffers. It works in rounds. Who has a turn in a round is settled   *)
(* when the round opens; who joins meanwhile waits for the next one. In a  *)
(* round everybody has one turn at most, in the order of joining, and gets *)
(* at most one echo in it. Nobody is ever removed.                         *)
(*                                                                         *)
(* A turn need not bring an echo, and a round need not come to its end: a  *)
(* client can hold the server in its turn (see HeldByOne in SelectChat).   *)
(***************************************************************************)
EXTENDS Naturals, Sequences, SequencesExt

CONSTANT Clients

VARIABLES
    members,    \* who has joined, in order
    turns,      \* who has not had its turn in this round
    echoes      \* how many echoes were sent to each client

roundVars == <<members, turns, echoes>>

Init ==
    /\ members = <<>>
    /\ turns = {}
    /\ echoes = [c \in Clients |-> 0]

OpenRound ==
    /\ turns = {}
    /\ turns' \in SUBSET ToSet(members)
    /\ UNCHANGED <<members, echoes>>

Join(c) ==
    /\ c \notin ToSet(members)
    /\ members' = Append(members, c)
    /\ UNCHANGED <<turns, echoes>>

JoinedBefore(c, d) ==
    \E i, j \in 1..Len(members) : i < j /\ members[i] = c /\ members[j] = d

TakeTurn(c) ==
    /\ c \in turns
    /\ \A d \in turns \ {c} : JoinedBefore(c, d)
    /\ turns' = turns \ {c}
    /\ \/ echoes' = [echoes EXCEPT ![c] = @ + 1]
       \/ UNCHANGED echoes
    /\ UNCHANGED members

Next ==
    \/ OpenRound
    \/ \E c \in Clients : Join(c) \/ TakeTurn(c)

Spec == Init /\ [][Next]_roundVars
=============================================================================
