--------------------------- MODULE ChatServerRoom ---------------------------
(***************************************************************************)
(* ChatServer implements ChatRoom. The floor is mut while distributeData   *)
(* holds it; closeSocket and the main thread use mut too, and no one has   *)
(* the floor then.                                                         *)
(***************************************************************************)
EXTENDS ChatServer

PhaseOf(c) ==
    CASE pc[c] = "unborn" -> "outside"
      [] pc[c] \in {"wait", "send"} ->
           [join |-> "entering", chat |-> "talking", quit |-> "departing"][out[c]]
      [] pc[c] \in {"retire", "done"} -> "left"
      [] OTHER -> "present"

FloorHolder ==
    IF mut \in {c \in Conns : pc[c] = "send"} THEN mut ELSE Free

Room == INSTANCE ChatRoom WITH
    Nobody <- Free,
    phase <- [c \in Conns |-> PhaseOf(c)],
    floor <- FloorHolder

(* Every behaviour of the server is a behaviour of the room: the rounds of *)
(* distributeData never overlap, a client's join notice comes first, its   *)
(* quit notice last, after its socket was closed, and nothing else is ever *)
(* sent to anybody but the answers to their pings (TCPChatServer.cpp:66-77 *)
(* and 83-159).                                                            *)
RoomSpec == Room!Spec
=============================================================================
