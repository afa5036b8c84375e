-------------------------- MODULE SelectChatRounds --------------------------
(***************************************************************************)
(* SelectChat implements EchoRounds. A round opens with select(); those    *)
(* that it reported and the iterator has not passed have their turn yet.   *)
(***************************************************************************)
EXTENDS SelectChat

Ahead == { clientSockets[k] : k \in at..Len(clientSockets) }

TurnsLeft ==
    CASE pc = "select" -> {}
      [] pc \in {"accept", "name"} -> readfds
      [] OTHER -> readfds \cap Ahead

Rounds == INSTANCE EchoRounds WITH members <- clientSockets, turns <- TurnsLeft

(* Every behaviour of the server is a behaviour of the rounds: however     *)
(* often a client is read again after an empty line, however much it       *)
(* writes, and whoever comes or dies in between, it gets one echo a round  *)
(* at most, in the order of joining, and only when select() reported it    *)
(* (server.cpp:98-152).                                                    *)
RoundsSpec == Rounds!Spec
=============================================================================
