---------------------------- MODULE MCChatServer ----------------------------
(***************************************************************************)
(* Small instances of ChatServer. Connections are interchangeable, so the  *)
(* runs that check only invariants use their permutations as symmetry.     *)
(***************************************************************************)
EXTENDS ChatServerRoom, ChatServerInv, TLC

CONSTANTS c1, c2, c3

ThreeConns == {c1, c2, c3}
TwoConns == {c1, c2}
TwoFds == {4, 5}
ChatOnly == {"chat"}
ConnSymmetry == Permutations(Conns)
=============================================================================
