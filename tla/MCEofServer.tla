----------------------------- MODULE MCEofServer -----------------------------
EXTENDS EofServer

(* A text without the marker, and one that goes on behind it. *)
PacketTexts == {[len |-> 2, mark |-> 0], [len |-> 4, mark |-> 3]}
=============================================================================
