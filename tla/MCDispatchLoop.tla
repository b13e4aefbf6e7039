--------------------------- MODULE MCDispatchLoop ---------------------------
(* Instances of DispatchLoop for TLC. *)
EXTENDS DispatchLoop

CONSTANTS w1, w2
=============================================================================
