--------------------------- MODULE MCRegistration ---------------------------
(* One process that may be started again while its first call is handled. *)
EXTENDS Registration

CONSTANT p1

OneName == [p \in Processes |-> "test_client_1"]
=============================================================================
