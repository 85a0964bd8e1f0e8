------------------------------ MODULE MCClient ------------------------------
(* A user with an identity, or with a file that is refused; without an     *)
(* edit the file is missing. *)
EXTENDS Client

MCEdits == {[uuid |-> CHOOSE u \in Uuids : TRUE, keep |-> FALSE], Malformed}
=============================================================================
