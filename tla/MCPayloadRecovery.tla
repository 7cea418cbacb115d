-------------------------- MODULE MCPayloadRecovery --------------------------
(* PayloadRecovery on small instances. *)
EXTENDS PayloadRecovery
=============================================================================
