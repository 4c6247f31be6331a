------------------------- MODULE MCHostRegistration -------------------------
(* One host and another one that takes what is free. *)
EXTENDS HostRegistration
=============================================================================
