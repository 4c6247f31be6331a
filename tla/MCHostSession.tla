---------------------------- MODULE MCHostSession ----------------------------
(* Two controllers, one relayed and two direct connections. *)
EXTENDS HostSession

CONSTANTS k1, k2, k3, p1, p2
=============================================================================
