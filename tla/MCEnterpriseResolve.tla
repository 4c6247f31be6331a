------------------------ MODULE MCEnterpriseResolve ------------------------
(* EnterpriseResolve on a small instance.                                   *)
EXTENDS EnterpriseResolve

CONSTANTS e1, b1, b2
=============================================================================
