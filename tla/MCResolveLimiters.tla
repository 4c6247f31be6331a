-------------------------- MODULE MCResolveLimiters --------------------------
(* One source more than the table holds, and half-period timing. *)
EXTENDS ResolveLimiters, TLC

CONSTANTS s1, s2, s3, s4, s5

Symmetry == Permutations({s1, s2, s3, s4, s5})
=============================================================================
