----------------------------- MODULE OneShotCode -----------------------------
(***************************************************************************)
(* What a host promises its user: the displayed connection code opens at   *)
(* most one terminal.  Until then the code may be replaced by a new one;   *)
(* afterwards nothing is on offer any more.                                *)
(***************************************************************************)
EXTENDS Naturals

VARIABLES code, consumed

Init == code = 1 /\ consumed = FALSE

\* A replacement code is displayed; the previous one is void.
Replace == ~consumed /\ code' = code + 1 /\ UNCHANGED consumed

\* A terminal becomes active.
Consume == ~consumed /\ consumed' = TRUE /\ UNCHANGED code

Next == Replace \/ Consume

Spec == Init /\ [][Next]_<<code, consumed>>
=============================================================================
