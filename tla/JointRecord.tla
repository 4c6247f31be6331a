---------------------------- MODULE JointRecord ----------------------------
(***************************************************************************)
(* What the two audit records of a session promise: each end only ever     *)
(* adds to its account while it is open, closes it once, and seals it only *)
(* when the other end's closed account says the same.                      *)
(***************************************************************************)
EXTENDS Naturals, Sequences

CONSTANTS
    Parties   \* the two ends

VARIABLES
    account,  \* account[p]: bytes each way and control events p has recorded
    seal      \* open, closed, sealed or failed

Other(p) == CHOOSE q \in Parties : q # p

\* b says everything a says, and possibly more.
Extends(a, b) ==
    /\ b.input >= a.input /\ b.output >= a.output
    /\ Len(b.control) >= Len(a.control)
    /\ SubSeq(b.control, 1, Len(a.control)) = a.control

recordVars == <<account, seal>>

RecordInit ==
    /\ account = [p \in Parties |-> [input |-> 0, output |-> 0, control |-> <<>>]]
    /\ seal = [p \in Parties |-> "open"]

\* Only an open account grows; only p's account changes.
Writes(p) ==
    /\ seal[p] = "open"
    /\ Extends(account[p], account'[p])
    /\ \A q \in Parties \ {p} : account'[q] = account[q]

Add(p) == Writes(p) /\ UNCHANGED seal

Close(p) == Writes(p) /\ seal' = [seal EXCEPT ![p] = "closed"]

Fail(p) ==
    /\ seal[p] \in {"open", "closed"}
    /\ Writes(p) \/ UNCHANGED account
    /\ seal' = [seal EXCEPT ![p] = "failed"]

Seal(p) ==
    /\ seal[p] = "closed" /\ seal[Other(p)] # "open"
    /\ account[p] = account[Other(p)]
    /\ seal' = [seal EXCEPT ![p] = "sealed"]
    /\ UNCHANGED account

RecordNext == \E p \in Parties : Add(p) \/ Close(p) \/ Fail(p) \/ Seal(p)

JointSpec == RecordInit /\ [][RecordNext]_recordVars
=============================================================================
