---------------------------- MODULE FileDelivery ----------------------------
(***************************************************************************)
(* What one file transfer promises, whatever the direction: the target     *)
(* appears at most once, whole, and never over an object of somebody else; *)
(* the sender's verdict is never wrong, only ever unknown; the receiver    *)
(* knows whether it stored the file.                                       *)
(***************************************************************************)
VARIABLES
    file,      \* the final path: absent, another object, or the whole file
    sender,    \* the sender's verdict
    receiver   \* the receiver's verdict

vars == <<file, sender, receiver>>

Init ==
    /\ file = "absent"
    /\ sender = "pending"
    /\ receiver = "pending"

\* The receiver publishes the target in one step; a sender that has reported
\* a failure has been promised that this never happens.
Publish ==
    /\ file = "absent"
    /\ receiver = "pending"
    /\ sender \in {"pending", "unknown"}
    /\ file' = "whole"
    /\ UNCHANGED <<sender, receiver>>

\* Another program creates an object at the final path; it stays.
Occupy ==
    /\ file = "absent"
    /\ file' = "other"
    /\ UNCHANGED <<sender, receiver>>

SenderLearns ==
    /\ sender = "pending"
    /\ \/ file = "whole" /\ sender' = "delivered"
       \/ file # "whole" /\ sender' = "failed"
       \/ sender' = "unknown"
    /\ UNCHANGED <<file, receiver>>

ReceiverEnds ==
    /\ receiver = "pending"
    /\ receiver' = IF file = "whole" THEN "stored" ELSE "discarded"
    /\ UNCHANGED <<file, sender>>

Next == Publish \/ Occupy \/ SenderLearns \/ ReceiverEnds

Spec == Init /\ [][Next]_vars
=============================================================================
