-------------------------- MODULE MCTerminalSession --------------------------
(* One controller and one host with a few bytes each way. *)
EXTENDS TerminalSession

AllFaults == {"cancel", "signal", "disk", "link", "stall", "foreign"}
BothSend == [e \in Ends |-> 1]
HostSends == [e \in Ends |-> IF e = Host THEN 1 ELSE 0]

\* Crossing checkpoints with a resize and no fault; one fault with a byte of
\* output; one fault of the owners of the input with a byte of it.
ThreeScenarios ==
    {[input |-> 0, output |-> 1, resizes |-> 1, checkpoints |-> BothSend, faults |-> {}],
     [input |-> 0, output |-> 1, resizes |-> 0, checkpoints |-> HostSends, faults |-> AllFaults],
     [input |-> 1, output |-> 0, resizes |-> 0, checkpoints |-> HostSends, faults |-> {"disk", "link", "cancel"}]}
=============================================================================
