-------------------------- MODULE MCRecordedSession --------------------------
(* Six sessions: a full block of input among checkpoints; a full block of     *)
(* output; a partial one among checkpoints; a resize among crossing           *)
(* checkpoints; four checkpoints of the host, its final one included, against *)
(* two of the controller; and a partial block of input beside a key action.   *)
EXTENDS RecordedSession

Running(c, h) == [e \in Ends |-> IF e = Controller THEN c ELSE h]

SmallScenarios ==
    { [input |-> 2, output |-> 0, resizes |-> 0, keys |-> 0, checkpoints |-> Running(1, 0)],
      [input |-> 0, output |-> 2, resizes |-> 0, keys |-> 0, checkpoints |-> Running(0, 0)],
      [input |-> 0, output |-> 1, resizes |-> 0, keys |-> 0, checkpoints |-> Running(0, 1)],
      [input |-> 0, output |-> 0, resizes |-> 1, keys |-> 0, checkpoints |-> Running(1, 1)],
      [input |-> 0, output |-> 0, resizes |-> 0, keys |-> 0, checkpoints |-> Running(1, 3)],
      [input |-> 1, output |-> 0, resizes |-> 0, keys |-> 1, checkpoints |-> Running(0, 0)] }
=============================================================================
