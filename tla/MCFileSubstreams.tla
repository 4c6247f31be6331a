-------------------------- MODULE MCFileSubstreams --------------------------
(* Four audited operations one after the other, three substreams of a         *)
(* controller that does not wait, and a probe the next one may overtake.      *)
EXTENDS FileSubstreams

ThreeSessions ==
    { [streams |-> 4, kinds |-> {"probe", "upload", "download"}, ordered |-> TRUE,
       concurrent |-> FALSE, audited |-> TRUE, fails |-> TRUE],
      [streams |-> 3, kinds |-> {"upload"}, ordered |-> TRUE,
       concurrent |-> TRUE, audited |-> FALSE, fails |-> FALSE],
      [streams |-> 2, kinds |-> {"probe", "upload"}, ordered |-> FALSE,
       concurrent |-> FALSE, audited |-> FALSE, fails |-> FALSE] }
=============================================================================
