--------------------------- MODULE MCFileTransfer ---------------------------
(* The instance TLC checks of FileTransfer. *)
EXTENDS FileTransfer

\* An audited session of this program, and either side against a foreign one.
ThreeSessions ==
    {[foreign |-> {}, audited |-> TRUE],
     [foreign |-> {"controller"}, audited |-> FALSE],
     [foreign |-> {"host"}, audited |-> FALSE]}
=============================================================================
