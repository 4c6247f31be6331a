--------------------------- MODULE MCRelayService ---------------------------
(* Two connections, one of them without a source, and a roster of one.      *)
EXTENDS RelayService

CONSTANTS s1, c1

\* Only c1 among the connections has no source prefix, as a connection whose
\* remote address carries no IP component.
MCSourceOf == [c \in Conns |-> IF c = c1 THEN NoSource ELSE s1]
=============================================================================
