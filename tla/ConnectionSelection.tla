------------------------ MODULE ConnectionSelection ------------------------
(***************************************************************************)
(* The bounded set of candidate connections of one selection window        *)
(* (yonder-net, connection.rs) and the order that ranks them (path.rs), as *)
(* operators.  A selection is the slice of its candidates in the order the *)
(* code keeps them, and the next establishment number.                     *)
(***************************************************************************)
EXTENDS Integers, Sequences, SequencesExt, FiniteSets

CONSTANTS
    PeerCapacity,       \* PER_PEER_CAPACITY
    TransportCapacity   \* PER_TRANSPORT_CAPACITY

ASSUME CapacityAssumption == PeerCapacity \in Nat /\ TransportCapacity \in Nat

\* TransportKind in its derived order.
TransportRank == [Quic |-> 1, Tcp |-> 2, WebSocket |-> 3, SecureWebSocket |-> 4]
PathRank == [Direct |-> 1, Relayed |-> 2]

NewSelection == [candidates |-> <<>>, next |-> 0]

-----------------------------------------------------------------------------
\* PingSamples: the first three round trips.

Push(samples, rtt) == IF Len(samples) = 3 THEN samples ELSE Append(samples, rtt)

Median(samples) ==
    LET s == SortSeq(samples, <) IN
    IF Len(s) = 2 THEN s[1] + (s[2] - s[1]) \div 2 ELSE s[(Len(s) + 1) \div 2]

RangeOf(samples) == LET s == SortSeq(samples, <) IN s[Len(s)] - s[1]

\* compare: the candidates differ in the first key that is not equal.  The
\* range counts only when both have at least two samples.
Quality(l, r) ==
    IF l.samples # <<>> /\ r.samples # <<>>
    THEN <<Median(l.samples) - Median(r.samples),
           IF Len(l.samples) > 1 /\ Len(r.samples) > 1
           THEN RangeOf(l.samples) - RangeOf(r.samples) ELSE 0>>
    ELSE IF l.samples # <<>> THEN <<-1>> ELSE IF r.samples # <<>> THEN <<1>> ELSE <<0>>

Before(l, r) ==
    LET keys == Quality(l, r) \o
                <<PathRank[l.path] - PathRank[r.path],
                  TransportRank[l.transport] - TransportRank[r.transport],
                  l.order - r.order>>
        differing == SelectSeq(keys, LAMBDA k: k # 0)
    IN differing # <<>> /\ Head(differing) < 0

\* Iterator::min_by: one pass over the slice.
MinBy(slice) ==
    FoldLeft(LAMBDA best, c: IF Before(c, best) THEN c ELSE best, Head(slice), Tail(slice))

-----------------------------------------------------------------------------
Tracked(sel, id) == \E i \in 1..Len(sel.candidates): sel.candidates[i].id = id

OnTransport(sel, transport) ==
    Cardinality({i \in 1..Len(sel.candidates): sel.candidates[i].transport = transport})

\* established: a full set, or a full transport, refuses the connection.
Accepts(sel, c) ==
    \/ Tracked(sel, c.id)
    \/ /\ Len(sel.candidates) < PeerCapacity
       /\ OnTransport(sel, c.transport) < TransportCapacity

Established(sel, c) ==
    IF Tracked(sel, c.id) \/ ~Accepts(sel, c) THEN sel
    ELSE [candidates |-> Append(sel.candidates,
                                [id |-> c.id, path |-> c.path, transport |-> c.transport,
                                 samples |-> <<>>, order |-> sel.next]),
          next |-> sel.next + 1]

\* ping: a connection that is no candidate is ignored by both callers.
Pinged(sel, id, rtt) ==
    LET sampled(c) == IF c.id = id THEN [c EXCEPT !.samples = Push(@, rtt)] ELSE c
    IN [sel EXCEPT !.candidates = [i \in DOMAIN @ |-> sampled(@[i])]]

\* closed: Vec::swap_remove.
Closed(sel, id) ==
    IF ~Tracked(sel, id) THEN sel
    ELSE LET cs == sel.candidates
             at == CHOOSE i \in DOMAIN cs: cs[i].id = id
         IN [sel EXCEPT !.candidates = Front([cs EXCEPT ![at] = Last(cs)])]

\* The direct candidates of the slice, in its order.
Direct(sel) ==
    FoldLeft(LAMBDA slice, c: IF c.path = "Direct" THEN Append(slice, c) ELSE slice,
             <<>>, sel.candidates)

HasDirect(sel) == Direct(sel) # <<>>
HasDirectSample(sel) == \E i \in 1..Len(Direct(sel)): Direct(sel)[i].samples # <<>>

\* finish and finish_direct: the winner.
Finish(sel) == MinBy(sel.candidates)
FinishDirect(sel) == MinBy(Direct(sel))

\* The connections a winner leaves behind.
Losers(sel, winner) == {sel.candidates[i].id : i \in 1..Len(sel.candidates)} \ {winner}
=============================================================================
