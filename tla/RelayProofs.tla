---------------------------- MODULE RelayProofs ----------------------------
(***************************************************************************)
(* TLAPS proofs about the relay: its Registry, for every set of peers,     *)
(* sources and locators and every capacity, quota and grace period; the    *)
(* owner loop RelayService, whose every step is a step of the registry or  *)
(* leaves it alone; and HostRegistration, a host that keeps its code       *)
(* registered there through lost connections, lost answers and restarts.   *)
(***************************************************************************)
EXTENDS RelayService, HostRegistration, FiniteSetTheorems, TLAPS

-----------------------------------------------------------------------------
(***************************************************************************)
(* 1. Registry                                                             *)
(*                                                                         *)
(* The three tables are "coherent" (inverse indexes, exact quota counts).  *)
(* Pruning, inserting, removing and rewriting the state of a mapping each  *)
(* keep tables coherent, and every method is a prune followed by at most   *)
(* one of the others.                                                      *)
(***************************************************************************)

\* Coherence of a mapping table bl, an owner index bo and quota counts bs.
Coherent(bl, bo, bs) ==
    /\ DOMAIN bl \subseteq Locators
    /\ bl \in [DOMAIN bl -> Mapping]
    /\ DOMAIN bo \subseteq Peers
    /\ bo \in [DOMAIN bo -> Locators]
    /\ bs \in [Sources -> Nat]
    /\ \A l \in DOMAIN bl : bl[l].owner \in DOMAIN bo /\ bo[bl[l].owner] = l
    /\ \A p \in DOMAIN bo : bo[p] \in DOMAIN bl /\ bl[bo[p]].owner = p
    /\ \A s \in Sources : bs[s] = Cardinality(ChargedTo(bl, s))

\* Limits of a mapping table.
Limited(bl) ==
    /\ Cardinality(DOMAIN bl) <= Capacity
    /\ \A s \in Sources : Cardinality(ChargedTo(bl, s)) <= PerSource

\* The inductive invariant: reachable tables are coherent and limited, and
\* Active mappings are the available ones.
IInv == /\ Coherent(byLocator, byOwner, bySource)
        /\ Limited(byLocator)
        /\ ActiveIffAvailable
        /\ reservations \subseteq Peers
        /\ connections \subseteq Peers
        /\ reply \in Replies
        /\ ResolvedIsReachable

\* Sets of locators are finite and their cardinalities are naturals.
LEMMA LocatorsFinite ==
    ASSUME NEW S \in SUBSET Locators
    PROVE  IsFiniteSet(S) /\ Cardinality(S) \in Nat
BY RegistryAssumption, FS_Subset, FS_CardinalityType

\* A set of locators is counted by counting its parts inside and outside E.
LEMMA SplitCardinality ==
    ASSUME NEW C \in SUBSET Locators, NEW E
    PROVE  /\ Cardinality(C \ E) \in Nat
           /\ Cardinality(C \cap E) \in Nat
           /\ Cardinality(C) = Cardinality(C \ E) + Cardinality(C \cap E)
<1> DEFINE A == C \ E
           B == C \cap E
<1>1. /\ IsFiniteSet(A) /\ Cardinality(A) \in Nat
      /\ IsFiniteSet(B) /\ Cardinality(B) \in Nat
  <2>1. A \in SUBSET Locators /\ B \in SUBSET Locators
    OBVIOUS
  <2> QED BY <2>1, LocatorsFinite
<1>2. A \cup B = C /\ A \cap B = {}
  OBVIOUS
<1> HIDE DEF A, B
<1>3. Cardinality(A \cup B) = Cardinality(A) + Cardinality(B) - Cardinality(A \cap B)
  BY <1>1, FS_Union
<1>4. Cardinality({}) = 0
  BY FS_EmptySet
<1>5. Cardinality(C) = Cardinality(A) + Cardinality(B)
  <2>1. Cardinality(A \cup B) = Cardinality(C)
    BY <1>2
  <2>2. Cardinality(A \cap B) = 0
    BY <1>2, <1>4
  <2> QED BY <1>1, <1>3, <2>1, <2>2
<1> QED BY <1>1, <1>5 DEF A, B

\* Restricting a table to fewer locators cannot exceed a limit.
LEMMA LimitedSmaller ==
    ASSUME NEW bl, NEW bl2, DOMAIN bl \subseteq Locators, Limited(bl),
           DOMAIN bl2 \subseteq DOMAIN bl,
           \A l \in DOMAIN bl2 : bl2[l].source = bl[l].source
    PROVE  Limited(bl2)
<1>1. Cardinality(DOMAIN bl2) <= Cardinality(DOMAIN bl)
  BY LocatorsFinite, FS_Subset
<1>2. ASSUME NEW s \in Sources
      PROVE  Cardinality(ChargedTo(bl2, s)) <= Cardinality(ChargedTo(bl, s))
  <2>1. ChargedTo(bl2, s) \subseteq ChargedTo(bl, s) /\ ChargedTo(bl, s) \subseteq Locators
    BY DEF ChargedTo
  <2> QED BY <2>1, LocatorsFinite, FS_Subset
<1>3. /\ Cardinality(DOMAIN bl2) \in Nat /\ Cardinality(DOMAIN bl) \in Nat
      /\ \A s \in Sources : /\ Cardinality(ChargedTo(bl, s)) \in Nat
                            /\ Cardinality(ChargedTo(bl2, s)) \in Nat
  <2>1. \A s \in Sources : /\ ChargedTo(bl, s) \subseteq Locators
                           /\ ChargedTo(bl2, s) \subseteq Locators
    BY DEF ChargedTo
  <2> QED BY <2>1, LocatorsFinite
<1> QED BY <1>1, <1>2, <1>3, RegistryAssumption DEF Limited

\* prune() keeps the tables coherent: it drops an owner entry and a unit of
\* quota for each mapping it drops, and nothing else.
LEMMA PruneCoherent ==
    ASSUME Coherent(byLocator, byOwner, bySource)
    PROVE  /\ Coherent(PrunedByLocator, PrunedByOwner, PrunedBySource)
           /\ DOMAIN PrunedByLocator = Kept
           /\ Kept \subseteq DOMAIN byLocator
           /\ \A l \in Kept : PrunedByLocator[l] = byLocator[l]
           /\ DOMAIN PrunedByOwner = {byLocator[l].owner : l \in Kept}
           /\ DOMAIN PrunedByOwner \subseteq DOMAIN byOwner
           /\ \A p \in DOMAIN PrunedByOwner : PrunedByOwner[p] = byOwner[p]
<1> USE DEF Coherent
<1>1. /\ DOMAIN PrunedByLocator = Kept
      /\ Kept \subseteq DOMAIN byLocator
      /\ \A l \in Kept : PrunedByLocator[l] = byLocator[l]
  BY DEF PrunedByLocator, Keep, Kept
<1>2. /\ DOMAIN PrunedByOwner = {byLocator[l].owner : l \in Kept}
      /\ DOMAIN PrunedByOwner \subseteq DOMAIN byOwner
      /\ \A p \in DOMAIN PrunedByOwner : PrunedByOwner[p] = byOwner[p]
  BY DEF PrunedByOwner, Keep, Kept, Expired
<1>3. ASSUME NEW s \in Sources
      PROVE  /\ PrunedBySource[s] = Cardinality(ChargedTo(PrunedByLocator, s))
             /\ PrunedBySource[s] \in Nat
  <2> DEFINE C == ChargedTo(byLocator, s)
  <2>1. C \subseteq Locators /\ C \cap Expired \subseteq Locators
    BY DEF ChargedTo
  <2>2. ChargedTo(PrunedByLocator, s) = C \ Expired
    BY <1>1 DEF ChargedTo, Kept
  <2>3. /\ Cardinality(C \ Expired) \in Nat
        /\ Cardinality(C) = Cardinality(C \ Expired) + Cardinality(C \cap Expired)
        /\ Cardinality(C \cap Expired) \in Nat
    BY <2>1, SplitCardinality
  <2>7. PrunedBySource[s] = Cardinality(C) - Cardinality(C \cap Expired)
    BY DEF PrunedBySource
  <2> QED BY <2>2, <2>3, <2>7
<1>4. PrunedBySource \in [Sources -> Nat]
  BY <1>3 DEF PrunedBySource
<1>5. /\ PrunedByLocator \in [DOMAIN PrunedByLocator -> Mapping]
      /\ PrunedByOwner \in [DOMAIN PrunedByOwner -> Locators]
  <2>1. PrunedByLocator = [x \in DOMAIN PrunedByLocator |-> PrunedByLocator[x]]
        /\ PrunedByOwner = [x \in DOMAIN PrunedByOwner |-> PrunedByOwner[x]]
    BY DEF PrunedByLocator, PrunedByOwner, Keep
  <2> QED BY <1>1, <1>2, <2>1
<1>6. \A l \in DOMAIN PrunedByLocator :
         /\ PrunedByLocator[l].owner \in DOMAIN PrunedByOwner
         /\ PrunedByOwner[PrunedByLocator[l].owner] = l
  BY <1>1, <1>2
<1>7. \A p \in DOMAIN PrunedByOwner :
         /\ PrunedByOwner[p] \in DOMAIN PrunedByLocator
         /\ PrunedByLocator[PrunedByOwner[p]].owner = p
  BY <1>1, <1>2
<1> QED BY <1>1, <1>2, <1>3, <1>4, <1>5, <1>6, <1>7

\* insert() of a free locator for a peer that owns none keeps the tables
\* coherent, and within the limits when has_capacity() allowed it.
LEMMA InsertCoherent ==
    ASSUME NEW bl, NEW bo, NEW bs, NEW l \in Locators, NEW m \in Mapping,
           Coherent(bl, bo, bs), Limited(bl),
           l \notin DOMAIN bl, m.owner \notin DOMAIN bo,
           Cardinality(DOMAIN bl) < Capacity, bs[m.source] < PerSource,
           NEW bs2, bs2 = [bs EXCEPT ![m.source] = @ + 1]
    PROVE  Coherent(Put(bl, l, m), Put(bo, m.owner, l), bs2) /\ Limited(Put(bl, l, m))
<1> DEFINE bl2 == Put(bl, l, m)
           bo2 == Put(bo, m.owner, l)
<1>0. /\ bl2 = [k \in DOMAIN bl \cup {l} |-> IF k = l THEN m ELSE bl[k]]
      /\ bo2 = [q \in DOMAIN bo \cup {m.owner} |-> IF q = m.owner THEN l ELSE bo[q]]
  BY DEF Put
<1> HIDE DEF bl2, bo2
<1>1. m.owner \in Peers /\ m.source \in Sources
  BY DEF Mapping
<1>2. ASSUME NEW s \in Sources
      PROVE  /\ bs2[s] = Cardinality(ChargedTo(bl2, s))
             /\ bs2[s] \in Nat /\ bs2[s] <= PerSource
  <2>0. /\ ChargedTo(bl, s) \in SUBSET Locators /\ l \notin ChargedTo(bl, s)
        /\ bs[s] \in Nat /\ bs[s] = Cardinality(ChargedTo(bl, s)) /\ bs[s] <= PerSource
    BY DEF ChargedTo, Coherent, Limited
  <2>1. CASE s = m.source
    <3>1. ChargedTo(bl2, s) = ChargedTo(bl, s) \cup {l}
      BY <1>0, <2>1 DEF ChargedTo
    <3>2. Cardinality(ChargedTo(bl, s) \cup {l}) = Cardinality(ChargedTo(bl, s)) + 1
      BY <2>0, LocatorsFinite, FS_AddElement
    <3>3. bs2[s] = bs[s] + 1
      BY <2>1, <1>1 DEF Coherent
    <3>4. Cardinality(ChargedTo(bl2, s)) = Cardinality(ChargedTo(bl, s)) + 1
      BY <3>1, <3>2
    <3>5. bs[s] < PerSource /\ PerSource \in Nat
      BY <2>1, RegistryAssumption
    <3> HIDE DEF ChargedTo
    <3> QED BY <2>0, <3>3, <3>4, <3>5
  <2>2. CASE s # m.source
    <3>1. ChargedTo(bl2, s) = ChargedTo(bl, s)
      BY <1>0, <2>2 DEF ChargedTo
    <3>3. bs2[s] = bs[s]
      BY <2>2 DEF Coherent
    <3> QED BY <2>0, <3>1, <3>3
  <2> QED BY <2>1, <2>2
<1>3. Cardinality(DOMAIN bl2) <= Capacity
  <2>1. DOMAIN bl2 = DOMAIN bl \cup {l}
    BY <1>0
  <2>2. Cardinality(DOMAIN bl) \in Nat /\ IsFiniteSet(DOMAIN bl)
    BY LocatorsFinite DEF Coherent
  <2>3. Cardinality(DOMAIN bl \cup {l}) = Cardinality(DOMAIN bl) + 1
    BY <2>2, FS_AddElement
  <2>4. Cardinality(DOMAIN bl2) = Cardinality(DOMAIN bl) + 1
    BY <2>1, <2>3
  <2> QED BY <2>2, <2>4, RegistryAssumption
<1>4. Limited(bl2)
  BY <1>2, <1>3 DEF Limited
<1>5. bs2 \in [Sources -> Nat]
  BY <1>2, <1>1 DEF Coherent
<1>6. /\ DOMAIN bl2 \subseteq Locators
      /\ bl2 \in [DOMAIN bl2 -> Mapping]
      /\ DOMAIN bo2 \subseteq Peers
      /\ bo2 \in [DOMAIN bo2 -> Locators]
  BY <1>0, <1>1 DEF Coherent
<1>7. /\ \A k \in DOMAIN bl2 : bl2[k].owner \in DOMAIN bo2 /\ bo2[bl2[k].owner] = k
      /\ \A q \in DOMAIN bo2 : bo2[q] \in DOMAIN bl2 /\ bl2[bo2[q]].owner = q
  BY <1>0 DEF Coherent
<1> QED BY <1>2, <1>4, <1>5, <1>6, <1>7 DEF Coherent, bl2, bo2

\* remove() of one mapping keeps the tables coherent.
LEMMA RemoveCoherent ==
    ASSUME NEW bl, NEW bo, NEW bs, Coherent(bl, bo, bs), NEW l \in DOMAIN bl,
           NEW bs2, bs2 = [bs EXCEPT ![bl[l].source] = @ - 1]
    PROVE  Coherent(Keep(bl, DOMAIN bl \ {l}), Keep(bo, DOMAIN bo \ {bl[l].owner}), bs2)
<1> DEFINE bl2 == Keep(bl, DOMAIN bl \ {l})
           bo2 == Keep(bo, DOMAIN bo \ {bl[l].owner})
<1>1. l \in Locators /\ bl[l] \in Mapping /\ bl[l].source \in Sources
  BY DEF Coherent, Mapping
<1>2. ASSUME NEW s \in Sources
      PROVE  bs2[s] = Cardinality(ChargedTo(bl2, s)) /\ bs2[s] \in Nat
  <2>0. /\ ChargedTo(bl, s) \in SUBSET Locators
        /\ bs[s] \in Nat /\ bs[s] = Cardinality(ChargedTo(bl, s))
    BY DEF ChargedTo, Coherent
  <2>1. CASE s = bl[l].source
    <3>1. ChargedTo(bl2, s) = ChargedTo(bl, s) \ {l} /\ l \in ChargedTo(bl, s)
      BY <2>1 DEF ChargedTo, Keep
    <3>2. Cardinality(ChargedTo(bl, s) \ {l}) = Cardinality(ChargedTo(bl, s)) - 1
      BY <2>0, <3>1, LocatorsFinite, FS_RemoveElement
    <3>3. Cardinality(ChargedTo(bl2, s)) \in Nat
      BY <2>0, <3>1, LocatorsFinite
    <3>4. bs2[s] = bs[s] - 1
      BY <2>1, <1>1 DEF Coherent
    <3> QED BY <2>0, <3>1, <3>2, <3>3, <3>4
  <2>2. CASE s # bl[l].source
    <3>1. ChargedTo(bl2, s) = ChargedTo(bl, s)
      BY <2>2 DEF ChargedTo, Keep
    <3>2. bs2[s] = bs[s]
      BY <2>2 DEF Coherent
    <3> QED BY <2>0, <3>1, <3>2
  <2> QED BY <2>1, <2>2
<1>3. bs2 \in [Sources -> Nat]
  BY <1>2, <1>1 DEF Coherent
<1>4. /\ DOMAIN bl2 \subseteq Locators
      /\ bl2 \in [DOMAIN bl2 -> Mapping]
      /\ DOMAIN bo2 \subseteq Peers
      /\ bo2 \in [DOMAIN bo2 -> Locators]
  BY DEF Coherent, Keep
<1>5. /\ \A k \in DOMAIN bl2 : bl2[k].owner \in DOMAIN bo2 /\ bo2[bl2[k].owner] = k
      /\ \A q \in DOMAIN bo2 : bo2[q] \in DOMAIN bl2 /\ bl2[bo2[q]].owner = q
  BY DEF Coherent, Keep
<1> QED BY <1>2, <1>3, <1>4, <1>5 DEF Coherent

\* Rewriting mappings without touching owners and sources (refresh, and the
\* passage of time) keeps the tables coherent.
LEMMA RewriteCoherent ==
    ASSUME NEW bl, NEW bo, NEW bs, Coherent(bl, bo, bs),
           NEW bl2 \in [DOMAIN bl -> Mapping],
           \A l \in DOMAIN bl : /\ bl2[l].owner = bl[l].owner
                                /\ bl2[l].source = bl[l].source
    PROVE  Coherent(bl2, bo, bs)
<1>1. \A s \in Sources : ChargedTo(bl2, s) = ChargedTo(bl, s)
  BY DEF ChargedTo
<1> QED BY <1>1 DEF Coherent

\* A mapping in another state is a mapping of the same owner and source.
LEMMA InStateMapping ==
    ASSUME NEW m \in Mapping, NEW st \in {"Active", "Suspended"}, NEW a \in 0..Grace
    PROVE  /\ InState(m, st, a) \in Mapping
           /\ InState(m, st, a).owner = m.owner
           /\ InState(m, st, a).source = m.source
           /\ InState(m, st, a).state = st
           /\ InState(m, st, a).age = a
BY DEF InState, Mapping

\* The step for a method that only prunes.
LEMMA PruneStep ==
    ASSUME IInv, Prune, UNCHANGED <<reservations, connections>>
    PROVE  /\ Coherent(byLocator', byOwner', bySource')
           /\ Limited(byLocator')
           /\ ActiveIffAvailable'
<1>1. Coherent(byLocator, byOwner, bySource)
  BY DEF IInv
<1>2. Coherent(byLocator', byOwner', bySource')
  BY <1>1, PruneCoherent DEF Prune
<1>3. Limited(byLocator')
  BY <1>1, PruneCoherent, LimitedSmaller DEF Prune, IInv, Coherent
<1>4. ActiveIffAvailable'
  BY <1>1, PruneCoherent DEF Prune, IInv, ActiveIffAvailable, IsAvailable
<1> QED BY <1>2, <1>3, <1>4

\* The step for a method that prunes and inserts.
LEMMA InsertStep ==
    ASSUME IInv, NEW l \in Locators \ Kept, NEW p \in Peers, NEW s \in Sources,
           IsAvailable(p, reservations, connections),
           p \notin DOMAIN PrunedByOwner, HasCapacity(s), Insert(l, p, s),
           UNCHANGED <<reservations, connections>>
    PROVE  /\ Coherent(byLocator', byOwner', bySource')
           /\ Limited(byLocator')
           /\ ActiveIffAvailable'
<1> DEFINE m == [owner |-> p, source |-> s, state |-> "Active", age |-> 0]
<1>0. Coherent(byLocator, byOwner, bySource)
  BY DEF IInv
<1>1. m \in Mapping /\ m.owner = p /\ m.source = s /\ m.state = "Active"
  BY RegistryAssumption DEF Mapping
<1>2. /\ byLocator' = Put(PrunedByLocator, l, m)
      /\ byOwner' = Put(PrunedByOwner, p, l)
      /\ bySource' = [PrunedBySource EXCEPT ![s] = @ + 1]
  BY DEF Insert
<1>3. Limited(PrunedByLocator)
  BY <1>0, PruneCoherent, LimitedSmaller DEF IInv, Coherent
<1>4. Cardinality(DOMAIN PrunedByLocator) < Capacity /\ PrunedBySource[s] < PerSource
  BY <1>0, PruneCoherent DEF HasCapacity
<1>5. Coherent(PrunedByLocator, PrunedByOwner, PrunedBySource) /\ l \notin DOMAIN PrunedByLocator
  BY <1>0, PruneCoherent
<1>6. Coherent(byLocator', byOwner', bySource') /\ Limited(byLocator')
  <2> HIDE DEF m
  <2>1. /\ byOwner' = Put(PrunedByOwner, m.owner, l)
        /\ bySource' = [PrunedBySource EXCEPT ![m.source] = @ + 1]
        /\ m.owner \notin DOMAIN PrunedByOwner
        /\ PrunedBySource[m.source] < PerSource
    BY <1>1, <1>2, <1>4
  <2>2. /\ Coherent(Put(PrunedByLocator, l, m), Put(PrunedByOwner, m.owner, l), bySource')
        /\ Limited(Put(PrunedByLocator, l, m))
    BY <1>1, <1>3, <1>4, <1>5, <2>1, InsertCoherent
  <2> QED BY <1>2, <2>1, <2>2
<1>7. ActiveIffAvailable'
  <2> HIDE DEF m
  <2>1. \A k \in Kept : byLocator'[k] = byLocator[k]
    BY <1>0, <1>2, PruneCoherent DEF Put
  <2>2. DOMAIN byLocator' = Kept \cup {l} /\ byLocator'[l] = m /\ Kept \subseteq DOMAIN byLocator
    BY <1>0, <1>2, PruneCoherent DEF Put
  <2> QED BY <1>1, <2>1, <2>2 DEF ActiveIffAvailable, IInv, IsAvailable
<1> QED BY <1>6, <1>7

\* The step for set_reservation and set_connection: availability of p becomes
\* avail and refresh brings p's mapping into line with it.
LEMMA RefreshStep ==
    ASSUME IInv, NEW p \in Peers, NEW avail \in BOOLEAN, Refresh(p, avail),
           avail <=> IsAvailable(p, reservations', connections'),
           \A q \in Peers \ {p} : IsAvailable(q, reservations', connections')
                                  <=> IsAvailable(q, reservations, connections)
    PROVE  /\ Coherent(byLocator', byOwner', bySource')
           /\ Limited(byLocator')
           /\ ActiveIffAvailable'
<1>0. Coherent(byLocator, byOwner, bySource)
  BY DEF IInv
<1>1. ASSUME NEW m \in Mapping
      PROVE  /\ Refreshed(m, avail) \in Mapping
             /\ Refreshed(m, avail).owner = m.owner
             /\ Refreshed(m, avail).source = m.source
             /\ avail => Refreshed(m, avail).state = "Active"
             /\ ~avail => Refreshed(m, avail).state # "Active"
  <2>1. CASE avail
    <3>1. Refreshed(m, avail) = InState(m, "Active", 0)
      BY <2>1 DEF Refreshed
    <3>2. 0 \in 0..Grace
      BY RegistryAssumption
    <3>3. /\ InState(m, "Active", 0) \in Mapping
          /\ InState(m, "Active", 0).owner = m.owner
          /\ InState(m, "Active", 0).source = m.source
          /\ InState(m, "Active", 0).state = "Active"
      BY <3>2, InStateMapping
    <3> QED BY <2>1, <3>1, <3>3
  <2>2. CASE ~avail /\ m.state = "Active"
    <3>1. Refreshed(m, avail) = InState(m, "Suspended", 0)
      BY <2>2 DEF Refreshed
    <3>2. 0 \in 0..Grace
      BY RegistryAssumption
    <3> QED BY <2>2, <3>1, <3>2, InStateMapping
  <2>3. CASE ~avail /\ m.state # "Active"
    BY <2>3, RegistryAssumption DEF Refreshed, Mapping
  <2> QED BY <2>1, <2>2, <2>3
<1>2. Coherent(PrunedByLocator, PrunedByOwner, PrunedBySource)
  BY <1>0, PruneCoherent
<1>3. /\ byLocator' \in [Kept -> Mapping]
      /\ \A l \in Kept : /\ byLocator'[l].owner = byLocator[l].owner
                         /\ byLocator'[l].source = byLocator[l].source
                         /\ byLocator[l].owner = p /\ avail => byLocator'[l].state = "Active"
                         /\ byLocator[l].owner = p /\ ~avail => byLocator'[l].state # "Active"
                         /\ byLocator[l].owner # p => byLocator'[l] = byLocator[l]
  <2>1. CASE p \notin DOMAIN PrunedByOwner
    BY <1>0, <1>2, <2>1, PruneCoherent DEF Refresh, Coherent
  <2>2. CASE p \in DOMAIN PrunedByOwner
    <3>1. byLocator' = [PrunedByLocator EXCEPT ![byOwner[p]] = Refreshed(@, avail)]
      BY <2>2 DEF Refresh
    <3>2. byOwner[p] \in Kept /\ byLocator[byOwner[p]] \in Mapping
          /\ byLocator[byOwner[p]].owner = p
      BY <1>0, <1>2, <2>2, PruneCoherent DEF Coherent
    <3>3. \A l \in Kept : byLocator[l].owner = p => l = byOwner[p]
      BY <1>0, <1>2, PruneCoherent DEF Coherent
    <3>4. PrunedByLocator \in [Kept -> Mapping]
      BY <1>0, <1>2, PruneCoherent DEF Coherent
    <3>5. \A l \in Kept : byLocator'[l] = IF l = byOwner[p] THEN Refreshed(byLocator[l], avail)
                                                            ELSE byLocator[l]
      BY <1>0, <3>1, <3>2, <3>4, PruneCoherent
    <3>6. byLocator' \in [Kept -> Mapping]
      BY <1>0, <1>1, <3>1, <3>2, <3>4, PruneCoherent
    <3> QED BY <1>1, <3>2, <3>3, <3>5, <3>6
  <2> QED BY <2>1, <2>2
<1>4. Coherent(byLocator', PrunedByOwner, PrunedBySource)
  <2>1. /\ byLocator' \in [DOMAIN PrunedByLocator -> Mapping]
        /\ \A l \in DOMAIN PrunedByLocator :
              /\ byLocator'[l].owner = PrunedByLocator[l].owner
              /\ byLocator'[l].source = PrunedByLocator[l].source
    BY <1>0, <1>3, PruneCoherent
  <2> QED BY <1>2, <2>1, RewriteCoherent
<1>5. Coherent(byLocator', byOwner', bySource')
  BY <1>4 DEF Refresh
<1>6. Limited(byLocator')
  <2>1. /\ DOMAIN byLocator' \subseteq DOMAIN byLocator
        /\ \A l \in DOMAIN byLocator' : byLocator'[l].source = byLocator[l].source
    BY <1>0, <1>3, PruneCoherent
  <2>2. DOMAIN byLocator \subseteq Locators /\ Limited(byLocator)
    BY <1>0 DEF IInv, Coherent
  <2> QED BY <2>1, <2>2, LimitedSmaller
<1>7. ActiveIffAvailable'
  <2>1. \A l \in Kept : byLocator[l].owner \in Peers /\ l \in DOMAIN byLocator
    BY <1>0, PruneCoherent DEF Coherent
  <2>2. DOMAIN byLocator' = Kept
    BY <1>3
  <2>3. ASSUME NEW l \in Kept
        PROVE  byLocator'[l].state = "Active"
                 <=> IsAvailable(byLocator'[l].owner, reservations', connections')
    <3>1. CASE byLocator[l].owner = p
      BY <1>3, <3>1
    <3>2. CASE byLocator[l].owner # p
      <4>1. byLocator[l].state = "Active"
              <=> IsAvailable(byLocator[l].owner, reservations, connections)
        BY <2>1 DEF ActiveIffAvailable, IInv
      <4>2. byLocator[l].owner \in Peers \ {p} /\ byLocator'[l] = byLocator[l]
        BY <1>3, <2>1, <3>2
      <4> QED BY <4>1, <4>2
    <3> QED BY <3>1, <3>2
  <2> QED BY <2>2, <2>3 DEF ActiveIffAvailable
<1> QED BY <1>5, <1>6, <1>7

\* The step for a release of the caller's own mapping.
LEMMA RemoveStep ==
    ASSUME IInv, NEW p \in DOMAIN PrunedByOwner, Remove(byOwner[p]),
           UNCHANGED <<reservations, connections>>
    PROVE  /\ Coherent(byLocator', byOwner', bySource')
           /\ Limited(byLocator')
           /\ ActiveIffAvailable'
<1> DEFINE l == byOwner[p]
<1>0. Coherent(byLocator, byOwner, bySource)
  BY DEF IInv
<1>1. Coherent(PrunedByLocator, PrunedByOwner, PrunedBySource)
  BY <1>0, PruneCoherent
<1>2. l \in DOMAIN PrunedByLocator /\ PrunedByLocator[l] = byLocator[l]
  BY <1>0, <1>1, PruneCoherent DEF Coherent
<1> HIDE DEF l
<1>3. /\ byLocator' = Keep(PrunedByLocator, DOMAIN PrunedByLocator \ {l})
      /\ byOwner' = Keep(PrunedByOwner, DOMAIN PrunedByOwner \ {PrunedByLocator[l].owner})
      /\ bySource' = [PrunedBySource EXCEPT ![PrunedByLocator[l].source] = @ - 1]
  BY <1>0, <1>2, PruneCoherent DEF Remove, l
<1>4. Coherent(byLocator', byOwner', bySource')
  BY <1>1, <1>2, <1>3, RemoveCoherent
<1>5. /\ DOMAIN byLocator' \subseteq DOMAIN byLocator
      /\ \A k \in DOMAIN byLocator' : byLocator'[k] = byLocator[k]
  BY <1>0, <1>3, PruneCoherent DEF Keep
<1>6. Limited(byLocator')
  <2>1. DOMAIN byLocator \subseteq Locators /\ Limited(byLocator)
    BY <1>0 DEF IInv, Coherent
  <2> QED BY <1>5, <2>1, LimitedSmaller
<1>7. ActiveIffAvailable'
  BY <1>5 DEF ActiveIffAvailable, IInv, IsAvailable
<1> QED BY <1>4, <1>6, <1>7

\* The passage of time.
LEMMA TickStep ==
    ASSUME IInv, Tick
    PROVE  /\ Coherent(byLocator', byOwner', bySource')
           /\ Limited(byLocator')
           /\ ActiveIffAvailable'
<1>0. Coherent(byLocator, byOwner, bySource)
  BY DEF IInv
<1>1. ASSUME NEW l \in DOMAIN byLocator
      PROVE  /\ byLocator'[l] \in Mapping
             /\ byLocator'[l].owner = byLocator[l].owner
             /\ byLocator'[l].source = byLocator[l].source
             /\ byLocator'[l].state = byLocator[l].state
  <2>1. byLocator[l] \in Mapping
    BY <1>0 DEF Coherent
  <2>2. CASE byLocator[l].state = "Suspended" /\ byLocator[l].age < Grace
    <3>1. byLocator'[l] = InState(byLocator[l], "Suspended", byLocator[l].age + 1)
      BY <2>2 DEF Tick
    <3>2. byLocator[l].age + 1 \in 0..Grace
      BY <2>1, <2>2, RegistryAssumption DEF Mapping
    <3> HIDE DEF Mapping
    <3> QED BY <2>1, <2>2, <3>1, <3>2, InStateMapping
  <2>3. CASE ~(byLocator[l].state = "Suspended" /\ byLocator[l].age < Grace)
    BY <2>1, <2>3 DEF Tick
  <2> QED BY <2>2, <2>3
<1>2. DOMAIN byLocator' = DOMAIN byLocator /\ byLocator' \in [DOMAIN byLocator -> Mapping]
  <2>1. byLocator' = [l \in DOMAIN byLocator |-> byLocator'[l]]
    BY DEF Tick
  <2> QED BY <1>1, <2>1
<1>3. Coherent(byLocator', byOwner, bySource)
  BY <1>0, <1>1, <1>2, RewriteCoherent
<1>4. Coherent(byLocator', byOwner', bySource')
  BY <1>3 DEF Tick
<1>5. Limited(byLocator')
  <2>1. DOMAIN byLocator \subseteq Locators /\ Limited(byLocator)
    BY <1>0 DEF IInv, Coherent
  <2> QED BY <1>1, <1>2, <2>1, LimitedSmaller
<1>6. ActiveIffAvailable'
  BY <1>1, <1>2 DEF ActiveIffAvailable, IInv, IsAvailable, Tick
<1> QED BY <1>4, <1>5, <1>6

\* A resolve that answers Resolved names an available owner.
LEMMA ResolveReply ==
    ASSUME IInv, NEW l \in Locators, Resolve(l)
    PROVE  reply' \in Replies /\ ResolvedIsReachable'
<1>0. Coherent(byLocator, byOwner, bySource)
  BY DEF IInv
<1>1. CASE reply'.result = "Resolved"
  <2>1. /\ l \in Kept /\ byLocator[l].state = "Active"
        /\ reply' = [op |-> "resolve", result |-> "Resolved", locator |-> l,
                     peer |-> byLocator[l].owner]
    BY <1>1 DEF Resolve
  <2>2. /\ byLocator[l].owner \in Peers
        /\ byLocator[l].owner \in DOMAIN PrunedByOwner
        /\ PrunedByOwner[byLocator[l].owner] = l
    BY <1>0, <2>1, PruneCoherent DEF Coherent
  <2>3. IsAvailable(byLocator[l].owner, reservations, connections)
    BY <1>0, <2>1, PruneCoherent DEF IInv, ActiveIffAvailable
  <2>4. byOwner' = PrunedByOwner /\ UNCHANGED <<reservations, connections>>
    BY DEF Resolve, Prune
  <2> QED BY <2>1, <2>2, <2>3, <2>4 DEF Replies, ResolvedIsReachable, IsAvailable
<1>2. CASE reply'.result # "Resolved"
  BY <1>2 DEF Resolve, Replies, ResolvedIsReachable
<1> QED BY <1>1, <1>2

\* IInv holds initially.
LEMMA InitIInv == ASSUME Init PROVE IInv
<1>1. /\ DOMAIN byLocator = {} /\ byLocator \in [{} -> Mapping]
      /\ DOMAIN byOwner = {} /\ byOwner \in [{} -> Locators]
  BY DEF Init
<1>2. Cardinality({}) = 0
  BY FS_EmptySet
<1>3. \A s \in Sources : ChargedTo(byLocator, s) = {}
  BY <1>1 DEF ChargedTo
<1>4. Coherent(byLocator, byOwner, bySource) /\ Limited(byLocator)
  <2>1. /\ Cardinality(DOMAIN byLocator) = 0
        /\ \A s \in Sources : Cardinality(ChargedTo(byLocator, s)) = 0
    BY <1>1, <1>2, <1>3
  <2> QED BY <1>1, <2>1, RegistryAssumption DEF Coherent, Limited, Init
<1>5. reply \in Replies /\ ResolvedIsReachable
  BY DEF Init, NoReply, Replies, ResolvedIsReachable
<1> QED BY <1>1, <1>4, <1>5 DEF IInv, Init, ActiveIffAvailable

\* IInv is preserved by every method and by the clock.
LEMMA NextIInv == ASSUME IInv, [Next]_regVars PROVE IInv'
<1>0. Coherent(byLocator, byOwner, bySource)
  BY DEF IInv
<1>1. ASSUME NEW p \in Peers, NEW b \in BOOLEAN, SetReservation(p, b)
      PROVE  IInv'
  <2>1. \A q \in Peers \ {p} : IsAvailable(q, reservations', connections')
                                <=> IsAvailable(q, reservations, connections)
    BY <1>1 DEF SetReservation, IsAvailable
  <2>2. IsAvailable(p, reservations', connections) \in BOOLEAN
        /\ connections' = connections
    BY <1>1 DEF SetReservation, IsAvailable
  <2>3. Refresh(p, IsAvailable(p, reservations', connections))
    BY <1>1 DEF SetReservation
  <2>4. /\ Coherent(byLocator', byOwner', bySource') /\ Limited(byLocator')
        /\ ActiveIffAvailable'
    BY <2>1, <2>2, <2>3, RefreshStep
  <2>5. /\ reservations' \subseteq Peers /\ connections' \subseteq Peers
        /\ reply' \in Replies /\ ResolvedIsReachable'
    BY <1>1 DEF SetReservation, NoReply, Replies, ResolvedIsReachable, IInv
  <2> QED BY <2>4, <2>5 DEF IInv
<1>2. ASSUME NEW p \in Peers, NEW b \in BOOLEAN, SetConnection(p, b)
      PROVE  IInv'
  <2>1. \A q \in Peers \ {p} : IsAvailable(q, reservations', connections')
                                <=> IsAvailable(q, reservations, connections)
    BY <1>2 DEF SetConnection, IsAvailable
  <2>2. IsAvailable(p, reservations, connections') \in BOOLEAN
        /\ reservations' = reservations
    BY <1>2 DEF SetConnection, IsAvailable
  <2>3. Refresh(p, IsAvailable(p, reservations, connections'))
    BY <1>2 DEF SetConnection
  <2>4. /\ Coherent(byLocator', byOwner', bySource') /\ Limited(byLocator')
        /\ ActiveIffAvailable'
    BY <2>1, <2>2, <2>3, RefreshStep
  <2>5. /\ reservations' \subseteq Peers /\ connections' \subseteq Peers
        /\ reply' \in Replies /\ ResolvedIsReachable'
    BY <1>2 DEF SetConnection, NoReply, Replies, ResolvedIsReachable, IInv
  <2> QED BY <2>4, <2>5 DEF IInv
<1>3. ASSUME NEW p \in Peers, NEW s \in Sources, Allocate(p, s)
      PROVE  IInv'
  <2>1. reservations' = reservations /\ connections' = connections
    BY <1>3 DEF Allocate
  <2>2. /\ Coherent(byLocator', byOwner', bySource') /\ Limited(byLocator')
        /\ ActiveIffAvailable'
    <3>1. CASE Prune
      BY <2>1, <3>1, PruneStep
    <3>2. CASE /\ IsAvailable(p, reservations, connections)
               /\ p \notin DOMAIN PrunedByOwner /\ HasCapacity(s)
               /\ \E l \in Locators \ Kept : Insert(l, p, s)
      BY <2>1, <3>2, InsertStep
    <3> QED BY <1>3, <3>1, <3>2 DEF Allocate, Refuse
  <2>3. reply' \in Replies /\ ResolvedIsReachable'
    <3>1. p \in DOMAIN PrunedByOwner => byOwner[p] \in Locators
      BY <1>0, PruneCoherent DEF Coherent
    <3> QED BY <1>3, <3>1 DEF Allocate, Refuse, Answer, Acquired, Replies, ResolvedIsReachable
  <2> QED BY <2>1, <2>2, <2>3 DEF IInv
<1>4. ASSUME NEW p \in Peers, NEW s \in Sources, NEW l \in Locators, Reclaim(p, s, l)
      PROVE  IInv'
  <2>1. reservations' = reservations /\ connections' = connections
    BY <1>4 DEF Reclaim
  <2>2. /\ Coherent(byLocator', byOwner', bySource') /\ Limited(byLocator')
        /\ ActiveIffAvailable'
    <3>1. CASE Prune
      BY <2>1, <3>1, PruneStep
    <3>2. CASE /\ IsAvailable(p, reservations, connections)
               /\ p \notin DOMAIN PrunedByOwner /\ l \notin Kept
               /\ HasCapacity(s) /\ Insert(l, p, s)
      BY <2>1, <3>2, InsertStep
    <3> QED BY <1>4, <3>1, <3>2 DEF Reclaim, Refuse
  <2>3. reply' \in Replies /\ ResolvedIsReachable'
    BY <1>4 DEF Reclaim, Refuse, Answer, Acquired, Replies, ResolvedIsReachable
  <2> QED BY <2>1, <2>2, <2>3 DEF IInv
<1>5. ASSUME NEW p \in Peers, NEW l \in Locators, Release(p, l)
      PROVE  IInv'
  <2>1. reservations' = reservations /\ connections' = connections
    BY <1>5 DEF Release
  <2>2. /\ Coherent(byLocator', byOwner', bySource') /\ Limited(byLocator')
        /\ ActiveIffAvailable'
    <3>1. CASE Prune
      BY <2>1, <3>1, PruneStep
    <3>2. CASE p \in DOMAIN PrunedByOwner /\ byOwner[p] = l /\ Remove(l)
      BY <2>1, <3>2, RemoveStep
    <3> QED BY <1>5, <3>1, <3>2 DEF Release
  <2>3. reply' \in Replies /\ ResolvedIsReachable'
    BY <1>5 DEF Release, Answer, Replies, ResolvedIsReachable
  <2> QED BY <2>1, <2>2, <2>3 DEF IInv
<1>6. ASSUME NEW l \in Locators, Resolve(l)
      PROVE  IInv'
  <2>1. reservations' = reservations /\ connections' = connections /\ Prune
    BY <1>6 DEF Resolve
  <2> QED BY <1>6, <2>1, PruneStep, ResolveReply DEF IInv
<1>7. ASSUME Tick
      PROVE  IInv'
  <2>1. reservations' = reservations /\ connections' = connections
        /\ reply' \in Replies /\ ResolvedIsReachable'
    BY <1>7 DEF Tick, NoReply, Replies, ResolvedIsReachable
  <2> QED BY <1>7, <2>1, TickStep DEF IInv
<1>8. CASE UNCHANGED regVars
  BY <1>8 DEF IInv, regVars, ActiveIffAvailable, ResolvedIsReachable, IsAvailable
<1> QED BY <1>1, <1>2, <1>3, <1>4, <1>5, <1>6, <1>7, <1>8 DEF Next

\* The registry's tables stay well typed in every behaviour.
THEOREM RegistryTypeOK == Spec => []TypeOK
<1>1. IInv => TypeOK
  BY DEF IInv, TypeOK, Coherent
<1> QED BY <1>1, InitIInv, NextIInv, PTL DEF Spec

\* The indexes of the registry are inverse to each other and its quota counts
\* exact in every behaviour, for any number of peers, sources and locators.
THEOREM RegistryIndexes == Spec => []IndexesAgree
<1>1. IInv => IndexesAgree
  BY DEF IInv, IndexesAgree, OwnersAgree, SourceCountsExact, Coherent
<1> QED BY <1>1, InitIInv, NextIInv, PTL DEF Spec

\* A locator is Active exactly while its owner is reachable, and the limits
\* are never exceeded.
THEOREM RegistryAvailability == Spec => [](ActiveIffAvailable /\ WithinLimits)
<1>1. IInv => ActiveIffAvailable /\ WithinLimits
  BY DEF IInv, WithinLimits, Limited
<1> QED BY <1>1, InitIInv, NextIInv, PTL DEF Spec

\* A Resolved answer always names a reachable owner of the locator.
THEOREM RegistryResolves == Spec => []ResolvedIsReachable
<1>1. IInv => ResolvedIsReachable
  BY DEF IInv
<1> QED BY <1>1, InitIInv, NextIInv, PTL DEF Spec

\* What one step may do to the mapping of l.
HeldOrEnded(l) ==
    \/ /\ l \in DOMAIN byLocator'
       /\ byLocator'[l].owner = byLocator[l].owner
       /\ byLocator'[l].source = byLocator[l].source
       /\ \/ byLocator[l].state = "Active"
          \/ byLocator'[l].state = "Active"
          \/ byLocator'[l].age >= byLocator[l].age
    \/ byLocator[l].state = "Suspended" /\ byLocator[l].age >= Grace
    \/ reply'.op = "release" /\ reply'.peer = byLocator[l].owner

\* No step takes a locator from a host that neither released it nor has been
\* suspended for the whole grace period.
LEMMA HeldStep ==
    ASSUME IInv, [Next]_regVars, NEW l \in DOMAIN byLocator
    PROVE  HeldOrEnded(l)
<1>0. Coherent(byLocator, byOwner, bySource) /\ byLocator[l] \in Mapping
  BY DEF IInv, Coherent
<1>a. byLocator[l].age \in 0..Grace /\ byLocator[l].state \in {"Active", "Suspended"}
  BY <1>0 DEF Mapping
<1>b. byLocator[l].age \in Int
  BY <1>a
<1>c. byLocator[l].age >= byLocator[l].age
  BY <1>b
<1>1. CASE l \in Expired
  BY <1>1 DEF HeldOrEnded, Expired
<1>2. CASE l \notin Expired /\ [Next]_regVars
  <2>0. l \in Kept /\ PrunedByLocator[l] = byLocator[l] /\ DOMAIN PrunedByLocator = Kept
    BY <1>0, <1>2, PruneCoherent DEF Kept
  <2>1. CASE l \in DOMAIN byLocator' /\ byLocator'[l] = byLocator[l]
    BY <2>1, <1>c DEF HeldOrEnded
  <2>2. ASSUME Prune PROVE HeldOrEnded(l)
    BY <2>0, <2>2, <2>1 DEF Prune
  <2>3. ASSUME NEW k \in Locators \ Kept, NEW p \in Peers, NEW s \in Sources, Insert(k, p, s)
        PROVE  HeldOrEnded(l)
    <3>1. byLocator' = Put(PrunedByLocator, k, [owner |-> p, source |-> s,
                                                state |-> "Active", age |-> 0])
      BY <2>3 DEF Insert
    <3>2. k # l
      BY <2>0
    <3>3. l \in DOMAIN byLocator' /\ byLocator'[l] = byLocator[l]
      BY <2>0, <3>1, <3>2 DEF Put
    <3> QED BY <2>1, <3>3
  <2>4. ASSUME NEW p \in Peers, NEW b \in BOOLEAN, Refresh(p, b)
        PROVE  HeldOrEnded(l)
    <3>1. \A m : Refreshed(m, b) = m \/ \E st, a : Refreshed(m, b) = InState(m, st, a)
      BY DEF Refreshed
    <3>2. /\ Refreshed(byLocator[l], b).owner = byLocator[l].owner
          /\ Refreshed(byLocator[l], b).source = byLocator[l].source
      BY <3>1 DEF InState
    <3>3. l \in DOMAIN byLocator' /\ byLocator'[l] \in {byLocator[l], Refreshed(byLocator[l], b)}
      BY <2>0, <2>4 DEF Refresh
    <3>4. CASE byLocator'[l] = byLocator[l]
      BY <2>1, <3>3, <3>4
    <3>5. CASE byLocator'[l] = Refreshed(byLocator[l], b)
      <4>1. \/ byLocator[l].state = "Active"
            \/ Refreshed(byLocator[l], b).state = "Active"
            \/ Refreshed(byLocator[l], b) = byLocator[l]
        BY <1>a DEF Refreshed, InState
      <4> QED BY <3>2, <3>3, <3>5, <4>1, <1>c DEF HeldOrEnded
    <3> QED BY <3>3, <3>4, <3>5
  <2>5. ASSUME NEW p \in Peers, NEW b \in BOOLEAN, SetReservation(p, b) \/ SetConnection(p, b)
        PROVE  HeldOrEnded(l)
    <3>1. \E c \in BOOLEAN : Refresh(p, c)
      BY <2>5 DEF SetReservation, SetConnection, IsAvailable
    <3> QED BY <2>4, <3>1
  <2>6. ASSUME NEW p \in Peers, NEW s \in Sources, Allocate(p, s)
        PROVE  HeldOrEnded(l)
    BY <2>2, <2>3, <2>6 DEF Allocate, Refuse
  <2>7. ASSUME NEW p \in Peers, NEW s \in Sources, NEW k \in Locators, Reclaim(p, s, k)
        PROVE  HeldOrEnded(l)
    BY <2>2, <2>3, <2>7 DEF Reclaim, Refuse
  <2>8. ASSUME NEW p \in Peers, NEW k \in Locators, Release(p, k)
        PROVE  HeldOrEnded(l)
    <3>1. CASE p \in DOMAIN PrunedByOwner /\ byOwner[p] = k /\ Remove(k)
      <4>1. CASE k = l
        <5>1. byLocator[l].owner = p
          BY <1>0, <3>1, <4>1, PruneCoherent DEF Coherent
        <5> QED BY <2>8, <5>1 DEF Release, Answer, HeldOrEnded
      <4>2. CASE k # l
        <5>1. l \in DOMAIN byLocator' /\ byLocator'[l] = byLocator[l]
          BY <2>0, <3>1, <4>2 DEF Remove, Keep
        <5> QED BY <2>1, <5>1
      <4> QED BY <4>1, <4>2
    <3> QED BY <2>2, <2>8, <3>1 DEF Release
  <2>9. ASSUME NEW k \in Locators, Resolve(k)
        PROVE  HeldOrEnded(l)
    BY <2>2, <2>9 DEF Resolve
  <2>10. ASSUME Tick PROVE HeldOrEnded(l)
    <3>1. l \in DOMAIN byLocator' /\ byLocator'[l] \in
            {byLocator[l], InState(byLocator[l], "Suspended", byLocator[l].age + 1)}
      BY <2>10 DEF Tick
    <3>2. byLocator[l].age + 1 >= byLocator[l].age
      BY <1>b
    <3>3. CASE byLocator'[l] = InState(byLocator[l], "Suspended", byLocator[l].age + 1)
      BY <3>1, <3>2, <3>3 DEF InState, HeldOrEnded
    <3> QED BY <2>1, <3>1, <3>3
  <2>11. CASE UNCHANGED regVars
    BY <2>1, <2>11 DEF regVars
  <2> QED BY <1>2, <2>5, <2>6, <2>7, <2>8, <2>9, <2>10, <2>11 DEF Next
<1> QED BY <1>1, <1>2

\* A host keeps its locator until it releases it or has been unreachable for
\* the whole grace period.
THEOREM RegistryHolds == Spec => LocatorHeldUntilReleaseOrGrace
<1>1. IInv /\ [Next]_regVars => [\A l \in DOMAIN byLocator : HeldOrEnded(l)]_regVars
  BY HeldStep
<1> QED BY <1>1, InitIInv, NextIInv, PTL DEF Spec, LocatorHeldUntilReleaseOrGrace, HeldOrEnded

-----------------------------------------------------------------------------
(***************************************************************************)
(* 2. RelayService                                                         *)
(*                                                                         *)
(* The invariant follows a connection (in the swarm, in the roster, being  *)
(* closed) and a call (queued, with or without its task waiting for it).   *)
(***************************************************************************)

Stages == Holding \cup {"done"}
Tasks == {NoTask} \cup [stage: Stages, conn: Conns, rejects: BOOLEAN]
Calls == [peer: Peers, conn: Conns, request: Requests, awaited: BOOLEAN]

SvcTypes ==
    /\ live \in [Peers -> SUBSET Conns]
    /\ book \in [Peers -> SUBSET Conns]
    /\ rejected \subseteq Peers
    /\ exchange \in [Peers -> Tasks]
    /\ calls \in Seq(Calls)

\* A connection belongs to one peer and is on its roster or being closed.
Rostered ==
    /\ \A p \in Peers : book[p] \subseteq live[p] /\ live[p] \subseteq book[p] \cup closing
    /\ \A p, q \in Peers : p # q => live[p] \cap live[q] = {}

\* A task belongs to a peer in registry_active, and a refusal is answered on
\* a connection of the roster.
TasksActive ==
    \A p \in Peers : exchange[p] # NoTask =>
        /\ p \in active
        /\ exchange[p].rejects /\ exchange[p].conn \in live[p] => exchange[p].conn \in book[p]

\* A call somebody waits for is the only one of a task that waits.
CallsAwaited ==
    \A i \in 1..Len(calls) : calls[i].awaited =>
        /\ exchange[calls[i].peer].stage = "waiting"
        /\ \A j \in 1..Len(calls) : calls[j].awaited /\ calls[j].peer = calls[i].peer => i = j

SvcInv == SvcTypes /\ Rostered /\ TasksActive /\ CallsAwaited /\ RejectionDrains

-----------------------------------------------------------------------------
(* Facts about tasks and calls *)

\* A record is a task exactly when it is not NoTask.
LEMMA TaskFacts ==
    /\ NoTask.stage = "none"
    /\ \A t \in Tasks : t # NoTask <=> t.stage \in Stages
    /\ \A t \in Tasks : t # NoTask => t \in [stage: Stages, conn: Conns, rejects: BOOLEAN]
    /\ \A st \in Stages, c \in Conns, b \in BOOLEAN :
          /\ Task(st, c, b) \in Tasks /\ Task(st, c, b) # NoTask
          /\ Task(st, c, b).stage = st /\ Task(st, c, b).conn = c /\ Task(st, c, b).rejects = b
  BY DEF NoTask, Tasks, Task, Stages, Holding

\* A task that only moves to another stage.
LEMMA StageMoves ==
    ASSUME SvcTypes, NEW p \in Peers, NEW st \in Stages, exchange[p].stage \in Stages
    PROVE  LET x == [exchange EXCEPT ![p].stage = st]
           IN /\ x \in [Peers -> Tasks]
              /\ x[p].stage = st /\ x[p] # NoTask
              /\ x[p].conn = exchange[p].conn /\ x[p].rejects = exchange[p].rejects
              /\ \A q \in Peers : q # p => x[q] = exchange[q]
  <1>1. exchange[p] \in [stage: Stages, conn: Conns, rejects: BOOLEAN]
    BY TaskFacts DEF SvcTypes
  <1>2. [exchange[p] EXCEPT !.stage = st] \in [stage: Stages, conn: Conns, rejects: BOOLEAN]
    BY <1>1
  <1>3. [exchange EXCEPT ![p].stage = st] = [exchange EXCEPT ![p] = [exchange[p] EXCEPT !.stage = st]]
    BY DEF SvcTypes
  <1> QED  BY <1>1, <1>2, <1>3, TaskFacts DEF SvcTypes, Tasks

\* Every queued call has a peer and the connection it came over.
LEMMA CallFacts ==
    ASSUME SvcTypes
    PROVE  /\ Len(calls) \in Nat
           /\ \A i \in 1..Len(calls) :
                 /\ calls[i] \in Calls /\ calls[i].peer \in Peers /\ calls[i].conn \in Conns
                 /\ calls[i].request \in Requests /\ calls[i].awaited \in BOOLEAN
  <1>1. Len(calls) \in Nat /\ \A i \in 1..Len(calls) : calls[i] \in Calls
    <2> HIDE DEF Calls
    <2> QED  BY DEF SvcTypes
  <1> QED  BY <1>1 DEF Calls

-----------------------------------------------------------------------------
(* Every step keeps the invariant *)

\* The relay starts without connections, tasks or calls.
LEMMA SvcInitInv == ASSUME SvcInit PROVE SvcInv
  <1>1. calls = <<>> /\ Len(calls) = 0 /\ calls \in Seq(Calls)
    BY DEF SvcInit
  <1>2. SvcTypes
    BY <1>1, TaskFacts DEF SvcInit, SvcTypes, Tasks
  <1>3. Rostered /\ TasksActive /\ CallsAwaited
    BY <1>1 DEF SvcInit, Rostered, TasksActive, CallsAwaited
  <1>4. RejectionDrains
    BY DEF SvcInit, RejectionDrains
  <1> QED  BY <1>2, <1>3, <1>4 DEF SvcInv

\* A step of the registry alone.
LEMMA QuietStep == ASSUME SvcInv, UNCHANGED svcVars PROVE SvcInv'
  BY DEF SvcInv, SvcTypes, Rostered, TasksActive, CallsAwaited, RejectionDrains, svcVars

\* A new connection is on the roster or closed at once.
LEMMA EstablishedStep ==
    ASSUME SvcInv, NEW p \in Peers, NEW c \in Conns, Established(p, c)
    PROVE  SvcInv'
  <1> USE DEF SvcInv
  <1>1. /\ live' = [live EXCEPT ![p] = @ \cup {c}]
        /\ book' = [book EXCEPT ![p] = Recorded(p, c)]
        /\ closing' = IF MustClose(p, c) THEN closing \cup {c} ELSE closing
        /\ UNCHANGED <<active, rejected, exchange, calls, running>>
    BY DEF Established
  <1>2. book[p] \subseteq Recorded(p, c) /\ Recorded(p, c) \subseteq book[p] \cup {c}
    BY DEF Recorded
  <1>3. /\ \A q \in Peers : c \notin live[q]
        /\ \A q \in Peers : exchange[q] # NoTask => exchange[q].conn # c
    BY DEF Established, Unused
  <1>4. /\ live'[p] = live[p] \cup {c} /\ book'[p] = Recorded(p, c)
        /\ \A q \in Peers : q # p => live'[q] = live[q] /\ book'[q] = book[q]
    BY <1>1 DEF SvcTypes
  <1>5. c \in book'[p] \/ c \in closing'
    BY <1>1, <1>4 DEF MustClose
  <1>6. SvcTypes'
    BY <1>1, <1>2 DEF SvcTypes
  <1>7. Rostered'
    BY <1>1, <1>2, <1>3, <1>4, <1>5 DEF Rostered
  <1>8. TasksActive'
    BY <1>1, <1>2, <1>3, <1>4 DEF TasksActive
  <1>9. CallsAwaited'
    BY <1>1 DEF CallsAwaited
  <1>10. RejectionDrains'
    BY <1>1, <1>2, <1>4, <1>6 DEF RejectionDrains, MustClose, SvcTypes
  <1> QED  BY <1>6, <1>7, <1>8, <1>9, <1>10

\* A closed connection leaves the swarm and the roster.
LEMMA ClosedStep ==
    ASSUME SvcInv, NEW p \in Peers, NEW c \in Conns, Closed(p, c)
    PROVE  SvcInv'
  <1> USE DEF SvcInv
  <1>1. /\ c \in live[p]
        /\ live' = [live EXCEPT ![p] = @ \ {c}]
        /\ book' = [book EXCEPT ![p] = @ \ {c}]
        /\ closing' = closing \ {c}
        /\ rejected' = IF p \notin active /\ book'[p] = {} THEN rejected \ {p} ELSE rejected
        /\ UNCHANGED <<active, exchange, calls, running>>
    BY DEF Closed
  <1>2. /\ live'[p] = live[p] \ {c} /\ book'[p] = book[p] \ {c}
        /\ \A q \in Peers : q # p => live'[q] = live[q] /\ book'[q] = book[q]
    BY <1>1 DEF SvcTypes
  <1>3. \A q \in Peers : q # p => c \notin live[q]
    BY <1>1 DEF Rostered
  <1>4. SvcTypes'
    BY <1>1 DEF SvcTypes
  <1>5. Rostered'
    BY <1>1, <1>2, <1>3 DEF Rostered
  <1>6. TasksActive'
    BY <1>1, <1>2 DEF TasksActive
  <1>7. CallsAwaited'
    BY <1>1 DEF CallsAwaited
  <1>8. RejectionDrains'
    BY <1>1, <1>2, <1>3, <1>4 DEF RejectionDrains, SvcTypes
  <1> QED  BY <1>4, <1>5, <1>6, <1>7, <1>8

\* An admitted peer has no task yet, and its new task refuses nothing.
LEMMA AdmitStep ==
    ASSUME SvcInv, NEW p \in Peers, Admit(p)
    PROVE  SvcInv'
  <1> USE DEF SvcInv
  <1> DEFINE c == CHOOSE x \in book[p] : TRUE
             task == Task("reading", c, FALSE)
  <1>1. /\ active' = active \cup {p}
        /\ exchange' = [exchange EXCEPT ![p] = task]
        /\ p \notin active /\ p \notin rejected /\ Cardinality(book[p]) = 1
        /\ UNCHANGED <<live, closing, book, rejected, calls, running>>
    BY DEF Admit, Servable
  <1>2. book[p] # {}
    BY <1>1, FS_EmptySet
  <1>3. c \in Conns
    BY <1>2 DEF SvcTypes
  <1>4. exchange[p] = NoTask
    BY <1>1 DEF TasksActive
  <1> HIDE DEF c
  <1>5. task \in Tasks /\ task # NoTask /\ task.stage = "reading" /\ task.rejects = FALSE
    <2>1. "reading" \in Stages /\ FALSE \in BOOLEAN
      BY DEF Stages, Holding
    <2> QED  BY <1>3, <2>1, TaskFacts
  <1> HIDE DEF task
  <1>6. exchange'[p] = task /\ \A q \in Peers : q # p => exchange'[q] = exchange[q]
    BY <1>1 DEF SvcTypes
  <1>7. SvcTypes'
    BY <1>1, <1>5 DEF SvcTypes
  <1>8. Rostered'
    BY <1>1 DEF Rostered
  <1>9. TasksActive'
    BY <1>1, <1>5, <1>6 DEF TasksActive
  <1>10. CallsAwaited'
    <2>1. \A i \in 1..Len(calls) : calls[i].peer \in Peers
      BY CallFacts
    <2>2. \A i \in 1..Len(calls) : calls[i].awaited => calls[i].peer # p
      BY <1>4, TaskFacts DEF CallsAwaited
    <2> QED  BY <1>1, <1>6, <2>1, <2>2 DEF CallsAwaited
  <1>11. RejectionDrains'
    BY <1>1, <1>6 DEF RejectionDrains, SvcTypes
  <1> QED  BY <1>7, <1>8, <1>9, <1>10, <1>11

\* A task that moves on without touching calls; a waiting task keeps waiting.
LEMMA StageStep ==
    ASSUME SvcInv, NEW p \in Peers, NEW st \in Stages,
           exchange[p].stage \in Stages,
           exchange[p].stage # "waiting",
           exchange[p].stage \in {"writing", "draining", "done"}
               => st \in {"writing", "draining", "done"},
           exchange' = [exchange EXCEPT ![p].stage = st],
           UNCHANGED <<live, closing, book, active, rejected, calls, running>>
    PROVE  SvcInv'
  <1> USE DEF SvcInv
  <1>1. /\ exchange' \in [Peers -> Tasks]
        /\ exchange'[p].stage = st /\ exchange'[p] # NoTask /\ exchange[p] # NoTask
        /\ exchange'[p].conn = exchange[p].conn /\ exchange'[p].rejects = exchange[p].rejects
        /\ \A q \in Peers : q # p => exchange'[q] = exchange[q]
    BY StageMoves, TaskFacts DEF SvcTypes
  <1>2. SvcTypes'
    BY <1>1 DEF SvcTypes
  <1>3. Rostered'
    BY DEF Rostered
  <1>4. TasksActive'
    BY <1>1 DEF TasksActive
  <1>5. CallsAwaited'
    BY <1>1, CallFacts DEF CallsAwaited
  <1>6. RejectionDrains'
    BY <1>1 DEF RejectionDrains, SvcTypes
  <1> QED  BY <1>2, <1>3, <1>4, <1>5, <1>6

\* A task that reads has no call in the channel that anybody waits for.
LEMMA SendCallStep ==
    ASSUME SvcInv, NEW p \in Peers, NEW request \in Requests, SendCall(p, request)
    PROVE  SvcInv'
  <1> USE DEF SvcInv
  <1> DEFINE call == [peer |-> p, conn |-> exchange[p].conn, request |-> request, awaited |-> TRUE]
  <1>1. /\ exchange[p].stage = "reading"
        /\ calls' = Append(calls, call)
        /\ exchange' = [exchange EXCEPT ![p].stage = "waiting"]
        /\ UNCHANGED <<live, closing, book, active, rejected, running>>
    BY DEF SendCall
  <1>2. "reading" \in Stages /\ "waiting" \in Stages
    BY DEF Stages, Holding
  <1>3. /\ exchange' \in [Peers -> Tasks]
        /\ exchange'[p].stage = "waiting" /\ exchange'[p] # NoTask /\ exchange[p] # NoTask
        /\ exchange'[p].conn = exchange[p].conn /\ exchange'[p].rejects = exchange[p].rejects
        /\ \A q \in Peers : q # p => exchange'[q] = exchange[q]
    BY <1>1, <1>2, StageMoves, TaskFacts DEF SvcTypes
  <1>4. exchange[p].conn \in Conns
    BY <1>3, TaskFacts DEF SvcTypes
  <1>5. call \in Calls /\ call.peer = p /\ call.awaited
    BY <1>4 DEF Calls
  <1> HIDE DEF call, Calls
  <1>6. /\ calls' \in Seq(Calls) /\ Len(calls) \in Nat /\ Len(calls') = Len(calls) + 1
        /\ calls'[Len(calls) + 1] = call
        /\ \A i \in 1..Len(calls) : calls'[i] = calls[i]
    BY <1>1, <1>5 DEF SvcTypes
  <1>7. SvcTypes'
    BY <1>1, <1>3, <1>6 DEF SvcTypes
  <1>8. Rostered'
    BY <1>1 DEF Rostered
  <1>9. TasksActive'
    BY <1>1, <1>3 DEF TasksActive
  <1>10. CallsAwaited'
    <2>1. \A i \in 1..Len(calls) : calls[i].peer \in Peers
                                   /\ (calls[i].awaited => calls[i].peer # p)
      BY <1>1, CallFacts DEF CallsAwaited
    <2>2. \A i \in 1..Len(calls') : i \in 1..Len(calls) \/ i = Len(calls) + 1
      BY <1>6
    <2>3. \A i \in 1..Len(calls) : i # Len(calls) + 1
      BY <1>6
    <2>4. ASSUME NEW i \in 1..Len(calls'), calls'[i].awaited
          PROVE  /\ exchange'[calls'[i].peer].stage = "waiting"
                 /\ \A j \in 1..Len(calls') :
                       calls'[j].awaited /\ calls'[j].peer = calls'[i].peer => i = j
      <3>1. CASE i = Len(calls) + 1
        BY <1>3, <1>5, <1>6, <2>1, <2>2, <3>1
      <3>2. CASE i \in 1..Len(calls)
        BY <1>3, <1>5, <1>6, <2>1, <2>2, <2>4, <3>2 DEF CallsAwaited
      <3> QED  BY <2>2, <3>1, <3>2
    <2> QED  BY <2>4 DEF CallsAwaited
  <1>11. RejectionDrains'
    BY <1>1, <1>3 DEF RejectionDrains, SvcTypes
  <1> QED  BY <1>7, <1>8, <1>9, <1>10, <1>11

\* An exchange that fails leaves its call in the channel, unheard.
LEMMA ExchangeFailsStep ==
    ASSUME SvcInv, NEW p \in Peers, ExchangeFails(p)
    PROVE  SvcInv'
  <1> USE DEF SvcInv
  <1>1. /\ exchange[p].stage \in Timed
        /\ exchange' = [exchange EXCEPT ![p].stage = "done"]
        /\ calls' = [i \in 1..Len(calls) |->
                        IF calls[i].peer = p THEN [calls[i] EXCEPT !.awaited = FALSE] ELSE calls[i]]
        /\ UNCHANGED <<live, closing, book, active, rejected, running>>
    BY DEF ExchangeFails
  <1>2. exchange[p].stage \in Stages /\ "done" \in Stages
    BY <1>1 DEF Stages, Holding, Timed
  <1>3. /\ exchange' \in [Peers -> Tasks]
        /\ exchange'[p].stage = "done" /\ exchange'[p] # NoTask /\ exchange[p] # NoTask
        /\ exchange'[p].conn = exchange[p].conn /\ exchange'[p].rejects = exchange[p].rejects
        /\ \A q \in Peers : q # p => exchange'[q] = exchange[q]
    BY <1>1, <1>2, StageMoves, TaskFacts DEF SvcTypes
  <1>4. ASSUME NEW i \in 1..Len(calls)
        PROVE  /\ calls'[i] \in Calls /\ calls'[i].peer = calls[i].peer
               /\ calls'[i].awaited <=> calls[i].awaited /\ calls[i].peer # p
    <2>1. calls[i] \in Calls
      BY CallFacts
    <2>2. calls'[i] = IF calls[i].peer = p THEN [calls[i] EXCEPT !.awaited = FALSE] ELSE calls[i]
      BY <1>1
    <2> QED  BY <2>1, <2>2 DEF Calls
  <1>5. calls' \in Seq(Calls) /\ Len(calls') = Len(calls)
    <2> HIDE DEF Calls
    <2>1. Len(calls) \in Nat
      BY CallFacts
    <2>2. calls' \in [1..Len(calls) -> Calls]
      <3>1. calls' = [i \in 1..Len(calls) |-> calls'[i]]
        BY <1>1
      <3> QED  BY <1>4, <3>1
    <2> QED  BY <2>1, <2>2
  <1>6. SvcTypes'
    BY <1>1, <1>3, <1>5 DEF SvcTypes
  <1>7. Rostered'
    BY <1>1 DEF Rostered
  <1>8. TasksActive'
    BY <1>1, <1>3 DEF TasksActive
  <1>9. CallsAwaited'
    BY <1>3, <1>4, <1>5, CallFacts DEF CallsAwaited
  <1>10. RejectionDrains'
    BY <1>1, <1>3 DEF RejectionDrains, SvcTypes
  <1> QED  BY <1>6, <1>7, <1>8, <1>9, <1>10

\* What is left in the channel after its head.
LEMMA TailFacts ==
    ASSUME SvcTypes, calls # <<>>
    PROVE  /\ 1 \in 1..Len(calls) /\ Head(calls) = calls[1]
           /\ Tail(calls) \in Seq(Calls)
           /\ \A i \in 1..Len(Tail(calls)) : i + 1 \in 1..Len(calls) /\ Tail(calls)[i] = calls[i + 1]
  <1> HIDE DEF Calls
  <1>1. calls \in Seq(Calls)
    BY DEF SvcTypes
  <1>2. Len(calls) \in Nat /\ Len(calls) # 0
    BY <1>1
  <1>3. Len(Tail(calls)) = Len(calls) - 1 /\ Tail(calls) \in Seq(Calls)
    BY <1>1, <1>2
  <1> QED  BY <1>1, <1>2, <1>3

\* A decision goes to the task that waits for it, or ends the peer at once.
LEMMA DeliverStep ==
    ASSUME SvcInv, calls # <<>>, NEW rejects \in BOOLEAN,
           rejects => book[Head(calls).peer] = {Head(calls).conn},
           Deliver(Head(calls), rejects)
    PROVE  SvcInv'
  <1> USE DEF SvcInv
  <1> DEFINE call == Head(calls)
             p == call.peer
             task == Task("writing", call.conn, rejects)
  <1>1. /\ calls' = Tail(calls)
        /\ rejected' = IF rejects THEN rejected \cup {p} ELSE rejected
        /\ exchange' = IF call.awaited THEN [exchange EXCEPT ![p] = task] ELSE exchange
        /\ closing' = IF rejects /\ ~call.awaited THEN closing \cup book[p] ELSE closing
        /\ UNCHANGED <<live, book, active, running>>
    BY DEF Deliver, ClosedUnheard, CloseAll
  <1>2. /\ 1 \in 1..Len(calls) /\ call = calls[1]
        /\ calls' \in Seq(Calls)
        /\ \A i \in 1..Len(calls') : i + 1 \in 1..Len(calls) /\ calls'[i] = calls[i + 1]
    BY <1>1, TailFacts
  <1>3. p \in Peers /\ call.conn \in Conns /\ call.awaited \in BOOLEAN
    BY <1>2, CallFacts
  <1>4. task \in Tasks /\ task # NoTask /\ task.stage = "writing"
        /\ task.conn = call.conn /\ task.rejects = rejects
    <2>1. "writing" \in Stages
      BY DEF Stages, Holding
    <2> QED  BY <1>3, <2>1, TaskFacts
  <1>5. call.awaited => /\ exchange[p].stage = "waiting" /\ exchange[p] # NoTask
                        /\ \A j \in 1..Len(calls) : calls[j].awaited /\ calls[j].peer = p => j = 1
    BY <1>2, TaskFacts DEF CallsAwaited
  <1>6. rejects => book[p] = {call.conn}
    OBVIOUS
  <1>7. Len(calls') \in Nat
    <2> HIDE DEF Calls
    <2> QED  BY <1>2
  <1> HIDE DEF call, p, task
  <1>8. \A q \in Peers : q # p => exchange'[q] = exchange[q]
    BY <1>1, <1>3 DEF SvcTypes
  <1>9. exchange'[p] = IF call.awaited THEN task ELSE exchange[p]
    BY <1>1, <1>3 DEF SvcTypes
  <1>10. SvcTypes'
    BY <1>1, <1>2, <1>3, <1>4 DEF SvcTypes
  <1>11. Rostered'
    BY <1>1 DEF Rostered
  <1>12. TasksActive'
    BY <1>1, <1>3, <1>4, <1>5, <1>6, <1>8, <1>9 DEF TasksActive
  <1>13. CallsAwaited'
    <2>1. ASSUME NEW i \in 1..Len(calls'), calls'[i].awaited
          PROVE  /\ exchange'[calls'[i].peer].stage = "waiting"
                 /\ \A j \in 1..Len(calls') :
                       calls'[j].awaited /\ calls'[j].peer = calls'[i].peer => i = j
      <3>1. i \in Nat /\ i + 1 # 1
        BY <1>7
      <3>2. call.awaited => calls'[i].peer # p
        BY <1>2, <1>5, <2>1, <3>1
      <3>3. calls'[i].peer \in Peers /\ exchange[calls'[i].peer].stage = "waiting"
        BY <1>2, <2>1, CallFacts DEF CallsAwaited
      <3>4. exchange'[calls'[i].peer].stage = "waiting"
        BY <1>8, <1>9, <3>2, <3>3
      <3>5. ASSUME NEW j \in 1..Len(calls'), calls'[j].awaited, calls'[j].peer = calls'[i].peer
            PROVE  i = j
        <4>1. i + 1 = j + 1
          BY <1>2, <2>1, <3>5 DEF CallsAwaited
        <4> QED  BY <4>1, <1>7
      <3> QED  BY <3>4, <3>5
    <2> QED  BY <2>1 DEF CallsAwaited
  <1>14. RejectionDrains'
    <2> SUFFICES ASSUME running, NEW q \in rejected', NEW c \in live[q]
                 PROVE  /\ q \in active \/ book[q] # {}
                        /\ \/ c \in closing'
                           \/ /\ exchange'[q].stage \in {"writing", "draining", "done"}
                              /\ exchange'[q].rejects
                              /\ exchange'[q].conn = c
      <3>1. ASSUME running, NEW q \in rejected' PROVE q \in active \/ book[q] # {}
        BY <1>1, <1>6, <3>1 DEF RejectionDrains
      <3> QED  BY <1>1, <3>1 DEF RejectionDrains
    <2>1. CASE q # p
      BY <1>1, <1>8, <1>10, <2>1 DEF RejectionDrains, SvcTypes
    <2>2. CASE q = p /\ ~rejects
      BY <1>1, <1>5, <1>9, <2>2 DEF RejectionDrains
    <2>3. CASE q = p /\ rejects
      <3>1. c \in closing \/ c = call.conn
        BY <1>3, <1>6, <2>3 DEF Rostered
      <3> QED  BY <1>1, <1>4, <1>6, <1>9, <2>3, <3>1
    <2> QED  BY <2>1, <2>2, <2>3
  <1> QED  BY <1>10, <1>11, <1>12, <1>13, <1>14

\* Nothing runs after the loop breaks.
LEMMA HaltStep == ASSUME SvcInv, Halt PROVE SvcInv'
  <1> USE DEF SvcInv
  <1>1. /\ running' = FALSE /\ calls' = <<>>
        /\ exchange' = [q \in Peers |-> NoTask]
        /\ UNCHANGED <<live, closing, book, rejected>>
    BY DEF Halt
  <1>2. calls' \in Seq(Calls) /\ Len(calls') = 0
    BY <1>1
  <1>3. SvcTypes'
    BY <1>1, <1>2 DEF SvcTypes, Tasks
  <1>4. Rostered' /\ TasksActive' /\ CallsAwaited' /\ RejectionDrains'
    BY <1>1, <1>2 DEF Rostered, TasksActive, CallsAwaited, RejectionDrains
  <1> QED  BY <1>3, <1>4

\* A call is decided by the owner: only a sole connection is ever refused for
\* capacity.
LEMMA HandleCallStep == ASSUME SvcInv, HandleCall PROVE SvcInv'
  <1>1. CASE Halt
    BY <1>1, HaltStep
  <1>2. CASE Deliver(Head(calls), FALSE)
    BY <1>2, DeliverStep DEF HandleCall
  <1>3. CASE /\ book[Head(calls).peer] = {Head(calls).conn}
             /\ Deliver(Head(calls), reply'.result = "Capacity")
    <2>1. (reply'.result = "Capacity") \in BOOLEAN
      OBVIOUS
    <2> QED  BY <1>3, <2>1, DeliverStep DEF HandleCall
  <1> QED  BY <1>1, <1>2, <1>3 DEF HandleCall, Sole

\* The end of a refusing task closes what is left of the roster.
LEMMA TaskDoneStep ==
    ASSUME SvcInv, NEW p \in Peers, TaskDone(p)
    PROVE  SvcInv'
  <1> USE DEF SvcInv
  <1>1. /\ exchange[p].stage = "done"
        /\ exchange' = [exchange EXCEPT ![p] = NoTask]
        /\ active' = active \ {p}
        /\ closing' = IF exchange[p].rejects THEN closing \cup book[p] ELSE closing
        /\ rejected' = IF book[p] = {} THEN rejected \ {p} ELSE rejected
        /\ UNCHANGED <<live, book, calls, running>>
    BY DEF TaskDone, ClosedWhenDone, RejectedWhenDone, CloseAll
  <1>2. exchange[p] # NoTask
    BY <1>1, TaskFacts
  <1>3. exchange'[p] = NoTask /\ \A q \in Peers : q # p => exchange'[q] = exchange[q]
    BY <1>1 DEF SvcTypes
  <1>4. SvcTypes'
    BY <1>1 DEF SvcTypes, Tasks
  <1>5. Rostered'
    BY <1>1 DEF Rostered
  <1>6. TasksActive'
    BY <1>1, <1>3 DEF TasksActive
  <1>7. CallsAwaited'
    BY <1>1, <1>3, CallFacts DEF CallsAwaited
  <1>8. RejectionDrains'
    BY <1>1, <1>2, <1>3, <1>4 DEF RejectionDrains, SvcTypes, TasksActive
  <1> QED  BY <1>4, <1>5, <1>6, <1>7, <1>8

\* Every step of the relay keeps the invariant.
LEMMA SvcNextInv == ASSUME SvcInv, [SvcNext]_vars PROVE SvcInv'
  <1>1. ASSUME NEW p \in Peers, ReservationAccepted(p) \/ ReservationEnded(p) PROVE SvcInv'
    BY <1>1, QuietStep DEF ReservationAccepted, ReservationEnded
  <1>2. ASSUME NEW p \in Peers, AnswerRetry(p) PROVE SvcInv'
    BY <1>2 DEF AnswerRetry, SvcInv, SvcTypes, Rostered, TasksActive, CallsAwaited, RejectionDrains
  <1>3. CASE RetryAnswered
    BY <1>3 DEF RetryAnswered, SvcInv, SvcTypes, Rostered, TasksActive, CallsAwaited, RejectionDrains
  <1>4. ASSUME NEW p \in Peers, ResponseWritten(p) \/ DrainEnds(p) PROVE SvcInv'
    <2>1. {"writing", "draining", "done"} \subseteq Stages
      BY DEF Stages, Holding
    <2>2. PICK st \in {"draining", "done"} : exchange' = [exchange EXCEPT ![p].stage = st]
      BY <1>4 DEF ResponseWritten, DrainEnds
    <2> QED  BY <1>4, <2>1, <2>2, StageStep DEF ResponseWritten, DrainEnds
  <1>5. CASE Shutdown
    BY <1>5, HaltStep DEF Shutdown
  <1>6. CASE ClockTick
    BY <1>6, QuietStep DEF ClockTick
  <1>7. CASE UNCHANGED vars
    BY <1>7, QuietStep DEF vars
  <1> QED  BY <1>1, <1>2, <1>3, <1>4, <1>5, <1>6, <1>7, EstablishedStep, ClosedStep, AdmitStep,
              SendCallStep, ExchangeFailsStep, HandleCallStep, TaskDoneStep DEF SvcNext

-----------------------------------------------------------------------------
(* Every step is one of the registry's *)

\* The owner calls the registry with a known peer, source and locator, once
\* per step, or leaves it alone.
LEMMA SvcStepRefines == ASSUME SvcInv, [SvcNext]_vars PROVE [Next]_regVars
  <1>1. ASSUME NEW p \in Peers, NEW c \in Conns, Established(p, c) \/ Closed(p, c)
        PROVE  Next
    <2>1. Observe(p)
      BY <1>1 DEF Established, Closed
    <2>2. (book'[p] # {}) \in BOOLEAN
      OBVIOUS
    <2> QED  BY <2>1, <2>2 DEF Observe, Next
  <1>2. ASSUME NEW p \in Peers, ReservationAccepted(p) \/ ReservationEnded(p) PROVE Next
    BY <1>2 DEF ReservationAccepted, ReservationEnded, Next
  <1>3. ASSUME HandleCall PROVE [Next]_regVars
    <2> DEFINE call == Head(calls)
    <2>1. /\ call.peer \in Peers /\ call.conn \in Conns /\ call.request \in Requests
      BY <1>3, TailFacts, CallFacts DEF HandleCall, SvcInv
    <2>2. /\ call.request.kind \in {"allocate", "reclaim", "release"}
          /\ call.request.kind # "allocate" => call.request.locator \in Locators
      BY <2>1 DEF Requests
    <2>3. SourceOf[call.conn] # NoSource => SourceOf[call.conn] \in Sources
      BY <2>1, ServiceAssumption
    <2> HIDE DEF call
    <2>4. \/ UNCHANGED regVars
          \/ /\ call.request.kind = "release"
             /\ Release(call.peer, call.request.locator)
          \/ /\ call.request.kind # "release" /\ SourceOf[call.conn] # NoSource
             /\ IF call.request.kind = "allocate"
                THEN Allocate(call.peer, SourceOf[call.conn])
                ELSE Reclaim(call.peer, SourceOf[call.conn], call.request.locator)
      BY <1>3 DEF HandleCall, call
    <2> QED  BY <2>1, <2>2, <2>3, <2>4 DEF Next
  <1>4. ASSUME NEW p \in Peers,
               \/ AnswerRetry(p) \/ Admit(p) \/ ExchangeFails(p) \/ ResponseWritten(p)
               \/ DrainEnds(p) \/ TaskDone(p) \/ \E request \in Requests : SendCall(p, request)
        PROVE  UNCHANGED regVars
    BY <1>4 DEF AnswerRetry, Admit, ExchangeFails, ResponseWritten, DrainEnds, TaskDone, SendCall
  <1>5. RetryAnswered \/ Shutdown \/ UNCHANGED vars => UNCHANGED regVars
    BY DEF RetryAnswered, Shutdown, vars
  <1>6. ClockTick => Next
    BY DEF ClockTick, Next
  <1> QED  BY <1>1, <1>2, <1>3, <1>4, <1>5, <1>6 DEF SvcNext

\* The relay implements the registry: no interleaving of swarm events, tasks
\* and calls changes its tables otherwise than by the registry's methods.
THEOREM ServiceRefinesRegistry == SvcSpec => Spec
  <1>1. SvcInit => Init
    BY DEF SvcInit
  <1> QED  BY <1>1, SvcInitInv, SvcNextInv, SvcStepRefines, PTL DEF SvcSpec, Spec

-----------------------------------------------------------------------------
(* A request acts only for the connection it came over *)

\* A step that at most drops expired mappings.
OnlyExpires ==
    /\ DOMAIN byLocator' \subseteq DOMAIN byLocator
    /\ DOMAIN byLocator \ DOMAIN byLocator' \subseteq Expired
    /\ \A l \in DOMAIN byLocator' : /\ byLocator'[l].owner = byLocator[l].owner
                                    /\ byLocator'[l].source = byLocator[l].source

\* What one step may do to peer p's hold on locator l.
HoldMoves(p, l) ==
    \/ ChargedFor(p, l)' = ChargedFor(p, l)
    \/ ChargedFor(p, l)' = {} /\ l \in Expired
    \/ /\ calls # <<>>
       /\ Head(calls).peer = p
       /\ Head(calls).conn \in live[p]
       /\ live[p] \ {Head(calls).conn} \subseteq closing
       /\ ChargedFor(p, l)' \subseteq {SourceOf[Head(calls).conn]}

\* A locator that is left alone or expires, seen from one peer.
LEMMA LocatorKept ==
    ASSUME NEW p, NEW l,
           \/ /\ l \in DOMAIN byLocator /\ l \in DOMAIN byLocator'
              /\ byLocator'[l].owner = byLocator[l].owner
              /\ byLocator'[l].source = byLocator[l].source
           \/ l \notin DOMAIN byLocator /\ l \notin DOMAIN byLocator'
           \/ l \in Expired /\ l \notin DOMAIN byLocator'
    PROVE  HoldMoves(p, l)
  BY DEF HoldMoves, ChargedFor

\* A step that at most drops expired mappings moves nothing else.
LEMMA ExpiryMoves ==
    ASSUME OnlyExpires, NEW p, NEW l PROVE HoldMoves(p, l)
  BY LocatorKept DEF OnlyExpires

\* prune() and refresh() at most drop expired mappings, and so does the clock.
LEMMA PruneExpires ==
    ASSUME IInv, Prune \/ Tick \/ \E p \in Peers, b \in BOOLEAN : Refresh(p, b)
    PROVE  OnlyExpires
<1>0. /\ DOMAIN PrunedByLocator = Kept
      /\ \A l \in Kept : PrunedByLocator[l] = byLocator[l]
      /\ DOMAIN byLocator \ Kept \subseteq Expired /\ Kept \subseteq DOMAIN byLocator
  BY DEF PrunedByLocator, Keep, Kept
<1>1. CASE Prune
  BY <1>0, <1>1 DEF Prune, OnlyExpires
<1>2. CASE Tick
  BY <1>2 DEF Tick, OnlyExpires, InState
<1>3. ASSUME NEW p \in Peers, NEW b \in BOOLEAN, Refresh(p, b) PROVE OnlyExpires
  <2>1. \A m : Refreshed(m, b).owner = m.owner /\ Refreshed(m, b).source = m.source
    BY DEF Refreshed, InState
  <2>2. /\ DOMAIN byLocator' = Kept
        /\ \A l \in Kept : byLocator'[l] \in {byLocator[l], Refreshed(byLocator[l], b)}
    BY <1>0, <1>3 DEF Refresh
  <2> QED BY <1>0, <2>1, <2>2 DEF OnlyExpires
<1> QED BY <1>1, <1>2, <1>3

\* insert() for peer q from source s: q's locator is charged to s and every
\* other locator is left alone or expires.
LEMMA InsertMoves ==
    ASSUME IInv, NEW q, NEW s, NEW k \in Locators \ Kept, Insert(k, q, s),
           NEW p, NEW l
    PROVE  HoldMoves(p, l) \/ (p = q /\ ChargedFor(p, l)' \subseteq {s})
<1>0. /\ DOMAIN PrunedByLocator = Kept
      /\ \A j \in Kept : PrunedByLocator[j] = byLocator[j]
      /\ DOMAIN byLocator \ Kept \subseteq Expired /\ Kept \subseteq DOMAIN byLocator
  BY DEF PrunedByLocator, Keep, Kept
<1>1. /\ DOMAIN byLocator' = Kept \cup {k}
      /\ byLocator'[k].owner = q /\ byLocator'[k].source = s
      /\ \A j \in Kept : byLocator'[j] = byLocator[j]
  BY <1>0 DEF Insert, Put
<1>2. CASE l # k
  BY <1>0, <1>1, <1>2, LocatorKept
<1>3. CASE l = k /\ p = q
  BY <1>1, <1>3 DEF ChargedFor
<1>4. CASE l = k /\ p # q
  <2>1. ChargedFor(p, l)' = {}
    BY <1>1, <1>4 DEF ChargedFor
  <2>2. CASE l \in DOMAIN byLocator
    BY <1>0, <1>4, <2>1, <2>2 DEF HoldMoves
  <2>3. CASE l \notin DOMAIN byLocator
    BY <2>1, <2>3 DEF HoldMoves, ChargedFor
  <2> QED BY <2>2, <2>3
<1> QED BY <1>2, <1>3, <1>4

\* remove() of the locator peer q owns.
LEMMA RemoveMoves ==
    ASSUME IInv, NEW q \in DOMAIN PrunedByOwner, Remove(byOwner[q]), NEW p, NEW l
    PROVE  HoldMoves(p, l) \/ (p = q /\ ChargedFor(p, l)' = {})
<1>0. /\ DOMAIN PrunedByLocator = Kept
      /\ \A j \in Kept : PrunedByLocator[j] = byLocator[j]
      /\ DOMAIN byLocator \ Kept \subseteq Expired /\ Kept \subseteq DOMAIN byLocator
  BY DEF PrunedByLocator, Keep, Kept
<1>1. /\ DOMAIN byLocator' = Kept \ {byOwner[q]}
      /\ \A j \in DOMAIN byLocator' : byLocator'[j] = byLocator[j]
  BY <1>0 DEF Remove, Keep
<1>2. CASE l # byOwner[q]
  BY <1>0, <1>1, <1>2, LocatorKept
<1>3. CASE l = byOwner[q]
  <2>1. ChargedFor(p, l)' = {}
    BY <1>1, <1>3 DEF ChargedFor
  <2>2. byLocator[l].owner = q
    BY <1>3, PruneCoherent DEF IInv, Coherent
  <2>3. p # q => ChargedFor(p, l) = {}
    BY <2>2 DEF ChargedFor
  <2> QED BY <2>1, <2>3 DEF HoldMoves
<1> QED BY <1>2, <1>3

\* Every step of the relay: only a call whose connection is the peer's only
\* one that is not being closed moves a hold.
LEMMA SvcHoldMoves ==
    ASSUME SvcInv, IInv, [SvcNext]_vars, NEW p \in Peers, NEW l \in Locators
    PROVE  HoldMoves(p, l)
  <1>u. ASSUME UNCHANGED regVars PROVE HoldMoves(p, l)
    BY <1>u DEF regVars, HoldMoves, ChargedFor
  <1>r. ASSUME NEW q \in Peers, NEW b \in BOOLEAN, SetReservation(q, b) \/ SetConnection(q, b)
        PROVE  HoldMoves(p, l)
    <2>1. \E c \in BOOLEAN : Refresh(q, c)
      BY <1>r DEF SetReservation, SetConnection, IsAvailable
    <2> QED BY <2>1, PruneExpires, ExpiryMoves
  <1>1. ASSUME NEW q \in Peers, NEW c \in Conns, Established(q, c) \/ Closed(q, c)
        PROVE  HoldMoves(p, l)
    <2>1. SetConnection(q, book'[q] # {})
      BY <1>1 DEF Established, Closed, Observe
    <2>2. (book'[q] # {}) \in BOOLEAN
      OBVIOUS
    <2> QED BY <2>1, <2>2, <1>r
  <1>2. ASSUME NEW q \in Peers, ReservationAccepted(q) \/ ReservationEnded(q)
        PROVE  HoldMoves(p, l)
    BY <1>2, <1>r DEF ReservationAccepted, ReservationEnded
  <1>3. ASSUME HandleCall PROVE HoldMoves(p, l)
    <2> DEFINE call == Head(calls)
               s == SourceOf[call.conn]
    <2>1. call.peer \in Peers /\ call.conn \in Conns /\ calls # <<>>
      BY <1>3, TailFacts, CallFacts DEF HandleCall, SvcInv
    <2>2. \/ UNCHANGED regVars
          \/ /\ Sole(call)
             /\ \/ Release(call.peer, call.request.locator)
                \/ Allocate(call.peer, s)
                \/ /\ call.request.kind \notin {"release", "allocate"}
                   /\ Reclaim(call.peer, s, call.request.locator)
      BY <1>3 DEF HandleCall
    <2>3. CASE UNCHANGED regVars
      BY <2>3, <1>u
    <2>4. CASE Sole(call) /\ ~UNCHANGED regVars
      <3>1. book[call.peer] = {call.conn}
        BY <2>4 DEF Sole
      <3>2. call.conn \in live[call.peer] /\ live[call.peer] \ {call.conn} \subseteq closing
        BY <2>1, <3>1 DEF SvcInv, Rostered
      <3> HIDE DEF call, s
      <3>3. ASSUME p = call.peer, ChargedFor(p, l)' \subseteq {s} PROVE HoldMoves(p, l)
        BY <2>1, <3>2, <3>3 DEF HoldMoves, call, s
      <3>4. ASSUME Prune PROVE HoldMoves(p, l)
        BY <3>4, PruneExpires, ExpiryMoves
      <3>5. ASSUME NEW k \in Locators \ Kept, Insert(k, call.peer, s) PROVE HoldMoves(p, l)
        BY <3>3, <3>5, InsertMoves
      <3>6. CASE Release(call.peer, call.request.locator)
        <4>1. CASE Prune
          BY <4>1, <3>4
        <4>2. CASE call.peer \in DOMAIN PrunedByOwner /\ Remove(byOwner[call.peer])
          <5>1. HoldMoves(p, l) \/ (p = call.peer /\ ChargedFor(p, l)' = {})
            BY <4>2, RemoveMoves
          <5> QED BY <5>1, <3>3
        <4> QED BY <3>6, <4>1, <4>2 DEF Release
      <3>7. CASE Allocate(call.peer, s)
        BY <3>4, <3>5, <3>7 DEF Allocate, Refuse
      <3>8. CASE /\ call.request.kind \notin {"release", "allocate"}
                 /\ Reclaim(call.peer, s, call.request.locator)
        <4>1. CASE Prune
          BY <4>1, <3>4
        <4>2. CASE Insert(call.request.locator, call.peer, s) /\ call.request.locator \notin Kept
          <5>1. call.request \in Requests
            BY <1>3, TailFacts, CallFacts DEF HandleCall, SvcInv, call
          <5>2. call.request.locator \in Locators
            BY <3>8, <5>1 DEF Requests
          <5> QED BY <4>2, <5>2, <3>5
        <4> QED BY <3>8, <4>1, <4>2 DEF Reclaim, Refuse
      <3> QED BY <2>2, <2>4, <3>6, <3>7, <3>8
    <2> QED BY <2>2, <2>3, <2>4
  <1>4. ASSUME NEW q \in Peers,
               \/ AnswerRetry(q) \/ Admit(q) \/ ExchangeFails(q) \/ ResponseWritten(q)
               \/ DrainEnds(q) \/ TaskDone(q) \/ \E request \in Requests : SendCall(q, request)
        PROVE  UNCHANGED regVars
    BY <1>4 DEF AnswerRetry, Admit, ExchangeFails, ResponseWritten, DrainEnds, TaskDone, SendCall
  <1>5. RetryAnswered \/ Shutdown \/ UNCHANGED vars => UNCHANGED regVars
    BY DEF RetryAnswered, Shutdown, vars
  <1>6. CASE ClockTick
    BY <1>6, PruneExpires, ExpiryMoves DEF ClockTick
  <1> QED  BY <1>u, <1>1, <1>2, <1>3, <1>4, <1>5, <1>6 DEF SvcNext

\* No request gives a peer a locator, or takes one from it, unless the
\* connection it was admitted on is still the only one the peer keeps.
THEOREM ServiceStaleCalls == SvcSpec => StaleCallsChangeNothing
  <1>1. SvcInit => IInv
    BY InitIInv DEF SvcInit
  <1>2. SvcInv /\ IInv /\ [SvcNext]_vars => IInv'
    BY SvcStepRefines, NextIInv
  <1>3. SvcInv /\ IInv /\ [SvcNext]_vars
            => [\A p \in Peers, l \in Locators : HoldMoves(p, l)]_vars
    BY SvcHoldMoves
  <1> QED  BY <1>1, <1>2, <1>3, SvcInitInv, SvcNextInv, PTL
           DEF SvcSpec, StaleCallsChangeNothing, HoldMoves

\* A peer refused for capacity drains: no order of timeouts, stale calls,
\* closes and completions leaves it in rejected_peers without a task or a
\* connection, or with a connection that nobody is going to close.
THEOREM ServiceRejections == SvcSpec => []RejectionDrains
  <1>1. SvcInv => RejectionDrains
    BY DEF SvcInv
  <1> QED  BY <1>1, SvcInitInv, SvcNextInv, PTL DEF SvcSpec

\* The registry's tables agree in every behaviour of the relay.
THEOREM ServiceIndexes == SvcSpec => []IndexesAgree
  BY ServiceRefinesRegistry, RegistryIndexes, PTL

\* A host served by the relay keeps its locator until it releases it or has
\* been unreachable for the whole grace period.
THEOREM ServiceHolds == SvcSpec => LocatorHeldUntilReleaseOrGrace
  BY ServiceRefinesRegistry, RegistryHolds, PTL

-----------------------------------------------------------------------------
(***************************************************************************)
(* 3. HostRegistration                                                     *)
(*                                                                         *)
(* The invariant ties what the relay still holds of the host to what the   *)
(* registry was told, says which calls may still be on their way, and that *)
(* after Acquired none is left that could give the host another locator.   *)
(***************************************************************************)

Phases == Calling \cup {"connect", "reserve", "access", "ready", "backoff", "exited"}
HostCalls == [link: Links, op: Calling, locator: Locators \cup {None}]

HrTypes ==
    /\ phase \in Phases
    /\ advertised \in Locators \cup {None}
    /\ link \in Links \cup {None}
    /\ relayLinks \subseteq Links
    /\ pending \subseteq HostCalls
    /\ answer \in {NoAnswer, Retry} \cup Replies
    /\ taken \in BOOLEAN

\* What the relay still holds of the host is what the registry was told.
RelayTold ==
    /\ relayLinks # {} => Host \in connections
    /\ reserved # None => Host \in reservations

\* A call is one per connection, made over a connection the relay has, and
\* the host's own one asks for what the host waits for.
CallsPlaced ==
    /\ \A c \in pending : c.link \in relayLinks /\ (c.op = "reclaim" => c.locator \in Locators)
    /\ \A c, d \in pending : c.link = d.link => c = d
    /\ phase \in {"reserve", "access"} => \A c \in pending : c.link # link
    /\ phase \in Calling => \A c \in pending : c.link = link => c.op = phase /\ c.locator = advertised
    /\ phase \in {"reclaim", "ready"} => advertised \in Locators

\* An answer reaches a host that waits, and after Acquired nothing is left
\* that could give the host another locator.
AnswerPlaced ==
    /\ answer # NoAnswer => phase \in Calling /\ \A c \in pending : c.link # link
    /\ answer.result = "Acquired" =>
         /\ pending = {}
         /\ answer.locator \in Locators
         /\ Host \in DOMAIN byOwner => byOwner[Host] = answer.locator
         /\ ~LeaseLost => Host \in DOMAIN byOwner
    /\ answer.result = "Conflict" => taken

\* A waiting host that has its lease has its locator.
LeaseHolds ==
    phase = "ready" /\ ~LeaseLost => Host \in DOMAIN byOwner /\ byOwner[Host] = advertised

\* Until another host got the advertised locator, nothing asks for another.
OnlyReclaims ==
    advertised # None /\ ~taken =>
        /\ phase # "allocate"
        /\ \A c \in pending : c.op = "reclaim" /\ c.locator = advertised
        /\ Host \in DOMAIN byOwner => byOwner[Host] = advertised

HostInv == HrTypes /\ RelayTold /\ CallsPlaced /\ AnswerPlaced /\ LeaseHolds /\ OnlyReclaims

-----------------------------------------------------------------------------
(* What one step of the registry means for the locator of one peer *)

\* A reachable peer that does not release keeps its locator.
LEMMA PeerKeeps ==
    ASSUME IInv, [Next]_regVars, NEW q \in DOMAIN byOwner,
           IsAvailable(q, reservations, connections),
           ~(reply'.op = "release" /\ reply'.peer = q)
    PROVE  q \in DOMAIN byOwner' /\ byOwner'[q] = byOwner[q]
<1> DEFINE l == byOwner[q]
<1>1. l \in DOMAIN byLocator /\ byLocator[l].owner = q
  BY DEF IInv, Coherent
<1>2. byLocator[l].state = "Active"
  BY <1>1 DEF IInv, ActiveIffAvailable
<1> HIDE DEF l
<1>3. HeldOrEnded(l)
  BY <1>1, HeldStep
<1>4. l \in DOMAIN byLocator' /\ byLocator'[l].owner = q
  BY <1>1, <1>2, <1>3 DEF HeldOrEnded
<1>5. Coherent(byLocator', byOwner', bySource')
  BY NextIInv DEF IInv
<1> QED BY <1>4, <1>5 DEF Coherent, l

\* A peer gets a locator only by the Acquired answer to its own call.
LEMMA PeerGains ==
    ASSUME IInv, [Next]_regVars, NEW q \in DOMAIN byOwner'
    PROVE  \/ q \in DOMAIN byOwner /\ byOwner'[q] = byOwner[q]
           \/ reply'.result = "Acquired" /\ reply'.peer = q /\ byOwner'[q] = reply'.locator
<1>0. Coherent(byLocator, byOwner, bySource)
  BY DEF IInv
<1>p. /\ DOMAIN PrunedByOwner \subseteq DOMAIN byOwner
      /\ \A p \in DOMAIN PrunedByOwner : PrunedByOwner[p] = byOwner[p]
  BY <1>0, PruneCoherent
<1>1. ASSUME byOwner' = PrunedByOwner
      PROVE  q \in DOMAIN byOwner /\ byOwner'[q] = byOwner[q]
  BY <1>1, <1>p
<1>2. CASE \E p \in Peers, b \in BOOLEAN : SetReservation(p, b) \/ SetConnection(p, b)
  BY <1>1, <1>2 DEF SetReservation, SetConnection, Refresh
<1>3. ASSUME NEW p \in Peers, NEW s \in Sources, NEW l, Insert(l, p, s),
             reply'.result = "Acquired" /\ reply'.peer = p /\ reply'.locator = l
      PROVE  \/ q \in DOMAIN byOwner /\ byOwner'[q] = byOwner[q]
             \/ reply'.result = "Acquired" /\ reply'.peer = q /\ byOwner'[q] = reply'.locator
  <2>1. byOwner' = Put(PrunedByOwner, p, l)
    BY <1>3 DEF Insert
  <2>2. CASE q = p
    BY <1>3, <2>1, <2>2 DEF Put
  <2>3. CASE q # p
    BY <1>p, <2>1, <2>3 DEF Put
  <2> QED BY <2>2, <2>3
<1>4. ASSUME NEW p \in Peers, NEW s \in Sources, Allocate(p, s)
      PROVE  \/ q \in DOMAIN byOwner /\ byOwner'[q] = byOwner[q]
             \/ reply'.result = "Acquired" /\ reply'.peer = q /\ byOwner'[q] = reply'.locator
  <2>1. CASE Prune
    BY <2>1, <1>1 DEF Prune
  <2>2. CASE \E l \in Locators \ Kept : Insert(l, p, s) /\ Acquired("allocate", p, l)
    BY <2>2, <1>3 DEF Acquired
  <2> QED BY <1>4, <2>1, <2>2 DEF Allocate, Refuse
<1>5. ASSUME NEW p \in Peers, NEW s \in Sources, NEW l \in Locators, Reclaim(p, s, l)
      PROVE  \/ q \in DOMAIN byOwner /\ byOwner'[q] = byOwner[q]
             \/ reply'.result = "Acquired" /\ reply'.peer = q /\ byOwner'[q] = reply'.locator
  <2>1. CASE Prune
    BY <2>1, <1>1 DEF Prune
  <2>2. CASE Insert(l, p, s) /\ Acquired("reclaim", p, l)
    BY <2>2, <1>3 DEF Acquired
  <2> QED BY <1>5, <2>1, <2>2 DEF Reclaim, Refuse
<1>6. ASSUME NEW p \in Peers, NEW l \in Locators, Release(p, l)
      PROVE  q \in DOMAIN byOwner /\ byOwner'[q] = byOwner[q]
  <2>1. CASE Prune
    BY <2>1, <1>1 DEF Prune
  <2>2. CASE Remove(l)
    BY <2>2, <1>p DEF Remove, Keep
  <2> QED BY <1>6, <2>1, <2>2 DEF Release
<1>7. CASE \E l \in Locators : Resolve(l)
  BY <1>7, <1>1 DEF Resolve, Prune
<1>8. CASE Tick \/ UNCHANGED regVars
  BY <1>8 DEF Tick, regVars
<1> QED BY <1>2, <1>4, <1>5, <1>6, <1>7, <1>8 DEF Next

\* The answers to allocate: with Acquired the caller owns the locator.
LEMMA AllocateAnswer ==
    ASSUME IInv, NEW p \in Peers, NEW s \in Sources, Allocate(p, s)
    PROVE  /\ reply' \in Replies /\ reply'.op = "allocate" /\ reply'.peer = p
           /\ reply'.result # "Conflict"
           /\ reply'.result = "Acquired" =>
                /\ reply'.locator \in Locators
                /\ p \in DOMAIN byOwner' /\ byOwner'[p] = reply'.locator
<1>0. Coherent(byLocator, byOwner, bySource)
  BY DEF IInv
<1>p. /\ DOMAIN PrunedByOwner \subseteq DOMAIN byOwner
      /\ \A q \in DOMAIN PrunedByOwner : PrunedByOwner[q] = byOwner[q]
  BY <1>0, PruneCoherent
<1>1. reply' \in Replies
  <2>1. IInv'
    BY NextIInv DEF Next
  <2> QED BY <2>1 DEF IInv
<1>2. reply'.op = "allocate" /\ reply'.peer = p /\ reply'.result # "Conflict"
  BY DEF Allocate, Refuse, Answer, Acquired
<1>3. ASSUME reply'.result = "Acquired"
      PROVE  p \in DOMAIN byOwner' /\ byOwner'[p] = reply'.locator /\ reply'.locator \in Locators
  <2>1. CASE p \in DOMAIN PrunedByOwner /\ Prune /\ Acquired("allocate", p, byOwner[p])
    BY <2>1, <1>p, <1>0 DEF Prune, Acquired, Coherent
  <2>2. CASE \E l \in Locators \ Kept : Insert(l, p, s) /\ Acquired("allocate", p, l)
    BY <2>2 DEF Insert, Acquired, Put
  <2> QED BY <1>3, <2>1, <2>2 DEF Allocate, Refuse, Answer
<1> QED BY <1>1, <1>2, <1>3

\* The answers to reclaim: with Acquired the caller owns the locator it asked
\* for, with Conflict it owns another one or another peer owns that one.
LEMMA ReclaimAnswer ==
    ASSUME IInv, NEW p \in Peers, NEW s \in Sources, NEW l \in Locators, Reclaim(p, s, l)
    PROVE  /\ reply' \in Replies /\ reply'.op = "reclaim" /\ reply'.peer = p
           /\ reply'.result = "Acquired" =>
                /\ reply'.locator = l
                /\ p \in DOMAIN byOwner' /\ byOwner'[p] = l
           /\ reply'.result = "Conflict" =>
                \/ p \in DOMAIN byOwner /\ byOwner[p] # l
                \/ l \in DOMAIN byLocator' /\ byLocator'[l].owner # p
<1>0. Coherent(byLocator, byOwner, bySource)
  BY DEF IInv
<1>p. /\ DOMAIN PrunedByOwner \subseteq DOMAIN byOwner
      /\ \A q \in DOMAIN PrunedByOwner : PrunedByOwner[q] = byOwner[q]
      /\ DOMAIN PrunedByOwner = {byLocator[k].owner : k \in Kept}
      /\ DOMAIN PrunedByLocator = Kept
      /\ \A k \in Kept : PrunedByLocator[k] = byLocator[k]
  BY <1>0, PruneCoherent
<1>1. reply' \in Replies
  <2>1. IInv'
    BY NextIInv DEF Next
  <2> QED BY <2>1 DEF IInv
<1>2. reply'.op = "reclaim" /\ reply'.peer = p
  BY DEF Reclaim, Refuse, Answer, Acquired
<1>3. ASSUME reply'.result = "Acquired"
      PROVE  p \in DOMAIN byOwner' /\ byOwner'[p] = l /\ reply'.locator = l
  <2>1. CASE p \in DOMAIN PrunedByOwner /\ byOwner[p] = l /\ Prune /\ Acquired("reclaim", p, l)
    BY <2>1, <1>p DEF Prune, Acquired
  <2>2. CASE Insert(l, p, s) /\ Acquired("reclaim", p, l)
    BY <2>2 DEF Insert, Acquired, Put
  <2> QED BY <1>3, <2>1, <2>2 DEF Reclaim, Refuse, Answer
<1>4. ASSUME reply'.result = "Conflict"
      PROVE  \/ p \in DOMAIN byOwner /\ byOwner[p] # l
             \/ l \in DOMAIN byLocator' /\ byLocator'[l].owner # p
  <2>1. \/ p \in DOMAIN PrunedByOwner /\ byOwner[p] # l
        \/ p \notin DOMAIN PrunedByOwner /\ l \in Kept /\ Prune
    BY <1>4 DEF Reclaim, Refuse, Answer, Acquired
  <2>2. CASE p \in DOMAIN PrunedByOwner /\ byOwner[p] # l
    BY <2>2, <1>p
  <2>3. CASE p \notin DOMAIN PrunedByOwner /\ l \in Kept /\ Prune
    BY <2>3, <1>p DEF Prune
  <2> QED BY <2>1, <2>2, <2>3
<1> QED BY <1>1, <1>2, <1>3, <1>4

-----------------------------------------------------------------------------
(* The host and the relay *)

\* Before the host's first connection nothing is held or asked for.
LEMMA HrInitInv == ASSUME HrInit PROVE IInv /\ HostInv
<1>1. IInv
  BY InitIInv DEF HrInit
<1>2. HostInv
  BY DEF HrInit, Init, HostInv, HrTypes, RelayTold, CallsPlaced, AnswerPlaced, LeaseHolds,
         OnlyReclaims, Phases, Calling, NoAnswer
<1> QED BY <1>1, <1>2

\* Facts about the answers: only Acquired and Conflict matter to the host.
LEMMA AnswerFacts ==
    /\ NoAnswer.result = "none" /\ Retry.result = "Retry" /\ NoAnswer # Retry
    /\ NoReply.result = "none" /\ NoReply.op = "none"
  BY DEF NoAnswer, Retry, NoReply

\* A step of the host alone, at a registry that does not move, with no answer
\* left: the host starts over, gives up or ends.
LEMMA AsideStep ==
    ASSUME HostInv, UNCHANGED <<advertised, relayLinks, reserved, pending, taken, regVars>>,
           phase' \in {"connect", "backoff", "exited"}, answer' = NoAnswer,
           link' \in {link, None}
    PROVE  HostInv'
BY AnswerFacts DEF HostInv, HrTypes, RelayTold, CallsPlaced, AnswerPlaced, LeaseHolds,
         OnlyReclaims, Phases, Calling, regVars

\* The two halves of a lease of the host are known to the registry.
LEMMA LeaseIsAvailable ==
    ASSUME HostInv, ~LeaseLost
    PROVE  IsAvailable(Host, reservations, connections) /\ link \in Links
BY RegistrationAssumption DEF HostInv, HrTypes, RelayTold, LeaseLost, IsAvailable

\* A registry step that is not a call of the host's leaves the host's locator
\* alone while it has its lease, and gives it no other.
LEMMA HostUntouched ==
    ASSUME IInv, HostInv, [Next]_regVars,
           reply'.result = "Acquired" \/ reply'.op = "release" => reply'.peer # Host
    PROVE  /\ Host \in DOMAIN byOwner' => Host \in DOMAIN byOwner /\ byOwner'[Host] = byOwner[Host]
           /\ ~LeaseLost /\ Host \in DOMAIN byOwner =>
                 Host \in DOMAIN byOwner' /\ byOwner'[Host] = byOwner[Host]
<1>1. Host \in DOMAIN byOwner' => Host \in DOMAIN byOwner /\ byOwner'[Host] = byOwner[Host]
  BY PeerGains
<1>2. ASSUME ~LeaseLost, Host \in DOMAIN byOwner
      PROVE  Host \in DOMAIN byOwner' /\ byOwner'[Host] = byOwner[Host]
  BY <1>2, LeaseIsAvailable, PeerKeeps
<1> QED BY <1>1, <1>2

\* The relay loses connections, calls or the reservation, other hosts work,
\* time passes: the host does not move and nothing is gained for it.
LEMMA PassiveStep ==
    ASSUME IInv, HostInv, [Next]_regVars,
           reply'.result = "Acquired" \/ reply'.op = "release" => reply'.peer # Host,
           UNCHANGED <<phase, advertised, link, answer>>, Watch,
           relayLinks' \subseteq relayLinks, pending' \subseteq pending,
           \A c \in pending' : c.link \in relayLinks',
           reserved' \in {reserved, None}, RelayTold'
    PROVE  HostInv'
<1>1. ~LeaseLost' => ~LeaseLost
  BY RegistrationAssumption DEF LeaseLost, HostInv, HrTypes
<1>2. taken' \in BOOLEAN /\ (taken => taken')
  BY DEF Watch, HostInv, HrTypes
<1>3. HrTypes'
  BY <1>2 DEF HostInv, HrTypes
<1>4. CallsPlaced'
  BY DEF HostInv, CallsPlaced
<1>5. AnswerPlaced'
  BY <1>1, <1>2, HostUntouched DEF HostInv, AnswerPlaced
<1>6. LeaseHolds'
  BY <1>1, HostUntouched DEF HostInv, LeaseHolds
<1>7. OnlyReclaims'
  BY <1>2, HostUntouched DEF HostInv, OnlyReclaims
<1> QED BY <1>3, <1>4, <1>5, <1>6, <1>7 DEF HostInv

\* A connection of the host ends at the relay, with the calls made over it.
LEMMA RelayClosesStep == ASSUME IInv, HostInv, RelayCloses PROVE IInv' /\ HostInv'
<1>1. PICK c \in relayLinks : /\ relayLinks' = relayLinks \ {c}
                              /\ pending' = {k \in pending : k.link # c}
  BY DEF RelayCloses
<1>2. SetConnection(Host, relayLinks' # {}) /\ Watch
      /\ UNCHANGED <<phase, advertised, link, reserved, answer>>
  BY DEF RelayCloses
<1>3. Next
  BY <1>2, RegistrationAssumption DEF Next
<1>4. reply' = NoReply /\ reservations' = reservations
      /\ (relayLinks' # {} => Host \in connections')
  BY <1>2 DEF SetConnection
<1>5. RelayTold'
  BY <1>2, <1>4 DEF HostInv, RelayTold
<1>6. reply'.result # "Acquired" /\ reply'.op # "release"
  BY <1>4, AnswerFacts
<1>7. /\ relayLinks' \subseteq relayLinks /\ pending' \subseteq pending
      /\ \A k \in pending' : k.link \in relayLinks'
  BY <1>1 DEF HostInv, CallsPlaced
<1>8. HostInv'
  BY <1>2, <1>3, <1>5, <1>6, <1>7, PassiveStep
<1> QED BY <1>3, <1>8, NextIInv

\* The host's reservation is closed or times out.
LEMMA ReservationEndsStep == ASSUME IInv, HostInv, ReservationEnds PROVE IInv' /\ HostInv'
<1>1. /\ reserved' = None /\ SetReservation(Host, FALSE) /\ Watch
      /\ UNCHANGED <<phase, advertised, link, relayLinks, pending, answer>>
  BY DEF ReservationEnds
<1>2. Next
  BY <1>1, RegistrationAssumption DEF Next
<1>3. reply' = NoReply /\ connections' = connections
  BY <1>1 DEF SetReservation
<1>4. RelayTold'
  BY <1>1, <1>3 DEF HostInv, RelayTold
<1>5. reply'.result # "Acquired" /\ reply'.op # "release"
  BY <1>3, AnswerFacts
<1>6. HostInv'
  BY <1>1, <1>2, <1>4, <1>5, PassiveStep DEF HostInv, CallsPlaced
<1> QED BY <1>2, <1>6, NextIInv

\* The other hosts and the clock never take the locator of a host that has
\* its lease.
LEMMA OthersStep == ASSUME IInv, HostInv, Others PROVE IInv' /\ HostInv'
<1>1. Watch /\ UNCHANGED <<phase, advertised, link, relayLinks, reserved, pending, answer>>
  BY DEF Others
<1> DEFINE Foreign == /\ Next
                      /\ reply'.result = "Acquired" \/ reply'.op = "release" => reply'.peer # Host
                      /\ (Host \in connections => Host \in connections')
                      /\ (Host \in reservations => Host \in reservations')
<1>2. Foreign
  <2>1. CASE Tick
    BY <2>1, AnswerFacts DEF Tick, Next
  <2>2. ASSUME NEW p \in Peers \ {Host}, SetReservation(p, p \notin reservations)
        PROVE Foreign
    BY <2>2, AnswerFacts DEF SetReservation, Next
  <2>3. ASSUME NEW p \in Peers \ {Host}, SetConnection(p, p \notin connections)
        PROVE Foreign
    BY <2>3, AnswerFacts DEF SetConnection, Next
  <2>4. ASSUME NEW p \in Peers \ {Host}, Allocate(p, HostSource)
        PROVE Foreign
    <3>1. reply'.peer = p /\ UNCHANGED <<reservations, connections>>
      BY <2>4, RegistrationAssumption, AllocateAnswer DEF Allocate
    <3> QED BY <2>4, <3>1, RegistrationAssumption DEF Next
  <2>5. ASSUME NEW p \in Peers \ {Host}, NEW l \in Locators, Reclaim(p, HostSource, l)
        PROVE Foreign
    <3>1. reply'.peer = p /\ UNCHANGED <<reservations, connections>>
      BY <2>5, RegistrationAssumption, ReclaimAnswer DEF Reclaim
    <3> QED BY <2>5, <3>1, RegistrationAssumption DEF Next
  <2>6. ASSUME NEW p \in Peers \ {Host}, NEW l \in Locators, Release(p, l)
        PROVE Foreign
    <3>1. reply'.peer = p /\ UNCHANGED <<reservations, connections>>
      BY <2>6 DEF Release, Answer
    <3> QED BY <2>6, <3>1 DEF Next
  <2> QED BY <2>1, <2>2, <2>3, <2>4, <2>5, <2>6 DEF Others
<1>3. RelayTold'
  BY <1>1, <1>2 DEF HostInv, RelayTold
<1>4. HostInv'
  BY <1>1, <1>2, <1>3, PassiveStep DEF HostInv, CallsPlaced
<1> QED BY <1>2, <1>4, NextIInv

\* The relay serves a call: the host's own one, or one it has left behind.
LEMMA ServeStep == ASSUME IInv, HostInv, Serve PROVE IInv' /\ HostInv'
<1>1. PICK c \in pending :
        /\ pending' = pending \ {c}
        /\ IF relayLinks # {c.link} THEN UNCHANGED regVars
           ELSE /\ IF c.op = "allocate" THEN Allocate(Host, HostSource)
                   ELSE Reclaim(Host, HostSource, c.locator)
                /\ reply'.result # "RandomFailed"
        /\ answer' = IF link # c.link \/ phase # c.op THEN answer
                     ELSE IF relayLinks # {c.link} THEN Retry ELSE reply'
  BY DEF Serve
<1>2. /\ Watch /\ UNCHANGED <<phase, advertised, link, relayLinks, reserved>>
  BY DEF Serve
<1>3. /\ c.link \in Links /\ c.op \in Calling /\ c.link \in relayLinks
      /\ c.op = "reclaim" => c.locator \in Locators
      /\ Host \in Peers /\ HostSource \in Sources
  BY RegistrationAssumption DEF HostInv, HrTypes, CallsPlaced, HostCalls
<1>4. taken' \in BOOLEAN /\ (taken => taken')
  BY <1>2 DEF Watch, HostInv, HrTypes
<1>5. LeaseLost' = LeaseLost
  BY <1>2 DEF LeaseLost
<1>6. CASE relayLinks # {c.link}
  <2>1. UNCHANGED regVars /\ answer' \in {answer, Retry}
    BY <1>1, <1>6
  <2>2. answer' # answer => answer' = Retry /\ link = c.link /\ phase = c.op
    BY <1>1, <1>6
  <2>3. IInv'
    BY <2>1, NextIInv
  <2>4. HrTypes'
    BY <1>1, <1>2, <1>4, <2>1 DEF HostInv, HrTypes
  <2>5. RelayTold' /\ CallsPlaced'
    BY <1>1, <1>2, <2>1 DEF HostInv, RelayTold, CallsPlaced, regVars
  <2>6. AnswerPlaced'
    <3>1. CASE answer' = answer
      BY <1>1, <1>2, <1>4, <1>5, <2>1, <3>1 DEF HostInv, AnswerPlaced, regVars
    <3>2. CASE answer' = Retry /\ link = c.link /\ phase = c.op
      BY <1>1, <1>2, <1>3, <3>2, AnswerFacts DEF HostInv, AnswerPlaced, CallsPlaced
    <3> QED BY <2>2, <3>1, <3>2
  <2>7. LeaseHolds' /\ OnlyReclaims'
    BY <1>1, <1>2, <1>4, <1>5, <2>1 DEF HostInv, LeaseHolds, OnlyReclaims, regVars
  <2> QED BY <2>3, <2>4, <2>5, <2>6, <2>7 DEF HostInv
<1>7. CASE relayLinks = {c.link}
  <2>1. /\ c.op = "allocate" => Allocate(Host, HostSource)
        /\ c.op = "reclaim" => Reclaim(Host, HostSource, c.locator)
    BY <1>1, <1>7
  <2>2. /\ reply' \in Replies /\ reply'.op = c.op /\ reply'.peer = Host
        /\ reply'.result = "Acquired" =>
             /\ reply'.locator \in Locators
             /\ Host \in DOMAIN byOwner' /\ byOwner'[Host] = reply'.locator
             /\ c.op = "reclaim" => reply'.locator = c.locator
        /\ reply'.result = "Conflict" =>
             /\ c.op = "reclaim"
             /\ \/ Host \in DOMAIN byOwner /\ byOwner[Host] # c.locator
                \/ c.locator \in DOMAIN byLocator' /\ byLocator'[c.locator].owner # Host
    <3>1. CASE c.op = "allocate"
      BY <1>3, <2>1, <3>1, AllocateAnswer
    <3>2. CASE c.op = "reclaim"
      BY <1>3, <2>1, <3>2, ReclaimAnswer
    <3> QED BY <1>3, <3>1, <3>2 DEF Calling
  <2>3. Next /\ UNCHANGED <<reservations, connections>>
    BY <1>3, <2>1 DEF Calling, Next, Allocate, Reclaim
  <2>4. IInv'
    BY <2>3, NextIInv
  <2>5. pending' = {}
    BY <1>1, <1>7 DEF HostInv, CallsPlaced
  <2>6. reply'.op # "release"
    BY <1>3, <2>2 DEF Calling
  <2>7. ~LeaseLost /\ Host \in DOMAIN byOwner => Host \in DOMAIN byOwner' /\ byOwner'[Host] = byOwner[Host]
    BY <2>3, <2>6, LeaseIsAvailable, PeerKeeps
  <2>8. Host \in DOMAIN byOwner' =>
           \/ Host \in DOMAIN byOwner /\ byOwner'[Host] = byOwner[Host]
           \/ reply'.result = "Acquired" /\ byOwner'[Host] = reply'.locator
    BY <2>3, PeerGains
  <2>9. CASE link = c.link /\ phase = c.op
    <3>1. answer' = reply' /\ c.locator = advertised /\ phase \in Calling
      BY <1>1, <1>3, <1>7, <2>9 DEF HostInv, CallsPlaced
    <3>2. HrTypes'
      BY <1>2, <1>4, <2>2, <2>5, <3>1 DEF HostInv, HrTypes
    <3>3. RelayTold' /\ CallsPlaced'
      BY <1>2, <2>3, <2>5 DEF HostInv, RelayTold, CallsPlaced
    <3>4. reply'.result = "Conflict" => taken'
      <4>1. CASE Host \in DOMAIN byOwner /\ byOwner[Host] # advertised
        <5>1. reply'.result = "Conflict" => c.locator \in Locators
          BY <1>3, <2>2
        <5> QED BY <1>4, <3>1, <4>1, <5>1, RegistrationAssumption DEF HostInv, OnlyReclaims
      <4>2. CASE advertised \in DOMAIN byLocator' /\ byLocator'[advertised].owner # Host
        BY <1>2, <4>2 DEF Watch
      <4> QED BY <2>2, <3>1, <4>1, <4>2
    <3>5. AnswerPlaced'
      BY <1>2, <2>2, <2>5, <3>1, <3>4 DEF HostInv, AnswerPlaced
    <3>6. LeaseHolds'
      BY <1>2, <3>1 DEF LeaseHolds, Calling
    <3>7. OnlyReclaims'
      BY <1>2, <1>4, <2>2, <2>5, <2>8, <2>9, <3>1, <1>3 DEF HostInv, OnlyReclaims, Calling
    <3> QED BY <2>4, <3>2, <3>3, <3>5, <3>6, <3>7 DEF HostInv
  <2>10. CASE link # c.link \/ phase # c.op
    <3>1. answer' = answer
      BY <1>1, <2>10
    <3>2. HrTypes'
      BY <1>2, <1>4, <2>5, <3>1 DEF HostInv, HrTypes
    <3>3. RelayTold' /\ CallsPlaced'
      BY <1>2, <2>3, <2>5 DEF HostInv, RelayTold, CallsPlaced
    <3>4. AnswerPlaced'
      <4>1. answer.result # "Acquired"
        BY DEF HostInv, AnswerPlaced
      <4> QED BY <1>2, <1>4, <2>5, <3>1, <4>1 DEF HostInv, AnswerPlaced
    <3>5. LeaseHolds'
      BY <1>2, <1>5, <2>7 DEF HostInv, LeaseHolds
    <3>6. OnlyReclaims'
      BY <1>1, <1>2, <1>4, <2>2, <2>5, <2>8 DEF HostInv, OnlyReclaims
    <3> QED BY <2>4, <3>2, <3>3, <3>4, <3>5, <3>6 DEF HostInv
  <2> QED BY <2>9, <2>10
<1> QED BY <1>6, <1>7

\* A new connection of the host, perhaps beside one the relay still holds.
LEMMA ConnectStep == ASSUME IInv, HostInv, Connect PROVE IInv' /\ HostInv'
<1>1. PICK c \in Links \ relayLinks : link' = c /\ relayLinks' = relayLinks \cup {c}
  BY DEF Connect
<1>2. /\ SetConnection(Host, TRUE) /\ Watch /\ phase' = "reserve" /\ answer' = NoAnswer
      /\ UNCHANGED <<advertised, reserved, pending>>
  BY DEF Connect, Enter
<1>3. Next
  BY <1>2, RegistrationAssumption DEF Next
<1>4. reply' = NoReply /\ reservations' = reservations /\ Host \in connections'
  BY <1>2 DEF SetConnection
<1>5. taken' \in BOOLEAN /\ (taken => taken')
  BY <1>2 DEF Watch, HostInv, HrTypes
<1>6. HrTypes'
  BY <1>1, <1>2, <1>5 DEF HostInv, HrTypes, Phases
<1>7. RelayTold' /\ CallsPlaced'
  BY <1>1, <1>2, <1>4 DEF HostInv, RelayTold, CallsPlaced, Calling
<1>8. AnswerPlaced' /\ LeaseHolds'
  BY <1>2, AnswerFacts DEF AnswerPlaced, LeaseHolds
<1>9. Host \in DOMAIN byOwner' => Host \in DOMAIN byOwner /\ byOwner'[Host] = byOwner[Host]
  BY <1>3, <1>4, AnswerFacts, HostUntouched
<1>10. OnlyReclaims'
  BY <1>2, <1>5, <1>9 DEF HostInv, OnlyReclaims
<1> QED BY <1>3, <1>6, <1>7, <1>8, <1>10, NextIInv DEF HostInv

\* The host's reservation is granted, or refused while an older one lasts.
LEMMA ReservesStep == ASSUME IInv, HostInv, Reserves PROVE IInv' /\ HostInv'
<1>1. CASE GiveUp
  <2>1. UNCHANGED regVars
    BY <1>1 DEF GiveUp
  <2> QED BY <1>1, <2>1, AsideStep, NextIInv DEF GiveUp, Enter
<1>2. CASE /\ link \in relayLinks /\ reserved' = link /\ SetReservation(Host, TRUE)
           /\ Watch /\ Enter("access")
           /\ UNCHANGED <<advertised, link, relayLinks, pending>>
  <2>0. phase' = "access" /\ answer' = NoAnswer /\ phase = "reserve"
    BY <1>2 DEF Enter, Reserves
  <2>3. Next
    BY <1>2, RegistrationAssumption DEF Next
  <2>4. reply' = NoReply /\ connections' = connections /\ Host \in reservations'
    BY <1>2 DEF SetReservation
  <2>5. taken' \in BOOLEAN /\ (taken => taken')
    BY <1>2 DEF Watch, HostInv, HrTypes
  <2>6. HrTypes'
    BY <1>2, <2>0, <2>5 DEF HostInv, HrTypes, Phases
  <2>7. RelayTold' /\ CallsPlaced'
    BY <1>2, <2>0, <2>4 DEF HostInv, RelayTold, CallsPlaced, Calling
  <2>8. AnswerPlaced' /\ LeaseHolds'
    BY <2>0, AnswerFacts DEF AnswerPlaced, LeaseHolds
  <2>9. Host \in DOMAIN byOwner' => Host \in DOMAIN byOwner /\ byOwner'[Host] = byOwner[Host]
    BY <2>3, <2>4, AnswerFacts, HostUntouched
  <2>10. OnlyReclaims'
    BY <1>2, <2>0, <2>5, <2>9 DEF HostInv, OnlyReclaims
  <2> QED BY <2>3, <2>6, <2>7, <2>8, <2>10, NextIInv DEF HostInv
<1> QED BY <1>1, <1>2 DEF Reserves

\* The relay restarts: the registry is back in its initial state.
LEMMA RestartStep == ASSUME IInv, HostInv, Restart PROVE IInv' /\ HostInv'
<1>1. Init'
  BY DEF Restart, Init
<1>2. IInv'
  BY <1>1, InitIInv, PTL
<1>3. DOMAIN byOwner' = {} /\ LeaseLost'
  BY DEF Restart, LeaseLost
<1>4. HostInv'
  BY <1>3 DEF Restart, HostInv, HrTypes, RelayTold, CallsPlaced, AnswerPlaced, LeaseHolds, OnlyReclaims
<1> QED BY <1>2, <1>4

\* The access policy is the expected one: the host calls, or it is not.
LEMMA AccessStep == ASSUME IInv, HostInv, Access PROVE IInv' /\ HostInv'
<1>1. UNCHANGED regVars /\ UNCHANGED <<advertised, relayLinks, reserved, pending, taken>>
      /\ phase = "access"
  BY DEF Access
<1>2. IInv'
  BY <1>1, NextIInv
<1>3. CASE Enter("exited") /\ link' = None
  BY <1>1, <1>2, <1>3, AsideStep DEF Enter
<1>4. CASE Enter(Registers) /\ link' = link
  <2>1. /\ phase' = Registers /\ answer' = NoAnswer
        /\ phase' \in Calling
        /\ phase' = "allocate" <=> advertised = None
    BY <1>4 DEF Enter, Registers, Calling
  <2> QED BY <1>1, <1>2, <1>4, <2>1, AnswerFacts
          DEF HostInv, HrTypes, RelayTold, CallsPlaced, AnswerPlaced, LeaseHolds, OnlyReclaims,
              Phases, Calling, regVars
<1> QED BY <1>3, <1>4 DEF Access

\* The host sends its call.
LEMMA CallStep == ASSUME IInv, HostInv, Call PROVE IInv' /\ HostInv'
<1>1. /\ UNCHANGED <<regVars, phase, advertised, link, relayLinks, reserved, answer, taken>>
      /\ phase \in Calling /\ link \in relayLinks /\ answer = NoAnswer
      /\ \A c \in pending : c.link # link
  BY DEF Call
<1> DEFINE k == [link |-> link, op |-> phase, locator |-> advertised]
<1>2. pending' = pending \cup {k}
  BY DEF Call
<1>3. k \in HostCalls /\ k.link = link /\ k.op = phase /\ k.locator = advertised
  BY <1>1 DEF HostInv, HrTypes, HostCalls
<1> HIDE DEF k
<1>4. IInv'
  BY <1>1, NextIInv
<1>5. HrTypes' /\ RelayTold'
  BY <1>1, <1>2, <1>3 DEF HostInv, HrTypes, RelayTold, regVars
<1>6. CallsPlaced'
  BY <1>1, <1>2, <1>3 DEF HostInv, CallsPlaced, Calling
<1>7. AnswerPlaced' /\ LeaseHolds'
  BY <1>1, AnswerFacts DEF AnswerPlaced, LeaseHolds, Calling
<1>8. OnlyReclaims'
  BY <1>1, <1>2, <1>3 DEF HostInv, OnlyReclaims, Calling, regVars
<1> QED BY <1>4, <1>5, <1>6, <1>7, <1>8 DEF HostInv

\* The host reads the answer to its reclaim.
LEMMA ReceiveReclaimStep == ASSUME IInv, HostInv, ReceiveReclaim PROVE IInv' /\ HostInv'
<1>1. /\ UNCHANGED <<regVars, advertised, link, relayLinks, reserved, pending>>
      /\ phase = "reclaim" /\ answer # NoAnswer
  BY DEF ReceiveReclaim
<1>2. IInv'
  BY <1>1, NextIInv
<1>3. LeaseLost' = LeaseLost /\ advertised \in Locators
  BY <1>1 DEF LeaseLost, HostInv, CallsPlaced
<1>4. RelayTold'
  BY <1>1 DEF HostInv, RelayTold, regVars
<1>5. CASE Reclaimed /\ phase' = "ready" /\ answer' = NoAnswer /\ taken' = FALSE
  <2>1. /\ pending = {} /\ answer.locator = advertised
        /\ Host \in DOMAIN byOwner => byOwner[Host] = advertised
        /\ ~LeaseLost => Host \in DOMAIN byOwner
    BY <1>5 DEF Reclaimed, HostInv, AnswerPlaced
  <2> QED BY <1>1, <1>2, <1>3, <1>4, <1>5, <2>1, AnswerFacts
          DEF HostInv, HrTypes, CallsPlaced, AnswerPlaced, LeaseHolds, OnlyReclaims,
              Phases, Calling, regVars
<1>6. CASE answer.result = "Conflict" /\ phase' = "allocate" /\ answer' = NoAnswer /\ taken' = taken
  <2>1. taken /\ \A c \in pending : c.link # link
    BY <1>1, <1>6 DEF HostInv, AnswerPlaced
  <2> QED BY <1>1, <1>2, <1>3, <1>4, <1>6, <2>1, AnswerFacts
          DEF HostInv, HrTypes, CallsPlaced, AnswerPlaced, LeaseHolds, OnlyReclaims,
              Phases, Calling, regVars
<1> QED BY <1>5, <1>6 DEF ReceiveReclaim, Enter

\* A step of the host's release, best effort, and the end of the process.
LEMMA ExitStep ==
    ASSUME IInv, HostInv, phase' = "exited", answer' = NoAnswer, link' = None, Watch,
           UNCHANGED <<advertised, relayLinks, reserved, pending>>,
           [\E l \in Locators : Release(Host, l)]_regVars
    PROVE  IInv' /\ HostInv'
<1>1. [Next]_regVars /\ UNCHANGED <<reservations, connections>>
  BY RegistrationAssumption DEF Next, Release, regVars
<1>2. IInv'
  BY <1>1, NextIInv
<1>3. taken' \in BOOLEAN /\ (taken => taken')
  BY DEF Watch, HostInv, HrTypes
<1>4. Host \in DOMAIN byOwner' => Host \in DOMAIN byOwner /\ byOwner'[Host] = byOwner[Host]
  <2>1. CASE UNCHANGED regVars
    BY <2>1 DEF regVars
  <2>2. CASE \E l \in Locators : Release(Host, l)
    <3>1. reply'.result = "Released"
      BY <2>2 DEF Release, Answer
    <3> QED BY <1>1, <3>1, PeerGains
  <2> QED BY <2>1, <2>2
<1>5. HostInv'
  BY <1>1, <1>3, <1>4, AnswerFacts
     DEF HostInv, HrTypes, RelayTold, CallsPlaced, AnswerPlaced, LeaseHolds, OnlyReclaims, Phases, Calling
<1> QED BY <1>2, <1>5

\* The host reads the answer to its allocate.
LEMMA ReceiveAllocateStep == ASSUME IInv, HostInv, ReceiveAllocate PROVE IInv' /\ HostInv'
<1>1. /\ UNCHANGED <<relayLinks, reserved, pending>>
      /\ phase = "allocate" /\ answer.result = "Acquired"
  BY DEF ReceiveAllocate
<1>2. /\ pending = {} /\ answer.locator \in Locators
      /\ Host \in DOMAIN byOwner => byOwner[Host] = answer.locator
      /\ ~LeaseLost => Host \in DOMAIN byOwner
  BY <1>1 DEF HostInv, AnswerPlaced
<1>3. CASE /\ phase' = "ready" /\ answer' = NoAnswer /\ advertised' = answer.locator
           /\ taken' = FALSE /\ UNCHANGED <<regVars, link>>
  <2>1. IInv'
    BY <1>3, NextIInv
  <2>2. LeaseLost' = LeaseLost
    BY <1>1, <1>3 DEF LeaseLost
  <2> QED BY <1>1, <1>2, <1>3, <2>1, <2>2, AnswerFacts
          DEF HostInv, HrTypes, RelayTold, CallsPlaced, AnswerPlaced, LeaseHolds, OnlyReclaims,
              Phases, Calling, regVars
<1>4. CASE /\ phase' = "exited" /\ answer' = NoAnswer /\ link' = None /\ Watch
           /\ IF relayLinks = {link} THEN Release(Host, answer.locator) ELSE UNCHANGED regVars
           /\ UNCHANGED advertised
  BY <1>1, <1>2, <1>4, ExitStep
<1> QED BY <1>3, <1>4 DEF ReceiveAllocate, Enter

\* The session is over.
LEMMA EndsStep == ASSUME IInv, HostInv, Ends PROVE IInv' /\ HostInv'
<1>1. /\ phase = "ready" /\ phase' = "exited" /\ answer' = NoAnswer /\ link' = None /\ Watch
      /\ UNCHANGED <<advertised, relayLinks, reserved, pending>>
      /\ Release(Host, advertised) \/ UNCHANGED regVars
  BY DEF Ends, Enter
<1>2. advertised \in Locators
  BY <1>1 DEF HostInv, CallsPlaced
<1> QED BY <1>1, <1>2, ExitStep

\* The exchange is repeated after Retry.
LEMMA ReceiveRetryStep == ASSUME IInv, HostInv, ReceiveRetry PROVE IInv' /\ HostInv'
<1>1. /\ UNCHANGED <<regVars, phase, advertised, link, relayLinks, reserved, pending, taken>>
      /\ answer' = NoAnswer /\ phase \in Calling
  BY DEF ReceiveRetry
<1>2. IInv'
  BY <1>1, NextIInv
<1> QED BY <1>1, <1>2, AnswerFacts
        DEF HostInv, HrTypes, RelayTold, CallsPlaced, AnswerPlaced, LeaseHolds, OnlyReclaims,
            Phases, Calling, regVars

\* The host gives up an attempt, starts over, loses its connection or is
\* interrupted: nothing moves at the relay.
LEMMA LeavingStep ==
    ASSUME IInv, HostInv,
           CallFails \/ ReceiveRefusal \/ BackoffEnds \/ RecoveryStarts \/ HostLosesLink \/ Interrupt
    PROVE  IInv' /\ HostInv'
<1>1. /\ UNCHANGED <<advertised, relayLinks, reserved, pending, taken, regVars>>
      /\ phase' \in {"connect", "backoff", "exited"} /\ answer' = NoAnswer
      /\ link' \in {link, None}
  BY DEF CallFails, ReceiveRefusal, BackoffEnds, RecoveryStarts, HostLosesLink, Interrupt, GiveUp, Enter
<1> QED BY <1>1, AsideStep, NextIInv

\* The inductive invariant is preserved by every step of the composition.
LEMMA HrNextInv ==
    ASSUME IInv, HostInv, [HrNext /\ UNCHANGED prompt]_<<prompt, hrVars>>
    PROVE  IInv' /\ HostInv'
<1>1. CASE UNCHANGED hrVars
  <2>1. UNCHANGED regVars /\ UNCHANGED hostVars
    BY <1>1 DEF hrVars
  <2>2. HostInv'
    BY <2>1 DEF HostInv, HrTypes, RelayTold, CallsPlaced, AnswerPlaced, LeaseHolds, OnlyReclaims,
         LeaseLost, hostVars, regVars
  <2> QED BY <2>1, <2>2, NextIInv
<1>2. CASE HrNext
  BY <1>2, ConnectStep, ReservesStep, AccessStep, CallStep, ReceiveReclaimStep, ReceiveAllocateStep,
     ReceiveRetryStep, LeavingStep, EndsStep, ServeStep, RelayClosesStep, ReservationEndsStep,
     RestartStep, OthersStep DEF HrNext, Receive
<1> QED BY <1>1, <1>2

\* The code a waiting host shows leads to it for as long as the connection and
\* the reservation it registered over last, whatever the network, the relay
\* and the other hosts did before.
THEOREM RegistrationAdvertised == HrSpec => []AdvertisedIsRegistered
<1>1. IInv /\ HostInv => AdvertisedIsRegistered
  <2> SUFFICES ASSUME IInv, HostInv, phase = "ready", ~LeaseLost PROVE Registered
    BY DEF AdvertisedIsRegistered
  <2>1. Host \in DOMAIN byOwner /\ byOwner[Host] = advertised
    BY DEF HostInv, LeaseHolds
  <2>2. advertised \in DOMAIN byLocator /\ byLocator[advertised].owner = Host
    BY <2>1 DEF IInv, Coherent
  <2> QED BY <2>2, LeaseIsAvailable DEF IInv, ActiveIffAvailable, Registered
<1> QED BY <1>1, HrInitInv, HrNextInv, PTL DEF HrSpec

\* A printed code is replaced only when another host got its locator since the
\* code was last registered: a recovery never gives a code up by itself.
THEOREM RegistrationKeepsCode == HrSpec => CodeKeptUnlessTaken
<1>1. HostInv /\ [HrNext /\ UNCHANGED prompt]_<<prompt, hrVars>>
         => [advertised # None /\ advertised' # advertised => taken]_hrVars
  <2> SUFFICES ASSUME HostInv, HrNext, advertised # None, advertised' # advertised PROVE taken
    BY DEF hrVars, hostVars
  <2>1. phase = "allocate"
    BY DEF HrNext, Connect, Reserves, Access, Call, CallFails, Receive, ReceiveReclaim, ReceiveAllocate,
           ReceiveRetry, ReceiveRefusal, BackoffEnds, RecoveryStarts, HostLosesLink, Ends, Interrupt,
           Serve, RelayCloses, ReservationEnds, Restart, Others, GiveUp
  <2> QED BY <2>1 DEF HostInv, OnlyReclaims, HrTypes
<1> QED BY <1>1, HrInitInv, HrNextInv, PTL DEF HrSpec, CodeKeptUnlessTaken
=============================================================================
