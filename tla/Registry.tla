------------------------------ MODULE Registry ------------------------------
(***************************************************************************)
(* The relay's rendezvous registry, crates/yon-relay/src/registry.rs.      *)
(*                                                                         *)
(* A host that holds a relay reservation over a live relay connection owns *)
(* one locator (the public half of its connection code).  The registry is  *)
(* a single-owner value: every public method of Registry<C> is one atomic  *)
(* action here, and every method starts by pruning mappings that have been *)
(* suspended for SUSPEND_GRACE.                                            *)
(*                                                                         *)
(* The three hash maps are kept as the three variables they are, because   *)
(* their agreement is what refresh's `expect` relies on.  A Suspended      *)
(* mapping records `since`; the model keeps now - since instead, counted   *)
(* in clock ticks and saturating at Grace, which is all prune looks at.    *)
(***************************************************************************)
EXTENDS Naturals, FiniteSets

CONSTANTS
    Peers,      \* PeerId values
    Sources,    \* SourcePrefix values (IPv4 /32 or IPv6 /64)
    Locators,   \* the locator ring
    Capacity,   \* RegistrationLimits::capacity
    PerSource,  \* RegistrationLimits::per_source
    Grace       \* SUSPEND_GRACE, in clock ticks

\* Capacity and quota are validated non-zero and the ring (2^20 locators) is
\* larger than any configurable capacity (at most 320), so the ring scan of
\* `allocate` always meets a free locator.
ASSUME RegistryAssumption ==
    /\ IsFiniteSet(Locators)
    /\ Capacity \in Nat \ {0}
    /\ PerSource \in Nat \ {0}
    /\ Grace \in Nat \ {0}
    /\ Capacity < Cardinality(Locators)

VARIABLES
    byLocator,     \* by_locator: partial function Locators -> Mapping
    byOwner,       \* by_owner: partial function Peers -> Locators
    bySource,      \* by_source: an absent key is count 0
    reservations,  \* peers holding a relay reservation
    connections,   \* peers with at least one relay connection
    reply          \* the call answered last and its answer

regVars == <<byLocator, byOwner, bySource, reservations, connections, reply>>

Mapping == [owner: Peers, source: Sources,
            state: {"Active", "Suspended"}, age: 0..Grace]

\* RegistryResponse and ResolveResponse, and the root failure of the random
\* source.
Replies ==
    [op: {"none"}, result: {"none"}]
      \cup [op: {"allocate", "reclaim"}, peer: Peers,
            result: {"ReservationRequired", "Conflict", "Capacity", "RandomFailed"}]
      \cup [op: {"allocate", "reclaim"}, peer: Peers, result: {"Acquired"},
            locator: Locators]
      \cup [op: {"release"}, peer: Peers, result: {"Released"}]
      \cup [op: {"resolve"}, result: {"Unavailable", "Retry"}, locator: Locators]
      \cup [op: {"resolve"}, result: {"Resolved"}, locator: Locators, peer: Peers]

NoReply == [op |-> "none", result |-> "none"]

\* The part of a function (a hash map) on the keys in S.
Keep(f, S) == [x \in S |-> f[x]]

\* The function (hash map) f after inserting value v under key k.
Put(f, k, v) == [x \in DOMAIN f \cup {k} |-> IF x = k THEN v ELSE f[x]]

-----------------------------------------------------------------------------
(* The tables after prune(): what every method works on. *)

\* Mappings suspended for at least SUSPEND_GRACE.
Expired == {l \in DOMAIN byLocator :
               /\ byLocator[l].state = "Suspended"
               /\ byLocator[l].age >= Grace}

Kept == DOMAIN byLocator \ Expired

\* Locators of mapping table m charged to source s.
ChargedTo(m, s) == {l \in DOMAIN m : m[l].source = s}

PrunedByLocator == Keep(byLocator, Kept)

PrunedByOwner == Keep(byOwner, DOMAIN byOwner \ {byLocator[l].owner : l \in Expired})

\* Mutant of PrunedBySource: prune leaks the quota of the mappings it drops.
PrunedBySourceLeak == bySource

PrunedBySource ==
    [s \in Sources |->
        bySource[s] - Cardinality(ChargedTo(byLocator, s) \cap Expired)]

Prune == /\ byLocator' = PrunedByLocator
         /\ byOwner' = PrunedByOwner
         /\ bySource' = PrunedBySource

IsAvailable(p, res, con) == p \in res /\ p \in con

HasCapacity(s) == /\ Cardinality(Kept) < Capacity
                  /\ PrunedBySource[s] < PerSource

\* insert(): the three indexes move together, after the prune.
Insert(l, p, s) ==
    /\ byLocator' = Put(PrunedByLocator, l, [owner |-> p, source |-> s,
                                             state |-> "Active", age |-> 0])
    /\ byOwner' = Put(PrunedByOwner, p, l)
    /\ bySource' = [PrunedBySource EXCEPT ![s] = @ + 1]

\* remove() of one locator, after the prune.
Remove(l) ==
    /\ byLocator' = Keep(PrunedByLocator, Kept \ {l})
    /\ byOwner' = Keep(PrunedByOwner, DOMAIN PrunedByOwner \ {byLocator[l].owner})
    /\ bySource' = [PrunedBySource EXCEPT ![byLocator[l].source] = @ - 1]

\* Mapping m with another state; owner and source never change.
InState(m, state, age) ==
    [owner |-> m.owner, source |-> m.source, state |-> state, age |-> age]

\* Mutant of Refreshed: every loss restarts the grace period.
RefreshedRestarts(m, avail) ==
    IF avail THEN InState(m, "Active", 0) ELSE InState(m, "Suspended", 0)

\* refresh(): the state of mapping m once its owner's availability is avail.
Refreshed(m, avail) ==
    IF avail THEN InState(m, "Active", 0)
    ELSE IF m.state = "Active" THEN InState(m, "Suspended", 0)
    ELSE m

\* refresh() looks the mapping up through by_owner and expects to find it.
Refresh(p, avail) ==
    /\ byLocator' = IF p \in DOMAIN PrunedByOwner
                    THEN [PrunedByLocator EXCEPT ![byOwner[p]] = Refreshed(@, avail)]
                    ELSE PrunedByLocator
    /\ byOwner' = PrunedByOwner
    /\ bySource' = PrunedBySource

-----------------------------------------------------------------------------
Init == /\ byLocator = [l \in {} |-> l]
        /\ byOwner = [p \in {} |-> p]
        /\ bySource = [s \in Sources |-> 0]
        /\ reservations = {}
        /\ connections = {}
        /\ reply = NoReply

SetReservation(p, available) ==
    /\ reservations' = IF available THEN reservations \cup {p}
                                    ELSE reservations \ {p}
    /\ Refresh(p, IsAvailable(p, reservations', connections))
    /\ reply' = NoReply
    /\ UNCHANGED connections

SetConnection(p, available) ==
    /\ connections' = IF available THEN connections \cup {p}
                                   ELSE connections \ {p}
    /\ Refresh(p, IsAvailable(p, reservations, connections'))
    /\ reply' = NoReply
    /\ UNCHANGED reservations

Answer(op, p, result) == reply' = [op |-> op, peer |-> p, result |-> result]

Acquired(op, p, l) ==
    reply' = [op |-> op, peer |-> p, result |-> "Acquired", locator |-> l]

\* A call that changes nothing beyond the prune.
Refuse(op, p, result) == Prune /\ Answer(op, p, result)

\* allocate(): the scan starts at a random locator and walks the ring, so any
\* free locator can be the one found.  The random source may fail.
Allocate(p, s) ==
    /\ \/ /\ ~IsAvailable(p, reservations, connections)
          /\ Refuse("allocate", p, "ReservationRequired")
       \/ /\ IsAvailable(p, reservations, connections)
          /\ p \in DOMAIN PrunedByOwner
          /\ Prune /\ Acquired("allocate", p, byOwner[p])
       \/ /\ IsAvailable(p, reservations, connections)
          /\ p \notin DOMAIN PrunedByOwner
          /\ ~HasCapacity(s)
          /\ Refuse("allocate", p, "Capacity")
       \/ /\ IsAvailable(p, reservations, connections)
          /\ p \notin DOMAIN PrunedByOwner
          /\ HasCapacity(s)
          /\ \/ Refuse("allocate", p, "RandomFailed")
             \/ \E l \in Locators \ Kept :
                   /\ Insert(l, p, s)
                   /\ Acquired("allocate", p, l)
    /\ UNCHANGED <<reservations, connections>>

\* reclaim(): take back a named locator after a short relay reconnect.
Reclaim(p, s, l) ==
    /\ \/ /\ ~IsAvailable(p, reservations, connections)
          /\ Refuse("reclaim", p, "ReservationRequired")
       \/ /\ IsAvailable(p, reservations, connections)
          /\ p \in DOMAIN PrunedByOwner
          /\ \/ byOwner[p] = l /\ Prune /\ Acquired("reclaim", p, l)
             \/ byOwner[p] # l /\ Refuse("reclaim", p, "Conflict")
       \/ /\ IsAvailable(p, reservations, connections)
          /\ p \notin DOMAIN PrunedByOwner
          /\ l \in Kept
          /\ Refuse("reclaim", p, "Conflict")
       \/ /\ IsAvailable(p, reservations, connections)
          /\ p \notin DOMAIN PrunedByOwner
          /\ l \notin Kept
          /\ ~HasCapacity(s)
          /\ Refuse("reclaim", p, "Capacity")
       \/ /\ IsAvailable(p, reservations, connections)
          /\ p \notin DOMAIN PrunedByOwner
          /\ l \notin Kept
          /\ HasCapacity(s)
          /\ Insert(l, p, s)
          /\ Acquired("reclaim", p, l)
    /\ UNCHANGED <<reservations, connections>>

\* release(): only the caller's own mapping, and always Released.
Release(p, l) ==
    /\ IF p \in DOMAIN PrunedByOwner /\ byOwner[p] = l THEN Remove(l) ELSE Prune
    /\ Answer("release", p, "Released")
    /\ UNCHANGED <<reservations, connections>>

\* resolve(): the owner of an Active mapping, Retry for a Suspended one.
Resolve(l) ==
    /\ Prune
    /\ \/ /\ l \notin Kept
          /\ reply' = [op |-> "resolve", result |-> "Unavailable", locator |-> l]
       \/ /\ l \in Kept
          /\ byLocator[l].state = "Active"
          /\ reply' = [op |-> "resolve", result |-> "Resolved", locator |-> l,
                       peer |-> byLocator[l].owner]
       \/ /\ l \in Kept
          /\ byLocator[l].state = "Suspended"
          /\ reply' = [op |-> "resolve", result |-> "Retry", locator |-> l]
    /\ UNCHANGED <<reservations, connections>>

\* The monotonic clock advances: every suspension grows older.
Tick ==
    /\ byLocator' = [l \in DOMAIN byLocator |->
                        IF byLocator[l].state = "Suspended" /\ byLocator[l].age < Grace
                        THEN InState(byLocator[l], "Suspended", byLocator[l].age + 1)
                        ELSE byLocator[l]]
    /\ reply' = NoReply
    /\ UNCHANGED <<byOwner, bySource, reservations, connections>>

Next == \/ \E p \in Peers, b \in BOOLEAN : SetReservation(p, b) \/ SetConnection(p, b)
        \/ \E p \in Peers, s \in Sources : Allocate(p, s)
        \/ \E p \in Peers, s \in Sources, l \in Locators : Reclaim(p, s, l)
        \/ \E p \in Peers, l \in Locators : Release(p, l)
        \/ \E l \in Locators : Resolve(l)
        \/ Tick

Spec == Init /\ [][Next]_regVars

-----------------------------------------------------------------------------
(* Properties *)

\* Every table of the registry holds keys and values of its declared types.
TypeOK ==
    /\ DOMAIN byLocator \subseteq Locators
    /\ byLocator \in [DOMAIN byLocator -> Mapping]
    /\ DOMAIN byOwner \subseteq Peers
    /\ byOwner \in [DOMAIN byOwner -> Locators]
    /\ bySource \in [Sources -> Nat]
    /\ reservations \subseteq Peers
    /\ connections \subseteq Peers
    /\ reply \in Replies

OwnersAgree ==
    /\ \A l \in DOMAIN byLocator : /\ byLocator[l].owner \in DOMAIN byOwner
                                   /\ byOwner[byLocator[l].owner] = l
    /\ \A p \in DOMAIN byOwner : /\ byOwner[p] \in DOMAIN byLocator
                                 /\ byLocator[byOwner[p]].owner = p

SourceCountsExact ==
    \A s \in Sources : bySource[s] = Cardinality(ChargedTo(byLocator, s))

\* by_locator and by_owner are inverse to each other after every method: the
\* `expect("owner and locator indexes are updated atomically")` of refresh
\* cannot fail and one peer never owns two locators.  by_source counts exactly
\* the mappings of each prefix, so prune and release neither leak a quota nor
\* hand it out twice.
IndexesAgree == OwnersAgree /\ SourceCountsExact

\* A mapping is Active exactly while its owner holds both a reservation and a
\* connection, in whichever order the swarm reports the two halves.
ActiveIffAvailable ==
    \A l \in DOMAIN byLocator :
        byLocator[l].state = "Active"
            <=> IsAvailable(byLocator[l].owner, reservations, connections)

\* Active and Suspended mappings together stay within the total capacity and
\* every source prefix within its quota.
WithinLimits ==
    /\ Cardinality(DOMAIN byLocator) <= Capacity
    /\ \A s \in Sources : Cardinality(ChargedTo(byLocator, s)) <= PerSource

\* A controller is only ever sent to a peer that owns the locator it asked for
\* and is reachable through this relay when the registry answers.
ResolvedIsReachable ==
    reply.result = "Resolved" =>
        /\ IsAvailable(reply.peer, reservations, connections)
        /\ reply.peer \in DOMAIN byOwner
        /\ byOwner[reply.peer] = reply.locator

\* A host keeps its locator, and the source it was charged to, through any
\* sequence of losses and reconnects: a mapping ends or changes owner only by
\* its own owner's release or after a full grace period of suspension.  That
\* period is counted from the loss that suspended the mapping: a second loss
\* or a partial recovery (only the reservation or only the connection back)
\* never restarts it.
LocatorHeldUntilReleaseOrGrace ==
    [][\A l \in DOMAIN byLocator :
          \/ /\ l \in DOMAIN byLocator'
             /\ byLocator'[l].owner = byLocator[l].owner
             /\ byLocator'[l].source = byLocator[l].source
             /\ \/ byLocator[l].state = "Active"
                \/ byLocator'[l].state = "Active"
                \/ byLocator'[l].age >= byLocator[l].age
          \/ byLocator[l].state = "Suspended" /\ byLocator[l].age >= Grace
          \/ reply'.op = "release" /\ reply'.peer = byLocator[l].owner]_regVars
=============================================================================
