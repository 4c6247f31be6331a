---------------------------- MODULE ResolveProofs ----------------------------
(***************************************************************************)
(* How a resolve request is admitted: the limits every request passes, and *)
(* the enterprise exchange that some go through after them.                *)
(*                                                                         *)
(* The source table of ResolveLimiters never overflows, for every limit    *)
(* ResolveLimits::new accepts.  The inductive invariant weighs the entries *)
(* seen within every shorter window against the global limiter's debt: k   *)
(* ticks pay for at most k, so what was admitted within k ticks is either  *)
(* still owed or was paid for in them.                                     *)
(*                                                                         *)
(* Enterprise access for any number of exchanges, callbacks, providers and *)
(* permits.  The invariant follows a session from the registration it is   *)
(* queued with, through the registry, a handler and a queued completion,   *)
(* to the exchange that waits for it: it is in one of those places only,   *)
(* and an admission is carried only with the verification behind it.       *)
(***************************************************************************)
EXTENDS ResolveLimiters, EnterpriseResolve, FiniteSetTheorems, TLAPS

\* The sources seen during the last k ticks, the current one included.
Seen(k) == {s \in DOMAIN sources : sources[s].age < k}

\* What was admitted within k ticks is owed or was paid within them.
Weighed == \A k \in 1..Idle : Cardinality(Seen(k)) * Period <= global + (k - 1)

\* A source limiter's debt and its recovery since it was last seen.
Recovering == \A s \in DOMAIN sources :
    \/ sources[s].debt = 0
    \/ sources[s].debt + sources[s].age <= (SourceBurst + 1) * SourcePeriod

IInv == /\ TypeOK
        /\ IsFiniteSet(DOMAIN sources)
        /\ Weighed
        /\ Recovering
        /\ TableNeverFull

-----------------------------------------------------------------------------
(* Arithmetic the provers need product by product. *)

LEMMA Constants ==
    /\ Period \in Nat \ {0} /\ GlobalBurst \in Nat \ {0} /\ SourcePeriod \in Nat \ {0}
    /\ SourceBurst \in Nat \ {0} /\ Window \in Nat \ {0} /\ TableCapacity \in Nat \ {0}
    /\ NoSource \notin Sources
    /\ Window + GlobalBurst <= TableCapacity
  BY ResolveLimitsAssumption

LEMMA IdlePositive == Idle \in Nat /\ Idle >= 1
  BY Constants, SMT DEF Idle

\* One more entry weighs one period more.
LEMMA OneMore ==
    ASSUME NEW m \in Nat, NEW n \in Nat, n <= m + 1
    PROVE  n * Period <= m * Period + Period
  BY Constants, SMT

LEMMA NoMore ==
    ASSUME NEW m \in Nat, NEW n \in Nat, n <= m
    PROVE  n * Period <= m * Period
  BY Constants, SMT

\* Less than a full table's weight is less than a full table.
LEMMA Lighter ==
    ASSUME NEW n \in Nat, n * Period < (Window + GlobalBurst) * Period
    PROVE  n < Window + GlobalBurst
  <1>1. ASSUME n >= Window + GlobalBurst PROVE FALSE
    <2>1. (Window + GlobalBurst) * Period <= n * Period
      BY <1>1, Constants, NoMore
    <2> QED  BY <2>1, Constants
  <1> QED  BY <1>1, Constants

\* The source debt after a passed check.
LEMMA SourceDebt ==
    ASSUME NEW d \in Nat, MayPass(d, SourceBurst, SourcePeriod)
    PROVE  d + SourcePeriod \in Nat /\ d + SourcePeriod <= (SourceBurst + 1) * SourcePeriod
  <1>1. (SourceBurst + 1) * SourcePeriod = SourceBurst * SourcePeriod + SourcePeriod
    BY Constants, SMT
  <1> QED  BY <1>1, Constants DEF MayPass

-----------------------------------------------------------------------------
(* The steps *)

LEMMA InitInv == Init => IInv
  <1> SUFFICES ASSUME Init PROVE IInv
    OBVIOUS
  <1>1. DOMAIN sources = {}
    BY DEF Init
  <1>2. \A k : Seen(k) = {}
    BY <1>1 DEF Seen
  <1>3. Weighed
    <2> SUFFICES ASSUME NEW k \in 1..Idle
                 PROVE  Cardinality(Seen(k)) * Period <= global + (k - 1)
      BY DEF Weighed
    <2>1. Cardinality(Seen(k)) = 0
      BY <1>2, FS_EmptySet
    <2> QED  BY <2>1, Constants, IdlePositive DEF Init
  <1> QED  BY <1>1, <1>3, FS_EmptySet DEF Init, IInv, TypeOK, Verdicts, Recovering, TableNeverFull

\* A window's cardinality is a number.
LEMMA SeenFinite ==
    ASSUME IsFiniteSet(DOMAIN sources), NEW k
    PROVE  IsFiniteSet(Seen(k)) /\ Cardinality(Seen(k)) \in Nat
  BY FS_Subset, FS_CardinalityType DEF Seen

\* Before the table is consulted the recent entries leave room.
LEMMA RoomLeft ==
    ASSUME IInv, MayPass(global, GlobalBurst, Period)
    PROVE  Cardinality(Recent) # TableCapacity
  <1>1. Recent = Seen(Idle)
    BY DEF Recent, Seen
  <1> DEFINE n == Cardinality(Seen(Idle))
  <1>2. n \in Nat
    BY SeenFinite DEF IInv
  <1>3. n * Period <= global + (Idle - 1)
    BY IdlePositive DEF IInv, Weighed
  <1>4. (Window + GlobalBurst) * Period = Window * Period + GlobalBurst * Period
    BY Constants, SMT
  <1>5. n * Period \in Nat
    BY <1>2, Constants, SMT
  <1>6. GlobalBurst * Period \in Nat /\ Window * Period \in Nat
    BY Constants, SMT
  <1>7. n * Period < (Window + GlobalBurst) * Period
    <2> HIDE DEF n
    <2>1. global <= GlobalBurst * Period
      BY DEF MayPass
    <2>2. global \in Nat
      BY DEF IInv, TypeOK
    <2>3. (Window + GlobalBurst) * Period = Idle + GlobalBurst * Period
      BY <1>4 DEF Idle
    <2> DEFINE w == n * Period
               g == GlobalBurst * Period
    <2>4. w \in Nat /\ g \in Nat /\ w <= global + (Idle - 1) /\ global <= g
      BY <1>3, <1>5, <1>6, <2>1
    <2> HIDE DEF w, g
    <2>5. w < Idle + g
      BY <2>2, <2>4, IdlePositive
    <2> QED  BY <2>3, <2>5 DEF w, g
  <1>8. n < Window + GlobalBurst
    <2> HIDE DEF n
    <2> QED  BY <1>2, <1>7, Lighter
  <1> HIDE DEF n
  <1>9. n # TableCapacity
    BY <1>2, <1>8, Constants
  <1> QED  BY <1>1, <1>9 DEF n

\* Storing one entry with a debt in bounds, against one cell of global debt.
LEMMA StoreKeeps ==
    ASSUME IInv, NEW s \in Sources, NEW d \in Nat, d <= (SourceBurst + 1) * SourcePeriod,
           sources' = Stored(s, d), global' = global + Period,
           result' \in {"Allowed", "SourceLimited"}
    PROVE  IInv'
  <1> USE IdlePositive
  <1>1. DOMAIN sources' = Recent \cup {s}
    BY DEF Stored
  <1>2. IsFiniteSet(DOMAIN sources')
    <2>1. IsFiniteSet(Recent)
      BY FS_Subset DEF Recent, IInv
    <2> QED  BY <1>1, <2>1, FS_AddElement
  <1>3. \A t \in DOMAIN sources' :
           sources'[t] = IF t = s THEN [debt |-> d, age |-> 0] ELSE sources[t]
    BY DEF Stored
  <1>4. TypeOK'
    BY <1>1, <1>3, Constants DEF IInv, TypeOK, Recent, Entry, Verdicts
  <1>5. Recovering'
    BY <1>1, <1>3 DEF IInv, Recovering, Recent
  <1>6. Weighed'
    <2> SUFFICES ASSUME NEW k \in 1..Idle
                 PROVE  Cardinality(Seen(k)') * Period <= global' + (k - 1)
      BY DEF Weighed
    <2>1. Seen(k)' \subseteq Seen(k) \cup {s}
      BY <1>1, <1>3 DEF Seen, Recent
    <2>2. IsFiniteSet(Seen(k)) /\ Cardinality(Seen(k)) \in Nat
      BY SeenFinite DEF IInv
    <2>3. IsFiniteSet(Seen(k) \cup {s}) /\ Cardinality(Seen(k) \cup {s}) <= Cardinality(Seen(k)) + 1
          /\ Cardinality(Seen(k) \cup {s}) \in Nat
      <3>1. /\ IsFiniteSet(Seen(k) \cup {s})
            /\ \/ Cardinality(Seen(k) \cup {s}) = Cardinality(Seen(k))
               \/ Cardinality(Seen(k) \cup {s}) = Cardinality(Seen(k)) + 1
        BY <2>2, FS_AddElement, Zenon
      <3> QED  BY <2>2, <3>1
    <2>4. Cardinality(Seen(k)') \in Nat /\ Cardinality(Seen(k)') <= Cardinality(Seen(k) \cup {s})
      BY <2>1, <2>3, FS_Subset, FS_CardinalityType
    <2> DEFINE m == Cardinality(Seen(k))
               n == Cardinality(Seen(k)')
    <2>5. m \in Nat /\ n \in Nat /\ n <= m + 1
      BY <2>2, <2>3, <2>4
    <2>6. m * Period <= global + (k - 1)
      BY DEF IInv, Weighed
    <2> HIDE DEF m, n
    <2>7. n * Period <= m * Period + Period
      BY <2>5, OneMore
    <2>8. m * Period \in Nat /\ n * Period \in Nat
      BY <2>5, Constants, SMT
    <2>9. n * Period <= global + Period + (k - 1)
      <3> DEFINE a == m * Period
                 b == n * Period
      <3>1. a \in Nat /\ b \in Nat /\ b <= a + Period /\ a <= global + (k - 1)
        BY <2>6, <2>7, <2>8
      <3> HIDE DEF a, b
      <3>2. b <= global + Period + (k - 1)
        BY <3>1, Constants DEF IInv, TypeOK
      <3> QED  BY <3>2 DEF b
    <2> QED  BY <2>9 DEF n
  <1> QED  BY <1>2, <1>4, <1>5, <1>6 DEF IInv, TableNeverFull

LEMMA ResolveKeeps ==
    ASSUME IInv, NEW s \in Sources \cup {NoSource}, Resolve(s)
    PROVE  IInv'
  <1>1. CASE global' = global /\ sources' = sources /\ result' = "GlobalLimited"
    BY <1>1 DEF IInv, TypeOK, Verdicts, Weighed, Seen, Recovering, TableNeverFull
  <1>2. CASE MayPass(global, GlobalBurst, Period) /\ global' = global + Period
             /\ result' = "NoSource" /\ sources' = sources
    <2>1. Weighed'
      <3> SUFFICES ASSUME NEW k \in 1..Idle
                   PROVE  Cardinality(Seen(k)') * Period <= global' + (k - 1)
        BY DEF Weighed
      <3>1. Cardinality(Seen(k)') = Cardinality(Seen(k))
        BY <1>2 DEF Seen
      <3> DEFINE m == Cardinality(Seen(k))
      <3>2. m \in Nat
        BY SeenFinite DEF IInv
      <3>3. m * Period <= global + (k - 1)
        BY DEF IInv, Weighed
      <3> HIDE DEF m
      <3>4. m * Period \in Nat
        BY <3>2, Constants, SMT
      <3>5. m * Period <= global' + (k - 1)
        <4> DEFINE a == m * Period
        <4>1. a \in Nat /\ a <= global + (k - 1)
          BY <3>3, <3>4
        <4> HIDE DEF a
        <4>2. a <= global' + (k - 1)
          BY <1>2, <4>1, Constants, IdlePositive DEF IInv, TypeOK
        <4> QED  BY <4>2 DEF a
      <3> QED  BY <3>1, <3>5 DEF m
    <2>2. TypeOK'
      BY <1>2, Constants DEF IInv, TypeOK, Verdicts
    <2> QED  BY <1>2, <2>1, <2>2 DEF IInv, Recovering, TableNeverFull
  <1>3. CASE MayPass(global, GlobalBurst, Period) /\ global' = global + Period
             /\ s # NoSource /\ CheckKnown(s)
    <2>1. s \in Sources /\ s \in DOMAIN sources
      BY <1>3 DEF CheckKnown, Recent
    <2>2. sources[s].debt \in Nat /\ sources[s].age \in Nat
      BY <2>1, IdlePositive DEF IInv, TypeOK, Entry
    <2>3. CASE MayPass(sources[s].debt, SourceBurst, SourcePeriod)
               /\ sources' = Stored(s, sources[s].debt + SourcePeriod) /\ result' = "Allowed"
      BY <1>3, <2>1, <2>2, <2>3, SourceDebt, StoreKeeps
    <2>4. CASE sources' = Stored(s, sources[s].debt) /\ result' = "SourceLimited"
      <3>1. (SourceBurst + 1) * SourcePeriod \in Nat
        BY Constants, SMT
      <3>2. sources[s].debt <= (SourceBurst + 1) * SourcePeriod
        BY <2>1, <2>2, <3>1 DEF IInv, Recovering
      <3> QED  BY <1>3, <2>1, <2>2, <2>4, <3>2, StoreKeeps
    <2> QED  BY <1>3, <2>3, <2>4 DEF CheckKnown
  <1>4. CASE MayPass(global, GlobalBurst, Period) /\ global' = global + Period
             /\ s # NoSource /\ CheckNew(s)
    <2>1. sources' = Stored(s, SourcePeriod) /\ result' = "Allowed"
      BY <1>4, RoomLeft DEF CheckNew
    <2>2. SourcePeriod \in Nat /\ SourcePeriod <= (SourceBurst + 1) * SourcePeriod
      BY Constants, SMT
    <2>3. s \in Sources
      BY <1>4
    <2> QED  BY <1>4, <2>1, <2>2, <2>3, StoreKeeps
  <1> QED  BY <1>1, <1>2, <1>3, <1>4 DEF Resolve, CheckSource

LEMMA TickKeeps ==
    ASSUME IInv, Tick
    PROVE  IInv'
  <1> USE IdlePositive
  <1>1. DOMAIN sources' = DOMAIN sources /\ result' = result /\ global' = Paid(global)
    BY DEF Tick
  <1>2. \A s \in DOMAIN sources :
           /\ sources[s].debt \in Nat /\ sources[s].age \in 0..Idle
           /\ sources'[s] = [debt |-> Paid(sources[s].debt), age |-> Aged(sources[s].age)]
    BY DEF Tick, IInv, TypeOK, Entry
  <1>3. TypeOK'
    BY <1>1, <1>2 DEF IInv, TypeOK, Paid, Aged, Entry
  <1>4. Recovering'
    <2> SUFFICES ASSUME NEW s \in DOMAIN sources
                 PROVE  \/ sources'[s].debt = 0
                        \/ sources'[s].debt + sources'[s].age <= (SourceBurst + 1) * SourcePeriod
      BY <1>1 DEF Recovering
    <2> DEFINE bound == (SourceBurst + 1) * SourcePeriod
    <2>1. bound \in Nat
      BY Constants, SMT
    <2>2. sources[s].debt = 0 \/ sources[s].debt + sources[s].age <= bound
      BY DEF IInv, Recovering
    <2> HIDE DEF bound
    <2>3. sources'[s].debt = 0 \/ sources'[s].debt + sources'[s].age <= bound
      <3> DEFINE d == sources[s].debt
                 a == sources[s].age
      <3>1. d \in Nat /\ a \in 0..Idle
        BY <1>2
      <3>2. sources'[s].debt = Paid(d) /\ sources'[s].age = Aged(a)
        <4>1. sources'[s] = [debt |-> Paid(d), age |-> Aged(a)]
          BY Zenon DEF Tick
        <4> HIDE DEF d, a
        <4> QED  BY <4>1
      <3>3. d = 0 \/ d + a <= bound
        BY <2>2
      <3> HIDE DEF d, a
      <3>4. Paid(d) = 0 \/ Paid(d) + Aged(a) <= bound
        BY <2>1, <3>1, <3>3 DEF Paid, Aged
      <3> QED  BY <3>2, <3>4
    <2> QED  BY <2>3 DEF bound
  <1>5. Weighed'
    <2> SUFFICES ASSUME NEW k \in 1..Idle
                 PROVE  Cardinality(Seen(k)') * Period <= global' + (k - 1)
      BY DEF Weighed
    <2>1. Paid(global) \in Nat /\ Paid(global) >= global - 1 /\ global \in Nat
      BY DEF Paid, IInv, TypeOK
    <2>2. CASE k = 1
      <3>1. Seen(k)' = {}
        BY <1>1, <1>2, <2>2 DEF Seen, Aged
      <3>2. Cardinality(Seen(k)') * Period = 0
        BY <3>1, FS_EmptySet, Constants, SMT
      <3> QED  BY <1>1, <2>1, <2>2, <3>2
    <2>3. CASE k > 1
      <3>1. Seen(k)' = Seen(k - 1)
        BY <1>1, <1>2, <2>3 DEF Seen, Aged
      <3>2. Cardinality(Seen(k)') = Cardinality(Seen(k - 1))
        BY <3>1
      <3>3. Cardinality(Seen(k - 1)) * Period <= global + (k - 1 - 1)
        BY <2>3 DEF IInv, Weighed
      <3> DEFINE m == Cardinality(Seen(k - 1))
      <3>4. m \in Nat
        BY SeenFinite DEF IInv
      <3>5. m * Period <= global + (k - 1 - 1)
        BY <3>3
      <3> HIDE DEF m
      <3>6. m * Period \in Nat
        BY <3>4, Constants, SMT
      <3>7. m * Period <= global' + (k - 1)
        <4> DEFINE a == m * Period
        <4>1. a \in Nat /\ a <= global + (k - 1 - 1)
          BY <3>5, <3>6
        <4> HIDE DEF a
        <4>2. a <= global' + (k - 1)
          BY <1>1, <2>1, <4>1
        <4> QED  BY <4>2 DEF a
      <3> QED  BY <3>2, <3>7 DEF m
    <2> QED  BY <2>2, <2>3
  <1> QED  BY <1>1, <1>3, <1>4, <1>5 DEF IInv, TableNeverFull

LEMMA StepInv == IInv /\ [LimiterNext]_limiterVars => IInv'
  <1> SUFFICES ASSUME IInv, [LimiterNext]_limiterVars PROVE IInv'
    OBVIOUS
  <1>1. CASE Tick
    BY <1>1, TickKeeps
  <1>2. CASE \E s \in Sources \cup {NoSource} : Resolve(s)
    BY <1>2, ResolveKeeps
  <1>3. CASE UNCHANGED limiterVars
    BY <1>3 DEF limiterVars, IInv, TypeOK, Weighed, Seen, Recovering, TableNeverFull
  <1> QED  BY <1>1, <1>2, <1>3 DEF LimiterNext

LEMMA Invariance == Spec => []IInv
  BY InitInv, StepInv, PTL DEF Spec

-----------------------------------------------------------------------------
(* Verdicts *)

\* The limiter's tables keep their types.
THEOREM LimitersTypeOK == Spec => []TypeOK
  <1>1. IInv => TypeOK
    BY DEF IInv
  <1> QED  BY <1>1, Invariance, PTL

\* For every configuration ResolveLimits::new accepts, no new source is ever
\* refused because the source table is full.
THEOREM LimitersNeverFull == Spec => []TableNeverFull
  <1>1. IInv => TableNeverFull
    BY DEF IInv
  <1> QED  BY <1>1, Invariance, PTL

\* Pruning an idle source gives back no cell, when the idle time covers the
\* recovery of a source limiter.
THEOREM LimitersForgiveNothing == Spec => []PruningForgivesNothing
  <1>1. IInv => PruningForgivesNothing
    <2> SUFFICES ASSUME IInv, RecoversWhenIdle, NEW s \in DOMAIN sources, s \notin Recent
                 PROVE  sources[s].debt = 0
      BY DEF PruningForgivesNothing
    <2> DEFINE bound == (SourceBurst + 1) * SourcePeriod
    <2>1. bound \in Nat /\ bound <= Idle
      <3>1. bound \in Nat
        BY Constants, SMT
      <3> QED  BY <3>1 DEF RecoversWhenIdle
    <2>2. sources[s].debt \in Nat /\ sources[s].age = Idle
      BY IdlePositive DEF IInv, TypeOK, Entry, Recent
    <2>3. sources[s].debt = 0 \/ sources[s].debt + sources[s].age <= bound
      BY DEF IInv, Recovering
    <2> HIDE DEF bound
    <2> QED  BY <2>1, <2>2, <2>3, IdlePositive
  <1> QED  BY <1>1, Invariance, PTL

-----------------------------------------------------------------------------

Early == {"none", "starting", "offering", "selecting"}
Withdrawn == {"expiring", "cancelling"}
Stages == Early \cup {"registering", "redirecting", "pending"} \cup Withdrawn
                \cup {"resolving", "answering", "ended"}
Phases == {"Created", "ProviderSelection", "Authenticating", "Authenticated", "Resolving"}
            \cup Terminal
Answers == {"none", "Retry", "Failed", "Expired", "Unavailable", "Resolved"}
Handlings == {"idle", "asking", "taking", "verifying", "finishing", "completing", "done"}
Pages == Results \cup {"none"}
Outcomes == Pages \cup {"lost"}
Selectable == Providers \cup {NoProvider}
CommandSet == [op: {"register", "remove"}, exchange: Exchanges, swept: SUBSET Exchanges]
RequestSet == [op: {"take", "complete"}, callback: Callbacks, exchange: Exchanges,
               swept: SUBSET Exchanges, result: Pages]

EntTypes ==
    /\ stage \in [Exchanges -> Stages]
    /\ phase \in [Exchanges -> Phases]
    /\ provider \in [Exchanges -> Selectable]
    /\ answer \in [Exchanges -> Answers]
    /\ outcome \in [Exchanges -> Outcomes]
    /\ cancelled \subseteq Exchanges
    /\ overdue \subseteq Exchanges
    /\ registry \subseteq Exchanges
    /\ commands \in Seq(CommandSet)
    /\ requests \in Seq(RequestSet)
    /\ handling \in [Callbacks -> Handlings]
    /\ target \in [Callbacks -> Exchanges \cup {NoExchange}]
    /\ \A b \in Callbacks : handling[b] \notin {"idle", "done"} => target[b] \in Exchanges
    /\ route \in [Callbacks -> Selectable]
    /\ clock \in [Callbacks -> SUBSET Exchanges]
    /\ page \in [Callbacks -> Pages]

\* The session of e is with handler b, or in the completion queued at i.
HeldBy(b, e) == Holds(b) /\ target[b] = e
QueuedAt(i, e) == requests[i].op = "complete" /\ requests[i].exchange = e
Placed(e) == \/ e \in registry
             \/ \E b \in Callbacks : HeldBy(b, e)
             \/ \E i \in DOMAIN requests : QueuedAt(i, e)

\* Never in two places.
OnePlace ==
    \A e \in Exchanges :
        /\ \A b \in Callbacks : HeldBy(b, e) =>
              /\ e \notin registry
              /\ \A c \in Callbacks : HeldBy(c, e) => b = c
              /\ \A i \in DOMAIN requests : ~QueuedAt(i, e)
        /\ \A i \in DOMAIN requests : QueuedAt(i, e) =>
              /\ e \notin registry
              /\ \A j \in DOMAIN requests : QueuedAt(j, e) => i = j

\* A registration is queued once, by the exchange that waits for it; a removal
\* only by one that withdrew.
CommandsMatch ==
    \A i \in DOMAIN commands :
        IF commands[i].op = "register"
        THEN /\ stage[commands[i].exchange] = "registering"
             /\ \A j \in DOMAIN commands :
                   commands[j].op = "register" /\ commands[j].exchange = commands[i].exchange => i = j
        ELSE commands[i].exchange \in cancelled

\* A queued request is of the handler's own exchange, for as long as the handler
\* waits for it.
RequestsMatch ==
    \A i \in DOMAIN requests :
        LET b == requests[i].callback IN
        IF requests[i].op = "take"
        THEN /\ handling[b] \notin {"idle", "asking"}
             /\ handling[b] = "taking" => target[b] = requests[i].exchange
        ELSE /\ handling[b] \in {"completing", "done"}
             /\ handling[b] = "completing" => target[b] = requests[i].exchange

\* A session outside its exchange is waited for or was withdrawn from, and its
\* exchange has heard nothing yet.
Awaited ==
    \A e \in Exchanges :
        /\ Placed(e) => outcome[e] = "none" /\ (e \in cancelled \/ Waiting(e))
        /\ e \in registry => stage[e] \in {"redirecting", "pending"} \cup Withdrawn
        /\ e \in cancelled => stage[e] \in Withdrawn \cup {"answering", "ended"}
        /\ outcome[e] # "none" => Waiting(e)

\* The user of e was verified with the provider e selected.
Proven(e) == <<e, provider[e]>> \in verified
Accepts(e) == Proven(e) /\ phase[e] = "Authenticated"

\* An admission travels only with the verification behind it.
AdmissionsProven ==
    /\ \A b \in Callbacks : handling[b] = "finishing" /\ page[b] = "Admitted" => Accepts(target[b])
    /\ \A i \in DOMAIN requests :
          requests[i].op = "complete" /\ requests[i].result = "Admitted"
              => Accepts(requests[i].exchange)
    /\ \A e \in Exchanges :
          /\ outcome[e] = "Admitted" => Accepts(e)
          /\ stage[e] = "resolving" => Proven(e)
          /\ answer[e] = "Resolved" =>
                Proven(e) /\ stage[e] \in {"answering", "ended"} /\ e \notin cancelled

EntInv == EntTypes /\ OnePlace /\ CommandsMatch /\ RequestsMatch /\ Awaited /\ AdmissionsProven

-----------------------------------------------------------------------------
(* Facts about queues *)

\* A message sent to a channel is its last.
LEMMA AppendFacts ==
    ASSUME NEW S, NEW q \in Seq(S), NEW m \in S
    PROVE  LET n == Len(q) + 1 IN
           /\ Append(q, m) \in Seq(S) /\ DOMAIN Append(q, m) = DOMAIN q \cup {n}
           /\ n \notin DOMAIN q /\ Append(q, m)[n] = m
           /\ \A i \in DOMAIN q : Append(q, m)[i] = q[i]
  OBVIOUS

\* What is left in a channel after its first message.
LEMMA TailFacts ==
    ASSUME NEW S, NEW q \in Seq(S), q # <<>>
    PROVE  /\ Tail(q) \in Seq(S) /\ 1 \in DOMAIN q /\ Head(q) = q[1] /\ Head(q) \in S
           /\ \A i \in DOMAIN Tail(q) :
                 /\ i + 1 \in DOMAIN q /\ i + 1 # 1 /\ Tail(q)[i] = q[i + 1]
                 /\ \A j \in DOMAIN Tail(q) : i + 1 = j + 1 => i = j
  <1>1. Len(q) \in Nat /\ Len(q) # 0 /\ DOMAIN q = 1..Len(q)
    OBVIOUS
  <1>2. Tail(q) \in Seq(S) /\ Len(Tail(q)) = Len(q) - 1 /\ DOMAIN Tail(q) = 1..(Len(q) - 1)
    BY <1>1
  <1>3. 1 \in DOMAIN q /\ Head(q) = q[1]
    BY <1>1
  <1>4. q[1] \in S
    BY <1>3
  <1> QED  BY <1>1, <1>2, <1>3, <1>4

\* The messages in the channels are well formed.
LEMMA MessageFacts ==
    ASSUME EntTypes
    PROVE  /\ \A i \in DOMAIN commands :
                 commands[i].op \in {"register", "remove"} /\ commands[i].exchange \in Exchanges
           /\ \A i \in DOMAIN requests :
                 /\ requests[i].op \in {"take", "complete"} /\ requests[i].exchange \in Exchanges
                 /\ requests[i].callback \in Callbacks /\ requests[i].result \in Pages
  <1>1. \A i \in DOMAIN commands : commands[i] \in CommandSet
    <2> HIDE DEF CommandSet
    <2> QED  BY DEF EntTypes
  <1>2. \A i \in DOMAIN requests : requests[i] \in RequestSet
    <2> HIDE DEF RequestSet
    <2> QED  BY DEF EntTypes
  <1> QED  BY <1>1, <1>2 DEF CommandSet, RequestSet

-----------------------------------------------------------------------------
(* Every step keeps the invariant *)

\* Nothing has been accepted yet.
LEMMA EntInitInv == ASSUME EntInit PROVE EntInv
  <1>1. commands = <<>> /\ requests = <<>> /\ DOMAIN commands = {} /\ DOMAIN requests = {}
    BY DEF EntInit
  <1>2. commands \in Seq(CommandSet) /\ requests \in Seq(RequestSet)
    BY <1>1
  <1>3. EntTypes
    BY <1>2 DEF EntInit, EntTypes, Stages, Early, Phases, Selectable, Answers, Outcomes, Pages,
                Handlings
  <1>4. \A b \in Callbacks, e \in Exchanges : ~HeldBy(b, e)
    BY DEF EntInit, HeldBy, Holds
  <1>5. OnePlace /\ CommandsMatch /\ RequestsMatch
    BY <1>1, <1>4 DEF OnePlace, CommandsMatch, RequestsMatch
  <1>6. Awaited
    BY <1>1, <1>4 DEF EntInit, Awaited, Placed
  <1>7. AdmissionsProven
    BY <1>1 DEF EntInit, AdmissionsProven
  <1> QED  BY <1>3, <1>5, <1>6, <1>7 DEF EntInv

\* The own state of exchange e after a step of it.
Consistent(e) ==
    /\ e \in registry => stage[e] \in {"redirecting", "pending"} \cup Withdrawn
    /\ e \in cancelled => stage[e] \in Withdrawn \cup {"answering", "ended"}
    /\ outcome[e] # "none" => Waiting(e)
    /\ outcome[e] = "Admitted" => Accepts(e)
    /\ stage[e] = "resolving" => Proven(e)
    /\ answer[e] = "Resolved" =>
          Proven(e) /\ stage[e] \in {"answering", "ended"} /\ e \notin cancelled

\* The invariant holds for exchange e on its own.
LEMMA ConsistentNow ==
    ASSUME EntInv, NEW e \in Exchanges
    PROVE  /\ Consistent(e)
           /\ Placed(e) => outcome[e] = "none" /\ (e \in cancelled \/ Waiting(e))
           /\ stage[e] \notin {"redirecting", "pending"} /\ e \notin cancelled => ~Placed(e)
           /\ outcome[e] # "none" => ~Placed(e)
  BY DEF EntInv, Awaited, AdmissionsProven, Consistent, Waiting

\* A step of exchange e leaves every session where it is.
LEMMA ExchangeMoves ==
    ASSUME EntInv, EntTypes', NEW e \in Exchanges,
           UNCHANGED <<registry, requests, handling, target, page, verified>>,
           \A x \in Exchanges : x # e =>
               /\ stage'[x] = stage[x] /\ phase'[x] = phase[x] /\ provider'[x] = provider[x]
               /\ answer'[x] = answer[x] /\ outcome'[x] = outcome[x]
               /\ x \in cancelled' <=> x \in cancelled,
           Placed(e) => /\ outcome'[e] = "none" /\ (e \in cancelled' \/ Waiting(e)')
                        /\ phase'[e] = phase[e] /\ provider'[e] = provider[e],
           Consistent(e)'
    PROVE  OnePlace' /\ RequestsMatch' /\ Awaited' /\ AdmissionsProven'
  <1> USE DEF EntInv
  <1>1. \A b \in Callbacks, x \in Exchanges : HeldBy(b, x)' <=> HeldBy(b, x)
    BY DEF HeldBy, Holds
  <1>2. \A i \in DOMAIN requests, x \in Exchanges : QueuedAt(i, x)' <=> QueuedAt(i, x)
    BY DEF QueuedAt
  <1>3. \A x \in Exchanges : Placed(x)' <=> Placed(x)
    BY <1>1, <1>2 DEF Placed
  <1>4. OnePlace'
    BY <1>1, <1>2 DEF OnePlace
  <1>5. RequestsMatch'
    BY DEF RequestsMatch
  <1>6. \A x \in Exchanges : Consistent(x)'
    <2>1. ASSUME NEW x \in Exchanges, x # e PROVE Consistent(x)'
      <3>1. Consistent(x)
        BY ConsistentNow
      <3> QED  BY <2>1, <3>1 DEF Consistent, Accepts, Proven, Waiting
    <2> QED  BY <2>1
  <1>7. Awaited'
    <2>1. ASSUME NEW x \in Exchanges, Placed(x)
          PROVE  outcome'[x] = "none" /\ (x \in cancelled' \/ Waiting(x)')
      BY <2>1, ConsistentNow DEF Waiting
    <2> QED  BY <1>3, <1>6, <2>1 DEF Awaited, Consistent
  <1>8. \A x \in Exchanges : Placed(x) /\ Accepts(x) => Accepts(x)'
    BY DEF Accepts, Proven
  <1>9. AdmissionsProven'
    <2>1. ASSUME NEW b \in Callbacks, handling'[b] = "finishing", page'[b] = "Admitted"
          PROVE  Accepts(target[b])'
      <3>1. target[b] \in Exchanges /\ Placed(target[b])
        BY <2>1 DEF EntTypes, Placed, HeldBy, Holds
      <3> QED  BY <1>8, <2>1, <3>1 DEF AdmissionsProven
    <2>2. ASSUME NEW i \in DOMAIN requests', requests'[i].op = "complete",
                 requests'[i].result = "Admitted"
          PROVE  Accepts(requests[i].exchange)'
      <3>1. requests[i].exchange \in Exchanges /\ Placed(requests[i].exchange)
        BY <2>2, MessageFacts DEF Placed, QueuedAt
      <3> QED  BY <1>8, <2>2, <3>1 DEF AdmissionsProven
    <2> QED  BY <1>6, <2>1, <2>2 DEF AdmissionsProven, Consistent
  <1> QED  BY <1>4, <1>5, <1>7, <1>9

\* Commands stay what they are when neither they nor a waiting registration,
\* nor the withdrawals, change.
LEMMA CommandsKept ==
    ASSUME EntInv, UNCHANGED commands, cancelled \subseteq cancelled',
           \A x \in Exchanges : stage[x] = "registering" => stage'[x] = "registering"
    PROVE  CommandsMatch'
  BY MessageFacts DEF EntInv, CommandsMatch

\* An exchange that has no transaction yet moves on or ends.
LEMMA EarlySteps ==
    ASSUME EntInv, NEW e \in Exchanges,
           \/ Accept(e) \/ EarlyFailure(e) \/ Admitted(e) \/ Limited(e) \/ Offered(e)
           \/ \E p \in Providers \cup {Unknown} : Select(e, p)
    PROVE  EntInv'
  <1> USE DEF EntInv
  <1>1. stage[e] \in Early
    BY DEF Accept, EarlyFailure, Admitted, Limited, Offered, Select, Early
  <1>2. UNCHANGED <<outcome, cancelled, registry, requests, httpVars, overdue, verified>>
    BY DEF Accept, EarlyFailure, Admitted, Limited, Offered, Select, Ends, Responds, Dies,
           browserVars
  <1>3. PICK st \in (Early \ {"none"}) \cup {"registering", "answering", "ended"},
             ph \in Phases, pr \in Selectable, an \in Answers :
          /\ stage' = [stage EXCEPT ![e] = st]
          /\ phase' = [phase EXCEPT ![e] = ph]
          /\ provider' = [provider EXCEPT ![e] = pr]
          /\ answer' = [answer EXCEPT ![e] = an]
          /\ an # "Resolved"
          /\ \/ UNCHANGED commands
             \/ st = "registering" /\ commands' = Append(commands, Command("register", e))
    <2>0. /\ phase[e] \in Phases /\ provider[e] \in Selectable
          /\ answer[e] \in Answers /\ answer[e] # "Resolved"
          /\ phase = [phase EXCEPT ![e] = phase[e]] /\ provider = [provider EXCEPT ![e] = provider[e]]
          /\ answer = [answer EXCEPT ![e] = answer[e]]
      BY <1>1, ConsistentNow DEF EntTypes, Consistent, Early
    <2> USE DEF Early, Phases, Answers, Selectable
    <2>1. CASE Accept(e)
      BY <2>0, <2>1 DEF Accept, sessionVars
    <2>2. CASE EarlyFailure(e)
      BY <2>0, <2>2 DEF EarlyFailure, Ends, sessionVars
    <2>3. CASE Admitted(e)
      BY <2>0, <2>3 DEF Admitted
    <2>4. CASE Limited(e)
      BY <2>0, <2>4 DEF Limited, Responds, sessionVars
    <2>5. CASE Offered(e)
      BY <2>0, <2>5 DEF Offered, sessionVars
    <2>6. ASSUME NEW p \in Providers \cup {Unknown}, Select(e, p), p \in Providers
          PROVE  /\ stage' = [stage EXCEPT ![e] = "registering"]
                 /\ phase' = [phase EXCEPT ![e] = "Authenticating"]
                 /\ provider' = [provider EXCEPT ![e] = p]
                 /\ answer' = [answer EXCEPT ![e] = answer[e]]
                 /\ commands' = Append(commands, Command("register", e))
      BY <2>0, <2>6 DEF Select
    <2>7. ASSUME NEW p \in Providers \cup {Unknown}, Select(e, p), p \notin Providers
          PROVE  \E ph \in Phases :
                   /\ stage' = [stage EXCEPT ![e] = "answering"]
                   /\ phase' = [phase EXCEPT ![e] = ph]
                   /\ provider' = [provider EXCEPT ![e] = provider[e]]
                   /\ answer' = [answer EXCEPT ![e] = "Failed"]
                   /\ UNCHANGED commands
      <3>1. (IF phase[e] \in Terminal THEN phase[e] ELSE "Failed") \in Phases
        BY <2>0 DEF Terminal
      <3> QED  BY <2>0, <2>7, <3>1 DEF Select, Dies, Responds
    <2> QED  BY <2>0, <2>1, <2>2, <2>3, <2>4, <2>5, <2>6, <2>7
  <1>4. Command("register", e) \in CommandSet
    BY DEF Command, CommandSet, EntTypes
  <1>5. commands' \in Seq(CommandSet)
    <2> HIDE DEF CommandSet
    <2>1. commands \in Seq(CommandSet)
      BY DEF EntTypes
    <2>2. Append(commands, Command("register", e)) \in Seq(CommandSet)
      BY <1>4, <2>1, AppendFacts
    <2> QED  BY <1>3, <2>1, <2>2
  <1>6. EntTypes'
    BY <1>2, <1>3, <1>5 DEF EntTypes, Stages, httpVars
  <1>7. /\ stage'[e] = st /\ phase'[e] = ph /\ provider'[e] = pr /\ answer'[e] = an
        /\ \A x \in Exchanges : x # e =>
              /\ stage'[x] = stage[x] /\ phase'[x] = phase[x] /\ provider'[x] = provider[x]
              /\ answer'[x] = answer[x]
    BY <1>3 DEF EntTypes
  <1>8. ~Placed(e) /\ e \notin cancelled /\ e \notin registry /\ outcome[e] = "none"
    <2>1. e \notin cancelled /\ e \notin registry /\ outcome[e] = "none"
      BY <1>1, ConsistentNow DEF Consistent, Waiting, Early, Withdrawn
    <2> QED  BY <1>1, <2>1, ConsistentNow DEF Early
  <1>9. Consistent(e)'
    BY <1>2, <1>3, <1>7, <1>8 DEF Consistent, Early
  <1>10. OnePlace' /\ RequestsMatch' /\ Awaited' /\ AdmissionsProven'
    BY <1>2, <1>6, <1>7, <1>8, <1>9, ExchangeMoves DEF httpVars
  <1>11. CommandsMatch'
    <2>1. \A x \in Exchanges : stage[x] = "registering" => x # e /\ stage'[x] = "registering"
      BY <1>1, <1>7 DEF Early
    <2>2. CASE UNCHANGED commands
      BY <1>2, <2>1, <2>2, CommandsKept
    <2>3. CASE st = "registering" /\ commands' = Append(commands, Command("register", e))
      <3> DEFINE n == Len(commands) + 1
      <3>1. /\ DOMAIN commands' = DOMAIN commands \cup {n}
            /\ n \notin DOMAIN commands /\ commands'[n] = Command("register", e)
            /\ \A i \in DOMAIN commands : commands'[i] = commands[i]
        <4> HIDE DEF CommandSet
        <4>1. commands \in Seq(CommandSet)
          BY DEF EntTypes
        <4> QED  BY <1>4, <2>3, <4>1, AppendFacts
      <3> HIDE DEF n
      <3>2. commands'[n].op = "register" /\ commands'[n].exchange = e
        BY <3>1 DEF Command
      <3>3. \A i \in DOMAIN commands : commands[i].op = "register" => commands[i].exchange # e
        BY <1>1 DEF CommandsMatch, Early
      <3> QED  BY <1>2, <1>7, <2>1, <2>3, <3>1, <3>2, <3>3, MessageFacts DEF CommandsMatch
    <2> QED  BY <1>3, <2>2, <2>3
  <1> QED  BY <1>6, <1>10, <1>11

\* The exchange writes the address, and waits.
LEMMA UrlWrittenStep ==
    ASSUME EntInv, NEW e \in Exchanges, UrlWritten(e)
    PROVE  EntInv'
  <1> USE DEF EntInv
  <1>1. /\ stage[e] = "redirecting"
        /\ stage' = [stage EXCEPT ![e] = "pending"]
        /\ UNCHANGED <<phase, provider, answer, cancelled, outcome, registry, commands, requests,
                       handling, target, route, clock, page, overdue, verified>>
    BY DEF UrlWritten, sessionVars, browserVars, httpVars
  <1>2. EntTypes'
    BY <1>1 DEF EntTypes, Stages
  <1>3. stage'[e] = "pending" /\ \A x \in Exchanges : x # e => stage'[x] = stage[x]
    BY <1>1 DEF EntTypes
  <1>4. Consistent(e)' /\ Waiting(e)'
    BY <1>1, <1>3, ConsistentNow DEF Consistent, Waiting, Accepts, Proven, Withdrawn
  <1>5. OnePlace' /\ RequestsMatch' /\ Awaited' /\ AdmissionsProven'
    BY <1>1, <1>2, <1>3, <1>4, ConsistentNow, ExchangeMoves
  <1>6. CommandsMatch'
    BY <1>1, <1>3, CommandsKept
  <1> QED  BY <1>2, <1>5, <1>6

\* An exchange that withdraws asks for the removal of its transaction.
LEMMA WithdrawStep ==
    ASSUME EntInv, NEW e \in Exchanges, UrlFails(e) \/ Expires(e) \/ PeerCloses(e)
    PROVE  EntInv'
  <1> USE DEF EntInv
  <1>1. PICK st \in Withdrawn :
          /\ stage[e] \in {"redirecting", "pending"}
          /\ stage' = [stage EXCEPT ![e] = st]
          /\ outcome' = [outcome EXCEPT ![e] = "none"]
          /\ cancelled' = cancelled \cup {e}
          /\ commands' = Append(commands, Command("remove", e))
          /\ UNCHANGED <<phase, provider, answer, registry, requests, handling, target, route,
                         clock, page, overdue, verified>>
    BY DEF UrlFails, Expires, PeerCloses, Withdraw, Withdrawn, sessionVars, browserVars, httpVars
  <1>2. Command("remove", e) \in CommandSet /\ Command("remove", e).exchange = e
        /\ Command("remove", e).op = "remove"
    BY DEF Command, CommandSet, EntTypes
  <1>3. LET n == Len(commands) + 1 IN
        /\ commands' \in Seq(CommandSet)
        /\ DOMAIN commands' = DOMAIN commands \cup {n}
        /\ n \notin DOMAIN commands /\ commands'[n] = Command("remove", e)
        /\ \A i \in DOMAIN commands : commands'[i] = commands[i]
    <2> HIDE DEF CommandSet
    <2>1. commands \in Seq(CommandSet)
      BY DEF EntTypes
    <2> QED  BY <1>1, <1>2, <2>1, AppendFacts
  <1>4. EntTypes'
    BY <1>1, <1>3 DEF EntTypes, Stages, Outcomes, Pages
  <1>5. /\ stage'[e] = st /\ outcome'[e] = "none"
        /\ \A x \in Exchanges : x # e => stage'[x] = stage[x] /\ outcome'[x] = outcome[x]
    BY <1>1 DEF EntTypes
  <1>6. Consistent(e)' /\ e \in cancelled'
    BY <1>1, <1>5, ConsistentNow DEF Consistent, Withdrawn
  <1>7. OnePlace' /\ RequestsMatch' /\ Awaited' /\ AdmissionsProven'
    BY <1>1, <1>4, <1>5, <1>6, ExchangeMoves
  <1>8. CommandsMatch'
    <2>1. \A i \in DOMAIN commands : commands[i].op = "register" => commands[i].exchange # e
      BY <1>1 DEF CommandsMatch
    <2> QED  BY <1>1, <1>2, <1>3, <1>5, <1>6, <2>1, MessageFacts DEF CommandsMatch
  <1> QED  BY <1>4, <1>7, <1>8

\* The exchange hears the outcome, resolves the target or writes its answer.
LEMMA AnswerSteps ==
    ASSUME EntInv, NEW e \in Exchanges,
           OutcomeReceived(e) \/ Answered(e) \/ \E found \in BOOLEAN : ResolveTarget(e, found)
    PROVE  EntInv'
  <1> USE DEF EntInv
  <1>1. /\ UNCHANGED <<provider, cancelled, registry, commands, requests, handling, target, route,
                       clock, page, overdue, verified>>
        /\ stage[e] \in {"pending", "resolving", "answering"}
    BY DEF OutcomeReceived, Answered, ResolveTarget, Ends, Responds, Dies, sessionVars, browserVars,
           httpVars
  <1>2. PICK st \in {"resolving", "answering", "ended"}, ph \in Phases, an \in Answers :
          /\ stage' = [stage EXCEPT ![e] = st]
          /\ phase' = [phase EXCEPT ![e] = ph]
          /\ answer' = [answer EXCEPT ![e] = an]
          /\ outcome' = [outcome EXCEPT ![e] = "none"]
          /\ st = "resolving" => stage[e] = "pending" /\ outcome[e] = "Admitted"
          /\ an = "Resolved" => (stage[e] = "resolving" \/ answer[e] = an) /\ st # "resolving"
          /\ \/ stage[e] = "pending" /\ outcome[e] # "none"
             \/ stage[e] = "resolving" /\ st = "answering"
             \/ stage[e] = "answering" /\ st = "ended" /\ phase[e] = ph /\ an = answer[e]
    <2>0. /\ phase[e] \in Phases /\ answer[e] \in Answers
          /\ phase = [phase EXCEPT ![e] = phase[e]] /\ answer = [answer EXCEPT ![e] = answer[e]]
          /\ stage[e] # "pending" => outcome = [outcome EXCEPT ![e] = "none"]
          /\ stage[e] = "pending" => answer[e] # "Resolved"
      <3>1. stage[e] # "pending" => outcome[e] = "none"
        BY <1>1, ConsistentNow DEF Consistent, Waiting
      <3> QED  BY <3>1, ConsistentNow DEF EntTypes, Consistent
    <2>1. \A end \in Terminal : (IF phase[e] \in Terminal THEN phase[e] ELSE end) \in Phases
      BY <2>0 DEF Phases
    <2> USE DEF Answers
    <2>2. CASE Answered(e)
      BY <2>0, <2>2 DEF Answered, Ends, sessionVars
    <2>3. ASSUME NEW found \in BOOLEAN, ResolveTarget(e, found)
          PROVE  \E ph \in Phases, an \in Answers :
                   /\ stage[e] = "resolving"
                   /\ stage' = [stage EXCEPT ![e] = "answering"]
                   /\ phase' = [phase EXCEPT ![e] = ph]
                   /\ answer' = [answer EXCEPT ![e] = an]
                   /\ outcome' = [outcome EXCEPT ![e] = "none"]
      <3>1. CASE found
        BY <2>0, <2>3, <3>1 DEF ResolveTarget, Responds, Phases, Terminal
      <3>2. CASE ~found
        <4>1. (IF phase[e] \in Terminal THEN phase[e] ELSE "Unavailable") \in Phases
          BY <2>1 DEF Terminal
        <4> QED  BY <2>0, <2>3, <3>2, <4>1 DEF ResolveTarget, Responds, Dies
      <3> QED  BY <3>1, <3>2
    <2>4. CASE OutcomeReceived(e) /\ outcome[e] # "Admitted"
      BY <2>0, <2>4 DEF OutcomeReceived, Responds, sessionVars
    <2>5. CASE OutcomeReceived(e) /\ outcome[e] = "Admitted" /\ e \in overdue
      <3>1. (IF phase[e] \in Terminal THEN phase[e] ELSE "Expired") \in Phases
        BY <2>1 DEF Terminal
      <3> QED  BY <2>0, <2>5, <3>1 DEF OutcomeReceived, Responds, Dies
    <2>6. CASE OutcomeReceived(e) /\ outcome[e] = "Admitted" /\ e \notin overdue
      <3>1. "Resolving" \in Phases
        BY DEF Phases
      <3> QED  BY <2>0, <2>6, <3>1 DEF OutcomeReceived
    <2> QED  BY <2>2, <2>3, <2>4, <2>5, <2>6
  <1>3. EntTypes'
    BY <1>1, <1>2 DEF EntTypes, Stages, Outcomes, Pages
  <1>4. /\ stage'[e] = st /\ phase'[e] = ph /\ answer'[e] = an /\ outcome'[e] = "none"
        /\ \A x \in Exchanges : x # e =>
              /\ stage'[x] = stage[x] /\ phase'[x] = phase[x]
              /\ answer'[x] = answer[x] /\ outcome'[x] = outcome[x]
    BY <1>2 DEF EntTypes
  <1>5. e \notin registry
    BY <1>1, <1>2, ConsistentNow DEF Consistent, Placed, Withdrawn
  <1>6. Consistent(e)'
    BY <1>1, <1>2, <1>4, <1>5, ConsistentNow DEF Consistent, Proven, Accepts, Withdrawn
  <1>7. Placed(e) => e \in cancelled /\ phase'[e] = phase[e]
    BY <1>1, <1>2, <1>4, ConsistentNow DEF Consistent, Waiting, Withdrawn
  <1>8. OnePlace' /\ RequestsMatch' /\ Awaited' /\ AdmissionsProven'
    BY <1>1, <1>3, <1>4, <1>6, <1>7, ExchangeMoves
  <1>9. CommandsMatch'
    BY <1>1, <1>4, CommandsKept
  <1> QED  BY <1>3, <1>8, <1>9

\* A deadline passes.
LEMMA DeadlineSteps ==
    ASSUME EntInv, overdue' \subseteq Exchanges,
           UNCHANGED <<sessionVars, exchangeVars, outcome, registry, commands, requests, httpVars,
                       verified>>
    PROVE  EntInv'
  <1> USE DEF EntInv, sessionVars, exchangeVars, httpVars
  <1>1. EntTypes'
    BY DEF EntTypes
  <1>2. OnePlace' /\ CommandsMatch' /\ RequestsMatch'
    BY DEF OnePlace, CommandsMatch, RequestsMatch, HeldBy, Holds, QueuedAt
  <1>3. Awaited'
    BY DEF Awaited, Placed, HeldBy, Holds, QueuedAt, Waiting
  <1>4. AdmissionsProven'
    BY DEF AdmissionsProven, Accepts, Proven
  <1> QED  BY <1>1, <1>2, <1>3, <1>4

\* What a step of one handler leaves alone.
HandlerFrame(b) ==
    /\ UNCHANGED <<provider, stage, answer, cancelled, registry, commands, overdue>>
    /\ \A c \in Callbacks : c # b =>
          handling'[c] = handling[c] /\ target'[c] = target[c] /\ page'[c] = page[c]

\* A handler without a session that does not gain one: it arrives, gives up
\* or goes away.
LEMMA IdleHandler ==
    ASSUME EntInv, EntTypes', NEW b \in Callbacks, HandlerFrame(b),
           ~Holds(b), ~Holds(b)',
           UNCHANGED <<phase, outcome, requests, verified>>,
           handling'[b] # "idle", handling'[b] = "asking" => handling[b] = "idle",
           handling'[b] \notin {"taking", "completing"},
           handling[b] # "idle" => handling'[b] = "done"
    PROVE  EntInv'
  <1> USE DEF EntInv, HandlerFrame
  <1>1. \A c \in Callbacks, x \in Exchanges : HeldBy(c, x)' <=> HeldBy(c, x)
    BY DEF HeldBy, Holds
  <1>2. \A i \in DOMAIN requests, x \in Exchanges : QueuedAt(i, x)' <=> QueuedAt(i, x)
    BY DEF QueuedAt
  <1>3. \A x \in Exchanges : Placed(x)' <=> Placed(x)
    BY <1>1, <1>2 DEF Placed
  <1>4. OnePlace'
    BY <1>1, <1>2 DEF OnePlace
  <1>5. CommandsMatch'
    BY DEF CommandsMatch
  <1>6. RequestsMatch'
    BY MessageFacts DEF RequestsMatch
  <1>7. Awaited'
    BY <1>3 DEF Awaited, Waiting
  <1>8. AdmissionsProven'
    <2>1. ASSUME NEW c \in Callbacks, handling'[c] = "finishing", page'[c] = "Admitted"
          PROVE  Accepts(target[c])' /\ target'[c] = target[c]
      <3>1. c # b
        BY <2>1 DEF Holds
      <3> QED  BY <2>1, <3>1 DEF AdmissionsProven, Accepts, Proven
    <2> QED  BY <2>1 DEF AdmissionsProven, Accepts, Proven
  <1> QED  BY <1>4, <1>5, <1>6, <1>7, <1>8

\* A browser arrives, or its handler gives up without a session.
LEMMA ArriveSteps ==
    ASSUME EntInv, NEW b \in Callbacks,
           AskTimesOut(b) \/ \E e \in Exchanges, p \in Providers : Arrive(b, e, p)
    PROVE  EntInv'
  <1> USE DEF EntInv
  <1>1. \A found \in Results : Returned(b, found) \in Pages
    BY DEF Returned, Pages, Results
  <1>2. CASE AskTimesOut(b)
    <2>1. /\ handling[b] \in {"asking", "taking", "completing"}
          /\ handling' = [handling EXCEPT ![b] = "done"]
          /\ page' = [page EXCEPT ![b] = Returned(b, "Platform")]
          /\ target' = [target EXCEPT ![b] = NoExchange]
          /\ route' = [route EXCEPT ![b] = NoProvider]
          /\ clock' = [clock EXCEPT ![b] = {}]
          /\ UNCHANGED <<phase, provider, stage, answer, cancelled, outcome, registry, commands,
                         requests, overdue, verified>>
      BY <1>2 DEF AskTimesOut, Shows, sessionVars, exchangeVars
    <2>2. Returned(b, "Platform") \in Pages
      BY <1>1 DEF Results
    <2>3. EntTypes'
      BY <2>1, <2>2 DEF EntTypes, Handlings, Selectable
    <2>4. HandlerFrame(b) /\ handling'[b] = "done"
      BY <2>1 DEF HandlerFrame, EntTypes
    <2> QED  BY <2>1, <2>3, <2>4, IdleHandler DEF Holds
  <1>3. ASSUME NEW e \in Exchanges, NEW p \in Providers, Arrive(b, e, p)
        PROVE  EntInv'
    <2>1. /\ handling[b] = "idle"
          /\ handling' = [handling EXCEPT ![b] = "asking"]
          /\ target' = [target EXCEPT ![b] = e]
          /\ route' = [route EXCEPT ![b] = p]
          /\ clock' = [clock EXCEPT ![b] = overdue]
          /\ UNCHANGED <<phase, provider, stage, answer, cancelled, outcome, registry, commands,
                         requests, page, overdue, verified>>
      BY <1>3 DEF Arrive, sessionVars, exchangeVars
    <2>2. EntTypes'
      BY <2>1 DEF EntTypes, Handlings, Selectable
    <2>3. HandlerFrame(b) /\ handling'[b] = "asking"
      BY <2>1 DEF HandlerFrame, EntTypes
    <2> QED  BY <2>1, <2>2, <2>3, IdleHandler DEF Holds
  <1> QED  BY <1>2, <1>3

\* A handler asks the owner for the session of its state.
LEMMA AskStep ==
    ASSUME EntInv, NEW b \in Callbacks, Ask(b)
    PROVE  EntInv'
  <1> USE DEF EntInv
  <1> DEFINE m == Request("take", b)
  <1>1. /\ handling[b] = "asking"
        /\ requests' = Append(requests, m)
        /\ handling' = [handling EXCEPT ![b] = "taking"]
        /\ clock' = [clock EXCEPT ![b] = {}]
        /\ UNCHANGED <<phase, provider, stage, answer, cancelled, outcome, registry, commands,
                       target, route, page, overdue, verified>>
    BY DEF Ask, Continues, sessionVars, exchangeVars
  <1>2. m \in RequestSet /\ m.op = "take" /\ m.callback = b /\ m.exchange = target[b]
    BY <1>1 DEF Request, RequestSet, EntTypes
  <1>3. PICK n : /\ requests' \in Seq(RequestSet) /\ DOMAIN requests' = DOMAIN requests \cup {n}
                 /\ n \notin DOMAIN requests /\ requests'[n] = m
                 /\ \A i \in DOMAIN requests : requests'[i] = requests[i]
    <2> HIDE DEF RequestSet, m
    <2>1. requests \in Seq(RequestSet)
      BY DEF EntTypes
    <2> QED  BY <1>1, <1>2, <2>1, AppendFacts
  <1> HIDE DEF m
  <1>4. EntTypes'
    BY <1>1, <1>3 DEF EntTypes, Handlings
  <1>5. handling'[b] = "taking" /\ \A c \in Callbacks : c # b => handling'[c] = handling[c]
    BY <1>1 DEF EntTypes
  <1>6. \A c \in Callbacks, x \in Exchanges : HeldBy(c, x)' <=> HeldBy(c, x)
    BY <1>1, <1>5 DEF HeldBy, Holds
  <1>7. /\ \A i \in DOMAIN requests, x \in Exchanges : QueuedAt(i, x)' <=> QueuedAt(i, x)
        /\ \A x \in Exchanges : ~QueuedAt(n, x)'
    BY <1>2, <1>3 DEF QueuedAt
  <1>8. \A x \in Exchanges : Placed(x)' <=> Placed(x)
    BY <1>1, <1>3, <1>6, <1>7 DEF Placed
  <1>9. OnePlace'
    BY <1>1, <1>3, <1>6, <1>7 DEF OnePlace
  <1>10. CommandsMatch'
    BY <1>1 DEF CommandsMatch
  <1>11. RequestsMatch'
    BY <1>1, <1>2, <1>3, <1>5, MessageFacts DEF RequestsMatch
  <1>12. Awaited'
    BY <1>1, <1>8 DEF Awaited, Waiting
  <1>13. AdmissionsProven'
    BY <1>1, <1>2, <1>3, <1>5 DEF AdmissionsProven, Accepts, Proven
  <1> QED  BY <1>4, <1>9, <1>10, <1>11, <1>12, <1>13

\* A handler comes to a result for the session it owns; only Member admits.
LEMMA ConcludeSteps ==
    ASSUME EntInv, NEW b \in Callbacks,
           \/ Mismatch(b) \/ Member(b) \/ \E r \in Results : NotMember(b, r)
           \/ VerificationCancelled(b) \/ VerificationTimesOut(b)
    PROVE  EntInv'
  <1> USE DEF EntInv
  <1> DEFINE e == target[b]
  <1>0. handling[b] = "verifying" /\ e \in Exchanges
    BY DEF Mismatch, Member, NotMember, VerificationCancelled, VerificationTimesOut, EntTypes
  <1>1. PICK ph \in Phases, r \in Results :
          /\ phase' = [phase EXCEPT ![e] = ph]
          /\ page' = [page EXCEPT ![b] = r]
          /\ r = "Admitted" => ph = "Authenticated" /\ <<e, provider[e]>> \in verified'
    <2>0. \A end \in Terminal : (IF phase[e] \in Terminal THEN phase[e] ELSE end) \in Phases
      BY <1>0 DEF EntTypes, Phases
    <2>1. ASSUME NEW end \in Terminal, NEW r \in Results, Dies(e, end), page' = [page EXCEPT ![b] = r],
                 r # "Admitted"
          PROVE  \E ph \in Phases, q \in Results :
                    /\ phase' = [phase EXCEPT ![e] = ph]
                    /\ page' = [page EXCEPT ![b] = q]
                    /\ q # "Admitted"
      BY <2>0, <2>1 DEF Dies
    <2>2. CASE Member(b)
      <3>1. "Authenticated" \in Phases /\ "Admitted" \in Results
        BY DEF Phases, Results
      <3> QED  BY <2>2, <3>1 DEF Member, Mismatched, Concludes
    <2> USE DEF Terminal, Results
    <2>3. CASE Mismatch(b)
      BY <2>1, <2>3 DEF Mismatch, Concludes
    <2>4. ASSUME NEW q \in Results, NotMember(b, q)
          PROVE  Dies(e, "Failed") /\ page' = [page EXCEPT ![b] = q] /\ q # "Admitted"
      BY <2>4 DEF NotMember, Concludes
    <2>5. CASE VerificationCancelled(b)
      BY <2>1, <2>5 DEF VerificationCancelled, Concludes
    <2>6. CASE VerificationTimesOut(b)
      BY <2>1, <2>6 DEF VerificationTimesOut, Concludes
    <2> QED  BY <2>1, <2>2, <2>3, <2>4, <2>5, <2>6
  <1>2. /\ handling' = [handling EXCEPT ![b] = "finishing"]
        /\ verified \subseteq verified'
        /\ UNCHANGED <<provider, stage, answer, cancelled, outcome, registry, commands, requests,
                       target, route, clock, overdue>>
    BY DEF Mismatch, Member, NotMember, VerificationCancelled, VerificationTimesOut, Concludes, Dies,
           exchangeVars
  <1>3. EntTypes'
    BY <1>0, <1>1, <1>2 DEF EntTypes, Handlings, Pages
  <1>4. /\ handling'[b] = "finishing" /\ page'[b] = r /\ phase'[e] = ph
        /\ \A c \in Callbacks : c # b => handling'[c] = handling[c] /\ page'[c] = page[c]
        /\ \A x \in Exchanges : x # e => phase'[x] = phase[x]
    BY <1>0, <1>1, <1>2 DEF EntTypes
  <1>5. HeldBy(b, e)
    BY <1>0 DEF HeldBy, Holds
  <1> HIDE DEF e
  <1>6. \A c \in Callbacks, x \in Exchanges : HeldBy(c, x)' <=> HeldBy(c, x)
    BY <1>0, <1>2, <1>4 DEF HeldBy, Holds
  <1>7. \A i \in DOMAIN requests, x \in Exchanges : QueuedAt(i, x)' <=> QueuedAt(i, x)
    BY <1>2 DEF QueuedAt
  <1>8. \A x \in Exchanges : Placed(x)' <=> Placed(x)
    BY <1>2, <1>6, <1>7 DEF Placed
  <1>9. OnePlace' /\ CommandsMatch'
    BY <1>2, <1>6, <1>7 DEF OnePlace, CommandsMatch
  <1>10. RequestsMatch'
    BY <1>0, <1>2, <1>4, MessageFacts DEF RequestsMatch
  <1>11. Awaited'
    BY <1>2, <1>8 DEF Awaited, Waiting
  <1>12. outcome[e] = "none" /\ \A i \in DOMAIN requests : ~QueuedAt(i, e)
    BY <1>0, <1>5 DEF OnePlace, Awaited, Placed
  <1>13. /\ \A x \in Exchanges : Proven(x) => Proven(x)'
         /\ \A x \in Exchanges : x # e /\ Accepts(x) => Accepts(x)'
    BY <1>2, <1>4 DEF Proven, Accepts
  <1>14. AdmissionsProven'
    <2>1. ASSUME NEW c \in Callbacks, handling'[c] = "finishing", page'[c] = "Admitted"
          PROVE  Accepts(target[c])'
      <3>1. CASE c = b
        BY <1>1, <1>2, <1>4, <2>1, <3>1 DEF Accepts, Proven, e
      <3>2. CASE c # b
        <4>1. handling[c] = "finishing" /\ page[c] = "Admitted" /\ target[c] \in Exchanges
          BY <1>4, <2>1, <3>2 DEF EntTypes
        <4>2. target[c] # e
          BY <1>0, <1>5, <3>2, <4>1 DEF OnePlace, HeldBy, Holds
        <4> QED  BY <1>2, <1>13, <4>1, <4>2 DEF AdmissionsProven
      <3> QED  BY <3>1, <3>2
    <2>2. ASSUME NEW i \in DOMAIN requests, requests[i].op = "complete",
                 requests[i].result = "Admitted"
          PROVE  Accepts(requests[i].exchange)'
      <3>1. requests[i].exchange \in Exchanges /\ requests[i].exchange # e
        BY <1>12, <2>2, MessageFacts DEF QueuedAt
      <3> QED  BY <1>2, <1>13, <2>2, <3>1 DEF AdmissionsProven
    <2> QED  BY <1>2, <1>12, <1>13, <2>1, <2>2 DEF AdmissionsProven
  <1> QED  BY <1>3, <1>9, <1>10, <1>11, <1>14

\* The session moves from the handler into the queued completion.
LEMMA FinishStep ==
    ASSUME EntInv, NEW b \in Callbacks, Finish(b)
    PROVE  EntInv'
  <1> USE DEF EntInv
  <1> DEFINE m == Request("complete", b)
             e == target[b]
  <1>1. /\ handling[b] = "finishing"
        /\ requests' = Append(requests, m)
        /\ handling' = [handling EXCEPT ![b] = "completing"]
        /\ clock' = [clock EXCEPT ![b] = {}]
        /\ UNCHANGED <<phase, provider, stage, answer, cancelled, outcome, registry, commands,
                       target, route, page, overdue, verified>>
    BY DEF Finish, Continues, sessionVars, exchangeVars
  <1>2. /\ m \in RequestSet /\ m.op = "complete" /\ m.callback = b /\ m.exchange = e
        /\ m.result = page[b] /\ e \in Exchanges
    BY <1>1 DEF Request, RequestSet, EntTypes
  <1>3. PICK n : /\ requests' \in Seq(RequestSet) /\ DOMAIN requests' = DOMAIN requests \cup {n}
                 /\ n \notin DOMAIN requests /\ requests'[n] = m
                 /\ \A i \in DOMAIN requests : requests'[i] = requests[i]
    <2> HIDE DEF RequestSet, m
    <2>1. requests \in Seq(RequestSet)
      BY DEF EntTypes
    <2> QED  BY <1>1, <1>2, <2>1, AppendFacts
  <1>4. EntTypes'
    BY <1>1, <1>3 DEF EntTypes, Handlings
  <1>5. /\ handling'[b] = "completing" /\ e' = e
        /\ \A c \in Callbacks : c # b => handling'[c] = handling[c]
    BY <1>1 DEF EntTypes
  <1>6. HeldBy(b, e)
    BY <1>1 DEF HeldBy, Holds
  <1> HIDE DEF m, e
  <1>7. \A c \in Callbacks, x \in Exchanges : HeldBy(c, x)' <=> HeldBy(c, x) /\ c # b
    BY <1>1, <1>5 DEF HeldBy, Holds
  <1>8. \A x \in Exchanges :
          /\ \A i \in DOMAIN requests : QueuedAt(i, x)' <=> QueuedAt(i, x)
          /\ QueuedAt(n, x)' <=> x = e
    BY <1>2, <1>3 DEF QueuedAt
  <1>9. \A x \in Exchanges : HeldBy(b, x) <=> x = e
    BY <1>6 DEF HeldBy
  <1>10. \A x \in Exchanges : Placed(x)' <=> Placed(x)
    BY <1>1, <1>2, <1>3, <1>7, <1>8, <1>9 DEF Placed
  <1>11. OnePlace'
    BY <1>1, <1>2, <1>3, <1>6, <1>7, <1>8, <1>9 DEF OnePlace
  <1>12. CommandsMatch'
    BY <1>1 DEF CommandsMatch
  <1>13. RequestsMatch'
    BY <1>1, <1>2, <1>3, <1>5, MessageFacts DEF RequestsMatch, e
  <1>14. Awaited'
    BY <1>1, <1>10 DEF Awaited, Waiting
  <1>15. AdmissionsProven'
    <2>1. \A x \in Exchanges : (Proven(x)' <=> Proven(x)) /\ (Accepts(x)' <=> Accepts(x))
      BY <1>1 DEF Accepts, Proven
    <2>2. page[b] = "Admitted" => Accepts(e)
      BY <1>1 DEF AdmissionsProven, e
    <2>3. ASSUME NEW i \in DOMAIN requests', requests'[i].op = "complete",
                 requests'[i].result = "Admitted"
          PROVE  Accepts(requests[i].exchange)'
      <3>1. CASE i = n
        BY <1>2, <1>3, <2>1, <2>2, <2>3, <3>1
      <3>2. CASE i \in DOMAIN requests
        <4>1. requests'[i] = requests[i] /\ requests[i].exchange \in Exchanges
          BY <1>3, <3>2, MessageFacts
        <4>2. Accepts(requests[i].exchange)
          BY <2>3, <3>2, <4>1 DEF AdmissionsProven
        <4> QED  BY <2>1, <4>1, <4>2
      <3> QED  BY <1>3, <2>3, <3>1, <3>2
    <2>4. ASSUME NEW c \in Callbacks, handling'[c] = "finishing", page'[c] = "Admitted"
          PROVE  Accepts(target[c])'
      <3>1. c # b /\ handling[c] = "finishing" /\ page[c] = "Admitted" /\ target'[c] = target[c]
        BY <1>1, <1>5, <2>4
      <3>2. target[c] \in Exchanges /\ Accepts(target[c])
        BY <3>1 DEF EntTypes, AdmissionsProven
      <3> QED  BY <2>1, <3>1, <3>2
    <2>5. ASSUME NEW x \in Exchanges
          PROVE  /\ outcome'[x] = "Admitted" => Accepts(x)'
                 /\ stage'[x] = "resolving" => Proven(x)'
                 /\ answer'[x] = "Resolved" =>
                       Proven(x)' /\ stage'[x] \in {"answering", "ended"} /\ x \notin cancelled'
      BY <1>1, <2>1 DEF AdmissionsProven
    <2> QED  BY <2>3, <2>4, <2>5 DEF AdmissionsProven
  <1> QED  BY <1>4, <1>11, <1>12, <1>13, <1>14, <1>15

\* A handler lets go of its session, and the exchange hears of it.
LEMMA LetsGo ==
    ASSUME EntInv, EntTypes', NEW b \in Callbacks, NEW e \in Exchanges, HeldBy(b, e),
           HandlerFrame(b), handling'[b] = "done",
           NEW found \in {"lost", "Platform"}, Settle({e}, found),
           \A x \in Exchanges : x # e => phase'[x] = phase[x],
           UNCHANGED <<requests, verified>>
    PROVE  EntInv'
  <1> USE DEF EntInv, HandlerFrame
  <1>1. \A x \in Exchanges : outcome'[x] = IF x = e /\ Waiting(x) THEN found ELSE outcome[x]
    BY DEF Settle
  <1>2. \A c \in Callbacks, x \in Exchanges : HeldBy(c, x)' <=> HeldBy(c, x) /\ c # b
    BY DEF HeldBy, Holds
  <1>3. \A i \in DOMAIN requests, x \in Exchanges : QueuedAt(i, x)' <=> QueuedAt(i, x)
    BY DEF QueuedAt
  <1>4. \A x \in Exchanges : HeldBy(b, x) <=> x = e
    BY DEF HeldBy
  <1>5. \A x \in Exchanges : Placed(x)' <=> Placed(x) /\ x # e
    BY <1>2, <1>3, <1>4 DEF Placed, OnePlace
  <1>6. OnePlace'
    BY <1>2, <1>3 DEF OnePlace
  <1>7. CommandsMatch'
    BY DEF CommandsMatch
  <1>8. RequestsMatch'
    BY MessageFacts DEF RequestsMatch
  <1>9. Awaited'
    BY <1>1, <1>5 DEF Awaited, Waiting
  <1>10. \A x \in Exchanges : /\ Proven(x)' <=> Proven(x)
                              /\ x # e => (Accepts(x)' <=> Accepts(x))
    BY DEF Proven, Accepts
  <1>11. AdmissionsProven'
    <2>1. ASSUME NEW c \in Callbacks, handling'[c] = "finishing", page'[c] = "Admitted"
          PROVE  Accepts(target[c])'
      <3>1. c # b /\ handling[c] = "finishing" /\ page[c] = "Admitted" /\ target'[c] = target[c]
            /\ target[c] \in Exchanges
        BY <2>1 DEF EntTypes
      <3>2. target[c] # e
        BY <3>1 DEF OnePlace, HeldBy, Holds
      <3> QED  BY <1>10, <3>1, <3>2 DEF AdmissionsProven
    <2>2. ASSUME NEW i \in DOMAIN requests, requests[i].op = "complete",
                 requests[i].result = "Admitted"
          PROVE  Accepts(requests[i].exchange)'
      <3>1. requests[i].exchange \in Exchanges /\ requests[i].exchange # e
        BY <2>2, MessageFacts DEF OnePlace, QueuedAt
      <3> QED  BY <1>10, <2>2, <3>1 DEF AdmissionsProven
    <2>3. outcome[e] = "none"
      BY DEF Awaited, Placed
    <2> QED  BY <1>1, <1>10, <2>1, <2>2, <2>3 DEF AdmissionsProven
  <1> QED  BY <1>6, <1>7, <1>8, <1>9, <1>11

\* A handler runs out of time with its result, or its browser goes away.
LEMMA LeaveSteps ==
    ASSUME EntInv, NEW b \in Callbacks, FinishTimesOut(b) \/ Disconnects(b)
    PROVE  EntInv'
  <1> USE DEF EntInv
  <1>1. PICK pg \in Pages :
          /\ handling' = [handling EXCEPT ![b] = "done"]
          /\ page' = [page EXCEPT ![b] = pg]
          /\ target' = [target EXCEPT ![b] = NoExchange]
          /\ route' = [route EXCEPT ![b] = NoProvider]
          /\ clock' = [clock EXCEPT ![b] = {}]
    <2>1. Returned(b, "Platform") \in Pages /\ "none" \in Pages
      BY DEF Returned, Pages, Results
    <2> QED  BY <2>1 DEF FinishTimesOut, Disconnects, Shows
  <1>2. UNCHANGED <<provider, stage, answer, cancelled, registry, commands, requests, overdue,
                    verified>>
    BY DEF FinishTimesOut, Disconnects, Dies, sessionVars, exchangeVars
  <1>3. HandlerFrame(b) /\ handling'[b] = "done"
    BY <1>1, <1>2 DEF HandlerFrame, EntTypes
  <1>4. ASSUME phase' \in [Exchanges -> Phases], outcome' \in [Exchanges -> Outcomes] PROVE EntTypes'
    BY <1>1, <1>2, <1>4 DEF EntTypes, Handlings, Selectable
  <1>5. \A S, found : Settle(S, found) /\ found \in Outcomes => outcome' \in [Exchanges -> Outcomes]
    BY DEF Settle, EntTypes
  <1>6. "lost" \in Outcomes /\ "Platform" \in Outcomes
    BY DEF Outcomes, Pages, Results
  <1>7. CASE FinishTimesOut(b)
    <2>1. /\ handling[b] = "finishing" /\ Dies(target[b], "Failed")
          /\ Settle({target[b]}, "Platform")
      BY <1>7 DEF FinishTimesOut
    <2>2. target[b] \in Exchanges /\ HeldBy(b, target[b])
      BY <2>1 DEF EntTypes, HeldBy, Holds
    <2>3. /\ phase' \in [Exchanges -> Phases]
          /\ \A x \in Exchanges : x # target[b] => phase'[x] = phase[x]
      BY <2>1, <2>2 DEF Dies, EntTypes, Phases, Terminal
    <2> QED  BY <1>2, <1>3, <1>4, <1>5, <1>6, <2>1, <2>2, <2>3, LetsGo
  <1>8. CASE Disconnects(b) /\ Holds(b)
    <2>1. UNCHANGED phase /\ Settle({target[b]}, "lost")
      BY <1>8 DEF Disconnects, sessionVars
    <2>2. target[b] \in Exchanges /\ HeldBy(b, target[b])
      BY <1>8 DEF EntTypes, HeldBy, Holds
    <2>3. phase' \in [Exchanges -> Phases]
      BY <2>1 DEF EntTypes
    <2> QED  BY <1>2, <1>3, <1>4, <1>5, <1>6, <2>1, <2>2, <2>3, LetsGo
  <1>9. CASE Disconnects(b) /\ ~Holds(b)
    <2>1. UNCHANGED phase /\ Settle({}, "lost")
      BY <1>9 DEF Disconnects, sessionVars
    <2>2. UNCHANGED outcome
      BY <2>1 DEF Settle, EntTypes
    <2>3. EntTypes'
      BY <1>4, <2>1, <2>2 DEF EntTypes
    <2> QED  BY <1>2, <1>3, <1>9, <2>1, <2>2, <2>3, IdleHandler DEF Holds
  <1> QED  BY <1>7, <1>8, <1>9

\* The owner takes a registration from its channel: the session enters the
\* registry, those that are swept leave it and are lost to their exchanges.
LEMMA RegisterStep == ASSUME EntInv, Register PROVE EntInv'
  <1> USE DEF EntInv
  <1>1. PICK m \in CommandSet :
          /\ 1 \in DOMAIN commands /\ m = commands[1] /\ m = Head(commands) /\ m.op = "register"
          /\ commands' = Tail(commands) /\ commands' \in Seq(CommandSet)
          /\ \A i \in DOMAIN commands' :
                /\ i + 1 \in DOMAIN commands /\ i + 1 # 1 /\ commands'[i] = commands[i + 1]
                /\ \A j \in DOMAIN commands' : i + 1 = j + 1 => i = j
    <2> HIDE DEF CommandSet
    <2>1. commands \in Seq(CommandSet) /\ commands # <<>> /\ Head(commands).op = "register"
          /\ commands' = Tail(commands)
      BY DEF Register, EntTypes
    <2> QED  BY <2>1, TailFacts
  <1>2. PICK e \in Exchanges : e = m.exchange
    BY <1>1 DEF CommandSet
  <1>3. /\ stage[e] = "registering"
        /\ \A i \in DOMAIN commands' : commands'[i].op = "register" => commands'[i].exchange # e
    BY <1>1, <1>2 DEF CommandsMatch
  <1>4. ~Placed(e) /\ e \notin cancelled /\ e \notin registry /\ outcome[e] = "none"
    <2>1. e \notin cancelled /\ e \notin registry /\ outcome[e] = "none"
      BY <1>3, ConsistentNow DEF Consistent, Waiting, Withdrawn
    <2> QED  BY <1>3, <2>1, ConsistentNow
  <1>5. PICK swept \in SUBSET registry, st \in {"redirecting", "answering"}, an \in Answers :
          /\ registry' = IF st = "redirecting" THEN (registry \ swept) \cup {e} ELSE registry \ swept
          /\ stage' = [stage EXCEPT ![e] = st]
          /\ answer' = [answer EXCEPT ![e] = an] /\ an # "Resolved"
          /\ Settle(swept, "lost")
    <2>1. registry \ m.swept = registry \ (registry \cap m.swept)
      OBVIOUS
    <2>2. answer[e] \in Answers /\ answer = [answer EXCEPT ![e] = answer[e]] /\ answer[e] # "Resolved"
      BY <1>3, ConsistentNow DEF EntTypes, Consistent
    <2>3. "Failed" \in Answers
      BY DEF Answers
    <2>4. CASE Cardinality(registry \ m.swept) < Capacity
      <3>1. /\ registry' = (registry \ m.swept) \cup {e}
            /\ stage' = [stage EXCEPT ![e] = "redirecting"]
            /\ answer' = answer
            /\ Settle(registry \cap m.swept, "lost")
        BY <1>1, <1>2, <2>4 DEF Register
      <3> QED  BY <2>1, <2>2, <3>1
    <2>5. CASE ~(Cardinality(registry \ m.swept) < Capacity)
      <3>1. /\ registry' = registry \ m.swept
            /\ stage' = [stage EXCEPT ![e] = "answering"]
            /\ answer' = [answer EXCEPT ![e] = "Failed"]
            /\ Settle(registry \cap m.swept, "lost")
        BY <1>1, <1>2, <2>5 DEF Register, Responds
      <3> QED  BY <2>1, <2>3, <3>1
    <2> QED  BY <2>4, <2>5
  <1>6. UNCHANGED <<phase, provider, cancelled, requests, handling, target, route, clock, page,
                    overdue, verified>>
    BY DEF Register, Responds, sessionVars, browserVars, httpVars
  <1>7. \A x \in Exchanges : outcome'[x] = IF x \in swept /\ Waiting(x) THEN "lost" ELSE outcome[x]
    BY <1>5 DEF Settle
  <1>8. EntTypes'
    <2>1. outcome' \in [Exchanges -> Outcomes]
      BY <1>5 DEF Settle, EntTypes, Outcomes
    <2> QED  BY <1>1, <1>5, <1>6, <2>1 DEF EntTypes, Stages
  <1>9. /\ stage'[e] = st /\ answer'[e] = an
        /\ \A x \in Exchanges : x # e => stage'[x] = stage[x] /\ answer'[x] = answer[x]
    BY <1>5 DEF EntTypes
  <1>10. \A c \in Callbacks, x \in Exchanges : HeldBy(c, x)' <=> HeldBy(c, x)
    BY <1>6 DEF HeldBy, Holds
  <1>11. \A i \in DOMAIN requests, x \in Exchanges : QueuedAt(i, x)' <=> QueuedAt(i, x)
    BY <1>6 DEF QueuedAt
  <1>12. \A x \in Exchanges : Placed(x)' => (Placed(x) /\ x \notin swept) \/ (x = e /\ st = "redirecting")
    BY <1>4, <1>5, <1>6, <1>10, <1>11 DEF Placed, OnePlace
  <1>13. OnePlace'
    BY <1>4, <1>5, <1>6, <1>10, <1>11 DEF OnePlace, Placed
  <1>14. CommandsMatch'
    BY <1>1, <1>3, <1>6, <1>9, MessageFacts DEF CommandsMatch
  <1>15. RequestsMatch'
    BY <1>6 DEF RequestsMatch
  <1>16. Awaited'
    <2> SUFFICES ASSUME NEW x \in Exchanges
                 PROVE  /\ Placed(x)' => outcome'[x] = "none" /\ (x \in cancelled' \/ Waiting(x)')
                        /\ x \in registry' => stage'[x] \in {"redirecting", "pending"} \cup Withdrawn
                        /\ x \in cancelled' => stage'[x] \in Withdrawn \cup {"answering", "ended"}
                        /\ outcome'[x] # "none" => Waiting(x)'
      BY DEF Awaited
    <2>1. CASE x = e
      BY <1>4, <1>5, <1>6, <1>7, <1>9, <1>12, <2>1 DEF Waiting
    <2>2. CASE x # e
      BY <1>5, <1>6, <1>7, <1>9, <1>12, <2>2 DEF Waiting, Awaited
    <2> QED  BY <2>1, <2>2
  <1>17. AdmissionsProven'
    <2>1. \A x : (Proven(x)' <=> Proven(x)) /\ (Accepts(x)' <=> Accepts(x))
      BY <1>6 DEF Proven, Accepts
    <2> QED  BY <1>5, <1>6, <1>7, <1>9, <2>1 DEF AdmissionsProven
  <1> QED  BY <1>8, <1>13, <1>14, <1>15, <1>16, <1>17

\* The owner removes a transaction; the exchange ends its session, if nobody
\* has taken it.
LEMMA RemoveStep == ASSUME EntInv, Remove PROVE EntInv'
  <1> USE DEF EntInv
  <1>1. PICK m \in CommandSet :
          /\ 1 \in DOMAIN commands /\ m = commands[1] /\ m = Head(commands) /\ m.op = "remove"
          /\ commands' = Tail(commands) /\ commands' \in Seq(CommandSet)
          /\ \A i \in DOMAIN commands' :
                /\ i + 1 \in DOMAIN commands /\ i + 1 # 1 /\ commands'[i] = commands[i + 1]
                /\ \A j \in DOMAIN commands' : i + 1 = j + 1 => i = j
    <2> HIDE DEF CommandSet
    <2>1. commands \in Seq(CommandSet) /\ commands # <<>> /\ Head(commands).op = "remove"
          /\ commands' = Tail(commands)
      BY DEF Remove, EntTypes
    <2> QED  BY <2>1, TailFacts
  <1>2. PICK e \in Exchanges : e = m.exchange
    BY <1>1 DEF CommandSet
  <1>3. e \in cancelled
    BY <1>1, <1>2 DEF CommandsMatch
  <1>4. /\ stage[e] \in Withdrawn \cup {"answering", "ended"}
        /\ outcome[e] = "none" /\ answer[e] # "Resolved"
    BY <1>3, ConsistentNow DEF Consistent, Waiting, Withdrawn
  <1>5. PICK st \in {"answering", "ended"}, ph \in Phases, an \in Answers :
          /\ registry' = registry \ {e}
          /\ stage' = [stage EXCEPT ![e] = st]
          /\ phase' = [phase EXCEPT ![e] = ph] /\ (e \notin registry => ph = phase[e])
          /\ answer' = [answer EXCEPT ![e] = an] /\ an # "Resolved"
    <2>1. /\ answer[e] \in Answers /\ answer = [answer EXCEPT ![e] = answer[e]]
          /\ phase[e] \in Phases /\ phase = [phase EXCEPT ![e] = phase[e]]
          /\ \A end \in Terminal : (IF phase[e] \in Terminal THEN phase[e] ELSE end) \in Phases
      BY DEF EntTypes, Phases
    <2>2. "Expired" \in Answers /\ "Expired" \in Terminal /\ "Cancelled" \in Terminal
      BY DEF Answers, Terminal
    <2>3. /\ registry' = registry \ {e}
          /\ IF stage[e] = "expiring" THEN Responds(e, "Expired") ELSE Ends(e)
          /\ IF e \in registry
             THEN Dies(e, IF stage[e] = "expiring" THEN "Expired" ELSE "Cancelled")
             ELSE UNCHANGED sessionVars
      BY <1>1, <1>2 DEF Remove
    <2>4. \E ph \in Phases : /\ phase' = [phase EXCEPT ![e] = ph]
                             /\ e \notin registry => ph = phase[e]
      BY <2>1, <2>2, <2>3 DEF Dies, sessionVars
    <2>5. \E st \in {"answering", "ended"}, an \in Answers :
             /\ stage' = [stage EXCEPT ![e] = st]
             /\ answer' = [answer EXCEPT ![e] = an] /\ an # "Resolved"
      BY <1>4, <2>1, <2>2, <2>3 DEF Responds, Ends
    <2> QED  BY <2>3, <2>4, <2>5
  <1>6. UNCHANGED <<provider, cancelled, outcome, requests, handling, target, route, clock, page,
                    overdue, verified>>
    BY DEF Remove, Responds, Ends, Dies, sessionVars, browserVars, httpVars
  <1>7. EntTypes'
    BY <1>1, <1>5, <1>6 DEF EntTypes, Stages
  <1>8. /\ stage'[e] = st /\ answer'[e] = an /\ phase'[e] = ph
        /\ \A x \in Exchanges : x # e =>
              stage'[x] = stage[x] /\ answer'[x] = answer[x] /\ phase'[x] = phase[x]
    BY <1>5 DEF EntTypes
  <1>9. \A c \in Callbacks, x \in Exchanges : HeldBy(c, x)' <=> HeldBy(c, x)
    BY <1>6 DEF HeldBy, Holds
  <1>10. \A i \in DOMAIN requests, x \in Exchanges : QueuedAt(i, x)' <=> QueuedAt(i, x)
    BY <1>6 DEF QueuedAt
  <1>11. \A x \in Exchanges : Placed(x)' => Placed(x)
    BY <1>5, <1>6, <1>9, <1>10 DEF Placed
  <1>12. OnePlace'
    BY <1>5, <1>6, <1>9, <1>10 DEF OnePlace
  <1>13. CommandsMatch'
    <2>1. \A i \in DOMAIN commands : commands[i].op = "register" => commands[i].exchange # e
      BY <1>4 DEF CommandsMatch, Withdrawn
    <2> QED  BY <1>1, <1>6, <1>8, <2>1, MessageFacts DEF CommandsMatch
  <1>14. RequestsMatch'
    BY <1>6 DEF RequestsMatch
  <1>15. Awaited'
    BY <1>3, <1>4, <1>5, <1>6, <1>8, <1>11 DEF Awaited, Waiting
  <1>16. \A x \in Exchanges : /\ Proven(x)' <=> Proven(x)
                              /\ x # e \/ e \notin registry => (Accepts(x)' <=> Accepts(x))
    BY <1>5, <1>6, <1>8 DEF Proven, Accepts
  <1>17. AdmissionsProven'
    <2>1. ASSUME NEW c \in Callbacks, handling'[c] = "finishing", page'[c] = "Admitted"
          PROVE  Accepts(target[c])'
      <3>1. target[c] \in Exchanges /\ HeldBy(c, target[c])
        BY <1>6, <2>1 DEF EntTypes, HeldBy, Holds
      <3>2. target[c] \notin registry
        BY <3>1 DEF OnePlace
      <3> QED  BY <1>6, <1>16, <2>1, <3>1, <3>2 DEF AdmissionsProven
    <2>2. ASSUME NEW i \in DOMAIN requests, requests[i].op = "complete",
                 requests[i].result = "Admitted"
          PROVE  Accepts(requests[i].exchange)'
      <3>1. requests[i].exchange \in Exchanges /\ requests[i].exchange \notin registry
        BY <2>2, MessageFacts DEF OnePlace, QueuedAt
      <3> QED  BY <1>6, <1>16, <2>2, <3>1 DEF AdmissionsProven
    <2> QED  BY <1>4, <1>5, <1>6, <1>8, <1>16, <2>1, <2>2 DEF AdmissionsProven
  <1> QED  BY <1>7, <1>12, <1>13, <1>14, <1>15, <1>17

\* The first request of the callback channel, and the channel without it.
LEMMA FirstRequest ==
    ASSUME EntInv, requests # <<>>, requests' = Tail(requests)
    PROVE  \E m \in RequestSet :
              /\ 1 \in DOMAIN requests /\ m = requests[1] /\ m = Head(requests)
              /\ requests' \in Seq(RequestSet)
              /\ \A i \in DOMAIN requests' :
                    /\ i + 1 \in DOMAIN requests /\ i + 1 # 1 /\ requests'[i] = requests[i + 1]
                    /\ \A j \in DOMAIN requests' : i + 1 = j + 1 => i = j
  <1> HIDE DEF RequestSet
  <1>1. requests \in Seq(RequestSet)
    BY DEF EntInv, EntTypes
  <1> QED  BY <1>1, TailFacts

\* The owner consumes the entry a handler asks for and hands it over, or
\* drops it when the handler has left.
LEMMA TakeStep == ASSUME EntInv, Take PROVE EntInv'
  <1> USE DEF EntInv
  <1>1. PICK m \in RequestSet :
          /\ 1 \in DOMAIN requests /\ m = requests[1] /\ m = Head(requests)
          /\ requests' \in Seq(RequestSet)
          /\ \A i \in DOMAIN requests' :
                /\ i + 1 \in DOMAIN requests /\ i + 1 # 1 /\ requests'[i] = requests[i + 1]
                /\ \A j \in DOMAIN requests' : i + 1 = j + 1 => i = j
    BY FirstRequest DEF Take
  <1>2. m.op = "take"
    BY <1>1 DEF Take
  <1>3. PICK e \in Exchanges, b \in Callbacks : e = m.exchange /\ b = m.callback
    BY DEF RequestSet
  <1>4. handling[b] = "taking" => target[b] = e
    BY <1>1, <1>2, <1>3 DEF RequestsMatch
  <1>5. PICK swept \in SUBSET registry, gone \in SUBSET registry,
             given \in BOOLEAN, next \in {"taking", "verifying", "done"} :
          /\ registry' = registry \ gone
          /\ swept \subseteq gone /\ (given => e \in gone /\ e \notin swept)
          /\ Settle(swept, "lost")
          /\ given <=> handling[b] = "taking" /\ next = "verifying"
          /\ IF handling[b] # "taking" THEN UNCHANGED httpVars
             ELSE IF given THEN Continues(b, "verifying") ELSE Shows(b, "InvalidState")
    <2> DEFINE found == e \in registry \ m.swept
               waits == handling[b] = "taking"
               lost == (registry \cap m.swept) \cup (IF found /\ ~waits THEN {e} ELSE {})
    <2>1. /\ registry' = (registry \ m.swept) \ {e}
          /\ Settle(lost, "lost")
          /\ IF ~waits THEN UNCHANGED httpVars
             ELSE IF found THEN Continues(b, "verifying") ELSE Shows(b, "InvalidState")
      BY <1>1, <1>3 DEF Take, Taken
    <2>2. lost \in SUBSET registry
      OBVIOUS
    <2>3. (registry \cap (m.swept \cup {e})) \in SUBSET registry
          /\ (registry \ m.swept) \ {e} = registry \ (registry \cap (m.swept \cup {e}))
          /\ lost \subseteq registry \cap (m.swept \cup {e})
      OBVIOUS
    <2>4. CASE waits /\ found
      <3>1. e \in registry \cap (m.swept \cup {e}) /\ e \notin lost
        BY <2>4
      <3> HIDE DEF lost
      <3> QED  BY <2>1, <2>2, <2>3, <2>4, <3>1
    <2>5. CASE ~(waits /\ found)
      <3> HIDE DEF lost
      <3> QED  BY <2>1, <2>2, <2>3, <2>5
    <2> QED  BY <2>4, <2>5
  <1>6. UNCHANGED <<phase, provider, stage, answer, cancelled, commands, overdue, verified>>
    BY DEF Take, sessionVars, exchangeVars
  <1>7. /\ target' \in [Callbacks -> Exchanges \cup {NoExchange}]
        /\ handling' \in [Callbacks -> Handlings]
        /\ page' \in [Callbacks -> Pages] /\ route' \in [Callbacks -> Selectable]
        /\ clock' \in [Callbacks -> SUBSET Exchanges]
        /\ \A c \in Callbacks : c # b =>
              handling'[c] = handling[c] /\ target'[c] = target[c] /\ page'[c] = page[c]
        /\ IF handling[b] # "taking" THEN handling'[b] = handling[b] /\ target'[b] = target[b]
                                          /\ page'[b] = page[b]
           ELSE IF given THEN handling'[b] = "verifying" /\ target'[b] = e
           ELSE handling'[b] = "done"
    <2> USE DEF EntTypes, Handlings, Selectable, Pages, Results
    <2>1. CASE handling[b] # "taking"
      BY <1>5, <2>1 DEF httpVars
    <2>2. CASE handling[b] = "taking" /\ given
      BY <1>4, <1>5, <2>2 DEF Continues
    <2>3. CASE handling[b] = "taking" /\ ~given
      <3>1. /\ handling' = [handling EXCEPT ![b] = "done"]
            /\ page' = [page EXCEPT ![b] = "InvalidState"]
            /\ target' = [target EXCEPT ![b] = NoExchange]
            /\ route' = [route EXCEPT ![b] = NoProvider]
            /\ clock' = [clock EXCEPT ![b] = {}]
        BY <1>5, <2>3 DEF Shows
      <3>2. handling' \in [Callbacks -> Handlings] /\ page' \in [Callbacks -> Pages]
        BY <3>1
      <3>3. /\ target' \in [Callbacks -> Exchanges \cup {NoExchange}]
            /\ route' \in [Callbacks -> Selectable] /\ clock' \in [Callbacks -> SUBSET Exchanges]
        BY <3>1
      <3>4. \A c \in Callbacks : c # b =>
              handling'[c] = handling[c] /\ target'[c] = target[c] /\ page'[c] = page[c]
        BY <3>1
      <3>5. handling'[b] = "done"
        BY <3>1
      <3> QED  BY <2>3, <3>2, <3>3, <3>4, <3>5
    <2> QED  BY <2>1, <2>2, <2>3
  <1>8. \A x \in Exchanges : outcome'[x] = IF x \in swept /\ Waiting(x) THEN "lost" ELSE outcome[x]
    BY <1>5 DEF Settle
  <1>9. EntTypes'
    <2>1. outcome' \in [Exchanges -> Outcomes]
      BY <1>5 DEF Settle, EntTypes, Outcomes
    <2>2. \A c \in Callbacks : handling'[c] \notin {"idle", "done"} => target'[c] \in Exchanges
      BY <1>7 DEF EntTypes
    <2> QED  BY <1>1, <1>5, <1>6, <1>7, <2>1, <2>2 DEF EntTypes
  <1>10. \A c \in Callbacks, x \in Exchanges :
            HeldBy(c, x)' <=> HeldBy(c, x) \/ (given /\ c = b /\ x = e)
    BY <1>5, <1>7 DEF HeldBy, Holds
  <1>11. \A i \in DOMAIN requests', x \in Exchanges :
            (QueuedAt(i, x)' <=> QueuedAt(i + 1, x)) /\ i + 1 \in DOMAIN requests
    BY <1>1 DEF QueuedAt
  <1>12. \A x \in Exchanges : Placed(x)' => Placed(x) /\ x \notin swept
    BY <1>5, <1>10, <1>11 DEF Placed, OnePlace
  <1>13. OnePlace'
    <2>1. given => e \in registry /\ e \notin registry'
      BY <1>5
    <2> QED  BY <1>1, <1>5, <1>10, <1>11, <2>1 DEF OnePlace
  <1>14. CommandsMatch'
    BY <1>6 DEF CommandsMatch
  <1>15. RequestsMatch'
    BY <1>1, <1>5, <1>7, MessageFacts DEF RequestsMatch
  <1>16. Awaited'
    BY <1>5, <1>6, <1>8, <1>12 DEF Awaited, Waiting
  <1>17. AdmissionsProven'
    <2>1. \A x : (Proven(x)' <=> Proven(x)) /\ (Accepts(x)' <=> Accepts(x))
      BY <1>6 DEF Proven, Accepts
    <2>2. ASSUME NEW c \in Callbacks, handling'[c] = "finishing", page'[c] = "Admitted"
          PROVE  Accepts(target[c])'
      <3>1. handling[c] = "finishing" /\ page[c] = "Admitted" /\ target'[c] = target[c]
        BY <1>7, <2>2
      <3> QED  BY <2>1, <3>1 DEF AdmissionsProven
    <2> QED  BY <1>1, <1>6, <1>8, <2>1, <2>2 DEF AdmissionsProven
  <1> QED  BY <1>9, <1>13, <1>14, <1>15, <1>16, <1>17

\* The owner commits a completion to the exchange that waits for it.
LEMMA CompleteStep == ASSUME EntInv, Complete PROVE EntInv'
  <1> USE DEF EntInv
  <1>1. PICK m \in RequestSet :
          /\ 1 \in DOMAIN requests /\ m = requests[1] /\ m = Head(requests)
          /\ requests' \in Seq(RequestSet)
          /\ \A i \in DOMAIN requests' :
                /\ i + 1 \in DOMAIN requests /\ i + 1 # 1 /\ requests'[i] = requests[i + 1]
                /\ \A j \in DOMAIN requests' : i + 1 = j + 1 => i = j
    BY FirstRequest DEF Complete
  <1>2. PICK e \in Exchanges, b \in Callbacks :
          e = m.exchange /\ b = m.callback /\ m.op = "complete" /\ m.result \in Pages
    BY <1>1 DEF RequestSet, Complete
  <1>3. QueuedAt(1, e) /\ Placed(e)
    BY <1>1, <1>2 DEF QueuedAt, Placed
  <1>4. PICK ph \in Phases, r \in Pages :
          /\ phase' = [phase EXCEPT ![e] = ph]
          /\ Settle({e}, r)
          /\ r = "Admitted" => ph = phase[e] /\ m.result = "Admitted"
          /\ IF handling[b] = "completing" THEN Shows(b, Returned(b, r)) ELSE UNCHANGED httpVars
    <2>1. Committed(m) \in Pages
      BY <1>2 DEF Committed, Pages, Results
    <2>2. /\ phase[e] \in Phases /\ phase = [phase EXCEPT ![e] = phase[e]]
          /\ \A end \in Terminal : (IF phase[e] \in Terminal THEN phase[e] ELSE end) \in Phases
      BY DEF EntTypes, Phases
    <2>3. \E ph \in Phases : /\ phase' = [phase EXCEPT ![e] = ph]
                             /\ Committed(m) = "Admitted" => ph = phase[e]
      <3>1. "Cancelled" \in Terminal /\ "Failed" \in Terminal
        BY DEF Terminal
      <3>2. CASE e \in cancelled
        <4>1. Dies(e, "Cancelled") /\ Committed(m) = "InvalidState"
          BY <1>1, <1>2, <3>2 DEF Complete, Committed
        <4> QED  BY <2>2, <3>1, <4>1 DEF Dies
      <3>3. CASE e \notin cancelled /\ b \in late
        <4>1. Dies(e, "Failed") /\ Committed(m) = "Platform"
          BY <1>1, <1>2, <3>3 DEF Complete, Committed
        <4> QED  BY <2>2, <3>1, <4>1 DEF Dies
      <3>4. CASE e \notin cancelled /\ b \notin late
        <4>1. UNCHANGED phase
          BY <1>1, <1>2, <3>4 DEF Complete, sessionVars
        <4> QED  BY <2>2, <4>1
      <3> QED  BY <3>2, <3>3, <3>4
    <2>4. Committed(m) = "Admitted" => m.result = "Admitted"
      BY DEF Committed
    <2>5. /\ Settle({e}, Committed(m))
          /\ IF handling[b] = "completing" THEN Shows(b, Returned(b, Committed(m)))
                                           ELSE UNCHANGED httpVars
      BY <1>1, <1>2 DEF Complete
    <2> QED  BY <2>1, <2>3, <2>4, <2>5
  <1>5. UNCHANGED <<provider, stage, answer, cancelled, registry, commands, overdue, verified>>
    BY DEF Complete, Dies, sessionVars, exchangeVars
  <1>6. /\ target' \in [Callbacks -> Exchanges \cup {NoExchange}]
        /\ handling' \in [Callbacks -> Handlings]
        /\ page' \in [Callbacks -> Pages] /\ route' \in [Callbacks -> Selectable]
        /\ clock' \in [Callbacks -> SUBSET Exchanges]
        /\ \A c \in Callbacks : c # b =>
              handling'[c] = handling[c] /\ target'[c] = target[c] /\ page'[c] = page[c]
        /\ handling[b] \in {"completing", "done"} /\ handling'[b] = "done"
    <2> USE DEF EntTypes, Handlings, Selectable, Pages, Results
    <2>1. handling[b] \in {"completing", "done"}
      BY <1>1, <1>2 DEF RequestsMatch
    <2>2. CASE handling[b] = "completing"
      <3>1. Returned(b, r) \in Pages
        BY <1>4 DEF Returned
      <3>2. Shows(b, Returned(b, r))
        BY <1>4, <2>2
      <3> QED  BY <2>2, <3>1, <3>2 DEF Shows
    <2>3. CASE handling[b] = "done"
      BY <1>4, <2>3 DEF httpVars
    <2> QED  BY <2>1, <2>2, <2>3
  <1>7. \A x \in Exchanges : outcome'[x] = IF x = e /\ Waiting(x) THEN r ELSE outcome[x]
    BY <1>4 DEF Settle
  <1>8. phase'[e] = ph /\ \A x \in Exchanges : x # e => phase'[x] = phase[x]
    BY <1>4 DEF EntTypes
  <1>9. EntTypes'
    <2>1. outcome' \in [Exchanges -> Outcomes]
      BY <1>4 DEF Settle, EntTypes, Outcomes
    <2>2. \A c \in Callbacks : handling'[c] \notin {"idle", "done"} => target'[c] \in Exchanges
      BY <1>6 DEF EntTypes
    <2> QED  BY <1>1, <1>4, <1>5, <1>6, <2>1, <2>2 DEF EntTypes
  <1>10. \A c \in Callbacks, x \in Exchanges : HeldBy(c, x)' <=> HeldBy(c, x)
    BY <1>6 DEF HeldBy, Holds
  <1>11. \A i \in DOMAIN requests', x \in Exchanges :
            (QueuedAt(i, x)' <=> QueuedAt(i + 1, x)) /\ i + 1 \in DOMAIN requests
    BY <1>1 DEF QueuedAt
  <1>12. \A x \in Exchanges : Placed(x)' => Placed(x) /\ x # e
    BY <1>1, <1>3, <1>5, <1>10, <1>11 DEF Placed, OnePlace
  <1>13. OnePlace'
    BY <1>1, <1>5, <1>10, <1>11 DEF OnePlace
  <1>14. CommandsMatch'
    BY <1>5 DEF CommandsMatch
  <1>15. RequestsMatch'
    BY <1>1, <1>6, MessageFacts DEF RequestsMatch
  <1>16. Awaited'
    BY <1>5, <1>7, <1>12 DEF Awaited, Waiting
  <1>17. \A x \in Exchanges : /\ Proven(x)' <=> Proven(x)
                              /\ x # e => (Accepts(x)' <=> Accepts(x))
    BY <1>5, <1>8 DEF Proven, Accepts
  <1>18. r = "Admitted" => Accepts(e)'
    BY <1>1, <1>2, <1>4, <1>5, <1>8 DEF AdmissionsProven, Accepts, Proven
  <1>19. AdmissionsProven'
    <2>1. ASSUME NEW c \in Callbacks, handling'[c] = "finishing", page'[c] = "Admitted"
          PROVE  Accepts(target[c])'
      <3>1. /\ handling[c] = "finishing" /\ page[c] = "Admitted" /\ target'[c] = target[c]
            /\ target[c] \in Exchanges
        BY <1>6, <2>1 DEF EntTypes
      <3>2. target[c] # e
        BY <1>1, <1>3, <3>1 DEF OnePlace, HeldBy, Holds
      <3> QED  BY <1>17, <3>1, <3>2 DEF AdmissionsProven
    <2>2. ASSUME NEW i \in DOMAIN requests', requests'[i].op = "complete",
                 requests'[i].result = "Admitted"
          PROVE  Accepts(requests[i].exchange)'
      <3>1. /\ requests'[i] = requests[i + 1] /\ i + 1 \in DOMAIN requests /\ i + 1 # 1
            /\ requests[i + 1].exchange \in Exchanges
        BY <1>1, MessageFacts
      <3>2. requests[i + 1].exchange # e
        BY <1>1, <1>3, <2>2, <3>1 DEF OnePlace, QueuedAt
      <3> QED  BY <1>17, <2>2, <3>1, <3>2 DEF AdmissionsProven
    <2>3. outcome[e] = "none"
      BY <1>3 DEF Awaited
    <2> QED  BY <1>5, <1>7, <1>17, <1>18, <2>1, <2>2, <2>3 DEF AdmissionsProven
  <1> QED  BY <1>9, <1>13, <1>14, <1>15, <1>16, <1>19

\* Every step keeps the invariant.
LEMMA EntNextInv == ASSUME EntInv, [Next]_vars PROVE EntInv'
  <1>1. ASSUME NEW e \in Exchanges, SessionDeadline(e) PROVE EntInv'
    BY <1>1, DeadlineSteps DEF SessionDeadline, EntInv, EntTypes
  <1>2. ASSUME NEW b \in Callbacks, CallbackDeadline(b) PROVE EntInv'
    BY <1>2, DeadlineSteps DEF CallbackDeadline, EntInv, EntTypes
  <1>3. CASE UNCHANGED vars
    BY <1>3, DeadlineSteps DEF vars, browserVars, EntInv, EntTypes
  <1>4. ASSUME NEW e \in Exchanges, Accept(e) \/ Exchange(e) PROVE EntInv'
    BY <1>4, EarlySteps, UrlWrittenStep, WithdrawStep, AnswerSteps DEF Exchange
  <1>5. ASSUME NEW b \in Callbacks, Handler(b) PROVE EntInv'
    BY <1>5, ArriveSteps, AskStep, ConcludeSteps, FinishStep, LeaveSteps DEF Handler
  <1>6. ASSUME Owner PROVE EntInv'
    BY <1>6, RegisterStep, RemoveStep, TakeStep, CompleteStep, AnswerSteps DEF Owner
  <1> QED  BY <1>1, <1>2, <1>3, <1>4, <1>5, <1>6, ArriveSteps DEF Next

-----------------------------------------------------------------------------
(* The theorems *)

\* The relay discloses a target only to an exchange whose user was verified
\* with the provider that exchange selected and that has not withdrawn: no
\* replayed or misrouted callback, no late completion admits another.
THEOREM EnterpriseDiscloses == EntSpec => []DisclosedOnlyToMember
  <1>1. EntInv => DisclosedOnlyToMember
    BY DEF EntInv, AdmissionsProven, DisclosedOnlyToMember, Proven
  <1> QED  BY <1>1, EntInitInv, EntNextInv, PTL DEF EntSpec

\* A session has at most one owner.
LEMMA OneOwner ==
    ASSUME EntInv, NEW e \in Exchanges
    PROVE  Cardinality(Owners(e)) <= 1
  <1> USE DEF EntInv
  <1>1. ASSUME NEW i \in DOMAIN commands, commands[i].op = "register", commands[i].exchange = e
        PROVE  ~Placed(e)
    <2>1. stage[e] = "registering"
      BY <1>1 DEF CommandsMatch
    <2> QED  BY <2>1, ConsistentNow DEF Consistent, Withdrawn
  <1>2. ASSUME NEW x \in Owners(e), NEW y \in Owners(e) PROVE x = y
    <2>1. CASE e \in registry
      BY <1>1, <2>1 DEF Owners, OnePlace, HeldBy, QueuedAt, Placed
    <2>2. CASE e \notin registry
      BY <1>1, <2>2 DEF Owners, OnePlace, CommandsMatch, HeldBy, QueuedAt, Placed
    <2> QED  BY <2>1, <2>2
  <1>3. Owners(e) = {} \/ \E x : Owners(e) = {x}
    BY <1>2
  <1>4. Cardinality(Owners(e)) = 0 \/ Cardinality(Owners(e)) = 1
    BY <1>3, FS_EmptySet, FS_Singleton
  <1> QED  BY <1>4

\* A transaction is in one place at a time, and what is registered belongs to
\* an exchange that holds a permit.
THEOREM EnterpriseOwns == EntSpec => []TransactionsOwned
  <1>1. EntInv => TransactionsOwned
    <2>1. EntInv => registry \subseteq Running
      BY ConsistentNow DEF EntInv, EntTypes, Consistent, Running, Withdrawn
    <2> QED  BY <2>1, OneOwner DEF TransactionsOwned
  <1> QED  BY <1>1, EntInitInv, EntNextInv, PTL DEF EntSpec

\* A handler that waits for its completion returns by the owner's commit, its
\* deadline or the loss of its browser.
LEMMA CompletingEnds ==
    ASSUME EntInv, [Next]_vars, NEW b \in Callbacks,
           handling[b] = "completing", handling'[b] = "done"
    PROVE  AskTimesOut(b) \/ Disconnects(b) \/ Complete
  <1>0. handling \in [Callbacks -> Handlings]
    BY DEF EntInv, EntTypes
  <1>1. UNCHANGED handling => FALSE
    OBVIOUS
  <1>2. \A e \in Exchanges : ~Accept(e) /\ ~Exchange(e) /\ ~SessionDeadline(e)
    BY <1>1 DEF Accept, Exchange, SessionDeadline, EarlyFailure, Admitted, Limited, Offered, Select,
                UrlWritten, UrlFails, Expires, PeerCloses, OutcomeReceived, Answered, browserVars,
                httpVars
  <1>3. /\ ~Register /\ ~Remove /\ \A c \in Callbacks : ~CallbackDeadline(c)
        /\ \A e \in Exchanges, found \in BOOLEAN : ~ResolveTarget(e, found)
    BY <1>1 DEF Register, Remove, CallbackDeadline, ResolveTarget, browserVars, httpVars
  <1>4. \A c \in Callbacks, e \in Exchanges, p \in Providers : ~Arrive(c, e, p)
    BY <1>0 DEF Arrive
  <1>5. ~Take
    <2>1. SUFFICES ASSUME Take PROVE FALSE
      OBVIOUS
    <2>2. PICK c : /\ handling[c] = "taking"
                   /\ \/ handling' = [handling EXCEPT ![c] = "verifying"]
                      \/ handling' = [handling EXCEPT ![c] = "done"]
      BY <1>1, <2>1 DEF Take, Continues, Shows, httpVars
    <2> QED  BY <1>0, <2>2
  <1>6. ASSUME NEW c \in Callbacks, Handler(c) PROVE c = b /\ (AskTimesOut(b) \/ Disconnects(b))
    <2>1. \E h : handling' = [handling EXCEPT ![c] = h]
      BY <1>6 DEF Handler, Ask, AskTimesOut, Mismatch, Member, NotMember, VerificationCancelled,
                  VerificationTimesOut, Finish, FinishTimesOut, Disconnects, Continues, Shows, Concludes
    <2>2. c = b
      BY <1>0, <2>1
    <2> QED  BY <1>6, <2>2 DEF Handler, Ask, Mismatch, Member, NotMember, VerificationCancelled,
                               VerificationTimesOut, Finish, FinishTimesOut
  <1>7. UNCHANGED vars => UNCHANGED handling
    BY DEF vars, browserVars, httpVars
  <1> QED  BY <1>1, <1>2, <1>3, <1>4, <1>5, <1>6, <1>7 DEF Next, Owner

\* The browser is told "admitted" only by the commit that reaches the exchange.
LEMMA AdmittedPage ==
    ASSUME EntInv, [Next]_vars, NEW b \in Callbacks,
           handling[b] = "completing", handling'[b] = "done", page'[b] = "Admitted"
    PROVE  Waiting(target[b]) /\ outcome'[target[b]] = "Admitted"
  <1> USE DEF EntInv
  <1>0. page \in [Callbacks -> Pages] /\ handling \in [Callbacks -> Handlings]
    BY DEF EntTypes
  <1>1. ~AskTimesOut(b)
    BY <1>0 DEF AskTimesOut, Shows, Returned
  <1>2. ~Disconnects(b)
    BY <1>0 DEF Disconnects, Shows
  <1>3. Complete
    BY <1>1, <1>2, CompletingEnds
  <1> DEFINE m == Head(requests)
             e == m.exchange
  <1>4. /\ 1 \in DOMAIN requests /\ m = requests[1] /\ m.op = "complete"
        /\ e \in Exchanges /\ m.callback \in Callbacks
    <2>1. 1 \in DOMAIN requests /\ m = requests[1] /\ m.op = "complete"
      BY <1>3, FirstRequest DEF Complete
    <2> QED  BY <2>1, MessageFacts
  <1>5. /\ Settle({e}, Committed(m))
        /\ IF handling[m.callback] = "completing" THEN Shows(m.callback, Returned(m.callback, Committed(m)))
                                                  ELSE UNCHANGED httpVars
    BY <1>3 DEF Complete
  <1> HIDE DEF m
  <1>6. b = m.callback
    BY <1>0, <1>4, <1>5 DEF Shows, httpVars
  <1>7. Returned(b, Committed(m)) = "Admitted"
    BY <1>0, <1>5, <1>6 DEF Shows
  <1>8. Committed(m) = "Admitted" /\ e \notin cancelled
    BY <1>7 DEF Returned, Committed
  <1>9. target[b] = e
    BY <1>4, <1>6 DEF RequestsMatch
  <1>10. Waiting(e)
    BY <1>4, <1>8 DEF Awaited, Placed, QueuedAt
  <1>11. outcome'[e] = Committed(m)
    BY <1>4, <1>5, <1>10 DEF Settle
  <1> QED  BY <1>8, <1>9, <1>10, <1>11

\* The browser is told "admitted" only by a commit that reaches an exchange
\* still waiting for it, and an exchange hears of an admission only with a
\* session that will accept begin_resolve().
THEOREM EnterpriseAdmits == EntSpec => AdmissionReachesWaiter
  <1> DEFINE Reaches ==
        /\ \A b \in Callbacks :
             handling[b] = "completing" /\ handling'[b] = "done" /\ page'[b] = "Admitted"
               => Waiting(target[b]) /\ outcome'[target[b]] = "Admitted"
        /\ \A e \in Exchanges :
             Waiting(e)' /\ outcome'[e] = "Admitted" => phase'[e] = "Authenticated"
  <1>1. EntInv /\ [Next]_vars => [Reaches]_vars
    <2>1. ASSUME EntInv, [Next]_vars, NEW e \in Exchanges, outcome'[e] = "Admitted"
          PROVE  phase'[e] = "Authenticated"
      BY <2>1, EntNextInv DEF EntInv, AdmissionsProven, Accepts
    <2> QED  BY <2>1, AdmittedPage
  <1> QED  BY <1>1, EntInitInv, EntNextInv, PTL DEF EntSpec, AdmissionReachesWaiter
=============================================================================
