--------------------------- MODULE ResolveLimiters ---------------------------
(***************************************************************************)
(* ResolveLimiters of crates/yon-relay/src/registry.rs as the owner loop   *)
(* uses it (handle_resolve_call_inner, service.rs): one global limiter,    *)
(* then one limiter per source prefix in a bounded table whose entries are *)
(* dropped after an idle spell.  A source that finds the table full is     *)
(* refused although it did nothing wrong; ResolveLimits::new is meant to   *)
(* size the table so that this cannot happen.                              *)
(*                                                                         *)
(* Time advances in ticks; Period ticks pay for one global cell.  A        *)
(* limiter's debt is how far its theoretical arrival time lies ahead.      *)
(***************************************************************************)
EXTENDS Integers, FiniteSets

CONSTANTS
    Sources,        \* SourcePrefix values
    NoSource,       \* no decodable request from a unique connection with a source
    Period,         \* ticks per cell of the global rate
    GlobalBurst,    \* global.burst()
    SourcePeriod,   \* ticks per cell of the source rate
    SourceBurst,    \* source.burst()
    Window,         \* global.per_second() * source_limiter_idle.seconds()
    TableCapacity   \* source_limiter_capacity

\* The validation of ResolveLimits::new.
ASSUME ResolveLimitsAssumption ==
    /\ NoSource \notin Sources
    /\ {Period, GlobalBurst, SourcePeriod, SourceBurst, Window, TableCapacity} \subseteq Nat \ {0}
    /\ SourcePeriod >= Period
    /\ SourceBurst <= GlobalBurst
    /\ Window + GlobalBurst <= TableCapacity

VARIABLES
    global,   \* debt of the global limiter
    sources,  \* source |-> [debt, age]; age is the time since last_seen
    result    \* what the last request was told

limiterVars == <<global, sources, result>>

\* source_limiter_idle in ticks.
Idle == Window * Period

Entry == [debt: Nat, age: 0..Idle]

Verdicts == {"None", "GlobalLimited", "NoSource", "SourceLimited", "TableFull", "Allowed"}

Init == /\ global = 0
        /\ sources = [s \in {} |-> [debt |-> 0, age |-> 0]]
        /\ result = "None"

-----------------------------------------------------------------------------
\* governor's GCRA: burst cells pass at once.  Whether a limiter that has
\* been idle lets one cell more through is left open: both answers are
\* possible on the boundary.
MayPass(debt, burst, period) == debt <= burst * period
MayRefuse(debt, burst, period) == debt > (burst - 1) * period

\* prune(): the sources that stay.
Recent == {s \in DOMAIN sources : sources[s].age < Idle}

\* The pruned table with the entry of s replaced or added.
Stored(s, debt) ==
    [t \in Recent \cup {s} |-> IF t = s THEN [debt |-> debt, age |-> 0] ELSE sources[t]]

Pruned == [t \in Recent |-> sources[t]]

\* check_source() of a source in the table: last_seen moves even on refusal.
CheckKnown(s) ==
    /\ s \in Recent
    /\ \/ /\ MayPass(sources[s].debt, SourceBurst, SourcePeriod)
          /\ sources' = Stored(s, sources[s].debt + SourcePeriod)
          /\ result' = "Allowed"
       \/ /\ MayRefuse(sources[s].debt, SourceBurst, SourcePeriod)
          /\ sources' = Stored(s, sources[s].debt)
          /\ result' = "SourceLimited"

\* check_source() of a new source; a fresh limiter lets its first cell pass.
CheckNew(s) ==
    /\ s \notin Recent
    /\ IF Cardinality(Recent) = TableCapacity
       THEN sources' = Pruned /\ result' = "TableFull"
       ELSE sources' = Stored(s, SourcePeriod) /\ result' = "Allowed"

CheckSource(s) == CheckKnown(s) \/ CheckNew(s)

\* Mutant of Resolve: the source table is consulted whatever the global
\* limiter says.
ResolveUnguarded(s) ==
    /\ s # NoSource
    /\ CheckSource(s)
    /\ global' = IF MayPass(global, GlobalBurst, Period) THEN global + Period ELSE global

\* handle_resolve_call_inner up to the registry lookup.  The global cell is
\* spent even when the request is malformed or its connection not unique.
Resolve(s) ==
    \/ /\ MayRefuse(global, GlobalBurst, Period)
       /\ result' = "GlobalLimited"
       /\ UNCHANGED <<global, sources>>
    \/ /\ MayPass(global, GlobalBurst, Period)
       /\ global' = global + Period
       /\ \/ s = NoSource /\ result' = "NoSource" /\ UNCHANGED sources
          \/ s # NoSource /\ CheckSource(s)

\* A limiter's debt after one more tick.
Paid(debt) == IF debt > 0 THEN debt - 1 ELSE 0

\* Ages beyond the idle time are all alike.
Aged(age) == IF age < Idle THEN age + 1 ELSE Idle

\* The monotonic clocks of the relay and of the limiters advance together.
Tick == /\ global' = Paid(global)
        /\ sources' = [s \in DOMAIN sources |->
                          [debt |-> Paid(sources[s].debt), age |-> Aged(sources[s].age)]]
        /\ UNCHANGED result

LimiterNext == Tick \/ \E s \in Sources \cup {NoSource} : Resolve(s)

Spec == Init /\ [][LimiterNext]_limiterVars

-----------------------------------------------------------------------------
(* Properties *)

\* Every variable holds a value of its type.
TypeOK == /\ global \in Nat
          /\ DOMAIN sources \subseteq Sources
          /\ \A s \in DOMAIN sources : sources[s] \in Entry
          /\ result \in Verdicts

\* check_source() never refuses a new source because the table is full: what
\* the global limiter admits within one idle spell always fits, whatever the
\* order and timing of requests.
TableNeverFull == result # "TableFull"

\* The configured idle time covers a source limiter's full recovery.  The
\* relay does not check this; the default limits satisfy it.
RecoversWhenIdle == (SourceBurst + 1) * SourcePeriod <= Idle

\* Dropping an idle source forgives it nothing: by the time its entry may be
\* pruned, its limiter has recovered, so that reappearing with a fresh
\* limiter gains the source no extra cell.
PruningForgivesNothing ==
    RecoversWhenIdle =>
        \A s \in DOMAIN sources : s \notin Recent => sources[s].debt = 0
=============================================================================
