------------------------- MODULE AuditLedgerProofs -------------------------
(***************************************************************************)
(* The ledger for any number of sessions and faults.  What it withstands   *)
(* is any number of faults of one kind (OneKind): processes that die or    *)
(* whose disk fails, power losses, or one dropped finalization.  A process *)
(* that dies between the rename and the directory sync and a later power   *)
(* loss together may take back a head that others have built on.           *)
(*                                                                         *)
(* The invariant: every record written so far links to the head or lies    *)
(* below it (Sound), outside the lock at most one record is pending        *)
(* (OnePending), and the records below the head are its chain (Chained).   *)
(***************************************************************************)
EXTENDS AuditLedger, FiniteSetTheorems, SequenceTheorems, TLAPS

PowerOnly == \A i \in DOMAIN faults : faults[i] = "power"
ProcessOnly == \A i \in DOMAIN faults : faults[i] \in {"crash", "disk"}

\* The faults so far are of one kind.
OneKind == PowerOnly \/ ProcessOnly \/ (Dropped /\ Len(faults) = 1)

Chains == Seq(Sessions)
Unlocked == {"start", "running", "failed", "gone"}
OpenSteps == {"identity", "seed", "state", "scan", "replace", "syncdir", "open"}
CommitSteps == {"commit", "write", "sync", "advance"}

\* Every step but the conflict, which is what the proof is about.
Steps == Unlocked \cup OpenSteps \cup CommitSteps \cup {"done"}

LedgerTypes ==
    /\ pc \in [Processes -> Steps]
    /\ lock \in Processes \cup {NoOne}
    /\ state \in Chains \cup {NoState}
    /\ stable \in Chains \cup {NoState}
    /\ record \in [Sessions -> [st: {"none", "open", "torn", "buffered", "synced"}, prev: Chains]]
    /\ target \in [Processes -> Chains]
    /\ goal \in [Processes -> {"none", "open", "commit", "done"}]
    /\ late \in [Sessions -> BOOLEAN]

\* The container of s has a commit, whole or torn.
Written(s) == record[s].st \in {"torn", "buffered", "synced"}

\* The lock is held from its acquisition to the end of the step it is for.
LockAt(p) ==
    /\ pc[p] \in OpenSteps \cup CommitSteps => lock = p
    /\ lock = p => pc[p] \in OpenSteps \cup CommitSteps \cup {"done"}
    /\ pc[p] \in {"scan", "replace", "syncdir"} => goal[p] \in {"open", "commit", "done"}
    /\ pc[p] = "scan" => goal[p] # "done"
    /\ p = Visitor => pc[p] \in {"start"} \cup OpenSteps /\ goal[p] \in {"none", "open"}

\* How far the record of a session is at each of its steps.
RecordAt(s) ==
    /\ pc[s] \in {"start", "identity", "seed", "state", "scan", "open", "running", "commit"}
         => ~Written(s)
    /\ pc[s] \in {"replace", "syncdir"} =>
          IF goal[s] = "done" THEN record[s].st = "synced" ELSE ~Written(s)
    /\ pc[s] = "write" => record[s].st = "torn"
    /\ pc[s] = "sync" => record[s].st = "buffered"
    /\ pc[s] \in {"advance", "done"} => record[s].st = "synced"
    /\ pc[s] \in {"write", "sync", "advance"} => record[s].prev = state
    /\ pc[s] = "done" \/ (pc[s] = "syncdir" /\ goal[s] = "done")
         => Len(record[s].prev) < Len(state)
    /\ late[s] => Dropped /\ pc[s] = "failed" /\ Written(s)

\* There is a head wherever one is needed, and the head that is being written
\* is the first one or commits the pending record.
HeadAt(p) ==
    /\ pc[p] \in {"scan", "open", "running", "done"} \cup CommitSteps => state # NoState
    /\ pc[p] = "replace" =>
          \/ state = NoState /\ target[p] = <<>> /\ goal[p] = "open"
          \/ /\ state # NoState
             /\ \E s \in Candidates(state) :
                   target[p] = Append(state, s) /\ (goal[p] = "done" => s = p)
    /\ pc[p] = "syncdir" => state = target[p] /\ (target[p] = <<>> => goal[p] = "open")

Stepped ==
    /\ \A p \in Processes : LockAt(p) /\ HeadAt(p)
    /\ \A s \in Sessions : RecordAt(s)

\* Every commit written so far links to head h or lies below it.
Sound(h) ==
    \A s \in Sessions : Written(s) =>
        h # NoState /\ (record[s].prev = h \/ Len(record[s].prev) < Len(h))

\* Pending records of others than the holder of the lock.
Rest == Candidates(state) \ {lock}

\* The steps of a process that has nothing to recover any more.
Recovered(p) == \/ pc[p] \in {"open", "syncdir", "done"} \cup CommitSteps
                \/ pc[p] = "replace" /\ goal[p] = "done"

OnePending ==
    /\ \A s, t \in Rest : s = t
    /\ lock # NoOne /\ Recovered(lock) => \A s \in Rest : Dropped
    /\ Dropped => /\ \A s \in Rest : pc[s] = "failed"
                  /\ \A s, t \in {x \in Sessions : pc[x] = "failed" /\ Written(x)} : s = t
    /\ faults = <<>> => \A s \in Sessions : pc[s] = "failed" => ~Written(s)

\* What a power loss would leave, as long as nothing else has failed.
StableHead ==
    PowerOnly =>
        /\ stable = state \/ (lock # NoOne /\ pc[lock] = "syncdir")
        /\ Sound(stable)
        /\ \A s, t \in {x \in Sessions : record[x].st = "synced" /\ record[x].prev = stable} : s = t
        /\ \A s \in Sessions : pc[s] = "done" => stable # NoState /\ Len(record[s].prev) < Len(stable)
        /\ \A s \in Sessions : record[s].st = "buffered" => pc[s] = "sync"

LedgerCore ==
    LedgerTypes /\ Stepped /\ Sound(state) /\ OnePending /\ StableHead

\* Head h is the chain of the records below it.
Chained(h) ==
    h # NoState => \A n \in DOMAIN h :
        /\ Whole(h[n]) /\ record[h[n]].prev = SubSeq(h, 1, n - 1)
        /\ \A t \in Sessions : Whole(t) /\ Len(record[t].prev) = n - 1 => t = h[n]

LedgerInv ==
    /\ faults \in Seq(Faults) /\ Len(faults) <= MaxFaults
    /\ OneKind => LedgerCore
    /\ OneKind /\ ~Dropped => Chained(state) /\ (PowerOnly => Chained(stable))

-----------------------------------------------------------------------------
(* Facts about chains, records and faults *)

\* Chains grow by one session at a time.
LEMMA ChainFacts ==
    /\ <<>> \in Chains /\ Len(<<>>) = 0 /\ NoState \notin Chains
    /\ \A h \in Chains : Len(h) \in Nat
    /\ \A h \in Chains, s \in Sessions :
          /\ Append(h, s) \in Chains /\ Len(Append(h, s)) = Len(h) + 1
          /\ Append(h, s) # <<>>
  <1>1. NoState \notin Chains
    <2>1. Len(NoState) = 1 /\ NoState[1] = NoOne
      BY DEF NoState
    <2>2. \A h \in Chains : Len(h) = 1 => h[1] \in Sessions
      BY DEF Chains
    <2> QED  BY <2>1, <2>2, LedgerAssumption
  <1>2. \A h \in Chains, s \in Sessions : Append(h, s) \in Chains /\ Len(Append(h, s)) = Len(h) + 1
    BY DEF Chains
  <1>3. \A h \in Chains : Len(h) \in Nat
    BY DEF Chains
  <1>4. <<>> \in Chains /\ Len(<<>>) = 0
    BY DEF Chains
  <1>5. \A h \in Chains, s \in Sessions : Append(h, s) # <<>>
    <2>1. ASSUME NEW h \in Chains, NEW s \in Sessions PROVE Append(h, s) # <<>>
      <3>1. Len(Append(h, s)) = Len(h) + 1 /\ Len(h) \in Nat /\ Len(<<>>) = 0
        BY <1>2, <1>3, <1>4
      <3>2. Len(Append(h, s)) # Len(<<>>)
        BY <3>1
      <3> QED  BY <3>2
    <2> QED  BY <2>1
  <1> QED  BY <1>1, <1>2, <1>3, <1>4, <1>5

\* The record of a session has a state and names a chain.
LEMMA RecordFacts ==
    ASSUME LedgerTypes, NEW s \in Sessions
    PROVE  /\ record[s].st \in {"none", "open", "torn", "buffered", "synced"}
           /\ record[s].prev \in Chains /\ Len(record[s].prev) \in Nat
           /\ Whole(s) => Written(s)
           /\ record[s].st = "torn" \/ Whole(s) <=> Written(s)
  <1> HIDE DEF Chains
  <1>1. record[s] \in [st: {"none", "open", "torn", "buffered", "synced"}, prev: Chains]
    BY DEF LedgerTypes
  <1>2. record[s].st \in {"none", "open", "torn", "buffered", "synced"} /\ record[s].prev \in Chains
    BY <1>1
  <1> QED  BY <1>2, ChainFacts DEF Whole, Written

\* A fault that leaves the faults so far of one kind.
LEMMA FaultKinds ==
    ASSUME faults \in Seq(Faults), Len(faults) <= MaxFaults, NEW f, Fault(f)
    PROVE  /\ faults' \in Seq(Faults) /\ Len(faults') <= MaxFaults /\ faults' # <<>>
           /\ OneKind' =>
                /\ OneKind
                /\ f = "power" => PowerOnly /\ PowerOnly' /\ ~Dropped /\ ~Dropped'
                /\ f \in {"crash", "disk"} => ~Dropped /\ ~Dropped' /\ ~PowerOnly'
                /\ f = "drop" => faults = <<>> /\ Dropped' /\ ~Dropped /\ ~PowerOnly'
  <1> DEFINE n == Len(faults) + 1
  <1>1. f \in Faults /\ faults' = Append(faults, f) /\ Len(faults) < MaxFaults
    BY DEF Fault
  <1>2. /\ Len(faults) \in Nat /\ DOMAIN faults = 1..Len(faults)
        /\ faults' \in Seq(Faults) /\ Len(faults') = n /\ DOMAIN faults' = 1..n
        /\ faults'[n] = f /\ \A i \in DOMAIN faults : faults'[i] = faults[i]
    BY <1>1
  <1>3. n \in DOMAIN faults' /\ DOMAIN faults \subseteq DOMAIN faults'
    BY <1>2
  <1>4. \A i \in DOMAIN faults' : i = n \/ i \in DOMAIN faults
    BY <1>2
  <1>5. Len(faults') <= MaxFaults
    BY <1>1, <1>2, LedgerAssumption
  <1>6. faults' # <<>>
    BY <1>2
  <1>7. Len(faults') = 1 => faults = <<>> /\ DOMAIN faults = {}
    BY <1>2
  <1>8. /\ PowerOnly' <=> PowerOnly /\ f = "power"
        /\ ProcessOnly' <=> ProcessOnly /\ f \in {"crash", "disk"}
        /\ Dropped' <=> Dropped \/ f = "drop"
    BY <1>2, <1>3, <1>4 DEF PowerOnly, ProcessOnly, Dropped
  <1>9. PowerOnly \/ ProcessOnly => ~Dropped
    BY DEF PowerOnly, ProcessOnly, Dropped
  <1>10. faults = <<>> => ~Dropped /\ PowerOnly
    BY DEF Dropped, PowerOnly
  <1> HIDE DEF n
  <1>11. ASSUME OneKind'
         PROVE  /\ OneKind
                /\ f = "power" => PowerOnly /\ PowerOnly' /\ ~Dropped /\ ~Dropped'
                /\ f \in {"crash", "disk"} => ~Dropped /\ ~Dropped' /\ ~PowerOnly'
                /\ f = "drop" => faults = <<>> /\ Dropped' /\ ~Dropped /\ ~PowerOnly'
    <2>1. CASE PowerOnly'
      BY <1>8, <1>9, <2>1 DEF OneKind
    <2>2. CASE ProcessOnly'
      BY <1>8, <1>9, <2>2 DEF OneKind
    <2>3. CASE Dropped' /\ Len(faults') = 1
      BY <1>7, <1>8, <1>10, <2>3 DEF OneKind
    <2> QED  BY <1>11, <2>1, <2>2, <2>3 DEF OneKind
  <1> QED  BY <1>2, <1>5, <1>6, <1>11

\* Without a fault the faults stay of one kind.
LEMMA NoFault ==
    ASSUME UNCHANGED faults
    PROVE  (OneKind' <=> OneKind) /\ (PowerOnly' <=> PowerOnly) /\ (Dropped' <=> Dropped)
  BY DEF OneKind, PowerOnly, ProcessOnly, Dropped

\* A power loss alone drops nothing.
LEMMA PowerDropsNothing == PowerOnly => ~Dropped
  BY DEF PowerOnly, Dropped

-----------------------------------------------------------------------------
(* Steps of one process that leave the files alone *)

\* What a process finds when it does not change a file: every other process and
\* every record is where it was.
LEMMA LocalStep ==
    ASSUME LedgerCore, LedgerTypes', NEW p \in Processes,
           UNCHANGED <<state, stable, record, late, faults>>,
           \A q \in Processes : q # p =>
               pc'[q] = pc[q] /\ goal'[q] = goal[q] /\ target'[q] = target[q],
           lock' = lock \/ (lock \in {NoOne, p} /\ lock' \in {NoOne, p}),
           LockAt(p)', HeadAt(p)', p \in Sessions => RecordAt(p)',
           pc[p] # "sync", pc[p] # "syncdir",
           pc'[p] = "done" => pc[p] = "done",
           p \in Candidates(state) => lock' = p,
           lock' = p /\ Recovered(p)' => \A s \in Candidates(state) : s = p \/ Dropped,
           pc'[p] = "failed" => p \notin Sessions \/ ~Written(p)
    PROVE  LedgerCore'
  <1> USE DEF LedgerCore
  <1> HIDE DEF Chains
  <1>0. p # NoOne /\ (Dropped' <=> Dropped) /\ (PowerOnly' <=> PowerOnly)
    BY NoFault, LedgerAssumption DEF Processes
  <1>1. \A s \in Sessions : s \in Processes /\ (Written(s)' <=> Written(s)) /\ (Whole(s)' <=> Whole(s))
    BY DEF Processes, Written, Whole
  <1>2. \A h : Candidates(h)' = Candidates(h)
    BY <1>1 DEF Candidates
  <1>3. Stepped'
    <2>1. ASSUME NEW q \in Processes, q # p PROVE LockAt(q)' /\ HeadAt(q)'
      <3>1. LockAt(q) /\ HeadAt(q)
        BY DEF Stepped
      <3>2. LockAt(q)'
        <4>1. q # NoOne
          BY LedgerAssumption DEF Processes
        <4> QED  BY <2>1, <3>1, <4>1 DEF LockAt
      <3>3. HeadAt(q)'
        BY <1>2, <2>1, <3>1 DEF HeadAt
      <3> QED  BY <3>2, <3>3
    <2>2. ASSUME NEW s \in Sessions, s # p PROVE RecordAt(s)'
      BY <1>0, <1>1, <2>2 DEF RecordAt, Stepped
    <2> QED  BY <2>1, <2>2 DEF Stepped
  <1>4. Sound(state)' /\ (Sound(stable)' <=> Sound(stable))
    BY <1>1 DEF Sound
  <1>5. Rest' \subseteq Rest
    <2>1. Candidates(state)' = Candidates(state)
      BY <1>1 DEF Candidates
    <2>2. NoOne \notin Candidates(state)
      BY LedgerAssumption DEF Candidates
    <2> QED  BY <2>1, <2>2 DEF Rest
  <1>6. OnePending'
    <2>1. \A s \in Rest' : s \in Sessions /\ s # p
      BY <1>0, <1>2 DEF Rest, Candidates
    <2>2. ASSUME lock' # NoOne, Recovered(lock)', NEW s \in Rest' PROVE Dropped'
      <3>1. CASE lock' = p
        <4>1. s \in Candidates(state) /\ s # p
          BY <1>1, <2>1 DEF Rest, Candidates
        <4>2. Recovered(p)'
          BY <2>2, <3>1 DEF Recovered
        <4> QED  BY <1>0, <3>1, <4>1, <4>2
      <3>2. CASE lock' # p
        <4>1. lock' = lock /\ lock # p /\ lock \in Processes
          BY <2>2, <3>2 DEF LedgerTypes
        <4>2. Recovered(lock)
          BY <2>2, <4>1 DEF Recovered
        <4> QED  BY <1>0, <1>5, <2>2, <4>1, <4>2 DEF OnePending
      <3> QED  BY <3>1, <3>2
    <2>3. \A s \in Sessions : pc'[s] = "failed" /\ Written(s)' => pc[s] = "failed" /\ Written(s)
      BY <1>1
    <2>4. \A s \in Rest' : pc[s] = "failed" => pc'[s] = "failed"
      BY <1>1, <2>1
    <2> QED  BY <1>0, <1>1, <1>5, <2>2, <2>3, <2>4 DEF OnePending
  <1>7. StableHead'
    <2>1. PowerOnly => stable' = state' \/ (lock' # NoOne /\ pc'[lock'] = "syncdir")
      <3>1. CASE lock = p
        BY <3>1 DEF StableHead
      <3>2. CASE lock # p
        BY <1>0, <3>2 DEF StableHead, LedgerTypes
      <3> QED  BY <3>1, <3>2
    <2> QED  BY <1>0, <1>1, <1>4, <2>1 DEF StableHead
  <1> QED  BY <1>3, <1>4, <1>6, <1>7

\* What the invariant says of one process.
LEMMA ProcessFacts ==
    ASSUME LedgerCore, NEW p \in Processes
    PROVE  /\ LockAt(p) /\ HeadAt(p) /\ p # NoOne /\ pc[p] \in Steps
           /\ target[p] \in Chains /\ goal[p] \in {"none", "open", "commit", "done"}
           /\ p \in Sessions \/ p = Visitor
           /\ p \in Sessions => RecordAt(p) /\ p # Visitor
           /\ ~Written(p) => p \notin Candidates(state)
           /\ state # NoState => state \in Chains /\ Len(state) \in Nat
  <1> HIDE DEF Chains
  <1>1. LockAt(p) /\ HeadAt(p) /\ (p \in Sessions => RecordAt(p))
    BY DEF LedgerCore, Stepped
  <1>2. p # NoOne /\ (p \in Sessions \/ p = Visitor) /\ (p \in Sessions => p # Visitor)
    BY LedgerAssumption DEF Processes
  <1>3. pc[p] \in Steps /\ target[p] \in Chains /\ goal[p] \in {"none", "open", "commit", "done"}
    BY DEF LedgerCore, LedgerTypes
  <1>4. ~Written(p) => p \notin Candidates(state)
    BY DEF Written, Candidates, Whole
  <1>5. state # NoState => state \in Chains /\ Len(state) \in Nat
    BY ChainFacts DEF LedgerCore, LedgerTypes
  <1> QED  BY <1>1, <1>2, <1>3, <1>4, <1>5

LEMMA OpenLockStep ==
    ASSUME LedgerCore, NEW p \in Processes, OpenLock(p)
    PROVE  LedgerCore'
  <1> HIDE DEF Chains
  <1>1. LockAt(p) /\ HeadAt(p) /\ (p \in Sessions => RecordAt(p)) /\ p # NoOne
    BY ProcessFacts
  <1>2. LedgerTypes'
    BY DEF OpenLock, At, Goes, LedgerCore, LedgerTypes, Steps, OpenSteps
  <1>3. /\ pc[p] = "start" /\ pc'[p] = "identity" /\ lock = NoOne /\ lock' = p
        /\ \A q \in Processes : q # p => pc'[q] = pc[q]
        /\ UNCHANGED <<state, stable, record, target, goal, late, faults>>
    BY DEF OpenLock, At, Goes, LedgerCore, LedgerTypes
  <1>4. LockAt(p)' /\ HeadAt(p)' /\ ~Recovered(p)'
    BY <1>1, <1>3 DEF LockAt, HeadAt, OpenSteps, CommitSteps, Recovered
  <1>5. p \in Sessions => RecordAt(p)'
    BY <1>1, <1>3 DEF RecordAt, Written
  <1> QED  BY <1>2, <1>3, <1>4, <1>5, LocalStep

LEMMA OpenIdentityStep ==
    ASSUME LedgerCore, NEW p \in Processes, OpenIdentity(p)
    PROVE  LedgerCore'
  <1> HIDE DEF Chains
  <1>1. /\ LockAt(p) /\ HeadAt(p) /\ (p \in Sessions => RecordAt(p)) /\ p # NoOne
        /\ (p \in Sessions \/ p = Visitor) /\ (~Written(p) => p \notin Candidates(state))
    BY ProcessFacts
  <1>2. LedgerTypes'
    BY DEF OpenIdentity, At, Goes, Leaves, LedgerCore, LedgerTypes, Steps, OpenSteps, Unlocked
  <1>3. /\ pc[p] = "identity" /\ lock = p
        /\ \/ pc'[p] \in {"state", "seed"} /\ lock' = p
           \/ pc'[p] = (IF p = Visitor THEN "start" ELSE "failed") /\ lock' = NoOne
        /\ \A q \in Processes : q # p => pc'[q] = pc[q]
        /\ UNCHANGED <<state, stable, record, target, goal, late, faults>>
    BY <1>1 DEF OpenIdentity, At, Goes, Leaves, LedgerCore, LedgerTypes, LockAt, OpenSteps
  <1>4. LockAt(p)' /\ HeadAt(p)' /\ ~Recovered(p)'
    BY <1>1, <1>3 DEF LockAt, HeadAt, OpenSteps, CommitSteps, Recovered
  <1>5. p \in Sessions => RecordAt(p)' /\ ~Written(p)
    BY <1>1, <1>3 DEF RecordAt, Written
  <1>6. p \notin Candidates(state)
    BY <1>1, <1>5 DEF Candidates
  <1> QED  BY <1>2, <1>3, <1>4, <1>5, <1>6, LocalStep

LEMMA WriteIdentityStep ==
    ASSUME LedgerCore, NEW p \in Processes, WriteIdentity(p)
    PROVE  LedgerCore'
  <1> HIDE DEF Chains
  <1>1. LockAt(p) /\ HeadAt(p) /\ (p \in Sessions => RecordAt(p)) /\ p # NoOne
    BY ProcessFacts
  <1>2. LedgerTypes'
    BY DEF WriteIdentity, At, Goes, LedgerCore, LedgerTypes, Steps, OpenSteps
  <1>3. /\ pc[p] = "seed" /\ pc'[p] = "state" /\ lock = p /\ lock' = p
        /\ \A q \in Processes : q # p => pc'[q] = pc[q]
        /\ UNCHANGED <<state, stable, record, target, goal, late, faults>>
    BY <1>1 DEF WriteIdentity, At, Goes, LedgerCore, LedgerTypes, LockAt, OpenSteps
  <1>4. LockAt(p)' /\ HeadAt(p)' /\ ~Recovered(p)'
    BY <1>1, <1>3 DEF LockAt, HeadAt, OpenSteps, CommitSteps, Recovered
  <1>5. p \in Sessions => RecordAt(p)'
    BY <1>1, <1>3 DEF RecordAt, Written
  <1> QED  BY <1>2, <1>3, <1>4, <1>5, LocalStep

LEMMA LoadStateStep ==
    ASSUME LedgerCore, NEW p \in Processes, LoadState(p)
    PROVE  LedgerCore'
  <1> HIDE DEF Chains
  <1>1. LockAt(p) /\ HeadAt(p) /\ (p \in Sessions => RecordAt(p)) /\ p # NoOne
    BY ProcessFacts
  <1>2. LedgerTypes'
    <2>1. LedgerTypes /\ <<>> \in Chains /\ "scan" \in Steps /\ "replace" \in Steps
      BY ChainFacts DEF LedgerCore, Steps, OpenSteps
    <2>2. pc' \in [Processes -> Steps] /\ goal' \in [Processes -> {"none", "open", "commit", "done"}]
      BY <2>1 DEF LoadState, Replaces, Goes, LedgerTypes
    <2>3. target' \in [Processes -> Chains]
      BY <2>1 DEF LoadState, Replaces, LedgerTypes
    <2> QED  BY <2>1, <2>2, <2>3 DEF LoadState, LedgerTypes
  <1>3. /\ pc[p] = "state" /\ lock = p /\ lock' = p /\ goal'[p] = "open"
        /\ \/ state = NoState /\ pc'[p] = "replace" /\ target'[p] = <<>>
           \/ state # NoState /\ pc'[p] = "scan"
        /\ \A q \in Processes : q # p =>
              pc'[q] = pc[q] /\ goal'[q] = goal[q] /\ target'[q] = target[q]
        /\ UNCHANGED <<state, stable, record, late, faults>>
    BY <1>1 DEF LoadState, Replaces, At, Goes, LedgerCore, LedgerTypes, LockAt, OpenSteps
  <1>4. LockAt(p)' /\ HeadAt(p)' /\ ~Recovered(p)'
    BY <1>1, <1>3 DEF LockAt, HeadAt, OpenSteps, CommitSteps, Recovered
  <1>5. p \in Sessions => RecordAt(p)'
    BY <1>1, <1>3 DEF RecordAt, Written
  <1> QED  BY <1>2, <1>3, <1>4, <1>5, LocalStep

\* recover_pending_records finds at most one pending record and no illegal one.
LEMMA NothingRefused ==
    ASSUME LedgerCore, NEW p \in Processes, pc[p] = "scan"
    PROVE  Illegal(state) = {} /\ ~(Cardinality(Candidates(state)) > 1)
  <1> HIDE DEF Chains
  <1>1. /\ LockAt(p) /\ HeadAt(p) /\ (p \in Sessions => RecordAt(p))
        /\ (~Written(p) => p \notin Candidates(state))
        /\ state # NoState => Len(state) \in Nat
    BY ProcessFacts
  <1>2. lock = p /\ p \notin Candidates(state) /\ Len(state) \in Nat
    BY <1>1 DEF LockAt, HeadAt, RecordAt, OpenSteps, Candidates
  <1>3. Illegal(state) = {}
    <2>1. ASSUME NEW s \in Illegal(state) PROVE FALSE
      <3>1. s \in Sessions /\ Whole(s) /\ Len(record[s].prev) >= Len(state) /\ record[s].prev # state
        BY DEF Illegal
      <3>2. Written(s) /\ Len(record[s].prev) \in Nat
        BY <3>1, RecordFacts DEF LedgerCore
      <3>3. Len(record[s].prev) < Len(state)
        BY <3>1, <3>2 DEF LedgerCore, Sound
      <3> QED  BY <1>2, <3>1, <3>2, <3>3
    <2> QED  BY <2>1
  <1>4. \A s, t \in Candidates(state) : s = t
    BY <1>2 DEF LedgerCore, OnePending, Rest
  <1>5. CASE Candidates(state) = {}
    BY <1>3, <1>5, FS_EmptySet
  <1>6. CASE Candidates(state) # {}
    <2>1. PICK s : s \in Candidates(state)
      BY <1>6
    <2>2. Candidates(state) = {s}
      BY <1>4, <2>1
    <2> QED  BY <1>3, <2>2, FS_Singleton
  <1> QED  BY <1>5, <1>6

LEMMA ScanStep ==
    ASSUME LedgerCore, NEW p \in Processes, Scan(p)
    PROVE  LedgerCore'
  <1> HIDE DEF Chains
  <1>1. /\ LockAt(p) /\ HeadAt(p) /\ (p \in Sessions => RecordAt(p)) /\ p # NoOne
        /\ (~Written(p) => p \notin Candidates(state))
        /\ state # NoState => state \in Chains
    BY ProcessFacts
  <1>2. pc[p] = "scan" /\ lock = p /\ state # NoState /\ state \in Chains /\ goal[p] \in {"open", "commit"}
    BY <1>1 DEF Scan, At, LockAt, HeadAt, OpenSteps
  <1>3. p \in Sessions => ~Written(p) /\ ~late[p]
    BY <1>1, <1>2 DEF RecordAt
  <1>4. p \notin Candidates(state)
    BY <1>1, <1>3 DEF Candidates
  <1>5. /\ \/ Candidates(state) = {} /\ Goes(p, goal[p]) /\ UNCHANGED <<target, goal>>
           \/ \E s \in Candidates(state) : Replaces(p, Append(state, s), goal[p])
        /\ UNCHANGED <<lock, state, stable, record, late, faults>>
    BY <1>2, NothingRefused DEF Scan
  <1>6. CASE Candidates(state) = {} /\ Goes(p, goal[p]) /\ UNCHANGED <<target, goal>>
    <2>1. LedgerTypes'
      BY <1>2, <1>5, <1>6 DEF Goes, LedgerCore, LedgerTypes, Steps, OpenSteps, CommitSteps
    <2>2. pc'[p] = goal[p] /\ goal'[p] = goal[p] /\ \A q \in Processes : q # p => pc'[q] = pc[q]
      BY <1>6 DEF Goes, LedgerCore, LedgerTypes
    <2>3. LockAt(p)' /\ HeadAt(p)'
      BY <1>1, <1>2, <1>5, <2>2 DEF LockAt, HeadAt, OpenSteps, CommitSteps
    <2>4. p \in Sessions => RecordAt(p)'
      BY <1>2, <1>3, <1>5, <2>2 DEF RecordAt, Written
    <2> QED  BY <1>2, <1>4, <1>5, <1>6, <2>1, <2>2, <2>3, <2>4, LocalStep
  <1>7. CASE \E s \in Candidates(state) : Replaces(p, Append(state, s), goal[p])
    <2>1. PICK s \in Candidates(state) : Replaces(p, Append(state, s), goal[p])
      BY <1>7
    <2>2. s \in Sessions /\ Append(state, s) \in Chains
      BY <1>2, ChainFacts DEF Candidates
    <2>3. LedgerTypes'
      BY <1>2, <1>5, <2>1, <2>2 DEF Replaces, Goes, LedgerCore, LedgerTypes, Steps, OpenSteps
    <2>4. /\ pc'[p] = "replace" /\ goal'[p] = goal[p] /\ target'[p] = Append(state, s)
          /\ \A q \in Processes : q # p =>
                pc'[q] = pc[q] /\ goal'[q] = goal[q] /\ target'[q] = target[q]
      BY <2>1 DEF Replaces, Goes, LedgerCore, LedgerTypes
    <2>5. s \in Candidates(state)'
      BY <1>5 DEF Candidates, Whole
    <2>6. LockAt(p)' /\ HeadAt(p)' /\ ~Recovered(p)'
      BY <1>1, <1>2, <1>5, <2>4, <2>5 DEF LockAt, HeadAt, OpenSteps, CommitSteps, Recovered
    <2>7. p \in Sessions => RecordAt(p)'
      BY <1>2, <1>3, <1>5, <2>4 DEF RecordAt, Written
    <2> QED  BY <1>2, <1>4, <1>5, <2>3, <2>4, <2>6, <2>7, LocalStep
  <1> QED  BY <1>5, <1>6, <1>7

LEMMA BeginCommitStep ==
    ASSUME LedgerCore, NEW s \in Sessions, BeginCommit(s)
    PROVE  LedgerCore'
  <1> HIDE DEF Chains
  <1>0. s \in Processes
    BY DEF Processes
  <1>1. LockAt(s) /\ HeadAt(s) /\ RecordAt(s) /\ s # NoOne /\ s # Visitor
    BY <1>0, ProcessFacts
  <1>2. LedgerTypes'
    BY <1>0 DEF BeginCommit, At, Goes, LedgerCore, LedgerTypes, Steps, OpenSteps
  <1>3. /\ pc[s] = "running" /\ pc'[s] = "scan" /\ lock = NoOne /\ lock' = s /\ goal'[s] = "commit"
        /\ \A q \in Processes : q # s => pc'[q] = pc[q] /\ goal'[q] = goal[q]
        /\ UNCHANGED <<state, stable, record, target, late, faults>>
    BY <1>0 DEF BeginCommit, At, Goes, LedgerCore, LedgerTypes
  <1>4. LockAt(s)' /\ HeadAt(s)' /\ ~Recovered(s)'
    BY <1>1, <1>3 DEF LockAt, HeadAt, OpenSteps, CommitSteps, Recovered
  <1>5. RecordAt(s)'
    BY <1>1, <1>3 DEF RecordAt, Written
  <1> QED  BY <1>0, <1>2, <1>3, <1>4, <1>5, LocalStep

LEMMA AdvanceStep ==
    ASSUME LedgerCore, NEW s \in Sessions, Advance(s)
    PROVE  LedgerCore'
  <1> HIDE DEF Chains
  <1>0. s \in Processes
    BY DEF Processes
  <1>1. /\ LockAt(s) /\ HeadAt(s) /\ RecordAt(s) /\ s # NoOne /\ s # Visitor
        /\ state # NoState => state \in Chains
    BY <1>0, ProcessFacts
  <1>2. /\ pc[s] = "advance" /\ lock = s /\ record[s].prev = state /\ record[s].st = "synced"
        /\ state # NoState /\ state \in Chains /\ Append(state, s) \in Chains
    BY <1>1, ChainFacts DEF Advance, At, LockAt, HeadAt, RecordAt, CommitSteps
  <1>3. LedgerTypes'
    BY <1>0, <1>2 DEF Advance, Replaces, Goes, LedgerCore, LedgerTypes, Steps, OpenSteps
  <1>4. /\ pc'[s] = "replace" /\ lock' = s /\ goal'[s] = "done" /\ target'[s] = Append(state, s)
        /\ \A q \in Processes : q # s =>
              pc'[q] = pc[q] /\ goal'[q] = goal[q] /\ target'[q] = target[q]
        /\ UNCHANGED <<state, stable, record, late, faults>>
    BY <1>0, <1>2 DEF Advance, Replaces, Goes, LedgerCore, LedgerTypes
  <1>5. s \in Candidates(state)'
    BY <1>2, <1>4 DEF Candidates, Whole
  <1>6. LockAt(s)' /\ HeadAt(s)'
    BY <1>1, <1>2, <1>4, <1>5 DEF LockAt, HeadAt, OpenSteps, CommitSteps
  <1>7. RecordAt(s)'
    BY <1>1, <1>2, <1>4 DEF RecordAt, Written
  <1>8. \A t \in Candidates(state) : t = s \/ Dropped
    BY <1>1, <1>2 DEF LedgerCore, OnePending, Rest, Recovered, CommitSteps
  <1> QED  BY <1>0, <1>2, <1>3, <1>4, <1>6, <1>7, <1>8, LocalStep

LEMMA FinishStep ==
    ASSUME LedgerCore, NEW s \in Sessions, Finish(s)
    PROVE  LedgerCore'
  <1> HIDE DEF Chains
  <1>0. s \in Processes
    BY DEF Processes
  <1>1. LockAt(s) /\ HeadAt(s) /\ RecordAt(s) /\ s # NoOne /\ s # Visitor
    BY <1>0, ProcessFacts
  <1>2. LedgerTypes'
    BY DEF Finish, LedgerCore, LedgerTypes
  <1>3. /\ pc[s] = "done" /\ lock = s /\ lock' = NoOne
        /\ UNCHANGED <<pc, state, stable, record, target, goal, late, faults>>
    BY DEF Finish, At
  <1>4. LockAt(s)' /\ HeadAt(s)' /\ RecordAt(s)'
    <2>1. LockAt(s)' /\ HeadAt(s)'
      BY <1>1, <1>3 DEF LockAt, HeadAt, OpenSteps, CommitSteps
    <2>2. RecordAt(s)'
      BY <1>1, <1>3, NoFault DEF RecordAt, Written
    <2> QED  BY <2>1, <2>2
  <1>5. s \notin Candidates(state)
    <2>1. Len(record[s].prev) < Len(state) /\ Len(record[s].prev) \in Nat
      BY <1>1, <1>3, RecordFacts DEF RecordAt, LedgerCore
    <2> QED  BY <2>1 DEF Candidates
  <1> QED  BY <1>0, <1>1, <1>2, <1>3, <1>4, <1>5, LocalStep

LEMMA InterruptStep ==
    ASSUME LedgerCore, NEW s \in Sessions, Interrupt(s)
    PROVE  LedgerCore'
  <1> HIDE DEF Chains
  <1>0. s \in Processes
    BY DEF Processes
  <1>1. /\ LockAt(s) /\ HeadAt(s) /\ RecordAt(s) /\ s # NoOne /\ s # Visitor
        /\ (~Written(s) => s \notin Candidates(state))
    BY <1>0, ProcessFacts
  <1>2. LedgerTypes'
    BY <1>0 DEF Interrupt, At, Goes, LedgerCore, LedgerTypes, Steps, Unlocked
  <1>3. /\ pc[s] = "running" /\ pc'[s] = "failed" /\ lock # s
        /\ \A q \in Processes : q # s => pc'[q] = pc[q]
        /\ UNCHANGED <<lock, state, stable, record, target, goal, late, faults>>
    BY <1>0, <1>1 DEF Interrupt, At, Goes, LedgerCore, LedgerTypes, LockAt, OpenSteps, CommitSteps
  <1>4. LockAt(s)' /\ HeadAt(s)'
    BY <1>1, <1>3 DEF LockAt, HeadAt, OpenSteps, CommitSteps
  <1>5. RecordAt(s)' /\ ~Written(s)
    BY <1>1, <1>3 DEF RecordAt, Written
  <1> QED  BY <1>0, <1>1, <1>2, <1>3, <1>4, <1>5, LocalStep

-----------------------------------------------------------------------------
(* The head is written and synced *)

\* While p holds the lock every other process is outside it.
LEMMA OthersOutside ==
    ASSUME LedgerCore, NEW p \in Processes, lock = p, NEW q \in Processes, q # p
    PROVE  pc[q] \in Unlocked \cup {"done"} /\ LockAt(q) /\ HeadAt(q) /\ q # NoOne
  <1>1. LockAt(q) /\ HeadAt(q) /\ pc[q] \in Steps /\ q # NoOne
    BY ProcessFacts
  <1> QED  BY <1>1 DEF LockAt, Steps

\* What is being written is a head above every commit there is.
LEMMA TargetFacts ==
    ASSUME LedgerCore, NEW p \in Processes, pc[p] = "replace"
    PROVE  /\ target[p] \in Chains /\ target[p] # NoState
           /\ target[p] = <<>> => goal[p] = "open"
           /\ \A s \in Sessions : Written(s) => Len(record[s].prev) < Len(target[p])
           /\ \A s \in Sessions : pc[s] = "done" => Written(s)
           /\ state # NoState => Len(target[p]) = Len(state) + 1 /\ Len(state) \in Nat
  <1> HIDE DEF Chains
  <1>1. /\ HeadAt(p) /\ target[p] \in Chains
        /\ state # NoState => state \in Chains /\ Len(state) \in Nat
    BY ProcessFacts
  <1>2. target[p] # NoState
    BY <1>1, ChainFacts
  <1>3. \A s \in Sessions : pc[s] = "done" => Written(s)
    BY DEF LedgerCore, Stepped, RecordAt, Written
  <1>4. CASE state = NoState
    <2>1. \A s \in Sessions : ~Written(s)
      BY <1>4 DEF LedgerCore, Sound
    <2>2. goal[p] = "open"
      BY <1>1, <1>4 DEF HeadAt
    <2> QED  BY <1>1, <1>2, <1>3, <1>4, <2>1, <2>2
  <1>5. CASE state # NoState
    <2>1. PICK c \in Candidates(state) : target[p] = Append(state, c)
      BY <1>1, <1>5 DEF HeadAt
    <2>2. c \in Sessions
      BY DEF Candidates
    <2>3. target[p] # <<>> /\ Len(target[p]) = Len(state) + 1
      BY <1>1, <1>5, <2>1, <2>2, ChainFacts
    <2>4. ASSUME NEW s \in Sessions, Written(s) PROVE Len(record[s].prev) < Len(target[p])
      <3>1. Len(record[s].prev) \in Nat
        BY RecordFacts DEF LedgerCore
      <3>2. record[s].prev = state \/ Len(record[s].prev) < Len(state)
        BY <2>4 DEF LedgerCore, Sound
      <3> QED  BY <1>1, <1>5, <2>3, <3>1, <3>2
    <2> QED  BY <1>1, <1>2, <1>3, <1>5, <2>3, <2>4
  <1> QED  BY <1>4, <1>5

LEMMA ReplaceStep ==
    ASSUME LedgerCore, NEW p \in Processes, Replace(p)
    PROVE  LedgerCore'
  <1> HIDE DEF Chains
  <1>0. /\ LockAt(p) /\ HeadAt(p) /\ (p \in Sessions => RecordAt(p)) /\ p # NoOne
        /\ target[p] \in Chains
    BY ProcessFacts
  <1>1. /\ pc[p] = "replace" /\ pc'[p] = "syncdir" /\ lock = p /\ state' = target[p]
        /\ \A q \in Processes : q # p => pc'[q] = pc[q]
        /\ UNCHANGED <<lock, stable, record, target, goal, late, faults>>
    BY <1>0 DEF Replace, At, Goes, LedgerCore, LedgerTypes, LockAt, OpenSteps
  <1>2. LedgerTypes'
    BY <1>0 DEF Replace, Goes, LedgerCore, LedgerTypes, Steps, OpenSteps
  <1>3. /\ state' # NoState
        /\ target[p] = <<>> => goal[p] = "open"
        /\ \A s \in Sessions : Written(s) => Len(record[s].prev) < Len(state')
        /\ \A s \in Sessions : pc[s] = "done" => Written(s)
    BY <1>1, TargetFacts
  <1>4. /\ (Dropped' <=> Dropped) /\ (PowerOnly' <=> PowerOnly)
        /\ \A s \in Sessions : s \in Processes /\ (Written(s)' <=> Written(s))
                               /\ Len(record[s].prev) \in Nat
    BY <1>1, NoFault, RecordFacts DEF Processes, Written, LedgerCore
  <1>5. Stepped'
    <2>1. LockAt(p)' /\ HeadAt(p)'
      BY <1>0, <1>1, <1>3 DEF LockAt, HeadAt, OpenSteps, CommitSteps
    <2>2. ASSUME NEW q \in Processes, q # p PROVE LockAt(q)' /\ HeadAt(q)'
      <3>1. pc[q] \in Unlocked \cup {"done"} /\ LockAt(q) /\ HeadAt(q)
        BY <1>1, <2>2, OthersOutside
      <3>2. LockAt(q)'
        BY <1>1, <2>2, <3>1 DEF LockAt
      <3>3. HeadAt(q)'
        BY <1>1, <1>3, <2>2, <3>1 DEF HeadAt, Unlocked
      <3> QED  BY <3>2, <3>3
    <2>3. ASSUME p \in Sessions PROVE RecordAt(p)'
      BY <1>0, <1>1, <1>3, <1>4, <2>3 DEF RecordAt, Written
    <2>4. ASSUME NEW s \in Sessions, s # p PROVE RecordAt(s)'
      <3>1. pc[s] \in Unlocked \cup {"done"} /\ RecordAt(s) /\ pc'[s] = pc[s]
        BY <1>1, <1>4, <2>4, OthersOutside DEF LedgerCore, Stepped
      <3> QED  BY <1>1, <1>3, <1>4, <3>1 DEF RecordAt, Unlocked
    <2> QED  BY <2>1, <2>2, <2>3, <2>4 DEF Stepped
  <1>6. Sound(state)'
    BY <1>1, <1>3, <1>4 DEF Sound
  <1>7. Candidates(state)' = {}
    <2>1. ASSUME NEW s \in Candidates(state)' PROVE FALSE
      <3>1. s \in Sessions /\ Whole(s) /\ record[s].prev = state'
        BY <1>1 DEF Candidates, Whole
      <3>2. Written(s)
        BY <3>1, RecordFacts DEF LedgerCore
      <3> QED  BY <1>3, <1>4, <3>1, <3>2
    <2> QED  BY <2>1
  <1>8. OnePending'
    <2>1. Rest' = {}
      BY <1>7 DEF Rest
    <2>2. \A s \in Sessions : (pc'[s] = "failed") => (pc[s] = "failed")
      BY <1>1, <1>4
    <2> QED  BY <1>1, <1>4, <2>1, <2>2 DEF LedgerCore, OnePending
  <1>9. StableHead'
    <2>1. Sound(stable)' <=> Sound(stable)
      BY <1>1, <1>4 DEF Sound
    <2>2. \A s \in Sessions : (pc'[s] = "done" => pc[s] = "done") /\ (pc[s] = "sync" => pc'[s] = "sync")
      BY <1>1, <1>4
    <2> QED  BY <1>0, <1>1, <1>4, <2>1, <2>2 DEF LedgerCore, StableHead
  <1> QED  BY <1>2, <1>5, <1>6, <1>8, <1>9 DEF LedgerCore

LEMMA SyncDirectoryStep ==
    ASSUME LedgerCore, NEW p \in Processes, SyncDirectory(p)
    PROVE  LedgerCore'
  <1> HIDE DEF Chains
  <1>0. /\ LockAt(p) /\ HeadAt(p) /\ (p \in Sessions => RecordAt(p)) /\ p # NoOne
        /\ target[p] \in Chains /\ (p \in Sessions \/ p = Visitor)
    BY ProcessFacts
  <1>1. /\ pc[p] = "syncdir" /\ lock = p /\ stable' = state /\ state = target[p] /\ state # NoState
        /\ \A q \in Processes : q # p => pc'[q] = pc[q]
        /\ \/ pc'[p] = "scan" /\ goal[p] = "open"
           \/ pc'[p] = goal[p] /\ goal[p] \in {"open", "commit", "done"}
        /\ UNCHANGED <<lock, state, record, target, goal, late, faults>>
    BY <1>0, ChainFacts
       DEF SyncDirectory, At, Goes, LedgerCore, LedgerTypes, LockAt, HeadAt, OpenSteps
  <1>2. LedgerTypes'
    BY <1>1 DEF SyncDirectory, Goes, LedgerCore, LedgerTypes, Steps, OpenSteps, CommitSteps
  <1>4. /\ (Dropped' <=> Dropped) /\ (PowerOnly' <=> PowerOnly)
        /\ \A s \in Sessions : s \in Processes /\ (Written(s)' <=> Written(s)) /\ (Whole(s)' <=> Whole(s))
    BY <1>1, NoFault DEF Processes, Written, Whole
  <1>5. Stepped'
    <2>1. LockAt(p)' /\ HeadAt(p)'
      BY <1>0, <1>1 DEF LockAt, HeadAt, OpenSteps, CommitSteps
    <2>2. ASSUME NEW q \in Processes, q # p PROVE LockAt(q)' /\ HeadAt(q)'
      <3>1. pc[q] \in Unlocked \cup {"done"} /\ LockAt(q) /\ HeadAt(q)
        BY <1>1, <2>2, OthersOutside
      <3>2. LockAt(q)'
        BY <1>1, <2>2, <3>1 DEF LockAt
      <3>3. HeadAt(q)'
        BY <1>1, <2>2, <3>1 DEF HeadAt, Unlocked
      <3> QED  BY <3>2, <3>3
    <2>3. ASSUME p \in Sessions PROVE RecordAt(p)'
      BY <1>0, <1>1, <1>4, <2>3 DEF RecordAt, Written
    <2>4. ASSUME NEW s \in Sessions, s # p PROVE RecordAt(s)'
      <3>1. RecordAt(s) /\ pc'[s] = pc[s]
        BY <1>1, <1>4, <2>4 DEF LedgerCore, Stepped
      <3> QED  BY <1>1, <1>4, <3>1 DEF RecordAt
    <2> QED  BY <2>1, <2>2, <2>3, <2>4 DEF Stepped
  <1>6. Sound(state)' /\ Sound(stable)'
    BY <1>1, <1>4 DEF Sound, LedgerCore
  <1>7. \A s \in Rest : Dropped
    BY <1>0, <1>1 DEF LedgerCore, OnePending, Recovered
  <1>8. OnePending'
    <2>1. Rest' = Rest
      BY <1>1, <1>4 DEF Rest, Candidates
    <2>2. \A s \in Sessions : pc'[s] = "failed" <=> pc[s] = "failed"
      BY <1>1, <1>4
    <2>3. \A s \in Rest : s \in Sessions
      BY DEF Rest, Candidates
    <2> QED  BY <1>1, <1>4, <1>7, <2>1, <2>2, <2>3 DEF LedgerCore, OnePending
  <1>9. StableHead'
    <2> SUFFICES ASSUME PowerOnly PROVE StableHead'
      BY <1>4 DEF StableHead
    <2>1. ~Dropped
      BY PowerDropsNothing
    <2>2. \A s \in Sessions : record[s].st = "synced" /\ record[s].prev = state => s = p
      BY <1>1, <1>7, <2>1 DEF Rest, Candidates, Whole
    <2>3. \A s \in Sessions : pc'[s] = "done" => Len(record[s].prev) < Len(state)
      BY <1>0, <1>1, <1>4 DEF LedgerCore, Stepped, RecordAt
    <2>4. \A s \in Sessions : record[s].st = "buffered" => pc'[s] = "sync"
      BY <1>1, <1>4 DEF LedgerCore, StableHead
    <2> QED  BY <1>1, <1>6, <2>2, <2>3, <2>4 DEF StableHead
  <1> QED  BY <1>2, <1>5, <1>6, <1>8, <1>9 DEF LedgerCore

-----------------------------------------------------------------------------
(* Steps that write a record *)

\* The holder of the lock, which has recovered what there was, writes its own
\* record and no other file.
LEMMA RecordStep ==
    ASSUME LedgerCore, LedgerTypes', NEW p \in Processes,
           UNCHANGED <<state, stable, target, goal, late, faults>>,
           \A q \in Processes : q # p => pc'[q] = pc[q],
           \A s \in Sessions : s # p => record'[s] = record[s],
           lock = p, lock' \in {NoOne, p}, pc[p] \in {"open"} \cup CommitSteps,
           LockAt(p)', HeadAt(p)',
           p \in Sessions =>
               /\ RecordAt(p)'
               /\ Whole(p)' => lock' = p
               /\ Written(p)' => record'[p].prev = state
               /\ record'[p].st = "buffered" => pc'[p] = "sync",
           pc'[p] \notin {"failed", "done"}
    PROVE  LedgerCore'
  <1> USE DEF LedgerCore
  <1> HIDE DEF Chains
  <1>0. p # NoOne /\ (Dropped' <=> Dropped) /\ (PowerOnly' <=> PowerOnly) /\ state # NoState
    BY NoFault, ProcessFacts DEF HeadAt
  <1>1. \A s \in Sessions : s # p => s \in Processes /\ (Written(s)' <=> Written(s)) /\ (Whole(s)' <=> Whole(s))
    BY DEF Processes, Written, Whole
  <1>2. \A s \in Rest : Dropped
    BY <1>0 DEF OnePending, Recovered
  <1>3. Rest' = Rest
    <2>1. \A s \in Rest' : s \in Sessions /\ s # p
      BY <1>0, LedgerAssumption DEF Rest, Candidates
    <2>2. \A s \in Sessions : s # p => (s \in Candidates(state)' <=> s \in Candidates(state))
      BY <1>1 DEF Candidates
    <2>3. \A s \in Rest : s \in Sessions /\ s # p /\ s # NoOne
      BY <1>0, LedgerAssumption DEF Rest, Candidates
    <2> QED  BY <2>1, <2>2, <2>3 DEF Rest
  <1>4. Stepped'
    <2>1. ASSUME NEW q \in Processes, q # p PROVE LockAt(q)' /\ HeadAt(q)'
      <3>1. pc[q] \in Unlocked \cup {"done"} /\ LockAt(q) /\ HeadAt(q) /\ q # NoOne
        BY <2>1, OthersOutside
      <3>2. LockAt(q)'
        BY <2>1, <3>1 DEF LockAt, Unlocked, OpenSteps, CommitSteps
      <3>3. HeadAt(q)'
        BY <2>1, <3>1 DEF HeadAt, Unlocked
      <3> QED  BY <3>2, <3>3
    <2>2. ASSUME NEW s \in Sessions, s # p PROVE RecordAt(s)'
      BY <1>0, <1>1, <2>2 DEF RecordAt, Stepped
    <2> QED  BY <2>1, <2>2 DEF Stepped
  <1>5. Sound(state)'
    BY <1>0, <1>1 DEF Sound
  <1>6. OnePending'
    <2>1. \A s \in Sessions : pc'[s] = "failed" => pc[s] = "failed" /\ s # p
      BY <1>1
    <2>2. \A s \in Rest : s \in Sessions /\ s # p /\ pc'[s] = pc[s]
      BY <1>1 DEF Rest, Candidates
    <2> QED  BY <1>0, <1>1, <1>2, <1>3, <2>1, <2>2 DEF OnePending
  <1>7. StableHead'
    <2> SUFFICES ASSUME PowerOnly PROVE StableHead'
      BY <1>0 DEF StableHead
    <2>1. stable = state
      BY <1>0 DEF StableHead, CommitSteps
    <2>2. Sound(stable)'
      BY <1>5, <2>1 DEF Sound
    <2>3. \A s \in Sessions : record'[s].st = "synced" /\ record'[s].prev = state => s = p
      <3>1. ~Dropped
        BY PowerDropsNothing
      <3> QED  BY <1>2, <3>1 DEF Rest, Candidates, Whole
    <2>4. \A s \in Sessions : pc'[s] = "done" => Len(record'[s].prev) < Len(state)
      BY <1>1 DEF Stepped, RecordAt
    <2>5. \A s \in Sessions : record'[s].st = "buffered" => pc'[s] = "sync"
      BY <1>1 DEF StableHead
    <2> QED  BY <1>0, <2>1, <2>2, <2>3, <2>4, <2>5 DEF StableHead
  <1> QED  BY <1>4, <1>5, <1>6, <1>7

LEMMA OpenedStep ==
    ASSUME LedgerCore, NEW p \in Processes, Opened(p)
    PROVE  LedgerCore'
  <1> HIDE DEF Chains
  <1>0. /\ LockAt(p) /\ HeadAt(p) /\ (p \in Sessions => RecordAt(p) /\ p # Visitor) /\ p # NoOne
        /\ p \in Sessions \/ p = Visitor
    BY ProcessFacts
  <1>1. /\ pc[p] = "open" /\ lock = p /\ lock' = NoOne /\ state # NoState
        /\ pc'[p] = (IF p = Visitor THEN "start" ELSE "running")
        /\ \A q \in Processes : q # p => pc'[q] = pc[q]
        /\ UNCHANGED <<state, stable, target, goal, late, faults>>
    BY <1>0 DEF Opened, At, Leaves, Goes, LedgerCore, LedgerTypes, LockAt, HeadAt, OpenSteps
  <1>2. LedgerTypes'
    <2>1. record' \in [Sessions -> [st: {"none", "open", "torn", "buffered", "synced"}, prev: Chains]]
      BY <1>0 DEF Opened, LedgerCore, LedgerTypes
    <2> QED  BY <1>1, <2>1 DEF Opened, Leaves, Goes, LedgerCore, LedgerTypes, Steps, Unlocked
  <1>3. /\ \A s \in Sessions : s # p => record'[s] = record[s]
        /\ p \in Sessions => record'[p].st = "open"
    BY <1>0 DEF Opened, LedgerCore, LedgerTypes
  <1>4. LockAt(p)' /\ HeadAt(p)'
    BY <1>0, <1>1 DEF LockAt, HeadAt, OpenSteps, CommitSteps
  <1>5. p \in Sessions => ~Whole(p)' /\ ~Written(p)' /\ RecordAt(p)'
    BY <1>0, <1>1, <1>3 DEF RecordAt, Written, Whole
  <1> QED  BY <1>1, <1>2, <1>3, <1>4, <1>5, RecordStep

LEMMA SendCommitStep ==
    ASSUME LedgerCore, NEW s \in Sessions, SendCommit(s)
    PROVE  LedgerCore'
  <1> HIDE DEF Chains
  <1>0. s \in Processes
    BY DEF Processes
  <1>1. /\ LockAt(s) /\ HeadAt(s) /\ RecordAt(s) /\ s # NoOne /\ s # Visitor
        /\ state # NoState => state \in Chains
    BY <1>0, ProcessFacts
  <1>2. /\ pc[s] = "commit" /\ pc'[s] = "write" /\ lock = s /\ lock' = s
        /\ state # NoState /\ state \in Chains
        /\ \A q \in Processes : q # s => pc'[q] = pc[q]
        /\ UNCHANGED <<state, stable, target, goal, late, faults>>
    BY <1>0, <1>1 DEF SendCommit, At, Goes, LedgerCore, LedgerTypes, LockAt, HeadAt, CommitSteps
  <1>3. /\ \A t \in Sessions : t # s => record'[t] = record[t]
        /\ record'[s] = [st |-> "torn", prev |-> state]
    BY DEF SendCommit, CommitOn, LedgerCore, LedgerTypes
  <1>4. LedgerTypes'
    <2>1. record' \in [Sessions -> [st: {"none", "open", "torn", "buffered", "synced"}, prev: Chains]]
      BY <1>2 DEF SendCommit, CommitOn, LedgerCore, LedgerTypes
    <2> QED  BY <1>2, <2>1 DEF SendCommit, Goes, LedgerCore, LedgerTypes, Steps, CommitSteps
  <1>5. LockAt(s)' /\ HeadAt(s)'
    BY <1>1, <1>2 DEF LockAt, HeadAt, OpenSteps, CommitSteps
  <1>6. RecordAt(s)' /\ ~Whole(s)' /\ record'[s].prev = state /\ record'[s].st = "torn"
    BY <1>1, <1>2, <1>3 DEF RecordAt, Written, Whole
  <1> QED  BY <1>0, <1>2, <1>3, <1>4, <1>5, <1>6, RecordStep DEF CommitSteps

LEMMA WriteCommitStep ==
    ASSUME LedgerCore, NEW s \in Sessions, WriteCommit(s)
    PROVE  LedgerCore'
  <1> HIDE DEF Chains
  <1>0. s \in Processes
    BY DEF Processes
  <1>1. LockAt(s) /\ HeadAt(s) /\ RecordAt(s) /\ s # NoOne /\ s # Visitor
    BY <1>0, ProcessFacts
  <1>2. /\ pc[s] = "write" /\ pc'[s] = "sync" /\ lock = s /\ lock' = s
        /\ \A q \in Processes : q # s => pc'[q] = pc[q]
        /\ UNCHANGED <<state, stable, target, goal, late, faults>>
    BY <1>0, <1>1 DEF WriteCommit, At, Goes, LedgerCore, LedgerTypes, LockAt, CommitSteps
  <1>3. /\ \A t \in Sessions : t # s => record'[t] = record[t]
        /\ record'[s].st = "buffered" /\ record'[s].prev = record[s].prev
    BY DEF WriteCommit, LedgerCore, LedgerTypes
  <1>4. LedgerTypes'
    <2>1. record' \in [Sessions -> [st: {"none", "open", "torn", "buffered", "synced"}, prev: Chains]]
      BY DEF WriteCommit, LedgerCore, LedgerTypes
    <2> QED  BY <1>2, <2>1 DEF WriteCommit, Goes, LedgerCore, LedgerTypes, Steps, CommitSteps
  <1>5. LockAt(s)' /\ HeadAt(s)'
    BY <1>1, <1>2 DEF LockAt, HeadAt, OpenSteps, CommitSteps
  <1>6. RecordAt(s)' /\ record'[s].prev = state
    BY <1>1, <1>2, <1>3 DEF RecordAt, Written
  <1> QED  BY <1>0, <1>2, <1>3, <1>4, <1>5, <1>6, RecordStep DEF CommitSteps

LEMMA SyncRecordStep ==
    ASSUME LedgerCore, NEW s \in Sessions, SyncRecord(s)
    PROVE  LedgerCore'
  <1> HIDE DEF Chains
  <1>0. s \in Processes
    BY DEF Processes
  <1>1. LockAt(s) /\ HeadAt(s) /\ RecordAt(s) /\ s # NoOne /\ s # Visitor
    BY <1>0, ProcessFacts
  <1>2. /\ pc[s] = "sync" /\ pc'[s] = "advance" /\ lock = s /\ lock' = s
        /\ \A q \in Processes : q # s => pc'[q] = pc[q]
        /\ UNCHANGED <<state, stable, target, goal, late, faults>>
    BY <1>0, <1>1 DEF SyncRecord, At, Goes, LedgerCore, LedgerTypes, LockAt, CommitSteps
  <1>3. /\ \A t \in Sessions : t # s => record'[t] = record[t]
        /\ record'[s].st = "synced" /\ record'[s].prev = record[s].prev
    BY DEF SyncRecord, LedgerCore, LedgerTypes
  <1>4. LedgerTypes'
    <2>1. record' \in [Sessions -> [st: {"none", "open", "torn", "buffered", "synced"}, prev: Chains]]
      BY DEF SyncRecord, LedgerCore, LedgerTypes
    <2> QED  BY <1>2, <2>1 DEF SyncRecord, Goes, LedgerCore, LedgerTypes, Steps, CommitSteps
  <1>5. LockAt(s)' /\ HeadAt(s)'
    BY <1>1, <1>2 DEF LockAt, HeadAt, OpenSteps, CommitSteps
  <1>6. RecordAt(s)' /\ record'[s].prev = state
    BY <1>1, <1>2, <1>3 DEF RecordAt, Written
  <1> QED  BY <1>0, <1>2, <1>3, <1>4, <1>5, <1>6, RecordStep DEF CommitSteps

LEMMA LateWriteStep ==
    ASSUME LedgerCore, NEW s \in Sessions, LateWrite(s)
    PROVE  LedgerCore'
  <1> USE DEF LedgerCore
  <1> HIDE DEF Chains
  <1>1. RecordAt(s)
    BY DEF Stepped
  <1>2. /\ Dropped /\ pc[s] = "failed" /\ Written(s)
        /\ UNCHANGED <<pc, lock, state, stable, target, goal, faults>>
    BY <1>1 DEF LateWrite, RecordAt
  <1>3. /\ \A t \in Sessions : t # s => record'[t] = record[t] /\ late'[t] = late[t]
        /\ record'[s].st = "synced" /\ record'[s].prev = record[s].prev /\ ~late'[s]
    BY DEF LateWrite, LedgerTypes
  <1>4. LedgerTypes'
    <2>1. record' \in [Sessions -> [st: {"none", "open", "torn", "buffered", "synced"}, prev: Chains]]
      BY DEF LateWrite, LedgerTypes
    <2> QED  BY <1>2, <2>1 DEF LateWrite, LedgerTypes
  <1>5. /\ Dropped' /\ ~PowerOnly'
        /\ \A t \in Sessions : Written(t)' <=> Written(t)
        /\ \A t \in Sessions : record'[t].prev = record[t].prev
    BY <1>2, <1>3, NoFault, PowerDropsNothing DEF Written
  <1>6. /\ Candidates(state) \subseteq Candidates(state)'
        /\ \A t \in Candidates(state)' : t \in Candidates(state) \/ t = s
    BY <1>2, <1>3 DEF Candidates, Whole
  <1>7. Stepped'
    <2>1. ASSUME NEW q \in Processes PROVE LockAt(q)' /\ HeadAt(q)'
      <3>1. LockAt(q) /\ HeadAt(q)
        BY DEF Stepped
      <3>2. LockAt(q)'
        BY <1>2, <3>1 DEF LockAt
      <3>3. HeadAt(q)'
        BY <1>2, <1>6, <3>1 DEF HeadAt
      <3> QED  BY <3>2, <3>3
    <2>2. ASSUME NEW t \in Sessions, t # s PROVE RecordAt(t)'
      <3>1. RecordAt(t)
        BY DEF Stepped
      <3> QED  BY <1>2, <1>3, <1>5, <2>2, <3>1 DEF RecordAt
    <2>3. RecordAt(s)'
      BY <1>2, <1>3 DEF RecordAt
    <2> QED  BY <2>1, <2>2, <2>3 DEF Stepped
  <1>8. Sound(state)'
    BY <1>2, <1>5 DEF Sound
  <1>9. OnePending'
    <2>1. \A t \in Rest' : t \in Sessions /\ pc[t] = "failed" /\ Written(t)
      <3>1. \A t \in Rest' : t = s \/ t \in Rest
        BY <1>2, <1>6 DEF Rest
      <3>2. \A t \in Rest : t \in Sessions /\ Whole(t)
        BY DEF Rest, Candidates
      <3>3. \A t \in Rest : Written(t)
        BY <3>2, RecordFacts
      <3> QED  BY <1>2, <3>1, <3>2, <3>3 DEF OnePending
    <2>2. \A t, u \in {x \in Sessions : pc[x] = "failed" /\ Written(x)} : t = u
      BY <1>2 DEF OnePending
    <2>3. faults # <<>>
      BY <1>2 DEF Dropped
    <2> QED  BY <1>2, <1>5, <2>1, <2>2, <2>3 DEF OnePending
  <1> QED  BY <1>4, <1>5, <1>7, <1>8, <1>9 DEF StableHead

LEMMA ExitStep ==
    ASSUME LedgerCore, NEW s \in Sessions, Exit(s)
    PROVE  LedgerCore'
  <1> USE DEF LedgerCore
  <1> HIDE DEF Chains
  <1>1. /\ UNCHANGED <<pc, lock, state, stable, record, target, goal, faults>>
        /\ \A t \in Sessions : late'[t] => late[t]
    BY DEF Exit, LedgerTypes
  <1>2. LedgerTypes'
    BY DEF Exit, LedgerTypes
  <1>3. /\ (Dropped' <=> Dropped) /\ (PowerOnly' <=> PowerOnly)
        /\ \A t \in Sessions : (Written(t)' <=> Written(t)) /\ (Whole(t)' <=> Whole(t))
    BY <1>1, NoFault DEF Written, Whole
  <1>4. Candidates(state)' = Candidates(state)
    BY <1>1, <1>3 DEF Candidates
  <1>5. Stepped'
    <2>1. ASSUME NEW q \in Processes PROVE LockAt(q)' /\ HeadAt(q)'
      BY <1>1, <1>4 DEF Stepped, LockAt, HeadAt
    <2>2. ASSUME NEW t \in Sessions PROVE RecordAt(t)'
      BY <1>1, <1>3 DEF Stepped, RecordAt
    <2> QED  BY <2>1, <2>2 DEF Stepped
  <1>6. Sound(state)' /\ (Sound(stable)' <=> Sound(stable))
    BY <1>1, <1>3 DEF Sound
  <1>7. Rest' = Rest /\ (Recovered(lock)' <=> Recovered(lock))
    BY <1>1, <1>4 DEF Rest, Recovered
  <1>8. OnePending'
    BY <1>1, <1>3, <1>7 DEF OnePending
  <1>9. StableHead'
    BY <1>1, <1>3, <1>6 DEF StableHead
  <1> QED  BY <1>2, <1>5, <1>6, <1>8, <1>9

-----------------------------------------------------------------------------
(* Faults *)

\* A process that has a commit pending has recovered every other one.
LEMMA OwnPendingIsOnly ==
    ASSUME LedgerCore, ~Dropped, NEW p \in Processes, lock = p, p \in Candidates(state)
    PROVE  Rest = {}
  <1> HIDE DEF Chains
  <1>1. LockAt(p) /\ p # NoOne
    BY ProcessFacts
  <1>2. p \in Sessions /\ RecordAt(p) /\ Written(p) /\ Len(record[p].prev) \in Nat
    BY RecordFacts DEF Candidates, LedgerCore, Stepped
  <1>3. ~(Len(record[p].prev) < Len(state))
    BY <1>2 DEF Candidates
  <1>4. Recovered(p)
    BY <1>1, <1>2, <1>3 DEF Recovered, LockAt, RecordAt, OpenSteps, CommitSteps
  <1> QED  BY <1>1, <1>4 DEF LedgerCore, OnePending

\* A process stops where it is, and its lock goes with it.
LEMMA StopStep ==
    ASSUME LedgerCore, NEW p \in Processes, ~Dropped, ~Dropped', ~PowerOnly', faults' # <<>>,
           NEW step \in {"failed", "gone"}, Leaves(p, step),
           pc[p] \in {"running"} \cup OpenSteps \cup CommitSteps,
           UNCHANGED <<state, stable, record, target, goal, late>>
    PROVE  LedgerCore'
  <1> USE DEF LedgerCore
  <1> HIDE DEF Chains
  <1>0. /\ LockAt(p) /\ HeadAt(p) /\ (p \in Sessions => RecordAt(p)) /\ p # NoOne
        /\ p \in Sessions \/ p = Visitor
    BY ProcessFacts
  <1>1. /\ pc'[p] = (IF p = Visitor THEN "start" ELSE step)
        /\ \A q \in Processes : q # p => pc'[q] = pc[q]
        /\ lock' = (IF lock = p THEN NoOne ELSE lock)
    BY DEF Leaves, Goes, LedgerTypes
  <1>2. LedgerTypes'
    BY DEF Leaves, Goes, LedgerTypes, Steps, Unlocked
  <1>3. \A s \in Sessions : s \in Processes /\ (Written(s)' <=> Written(s)) /\ (Whole(s)' <=> Whole(s))
    BY DEF Processes, Written, Whole
  <1>4. Candidates(state)' = Candidates(state)
    BY <1>3 DEF Candidates
  <1>5. Stepped'
    <2>1. LockAt(p)' /\ HeadAt(p)'
      BY <1>0, <1>1 DEF LockAt, HeadAt, OpenSteps, CommitSteps
    <2>2. ASSUME NEW q \in Processes, q # p PROVE LockAt(q)' /\ HeadAt(q)'
      <3>1. LockAt(q) /\ HeadAt(q) /\ q # NoOne
        BY ProcessFacts
      <3>2. LockAt(q)'
        BY <1>1, <2>2, <3>1 DEF LockAt
      <3>3. HeadAt(q)'
        BY <1>1, <1>4, <2>2, <3>1 DEF HeadAt
      <3> QED  BY <3>2, <3>3
    <2>3. p \in Sessions => RecordAt(p)'
      BY <1>0, <1>1, LedgerAssumption DEF RecordAt
    <2>4. ASSUME NEW s \in Sessions, s # p PROVE RecordAt(s)'
      <3>1. RecordAt(s)
        BY DEF Stepped
      <3> QED  BY <1>1, <1>3, <2>4, <3>1 DEF RecordAt
    <2> QED  BY <2>1, <2>2, <2>3, <2>4 DEF Stepped
  <1>6. Sound(state)'
    BY <1>3 DEF Sound
  <1>7. OnePending'
    <2>1. \A s, t \in Rest' : s = t
      <3>1. CASE lock = p /\ p \in Candidates(state)
        <4>1. Rest = {}
          BY <3>1, OwnPendingIsOnly
        <4> QED  BY <1>4, <3>1, <4>1 DEF Rest
      <3>2. CASE ~(lock = p /\ p \in Candidates(state))
        <4>1. Rest' \subseteq Rest
          BY <1>1, <1>4, <3>2 DEF Rest
        <4> QED  BY <4>1 DEF OnePending
      <3> QED  BY <3>1, <3>2
    <2>2. ASSUME lock' # NoOne, Recovered(lock)' PROVE Rest' = {}
      <3>1. lock' = lock /\ lock # p /\ lock \in Processes
        BY <1>1, <2>2 DEF LedgerTypes
      <3>2. Recovered(lock)
        BY <1>1, <2>2, <3>1 DEF Recovered
      <3> QED  BY <1>4, <2>2, <3>1, <3>2 DEF OnePending, Rest
    <2> QED  BY <2>1, <2>2 DEF OnePending
  <1> QED  BY <1>2, <1>5, <1>6, <1>7 DEF StableHead

LEMMA DropStep ==
    ASSUME LedgerCore, NEW s \in Sessions, Drop(s), faults = <<>>, ~Dropped, Dropped', ~PowerOnly',
           faults' # <<>>
    PROVE  LedgerCore'
  <1> USE DEF LedgerCore
  <1> HIDE DEF Chains
  <1>0. s \in Processes
    BY DEF Processes
  <1>1. LockAt(s) /\ HeadAt(s) /\ RecordAt(s) /\ s # NoOne /\ s # Visitor
    BY <1>0, ProcessFacts
  <1>2. /\ pc[s] \in CommitSteps /\ lock = s /\ lock' = NoOne /\ pc'[s] = "failed"
        /\ \A q \in Processes : q # s => pc'[q] = pc[q]
        /\ late'[s] = (pc[s] \in {"write", "sync"}) /\ \A t \in Sessions : t # s => late'[t] = late[t]
        /\ UNCHANGED <<state, stable, record, target, goal>>
    BY <1>0, <1>1 DEF Drop, Leaves, Goes, LockAt, CommitSteps, LedgerTypes
  <1>3. LedgerTypes'
    BY <1>0, <1>2 DEF Drop, Leaves, Goes, LedgerTypes, Steps, Unlocked
  <1>4. \A t \in Sessions : t \in Processes /\ (Written(t)' <=> Written(t)) /\ (Whole(t)' <=> Whole(t))
    BY <1>2 DEF Processes, Written, Whole
  <1>5. Candidates(state)' = Candidates(state)
    BY <1>2, <1>4 DEF Candidates
  <1>6. Stepped'
    <2>1. LockAt(s)' /\ HeadAt(s)'
      BY <1>0, <1>1, <1>2 DEF LockAt, HeadAt, OpenSteps, CommitSteps
    <2>2. ASSUME NEW q \in Processes, q # s PROVE LockAt(q)' /\ HeadAt(q)'
      <3>1. LockAt(q) /\ HeadAt(q) /\ q # NoOne
        BY ProcessFacts
      <3>2. LockAt(q)'
        BY <1>2, <2>2, <3>1 DEF LockAt
      <3>3. HeadAt(q)'
        BY <1>2, <1>5, <2>2, <3>1 DEF HeadAt
      <3> QED  BY <3>2, <3>3
    <2>3. RecordAt(s)'
      BY <1>1, <1>2 DEF RecordAt, Written
    <2>4. ASSUME NEW t \in Sessions, t # s PROVE RecordAt(t)'
      <3>1. RecordAt(t)
        BY DEF Stepped
      <3> QED  BY <1>2, <1>4, <2>4, <3>1 DEF RecordAt
    <2> QED  BY <2>1, <2>2, <2>3, <2>4 DEF Stepped
  <1>7. Sound(state)'
    BY <1>2, <1>4 DEF Sound
  <1>8. OnePending'
    <2>1. Rest = {}
      BY <1>1, <1>2 DEF OnePending, Recovered
    <2>2. \A t \in Rest' : t = s
      BY <1>2, <1>5, <2>1 DEF Rest
    <2>3. \A t \in Sessions : pc'[t] = "failed" /\ Written(t)' => t = s
      BY <1>2, <1>4 DEF OnePending
    <2> QED  BY <1>2, <2>2, <2>3 DEF OnePending
  <1> QED  BY <1>3, <1>6, <1>7, <1>8 DEF StableHead

LEMMA PowerLossStep ==
    ASSUME LedgerCore, PowerLoss, PowerOnly, PowerOnly', ~Dropped', faults' # <<>>
    PROVE  LedgerCore'
  <1> USE DEF LedgerCore
  <1> HIDE DEF Chains
  <1>1. /\ lock' = NoOne /\ state' = stable
        /\ UNCHANGED <<stable, target, goal>>
        /\ \A s \in Sessions : ~late'[s]
    BY DEF PowerLoss
  <1>2. \A p \in Processes :
           /\ pc'[p] \in {"start", "failed", "gone", "done"}
           /\ p = Visitor => pc'[p] = "start"
           /\ pc'[p] \in {"start", "done"} /\ p # Visitor => pc[p] = pc'[p]
    <2>1. \A p \in Processes : pc[p] \in Steps
      BY DEF LedgerTypes
    <2> QED  BY <2>1 DEF PowerLoss, Ended, Steps, Unlocked, OpenSteps, CommitSteps
  <1>3. \A s \in Sessions :
           /\ record'[s].prev = record[s].prev
           /\ record'[s].st = (IF record[s].st = "buffered" THEN "torn" ELSE record[s].st)
    BY DEF PowerLoss, LedgerTypes
  <1>4. LedgerTypes'
    <2>1. record' \in [Sessions -> [st: {"none", "open", "torn", "buffered", "synced"}, prev: Chains]]
      BY DEF PowerLoss, LedgerTypes
    <2>2. pc' \in [Processes -> Steps]
      BY <1>2 DEF PowerLoss, Steps, Unlocked
    <2>3. late' \in [Sessions -> BOOLEAN]
      BY DEF PowerLoss
    <2> QED  BY <1>1, <2>1, <2>2, <2>3 DEF LedgerTypes
  <1>5. \A s \in Sessions :
           /\ s \in Processes /\ s # Visitor
           /\ Written(s)' <=> Written(s)
           /\ Whole(s)' <=> record[s].st = "synced"
    <2>1. \A s \in Sessions : record[s].st \in {"none", "open", "torn", "buffered", "synced"}
      BY RecordFacts
    <2> QED  BY <1>3, <2>1, LedgerAssumption DEF Processes, Written, Whole
  <1>6. Stepped'
    <2>1. ASSUME NEW p \in Processes PROVE LockAt(p)' /\ HeadAt(p)'
      <3>1. LockAt(p) /\ p # NoOne /\ (p \in Sessions \/ p = Visitor)
        BY ProcessFacts
      <3>2. LockAt(p)'
        BY <1>1, <1>2, <3>1 DEF LockAt, OpenSteps, CommitSteps
      <3>3. HeadAt(p)'
        <4>1. CASE pc'[p] = "done"
          BY <1>1, <1>2, <3>1, <4>1 DEF HeadAt, StableHead, CommitSteps
        <4>2. CASE pc'[p] # "done"
          BY <1>2, <4>2 DEF HeadAt, CommitSteps
        <4> QED  BY <4>1, <4>2
      <3> QED  BY <3>2, <3>3
    <2>2. ASSUME NEW s \in Sessions PROVE RecordAt(s)'
      <3>1. RecordAt(s) /\ pc'[s] \in {"start", "failed", "gone", "done"}
            /\ (pc'[s] \in {"start", "done"} => pc[s] = pc'[s])
        BY <1>2, <1>5 DEF Stepped
      <3>2. pc'[s] = "done" => Len(record[s].prev) < Len(stable)
        BY <3>1 DEF StableHead
      <3> QED  BY <1>1, <1>3, <1>5, <3>1, <3>2 DEF RecordAt
    <2> QED  BY <2>1, <2>2 DEF Stepped
  <1>7. Sound(state)' /\ Sound(stable)'
    BY <1>1, <1>3, <1>5 DEF Sound, StableHead
  <1>8. \A s \in Sessions : record'[s].st = "synced" <=> record[s].st = "synced"
    BY <1>3
  <1>9. OnePending'
    <2>1. \A s \in Rest' : s \in Sessions /\ record[s].st = "synced" /\ record[s].prev = stable
      BY <1>1, <1>3, <1>5 DEF Rest, Candidates
    <2> QED  BY <1>1, <2>1 DEF OnePending, StableHead
  <1>10. StableHead'
    <2>1. \A s \in Sessions : pc'[s] = "done" => pc[s] = "done"
      BY <1>2, <1>5
    <2>2. \A s \in Sessions : record'[s].st # "buffered"
      BY <1>3
    <2> QED  BY <1>1, <1>3, <1>7, <1>8, <2>1, <2>2 DEF StableHead
  <1> QED  BY <1>4, <1>6, <1>7, <1>9, <1>10

-----------------------------------------------------------------------------
(* The chain below the head *)

\* The prefixes of a chain, and what appending a session does to them.
LEMMA PrefixFacts ==
    ASSUME NEW h \in Chains
    PROVE  /\ DOMAIN h = 1..Len(h) /\ Len(h) \in Nat
           /\ \A n \in DOMAIN h :
                 /\ h[n] \in Sessions
                 /\ SubSeq(h, 1, n - 1) \in Chains /\ Len(SubSeq(h, 1, n - 1)) = n - 1
                 /\ Append(SubSeq(h, 1, n - 1), h[n]) = SubSeq(h, 1, n)
           /\ \A c \in Sessions :
                 /\ DOMAIN Append(h, c) = 1..(Len(h) + 1) /\ Append(h, c)[Len(h) + 1] = c
                 /\ SubSeq(Append(h, c), 1, Len(h)) = h
                 /\ \A n \in DOMAIN h :
                       /\ Append(h, c)[n] = h[n]
                       /\ SubSeq(Append(h, c), 1, n - 1) = SubSeq(h, 1, n - 1)
  <1>1. h \in Seq(Sessions) /\ DOMAIN h = 1..Len(h) /\ Len(h) \in Nat
    BY DEF Chains
  <1>2. ASSUME NEW n \in DOMAIN h
        PROVE  /\ h[n] \in Sessions
               /\ SubSeq(h, 1, n - 1) \in Chains /\ Len(SubSeq(h, 1, n - 1)) = n - 1
               /\ Append(SubSeq(h, 1, n - 1), h[n]) = SubSeq(h, 1, n)
    <2>1. n \in Nat /\ n >= 1 /\ n <= Len(h) /\ h[n] \in Sessions
      BY <1>1
    <2>2. ASSUME NEW m \in Nat, m <= Len(h)
          PROVE  /\ SubSeq(h, 1, m) \in Seq(Sessions) /\ Len(SubSeq(h, 1, m)) = m
                 /\ \A i \in 1..m : SubSeq(h, 1, m)[i] = h[i]
      <3>1. \A i \in 1..m : h[i] \in Sessions
        BY <1>1, <2>2
      <3> QED  BY <1>1, <2>2, <3>1, SubSeqProperties
    <2>3. /\ SubSeq(h, 1, n - 1) \in Seq(Sessions) /\ Len(SubSeq(h, 1, n - 1)) = n - 1
          /\ \A i \in 1..(n - 1) : SubSeq(h, 1, n - 1)[i] = h[i]
      BY <2>1, <2>2
    <2>4. /\ SubSeq(h, 1, n) \in Seq(Sessions) /\ Len(SubSeq(h, 1, n)) = n
          /\ \A i \in 1..n : SubSeq(h, 1, n)[i] = h[i]
      BY <2>1, <2>2
    <2>5. PICK q \in Seq(Sessions) : q = SubSeq(h, 1, n - 1)
      BY <2>3
    <2>6. /\ Append(q, h[n]) \in Seq(Sessions) /\ Len(Append(q, h[n])) = n
          /\ \A i \in 1..n : Append(q, h[n])[i] = h[i]
      BY <2>1, <2>3, <2>5
    <2>7. Append(q, h[n]) = SubSeq(h, 1, n)
      BY <2>1, <2>4, <2>6, SeqEqual
    <2> QED  BY <2>1, <2>3, <2>5, <2>7 DEF Chains
  <1>3. ASSUME NEW c \in Sessions
        PROVE  /\ DOMAIN Append(h, c) = 1..(Len(h) + 1) /\ Append(h, c)[Len(h) + 1] = c
               /\ SubSeq(Append(h, c), 1, Len(h)) = h
               /\ \A n \in DOMAIN h :
                     /\ Append(h, c)[n] = h[n]
                     /\ SubSeq(Append(h, c), 1, n - 1) = SubSeq(h, 1, n - 1)
    <2>0. Append(h, c) \in Seq(Sessions)
      BY <1>1, AppendProperties
    <2>1. PICK g \in Seq(Sessions) : g = Append(h, c)
      BY <2>0
    <2>2. /\ Len(g) = Len(h) + 1 /\ DOMAIN g = 1..(Len(h) + 1) /\ g[Len(h) + 1] = c
          /\ \A n \in 1..Len(h) : g[n] = h[n]
      BY <1>1, <2>1
    <2>3. ASSUME NEW m \in Nat, m <= Len(h) PROVE SubSeq(g, 1, m) = SubSeq(h, 1, m)
      <3>1. /\ SubSeq(g, 1, m) \in Seq(Sessions) /\ Len(SubSeq(g, 1, m)) = m
            /\ \A i \in 1..m : SubSeq(g, 1, m)[i] = g[i]
        BY <1>1, <2>2, <2>3
      <3>2. /\ SubSeq(h, 1, m) \in Seq(Sessions) /\ Len(SubSeq(h, 1, m)) = m
            /\ \A i \in 1..m : SubSeq(h, 1, m)[i] = h[i]
        BY <1>1, <2>3
      <3>3. \A i \in 1..m : SubSeq(g, 1, m)[i] = SubSeq(h, 1, m)[i]
        BY <1>1, <2>2, <2>3, <3>1, <3>2
      <3> QED  BY <3>1, <3>2, <3>3, SeqEqual
    <2>4. SubSeq(g, 1, Len(h)) = h
      <3>1. /\ SubSeq(h, 1, Len(h)) \in Seq(Sessions) /\ Len(SubSeq(h, 1, Len(h))) = Len(h)
            /\ \A i \in 1..Len(h) : SubSeq(h, 1, Len(h))[i] = h[i]
        BY <1>1
      <3>2. SubSeq(h, 1, Len(h)) = h
        BY <1>1, <3>1, SeqEqual
      <3> QED  BY <1>1, <2>3, <3>2
    <2>5. \A n \in DOMAIN h : n - 1 \in Nat /\ n - 1 <= Len(h)
      BY <1>1
    <2>6. \A n \in DOMAIN h : SubSeq(g, 1, n - 1) = SubSeq(h, 1, n - 1)
      BY <2>3, <2>5
    <2> QED  BY <1>1, <2>1, <2>2, <2>4, <2>6
  <1> QED  BY <1>1, <1>2, <1>3

\* Steps that write neither the head nor a record keep the chains.
LEMMA ChainsUnread ==
    ASSUME UNCHANGED <<state, stable, record>>
    PROVE  (Chained(state)' <=> Chained(state)) /\ (Chained(stable)' <=> Chained(stable))
  BY DEF Chained, Whole

\* A record that becomes whole above the chain, or keeps what it says, keeps it.
LEMMA ChainKept ==
    ASSUME LedgerTypes, NEW s \in Sessions, NEW h \in Chains \cup {NoState}, Chained(h),
           \A t \in Sessions : t # s => record'[t] = record[t],
           Whole(s) => Whole(s)' /\ record'[s].prev = record[s].prev,
           Whole(s)' /\ ~Whole(s) => record'[s].prev = h
    PROVE  Chained(h)'
  <1> HIDE DEF Chains
  <1> SUFFICES ASSUME h # NoState, NEW n \in DOMAIN h
               PROVE  /\ Whole(h[n])' /\ record'[h[n]].prev = SubSeq(h, 1, n - 1)
                      /\ \A t \in Sessions : Whole(t)' /\ Len(record'[t].prev) = n - 1 => t = h[n]
    BY DEF Chained
  <1>1. /\ Whole(h[n]) /\ record[h[n]].prev = SubSeq(h, 1, n - 1)
        /\ \A t \in Sessions : Whole(t) /\ Len(record[t].prev) = n - 1 => t = h[n]
    BY DEF Chained
  <1>2. h[n] \in Sessions /\ Len(h) # n - 1
    BY PrefixFacts
  <1>3. \A t \in Sessions : t # s => (Whole(t)' <=> Whole(t))
    BY DEF Whole
  <1> QED  BY <1>1, <1>2, <1>3

\* The one pending record is what a new head commits.
LEMMA ReplacedHead ==
    ASSUME LedgerCore, ~Dropped, NEW p \in Processes, pc[p] = "replace", state # NoState
    PROVE  \E c \in Sessions :
              /\ Whole(c) /\ record[c].prev = state /\ target[p] = Append(state, c)
              /\ \A t \in Sessions : Whole(t) /\ Len(record[t].prev) = Len(state) => t = c
  <1> HIDE DEF Chains
  <1>1. /\ LockAt(p) /\ HeadAt(p) /\ (p \in Sessions => RecordAt(p)) /\ p # NoOne
        /\ (~Written(p) => p \notin Candidates(state))
    BY ProcessFacts
  <1>2. PICK c \in Candidates(state) : target[p] = Append(state, c) /\ (goal[p] = "done" => c = p)
    BY <1>1 DEF HeadAt
  <1>3. lock = p
    BY <1>1 DEF LockAt, OpenSteps
  <1>4. \A t \in Candidates(state) : t = c
    <2>1. CASE goal[p] = "done"
      BY <1>1, <1>2, <1>3, <2>1 DEF LedgerCore, OnePending, Recovered, Rest
    <2>2. CASE goal[p] # "done"
      <3>1. p \notin Candidates(state)
        BY <1>1, <2>2 DEF RecordAt, Candidates
      <3> QED  BY <1>2, <1>3, <3>1 DEF LedgerCore, OnePending, Rest
    <2> QED  BY <2>1, <2>2
  <1>5. ASSUME NEW t \in Sessions, Whole(t), Len(record[t].prev) = Len(state) PROVE t = c
    <2>1. Written(t) /\ Len(record[t].prev) \in Nat
      BY <1>5, RecordFacts DEF LedgerCore
    <2>2. record[t].prev = state
      BY <1>5, <2>1 DEF LedgerCore, Sound
    <2> QED  BY <1>4, <1>5, <2>2 DEF Candidates
  <1> QED  BY <1>2, <1>5 DEF Candidates

LEMMA ReplaceChains ==
    ASSUME LedgerCore, ~Dropped, NEW p \in Processes, Replace(p), Chained(state)
    PROVE  Chained(state)' /\ (Chained(stable)' <=> Chained(stable))
  <1> HIDE DEF Chains
  <1>1. pc[p] = "replace" /\ state' = target[p] /\ UNCHANGED <<stable, record>>
    BY DEF Replace, At
  <1>2. Chained(stable)' <=> Chained(stable)
    BY <1>1 DEF Chained, Whole
  <1>3. CASE state = NoState
    <2>1. HeadAt(p)
      BY ProcessFacts
    <2>2. state' = <<>>
      BY <1>1, <1>3, <2>1 DEF HeadAt
    <2> QED  BY <1>2, <2>2 DEF Chained
  <1>4. CASE state # NoState
    <2>1. PICK c \in Sessions :
              /\ Whole(c) /\ record[c].prev = state /\ target[p] = Append(state, c)
              /\ \A t \in Sessions : Whole(t) /\ Len(record[t].prev) = Len(state) => t = c
      BY <1>1, <1>4, ReplacedHead
    <2>2. PICK h \in Chains : h = state
      BY <1>4 DEF LedgerCore, LedgerTypes
    <2>3. PICK g : g = Append(h, c)
      OBVIOUS
    <2>4. /\ Len(h) \in Nat /\ DOMAIN h = 1..Len(h) /\ DOMAIN g = 1..(Len(h) + 1)
          /\ g[Len(h) + 1] = c /\ SubSeq(g, 1, Len(h)) = h
          /\ \A n \in DOMAIN h : g[n] = h[n] /\ SubSeq(g, 1, n - 1) = SubSeq(h, 1, n - 1)
      BY <2>3, PrefixFacts
    <2>5. ASSUME NEW n \in DOMAIN g
          PROVE  /\ Whole(g[n]) /\ record[g[n]].prev = SubSeq(g, 1, n - 1)
                 /\ \A t \in Sessions : Whole(t) /\ Len(record[t].prev) = n - 1 => t = g[n]
      <3>1. CASE n \in DOMAIN h
        BY <1>4, <2>2, <2>4, <3>1 DEF Chained
      <3>2. CASE n = Len(h) + 1
        <4>1. n - 1 = Len(h)
          BY <2>4, <3>2
        <4> QED  BY <2>1, <2>2, <2>4, <3>2, <4>1
      <3> QED  BY <2>4, <3>1, <3>2
    <2>6. state' = g
      BY <1>1, <2>1, <2>2, <2>3
    <2> QED  BY <1>1, <1>2, <2>5, <2>6 DEF Chained, Whole
  <1> QED  BY <1>3, <1>4

\* What a power loss leaves has its chain: a record that was not synced is not
\* below the synced head.
LEMMA PowerLossChains ==
    ASSUME LedgerCore, PowerLoss, PowerOnly, Chained(stable)
    PROVE  Chained(state)' /\ Chained(stable)'
  <1> HIDE DEF Chains
  <1>1. state' = stable /\ stable' = stable
    BY DEF PowerLoss
  <1>2. \A s \in Sessions :
           /\ record'[s].prev = record[s].prev
           /\ record'[s].st = (IF record[s].st = "buffered" THEN "torn" ELSE record[s].st)
    BY DEF PowerLoss, LedgerCore, LedgerTypes
  <1>3. CASE stable = NoState
    BY <1>1, <1>3 DEF Chained
  <1>4. CASE stable # NoState
    <2>1. PICK h \in Chains : h = stable
      BY <1>4 DEF LedgerCore, LedgerTypes
    <2>2. ASSUME NEW n \in DOMAIN h
          PROVE  /\ Whole(h[n])' /\ record'[h[n]].prev = SubSeq(h, 1, n - 1)
                 /\ \A t \in Sessions : Whole(t)' /\ Len(record'[t].prev) = n - 1 => t = h[n]
      <3>1. /\ Whole(h[n]) /\ record[h[n]].prev = SubSeq(h, 1, n - 1)
            /\ \A t \in Sessions : Whole(t) /\ Len(record[t].prev) = n - 1 => t = h[n]
        BY <1>4, <2>1 DEF Chained
      <3>2. h[n] \in Sessions /\ SubSeq(h, 1, n - 1) # h
        BY PrefixFacts
      <3>3. record[h[n]].st # "buffered"
        <4>1. SUFFICES ASSUME record[h[n]].st = "buffered" PROVE FALSE
          OBVIOUS
        <4>2. pc[h[n]] = "sync" /\ h[n] \in Processes
          BY <3>2, <4>1 DEF LedgerCore, StableHead, Processes
        <4>3. record[h[n]].prev = state /\ lock = h[n] /\ h[n] # NoOne
          BY <3>2, <4>2, ProcessFacts DEF RecordAt, LockAt, CommitSteps
        <4>4. stable = state
          BY <4>2, <4>3 DEF LedgerCore, StableHead
        <4> QED  BY <2>1, <3>1, <3>2, <4>3, <4>4
      <3>4. Whole(h[n])'
        BY <1>2, <3>1, <3>2, <3>3 DEF Whole
      <3>5. \A t \in Sessions : Whole(t)' => Whole(t)
        BY <1>2 DEF Whole
      <3> QED  BY <1>2, <3>1, <3>2, <3>4, <3>5
    <2> QED  BY <1>1, <2>1, <2>2 DEF Chained
  <1> QED  BY <1>3, <1>4

\* The holder of the lock writes its own record.
LEMMA RecordChains ==
    ASSUME LedgerCore, NEW s \in Sessions, UNCHANGED <<state, stable>>,
           \A t \in Sessions : t # s => record'[t] = record[t],
           Whole(s) => Whole(s)' /\ record'[s].prev = record[s].prev,
           Whole(s)' /\ ~Whole(s) => record'[s].prev = state /\ (PowerOnly => stable = state),
           Chained(state), PowerOnly => Chained(stable)
    PROVE  Chained(state)' /\ (PowerOnly => Chained(stable)')
  <1> HIDE DEF Chains
  <1>1. Chained(state)'
    <2>1. PICK h \in Chains \cup {NoState} : h = state
      BY DEF LedgerCore, LedgerTypes
    <2>2. Chained(h)
      BY <2>1 DEF Chained
    <2>3. Chained(h)'
      BY <2>1, <2>2, ChainKept DEF LedgerCore
    <2> QED  BY <2>1, <2>3 DEF Chained
  <1>2. ASSUME PowerOnly PROVE Chained(stable)'
    <2>1. PICK h \in Chains \cup {NoState} : h = stable
      BY DEF LedgerCore, LedgerTypes
    <2>2. Chained(h)
      BY <1>2, <2>1 DEF Chained
    <2>3. Chained(h)'
      BY <1>2, <2>1, <2>2, ChainKept DEF LedgerCore
    <2> QED  BY <2>1, <2>3 DEF Chained
  <1> QED  BY <1>1, <1>2

\* What opening the ledger does to the chains.
LEMMA OpenChains ==
    ASSUME LedgerCore, ~Dropped, Chained(state), PowerOnly => Chained(stable),
           NEW p \in Processes, OpenNext(p)
    PROVE  Chained(state)' /\ (PowerOnly => Chained(stable)')
  <1> HIDE DEF Chains
  <1>1. CASE OpenLock(p) \/ OpenIdentity(p) \/ WriteIdentity(p) \/ LoadState(p) \/ Scan(p)
    <2>1. UNCHANGED <<state, stable, record>>
      BY <1>1 DEF OpenLock, OpenIdentity, WriteIdentity, LoadState, Scan
    <2> QED  BY <2>1, ChainsUnread
  <1>2. CASE Replace(p)
    BY <1>2, ReplaceChains
  <1>3. CASE SyncDirectory(p)
    <2>1. stable' = state /\ state' = state /\ record' = record
      BY <1>3 DEF SyncDirectory
    <2> QED  BY <2>1 DEF Chained, Whole
  <1>4. CASE Opened(p)
    <2>1. pc[p] = "open" /\ UNCHANGED <<state, stable>>
      BY <1>4 DEF Opened, At
    <2>2. CASE p = Visitor
      <3>1. record' = record
        BY <1>4, <2>2 DEF Opened
      <3> QED  BY <2>1, <3>1, ChainsUnread
    <2>3. CASE p # Visitor
      <3>1. p \in Sessions /\ RecordAt(p)
        BY <2>3, ProcessFacts
      <3>2. ~Whole(p)
        BY <2>1, <3>1, RecordFacts DEF RecordAt, LedgerCore
      <3>3. /\ \A t \in Sessions : t # p => record'[t] = record[t]
            /\ record'[p].st = "open"
        BY <1>4, <2>3, <3>1 DEF Opened, LedgerCore, LedgerTypes
      <3>4. ~Whole(p)'
        BY <3>3 DEF Whole
      <3> QED  BY <2>1, <3>1, <3>2, <3>3, <3>4, RecordChains
    <2> QED  BY <2>2, <2>3
  <1> QED  BY <1>1, <1>2, <1>3, <1>4 DEF OpenNext

\* What a commit does to the chains.
LEMMA CommitChains ==
    ASSUME LedgerCore, ~Dropped, Chained(state), PowerOnly => Chained(stable),
           NEW s \in Sessions, CommitNext(s)
    PROVE  Chained(state)' /\ (PowerOnly => Chained(stable)')
  <1> HIDE DEF Chains
  <1>0. s \in Processes
    BY DEF Processes
  <1>1. LockAt(s) /\ RecordAt(s) /\ s # NoOne
    BY <1>0, ProcessFacts
  <1>2. ~late[s]
    BY <1>1 DEF RecordAt
  <1>3. CASE BeginCommit(s) \/ Advance(s) \/ Finish(s)
    <2>1. UNCHANGED <<state, stable, record>>
      BY <1>3 DEF BeginCommit, Advance, Finish
    <2> QED  BY <2>1, ChainsUnread
  <1>4. CASE SendCommit(s)
    <2>1. pc[s] = "commit" /\ UNCHANGED <<state, stable>>
      BY <1>4 DEF SendCommit, At
    <2>2. ~Whole(s)
      BY <1>1, <2>1, RecordFacts DEF RecordAt, LedgerCore
    <2>3. /\ \A t \in Sessions : t # s => record'[t] = record[t]
          /\ record'[s].st = "torn"
      BY <1>4 DEF SendCommit, LedgerCore, LedgerTypes
    <2>4. ~Whole(s)'
      BY <2>3 DEF Whole
    <2> QED  BY <2>1, <2>2, <2>3, <2>4, RecordChains
  <1>5. CASE WriteCommit(s)
    <2>1. pc[s] = "write" /\ UNCHANGED <<state, stable>>
      BY <1>5 DEF WriteCommit, At
    <2>2. ~Whole(s) /\ record[s].prev = state /\ lock = s
      BY <1>1, <2>1 DEF RecordAt, LockAt, CommitSteps, Whole
    <2>3. /\ \A t \in Sessions : t # s => record'[t] = record[t]
          /\ record'[s].prev = record[s].prev
      BY <1>5 DEF WriteCommit, LedgerCore, LedgerTypes
    <2>4. PowerOnly => stable = state
      BY <1>1, <2>1, <2>2 DEF LedgerCore, StableHead
    <2> QED  BY <2>1, <2>2, <2>3, <2>4, RecordChains
  <1>6. CASE SyncRecord(s)
    <2>1. pc[s] = "sync" /\ UNCHANGED <<state, stable>>
      BY <1>6 DEF SyncRecord, At
    <2>2. /\ \A t \in Sessions : t # s => record'[t] = record[t]
          /\ record'[s].prev = record[s].prev /\ record'[s].st = "synced"
      BY <1>6 DEF SyncRecord, LedgerCore, LedgerTypes
    <2>3. Whole(s) /\ Whole(s)'
      BY <1>1, <2>1, <2>2 DEF RecordAt, Whole
    <2> QED  BY <2>1, <2>2, <2>3, RecordChains
  <1>7. CASE LateWrite(s) \/ Exit(s)
    BY <1>2, <1>7 DEF LateWrite, Exit
  <1> QED  BY <1>3, <1>4, <1>5, <1>6, <1>7 DEF CommitNext

-----------------------------------------------------------------------------
(* The theorems *)

\* Before anything has happened there is no record, no head and no fault.
LEMMA LedgerInit == Init => LedgerInv
  <1> HIDE DEF Chains
  <1> SUFFICES ASSUME Init PROVE LedgerInv
    OBVIOUS
  <1>1. /\ \A p \in Processes : pc[p] = "start" /\ goal[p] = "none"
        /\ \A s \in Sessions : s \in Processes /\ record[s] = Blank /\ ~late[s]
        /\ lock = NoOne /\ state = NoState /\ stable = NoState /\ faults = <<>>
    BY DEF Init, Processes
  <1>2. \A s \in Sessions : ~Written(s) /\ ~Whole(s) /\ record[s].st = "none"
    BY <1>1 DEF Written, Whole, Blank
  <1>3. LedgerTypes
    BY ChainFacts DEF Init, LedgerTypes, Blank, Steps, Unlocked
  <1>4. Stepped
    <2>1. ASSUME NEW p \in Processes PROVE LockAt(p) /\ HeadAt(p)
      BY <1>1, LedgerAssumption DEF LockAt, HeadAt, OpenSteps, CommitSteps, Processes
    <2>2. ASSUME NEW s \in Sessions PROVE RecordAt(s)
      BY <1>1, <1>2 DEF RecordAt
    <2> QED  BY <2>1, <2>2 DEF Stepped
  <1>5. Sound(state) /\ Sound(stable)
    BY <1>2 DEF Sound
  <1>6. Rest = {}
    BY <1>2 DEF Rest, Candidates
  <1>7. OnePending
    BY <1>1, <1>2, <1>6 DEF OnePending
  <1>8. StableHead
    BY <1>1, <1>2, <1>5 DEF StableHead
  <1>9. Chained(state) /\ Chained(stable)
    BY <1>1 DEF Chained
  <1>10. faults \in Seq(Faults) /\ Len(faults) <= MaxFaults
    BY <1>1, LedgerAssumption
  <1> QED  BY <1>3, <1>4, <1>5, <1>7, <1>8, <1>9, <1>10 DEF LedgerInv, LedgerCore

\* A step without a fault.
LEMMA WorkStep ==
    ASSUME LedgerInv, UNCHANGED faults,
           OneKind => LedgerCore',
           OneKind /\ ~Dropped => Chained(state)' /\ (PowerOnly => Chained(stable)')
    PROVE  LedgerInv'
  <1>1. (OneKind' <=> OneKind) /\ (PowerOnly' <=> PowerOnly) /\ (Dropped' <=> Dropped)
    BY NoFault
  <1> QED  BY <1>1 DEF LedgerInv

\* A process that dies, or whose disk fails.
LEMMA ProcessFault ==
    ASSUME LedgerInv, NEW p \in Processes, DiskFails(p) \/ Crash(p)
    PROVE  LedgerInv'
  <1> HIDE DEF Chains
  <1>1. PICK f \in {"disk", "crash"}, step \in {"failed", "gone"} :
           /\ Fault(f) /\ Leaves(p, step)
           /\ UNCHANGED <<state, stable, record, target, goal, late>>
    BY DEF DiskFails, Crash
  <1>2. /\ faults' \in Seq(Faults) /\ Len(faults') <= MaxFaults /\ faults' # <<>>
        /\ OneKind' => OneKind /\ ~Dropped /\ ~Dropped' /\ ~PowerOnly'
    BY <1>1, FaultKinds DEF LedgerInv
  <1>3. ASSUME OneKind' PROVE LedgerCore' /\ Chained(state)'
    <2>1. LedgerCore /\ Chained(state)
      BY <1>2, <1>3 DEF LedgerInv
    <2>2. pc[p] \in {"running"} \cup OpenSteps \cup CommitSteps
      <3>1. pc[p] \in Steps
        BY <2>1, ProcessFacts
      <3> QED  BY <3>1 DEF DiskFails, Crash, Ended, Steps, Unlocked, OpenSteps, CommitSteps
    <2> QED  BY <1>1, <1>2, <1>3, <2>1, <2>2, StopStep, ChainsUnread
  <1> QED  BY <1>2, <1>3 DEF LedgerInv

\* The invariant is inductive.
LEMMA LedgerStep == LedgerInv /\ [Next]_vars => LedgerInv'
  <1> HIDE DEF Chains
  <1> SUFFICES ASSUME LedgerInv, [Next]_vars PROVE LedgerInv'
    OBVIOUS
  <1>0. /\ OneKind => LedgerCore
        /\ OneKind /\ ~Dropped => Chained(state) /\ (PowerOnly => Chained(stable))
    BY DEF LedgerInv
  <1>1. ASSUME NEW p \in Processes, OpenNext(p) PROVE LedgerInv'
    <2>1. UNCHANGED faults
      BY <1>1 DEF OpenNext, OpenLock, OpenIdentity, WriteIdentity, LoadState, Scan,
                  Replace, SyncDirectory, Opened
    <2>2. OneKind => LedgerCore'
      BY <1>0, <1>1, OpenLockStep, OpenIdentityStep, WriteIdentityStep, LoadStateStep, ScanStep,
         ReplaceStep, SyncDirectoryStep, OpenedStep DEF OpenNext
    <2>3. OneKind /\ ~Dropped => Chained(state)' /\ (PowerOnly => Chained(stable)')
      BY <1>0, <1>1, OpenChains
    <2> QED  BY <2>1, <2>2, <2>3, WorkStep
  <1>2. ASSUME NEW s \in Sessions, CommitNext(s) PROVE LedgerInv'
    <2>1. UNCHANGED faults
      BY <1>2 DEF CommitNext, BeginCommit, SendCommit, WriteCommit, SyncRecord, Advance, Finish,
                  LateWrite, Exit
    <2>2. OneKind => LedgerCore'
      BY <1>0, <1>2, BeginCommitStep, SendCommitStep, WriteCommitStep, SyncRecordStep, AdvanceStep,
         FinishStep, LateWriteStep, ExitStep DEF CommitNext
    <2>3. OneKind /\ ~Dropped => Chained(state)' /\ (PowerOnly => Chained(stable)')
      BY <1>0, <1>2, CommitChains
    <2> QED  BY <2>1, <2>2, <2>3, WorkStep
  <1>3. ASSUME NEW s \in Sessions, Interrupt(s) PROVE LedgerInv'
    <2>1. UNCHANGED <<state, stable, record, faults>>
      BY <1>3 DEF Interrupt
    <2>2. OneKind => LedgerCore'
      BY <1>0, <1>3, InterruptStep
    <2>3. OneKind /\ ~Dropped => Chained(state)' /\ (PowerOnly => Chained(stable)')
      BY <1>0, <2>1, ChainsUnread
    <2> QED  BY <2>1, <2>2, <2>3, WorkStep
  <1>4. ASSUME NEW p \in Processes, DiskFails(p) \/ Crash(p) PROVE LedgerInv'
    BY <1>4, ProcessFault
  <1>5. ASSUME NEW s \in Sessions, Drop(s) PROVE LedgerInv'
    <2>1. Fault("drop") /\ UNCHANGED <<state, stable, record>>
      BY <1>5 DEF Drop
    <2>2. /\ faults' \in Seq(Faults) /\ Len(faults') <= MaxFaults /\ faults' # <<>>
          /\ OneKind' => OneKind /\ faults = <<>> /\ ~Dropped /\ Dropped' /\ ~PowerOnly'
      BY <2>1, FaultKinds DEF LedgerInv
    <2>3. OneKind' => LedgerCore'
      BY <1>0, <1>5, <2>2, DropStep
    <2> QED  BY <2>2, <2>3 DEF LedgerInv
  <1>6. CASE PowerLoss
    <2>1. Fault("power")
      BY <1>6 DEF PowerLoss
    <2>2. /\ faults' \in Seq(Faults) /\ Len(faults') <= MaxFaults /\ faults' # <<>>
          /\ OneKind' => OneKind /\ PowerOnly /\ PowerOnly' /\ ~Dropped /\ ~Dropped'
      BY <2>1, FaultKinds DEF LedgerInv
    <2>3. OneKind' => LedgerCore' /\ Chained(state)' /\ Chained(stable)'
      BY <1>0, <1>6, <2>2, PowerLossStep, PowerLossChains
    <2> QED  BY <2>2, <2>3 DEF LedgerInv
  <1>7. CASE UNCHANGED vars
    <2>1. UNCHANGED <<pc, lock, identity, state, stable, record, target, goal, late, faults>>
      BY <1>7 DEF vars
    <2>2. LedgerCore' <=> LedgerCore
      <3>1. LedgerTypes' <=> LedgerTypes
        BY <2>1 DEF LedgerTypes
      <3>2. Stepped' <=> Stepped
        BY <2>1 DEF Stepped, LockAt, HeadAt, RecordAt, Written, Dropped, Candidates, Whole
      <3>3. (Sound(state)' <=> Sound(state)) /\ (Sound(stable)' <=> Sound(stable))
        BY <2>1 DEF Sound, Written
      <3>4. OnePending' <=> OnePending
        BY <2>1 DEF OnePending, Rest, Candidates, Whole, Recovered, Dropped, Written
      <3>5. StableHead' <=> StableHead
        BY <2>1, <3>3 DEF StableHead, PowerOnly
      <3> QED  BY <3>1, <3>2, <3>3, <3>4, <3>5 DEF LedgerCore
    <2>3. (Chained(state)' <=> Chained(state)) /\ (Chained(stable)' <=> Chained(stable))
      BY <2>1, ChainsUnread
    <2> QED  BY <1>0, <2>1, <2>2, <2>3, WorkStep
  <1> QED  BY <1>1, <1>2, <1>3, <1>4, <1>5, <1>6, <1>7 DEF Next

LEMMA LedgerInvariant == Spec => []LedgerInv
  BY LedgerInit, LedgerStep, PTL DEF Spec

\* find_chain_link finds the link at every place of the head's chain.
LEMMA ChainLinks ==
    ASSUME LedgerTypes, Chained(state), state # NoState, Scannable, NEW n \in DOMAIN state
    PROVE  LinkFound(n)
  <1> HIDE DEF Chains
  <1>1. state \in Chains
    BY DEF LedgerTypes
  <1>2. /\ Whole(state[n]) /\ record[state[n]].prev = SubSeq(state, 1, n - 1)
        /\ \A t \in Sessions : Whole(t) /\ Len(record[t].prev) = n - 1 => t = state[n]
    BY DEF Chained
  <1>3. /\ state[n] \in Sessions /\ Len(SubSeq(state, 1, n - 1)) = n - 1 /\ n \in Nat
        /\ Append(SubSeq(state, 1, n - 1), state[n]) = SubSeq(state, 1, n)
    <2>1. DOMAIN state = 1..Len(state) /\ Len(state) \in Nat
      BY <1>1, PrefixFacts
    <2>2. n \in Nat
      BY <2>1
    <2> QED  BY <1>1, <2>2, PrefixFacts
  <1>4. \A t \in Sessions : Len(record[t].prev) \in Nat
    BY RecordFacts
  <1>5. {t \in Sessions : Whole(t) /\ Sequence(t) = n} = {state[n]}
    <2>1. \A t \in Sessions : Sequence(t) = n <=> Len(record[t].prev) = n - 1
      BY <1>3, <1>4 DEF Sequence
    <2> QED  BY <1>2, <1>3, <2>1
  <1>6. Root(state[n]) = SubSeq(state, 1, n)
    BY <1>2, <1>3 DEF Root
  <1>7. Cardinality({state[n]}) = 1
    BY FS_Singleton
  <1> QED  BY <1>5, <1>6, <1>7 DEF LinkFound

\* A reported commit lies on the head's chain, and the verifier finds it there
\* exactly when its caps reach it.
LEMMA DoneIsAnchored ==
    ASSUME LedgerCore, Chained(state), NEW s \in Sessions, pc[s] = "done"
    PROVE  /\ record[s].st = "synced" /\ state # NoState
           /\ Sequence(s) <= Len(state) /\ Root(s) = SubSeq(state, 1, Sequence(s))
           /\ LedgerContinuous(s) <=> InReach(s)
  <1> HIDE DEF Chains
  <1>0. s \in Processes
    BY DEF Processes
  <1>1. /\ HeadAt(s) /\ RecordAt(s)
        /\ state # NoState => state \in Chains /\ Len(state) \in Nat
    BY <1>0, ProcessFacts
  <1>2. /\ record[s].st = "synced" /\ state # NoState /\ state \in Chains /\ Len(state) \in Nat
        /\ Len(record[s].prev) < Len(state) /\ Len(record[s].prev) \in Nat
    BY <1>1, RecordFacts DEF RecordAt, HeadAt, LedgerCore
  <1>3. DOMAIN state = 1..Len(state)
    BY <1>2, PrefixFacts
  <1>4. PICK n \in DOMAIN state : n = Sequence(s)
    BY <1>2, <1>3 DEF Sequence
  <1>5. n = Len(record[s].prev) + 1 /\ n <= Len(state) /\ n \in Nat /\ n - 1 = Len(record[s].prev)
    BY <1>2, <1>3, <1>4 DEF Sequence
  <1>6. s = state[n] /\ record[s].prev = SubSeq(state, 1, n - 1)
    BY <1>2, <1>5 DEF Chained, Whole
  <1>7. Root(s) = SubSeq(state, 1, n)
    <2>1. Append(SubSeq(state, 1, n - 1), state[n]) = SubSeq(state, 1, n)
      BY <1>2, PrefixFacts
    <2>2. Root(s) = Append(SubSeq(state, 1, n - 1), state[n])
      BY <1>6 DEF Root
    <2> QED  BY <2>1, <2>2
  <1>8. \A m \in (n + 1) .. Len(state) : m \in DOMAIN state
    BY <1>2, <1>3, <1>5
  <1>9. Scannable => \A m \in (n + 1) .. Len(state) : LinkFound(m)
    BY <1>2, <1>8, ChainLinks DEF LedgerCore
  <1>10. ~(Sequence(s) = Len(state) + 1)
    BY <1>2, <1>4, <1>5
  <1>11. LedgerContinuous(s) <=>
             Len(state) <= n + MaxAnchorSteps /\ \A m \in (n + 1) .. Len(state) : LinkFound(m)
    BY <1>4, <1>5, <1>7, <1>10 DEF LedgerContinuous
  <1>12. ASSUME \A m \in (n + 1) .. Len(state) : LinkFound(m), Len(state) > n PROVE Scannable
    <2>1. Len(state) \in (n + 1) .. Len(state)
      BY <1>2, <1>5, <1>12
    <2>2. LinkFound(Len(state))
      BY <1>12, <2>1
    <2> QED  BY <2>2 DEF LinkFound
  <1>13. ~(Len(state) > n) => \A m \in (n + 1) .. Len(state) : LinkFound(m)
    BY <1>2, <1>5
  <1>14. LedgerContinuous(s) <=> InReach(s)
    BY <1>4, <1>9, <1>11, <1>12, <1>13 DEF InReach
  <1> QED  BY <1>2, <1>4, <1>5, <1>7, <1>14

\* However many sessions share the ledger, and whatever number of crashes and
\* disk failures, or of power losses, or one dropped finalization, falls among
\* their steps, no process is ever refused by recover_pending_records or
\* advance (ledger.rs): at most one record is pending and it links to the head.
THEOREM LedgerNeverConflicts == Spec => [](OneKind => NeverConflicts)
  <1>1. LedgerInv => (OneKind => NeverConflicts)
    <2>1. \A x \in Steps : x # "conflict"
      BY DEF Steps, Unlocked, OpenSteps, CommitSteps
    <2> QED  BY <2>1 DEF LedgerInv, LedgerCore, LedgerTypes, NeverConflicts
  <1> QED  BY <1>1, LedgerInvariant, PTL

\* Under the same faults a record whose commit was reported stays on the chain
\* of the head (ledger.rs, advance), and ledger_continuous (verify.rs) finds
\* every link down to it exactly as long as MAX_ANCHOR_STEPS and
\* MAX_ANCHOR_SCAN, whatever their values, reach that far.
THEOREM LedgerAnchors == Spec => [](OneKind => ReportedIsAnchored)
  <1>1. LedgerInv => (OneKind => ReportedIsAnchored)
    BY DoneIsAnchored DEF LedgerInv, ReportedIsAnchored, Reported
  <1> QED  BY <1>1, LedgerInvariant, PTL

\* Any single fault, of whatever kind and wherever it falls, leaves a ledger
\* whose recovery refuses no process and whose chain holds every reported
\* record, found by the verifier within its caps: the properties of the run,
\* for any number of sessions and any caps.
THEOREM LedgerWithstandsOneFault ==
    ASSUME MaxFaults <= 1
    PROVE  Spec => [](NeverConflicts /\ ReportedIsAnchored)
  <1>1. LedgerInv => OneKind
    <2> SUFFICES ASSUME LedgerInv PROVE OneKind
      OBVIOUS
    <2>1. faults \in Seq(Faults) /\ Len(faults) \in Nat /\ Len(faults) <= 1 /\ DOMAIN faults = 1..Len(faults)
      BY LedgerAssumption DEF LedgerInv
    <2>2. CASE Len(faults) = 0
      <3>1. DOMAIN faults = {}
        BY <2>1, <2>2
      <3> QED  BY <3>1 DEF OneKind, PowerOnly
    <2>3. CASE Len(faults) = 1
      <3>1. DOMAIN faults = {1} /\ faults[1] \in {"crash", "power", "disk", "drop"}
        <4>1. DOMAIN faults = {1}
          BY <2>1, <2>3
        <4>2. faults[1] \in Faults
          BY <2>1, <2>3
        <4> QED  BY <4>1, <4>2, LedgerAssumption
      <3> QED  BY <2>3, <3>1 DEF OneKind, PowerOnly, ProcessOnly, Dropped
    <2> QED  BY <2>1, <2>2, <2>3
  <1> QED  BY <1>1, LedgerNeverConflicts, LedgerAnchors, LedgerInvariant, PTL

=============================================================================
