---------------------------- MODULE AuditLedger ----------------------------
(***************************************************************************)
(* The audit ledger of one machine (crates/yon/src/audit/ledger.rs and     *)
(* identity.rs), shared by the processes that open it, and the footer of   *)
(* the record each session commits (observer.rs close_and_finalize,        *)
(* writer.rs run_write_ledger_commit).                                     *)
(*                                                                         *)
(* A root is a hash over the whole chain before it, so it is modelled by   *)
(* that chain: ledger.state holds the sequence of committed sessions, and  *)
(* a commit the chain it was built on.  A file system step is durable once *)
(* it is synced; before that a power loss takes it back.                   *)
(***************************************************************************)
EXTENDS Naturals, Sequences, FiniteSets

CONSTANTS
    Sessions,   \* sessions of this machine, one process each
    Visitor,    \* the preflights, which open the ledger and nothing more
    NoOne,
    Faults,     \* what may go wrong in this instance
    MaxFaults,  \* bound: how much of it in one behaviour
    MaxAnchorSteps,  \* MAX_ANCHOR_STEPS: links one anchor walk follows
    MaxAnchorScan    \* MAX_ANCHOR_SCAN: records it reads for a link

ASSUME LedgerAssumption ==
    /\ Visitor \notin Sessions /\ NoOne \notin Sessions \cup {Visitor}
    /\ Faults \subseteq {"crash", "power", "disk", "drop"}
    /\ MaxFaults \in Nat /\ MaxAnchorSteps \in Nat /\ MaxAnchorScan \in Nat

Processes == Sessions \cup {Visitor}

VARIABLES
    pc,        \* pc[p]: the next step of p
    lock,      \* holder of ledger.lock
    identity,  \* identity.ed25519: none, torn or ok
    state,     \* ledger.state as a process reads it
    stable,    \* ledger.state as a power loss leaves it
    record,    \* record[s]: the container of s and the chain its commit names
    target,    \* target[p]: the head p is about to write
    goal,      \* goal[p]: what p does once that head is written
    late,      \* late[s]: the writer holds a commit its caller gave up
    faults     \* history: the faults so far

vars == <<pc, lock, identity, state, stable, record, target, goal, late, faults>>

NoState == <<NoOne>>        \* there is no ledger.state
Blank == [st |-> "none", prev |-> <<>>]

Init ==
    /\ pc = [p \in Processes |-> "start"]
    /\ lock = NoOne
    /\ identity = "none"
    /\ state = NoState /\ stable = NoState
    /\ record = [s \in Sessions |-> Blank]
    /\ target = [p \in Processes |-> <<>>]
    /\ goal = [p \in Processes |-> "none"]
    /\ late = [s \in Sessions |-> FALSE]
    /\ faults = <<>>

Fault(f) == f \in Faults /\ Len(faults) < MaxFaults /\ faults' = Append(faults, f)

At(p, step) == pc[p] = step
Goes(p, step) == pc' = [pc EXCEPT ![p] = step]

\* The guard of the lock is dropped with its session.
Leaves(p, step) ==
    /\ lock' = IF lock = p THEN NoOne ELSE lock
    /\ Goes(p, IF p = Visitor THEN "start" ELSE step)

-----------------------------------------------------------------------------
(* Ledger::open *)

\* acquire_ledger_lock.
OpenLock(p) ==
    /\ At(p, "start") /\ lock = NoOne
    /\ lock' = p /\ Goes(p, "identity")
    /\ UNCHANGED <<identity, state, stable, record, target, goal, late, faults>>

\* audit_history_exists.
History == state # NoState \/ \E s \in Sessions : record[s].st # "none"

\* open_or_create_identity: create_new, then the contents.
OpenIdentity(p) ==
    /\ At(p, "identity")
    /\ IF identity = "ok" THEN Goes(p, "state") /\ UNCHANGED <<identity, lock>>
       ELSE IF identity = "none" /\ ~History
            THEN identity' = "torn" /\ Goes(p, "seed") /\ UNCHANGED lock
       ELSE Leaves(p, "failed") /\ UNCHANGED identity
    /\ UNCHANGED <<state, stable, record, target, goal, late, faults>>

WriteIdentity(p) ==
    /\ At(p, "seed")
    /\ identity' = "ok" /\ Goes(p, "state")
    /\ UNCHANGED <<lock, state, stable, record, target, goal, late, faults>>

\* Writes head h and then goes on with g.
Replaces(p, h, g) ==
    /\ target' = [target EXCEPT ![p] = h]
    /\ goal' = [goal EXCEPT ![p] = g]
    /\ Goes(p, "replace")

\* load_or_create_state.
LoadState(p) ==
    /\ At(p, "state")
    /\ IF state = NoState THEN Replaces(p, <<>>, "open")
       ELSE goal' = [goal EXCEPT ![p] = "open"] /\ Goes(p, "scan") /\ UNCHANGED target
    /\ UNCHANGED <<lock, identity, state, stable, record, late, faults>>

\* verify_record_digests holds for what is in the page cache, synced or not.
Whole(s) == record[s].st \in {"buffered", "synced"}

\* inspect_pending_record against head h: commits that link to it, and those
\* that are illegal there.
Candidates(h) == {s \in Sessions : Whole(s) /\ record[s].prev = h}
Illegal(h) ==
    {s \in Sessions : Whole(s) /\ Len(record[s].prev) >= Len(h) /\ record[s].prev # h}

\* recover_pending_records: the one candidate is advanced; two of them, or an
\* illegal one, refuse the session.
Scan(p) ==
    /\ At(p, "scan")
    /\ IF Illegal(state) # {} \/ Cardinality(Candidates(state)) > 1
       THEN Leaves(p, "conflict") /\ UNCHANGED <<target, goal>>
       ELSE /\ UNCHANGED lock
            /\ IF Candidates(state) = {} THEN Goes(p, goal[p]) /\ UNCHANGED <<target, goal>>
               ELSE \E s \in Candidates(state) : Replaces(p, Append(state, s), goal[p])
    /\ UNCHANGED <<identity, state, stable, record, late, faults>>

\* write_ledger_state_atomic: the temporary file is complete and synced, so
\* the rename is one step and the directory sync another.
Replace(p) ==
    /\ At(p, "replace")
    /\ state' = target[p] /\ Goes(p, "syncdir")
    /\ UNCHANGED <<lock, identity, stable, record, target, goal, late, faults>>

\* Mutant of SyncDirectory: the rename is not synced.
SyncDirectorySkipped(p) ==
    /\ At(p, "syncdir")
    /\ Goes(p, IF target[p] = <<>> THEN "scan" ELSE goal[p])
    /\ UNCHANGED <<lock, identity, state, stable, record, target, goal, late, faults>>

\* A genesis state is followed by the scan, like one that was there.
SyncDirectory(p) ==
    /\ At(p, "syncdir")
    /\ stable' = state
    /\ Goes(p, IF target[p] = <<>> THEN "scan" ELSE goal[p])
    /\ UNCHANGED <<lock, identity, state, record, target, goal, late, faults>>

\* The ledger is open; a session goes on to create its record.
Opened(p) ==
    /\ At(p, "open")
    /\ Leaves(p, "running")
    /\ record' = IF p = Visitor THEN record ELSE [record EXCEPT ![p].st = "open"]
    /\ UNCHANGED <<identity, state, stable, target, goal, late, faults>>

-----------------------------------------------------------------------------
(* The footer and the commit *)

\* The session ends without a joint record.
Interrupt(s) ==
    /\ At(s, "running")
    /\ Goes(s, "failed")
    /\ UNCHANGED <<lock, identity, state, stable, record, target, goal, late, faults>>

\* Mutant of BeginCommit: no recovery before the commit.
BeginCommitUnscanned(s) ==
    /\ At(s, "running") /\ lock = NoOne
    /\ lock' = s /\ Goes(s, "commit")
    /\ UNCHANGED <<identity, state, stable, record, target, goal, late, faults>>

\* begin_owned_commit: lock, fresh head, recovery.
BeginCommit(s) ==
    /\ At(s, "running") /\ lock = NoOne
    /\ lock' = s
    /\ goal' = [goal EXCEPT ![s] = "commit"] /\ Goes(s, "scan")
    /\ UNCHANGED <<identity, state, stable, record, target, late, faults>>

\* Mutant of CommitOn: the head of the session's start is committed on.
CommitOnSnapshot(s) == IF target[s] = <<>> THEN <<>> ELSE SubSeq(target[s], 1, Len(target[s]) - 1)

\* commit(): the head read under the lock.
CommitOn(s) == state

\* The writer takes the signed commit; its frame is torn until it is whole.
SendCommit(s) ==
    /\ At(s, "commit")
    /\ record' = [record EXCEPT ![s] = [st |-> "torn", prev |-> CommitOn(s)]]
    /\ Goes(s, "write")
    /\ UNCHANGED <<lock, identity, state, stable, target, goal, late, faults>>

\* run_write_ledger_commit: the commit and the digest, then the sync.
WriteCommit(s) ==
    /\ At(s, "write")
    /\ record' = [record EXCEPT ![s].st = "buffered"]
    /\ Goes(s, "sync")
    /\ UNCHANGED <<lock, identity, state, stable, target, goal, late, faults>>

SyncRecord(s) ==
    /\ At(s, "sync")
    /\ record' = [record EXCEPT ![s].st = "synced"]
    /\ Goes(s, "advance")
    /\ UNCHANGED <<lock, identity, state, stable, target, goal, late, faults>>

\* advance.
Advance(s) ==
    /\ At(s, "advance")
    /\ IF record[s].prev = state
       THEN Replaces(s, Append(state, s), "done") /\ UNCHANGED lock
       ELSE Leaves(s, "conflict") /\ UNCHANGED <<target, goal>>
    /\ UNCHANGED <<identity, state, stable, record, late, faults>>

\* finish_ledger_commit returns.
Finish(s) ==
    /\ At(s, "done") /\ lock = s
    /\ lock' = NoOne
    /\ UNCHANGED <<pc, identity, state, stable, record, target, goal, late, faults>>

-----------------------------------------------------------------------------
(* Faults *)

\* A write or a sync fails; what it wrote stays as it is.
DiskFails(p) ==
    /\ pc[p] \in {"write", "sync", "replace", "syncdir"} /\ Fault("disk")
    /\ Leaves(p, "failed")
    /\ UNCHANGED <<identity, state, stable, record, target, goal, late>>

\* drive_bound drops the finalization because the connection has gone.  The
\* lock goes with it; a commit the writer has taken stays in its thread.
Drop(s) ==
    /\ pc[s] \in {"commit", "write", "sync", "advance"} /\ Fault("drop")
    /\ Leaves(s, "failed")
    /\ late' = [late EXCEPT ![s] = pc[s] \in {"write", "sync"}]
    /\ UNCHANGED <<identity, state, stable, record, target, goal>>

LateWrite(s) ==
    /\ late[s]
    /\ record' = [record EXCEPT ![s].st = "synced"]
    /\ late' = [late EXCEPT ![s] = FALSE]
    /\ UNCHANGED <<pc, lock, identity, state, stable, target, goal, faults>>

\* The process exits, and its writer thread with it.
Exit(s) ==
    /\ late[s]
    /\ late' = [late EXCEPT ![s] = FALSE]
    /\ UNCHANGED <<pc, lock, identity, state, stable, record, target, goal, faults>>

Ended == {"failed", "conflict", "gone"}

\* A process is killed; the operating system releases its lock.
Crash(p) ==
    /\ pc[p] \notin Ended \cup {"start", "done"} /\ Fault("crash")
    /\ Leaves(p, "gone")
    /\ UNCHANGED <<identity, state, stable, record, target, goal, late>>

\* The machine loses power: every process is gone and what was not synced too.
PowerLoss ==
    /\ Fault("power")
    /\ pc' = [p \in Processes |->
                 IF p = Visitor THEN "start"
                 ELSE IF pc[p] \in Ended \cup {"start"} \/ (pc[p] = "done" /\ lock # p) THEN pc[p]
                 ELSE "gone"]
    /\ lock' = NoOne
    /\ state' = stable
    /\ record' = [s \in Sessions |->
                     IF record[s].st = "buffered" THEN [record[s] EXCEPT !.st = "torn"] ELSE record[s]]
    /\ late' = [s \in Sessions |-> FALSE]
    /\ UNCHANGED <<identity, stable, target, goal>>

-----------------------------------------------------------------------------
OpenNext(p) ==
    \/ OpenLock(p) \/ OpenIdentity(p) \/ WriteIdentity(p) \/ LoadState(p) \/ Scan(p)
    \/ Replace(p) \/ SyncDirectory(p) \/ Opened(p)

CommitNext(s) ==
    \/ BeginCommit(s) \/ SendCommit(s) \/ WriteCommit(s) \/ SyncRecord(s)
    \/ Advance(s) \/ Finish(s) \/ LateWrite(s) \/ Exit(s)

Next ==
    \/ \E p \in Processes : OpenNext(p) \/ DiskFails(p) \/ Crash(p)
    \/ \E s \in Sessions : CommitNext(s) \/ Interrupt(s) \/ Drop(s)
    \/ PowerLoss

\* A process runs to its end, and the blocking lock is handed out in the end
\* to every process that waits for it.
Fairness ==
    \A p \in Processes :
        /\ WF_vars(OpenNext(p)) /\ SF_vars(OpenLock(p))
        /\ p \in Sessions => WF_vars(CommitNext(p)) /\ SF_vars(BeginCommit(p))

Spec == Init /\ [][Next]_vars /\ Fairness

-----------------------------------------------------------------------------
(* Anchoring a record offline (verify.rs) *)

\* ledger_root_of.
Root(s) == Append(record[s].prev, s)
Sequence(s) == Len(record[s].prev) + 1

\* The directory of records is small enough to be read for a link.
Scannable == Cardinality({s \in Sessions : record[s].st # "none"}) <= MaxAnchorScan

\* find_chain_link: one intact record has the sequence, and its root is the
\* one the walk looks for; any other record there ends the walk.
LinkFound(n) ==
    LET found == {s \in Sessions : Whole(s) /\ Sequence(s) = n} IN
    /\ Scannable
    /\ Cardinality(found) = 1 /\ \A s \in found : Root(s) = SubSeq(state, 1, n)

\* ledger_continuous: the head, a commit that awaits recovery, or a walk of
\* at most MaxAnchorSteps links from the head down to the commit.
LedgerContinuous(s) ==
    \/ Sequence(s) = Len(state) + 1 /\ record[s].prev = state
    \/ /\ Sequence(s) <= Len(state) /\ Len(state) <= Sequence(s) + MaxAnchorSteps
       /\ \A n \in (Sequence(s) + 1) .. Len(state) : LinkFound(n)
       /\ Root(s) = SubSeq(state, 1, Sequence(s))

-----------------------------------------------------------------------------
(* Properties *)

Committed(chain) == {chain[i] : i \in DOMAIN chain}
Reported(s) == pc[s] = "done"
Dropped == \E i \in DOMAIN faults : faults[i] = "drop"

\* Any one crash, power loss, disk failure or dropped finalization, wherever
\* it falls among concurrent commits, leaves a ledger whose recovery never
\* refuses a process: at most one record is pending, and it links to the head
\* (ledger.rs, recover_pending_records and advance).
NeverConflicts == \A p \in Processes : pc[p] # "conflict"

\* The caps of the anchor walk reach the commit of s.
InReach(s) ==
    /\ Len(state) <= Sequence(s) + MaxAnchorSteps
    /\ Len(state) > Sequence(s) => Scannable

\* A record whose commit was reported stays on the chain of its machine's
\* ledger ever after, while other processes commit, crash and recover, or the
\* power fails (ledger.rs: the state is advanced after the record's sync and
\* synced before advance returns); and the verifier finds it there whenever
\* its caps reach that far, and only then (verify.rs, ledger_continuous).  A
\* dropped finalization is left out: its record may be written late and take
\* the sequence of another.
ReportedIsAnchored ==
    \A s \in Sessions : Reported(s) /\ ~Dropped =>
        /\ record[s].st = "synced" /\ state # NoState
        /\ Sequence(s) <= Len(state) /\ Root(s) = SubSeq(state, 1, Sequence(s))
        /\ LedgerContinuous(s) <=> InReach(s)

\* A whole record whose process died before it advanced the ledger is
\* committed by a later process (ledger.rs, recover_pending_records), unless
\* a dropped finalization left it to be written late.
PendingIsRecovered ==
    \A s \in Sessions :
        record[s].st = "synced" /\ identity = "ok" ~> s \in Committed(state) \/ Dropped

-----------------------------------------------------------------------------
(* Stated by the repository and not met by the code *)

\* ledger.rs, inspect_pending_record on a sequence at or before the head:
\* "Already committed; nothing to do."
OlderIsCommitted ==
    \A s \in Sessions : Whole(s) /\ state # NoState /\ Len(record[s].prev) < Len(state) =>
        state[Len(record[s].prev) + 1] = s

\* session-audit.md: the record is synced before the ledger is advanced.
RecordSyncedFirst ==
    \A s \in Sessions : s \in Committed(stable) => record[s].st = "synced"

\* identity.rs, audit_history_exists: "a failed first run can safely retry."
FirstRunRetries ==
    ~(identity = "torn" /\ lock = NoOne)
=============================================================================
