----------------------------- MODULE AuditVerify -----------------------------
(***************************************************************************)
(* Offline verification of one record or of a pair (crates/yon/src/audit/  *)
(* verify.rs, verify_files).  A record is its header and the sequence of   *)
(* its frames; its footer, once begun, is the last of them.                *)
(*                                                                         *)
(* A hash is modelled by what it is taken over: the head of a chain of     *)
(* blocks by the number of blocks and of bytes, that of the control chain  *)
(* by its events, that of the local chain by the number of records, and a  *)
(* digest or a signature by what it covers.  Identities, keys and session  *)
(* ids agree, since both records are of one session.                       *)
(***************************************************************************)
EXTENDS Naturals, Sequences, SequencesExt

Streams == 1 .. 3            \* SharedStream: input, output, control
Zero == <<>>                 \* zero_head
NoBlocks == <<0, 0>>         \* the head of an empty chain of blocks
None == [sequence |-> 0, snapshot |-> <<>>, local |-> 0]
NoBatch == [open |-> FALSE, related |-> Zero, block |-> FALSE]

\* ChainVerifier::new.
NewVerifier ==
    [ ok |-> TRUE,
      shared |-> <<NoBlocks, NoBlocks, Zero>>,
      lastBlock |-> <<Zero, Zero, Zero>>,
      local |-> 0,
      batch |-> <<NoBatch, NoBatch>>,
      sent |-> None, received |-> None,
      sentAck |-> 0, receivedAck |-> 0,
      confirmedSent |-> <<None, None>>, confirmedReceived |-> <<None, None>>,
      manifest |-> <<>>, peerManifest |-> <<>> ]

Tampered(v) == [v EXCEPT !.ok = FALSE]
When(test, v, else) == IF test THEN v ELSE Tampered(else)

\* flush_input_batch, flush_output_batch: the local record of a batch names
\* the last block the batch completed.
FlushOk(v, st) ==
    LET b == v.batch[st] IN
    b.open => b.related = IF b.block THEN v.lastBlock[st] ELSE Zero
Flush(v, st) == When(FlushOk(v, st), [v EXCEPT !.batch[st] = NoBatch], v)
FlushBatches(v) == Flush(Flush(v, 1), 2)

\* process_shared_*: the event is the next one of its chain.
CountOf(st, head) == IF st = 3 THEN Len(head) ELSE head[1]
ChainsOn(v, f) ==
    /\ f.seq = CountOf(f.st, v.shared[f.st]) + 1
    /\ f.prev = v.shared[f.st]
    /\ CountOf(f.st, f.head) = f.seq
Blocked(b) == [b EXCEPT !.block = b.block \/ b.open]
ProcessShared(v, f) ==
    LET batch == IF f.st = 3 THEN v.batch ELSE [v.batch EXCEPT ![f.st] = Blocked(v.batch[f.st])]
    IN  When(ChainsOn(v, f),
             [v EXCEPT !.shared[f.st] = f.head, !.lastBlock[f.st] = f.head, !.batch = batch], v)

\* commit_local.
CommitLocal(v) == [v EXCEPT !.local = @ + 1]

\* process_display.
ProcessDisplay(v, f) ==
    LET b == v.batch[2] IN
    When(f.related \in {v.lastBlock[2], Zero} \cup (IF b.open THEN {b.related} ELSE {}),
         CommitLocal(Flush(v, 2)), v)

\* The related head each kind of local record may carry (process_local); that
\* of a batch is checked once its blocks are there.
RelatedOk(v, f) ==
    CASE f.t \in {"LocalLifecycleEvent", "LocalCloseEvent"} -> f.related \in {v.lastBlock[3], Zero}
      [] f.t = "LocalResizeEvent" -> f.related = v.lastBlock[3]
      [] f.t \in {"LocalAuditError", "LocalConnectionState", "LocalKeyAction"} -> f.related = Zero
      [] f.t = "LocalSendOutcome" -> f.related = v.lastBlock[f.st]
      [] f.t = "LocalPtyWriteOutcome" -> f.related = v.lastBlock[1]
      [] f.t = "LocalDisplayWriteOutcome" -> f.related = v.lastBlock[2]
      [] OTHER -> TRUE

ProcessLocal(v, f) ==
    When(RelatedOk(v, f),
         [CommitLocal(v) EXCEPT !.batch =
              CASE f.t = "LocalInputCommitment" -> [@ EXCEPT ![1] = [open |-> TRUE, related |-> f.related, block |-> FALSE]]
                [] f.t = "LocalRawOutput" -> [@ EXCEPT ![2] = [open |-> TRUE, related |-> f.related, block |-> FALSE]]
                [] OTHER -> @],
         v)

\* confirm_direction keeps the last two confirmations.
Confirm(pair, c) == IF pair[1].sequence = c.sequence THEN pair ELSE <<c, pair[1]>>
ConfirmOk(pair, c) == c.sequence > pair[1].sequence \/ c = pair[1]

\* Mutant of EvidenceOk: a sent checkpoint must be newer than the last
\* acknowledged one of the other direction too.
EvidenceOkJoint(v, f) ==
    CASE f.kind = "SentCheckpoint" -> f.body.sequence = v.sent.sequence + 1 /\ f.body.sequence > v.received.sequence
      [] OTHER -> TRUE

\* process_evidence: what each kind is checked against.
EvidenceOk(v, f) ==
    CASE f.kind = "SentCheckpoint" ->
             /\ f.body.sequence = v.sent.sequence + 1
             /\ f.body.snapshot = v.shared
             /\ f.body.local = v.local
      [] f.kind = "ReceivedCheckpoint" -> f.body.sequence = v.received.sequence + 1
      [] f.kind = "SentCheckpointAck" ->
             f.body.sequence > v.sentAck /\ f.body = v.received /\ ConfirmOk(v.confirmedReceived, v.received)
      [] f.kind = "ReceivedCheckpointAck" ->
             f.body.sequence > v.receivedAck /\ f.body = v.sent /\ ConfirmOk(v.confirmedSent, v.sent)
      [] OTHER -> f.body.snapshot = v.shared          \* the manifests

ProcessEvidence(v, f) ==
    When(EvidenceOk(v, f),
         CommitLocal(
             CASE f.kind = "SentCheckpoint" -> [v EXCEPT !.sent = f.body]
               [] f.kind = "ReceivedCheckpoint" -> [v EXCEPT !.received = f.body]
               [] f.kind = "SentCheckpointAck" ->
                      [v EXCEPT !.sentAck = f.body.sequence, !.confirmedReceived = Confirm(@, v.received)]
               [] f.kind = "ReceivedCheckpointAck" ->
                      [v EXCEPT !.receivedAck = f.body.sequence, !.confirmedSent = Confirm(@, v.sent)]
               [] f.kind = "SentManifest" -> [v EXCEPT !.manifest = <<f.body>>]
               [] f.kind = "ReceivedManifest" -> [v EXCEPT !.peerManifest = <<f.body>>]),
         v)

\* process_frame.  A block does not end the batches, everything else does.
ProcessFrame(v, f) ==
    IF ~v.ok THEN v
    ELSE CASE f.t = "Shared" /\ f.st # 3 -> ProcessShared(v, f)
           [] f.t = "Shared" /\ f.st = 3 -> ProcessShared(FlushBatches(v), f)
           [] f.t = "LocalDisplayBytes" -> ProcessDisplay(v, f)
           [] f.t = "CheckpointEvidence" -> ProcessEvidence(FlushBatches(v), f)
           [] OTHER -> ProcessLocal(FlushBatches(v), f)

\* The footer, once begun, and the record without it, which starts with the
\* header.
Begun(record) == record # <<>> /\ Last(record).t = "Footer"
Framed(record) == IF Begun(record) THEN Front(record) ELSE record
Frames(record) == SubSeq(Framed(record), 2, Len(Framed(record)))

Larger(m, n) == IF m >= n THEN m ELSE n

\* verify_footer, on a footer that has all its parts.
FooterOk(v, f) ==
    /\ f.manifest.snapshot = v.shared
    /\ f.manifest.confirmed = Larger(v.confirmedSent[1].sequence, v.confirmedReceived[1].sequence)
    /\ f.local = v.local
    /\ f.roots = v.shared
    /\ v.manifest # <<>> => v.manifest[1] = f.manifest

\* verify_manifest_evidence.
ManifestsOk(v) ==
    v.manifest # <<>> /\ v.peerManifest # <<>> => v.manifest = v.peerManifest

\* ChainVerifier over every frame, without the end of the walk.
Chained(record) == FoldLeft(ProcessFrame, NewVerifier, Frames(record))

\* FrameWalker::open and skip_header: what has no header is no container.
IsContainer(record) == record # <<>> /\ record[1].t = "Header"

\* walk_file.  torn is what is left of a last frame that is cut off: nothing,
\* less than the shortest footer, or at least that much, which decode_footer
\* then refuses as a footer.
Whole(record) == Begun(record) /\ Last(record).parts = 3
WalkFile(record, torn) ==
    LET v == FlushBatches(Chained(record)) IN
    [v EXCEPT !.ok = /\ @
                     /\ IsContainer(record)
                     /\ torn # "long"
                     /\ Whole(record) => FooterOk(v, Last(record))
                     /\ ManifestsOk(v)]

-----------------------------------------------------------------------------
(* Pairs *)

\* common_direction: the confirmations the two records have in common.
CommonDirection(sender, receiver) ==
    {c \in {sender[1], sender[2]} : c # None /\ c \in {receiver[1], receiver[2]}}

\* It has to find one unless either side has confirmed nothing.
DirectionMatches(sender, receiver) ==
    sender[1] = None \/ receiver[1] = None \/ CommonDirection(sender, receiver) # {}

ConfirmationsMatch(c, h) ==
    /\ DirectionMatches(c.confirmedSent, h.confirmedReceived)
    /\ DirectionMatches(h.confirmedSent, c.confirmedReceived)

Latest(set) == CHOOSE c \in set : \A d \in set : d.sequence <= c.sequence

\* snapshot_is_prefix: the record passes through all the snapshot's heads.
HeadsOf(record, st) ==
    {NewVerifier.shared[st]}
        \cup {f.head : f \in {g \in ToSet(Framed(record)) : g.t = "Shared" /\ g.st = st}}
SnapshotIsPrefix(record, snapshot) == \A st \in Streams : snapshot[st] \in HeadsOf(record, st)

CommonIsPrefix(common, crecord, hrecord) ==
    common # {} =>
        /\ SnapshotIsPrefix(crecord, Latest(common).snapshot)
        /\ SnapshotIsPrefix(hrecord, Latest(common).snapshot)

FooterManifest(record) == Last(record).manifest

\* Mutant of FootersAgree: the seals are compared too.
FootersIdentical(crecord, hrecord) == Last(crecord) = Last(hrecord)

\* Complete records: the manifest bytes are compared.
FootersAgree(crecord, hrecord) == FooterManifest(crecord) = FooterManifest(hrecord)

\* A complete record against the manifest evidence of an interrupted one.
EvidenceAgrees(complete, interrupted) ==
    Whole(complete) /\ interrupted.manifest # <<>> => interrupted.manifest[1] = FooterManifest(complete)

\* verify_walk_pair: VERIFIED_COMPLETE and CONSISTENT_COMPLETE_UNANCHORED,
\* which only the local ledger tells apart, are both "complete".
Verdict(crecord, hrecord) ==
    LET c == WalkFile(crecord, "none")
        h == WalkFile(hrecord, "none")
    IN  IF ~c.ok \/ ~h.ok THEN "TAMPERED"
        ELSE IF Whole(crecord) /\ Whole(hrecord)
        THEN IF FootersAgree(crecord, hrecord) THEN "complete" ELSE "MISMATCH"
        ELSE IF /\ ConfirmationsMatch(c, h)
                /\ CommonIsPrefix(CommonDirection(c.confirmedSent, h.confirmedReceived), crecord, hrecord)
                /\ CommonIsPrefix(CommonDirection(h.confirmedSent, c.confirmedReceived), crecord, hrecord)
                /\ EvidenceAgrees(crecord, h) /\ EvidenceAgrees(hrecord, c)
             THEN "MATCHED_INTERRUPTED_PREFIX" ELSE "MISMATCH"
=============================================================================
