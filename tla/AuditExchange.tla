---------------------------- MODULE AuditExchange ----------------------------
(***************************************************************************)
(* The observer of one endpoint (crates/yon/src/audit/observer.rs,         *)
(* AuditObserver): its AuditSession, the pending acknowledgement, the      *)
(* writer, and the frames of the audit substream.  The operators are what  *)
(* the methods return and leave behind; the actions that call them are in  *)
(* TerminalSession.                                                        *)
(***************************************************************************)
EXTENDS AuditSession

CONSTANTS
    Controller,
    Host

ASSUME ExchangeAssumption == Controller # Host

Ends == {Controller, Host}
Peer(e) == IF e = Controller THEN Host ELSE Controller

VARIABLES
    obs,        \* AuditCore per endpoint
    frames,     \* frames[e]: the audit substream towards e, in order
    connected,  \* the authenticated connection is up
    stage,      \* how far the owner of the session has come
    result,     \* what the session returns
    reason,     \* the shared close reason, once conveyed
    ending,     \* ManifestEnding the owner closes with
    fin,        \* close_and_finalize: own final checkpoint sent, peer's seen, manifests
    raised,     \* history: audit errors raised by the exchange
    did         \* history: effects and faults so far

\* Without a stall a wait only times out when nothing can arrive any more.
MayStall == "stall" \in did.faults

finVars == <<stage, result, reason, ending, fin, raised>>

Frame(kind, body) == [kind |-> kind, body |-> body]

\* AuditCore as establish() leaves it.  The writer is "ok", "failed" or, after
\* the footer, "finished"; file counts what it has appended, and noted is set
\* when it took the failure-close records.
NewObserver ==
    [ s |-> NewSession, awaiting |-> FALSE, writer |-> "ok", noted |-> FALSE,
      file |-> [input |-> 0, output |-> 0, control |-> 0] ]

NoManifest == [snapshot |-> <<>>, ending |-> "none", confirmed |-> 0]
NotFinal == [sent |-> FALSE, seen |-> FALSE, own |-> NoManifest, peer |-> NoManifest]

\* The substream while the connection is up; a frame written later is lost.
Posted(f, e, sent) ==
    IF connected THEN [f EXCEPT ![Peer(e)] = @ \o sent] ELSE f
Post(e, sent) == Posted(frames, e, sent)
Taken(e) == [frames EXCEPT ![e] = Tail(@)]

\* append_batch of what a recording step committed.
Appended(o) ==
    IF o.writer = "ok"
    THEN [o EXCEPT !.file = [ input   |-> Recorded(o.s.input),
                              output  |-> Recorded(o.s.output),
                              control |-> Len(o.s.control) ]]
    ELSE o

-----------------------------------------------------------------------------
(* Recording and failing closed *)

FailNotices == <<Frame("error", "audit"), Frame("notice", "AuditFailure")>>

\* fail_closed_records and their append, unless the session failed before.
FailObserver(o) ==
    IF o.s.phase = "Failed" THEN o
    ELSE [o EXCEPT !.s = FailClosed(@), !.noted = (o.writer = "ok")]

\* Mutant of RecordOk: the result of append_batch is not looked at.
RecordIgnoresWriter(o) == Recordable(o.s)

\* What record() needs to return Ok.
RecordOk(o) == Recordable(o.s) /\ o.writer = "ok"

\* record(): the session advances, then the batch is appended; if either
\* fails the session fails closed.  next is the session after the step.
Record(o, next) ==
    IF RecordOk(o) THEN Appended([o EXCEPT !.s = next])
    ELSE FailObserver([o EXCEPT !.s = IF Recordable(@) THEN next ELSE @])

\* The failure notice of record(), which a session that had failed omits.
RecordNotices(o) ==
    IF RecordOk(o) \/ o.s.phase = "Failed" THEN <<>> ELSE FailNotices

\* close_interrupted: reason and tail are recorded, whether the writer
\* takes them or not.
CloseInterrupted(o) ==
    IF ~Recordable(o.s) THEN o
    ELSE Appended([o EXCEPT !.s = CloseDirections(RecordControl(@, <<"close", "ConnectionLost">>))])

-----------------------------------------------------------------------------
(* Checkpoints *)

\* send_due_checkpoint: none while one awaits its acknowledgement.
CheckpointDue(o) == Recordable(o.s) /\ ~o.awaiting

\* The checkpoint is built and its exchange pending before anything is written.
SendCheckpoint(o) == [o EXCEPT !.s = BuildCheckpoint(@), !.awaiting = TRUE]

CheckpointFrame(o) == <<Frame("checkpoint", Checkpoint(o.s))>>

\* handle_checkpoint: what it returns, "none" when the checkpoint was
\* evidenced, synced and acknowledged.
CheckpointError(o, c) ==
    IF o.s.phase \notin {"Active", "Finalizing"} THEN "InvalidState"
    ELSE IF ~CheckpointAccepted(o.s, c) THEN "CheckpointMismatch"
    ELSE IF o.writer # "ok" THEN "RecordWriteFailed"
    ELSE IF ~connected THEN "Substream"
    ELSE "none"

HandleCheckpoint(o, c) ==
    IF o.s.phase \in {"Active", "Finalizing"} THEN [o EXCEPT !.s = ReceiveCheckpoint(@, c)] ELSE o

\* handle_frame on an acknowledgement: only an accepted one ends the wait.
AckError(o, c) ==
    IF o.s.phase \notin {"Active", "Finalizing"} THEN "InvalidState"
    ELSE IF ~AckAccepted(o.s, c) THEN "CheckpointMismatch"
    ELSE IF o.writer # "ok" /\ o.s.confirmedSent < c.sequence THEN "RecordWriteFailed"
    ELSE "none"

\* Mutant of HandleAck: the pending exchange is never cleared.
HandleAckStillPending(o, c) ==
    IF o.s.phase \notin {"Active", "Finalizing"} THEN o
    ELSE [o EXCEPT !.s = ReceiveAck(@, c)]

HandleAck(o, c) ==
    IF o.s.phase \notin {"Active", "Finalizing"} THEN o
    ELSE [o EXCEPT !.s = ReceiveAck(@, c), !.awaiting = IF AckAccepted(o.s, c) THEN FALSE ELSE @]

\* handle_frame: the error of one frame, and the event when there is none.
FrameError(o, f) ==
    CASE f.kind = "checkpoint" -> CheckpointError(o, f.body)
      [] f.kind = "ack" -> AckError(o, f.body)
      [] f.kind \in {"notice", "error"} -> "none"
      [] OTHER -> "InvalidState"

HandleFrame(o, f) ==
    CASE f.kind = "checkpoint" -> HandleCheckpoint(o, f.body)
      [] f.kind = "ack" -> HandleAck(o, f.body)
      [] OTHER -> o

\* The acknowledgement of a checkpoint repeats it.
FrameReply(o, f) ==
    IF f.kind = "checkpoint" /\ CheckpointError(o, f.body) = "none"
    THEN <<Frame("ack", f.body)>>
    ELSE <<>>

-----------------------------------------------------------------------------
(* close_and_finalize *)

\* Mutant of FinResult: the shell's exit code survives a failed finalization.
FinResultKept(e, error) == result[e]

\* What the session returns after a finalization error.
FinResult(e, error) == IF error = "Endpoint" THEN "lost" ELSE "audit"

\* An error ends the finalization.  The controller then fails closed
\* (audit_close_controller); the host only reports it.
FinFails(e, error, o, f) ==
    /\ obs' = [obs EXCEPT ![e] = IF e = Controller THEN FailObserver(o) ELSE o]
    /\ frames' = IF e = Controller THEN Posted(f, e, FailNotices) ELSE f
    /\ stage' = [stage EXCEPT ![e] = "done"]
    /\ result' = [result EXCEPT ![e] = FinResult(e, error)]
    /\ raised' = raised \cup {error}
    /\ UNCHANGED <<reason, ending, fin, connected>>

\* The next step of the finalization after o and f.
FinContinues(e, o, f, next) ==
    /\ obs' = [obs EXCEPT ![e] = o]
    /\ frames' = f
    /\ stage' = [stage EXCEPT ![e] = next]
    /\ UNCHANGED <<result, ending, raised, connected>>

\* CloseNoticeHandling::Sender.
FinSendNotice(e) ==
    /\ stage[e] = "notice"
    /\ IF connected
       THEN FinContinues(e, obs[e], Post(e, <<Frame("notice", reason[e])>>), "barrier")
            /\ UNCHANGED <<reason, fin>>
       ELSE FinFails(e, "Substream", obs[e], frames)

\* Running checkpoints and acknowledgements are settled wherever they arrive.
FinSettle(e, f) ==
    LET error == FrameError(obs[e], f)
    IN  IF error = "none"
        THEN /\ FinContinues(e, HandleFrame(obs[e], f),
                             Posted(Taken(e), e, FrameReply(obs[e], f)), stage[e])
             /\ UNCHANGED reason
        ELSE FinFails(e, error, HandleFrame(obs[e], f), Taken(e))

\* receive_close_reason (CloseNoticeHandling::Receiver).
FinReceiveNotice(e) ==
    /\ stage[e] = "receiver" /\ frames[e] # <<>>
    /\ LET f == Head(frames[e])
       IN  \/ /\ f.kind \in {"checkpoint", "ack"}
              /\ FinSettle(e, f) /\ UNCHANGED fin
           \/ /\ f.kind = "notice"
              /\ FinContinues(e, obs[e], Taken(e), "barrier")
              /\ reason' = [reason EXCEPT ![e] = f.body]
              /\ UNCHANGED fin
           \/ /\ f.kind = "error"
              /\ FinFails(e, "FailedClosed", obs[e], Taken(e))
           \/ /\ f.kind \in {"manifest", "signature"}
              /\ FinFails(e, "OutOfOrder", obs[e], Taken(e))

\* record_shared_close and close_directions: the shared close barrier.
FinBarrier(e) ==
    /\ stage[e] = "barrier"
    /\ LET o    == obs[e]
           next == RecordControl(o.s, <<"close", reason[e]>>)
       IN  IF RecordOk(o)
           THEN FinContinues(e, Appended([o EXCEPT !.s = CloseDirections(next)]), frames, "final")
                /\ UNCHANGED <<reason, fin>>
           ELSE FinFails(e, "RecordWriteFailed", Record(o, next), Post(e, RecordNotices(o)))

\* Mutant of FinalDue: a running checkpoint may still be unacknowledged.
FinalDueAtOnce(e) == ~fin[e].sent

\* The final checkpoint waits for the acknowledgement of a running one.
FinalDue(e) == ~fin[e].sent /\ ~obs[e].awaiting

\* The fresh final checkpoint.
FinSendFinal(e) ==
    /\ stage[e] = "final" /\ FinalDue(e)
    /\ IF obs[e].writer = "ok" /\ connected
       THEN /\ FinContinues(e, SendCheckpoint(obs[e]), Post(e, CheckpointFrame(obs[e])), "final")
            /\ fin' = [fin EXCEPT ![e].sent = TRUE]
            /\ UNCHANGED reason
       ELSE FinFails(e, IF connected THEN "RecordWriteFailed" ELSE "Substream",
                     SendCheckpoint(obs[e]), frames)

\* Both final checkpoints are settled.
Confirmed(e) == fin[e].sent /\ ~obs[e].awaiting /\ fin[e].seen

\* One frame of the checkpoint loop.  Only a checkpoint of exactly this
\* side's final snapshot is the peer's final one.
FinReadFrame(e) ==
    /\ stage[e] = "final" /\ ~FinalDue(e) /\ ~Confirmed(e)
    /\ frames[e] # <<>>
    /\ LET f     == Head(frames[e])
           exact == f.kind = "checkpoint" /\ f.body.snapshot = Snapshot(obs[e].s)
       IN  \/ /\ f.kind \in {"checkpoint", "ack"}
              /\ FinSettle(e, f)
              /\ fin' = [fin EXCEPT ![e].seen =
                            @ \/ (exact /\ FrameError(obs[e], f) = "none")]
           \/ /\ f.kind \in {"notice", "error"}
              /\ IF f = Frame("notice", reason[e])
                 THEN FinContinues(e, obs[e], Taken(e), "final") /\ UNCHANGED <<reason, fin>>
                 ELSE FinFails(e, "UnexpectedFrame", obs[e], Taken(e))
           \/ /\ f.kind \in {"manifest", "signature"}
              /\ FinFails(e, "OutOfOrder", obs[e], Taken(e))

\* build_and_send_manifest.
FinManifest(e) ==
    /\ stage[e] = "final" /\ Confirmed(e)
    /\ LET m == Manifest(obs[e].s, ending[e])
       IN  IF obs[e].writer = "ok" /\ connected
           THEN /\ FinContinues(e, obs[e],
                                Post(e, <<Frame("manifest", m), Frame("signature", m)>>), "manifest")
                /\ fin' = [fin EXCEPT ![e].own = m]
                /\ UNCHANGED reason
           ELSE FinFails(e, IF connected THEN "RecordWriteFailed" ELSE "Substream", obs[e], frames)

\* receive_peer_manifest_pair: the peer signed the identical manifest.
PairMatches(e) == fin[e].peer = fin[e].own

\* read_peer_manifest_pair, frame by frame.
FinReadPair(e) ==
    /\ stage[e] = "manifest" /\ frames[e] # <<>>
    /\ LET f == Head(frames[e])
       IN  \/ /\ f.kind \in {"checkpoint", "ack"}
              /\ FinSettle(e, f) /\ UNCHANGED fin
           \/ /\ f.kind = "manifest" /\ fin[e].peer = NoManifest
              /\ FinContinues(e, obs[e], Taken(e), "manifest")
              /\ fin' = [fin EXCEPT ![e].peer = f.body]
              /\ UNCHANGED reason
           \/ /\ f.kind = "signature" /\ fin[e].peer # NoManifest
              /\ IF PairMatches(e) /\ obs[e].writer = "ok"
                 THEN FinContinues(e, obs[e], Taken(e), "footer") /\ UNCHANGED <<reason, fin>>
                 ELSE FinFails(e, IF PairMatches(e) THEN "RecordWriteFailed" ELSE "ManifestMismatch",
                               obs[e], Taken(e))
           \/ /\ f.kind \in {"notice", "error"}
              /\ IF f.kind = "notice"
                 THEN FinContinues(e, obs[e], Taken(e), "manifest") /\ UNCHANGED <<reason, fin>>
                 ELSE FinFails(e, "UnexpectedFrame", obs[e], Taken(e))

\* drive_bound guards the exchange; a host that answers a peer's close is
\* settled without it.
Bound(e) == e = Controller \/ ending[e] = "exit"

\* write_footer_prefix, the ledger commit and its record: the session is
\* finished, and the writer takes nothing any more.
Sealed(o) == [o EXCEPT !.s = FinishLedgerCommit(@), !.writer = "finished"]

\* The footer is written on this side alone.  finish_bound_output still looks
\* at the binding: without it the finished exchange counts as lost, and the
\* controller fails its session closed behind a record that is sealed.
FinFooter(e) ==
    /\ stage[e] = "footer"
    /\ IF obs[e].writer # "ok"
       THEN FinFails(e, "RecordWriteFailed", obs[e], frames)
       ELSE IF connected \/ ~Bound(e)
            THEN FinContinues(e, Sealed(obs[e]), frames, "done") /\ UNCHANGED <<reason, fin>>
            ELSE FinFails(e, "Endpoint", Sealed(obs[e]), frames)

\* Mutant of Awaits: the checkpoint and manifest reads have no timeout.
AwaitsNotice(e) == frames[e] = <<>> /\ stage[e] = "receiver"

\* The read of the next frame is pending.
Awaits(e) ==
    /\ frames[e] = <<>>
    /\ \/ stage[e] \in {"receiver", "manifest"}
       \/ stage[e] = "final" /\ ~FinalDue(e) /\ ~Confirmed(e)

\* read_frame_timeout: nothing came within the exchange timeout, or the
\* substream ended.
FinTimeout(e) ==
    /\ Awaits(e)
    /\ ~connected \/ MayStall \/ Awaits(Peer(e)) \/ stage[Peer(e)] = "done"
    /\ FinFails(e, "FailedClosed", obs[e], frames)

\* drive_bound: the binding is gone before the exchange is through.
FinEndpointLost(e) ==
    /\ ~connected
    /\ stage[e] \in {"notice", "receiver", "barrier", "final", "manifest", "footer"}
    /\ Bound(e)
    /\ FinFails(e, "Endpoint", obs[e], frames)

Finalize(e) ==
    \/ FinSendNotice(e) \/ FinReceiveNotice(e) \/ FinBarrier(e) \/ FinSendFinal(e)
    \/ FinReadFrame(e) \/ FinManifest(e) \/ FinReadPair(e) \/ FinFooter(e)
    \/ FinTimeout(e) \/ FinEndpointLost(e)
=============================================================================
