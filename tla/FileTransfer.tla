---------------------------- MODULE FileTransfer ----------------------------
(***************************************************************************)
(* One native file transfer over one substream (crates/yon/src/transfer.rs *)
(* with the file system side of file_semantics.rs): the controller's       *)
(* run_upload/run_download and the host's handle_upload/handle_download,   *)
(* run against each other over a stream that may stall, break or stop in   *)
(* the middle of a frame, with cancellation from either end and the audit  *)
(* records of an enterprise session around it.                             *)
(*                                                                         *)
(* A side is at one await of its handler.  A frame is written and recorded *)
(* in the WireSession in one step; a write that fails may have delivered   *)
(* nothing, a part of the frame (Cut) or all of it.  File contents are     *)
(* sequences of blocks, a block being the version of the source it was     *)
(* read from, and a digest is the content it was computed from.            *)
(***************************************************************************)
EXTENDS Naturals, Sequences, FiniteSets, FileWire

CONSTANTS
    Sessions,    \* the sessions: sides of another implementation, audited or not
    MaxBlocks,   \* bound: blocks of the source file
    MaxFaults,   \* bound: foreign sides, stalls, broken streams, file and audit failures
    MaxQueue     \* bound: frames a foreign side has under way

ASSUME TransferAssumption ==
    /\ Sessions \subseteq [foreign : SUBSET Sides, audited : BOOLEAN]
    /\ MaxBlocks \in Nat /\ MaxFaults \in Nat /\ MaxQueue \in Nat

VARIABLES
    dir,       \* TransferDirection
    pc,        \* the await each side's handler is at
    wire,      \* WireSession state of each side
    chan,      \* frames on their way to each side
    cancel,    \* each side's cancel flag
    out,       \* TransferOutcome of each side
    src,       \* the source file as it is now
    opened,    \* TransferSource: identity recorded when the source was opened
    sent,      \* blocks read, hashed and sent by the sender
    declared,  \* size the receiver was told by UploadOpen or DownloadOffer
    temp,      \* the receiver's private temporary file
    finish,    \* the Finish frame the receiver is verifying
    target,    \* the final path: absent, another object, or the file
    stored,    \* content published under the final path
    audit,     \* AuditObserver of each side: off, ok, failed
    facts,     \* TransferAuditFacts: started and digest
    end,       \* terminal record of each side
    faults     \* failures so far

sideVars == <<pc, wire, chan, cancel, out>>
sourceVars == <<src, opened, sent>>
targetVars == <<declared, temp, finish, target, stored>>
auditVars == <<audit, facts, end>>
vars == <<dir, sideVars, sourceVars, targetVars, auditVars, faults>>

Peer(s) == IF s = "controller" THEN "host" ELSE "controller"
Sender == IF dir = "upload" THEN "controller" ELSE "host"
Receiver == Peer(Sender)

-----------------------------------------------------------------------------
(* Frames, outcomes and records *)

Codes == {"Busy", "InvalidRequest", "Cancelled", "SessionClosing", "File"}
Outcome(kind) == [kind |-> kind, code |-> "none"]
Failed(code) == [kind |-> "Failed", code |-> code]
Kinds == {"none", "Committed", "CommittedUnconfirmed", "CommitStatusUnknown",
          "AuditFailed", "AuditFailedBeforeCommit", "Cancelled", "NotServed"}
Bare(tag) == [tag |-> tag]
Sized(tag, n) == [tag |-> tag, size |-> n]
Data(block) == [tag |-> "Data", block |-> block]
Finish(n, digest) == [tag |-> "Finish", size |-> n, digest |-> digest]
Error(code) == [tag |-> "Error", code |-> code]
Cut == [tag |-> "Cut"]

\* What a foreign side may send: two blocks that differ, and their contents.
Blocks == {0, 1}
Contents == UNION {[1 .. n -> Blocks] : n \in 0 .. MaxBlocks}
Frames ==
    {Bare(t) : t \in {"DownloadOpen", "Ready", "Committed", "Cancel", "Cut"}}
    \cup {Sized(t, n) : t \in {"UploadOpen", "DownloadOffer"}, n \in 0 .. MaxBlocks}
    \cup {Data(b) : b \in Blocks}
    \cup {Finish(n, d) : n \in 0 .. MaxBlocks, d \in Contents}
    \cup {Error(c) : c \in Codes}

\* No content: a version no block has.
NoFile == <<MaxFaults + 1>>
NoFinish == Bare("none")
NoRecord == [kind |-> "none", code |-> "none", digest |-> FALSE]

FirstStage(s) == IF s = "controller" THEN "start" ELSE "awaitOpen"
OpenTag == IF dir = "upload" THEN "UploadOpen" ELSE "DownloadOpen"

FtInit ==
    /\ dir \in Directions
    /\ \E session \in Sessions :
           /\ pc = [s \in Sides |-> IF s \in session.foreign THEN "foreign" ELSE FirstStage(s)]
           /\ audit = [s \in Sides |-> IF session.audited THEN "ok" ELSE "off"]
           /\ faults = Cardinality(session.foreign)
    /\ wire = [s \in Sides |-> "AwaitingOpen"]
    /\ chan = [s \in Sides |-> <<>>]
    /\ cancel = [s \in Sides |-> FALSE]
    /\ out = [s \in Sides |-> Outcome("none")]
    /\ \E n \in 0 .. MaxBlocks : src = [version |-> 0, size |-> n]
    /\ opened = src
    /\ sent = <<>>
    /\ declared = 0
    /\ temp = NoFile
    /\ finish = NoFinish
    /\ target = "absent"
    /\ stored = NoFile
    /\ facts = [s \in Sides |-> [started |-> FALSE, digest |-> FALSE]]
    /\ end = [s \in Sides |-> NoRecord]

-----------------------------------------------------------------------------
(* The stream *)

Fault ==
    /\ faults < MaxFaults
    /\ faults' = faults + 1

\* Nobody reads what is written to a side that has left its state machine, or
\* to a foreign one, of which the model only keeps what it sends.
Listening(s) == pc[s] \notin {"settled", "end", "foreign"}
Delivered(s, fs) == IF Listening(s) THEN chan[s] \o fs ELSE chan[s]

\* A peer that is gone, or need not go on: nothing it does keeps s from waiting.
Absent(s) == pc[s] \in {"end", "foreign"}

First(s) == Head(chan[s])
Reads(s, tags) ==
    /\ chan[s] # <<>>
    /\ First(s).tag \in tags

\* Mutant of ReadFails: EOF and the deadline go unnoticed.
ReadFailsBroken(s, code) ==
    \/ Fault /\ code = "SessionClosing"
    \/ Reads(s, {"Cut"}) /\ code = "InvalidRequest" /\ UNCHANGED faults

\* read_frame fails: a deadline or a broken stream, EOF once the peer has
\* dropped the stream, or a frame that stops in the middle.
ReadFails(s, code) ==
    \/ Fault /\ code = "SessionClosing"
    \/ /\ chan[s] = <<>> /\ Absent(Peer(s))
       /\ code = "SessionClosing" /\ UNCHANGED faults
    \/ /\ Reads(s, {"Cut"})
       /\ code = "InvalidRequest" /\ UNCHANGED faults

\* A notification nobody waits for arrives, is lost or breaks off.
Attempt(f) == {<<f>>, <<>>, <<Cut>>}

\* best_effort_send: a frame the WireSession refuses is not written.
BestEffort(s, f) == IF MaySend(dir, s, wire[s], f.tag) THEN Attempt(f) ELSE {<<>>}

\* The handler of s leaves its state machine with outcome o, having written
\* the frames fs; the drop guard of the receiver's temporary file removes it.
Ends(s, o, fs) ==
    /\ out' = [out EXCEPT ![s] = o]
    /\ pc' = [pc EXCEPT ![s] = "settled"]
    /\ wire' = [wire EXCEPT ![s] = IF o.kind = "Committed" THEN "Committed" ELSE "Closed"]
    /\ temp' = IF s = Receiver THEN NoFile ELSE temp
    /\ chan' = [x \in Sides |-> IF x = s THEN <<>> ELSE Delivered(x, fs)]

\* fail_local: the Error is written whatever the WireSession says, unless the
\* failure has no wire code.
FailLocal(s) == \E fs \in Attempt(Error("File")) : Ends(s, Failed("File"), fs)

\* The frame a writing stage writes.
OpenFrame == IF dir = "upload" THEN Sized(OpenTag, opened.size) ELSE Bare(OpenTag)

Frame(s) ==
    CASE pc[s] = "start"  -> OpenFrame
      [] pc[s] = "offer"  -> Sized("DownloadOffer", opened.size)
      [] pc[s] = "ready"  -> Bare("Ready")
      [] pc[s] = "stream" -> Data(src.version)
      [] pc[s] = "finish" -> Finish(Len(sent), sent)
      [] pc[s] = "ack"    -> Bare("Committed")

\* write_frame_bounded succeeds and the handler continues at next.
Written(s, next) ==
    /\ ~cancel[s]
    /\ MaySend(dir, s, wire[s], Frame(s).tag)
    /\ wire' = [wire EXCEPT ![s] = SentState(dir, s, wire[s], Frame(s).tag)]
    /\ chan' = [chan EXCEPT ![Peer(s)] = Delivered(Peer(s), <<Frame(s)>>)]
    /\ pc' = [pc EXCEPT ![s] = next]

\* record_received accepts the frame and the handler continues at next.
Received(s, next) ==
    /\ MayReceive(dir, s, wire[s], First(s).tag)
    /\ wire' = [wire EXCEPT ![s] = ReceivedState(dir, s, wire[s], First(s).tag)]
    /\ chan' = [chan EXCEPT ![s] = Tail(chan[s])]
    /\ pc' = [pc EXCEPT ![s] = next]

-----------------------------------------------------------------------------
(* Opening the transfer *)

SendOpen(s) ==
    /\ pc[s] = "start"
    /\ Written(s, IF dir = "upload" THEN "audit" ELSE "awaitOffer")
    /\ UNCHANGED <<dir, cancel, out, sourceVars, targetVars, auditVars, faults>>

\* The host's coordinator has read the open frame and starts the handler,
\* which looks at the cancel flag first.
Serve(s) ==
    /\ pc[s] = "awaitOpen"
    /\ Reads(s, {OpenTag})
    /\ IF cancel[s]
       THEN /\ Ends(s, Outcome("Cancelled"), <<>>)
            /\ UNCHANGED declared
       ELSE /\ Received(s, IF dir = "upload" THEN "audit" ELSE "openSource")
            /\ declared' = IF dir = "upload" THEN First(s).size ELSE declared
            /\ UNCHANGED <<out, temp>>
    /\ UNCHANGED <<dir, cancel, sourceVars, finish, target, stored, auditVars, faults>>

\* The coordinator answers Busy, has no base directory, or gets no open frame.
Refuse(s) ==
    /\ pc[s] = "awaitOpen"
    /\ \/ \E code \in Codes : ReadFails(s, code) /\ Ends(s, Outcome("NotServed"), <<>>)
       \/ /\ Reads(s, Tags \ {OpenTag})
          /\ Ends(s, Outcome("NotServed"), <<>>)
          /\ UNCHANGED faults
       \/ /\ Fault
          /\ \E fs \in Attempt(Error("Busy")) : Ends(s, Outcome("NotServed"), fs)
    /\ UNCHANGED <<dir, cancel, sourceVars, declared, finish, target, stored, auditVars>>

\* record_transfer_start: a failed append ends the transfer.
AfterAudit(s) ==
    IF s = Receiver THEN "prepare" ELSE IF dir = "upload" THEN "awaitReady" ELSE "offer"

AuditStart(s) ==
    /\ pc[s] = "audit"
    /\ IF audit[s] = "failed"
       THEN /\ Ends(s, Outcome("AuditFailedBeforeCommit"), <<>>)
            /\ UNCHANGED facts
       ELSE /\ pc' = [pc EXCEPT ![s] = AfterAudit(s)]
            /\ facts' = [facts EXCEPT ![s].started = (audit[s] = "ok")]
            /\ UNCHANGED <<wire, chan, out, temp>>
    /\ UNCHANGED <<dir, cancel, sourceVars, declared, finish, target, stored, audit, end, faults>>

\* The host of a download opens the source and announces it.
OpenSource(s) ==
    /\ pc[s] = "openSource"
    /\ \/ /\ opened' = src
          /\ pc' = [pc EXCEPT ![s] = "audit"]
          /\ UNCHANGED <<wire, chan, out, temp, faults>>
       \/ Fault /\ FailLocal(s) /\ UNCHANGED opened
    /\ UNCHANGED <<dir, cancel, src, sent, declared, finish, target, stored, auditVars>>

SendOffer(s) ==
    /\ pc[s] = "offer"
    /\ Written(s, "awaitReady")
    /\ UNCHANGED <<dir, cancel, out, sourceVars, targetVars, auditVars, faults>>

OfferArrives(s) ==
    /\ pc[s] = "awaitOffer"
    /\ Reads(s, {"DownloadOffer"})
    /\ Received(s, "audit")
    /\ declared' = First(s).size
    /\ UNCHANGED <<dir, cancel, out, sourceVars, temp, finish, target, stored, auditVars, faults>>

\* resolve_destination refuses an existing target; create_temp.
Prepare(s) ==
    /\ pc[s] = "prepare"
    /\ \/ /\ target = "absent"
          /\ temp' = <<>>
          /\ pc' = [pc EXCEPT ![s] = "ready"]
          /\ UNCHANGED <<wire, chan, out, faults>>
       \/ target # "absent" /\ FailLocal(s) /\ UNCHANGED faults
       \/ Fault /\ FailLocal(s)
    /\ UNCHANGED <<dir, cancel, sourceVars, declared, finish, target, stored, auditVars>>

SendReady(s) ==
    /\ pc[s] = "ready"
    /\ Written(s, "receive")
    /\ UNCHANGED <<dir, cancel, out, sourceVars, targetVars, auditVars, faults>>

ReadyArrives(s) ==
    /\ pc[s] = "awaitReady"
    /\ Reads(s, {"Ready"})
    /\ Received(s, "stream")
    /\ UNCHANGED <<dir, cancel, out, sourceVars, targetVars, auditVars, faults>>

-----------------------------------------------------------------------------
(* The data *)

\* read_block and write_frame_bounded of one block, never beyond the size
\* recorded when the source was opened.
SendBlock(s) ==
    /\ pc[s] = "stream"
    /\ Len(sent) < opened.size
    /\ Len(sent) < src.size
    /\ Written(s, "stream")
    /\ sent' = Append(sent, src.version)
    /\ UNCHANGED <<dir, cancel, out, src, opened, targetVars, auditVars, faults>>

\* The source ends early or cannot be read.
SourceFails(s) ==
    /\ pc[s] = "stream"
    /\ \/ Len(sent) < opened.size /\ src.size <= Len(sent) /\ UNCHANGED faults
       \/ Fault
    /\ FailLocal(s)
    /\ UNCHANGED <<dir, cancel, sourceVars, declared, finish, target, stored, auditVars>>

\* recheck_source compares the identity of the open source with the recorded one.
Unchanged == src = opened

RecheckSource(s) ==
    /\ pc[s] = "stream"
    /\ Len(sent) = opened.size
    /\ IF Unchanged
       THEN /\ pc' = [pc EXCEPT ![s] = "finish"]
            /\ UNCHANGED <<wire, chan, out, temp>>
       ELSE FailLocal(s)
    /\ UNCHANGED <<dir, cancel, sourceVars, declared, finish, target, stored, auditVars, faults>>

SendFinish(s) ==
    /\ pc[s] = "finish"
    /\ Written(s, "awaitCommitted")
    /\ facts' = [facts EXCEPT ![s].digest = TRUE]
    /\ UNCHANGED <<dir, cancel, out, sourceVars, targetVars, audit, end, faults>>

\* write_block of one block into the temporary file.
DataArrives(s) ==
    /\ pc[s] = "receive"
    /\ Reads(s, {"Data"})
    /\ MayReceive(dir, s, wire[s], "Data")
    /\ \/ /\ Received(s, "receive")
          /\ temp' = Append(temp, First(s).block)
          /\ UNCHANGED <<out, faults>>
       \/ Fault /\ FailLocal(s)
    /\ UNCHANGED <<dir, cancel, sourceVars, declared, finish, target, stored, auditVars>>

FinishArrives(s) ==
    /\ pc[s] = "receive"
    /\ Reads(s, {"Finish"})
    /\ Received(s, "seal")
    /\ finish' = First(s)
    /\ UNCHANGED <<dir, cancel, out, sourceVars, declared, temp, target, stored, auditVars, faults>>

\* Mutant of Verified: the digest is not compared.
VerifiedSizes == finish.size = declared /\ Len(temp) = declared

\* verify_finish, after the size of Finish has been compared with the open's.
Verified ==
    /\ finish.size = declared
    /\ Len(temp) = declared
    /\ finish.digest = temp

Seal(s) ==
    /\ pc[s] = "seal"
    /\ \/ /\ Verified
          /\ pc' = [pc EXCEPT ![s] = "commit"]
          /\ UNCHANGED <<wire, chan, out, temp, faults>>
       \/ ~Verified /\ FailLocal(s) /\ UNCHANGED faults
       \/ Fault /\ FailLocal(s)
    /\ UNCHANGED <<dir, cancel, sourceVars, declared, finish, target, stored, auditVars>>

\* persist_noclobber.
Vacant == target = "absent"

Commit(s) ==
    /\ pc[s] = "commit"
    /\ \/ /\ Vacant
          /\ target' = "file"
          /\ stored' = temp
          /\ temp' = NoFile
          /\ facts' = [facts EXCEPT ![s].digest = TRUE]
          /\ pc' = [pc EXCEPT ![s] = "ack"]
          /\ UNCHANGED <<wire, chan, out, faults>>
       \/ ~Vacant /\ FailLocal(s) /\ UNCHANGED <<target, stored, facts, faults>>
       \/ Fault /\ FailLocal(s) /\ UNCHANGED <<target, stored, facts>>
    /\ UNCHANGED <<dir, cancel, sourceVars, declared, finish, audit, end>>

Acknowledge(s) ==
    /\ pc[s] = "ack"
    /\ ~cancel[s]
    /\ MaySend(dir, s, wire[s], "Committed")
    /\ Ends(s, Outcome("Committed"), <<Bare("Committed")>>)
    /\ UNCHANGED <<dir, cancel, sourceVars, declared, finish, target, stored, auditVars, faults>>

\* The sender learns the result of its Finish.
CommittedArrives(s) ==
    /\ pc[s] = "awaitCommitted"
    /\ Reads(s, {"Committed"})
    /\ MayReceive(dir, s, wire[s], "Committed")
    /\ Ends(s, Outcome("Committed"), <<>>)
    /\ UNCHANGED <<dir, cancel, sourceVars, declared, finish, target, stored, auditVars, faults>>

\* Anything but Committed and Error leaves the commit status unknown.
Uncertain(s) == IF pc[s] = "awaitCommitted" THEN Tags \ {"Committed", "Error"} ELSE {}

CommitUncertain(s) ==
    /\ pc[s] = "awaitCommitted"
    /\ \/ \E code \in Codes : ReadFails(s, code)
       \/ (cancel[s] \/ Reads(s, Uncertain(s))) /\ UNCHANGED faults
    /\ Ends(s, Outcome("CommitStatusUnknown"), <<>>)
    /\ UNCHANGED <<dir, cancel, sourceVars, declared, finish, target, stored, auditVars>>

-----------------------------------------------------------------------------
(* Ways a transfer ends early *)

Reading == {"awaitOffer", "awaitReady", "receive"}

Expected(s) ==
    CASE pc[s] = "awaitOffer" -> {"DownloadOffer"}
      [] pc[s] = "awaitReady" -> {"Ready"}
      [] pc[s] = "receive"    -> {"Data", "Finish"}
      [] pc[s] = "awaitCommitted" -> {"Committed"}

StreamFails(s) ==
    /\ pc[s] \in Reading
    /\ \E code \in Codes : ReadFails(s, code) /\ Ends(s, Failed(code), <<>>)
    /\ UNCHANGED <<dir, cancel, sourceVars, declared, finish, target, stored, auditVars>>

PeerFails(s) ==
    /\ pc[s] \in Reading \cup {"awaitCommitted"}
    /\ Reads(s, {"Error"})
    /\ MayReceive(dir, s, wire[s], "Error")
    /\ Ends(s, Failed(First(s).code), <<>>)
    /\ UNCHANGED <<dir, cancel, sourceVars, declared, finish, target, stored, auditVars, faults>>

\* A Cancel is answered before it is recorded.
PeerCancels(s) ==
    /\ pc[s] \in Reading
    /\ Reads(s, {"Cancel"})
    /\ MayReceive(dir, s, wire[s], "Cancel")
    /\ \E fs \in BestEffort(s, Error("Cancelled")) : Ends(s, Outcome("Cancelled"), fs)
    /\ UNCHANGED <<dir, cancel, sourceVars, declared, finish, target, stored, auditVars, faults>>

\* protocol_violation: a frame this stage does not expect or the WireSession
\* refuses; after Finish, an unexpected frame is CommitUncertain.
Handled(s) ==
    {t \in Expected(s) \cup {"Error", "Cancel"} : MayReceive(dir, s, wire[s], t)}

PeerViolates(s) ==
    /\ pc[s] \in Reading \cup {"awaitCommitted"}
    /\ Reads(s, Tags \ (Handled(s) \cup Uncertain(s)))
    /\ Ends(s, Failed("InvalidRequest"), <<>>)
    /\ UNCHANGED <<dir, cancel, sourceVars, declared, finish, target, stored, auditVars, faults>>

\* The cancel flag is seen by a read, or before the next block is read.
LocalCancel(s) ==
    /\ pc[s] \in Reading \cup {"stream"}
    /\ cancel[s]
    /\ LET notice == IF s = "controller" THEN Bare("Cancel") ELSE Error("SessionClosing")
       IN \E fs \in BestEffort(s, notice) : Ends(s, Outcome("Cancelled"), fs)
    /\ UNCHANGED <<dir, cancel, sourceVars, declared, finish, target, stored, auditVars, faults>>

\* write_frame_bounded fails: the cancel flag was set before the frame or is
\* raised during it, or the stream breaks or stalls past the deadline.  Once
\* a byte was accepted the frame may arrive not at all, in part or whole.
Writing == {"start", "offer", "ready", "stream", "finish", "ack"}

\* Mutant of WriteFailure: a Finish that was begun counts as not sent.
WriteFailureFinish(s, why, started) ==
    IF pc[s] = "ack" THEN Outcome("CommittedUnconfirmed")
    ELSE IF why = "cancelled" THEN Outcome("Cancelled")
    ELSE Failed("SessionClosing")

\* send_failure, finish_send_failure and committed_ack_failure.
WriteFailure(s, why, started) ==
    IF pc[s] = "ack" THEN Outcome("CommittedUnconfirmed")
    ELSE IF pc[s] = "finish" /\ started THEN Outcome("CommitStatusUnknown")
    ELSE IF why = "cancelled" THEN Outcome("Cancelled")
    ELSE Failed("SessionClosing")

\* A host that is cancelled before a block tells the controller (LocalCancel).
WriteCancelled(s, started) ==
    /\ \/ cancel[s] /\ ~started
       \/ ~cancel[s]
    /\ ~(s = "host" /\ pc[s] = "stream" /\ ~started)
    /\ cancel' = [cancel EXCEPT ![s] = TRUE]
    /\ UNCHANGED faults

WriteLost(s) ==
    /\ ~cancel[s]
    /\ \/ Fault
       \/ Absent(Peer(s)) /\ UNCHANGED faults
    /\ UNCHANGED cancel

WriteFails(s) ==
    /\ pc[s] \in Writing
    /\ pc[s] = "stream" => Len(sent) < opened.size /\ Len(sent) < src.size
    /\ \E started \in BOOLEAN, why \in {"cancelled", "lost"} :
        /\ IF why = "cancelled" THEN WriteCancelled(s, started) ELSE WriteLost(s)
        /\ \E fs \in IF started THEN Attempt(Frame(s)) ELSE {<<>>} :
               Ends(s, WriteFailure(s, why, started), fs)
    /\ UNCHANGED <<dir, sourceVars, declared, finish, target, stored, auditVars>>

\* A name the frame cannot carry: WriteFrameError::Protocol.
EncodeFails(s) ==
    /\ pc[s] \in {"start", "offer"}
    /\ Fault
    /\ Ends(s, Failed("InvalidRequest"), <<>>)
    /\ UNCHANGED <<dir, cancel, sourceVars, declared, finish, target, stored, auditVars>>

-----------------------------------------------------------------------------
(* The terminal record *)

EndKind ==
    [Committed |-> "success", CommittedUnconfirmed |-> "unconfirmed",
     CommitStatusUnknown |-> "unknown", Cancelled |-> "cancelled", Failed |-> "failed"]

\* record_transfer_end returns without a record for a transfer that never
\* started and for an uncertain one without a digest.
Recordable(s) ==
    /\ facts[s].started
    /\ out[s].kind \in {"CommittedUnconfirmed", "CommitStatusUnknown"} => facts[s].digest

\* record_transfer_end and apply_transfer_audit_result; the substream is
\* dropped when the handler returns.
RecordEnd(s) ==
    /\ pc[s] = "settled"
    /\ pc' = [pc EXCEPT ![s] = "end"]
    /\ IF Recordable(s) /\ audit[s] = "ok"
       THEN end' = [end EXCEPT ![s] =
                [kind |-> EndKind[out[s].kind], code |-> out[s].code, digest |-> facts[s].digest]]
       ELSE UNCHANGED end
    /\ out' = IF Recordable(s) /\ audit[s] = "failed" /\ out[s].kind = "Committed"
              THEN [out EXCEPT ![s] = Outcome("AuditFailed")] ELSE out
    /\ UNCHANGED <<dir, wire, chan, cancel, sourceVars, targetVars, audit, facts, faults>>

-----------------------------------------------------------------------------
(* The environment *)

Running(s) == pc[s] \notin {"settled", "end", "foreign"}

\* The user, or the closing session, raises the cancel flag.
Cancel(s) ==
    /\ Running(s)
    /\ ~cancel[s]
    /\ cancel' = [cancel EXCEPT ![s] = TRUE]
    /\ UNCHANGED <<dir, pc, wire, chan, out, sourceVars, targetVars, auditVars, faults>>

\* Another program rewrites or truncates the source.
SourceChanges ==
    /\ Running(Sender)
    /\ Fault
    /\ \E n \in 0 .. src.size : src' = [version |-> src.version + 1, size |-> n]
    /\ UNCHANGED <<dir, sideVars, opened, sent, targetVars, auditVars>>

\* Another program creates the target first.
OtherCreates ==
    /\ Running(Receiver)
    /\ target = "absent"
    /\ Fault
    /\ target' = "other"
    /\ UNCHANGED <<dir, sideVars, sourceVars, declared, temp, finish, stored, auditVars>>

\* The session's audit observer fails closed.
AuditBreaks(s) ==
    /\ audit[s] = "ok"
    /\ pc[s] # "end"
    /\ Fault
    /\ audit' = [audit EXCEPT ![s] = "failed"]
    /\ UNCHANGED <<dir, sideVars, sourceVars, targetVars, facts, end>>

\* A foreign side sends what it likes; the first frame fixes the direction.
ForeignSend(s) ==
    /\ pc[s] = "foreign"
    /\ Running(Peer(s))
    /\ Len(chan[Peer(s)]) < MaxQueue
    /\ \E f \in Frames :
        /\ f.tag = "Data" => Len(temp) < MaxBlocks
        /\ f.tag \in {"UploadOpen", "DownloadOpen"} => f.tag = OpenTag
        /\ chan' = [chan EXCEPT ![Peer(s)] = Append(@, f)]
    /\ UNCHANGED <<dir, pc, wire, cancel, out, sourceVars, targetVars, auditVars, faults>>

-----------------------------------------------------------------------------

Step(s) ==
    \/ SendOpen(s) \/ Serve(s) \/ Refuse(s) \/ AuditStart(s)
    \/ OpenSource(s) \/ SendOffer(s) \/ OfferArrives(s)
    \/ Prepare(s) \/ SendReady(s) \/ ReadyArrives(s)
    \/ SendBlock(s) \/ SourceFails(s) \/ RecheckSource(s) \/ SendFinish(s)
    \/ DataArrives(s) \/ FinishArrives(s) \/ Seal(s) \/ Commit(s) \/ Acknowledge(s)
    \/ CommittedArrives(s) \/ CommitUncertain(s)
    \/ StreamFails(s) \/ PeerFails(s) \/ PeerCancels(s) \/ PeerViolates(s)
    \/ LocalCancel(s) \/ WriteFails(s) \/ EncodeFails(s)
    \/ RecordEnd(s)

FtNext ==
    \/ \E s \in Sides : Step(s) \/ Cancel(s) \/ AuditBreaks(s) \/ ForeignSend(s)
    \/ SourceChanges \/ OtherCreates

\* A stage waits for its peer at most for the configured timeout, and the
\* file system and the audit log answer.
FtSpec == FtInit /\ [][FtNext]_vars /\ \A s \in Sides : WF_vars(Step(s))

-----------------------------------------------------------------------------
(* Properties *)

\* The verdicts of FileDelivery.
SenderVerdict ==
    CASE out[Sender].kind = "none" -> "pending"
      [] out[Sender].kind \in {"Committed", "AuditFailed"} -> "delivered"
      [] out[Sender].kind = "CommitStatusUnknown" -> "unknown"
      [] OTHER -> "failed"
StoredKinds == {"Committed", "CommittedUnconfirmed", "AuditFailed"}
ReceiverVerdict ==
    CASE out[Receiver].kind = "none" -> "pending"
      [] out[Receiver].kind \in StoredKinds -> "stored"
      [] OTHER -> "discarded"

\* The source as it was opened.
Snapshot == [i \in 1 .. opened.size |-> opened.version]

\* FileDelivery promises nothing to a side of another implementation.
Mixed == \E s \in Sides : pc[s] = "foreign"

Delivery == INSTANCE FileDelivery WITH
    file <- IF Mixed THEN "absent"
            ELSE IF target # "file" THEN target
            ELSE IF stored = Snapshot THEN "whole" ELSE "torn",
    sender <- IF Mixed THEN "pending" ELSE SenderVerdict,
    receiver <- IF Mixed THEN "pending" ELSE ReceiverVerdict

\* Two sides of this program keep the promise of a transfer: the sender
\* reports success only for a published target and failure only when none will
\* ever be published, however frames, cancellation and faults interleave
\* around Finish and Committed (TransferOutcome).  So the audit chain never
\* holds the success of one side and the failure of the other.  The target is
\* the source as it was opened, no mixture of versions and no prefix
\* (recheck_source, verify_finish), and replaces no object that another program
\* created after the destination was checked (persist_noclobber).
DeliverySpec == Delivery!Spec

\* What is published has the announced size and the digest of Finish,
\* whatever a foreign sender sent and in whatever order (verify_finish).
PublishedIsWhole ==
    stored # NoFile => Len(stored) = declared /\ finish = Finish(declared, stored)

\* A side of this program never takes the other for a violator of the
\* protocol, unless a frame broke off: every frame one sends, the raw Error of
\* fail_local included, is expected where the other reads it.
HonestPeersAgree ==
    [][\A s \in Sides :
        ~Mixed /\ out[s].kind = "none" /\ out'[s] = Failed("InvalidRequest") =>
            Reads(s, {"Cut"}) \/ pc[s] \in {"start", "offer"}]_vars

\* Every handler of this program returns, whatever is lost (the bounded reads
\* and writes) and whatever the other implementation sends or withholds.
TransferEnds == <>(\A s \in Sides : pc[s] \in {"end", "foreign"})

\* Both sides record the same facts of a transfer that both saw fail with the
\* same error: only fields both sides verify enter the shared record.
SharedFailureAgrees ==
    (\A s \in Sides : end[s].kind = "failed") /\ end["controller"].code = end["host"].code =>
        end["controller"] = end["host"]

\* An uncertain commit leaves a local record when the audit log works.
UncertainOutcomeIsRecorded ==
    \A s \in Sides :
        pc[s] = "end" /\ audit[s] = "ok" /\ out[s].kind = "CommitStatusUnknown" =>
            end[s].kind = "unknown"
=============================================================================
