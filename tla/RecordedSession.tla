--------------------------- MODULE RecordedSession ---------------------------
(***************************************************************************)
(* The records two honest ends of a session leave, verified offline: what  *)
(* the observer (crates/yon/src/audit/observer.rs) appends and syncs from  *)
(* the handshake on as the session (session.rs) proceeds, wherever it      *)
(* stops.                                                                  *)
(*                                                                         *)
(* Terminal and audit frames travel on substreams of their own.  The       *)
(* terminal's completion, which drains them before the close, is           *)
(* TerminalSession's matter; here the close waits for empty substreams.    *)
(***************************************************************************)
EXTENDS AuditSession, AuditVerify, FiniteSets

CONSTANTS
    Controller, Host,
    Scenarios   \* bounds of a session: bytes typed and printed, resizes, key
                \* actions, and the running checkpoints of each end

ASSUME RecordedAssumption ==
    /\ Controller # Host
    /\ Scenarios \subseteq [input : Nat, output : Nat, resizes : Nat, keys : Nat,
                            checkpoints : [{Controller, Host} -> Nat]]

Ends == {Controller, Host}
Peer(e) == IF e = Controller THEN Host ELSE Controller

VARIABLES
    max,       \* the scenario of this session
    s,         \* s[e]: the AuditSession
    record,    \* record[e]: the frames of its record file
    synced,    \* synced[e]: how many of them the last sync_all covered
    input,     \* bytes on their way to the host
    output,    \* bytes on their way to the controller
    resizes,   \* resizes on their way to the host
    owed,      \* owed[e][st]: what e has yet to record of the bytes of st
    greeting,  \* TerminalHello or TerminalReady on its way
    frames,    \* frames[e]: audit frames on their way to e
    awaiting,  \* awaiting[e]: a checkpoint of e awaits its acknowledgement
    stage,     \* stage[e]: how far establish, then close_and_finalize is
    final,     \* final[e]: own final checkpoint sent, the peer's seen
    own        \* own[e]: the manifest e has built, if any

vars == <<max, s, record, synced, input, output, resizes, owed, greeting,
          frames, awaiting, stage, final, own>>
terminal == <<input, output, resizes, owed, greeting>>
closing == <<stage, final, own>>

Init ==
    /\ max \in Scenarios
    /\ s = [e \in Ends |-> FreshSession]
    /\ record = [e \in Ends |-> <<>>] /\ synced = [e \in Ends |-> 0]
    /\ input = 0 /\ output = 0 /\ resizes = 0 /\ greeting = "none"
    /\ owed = [e \in Ends |-> <<"none", "none">>]
    /\ frames = [e \in Ends |-> <<>>] /\ awaiting = [e \in Ends |-> FALSE]
    /\ stage = [e \in Ends |-> "start"]
    /\ final = [e \in Ends |-> [sent |-> FALSE, seen |-> FALSE]]
    /\ own = [e \in Ends |-> <<>>]

Frame(kind, body) == [kind |-> kind, body |-> body]
Sends(e, f) == frames' = [frames EXCEPT ![Peer(e)] = Append(@, f)]
Replies(e, f) == frames' = [frames EXCEPT ![e] = Tail(@), ![Peer(e)] = Append(@, f)]
Reads(e, kind) == frames[e] # <<>> /\ Head(frames[e]).kind = kind
Drops(e) == frames' = [frames EXCEPT ![e] = Tail(@)]

-----------------------------------------------------------------------------
(* What a step appends *)

Local(type, related) == [t |-> type, related |-> related]
Evidence(kind, body) == [t |-> "CheckpointEvidence", kind |-> kind, body |-> body]

\* The head of block k of a direction that has become d.
BlockHead(d, k) ==
    IF k = 0 THEN NoBlocks ELSE IF k = d.count THEN <<k, d.bytes>> ELSE <<k, k * BlockLen>>

\* The shared records of the blocks d completes on its way to d2.
Blocks(st, d, d2) ==
    [i \in 1 .. (d2.count - d.count) |->
        [t |-> "Shared", st |-> st, seq |-> d.count + i,
         prev |-> BlockHead(d2, d.count + i - 1), head |-> BlockHead(d2, d.count + i)]]

\* record_input, record_output: the local record, then its blocks.
Related(d, d2) == IF d2.count = d.count THEN Zero ELSE BlockHead(d2, d2.count)
Batch(st, type, d, d2) == <<Local(type, Related(d, d2))>> \o Blocks(st, d, d2)

\* last_block of a direction.
LastBlock(session, st) ==
    LET d == IF st = 1 THEN session.input ELSE session.output IN
    IF d.count = 0 THEN Zero ELSE BlockHead(d, d.count)

\* commit_shared_control and the local record that follows it.
ControlBatch(session, event, type) ==
    LET head == Append(session.control, event) IN
    << [t |-> "Shared", st |-> 3, seq |-> Len(head), prev |-> session.control, head |-> head],
       Local(type, head) >>

\* The length of the local chain.
IsLocal(f) == f.t \notin {"Header", "Shared", "Footer"}
Locals(log) == Cardinality({i \in DOMAIN log : IsLocal(log[i])})

\* The checkpoint as the verifier sees it, its local chain head included.
Signed(e) == [sequence |-> s[e].next, snapshot |-> Snapshot(s[e]), local |-> Locals(record[e])]
Unsigned(c) == [sequence |-> c.sequence, snapshot |-> c.snapshot]

Appends(e, f) == record' = [record EXCEPT ![e] = @ \o f]
AppendsAndSyncs(e, f) ==
    /\ Appends(e, f)
    /\ synced' = [synced EXCEPT ![e] = Len(record'[e])]

-----------------------------------------------------------------------------
(* The handshake and the start of the terminal *)

Starting == {"start", "hello", "awaitHello", "awaitContribution", "created", "awaitReady",
             "established", "opening", "opened", "awaitTerminal"}

Goes(e, next) == stage' = [stage EXCEPT ![e] = next]

\* The controller conveys its TerminalHello before the audit handshake.
SendTerminalHello ==
    /\ stage[Controller] = "start"
    /\ greeting' = "hello"
    /\ Goes(Controller, "hello")
    /\ UNCHANGED <<s, record, synced, input, output, resizes, owed, frames, awaiting, final, own>>

ReadTerminalHello ==
    /\ stage[Host] = "start" /\ greeting = "hello"
    /\ greeting' = "none"
    /\ Goes(Host, "hello")
    /\ UNCHANGED <<s, record, synced, input, output, resizes, owed, frames, awaiting, final, own>>

\* AuditHello with the commitment, then the contribution it commits to.
SendHello(e) ==
    /\ stage[e] = "hello"
    /\ Sends(e, Frame("hello", "none"))
    /\ Goes(e, "awaitHello")
    /\ UNCHANGED <<s, record, synced, terminal, awaiting, final, own>>

SendContribution(e) ==
    /\ stage[e] = "awaitHello" /\ Reads(e, "hello")
    /\ Replies(e, Frame("contribution", "none"))
    /\ Goes(e, "awaitContribution")
    /\ UNCHANGED <<s, record, synced, terminal, awaiting, final, own>>

Header == [t |-> "Header"]

\* Mutant of Initialize: the header is written and not synced.
InitializeUnsynced(e) == Appends(e, <<Header>>) /\ UNCHANGED synced

\* run_initialize.
Initialize(e) == AppendsAndSyncs(e, <<Header>>)

\* The session is derived and the record created, header first.
CreateRecord(e) ==
    /\ stage[e] = "awaitContribution" /\ Reads(e, "contribution")
    /\ s' = [s EXCEPT ![e] = ReceivePeerHello(@)]
    /\ Initialize(e)
    /\ Drops(e)
    /\ Goes(e, "created")
    /\ UNCHANGED <<terminal, awaiting, final, own>>

SendReady(e) ==
    /\ stage[e] = "created"
    /\ Sends(e, Frame("ready", "none"))
    /\ Goes(e, "awaitReady")
    /\ UNCHANGED <<s, record, synced, terminal, awaiting, final, own>>

Establish(e) ==
    /\ stage[e] = "awaitReady" /\ Reads(e, "ready")
    /\ s' = [s EXCEPT ![e] = ReceivePeerReady(@)]
    /\ Appends(e, <<Local("LocalConnectionState", Zero)>>)
    /\ Drops(e)
    /\ Goes(e, "established")
    /\ UNCHANGED <<synced, terminal, awaiting, final, own>>

\* record_terminal_hello, record_terminal_ready.
Lifecycle(e, event) ==
    /\ s' = [s EXCEPT ![e] = RecordControl(@, event)]
    /\ Appends(e, ControlBatch(s[e], event, "LocalLifecycleEvent"))

RecordTerminalHello(e) ==
    /\ stage[e] = "established"
    /\ Lifecycle(e, <<"hello">>)
    /\ Goes(e, IF e = Host THEN "opening" ELSE "awaitTerminal")
    /\ UNCHANGED <<synced, terminal, frames, awaiting, final, own>>

\* The PTY is opened and TerminalReady recorded, then sent.
OpenTerminal ==
    /\ stage[Host] = "opening"
    /\ Lifecycle(Host, <<"ready">>)
    /\ Goes(Host, "opened")
    /\ UNCHANGED <<synced, terminal, frames, awaiting, final, own>>

SendTerminalReady ==
    /\ stage[Host] = "opened"
    /\ greeting' = "ready"
    /\ Goes(Host, "active")
    /\ UNCHANGED <<s, record, synced, input, output, resizes, owed, frames, awaiting, final, own>>

ReadTerminalReady ==
    /\ stage[Controller] = "awaitTerminal" /\ greeting = "ready"
    /\ Lifecycle(Controller, <<"ready">>)
    /\ greeting' = "none"
    /\ Goes(Controller, "active")
    /\ UNCHANGED <<synced, input, output, resizes, owed, frames, awaiting, final, own>>

\* A timeout, a substream that ended, a shell that did not start: the attempt
\* is given up and the record left as it is.
Abandon(e) ==
    /\ stage[e] \in Starting
    /\ Goes(e, "done")
    /\ UNCHANGED <<s, record, synced, terminal, frames, awaiting, final, own>>

\* An end records once the terminal has started.
Recording(e) == Recordable(s[e]) /\ stage[e] = "active"

-----------------------------------------------------------------------------
(* The terminal *)

\* What is left to record of the bytes of a direction: nothing, the outcome of
\* their effect or, on the controller, their display first.
Owes(e, st, what) == owed' = [owed EXCEPT ![e][st] = what]

\* The input is recorded and sent, or written to the PTY.
TypeInput ==
    /\ Recording(Controller) /\ owed[Controller][1] = "none"
    /\ Recorded(s[Controller].input) < max.input
    /\ s' = [s EXCEPT ![Controller] = RecordInput(@, 1)]
    /\ Appends(Controller, Batch(1, "LocalInputCommitment", s[Controller].input, s'[Controller].input))
    /\ input' = input + 1 /\ Owes(Controller, 1, "outcome")
    /\ UNCHANGED <<synced, output, resizes, greeting, frames, awaiting, closing>>

ReadInput ==
    /\ Recording(Host) /\ owed[Host][1] = "none" /\ input > 0
    /\ s' = [s EXCEPT ![Host] = RecordInput(@, 1)]
    /\ Appends(Host, Batch(1, "LocalInputCommitment", s[Host].input, s'[Host].input))
    /\ input' = input - 1 /\ Owes(Host, 1, "outcome")
    /\ UNCHANGED <<synced, output, resizes, greeting, frames, awaiting, closing>>

PrintOutput ==
    /\ Recording(Host) /\ owed[Host][2] = "none"
    /\ Recorded(s[Host].output) < max.output
    /\ s' = [s EXCEPT ![Host] = RecordOutput(@, 1)]
    /\ Appends(Host, Batch(2, "LocalRawOutput", s[Host].output, s'[Host].output))
    /\ output' = output + 1 /\ Owes(Host, 2, "outcome")
    /\ UNCHANGED <<synced, input, resizes, greeting, frames, awaiting, closing>>

\* record_remote_output_chunk; the display follows, behind further chunks
\* while a prompt delays it.
ReadOutput ==
    /\ Recording(Controller) /\ owed[Controller][2] # "outcome" /\ output > 0
    /\ s' = [s EXCEPT ![Controller] = RecordOutput(@, 1)]
    /\ Appends(Controller, Batch(2, "LocalRawOutput", s[Controller].output, s'[Controller].output))
    /\ output' = output - 1 /\ Owes(Controller, 2, "display")
    /\ UNCHANGED <<synced, input, resizes, greeting, frames, awaiting, closing>>

\* write_remote_output_owned, flush_delayed_output: recorded, then displayed.
DisplayOutput ==
    /\ Recording(Controller) /\ owed[Controller][2] = "display"
    /\ Appends(Controller, <<Local("LocalDisplayBytes", LastBlock(s[Controller], 2))>>)
    /\ Owes(Controller, 2, "outcome")
    /\ UNCHANGED <<s, synced, input, output, resizes, greeting, frames, awaiting, closing>>

\* record_send_outcome, record_pty_write_outcome, record_display_write_outcome:
\* the record relates to the last block of its direction.
Outcome(e, st) ==
    [ t |-> CASE e = Controller /\ st = 2 -> "LocalDisplayWriteOutcome"
              [] e = Host /\ st = 1 -> "LocalPtyWriteOutcome"
              [] OTHER -> "LocalSendOutcome",
      st |-> st,
      related |-> LastBlock(s[e], st) ]

RecordOutcome(e, st) ==
    /\ Recording(e) /\ owed[e][st] = "outcome"
    /\ Appends(e, <<Outcome(e, st)>>)
    /\ Owes(e, st, "none")
    /\ UNCHANGED <<s, synced, input, output, resizes, greeting, frames, awaiting, closing>>

\* record_key_action: detach, help, interrupt and the file keys.
KeyAction ==
    /\ Recording(Controller)
    /\ Cardinality({i \in DOMAIN record[Controller] : record[Controller][i].t = "LocalKeyAction"}) < max.keys
    /\ Appends(Controller, <<Local("LocalKeyAction", Zero)>>)
    /\ UNCHANGED <<s, synced, terminal, frames, awaiting, closing>>

Resized(e) ==
    /\ s' = [s EXCEPT ![e] = RecordControl(@, <<"resize">>)]
    /\ Appends(e, ControlBatch(s[e], <<"resize">>, "LocalResizeEvent"))

Resize ==
    /\ Recording(Controller) /\ Cardinality({i \in DOMAIN s[Controller].control : s[Controller].control[i] = <<"resize">>}) < max.resizes
    /\ Resized(Controller)
    /\ resizes' = resizes + 1
    /\ UNCHANGED <<synced, input, output, owed, greeting, frames, awaiting, closing>>

ReadResize ==
    /\ Recording(Host) /\ resizes > 0
    /\ Resized(Host)
    /\ resizes' = resizes - 1
    /\ UNCHANGED <<synced, input, output, owed, greeting, frames, awaiting, closing>>

-----------------------------------------------------------------------------
(* Checkpoints *)

\* The evidence is appended and synced before the checkpoint is sent.
PutCheckpoint(e) ==
    /\ ~awaiting[e]
    /\ s' = [s EXCEPT ![e] = BuildCheckpoint(@)]
    /\ AppendsAndSyncs(e, <<Evidence("SentCheckpoint", Signed(e))>>)
    /\ Sends(e, Frame("checkpoint", Signed(e)))
    /\ awaiting' = [awaiting EXCEPT ![e] = TRUE]

SendDueCheckpoint(e) ==
    /\ Recording(e) /\ s[e].next <= max.checkpoints[e]
    /\ PutCheckpoint(e)
    /\ UNCHANGED <<terminal, closing>>

Open(e) == s[e].phase \in {"Active", "Finalizing"} /\ stage[e] \notin Starting \cup {"footer", "done"}

\* Mutant of RecordReceived: the acknowledgement does not wait for the sync.
RecordReceivedUnsynced(e, c) ==
    /\ Appends(e, <<Evidence("ReceivedCheckpoint", c), Evidence("SentCheckpointAck", c)>>)
    /\ UNCHANGED synced

\* The evidence of a checkpoint and of its acknowledgement is synced before
\* the acknowledgement leaves.
RecordReceived(e, c) ==
    AppendsAndSyncs(e, <<Evidence("ReceivedCheckpoint", c), Evidence("SentCheckpointAck", c)>>)

\* handle_checkpoint, and during finalization the test for the final one.
HandleCheckpoint(e) ==
    /\ Open(e) /\ Reads(e, "checkpoint")
    /\ LET c == Head(frames[e]).body IN
       /\ s' = [s EXCEPT ![e] = ReceiveCheckpoint(@, Unsigned(c))]
       /\ RecordReceived(e, c)
       /\ Replies(e, Frame("ack", c))
       /\ final' = [final EXCEPT ![e].seen =
                        @ \/ (stage[e] = "closing" /\ c.snapshot = Snapshot(s[e]))]
    /\ UNCHANGED <<terminal, awaiting, stage, own>>

\* handle_frame on an acknowledgement: appended, not synced.
HandleAck(e) ==
    /\ Open(e) /\ Reads(e, "ack")
    /\ s' = [s EXCEPT ![e] = ReceiveAck(@, Unsigned(Head(frames[e]).body))]
    /\ Appends(e, <<Evidence("ReceivedCheckpointAck", Head(frames[e]).body)>>)
    /\ Drops(e)
    /\ awaiting' = [awaiting EXCEPT ![e] = FALSE]
    /\ UNCHANGED <<synced, terminal, closing>>

-----------------------------------------------------------------------------
(* close_and_finalize *)

\* Tail blocks of both directions, input first (close_directions).
Tails(session) ==
    Blocks(1, session.input, Finish(session.input)) \o Blocks(2, session.output, Finish(session.output))

\* The terminal ends once the effects under way have their outcomes; output
\* that is still delayed is not displayed any more.
Settled(e) == \A st \in 1 .. 2 : owed[e][st] # "outcome"

\* record_shared_close and close_directions.
Barrier(e, reason) ==
    /\ Settled(e)
    /\ s' = [s EXCEPT ![e] = CloseDirections(RecordControl(@, <<"close", reason>>))]
    /\ Appends(e, ControlBatch(s[e], <<"close", reason>>, "LocalCloseEvent") \o Tails(s[e]))

Close ==
    /\ Recording(Controller)
    /\ input = 0 /\ output = 0 /\ resizes = 0
    /\ Recorded(s[Host].output) = Recorded(s[Controller].output)
    /\ Recording(Host)
    /\ Barrier(Controller, "TerminalExit")
    /\ Sends(Controller, Frame("notice", "TerminalExit"))
    /\ stage' = [stage EXCEPT ![Controller] = "closing"]
    /\ UNCHANGED <<synced, terminal, awaiting, final, own>>

\* The host's shell has exited, so it prints nothing more.
ReceiveNotice ==
    /\ Recording(Host) /\ Reads(Host, "notice")
    /\ output = 0
    /\ Barrier(Host, "TerminalExit")
    /\ Drops(Host)
    /\ stage' = [stage EXCEPT ![Host] = "closing"]
    /\ UNCHANGED <<synced, terminal, awaiting, final, own>>

SendFinal(e) ==
    /\ stage[e] = "closing" /\ s[e].phase = "Finalizing" /\ ~final[e].sent
    /\ PutCheckpoint(e)
    /\ final' = [final EXCEPT ![e].sent = TRUE]
    /\ UNCHANGED <<terminal, stage, own>>

BuildManifest(e) ==
    /\ stage[e] = "closing" /\ final[e].sent /\ final[e].seen /\ ~awaiting[e]
    /\ s[e].phase = "Finalizing"
    /\ LET m == Manifest(s[e], "TerminalExit") IN
       /\ Appends(e, <<Evidence("SentManifest", m)>>)
       /\ Sends(e, Frame("manifest", m))
       /\ own' = [own EXCEPT ![e] = <<m>>]
    /\ stage' = [stage EXCEPT ![e] = "manifest"]
    /\ UNCHANGED <<s, synced, terminal, awaiting, final>>

ReadManifest(e) ==
    /\ stage[e] = "manifest" /\ s[e].phase = "Finalizing" /\ Reads(e, "manifest")
    /\ Head(frames[e]).body = own[e][1]
    /\ Appends(e, <<Evidence("ReceivedManifest", Head(frames[e]).body)>>)
    /\ Drops(e)
    /\ stage' = [stage EXCEPT ![e] = "footer"]
    /\ UNCHANGED <<s, synced, terminal, awaiting, final, own>>

Footer(e, parts) ==
    [t |-> "Footer", parts |-> parts, manifest |-> own[e][1],
     local |-> Locals(record[e]), roots |-> Snapshot(s[e])]

\* Manifest and signatures, seal, commit: each is synced (writer.rs).
WriteFooter(e) ==
    /\ stage[e] = "footer" /\ s[e].phase = "Finalizing"
    /\ LET parts == IF Begun(record[e]) THEN Last(record[e]).parts + 1 ELSE 1 IN
       /\ record' = [record EXCEPT ![e] = Append(Framed(@), Footer(e, parts))]
       /\ synced' = [synced EXCEPT ![e] = Len(record'[e])]
       /\ stage' = [stage EXCEPT ![e] = IF parts = 3 THEN "done" ELSE "footer"]
       /\ s' = IF parts = 3 THEN [s EXCEPT ![e] = FinishLedgerCommit(@)] ELSE s
    /\ UNCHANGED <<terminal, frames, awaiting, final, own>>

-----------------------------------------------------------------------------
(* Interruption *)

\* close_interrupted.
CloseInterrupted(e) ==
    /\ Recording(e)
    /\ Barrier(e, "ConnectionLost")
    /\ stage' = [stage EXCEPT ![e] = "done"]
    /\ UNCHANGED <<synced, terminal, frames, awaiting, final, own>>

\* fail_closed.
FailClosedRecords(e) ==
    /\ stage[e] \notin Starting \cup {"done"} /\ s[e].phase # "Failed" /\ ~Begun(record[e])
    /\ s' = [s EXCEPT ![e] = FailClosed(@)]
    /\ Appends(e, << Local("LocalAuditError", Zero), Local("LocalConnectionState", Zero),
                     Local("LocalCloseEvent", Zero) >>)
    /\ stage' = [stage EXCEPT ![e] = "done"]
    /\ UNCHANGED <<synced, terminal, frames, awaiting, final, own>>

Step ==
    \/ SendTerminalHello \/ ReadTerminalHello \/ OpenTerminal
    \/ SendTerminalReady \/ ReadTerminalReady
    \/ TypeInput \/ ReadInput \/ PrintOutput \/ ReadOutput \/ DisplayOutput
    \/ KeyAction \/ Resize \/ ReadResize
    \/ Close \/ ReceiveNotice
    \/ \E e \in Ends :
        \/ SendHello(e) \/ SendContribution(e) \/ CreateRecord(e) \/ SendReady(e)
        \/ Establish(e) \/ RecordTerminalHello(e) \/ Abandon(e)
        \/ \E st \in 1 .. 2 : RecordOutcome(e, st)
        \/ SendDueCheckpoint(e) \/ HandleCheckpoint(e) \/ HandleAck(e)
        \/ SendFinal(e) \/ BuildManifest(e) \/ ReadManifest(e) \/ WriteFooter(e)
        \/ CloseInterrupted(e) \/ FailClosedRecords(e)

Next == Step /\ UNCHANGED max

Spec == Init /\ [][Next]_vars

-----------------------------------------------------------------------------
(* Properties *)

\* Whatever batch was the last one an end appended, its record alone
\* verifies: crossing checkpoints, acknowledgements, a close from any phase
\* and every part of a footer included (verify.rs, walk_file).
HonestRecordIntact ==
    \A e \in Ends : record[e] # <<>> => WalkFile(record[e], "none").ok

\* A shell runs only in front of two records: once it is open both ends have
\* their header on disk, and no end tells of a terminal, or of anything in
\* it, that the host has not recorded first (host.rs, start_terminal;
\* observer.rs, establish: the header is synced before AuditReady is sent).
Tells(e, event) == \E i \in DOMAIN s[e].control : s[e].control[i] = event
ShellHasTwoRecords ==
    /\ Tells(Host, <<"ready">>) => \A e \in Ends : synced[e] >= 1
    /\ \A e \in Ends : Len(s[e].control) > 1 \/ Recorded(s[e].output) > 0 => Tells(Host, <<"ready">>)

\* A session both ends finished verifies as a complete pair, and both
\* records then hold the same facts (verify.rs, verify_walk_pair).
FinishedPairVerifies ==
    (\A e \in Ends : s[e].phase = "Finished") =>
        /\ Verdict(record[Controller], record[Host]) = "complete"
        /\ Snapshot(s[Controller]) = Snapshot(s[Host])

\* verify.rs, confirm_direction: "honest peer records can differ by at most
\* one confirmation".  It holds even when a power loss takes both files
\* back to any point not before their last sync.
ConfirmationsNeverFarApart ==
    LET left(e) == {Chained(SubSeq(record[e], 1, i)) : i \in synced[e] .. Len(record[e])} IN
    \A c \in left(Controller), h \in left(Host) : ConfirmationsMatch(c, h)

-----------------------------------------------------------------------------
(* Stated by the repository and not met by the code *)

\* verify.rs, next_frame: "The frame is cut off: everything before it is a
\* valid prefix" - here with the cut between the frames of a batch.
CutBatchIsPrefix ==
    \A e \in Ends : \A i \in synced[e] .. Len(record[e]) : i > 0 => WalkFile(SubSeq(record[e], 1, i), "none").ok

\* The same claim for a frame that is cut off; only output can be as long
\* as a footer.
CutFrameIsPrefix ==
    \A e \in Ends : \A i \in (synced[e] + 1) .. Len(record[e]) :
        record[e][i].t = "LocalRawOutput" => WalkFile(SubSeq(record[e], 1, i - 1), "long").ok

\* session-audit.md: the order in which the substreams deliver must not
\* produce a false mismatch.
InterruptedPairMatches ==
    record[Controller] # <<>> /\ record[Host] # <<>> => Verdict(record[Controller], record[Host]) # "MISMATCH"
=============================================================================
