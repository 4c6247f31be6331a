--------------------------- MODULE TerminalSession ---------------------------
(***************************************************************************)
(* An audited terminal session from TerminalReady to its end: the event    *)
(* pump of the controller (crates/yon/src/controller.rs, run_terminal),    *)
(* the bridge of the host (crates/yon/src/host.rs, bridge_terminal), the   *)
(* four substreams between them, and the closing of both audit records     *)
(* (AuditExchange).                                                        *)
(*                                                                         *)
(* An owner is a future that a select polls: it records first ("audit"),   *)
(* then does its input or output ("io").  Each await is a step, and every  *)
(* branch of a select that is ready may be the one taken.  The substreams  *)
(* are ordered one by one and independent of each other.  Bytes are        *)
(* counted; a read returns any part of what has arrived.                   *)
(***************************************************************************)
EXTENDS AuditExchange, FiniteSets

CONSTANTS
    Scenarios,   \* bounds: bytes each way, resizes, running checkpoints, faults
    MaxFaults    \* bound: faults in one behaviour

ASSUME TerminalAssumption ==
    /\ Scenarios \subseteq
           [ input : Nat, output : Nat, resizes : Nat, checkpoints : [Ends -> Nat],
             faults : SUBSET {"cancel", "signal", "disk", "link", "stall", "foreign"} ]
    /\ MaxFaults \in Nat

VARIABLES
    own,       \* the owners of both select loops
    proc,      \* audit_process: the frame being handled, per endpoint
    failing,   \* a pending fail_closed: while the owners drain, or after
    remote,    \* RemoteCompletion of the controller
    wire       \* terminal data and control substreams

termVars == <<own, proc, failing, remote, wire, did>>
vars == <<obs, frames, connected, finVars, termVars>>

COwners == {"input", "resize", "output", "exit"}
HOwners == {"ptyInput", "ptyOutput"}
EndOf(o) == IF o \in COwners THEN Controller ELSE Host
Idle == [st |-> "idle", what |-> "none", n |-> 0]
Owner(st, what, n) == [st |-> st, what |-> what, n |-> n]
NoFrame == Frame("none", "none")

Init ==
    /\ obs = [e \in Ends |-> NewObserver]
    /\ frames = [e \in Ends |-> <<>>]
    /\ connected = TRUE
    /\ stage = [e \in Ends |-> "active"]
    /\ result = [e \in Ends |-> "none"]
    /\ reason = [e \in Ends |-> "none"]
    /\ ending = [e \in Ends |-> "none"]
    /\ fin = [e \in Ends |-> NotFinal]
    /\ raised = {}
    /\ own = [o \in COwners \cup HOwners |-> Idle]
    /\ proc = [e \in Ends |-> NoFrame]
    /\ failing = [e \in Ends |-> "no"]
    /\ remote = "AwaitingBoth"
    /\ wire = [input |-> 0, output |-> 0, outputEof |-> FALSE, toHost |-> <<>>, toController |-> <<>>]
    /\ \E max \in Scenarios :
        did = [max |-> max, typed |-> 0, sentInput |-> 0, pty |-> 0,
              produced |-> 0, sentOutput |-> 0, shown |-> 0,
              resizes |-> 0, sentResizes |-> 0, sentExit |-> FALSE, faults |-> {}]

-----------------------------------------------------------------------------
(* Owners *)

Active(e) == stage[e] = "active"
Pumping(e) == stage[e] \in {"active", "closing"}

\* merge_closing_error, merge_host_owner_error: an audit error overrides, any
\* other one only fills a result that was good so far.
Merged(current, error) ==
    IF error = "audit" \/ current \in {"none", "ok"} THEN error ELSE current

\* An owner failed: the pump breaks with its error, a closing pump merges it.
\* On the host an audit error also asks for fail_closed after the drain.
OwnerFails(e, error) ==
    /\ stage' = [stage EXCEPT ![e] = "closing"]
    /\ result' = [result EXCEPT ![e] = Merged(@, error)]
    /\ failing' = [failing EXCEPT ![e] = IF e = Host /\ error = "audit" THEN "after" ELSE @]

\* The pump goes on.
PumpContinues == UNCHANGED <<stage, result, failing>>

\* An owner's recording step: next is the session after it, then is what the
\* owner does once the batch is appended.
OwnerRecords(o, next, then) ==
    LET e == EndOf(o)
    IN  /\ own[o].st = "audit" /\ Pumping(e)
        /\ obs' = [obs EXCEPT ![e] = Record(@, next)]
        /\ frames' = Post(e, RecordNotices(obs[e]))
        /\ IF RecordOk(obs[e])
           THEN own' = [own EXCEPT ![o] = then] /\ PumpContinues
           ELSE own' = [own EXCEPT ![o] = Idle] /\ OwnerFails(e, "audit")
        /\ UNCHANGED <<connected, reason, ending, fin, raised, proc, wire, did>>

\* What was recorded is sent or applied, except once the pump is closing.
ThenIo(o) == IF Active(EndOf(o)) THEN [own[o] EXCEPT !.st = "io"] ELSE Idle

\* An owner's input or output: the substreams fail with the connection.
OwnerSends(o, sent, effect) ==
    LET e == EndOf(o)
    IN  /\ own[o].st = "io" /\ Pumping(e)
        /\ own' = [own EXCEPT ![o] = Idle]
        /\ IF connected
           THEN wire' = sent /\ did' = effect /\ PumpContinues
           ELSE UNCHANGED <<wire, did>> /\ OwnerFails(e, "lost")
        /\ UNCHANGED <<obs, frames, connected, reason, ending, fin, raised, proc, remote>>

OwnerStarts(o, step) ==
    /\ Active(EndOf(o)) /\ own[o] = Idle
    /\ own' = [own EXCEPT ![o] = step]
    /\ UNCHANGED <<obs, frames, connected, finVars, proc, failing, remote>>

\* One more fault of the environment.
Fault(f) ==
    /\ f \in did.max.faults \ did.faults /\ Cardinality(did.faults) < MaxFaults
    /\ did' = [did EXCEPT !.faults = @ \cup {f}]

-----------------------------------------------------------------------------
(* The controller's pump *)

\* read_local_input.
CReadInput == \E n \in 1 .. did.max.input - did.typed :
    /\ OwnerStarts("input", Owner("audit", "input", n))
    /\ did' = [did EXCEPT !.typed = @ + n]
    /\ UNCHANGED wire

\* forward_processed_input_owned: recorded, then sent.
CRecordInput ==
    /\ OwnerRecords("input", RecordInput(obs[Controller].s, own["input"].n), ThenIo("input"))
    /\ UNCHANGED remote

CSendInput ==
    OwnerSends("input", [wire EXCEPT !.input = @ + own["input"].n],
               [did EXCEPT !.sentInput = @ + own["input"].n])

\* poll_terminal_resize.
CDetectResize ==
    /\ did.resizes < did.max.resizes
    /\ OwnerStarts("resize", Owner("audit", "resize", 0))
    /\ did' = [did EXCEPT !.resizes = @ + 1]
    /\ UNCHANGED wire

\* forward_terminal_resize_owned.
CRecordResize ==
    /\ OwnerRecords("resize", RecordControl(obs[Controller].s, <<"resize">>), ThenIo("resize"))
    /\ UNCHANGED remote

CSendResize ==
    OwnerSends("resize", [wire EXCEPT !.toHost = Append(@, "resize")],
               [did EXCEPT !.sentResizes = @ + 1])

OutputOpen == remote \in {"AwaitingBoth", "DrainingBoth", "AwaitingOutput"}
ExitPending == remote \in {"AwaitingBoth", "DrainingBoth", "AwaitingExit"}

\* read_remote_output_chunk.
CReadOutput == \E n \in 1 .. wire.output :
    /\ OutputOpen
    /\ OwnerStarts("output", Owner("audit", "output", n))
    /\ wire' = [wire EXCEPT !.output = @ - n]
    /\ UNCHANGED did

\* record_remote_output_chunk; the display write is the owner's next phase.
CRecordOutput ==
    /\ OwnerRecords("output", RecordOutput(obs[Controller].s, own["output"].n), ThenIo("output"))
    /\ UNCHANGED remote

\* write_remote_output_owned.
CDisplay ==
    /\ own["output"].st = "io" /\ Pumping(Controller)
    /\ own' = [own EXCEPT !["output"] = Idle]
    /\ did' = [did EXCEPT !.shown = @ + own["output"].n]
    /\ UNCHANGED <<obs, frames, connected, finVars, proc, failing, remote, wire>>

\* observe_output_eof.
CReadOutputEof ==
    /\ Active(Controller) /\ OutputOpen /\ own["output"] = Idle
    /\ wire.output = 0 /\ (wire.outputEof \/ ~connected)
    /\ remote' = IF remote = "AwaitingOutput" THEN "Complete" ELSE "AwaitingExit"
    /\ UNCHANGED <<obs, frames, connected, finVars, own, proc, failing, wire, did>>

\* read_remote_exit.
CReadExit ==
    /\ ExitPending /\ wire.toController # <<>> /\ Head(wire.toController) = "exit"
    /\ OwnerStarts("exit", Owner("audit", "exit", 0))
    /\ wire' = [wire EXCEPT !.toController = Tail(@)]
    /\ UNCHANGED did

\* observe_exit once the exit is recorded.
CRecordExit ==
    /\ OwnerRecords("exit", RecordControl(obs[Controller].s, <<"exit">>), Idle)
    /\ remote' = IF ~RecordOk(obs[Controller]) \/ ~Active(Controller) THEN remote
                 ELSE IF remote = "AwaitingExit" THEN "Complete" ELSE "AwaitingOutput"

\* Ends the controller's pump with result r.
CBreaks(r) ==
    /\ OwnerFails(Controller, r)
    /\ UNCHANGED <<obs, frames, connected, reason, ending, fin, raised, own, proc, remote, wire>>

COwnersIdle == \A o \in COwners : own[o] = Idle

\* pending_completion: exit recorded, output drained, every owner idle.
CComplete ==
    /\ Active(Controller) /\ remote = "Complete"
    /\ COwnersIdle /\ proc[Controller] = NoFrame
    /\ CBreaks("ok") /\ UNCHANGED did

\* Detach or a shutdown signal.
CCancel ==
    /\ Active(Controller) /\ Fault("cancel")
    /\ CBreaks("interrupted")

\* A terminal substream ended under the reader, or the connection event did.
CLost ==
    /\ Active(Controller) /\ ~connected
    /\ \/ wire.output = 0 /\ OutputOpen
       \/ wire.toController = <<>> /\ ExitPending
    /\ CBreaks("lost") /\ UNCHANGED did

\* DrainSelectedStreams: what has arrived is still read, until a deadline.
CDrain ==
    /\ Active(Controller) /\ ~connected /\ remote = "AwaitingBoth"
    /\ remote' = "DrainingBoth"
    /\ UNCHANGED <<obs, frames, connected, finVars, own, proc, failing, wire, did>>

\* wait_for_remote_completion_deadline.
CCompletionTimeout ==
    /\ Active(Controller) /\ remote # "AwaitingBoth"
    /\ MayStall \/ ~connected \/ ~Pumping(Host)
    /\ CBreaks("lost") /\ UNCHANGED did

\* The common deadline drops an owner that is in pure I/O.
CDeadline ==
    /\ stage[Controller] = "closing" /\ MayStall
    /\ \E o \in COwners : own[o].st = "io"
    /\ own' = [o \in DOMAIN own |-> IF o \in COwners /\ own[o].st = "io" THEN Idle ELSE own[o]]
    /\ result' = [result EXCEPT ![Controller] = Merged(@, "lost")]
    /\ UNCHANGED <<obs, frames, connected, stage, reason, ending, fin, raised, proc, failing,
                   remote, wire, did>>

-----------------------------------------------------------------------------
(* The audit branches of both pumps *)

\* A due checkpoint is built, appended, synced and sent.
AuditSend(e) ==
    /\ Active(e) /\ proc[e] = NoFrame
    /\ CheckpointDue(obs[e]) /\ obs[e].s.next <= did.max.checkpoints[e]
    /\ obs' = [obs EXCEPT ![e] = SendCheckpoint(@)]
    /\ IF obs[e].writer = "ok" /\ connected
       THEN frames' = Post(e, CheckpointFrame(obs[e])) /\ PumpContinues
       ELSE /\ frames' = frames
            /\ stage' = [stage EXCEPT ![e] = "closing"]
            /\ result' = [result EXCEPT ![e] = "audit"]
            /\ failing' = [failing EXCEPT ![e] = IF e = Controller THEN "now" ELSE "after"]
    /\ UNCHANGED <<connected, reason, ending, fin, raised, own, proc, remote, wire, did>>

\* The next frame goes to the process slot; none is read while it is there.
AuditRead(e) ==
    /\ Active(e) /\ proc[e] = NoFrame /\ frames[e] # <<>>
    /\ proc' = [proc EXCEPT ![e] = Head(frames[e])]
    /\ frames' = Taken(e)
    /\ UNCHANGED <<obs, connected, finVars, own, failing, remote, wire, did>>

\* The substream ended.
AuditEof(e) ==
    /\ Active(e) /\ proc[e] = NoFrame /\ frames[e] = <<>> /\ ~connected
    /\ stage' = [stage EXCEPT ![e] = "closing"]
    /\ result' = [result EXCEPT ![e] = "audit"]
    /\ failing' = [failing EXCEPT ![e] = IF e = Controller THEN "now" ELSE "after"]
    /\ UNCHANGED <<obs, frames, connected, reason, ending, fin, raised, own, proc, remote, wire, did>>

\* The host answers a close notice of its peer (classify_audit_pump_result);
\* everywhere else it means that the session fails.
PeerCloses(e, f) == e = Host /\ f.kind = "notice" /\ f.body # "AuditFailure"

\* handle_frame in the process slot, and what its result means.  A failure in
\* the controller's pump starts fail_closed at once; every other one is
\* left for after the drain.
AuditProcess(e) ==
    /\ Pumping(e) /\ proc[e] # NoFrame
    /\ proc' = [proc EXCEPT ![e] = NoFrame]
    /\ LET f     == proc[e]
           error == FrameError(obs[e], f)
       IN  /\ obs' = [obs EXCEPT ![e] = HandleFrame(@, f)]
           /\ frames' = Post(e, FrameReply(obs[e], f))
           /\ raised' = IF error = "none" THEN raised ELSE raised \cup {error}
           /\ IF error = "none" /\ f.kind \in {"checkpoint", "ack"}
              THEN PumpContinues /\ UNCHANGED reason
              ELSE /\ stage' = [stage EXCEPT ![e] = "closing"]
                   /\ IF PeerCloses(e, f)
                      THEN /\ result' = [result EXCEPT ![e] = Merged(@, "lost")]
                           /\ reason' = [reason EXCEPT ![e] = f.body]
                           /\ UNCHANGED failing
                      ELSE /\ result' = [result EXCEPT ![e] = "audit"]
                           /\ failing' = [failing EXCEPT ![e] =
                                 IF e = Controller /\ Active(e) THEN "now" ELSE "after"]
                           /\ UNCHANGED reason
    /\ UNCHANGED <<connected, ending, fin, own, remote, wire, did>>

-----------------------------------------------------------------------------
(* The controller's end *)

\* The audit_failure owner of a closing pump.
CFailClosed ==
    /\ stage[Controller] = "closing" /\ failing[Controller] = "now"
    /\ obs' = [obs EXCEPT ![Controller] = FailObserver(@)]
    /\ frames' = Post(Controller, FailNotices)
    /\ failing' = [failing EXCEPT ![Controller] = "no"]
    /\ UNCHANGED <<connected, finVars, own, proc, remote, wire, did>>

\* The session ends with an audit error.
EndsFailed(e, o, f) ==
    /\ obs' = [obs EXCEPT ![e] = o]
    /\ frames' = f
    /\ stage' = [stage EXCEPT ![e] = "done"]
    /\ result' = [result EXCEPT ![e] = "audit"]
    /\ UNCHANGED <<reason, ending>>

\* Any other error: the local tail is completed without a manifest.
EndsInterrupted(e, error) ==
    /\ obs' = [obs EXCEPT ![e] = CloseInterrupted(@)]
    /\ stage' = [stage EXCEPT ![e] = "done"]
    /\ result' = [result EXCEPT ![e] = error]
    /\ UNCHANGED <<frames, reason, ending>>

\* Finalization with an ending.
EndsJointly(e, next, how, why) ==
    /\ stage' = [stage EXCEPT ![e] = next]
    /\ ending' = [ending EXCEPT ![e] = how]
    /\ reason' = [reason EXCEPT ![e] = why]
    /\ UNCHANGED <<obs, frames, result>>

\* Every owner has settled: fail_closed if it is owed, has_failed, and then
\* the result decides how the session closes.
CClosed ==
    /\ stage[Controller] = "closing" /\ COwnersIdle
    /\ proc[Controller] = NoFrame /\ failing[Controller] # "now"
    /\ LET o == obs[Controller]
           r == result[Controller]
       IN  IF failing[Controller] = "after"
           THEN EndsFailed(Controller, FailObserver(o), Post(Controller, FailNotices))
           ELSE IF o.s.phase = "Failed" \/ r = "audit" THEN EndsFailed(Controller, o, frames)
           ELSE IF r = "lost" THEN EndsInterrupted(Controller, r)
           ELSE IF r = "interrupted"
                THEN EndsJointly(Controller, "notice", "LocalInterrupt", "LocalInterrupt")
           ELSE /\ stage' = [stage EXCEPT ![Controller] = "completing"]
                /\ UNCHANGED <<obs, frames, result, reason, ending>>
    /\ UNCHANGED <<connected, fin, raised, termVars>>

\* complete_terminal_control: TerminalComplete is recorded before it is sent.
CRecordComplete ==
    /\ stage[Controller] = "completing"
    /\ LET o    == obs[Controller]
           next == Record(o, RecordControl(o.s, <<"complete">>))
       IN  IF RecordOk(o)
           THEN /\ obs' = [obs EXCEPT ![Controller] = next]
                /\ stage' = [stage EXCEPT ![Controller] = "acknowledging"]
                /\ UNCHANGED <<frames, result, reason, ending>>
           ELSE EndsFailed(Controller, next, Post(Controller, RecordNotices(o)))
    /\ UNCHANGED <<connected, fin, raised, termVars>>

\* complete_terminal_control_io: the acknowledgement and the shutdown.
CSendComplete ==
    /\ stage[Controller] = "acknowledging" /\ connected
    /\ wire' = [wire EXCEPT !.toHost = @ \o <<"complete", "eof">>]
    /\ stage' = [stage EXCEPT ![Controller] = "hostclose"]
    /\ UNCHANGED <<obs, frames, connected, result, reason, ending, fin, raised, own, proc,
                   failing, remote, did>>

\* The host closed the control substream: the exit is mutual.
CHostClosed ==
    /\ stage[Controller] = "hostclose"
    /\ wire.toController # <<>> /\ Head(wire.toController) = "eof"
    /\ EndsJointly(Controller, "notice", "exit", "NormalShellExit")
    /\ UNCHANGED <<connected, fin, raised, termVars>>

\* The completion is cancelled, times out or loses the connection.
CCompleteCancelled ==
    /\ stage[Controller] \in {"acknowledging", "hostclose"} /\ Fault("cancel")
    /\ stage' = [stage EXCEPT ![Controller] = "notice"]
    /\ ending' = [ending EXCEPT ![Controller] = "LocalInterrupt"]
    /\ reason' = [reason EXCEPT ![Controller] = "LocalInterrupt"]
    /\ result' = [result EXCEPT ![Controller] = "interrupted"]
    /\ UNCHANGED <<obs, frames, connected, fin, raised, own, proc, failing, remote, wire>>

CCompleteFails ==
    /\ stage[Controller] \in {"acknowledging", "hostclose"}
    /\ MayStall \/ ~connected \/ stage[Host] # "active"
    /\ wire.toController = <<>>
    /\ EndsInterrupted(Controller, "lost")
    /\ UNCHANGED <<connected, fin, raised, termVars>>

-----------------------------------------------------------------------------
(* The host's bridge *)

\* copy_controller_input_until_closing: read, record, write to the PTY.
HReadInput == \E n \in 1 .. wire.input :
    /\ OwnerStarts("ptyInput", Owner("audit", "input", n))
    /\ wire' = [wire EXCEPT !.input = @ - n]
    /\ UNCHANGED did

HRecordInput ==
    /\ OwnerRecords("ptyInput", RecordInput(obs[Host].s, own["ptyInput"].n), ThenIo("ptyInput"))
    /\ UNCHANGED remote

\* The shell has ended: its PTY may refuse what is still typed.
ShellEnded == own["ptyOutput"].what \in {"exit", "complete"}

HWritePty ==
    /\ own["ptyInput"].st = "io" /\ Pumping(Host)
    /\ own' = [own EXCEPT !["ptyInput"] = Idle]
    /\ \/ did' = [did EXCEPT !.pty = @ + own["ptyInput"].n] /\ PumpContinues
       \/ ShellEnded /\ OwnerFails(Host, "lost") /\ UNCHANGED did
    /\ UNCHANGED <<obs, frames, connected, reason, ending, fin, raised, proc, remote, wire>>

\* copy_terminal_output_until_closing: one PTY or control event at a time.
HReadResize ==
    /\ wire.toHost # <<>> /\ Head(wire.toHost) = "resize"
    /\ OwnerStarts("ptyOutput", Owner("audit", "resize", 0))
    /\ wire' = [wire EXCEPT !.toHost = Tail(@)]
    /\ UNCHANGED did

HRecordResize ==
    /\ own["ptyOutput"].what = "resize"
    /\ OwnerRecords("ptyOutput", RecordControl(obs[Host].s, <<"resize">>), ThenIo("ptyOutput"))
    /\ UNCHANGED remote

HApplyResize ==
    /\ own["ptyOutput"].what = "resize" /\ own["ptyOutput"].st = "io" /\ Pumping(Host)
    /\ own' = [own EXCEPT !["ptyOutput"] = Idle]
    /\ UNCHANGED <<obs, frames, connected, finVars, proc, failing, remote, wire, did>>

HPtyOutput == \E n \in 1 .. did.max.output - did.produced :
    /\ OwnerStarts("ptyOutput", Owner("audit", "output", n))
    /\ did' = [did EXCEPT !.produced = @ + n]
    /\ UNCHANGED wire

HRecordOutput ==
    /\ own["ptyOutput"].what = "output"
    /\ OwnerRecords("ptyOutput", RecordOutput(obs[Host].s, own["ptyOutput"].n), ThenIo("ptyOutput"))
    /\ UNCHANGED remote

HSendOutput ==
    /\ own["ptyOutput"].what = "output"
    /\ OwnerSends("ptyOutput", [wire EXCEPT !.output = @ + own["ptyOutput"].n],
                  [did EXCEPT !.sentOutput = @ + own["ptyOutput"].n])

HPtyExit ==
    /\ OwnerStarts("ptyOutput", Owner("audit", "exit", 0))
    /\ UNCHANGED <<wire, did>>

HRecordExit ==
    /\ own["ptyOutput"].what = "exit"
    /\ OwnerRecords("ptyOutput", RecordControl(obs[Host].s, <<"exit">>), ThenIo("ptyOutput"))
    /\ UNCHANGED remote

\* The data substream is shut down, TerminalExit sent, its answer awaited.
HSendExit ==
    /\ own["ptyOutput"].what = "exit" /\ own["ptyOutput"].st = "io" /\ Pumping(Host)
    /\ IF connected
       THEN /\ own' = [own EXCEPT !["ptyOutput"].st = "await"]
            /\ wire' = [wire EXCEPT !.outputEof = TRUE, !.toController = Append(@, "exit")]
            /\ did' = [did EXCEPT !.sentExit = TRUE]
            /\ PumpContinues
       ELSE /\ own' = [own EXCEPT !["ptyOutput"] = Idle]
            /\ OwnerFails(Host, "lost")
            /\ UNCHANGED <<wire, did>>
    /\ UNCHANGED <<obs, frames, connected, reason, ending, fin, raised, proc, remote>>

\* complete_terminal_exit_io_until_closing: a resize that crossed the exit is
\* decoded and dropped, TerminalComplete is recorded.
HAwaitComplete ==
    /\ own["ptyOutput"].st = "await" /\ Pumping(Host)
    /\ wire.toHost # <<>> /\ Head(wire.toHost) \in {"resize", "complete"}
    /\ wire' = [wire EXCEPT !.toHost = Tail(@)]
    /\ own' = IF Head(wire.toHost) = "resize" THEN own
              ELSE [own EXCEPT !["ptyOutput"] = Owner("audit", "complete", 0)]
    /\ UNCHANGED <<obs, frames, connected, finVars, proc, failing, remote, did>>

HRecordComplete ==
    /\ own["ptyOutput"].what = "complete"
    /\ OwnerRecords("ptyOutput", RecordControl(obs[Host].s, <<"complete">>), ThenIo("ptyOutput"))
    /\ UNCHANGED remote

\* The terminal pump returns Exited.
HExited ==
    /\ own' = [own EXCEPT !["ptyOutput"] = Idle]
    /\ IF Active(Host) THEN OwnerFails(Host, "ok") ELSE PumpContinues
    /\ UNCHANGED <<obs, frames, connected, reason, ending, fin, raised, proc, remote, did>>

HCloseControl ==
    /\ own["ptyOutput"].what = "complete" /\ own["ptyOutput"].st = "io" /\ Pumping(Host)
    /\ wire' = [wire EXCEPT !.toController = Append(@, "eof")]
    /\ HExited

\* The controller's side of the control substream ended instead.
HControlEof ==
    /\ own["ptyOutput"].st = "await" /\ Pumping(Host)
    /\ wire.toHost = <<>> /\ ~connected
    /\ HExited /\ UNCHANGED wire

\* Ends the host's pump with an error, or merges it while the bridge closes.
HBreaks(error) ==
    /\ OwnerFails(Host, error)
    /\ UNCHANGED <<obs, frames, connected, reason, ending, fin, raised, proc, remote, wire>>

HAwaitTimeout ==
    /\ own["ptyOutput"].st = "await" /\ Pumping(Host)
    /\ MayStall \/ stage[Controller] \notin {"active", "closing", "completing", "acknowledging"}
    /\ wire.toHost = <<>>
    /\ own' = [own EXCEPT !["ptyOutput"] = Idle]
    /\ HBreaks("lost") /\ UNCHANGED did

\* enforce_binding: the bound connection is gone.
HLost ==
    /\ Active(Host) /\ ~connected
    /\ HBreaks("lost") /\ UNCHANGED <<own, did>>

HSignal ==
    /\ Active(Host) /\ Fault("signal")
    /\ HBreaks("interrupted")
    /\ UNCHANGED own

\* The drain deadline abandons a pump that is in I/O and drops the connection.
HDeadline ==
    /\ stage[Host] = "closing" /\ MayStall
    /\ \E o \in HOwners : own[o].st \in {"io", "await"}
    /\ own' = [o \in DOMAIN own |->
                  IF o \in HOwners /\ own[o].st \in {"io", "await"} THEN Idle ELSE own[o]]
    /\ connected' = FALSE
    /\ result' = [result EXCEPT ![Host] = Merged(@, "lost")]
    /\ UNCHANGED <<obs, frames, stage, reason, ending, fin, raised, proc, failing, remote, wire, did>>

\* The bridge has drained.
HClosed ==
    /\ stage[Host] = "closing" /\ proc[Host] = NoFrame
    /\ \A o \in HOwners : own[o] = Idle
    /\ LET o == obs[Host]
           r == result[Host]
       IN  IF failing[Host] = "after"
           THEN EndsFailed(Host, FailObserver(o), Post(Host, FailNotices))
           ELSE IF reason[Host] # "none"
                THEN EndsJointly(Host, "barrier", reason[Host], reason[Host])
           ELSE IF o.s.phase = "Failed" \/ r = "audit" THEN EndsFailed(Host, o, frames)
           ELSE IF r = "ok" THEN EndsJointly(Host, "receiver", "exit", "none")
           ELSE EndsInterrupted(Host, r)
    /\ UNCHANGED <<connected, fin, raised, termVars>>

-----------------------------------------------------------------------------
(* Faults *)

\* The connection goes: by itself, or because one end has returned.  What had
\* arrived is still readable, or nothing is.
Disconnect == \E arrived \in BOOLEAN :
    /\ connected /\ connected' = FALSE
    /\ frames' = IF arrived THEN frames ELSE [e \in Ends |-> <<>>]
    /\ wire' = IF arrived THEN wire
               ELSE [wire EXCEPT !.input = 0, !.output = 0, !.toHost = <<>>, !.toController = <<>>]
    /\ UNCHANGED <<obs, finVars, own, proc, failing, remote>>

PeerLeaves == (\E e \in Ends : stage[e] = "done") /\ Disconnect /\ UNCHANGED did

LinkFails ==
    /\ Fault("link") /\ \A e \in Ends : stage[e] # "done"
    /\ Disconnect

\* Some wait takes longer than its timeout.
Stall ==
    /\ Fault("stall")
    /\ UNCHANGED <<obs, frames, connected, finVars, own, proc, failing, remote, wire>>

\* The writer of one end stops taking records.
WriterFails(e) ==
    /\ Fault("disk") /\ stage[e] # "done" /\ obs[e].writer = "ok"
    /\ obs' = [obs EXCEPT ![e].writer = "failed"]
    /\ UNCHANGED <<frames, connected, finVars, own, proc, failing, remote, wire>>

\* A peer that is not this program skips a checkpoint sequence.
ForeignCheckpoint ==
    /\ Fault("foreign") /\ connected
    /\ frames' = Post(Controller, <<Frame("checkpoint",
                     [sequence |-> obs[Controller].s.next + 1, snapshot |-> Snapshot(obs[Controller].s)])>>)
    /\ UNCHANGED <<obs, connected, finVars, own, proc, failing, remote, wire>>

-----------------------------------------------------------------------------
\* What the user, the shell and the environment do, of their own accord.
UserNext == CReadInput \/ CDetectResize \/ HPtyOutput \/ HPtyExit

FaultNext ==
    \/ CCancel \/ CCompleteCancelled \/ HSignal \/ LinkFails \/ Stall \/ ForeignCheckpoint
    \/ \E e \in Ends : WriterFails(e)

\* What the two programs do.
AuditNext(e) ==
    \/ AuditSend(e) \/ AuditRead(e) \/ AuditEof(e) \/ AuditProcess(e)
    \/ Finalize(e) /\ UNCHANGED termVars

CNext ==
    \/ CRecordInput \/ CSendInput \/ CRecordResize \/ CSendResize
    \/ CReadOutput \/ CRecordOutput \/ CDisplay \/ CReadOutputEof
    \/ CReadExit \/ CRecordExit
    \/ CComplete \/ CLost \/ CDrain \/ CCompletionTimeout
    \/ CDeadline \/ CFailClosed \/ CClosed
    \/ CRecordComplete \/ CSendComplete \/ CHostClosed \/ CCompleteFails
    \/ AuditNext(Controller)

HNext ==
    \/ HReadInput \/ HRecordInput \/ HWritePty
    \/ HReadResize \/ HRecordResize \/ HApplyResize
    \/ HRecordOutput \/ HSendOutput \/ HRecordExit \/ HSendExit
    \/ HAwaitComplete \/ HRecordComplete \/ HCloseControl \/ HControlEof
    \/ HAwaitTimeout \/ HLost \/ HDeadline \/ HClosed
    \/ AuditNext(Host)

Next == UserNext \/ FaultNext \/ CNext \/ HNext \/ PeerLeaves

\* A ready branch of a select is taken in the end, every wait in it is
\* bounded, and a program that has returned closes its connection.
Fairness == WF_vars(CNext) /\ WF_vars(HNext) /\ WF_vars(PeerLeaves)

Spec == Init /\ [][Next]_vars /\ Fairness

-----------------------------------------------------------------------------
(* Properties *)

Done(e) == stage[e] = "done"
Finished(e) == obs[e].s.phase = "Finished"
OnFile(e) == SubSeq(obs[e].s.control, 1, obs[e].file.control)
Count(seq, event) == Cardinality({i \in DOMAIN seq : seq[i] = event})

\* Append before effect (observer.rs, the contract of record()): whatever has
\* been sent, written to the PTY or displayed is in the sender's, the
\* host's or the controller's record file, even when writers fail, links
\* break and pumps close in the middle of a step.
AppendBeforeEffect ==
    /\ did.sentInput <= obs[Controller].file.input
    /\ did.pty <= obs[Host].file.input
    /\ did.sentOutput <= obs[Host].file.output
    /\ did.shown <= obs[Controller].file.output
    /\ did.sentResizes <= Count(OnFile(Controller), <<"resize">>)
    /\ did.sentExit => Count(OnFile(Host), <<"exit">>) = 1

\* No honest pair of endpoints ever raises a checkpoint mismatch against
\* itself or takes a manifest before the final checkpoint, however running
\* checkpoints, acknowledgements and the close cross on the substream
\* (observer.rs: a second checkpoint is never sent while one is pending).
NoSpuriousMismatch ==
    "foreign" \in did.faults
    \/ raised \cap {"CheckpointMismatch", "OutOfOrder"} = {}

\* The exit code is only returned with a finished record, and then the host
\* recorded that exit and signed the same manifest (controller.rs: a
\* finalization failure is never hidden behind the remote exit code).
ExitCodeIsJoint ==
    Done(Controller) /\ result[Controller] = "ok" =>
        /\ Finished(Controller)
        /\ fin[Host].own = fin[Controller].own
        /\ fin[Host].own.ending = "exit"
        /\ Count(obs[Host].s.control, <<"exit">>) = 1

\* The two records implement the joint record: accounts only grow while open,
\* a record is sealed only over the same closed account on both sides, and
\* nothing that happens to the session afterwards unseals it.
SealOf(o) ==
    CASE o.writer = "finished" -> "sealed"
      [] o.writer # "finished" /\ o.s.phase = "Active" -> "open"
      [] o.writer # "finished" /\ o.s.phase = "Finalizing" -> "closed"
      [] o.writer # "finished" /\ o.s.phase \in {"Finished", "Failed"} -> "failed"

Joint == INSTANCE JointRecord WITH
    Parties <- Ends,
    account <- [e \in Ends |-> [ input   |-> Recorded(obs[e].s.input),
                                 output  |-> Recorded(obs[e].s.output),
                                 control |-> obs[e].s.control ]],
    seal <- [e \in Ends |-> SealOf(obs[e])]

JointRecordSpec == Joint!JointSpec

\* Once an end has left its pump, both ends return: no drain, exchange or
\* wait of one holds up the other for ever (the owners are polled together
\* so that they cannot deadlock on the observer).
SessionsEnd == (\E e \in Ends : ~Active(e)) ~> (\A e \in Ends : Done(e))

\* Both ends stand behind the close barrier with the same account and ending.
Settled ==
    /\ \A e \in Ends : stage[e] \in {"final", "manifest", "footer"} /\ obs[e].writer = "ok"
    /\ Snapshot(obs[Controller].s) = Snapshot(obs[Host].s)
    /\ ending[Controller] = ending[Host]

\* A settled close without stalls or faults completes: the two ends never
\* wait for each other's final checkpoint, acknowledgement or manifest.
SettledCloseFinishes ==
    Settled /\ did.max.faults = {} ~> (\E e \in Ends : Finished(e))

-----------------------------------------------------------------------------
(* Stated by the repository and not met by the code *)

Behind(e) == stage[e] \in {"final", "manifest", "footer"}

\* session.rs on the closing checkpoint: "At that point no shared fact may be
\* in flight, so the peer snapshot must equal the local final snapshot."
SharedFactsSettled ==
    (\A e \in Ends : Behind(e)) => Snapshot(obs[Controller].s) = Snapshot(obs[Host].s)

\* session-audit.md: the joint manifests built after the final checkpoints
\* must be identical.
ManifestsAgree ==
    (\A e \in Ends : fin[e].own # NoManifest) => fin[Controller].own = fin[Host].own

\* product.md: once Active, the controller returns the remote shell's exit code.
\* A host that has reported the exit leaves; its controller reports it too.
MutualExitReported ==
    (\A e \in Ends : Done(e)) /\ result[Host] = "ok" => result[Controller] = "ok"

\* session.rs on fail_checkpoint: "the caller persists the failure-close
\* records best-effort through AuditSession::fail_closed_records".
MismatchIsRecorded ==
    \A e \in Ends : Done(e) /\ obs[e].s.phase = "Failed" /\ obs[e].writer = "ok" => obs[e].noted

\* session-audit.md on the event pump: an audit failure the peer has sent is
\* not downgraded to an ordinary I/O error because a terminal substream
\* happens to close at the same time.
PeerFailureNotDowngraded ==
    Done(Controller) /\ result[Controller] = "lost" =>
        \A i \in DOMAIN frames[Controller] : frames[Controller][i].kind # "error"
=============================================================================
