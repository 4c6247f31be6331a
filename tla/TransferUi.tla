----------------------------- MODULE TransferUi -----------------------------
(***************************************************************************)
(* The controller's file-transfer interaction: the local control machine   *)
(* (local_control.rs), the two-field path prompt and the delayed display   *)
(* (transfer_prompt.rs), and the part of the terminal pump that feeds them *)
(* (controller.rs).  A keystroke is a token, a read returns a chunk of     *)
(* them, a line of the prompt is its length, and remote output is numbered *)
(* in the order the host sent it.                                          *)
(*                                                                         *)
(* The pump handles a processed chunk, a finished transfer or an overflow  *)
(* at the top of its loop, and only when none of its step futures is in    *)
(* flight; `other' stands for the ones that belong to resizes and to the   *)
(* audit exchange.                                                         *)
(***************************************************************************)
EXTENDS Integers, Sequences, SequencesExt

CONSTANTS
    Chunks,        \* the chunks the user may type: sequences of Tokens
    MaxChunks,     \* bound on the chunks typed
    MaxOutput,     \* bound on the chunks of remote output
    MaxLine,       \* max_len of the path prompt
    DelayedCap,    \* capacity of the delayed-output buffer, in chunks
    Audited,       \* an enterprise session
    OtherOwners    \* resize and audit steps may be in flight

\* The keys the control machine and the prompt tell apart; "x" is any other.
Tokens == {"esc", "u", ".", "?", "ctrlc", "enter", "x"}

ASSUME ChunksAssumption == Chunks \subseteq Seq(Tokens)

VARIABLES
    control,     \* LocalControlInput
    flow,        \* PathPromptFlow: the open field and the length of its line
    input,       \* the chunk the local-input step forwards
    pending,     \* pending_local_input
    transfer,    \* the running transfer future
    finished,    \* pending_transfer
    cancelAudit, \* cancel_action_audit
    cancel,      \* transfer_cancel
    eof,         \* [seen: local_ended, due: pending_local_eof]
    other,       \* some other step future is in flight
    capability,  \* CapabilityCache
    output,      \* the way of the remote output to the display
    typed,       \* number of chunks read
    promptFor,   \* ghost: the capability when the prompt opened
    done         \* how the pump's loop ended

uiVars == <<control, flow, cancel, capability, promptFor>>
pumpVars == <<input, pending, transfer, finished, cancelAudit, eof, other, typed>>
allVars == <<uiVars, pumpVars, output, done>>

NoInput == [action |-> "none", remote |-> <<>>, path |-> <<>>, rest |-> <<>>, there |-> FALSE]
NoFlow == [open |-> FALSE, field |-> 0, line |-> 0]
PassThrough == [ended |-> FALSE, prefix |-> FALSE, modal |-> "none"]

UiInit ==
    /\ control = PassThrough
    /\ flow = NoFlow
    /\ input = NoInput /\ pending = NoInput
    /\ transfer = FALSE /\ finished = FALSE
    /\ cancelAudit = FALSE /\ cancel = FALSE
    /\ eof = [seen |-> FALSE, due |-> FALSE]
    /\ other = FALSE
    /\ capability = "Unknown"
    /\ output = [next |-> 1, recording |-> <<>>, writing |-> <<>>,
                 delayed |-> <<>>, overflow |-> FALSE, lost |-> {}, shown |-> <<>>]
    /\ typed = 0
    /\ promptFor = "none"
    /\ done = "no"

-----------------------------------------------------------------------------
\* LocalControlInput: one token of a chunk.  `m' is the machine, `r' what the
\* chunk has produced, `stop' what becomes of the rest of the chunk.

Ended(m) == [m EXCEPT !.ended = TRUE, !.modal = "none", !.prefix = FALSE]

PassThroughToken(acc, tok) ==
    LET m == acc.m
        r == acc.r
        clear == [m EXCEPT !.prefix = FALSE]
    IN IF m.prefix
       THEN CASE tok = "." -> [acc EXCEPT !.m = Ended(m), !.r.action = "Detach", !.stop = "dead"]
              [] tok = "esc" -> [acc EXCEPT !.m = clear, !.r.remote = Append(@, "esc")]
              [] tok = "u" -> [acc EXCEPT !.m = [clear EXCEPT !.modal = "prompt"],
                                          !.r.action = "Start", !.stop = "rest"]
              [] tok = "?" -> [acc EXCEPT !.m = clear, !.r.action = "ShowHelp"]
              [] OTHER -> [acc EXCEPT !.m = clear, !.r.remote = @ \o <<"esc", tok>>]
       ELSE IF tok = "esc" THEN [acc EXCEPT !.m = [m EXCEPT !.prefix = TRUE]]
            ELSE [acc EXCEPT !.r.remote = Append(@, tok)]

ModalToken(acc, tok) ==
    LET m == acc.m
        clear == [m EXCEPT !.prefix = FALSE]
    IN IF m.prefix
       THEN CASE tok = "." -> [acc EXCEPT !.m = Ended(m), !.r.action = "Detach", !.stop = "dead"]
              [] tok = "?" -> [acc EXCEPT !.m = clear, !.r.action = "ShowHelp"]
              [] tok = "u" -> [acc EXCEPT !.m = clear, !.r.action = "AlreadyActive"]
              [] OTHER -> [acc EXCEPT !.m = clear, !.r.action = "Bell"]
       ELSE IF tok = "esc" THEN [acc EXCEPT !.m = [m EXCEPT !.prefix = TRUE]]
       ELSE IF tok = "ctrlc" THEN [acc EXCEPT !.r.action = "CancelOp", !.stop = "dead"]
       ELSE IF acc.phase = "prompt" THEN [acc EXCEPT !.r.path = Append(@, tok)]
       ELSE [acc EXCEPT !.r.action = "Bell"]

\* LocalControlInput::process; the rest of a chunk after a detach or a
\* cancellation is dead, the rest after a selector belongs to the operation.
process(m, chunk) ==
    LET Step(acc, tok) ==
            IF acc.stop = "rest" THEN [acc EXCEPT !.r.rest = Append(@, tok)]
            ELSE IF acc.stop = "dead" THEN acc
            ELSE IF acc.phase = "none" THEN PassThroughToken(acc, tok)
            ELSE ModalToken(acc, tok)
        start == [m |-> m, r |-> [NoInput EXCEPT !.there = TRUE],
                  phase |-> m.modal, stop |-> "no"]
    IN IF m.ended THEN start ELSE FoldLeft(Step, start, chunk)

\* PathPrompt::feed: tokens are taken until the first terminal outcome, the
\* ones after it are dropped; a line that would outgrow max_len starts again.
FeedToken(acc, tok) ==
    IF acc.result # "Continue" THEN acc
    ELSE CASE tok = "enter" /\ acc.line > 0 -> [acc EXCEPT !.result = "Submitted", !.line = 0]
           [] tok = "enter" /\ acc.line = 0 ->
                [acc EXCEPT !.result = IF acc.field = 1 THEN "Empty" ELSE "Reprompt"]
           [] tok # "enter" /\ acc.line = MaxLine -> [acc EXCEPT !.result = "Reprompt", !.line = 0]
           [] OTHER -> [acc EXCEPT !.line = @ + 1]

feed(f, tokens) ==
    FoldLeft(FeedToken, [field |-> f.field, line |-> f.line, result |-> "Continue"], tokens)

\* PathPromptFlow::advance: is the prompt complete, and what is left of it.
Completes(f, tokens) ==
    LET r == feed(f, tokens).result IN r = "Empty" \/ (r = "Submitted" /\ f.field = 1)

Advanced(f, tokens) ==
    LET fed == feed(f, tokens) IN
    IF Completes(f, tokens) THEN NoFlow
    ELSE [f EXCEPT !.field = IF fed.result = "Submitted" THEN 1 ELSE @, !.line = fed.line]

-----------------------------------------------------------------------------
\* The display.

\* DelayedOutputBuffer::append: all of the chunk or nothing.
Delay(o, n) ==
    IF Len(o.delayed) < DelayedCap THEN [o EXCEPT !.delayed = Append(@, n)]
    ELSE [o EXCEPT !.overflow = TRUE, !.lost = @ \cup {n}]

flush_delayed_outputLate(o) == o

\* flush_delayed_output: what the prompt held back is written in order.
flush_delayed_output(o) == [o EXCEPT !.shown = @ \o o.delayed, !.delayed = <<>>]

ShowOrDelay(o, n) == IF flow.open THEN Delay(o, n) ELSE [o EXCEPT !.writing = <<n>>]

-----------------------------------------------------------------------------
\* The pump.

Idle ==
    /\ ~input.there /\ ~transfer /\ ~cancelAudit /\ ~other
    /\ output.recording = <<>> /\ output.writing = <<>>

\* Work the top of the loop does before the pump waits for an event again.
Due == Idle /\ (finished \/ eof.due \/ pending.there \/ output.overflow)

Waiting == done = "no" /\ ~Due

\* leave_modal: back to pass-through.
leave_modal(m) == [m EXCEPT !.modal = "none", !.prefix = FALSE]

\* A read returns; the machine interprets the chunk at once, the pump's step
\* forwards what is remote.
LocalInputRead ==
    /\ Waiting /\ ~eof.seen /\ ~input.there /\ output.writing = <<>>
    /\ typed < MaxChunks
    /\ \E chunk \in Chunks:
         LET p == process(control, chunk) IN
         /\ control' = p.m
         /\ input' = p.r
    /\ typed' = typed + 1
    /\ UNCHANGED <<flow, cancel, capability, promptFor, pending, transfer,
                   finished, cancelAudit, eof, other, output, done>>

LocalInputEof ==
    /\ Waiting /\ ~eof.seen /\ ~input.there /\ output.writing = <<>>
    /\ eof' = [seen |-> TRUE, due |-> TRUE]
    /\ cancel' = TRUE
    /\ UNCHANGED <<control, flow, capability, promptFor, input, pending, transfer,
                   finished, cancelAudit, other, typed, output, done>>

\* The forwarding step is over: a cancellation of the running transfer is
\* applied here, anything else waits in pending_local_input.
LocalInputProcessed ==
    /\ Waiting /\ input.there /\ output.writing = <<>>
    /\ input' = NoInput
    /\ IF input.action = "CancelOp" /\ transfer
       THEN /\ cancelAudit' = Audited
            /\ cancel' = (cancel \/ ~Audited)
            /\ UNCHANGED pending
       ELSE pending' = input /\ UNCHANGED <<cancelAudit, cancel>>
    /\ UNCHANGED <<control, flow, capability, promptFor, transfer, finished, eof,
                   other, typed, output, done>>

TransferCancelAudited ==
    /\ Waiting /\ cancelAudit
    /\ cancelAudit' = FALSE /\ cancel' = TRUE
    /\ UNCHANGED <<control, flow, capability, promptFor, input, pending, transfer,
                   finished, eof, other, typed, output, done>>

\* The running transfer reaches its outcome.
TransferEnds ==
    /\ Waiting /\ transfer /\ ~finished
    /\ transfer' = FALSE /\ finished' = TRUE
    /\ UNCHANGED <<uiVars, input, pending, cancelAudit, eof, other, typed, output, done>>

OtherStep ==
    /\ Waiting /\ OtherOwners
    /\ other' = ~other
    /\ UNCHANGED <<uiVars, input, pending, transfer, finished, cancelAudit, eof,
                   typed, output, done>>

\* Remote output: recorded first in an enterprise session, then delayed while
\* a prompt is open, else written to the display.
RemoteOutputRead ==
    /\ Waiting /\ output.recording = <<>> /\ output.writing = <<>>
    /\ output.next <= MaxOutput
    /\ LET read == [output EXCEPT !.next = @ + 1] IN
       output' = IF Audited THEN [read EXCEPT !.recording = <<output.next>>]
                 ELSE ShowOrDelay(read, output.next)
    /\ UNCHANGED <<uiVars, pumpVars, done>>

RemoteOutputProcessed ==
    /\ Waiting /\ output.recording # <<>>
    /\ output' = ShowOrDelay([output EXCEPT !.recording = <<>>], output.recording[1])
    /\ UNCHANGED <<uiVars, pumpVars, done>>

RemoteOutputWritten ==
    /\ Waiting /\ output.writing # <<>>
    /\ output' = [output EXCEPT !.shown = @ \o output.writing, !.writing = <<>>]
    /\ UNCHANGED <<uiVars, pumpVars, done>>

-----------------------------------------------------------------------------
\* The top of the loop, in its order.

\* handle_transfer_event.
HandleTransfer ==
    /\ done = "no" /\ Idle /\ finished
    /\ finished' = FALSE
    /\ control' = leave_modal(control)
    /\ flow' = NoFlow
    /\ output' = [output EXCEPT !.overflow = FALSE]
    /\ cancel' = FALSE
    /\ UNCHANGED <<capability, promptFor, input, pending, transfer, cancelAudit,
                   eof, other, typed, done>>

\* finish_local_input_eof.
HandleEof ==
    /\ done = "no" /\ Idle /\ ~finished /\ eof.due
    /\ eof' = [eof EXCEPT !.due = FALSE]
    /\ control' = IF flow.open THEN leave_modal(control) ELSE [control EXCEPT !.prefix = FALSE]
    /\ flow' = NoFlow
    /\ output' = IF flow.open THEN flush_delayed_output([output EXCEPT !.overflow = FALSE])
                 ELSE output
    /\ UNCHANGED <<cancel, capability, promptFor, input, pending, transfer,
                   finished, cancelAudit, other, typed, done>>

HandleInputDue == done = "no" /\ Idle /\ ~finished /\ ~eof.due /\ pending.there

\* The prompt takes the chunk's path bytes first, then the action applies.
Completed == flow.open /\ Completes(flow, pending.path)
Fed == IF flow.open THEN Advanced(flow, pending.path) ELSE NoFlow
Flushed == IF Completed THEN flush_delayed_output(output) ELSE output

\* Ctrl+] . ends the session.
HandleDetach ==
    /\ HandleInputDue /\ pending.action = "Detach"
    /\ pending' = NoInput
    /\ flow' = Fed /\ output' = Flushed
    /\ done' = "detached"
    /\ UNCHANGED <<control, cancel, capability, promptFor, input, transfer,
                   finished, cancelAudit, eof, other, typed>>

\* Ctrl+C cancels the open prompt; with no prompt it sets the cancel flag.
\* A prompt that the same chunk completed still runs its transfer.
Cancelled ==
    IF Fed.open
    THEN /\ flow' = NoFlow
         /\ control' = leave_modal(control)
         /\ output' = flush_delayed_output([output EXCEPT !.overflow = FALSE])
         /\ UNCHANGED cancel
    ELSE cancel' = TRUE /\ flow' = Fed /\ output' = Flushed /\ UNCHANGED control

HandleCancel ==
    /\ HandleInputDue /\ pending.action = "CancelOp" /\ ~Completed
    /\ pending' = NoInput
    /\ Cancelled
    /\ UNCHANGED <<capability, promptFor, input, transfer, finished, cancelAudit,
                   eof, other, typed, done>>

\* Ctrl+] u: begin_file_transfer_modal.  The first operation probes; only the
\* cached refusal is refused, so the prompt opens on whatever a probe answered.
HandleStart ==
    /\ HandleInputDue /\ pending.action = "Start"
    /\ pending' = NoInput
    /\ \E known \in (IF capability = "Unknown"
                     THEN {"Supported", "Unsupported", "Unknown"} ELSE {capability}):
         /\ capability' = known
         /\ IF known = "Unknown" \/ capability = "Unsupported"
            THEN /\ control' = leave_modal(control)
                 /\ UNCHANGED <<flow, promptFor>>
            ELSE /\ flow' = [NoFlow EXCEPT !.open = TRUE]
                 /\ promptFor' = known
                 /\ UNCHANGED control
    /\ UNCHANGED <<cancel, input, transfer, finished, cancelAudit, eof, other,
                   typed, output, done>>

\* A complete prompt: begin_transfer opens the substream.  It may fail, and a
\* flag that is already set cancels the operation before anything is sent.
HandleRun ==
    /\ HandleInputDue /\ Completed /\ pending.action # "Detach"
    /\ pending' = NoInput
    /\ flow' = NoFlow
    /\ LET flagged == cancel \/ pending.action = "CancelOp" IN
       /\ cancel' = flagged
       /\ \/ /\ ~flagged
             /\ transfer' = TRUE
             /\ control' = [control EXCEPT !.modal = "transferring"]
             /\ output' = Flushed
          \/ /\ transfer' = FALSE
             /\ control' = leave_modal(control)
             /\ output' = [Flushed EXCEPT !.overflow = FALSE]
    /\ UNCHANGED <<capability, promptFor, input, finished, cancelAudit, eof,
                   other, typed, done>>

\* Everything else: the prompt keeps its line, help and bells are only text.
HandleRest ==
    /\ HandleInputDue /\ ~Completed
    /\ pending.action \notin {"Detach", "CancelOp", "Start"}
    /\ pending' = NoInput
    /\ flow' = Fed
    /\ UNCHANGED <<control, cancel, capability, promptFor, input, transfer,
                   finished, cancelAudit, eof, other, typed, output, done>>

\* abort_prompt_for_overflow.
HandleOverflow ==
    /\ done = "no" /\ Idle /\ ~finished /\ ~eof.due /\ ~pending.there /\ output.overflow
    /\ control' = leave_modal(control)
    /\ flow' = NoFlow
    /\ output' = flush_delayed_output([output EXCEPT !.overflow = FALSE])
    /\ UNCHANGED <<cancel, capability, promptFor, pumpVars, done>>

-----------------------------------------------------------------------------
UiNext ==
    \/ LocalInputRead \/ LocalInputEof \/ LocalInputProcessed
    \/ TransferCancelAudited \/ TransferEnds \/ OtherStep
    \/ RemoteOutputRead \/ RemoteOutputProcessed \/ RemoteOutputWritten
    \/ HandleTransfer \/ HandleEof \/ HandleDetach \/ HandleCancel
    \/ HandleStart \/ HandleRun \/ HandleRest \/ HandleOverflow

UiSpec == UiInit /\ [][UiNext]_allVars

-----------------------------------------------------------------------------
\* Properties.

Increasing(seq) == \A i \in 1..(Len(seq) - 1): seq[i] < seq[i + 1]

\* Prompts never disturb the display: what was shown, what is being written,
\* what a prompt holds back and what is being recorded follow one another in
\* the order the host sent them, and nothing is missing but the chunks a full
\* delayed buffer refused.
DisplayInOrder ==
    LET way == output.shown \o output.writing \o output.delayed \o output.recording IN
    /\ Increasing(way)
    /\ ToSet(way) \cup output.lost = 1..(output.next - 1)
    /\ ToSet(way) \cap output.lost = {}
    /\ output.delayed # <<>> => flow.open

\* The terminal goes on in the prompt and during a transfer because the mode
\* has someone who ends it: an open prompt, a transfer, or a selector whose
\* chunk is still to be handled.
ModalHasOwner ==
    control.modal # "none"
        => \/ flow.open \/ transfer \/ finished
           \/ "Start" \in {input.action, pending.action}

\* A cancellation concerns the operation it was typed into: once the terminal
\* is back in pass-through the cancel flag is clear.
CancelIsOver ==
    done = "no" /\ control.modal = "none" /\ ~finished /\ ~eof.seen => ~cancel

\* A detach that the machine accepted still ends the session.
DetachIsKept ==
    control.ended => \/ done # "no"
                     \/ "Detach" \in {input.action, pending.action}

\* The prompt opens only for a peer that supports the protocol.
PromptNeedsSupport == flow.open => promptFor = "Supported"

\* What was typed after the selector is the beginning of the first field.
RemainderReachesPrompt ==
    [][HandleStart /\ flow'.open => flow'.line = feed(NoFlow, pending.rest).line]_allVars

\* A full delayed buffer ends the prompt, it does not eat remote output.
OverflowDropsNothing == output.lost = {}
=============================================================================
