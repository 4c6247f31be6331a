--------------------------- MODULE FileSubstreams ---------------------------
(***************************************************************************)
(* The host's file-substream coordinator (host.rs): the terminal bridge    *)
(* hands every file substream of the authenticated controller to a queue   *)
(* of one, and the coordinator serves one transfer, sends one Busy reply   *)
(* and keeps one substream for hand-off, all inside one biased select.     *)
(* What a transfer exchanges is FileTransfer's subject; here a transfer is *)
(* the time between its opening frame and the end of its audit records.    *)
(*                                                                         *)
(* The controller opens substreams 1, 2, ...: a capability probe, which it *)
(* closes at once, an upload or a download.  What it writes travels in     *)
(* `net'; the streams of one QUIC connection may overtake one another, the *)
(* streams multiplexed over TCP may not (ordered).                         *)
(***************************************************************************)
EXTENDS Integers, Sequences, FiniteSets

CONSTANTS
    MaxStreams,   \* bound on the substreams the controller opens
    Sessions      \* the sessions of this instance

\* A session: how many substreams its controller opens (a bound) and what for,
\* whether the transport keeps the order between them, whether the controller
\* opens one before its last operation has ended, whether transfers leave
\* audit records and whether appending one may fail.
ASSUME SessionsAssumption ==
    /\ MaxStreams \in Nat
    /\ Sessions \subseteq
         [streams : 1..MaxStreams, kinds : SUBSET {"probe", "upload", "download"},
          ordered : BOOLEAN, concurrent : BOOLEAN, audited : BOOLEAN, fails : BOOLEAN]

Streams == 1..MaxStreams

VARIABLES
    given,      \* the session, one of Sessions
    kind,       \* [Streams -> what it is for], "none" when not opened yet
    view,       \* [Streams -> how the operation stands for the controller]
    net,        \* what the controller wrote and the host has not received
    got,        \* [Streams -> what the host can read of the substream]
    answer,     \* [Streams -> how the host left the substream]
    queue,      \* the bounded channel from the bridge to the coordinator
    open,       \* the bridge still holds the channel's sender
    active,     \* the substream in the active slot
    settled,    \* active_wire_settled
    busy,       \* the substream in the Busy-reply slot
    deferred,   \* the substream kept for hand-off, 0 when there is none
    closed,     \* pending_closed
    coord,      \* "run", or how the coordinator returned
    log,        \* the transfer records appended to the audit record
    over        \* [Streams -> the active substream a Busy reply was owed to]

peerVars == <<kind, view, net>>
coordVars == <<active, settled, busy, deferred, closed, coord, log, over>>
sessionVars == <<peerVars, got, answer, queue, open, coordVars>>
vars == <<given, sessionVars>>

Free == [s |-> 0, phase |-> "none"]
Serving(s) == [s |-> s, phase |-> "reading"]

Init ==
    /\ given \in Sessions
    /\ kind = [s \in Streams |-> "none"]
    /\ view = [s \in Streams |-> "none"]
    /\ net = <<>>
    /\ got = [s \in Streams |-> {}]
    /\ answer = [s \in Streams |-> "none"]
    /\ queue = <<>>
    /\ open = TRUE
    /\ active = Free /\ settled = FALSE
    /\ busy = Free
    /\ deferred = 0
    /\ closed = FALSE
    /\ coord = "run"
    /\ log = <<>>
    /\ over = [s \in Streams |-> 0]

-----------------------------------------------------------------------------
\* The controller.

Part(s, what) == [s |-> s, what |-> what]

\* The next substream: begin_transfer opens one when the operation before it
\* has ended for the controller, and writes the opening frame; the first
\* shortcut probes the protocol, on a substream that is dropped unwritten.
OpenSubstream ==
    \E s \in Streams, k \in given.kinds:
        /\ open /\ s <= given.streams
        /\ \A t \in Streams: kind[t] = "none" <=> t >= s
        /\ given.concurrent \/ \A t \in 1..(s - 1): view[t] # "open"
        /\ "probe" \in given.kinds => (k = "probe" <=> s = 1)
        /\ kind' = [kind EXCEPT ![s] = k]
        /\ view' = [view EXCEPT ![s] = IF k = "probe" THEN "closed" ELSE "open"]
        /\ net' = net \o <<Part(s, "open"), Part(s, "first")>>
        /\ UNCHANGED <<got, answer, queue, open, coordVars>>

\* A controller that opens a substream and stays silent for a while.
OpenSilently ==
    \E s \in Streams:
        /\ open /\ given.concurrent /\ s <= given.streams
        /\ \A t \in Streams: kind[t] = "none" <=> t >= s
        /\ kind' = [kind EXCEPT ![s] = "silent"]
        /\ view' = [view EXCEPT ![s] = "open"]
        /\ net' = Append(net, Part(s, "open"))
        /\ UNCHANGED <<got, answer, queue, open, coordVars>>

\* The operation ends for the controller: it reads the host's terminal frame
\* or the end of the stream, commits a download, or cancels.
ReadsEnd(s) ==
    /\ view[s] = "open" /\ answer[s] # "none"
    /\ view' = [view EXCEPT ![s] = "settled"]
    /\ UNCHANGED <<kind, net, got, answer, queue, open, coordVars>>

Leaves(s, how) ==
    /\ view[s] = "open" /\ kind[s] # "silent"
    /\ how = "committed" => kind[s] = "download" /\ active = [s |-> s, phase |-> "wire"]
    /\ view' = [view EXCEPT ![s] = how]
    /\ net' = Append(net, Part(s, "last"))
    /\ UNCHANGED <<kind, got, answer, queue, open, coordVars>>

-----------------------------------------------------------------------------
\* The bridge (host.rs, bridge_terminal).

Without(seq, i) == SubSeq(seq, 1, i - 1) \o SubSeq(seq, i + 1, Len(seq))

Deliverable ==
    {i \in 1..Len(net) : IF given.ordered THEN i = 1
                         ELSE \A j \in 1..(i - 1): net[j].s # net[i].s}

\* A substream reaches incoming.file: try_send drops it when the channel is
\* full or gone.
Arrives ==
    \E i \in Deliverable:
        /\ net[i].what = "open"
        /\ net' = Without(net, i)
        /\ LET kept == open /\ coord = "run" /\ Len(queue) < 1 IN
           /\ queue' = IF kept THEN Append(queue, net[i].s) ELSE queue
           /\ answer' = IF kept THEN answer
                        ELSE [answer EXCEPT ![net[i].s] = "dropped"]
        /\ UNCHANGED <<kind, view, got, open, coordVars>>

Readable ==
    \E i \in Deliverable:
        /\ net[i].what # "open"
        /\ net' = Without(net, i)
        /\ got' = [got EXCEPT ![net[i].s] = @ \cup {net[i].what}]
        /\ UNCHANGED <<kind, view, answer, queue, open, coordVars>>

\* The session enters Closing: the shared cancel flag is set and the sender
\* dropped.
Closing ==
    /\ open
    /\ open' = FALSE
    /\ UNCHANGED <<peerVars, got, answer, queue, coordVars>>

-----------------------------------------------------------------------------
\* The coordinator.

\* Mutant of SlotsFreed: the hand-off substream is not taken.
SlotsFreedKeeping(a, b) == active' = a /\ UNCHANGED <<settled, deferred>>

\* A future that returned has left its slot; with both slots empty the
\* hand-off substream is taken at the top of the loop.
SlotsFreed(a, b) ==
    IF a = Free /\ b = Free /\ deferred # 0
    THEN active' = Serving(deferred) /\ settled' = FALSE /\ deferred' = 0
    ELSE active' = a /\ UNCHANGED <<settled, deferred>>

\* The biased select polls both serving futures before the channel.
CanRead(slot) ==
    \/ slot.phase = "reading" /\ "first" \in got[slot.s]
    \/ slot.phase = "wire" /\ "last" \in got[slot.s]

Leave(s, how) == answer' = [answer EXCEPT ![s] = how]

\* The coordinator returns the active future's error: every substream it
\* still owns closes with it, and the bridge enters Closing.
Fails(s) ==
    /\ coord' = "failed"
    /\ answer' = [t \in Streams |->
                    IF t \in {s, busy.s, deferred} \cup {queue[i] : i \in 1..Len(queue)}
                    THEN (IF answer[t] = "none" THEN "closed" ELSE answer[t])
                    ELSE answer[t]]
    /\ active' = Free /\ busy' = Free /\ deferred' = 0 /\ queue' = <<>>
    /\ open' = FALSE
    /\ UNCHANGED <<peerVars, got, settled, closed, log, over>>

\* read_file_open_frame: the end of a probe, a malformed frame, the control
\* timeout, or a base directory that could not be captured.
ActiveCloses ==
    /\ coord = "run" /\ active.phase = "reading"
    /\ SlotsFreed(Free, busy)
    /\ Leave(active.s, "closed")
    /\ UNCHANGED <<peerVars, got, queue, open, busy, closed, coord, log, over>>

\* A transfer begins; an upload's start record precedes its first effect, a
\* cancelled session leaves none.
ActiveBegins ==
    /\ coord = "run" /\ active.phase = "reading" /\ open
    /\ "first" \in got[active.s] /\ kind[active.s] \in {"upload", "download"}
    /\ \/ /\ active' = [active EXCEPT !.phase = "wire"]
          /\ log' = IF given.audited /\ kind[active.s] = "upload"
                    THEN Append(log, [s |-> active.s, what |-> "start"]) ELSE log
          /\ UNCHANGED <<peerVars, got, answer, queue, open, settled, busy,
                         deferred, closed, coord, over>>
       \/ given.audited /\ given.fails /\ Fails(active.s)

\* A download is recorded once its source is open.
Recorded(s) == \E i \in 1..Len(log): log[i] = [s |-> s, what |-> "start"]

DownloadRecorded ==
    /\ coord = "run" /\ active.phase = "wire"
    /\ kind[active.s] = "download" /\ given.audited /\ ~Recorded(active.s)
    /\ \/ /\ log' = Append(log, [s |-> active.s, what |-> "start"])
          /\ UNCHANGED <<peerVars, got, answer, queue, open, active, settled,
                         busy, deferred, closed, coord, over>>
       \/ given.fails /\ Fails(active.s)

\* The transfer leaves its wire state machine: it wrote Committed or Error,
\* or read the controller's Committed or Cancel.  wire_settled is published
\* before the end record is appended.
WireSettles ==
    /\ coord = "run" /\ active.phase = "wire"
    /\ active' = [active EXCEPT !.phase = "ending"]
    /\ settled' = TRUE
    /\ Leave(active.s, "ended")
    /\ UNCHANGED <<peerVars, got, queue, open, busy, deferred, closed, coord, log, over>>

\* record_transfer_end, then settle_file_transfer_outcome.
ActiveEnds ==
    /\ coord = "run" /\ active.phase = "ending"
    /\ \/ /\ SlotsFreed(Free, busy)
          /\ log' = IF Recorded(active.s)
                    THEN Append(log, [s |-> active.s, what |-> "end"]) ELSE log
          /\ UNCHANGED <<peerVars, got, answer, queue, open, busy, closed, coord, over>>
       \/ given.audited /\ given.fails /\ Fails(active.s)

\* serve_one_file_substream in its Busy role: an opening frame is answered,
\* anything else closes the substream.
BusyEnds ==
    /\ coord = "run" /\ busy # Free
    /\ busy' = Free
    /\ SlotsFreed(active, Free)
    /\ \/ /\ "first" \in got[busy.s] /\ kind[busy.s] # "probe"
          /\ Leave(busy.s, "busy")
       \/ Leave(busy.s, "closed")
    /\ UNCHANGED <<peerVars, got, queue, open, closed, coord, log, over>>

DispositionUnsettled(a, wireSettled, b) ==
    IF ~a /\ ~b THEN "Active" ELSE IF a /\ ~b THEN "Busy" ELSE "Drop"

DispositionEager(a, wireSettled, b) ==
    IF (~a \/ wireSettled) /\ ~b THEN "Active"
    ELSE IF ~a /\ b THEN "Deferred" ELSE IF a /\ ~b THEN "Busy" ELSE "Drop"

file_substream_disposition(a, wireSettled, b) ==
    IF ~a /\ ~b THEN "Active"
    ELSE IF (a /\ wireSettled) \/ (~a /\ b) THEN "Deferred"
    ELSE IF a /\ ~b THEN "Busy"
    ELSE "Drop"

Takes ==
    /\ coord = "run" /\ ~closed /\ deferred = 0
    /\ queue # <<>> /\ ~CanRead(active) /\ ~CanRead(busy)
    /\ queue' = Tail(queue)
    /\ LET s == Head(queue)
           role == file_substream_disposition(active # Free, settled, busy # Free)
       IN \/ /\ role = "Active"
             /\ active' = Serving(s) /\ settled' = FALSE
             /\ UNCHANGED <<answer, busy, deferred, over>>
          \/ /\ role = "Busy"
             /\ busy' = Serving(s) /\ over' = [over EXCEPT ![s] = active.s]
             /\ UNCHANGED <<answer, active, settled, deferred>>
          \/ /\ role = "Deferred"
             /\ deferred' = s
             /\ UNCHANGED <<answer, active, settled, busy, over>>
          \/ /\ role = "Drop"
             /\ Leave(s, "dropped")
             /\ UNCHANGED <<active, settled, busy, deferred, over>>
    /\ UNCHANGED <<peerVars, got, open, closed, coord, log>>

\* recv returns None once the sender is gone and the channel is empty.
SeesClosed ==
    /\ coord = "run" /\ ~closed /\ deferred = 0
    /\ ~open /\ queue = <<>> /\ ~CanRead(active) /\ ~CanRead(busy)
    /\ closed' = TRUE
    /\ UNCHANGED <<peerVars, got, answer, queue, open, active, settled, busy,
                   deferred, coord, log, over>>

Returns ==
    /\ coord = "run" /\ closed /\ active = Free /\ busy = Free
    /\ coord' = "ended"
    /\ UNCHANGED <<peerVars, got, answer, queue, open, active, settled, busy,
                   deferred, closed, log, over>>

-----------------------------------------------------------------------------
Controller ==
    \/ OpenSubstream \/ OpenSilently
    \/ \E s \in Streams: ReadsEnd(s) \/ \E how \in {"committed", "cancelled"}: Leaves(s, how)

Coordinator ==
    \/ ActiveCloses \/ ActiveBegins \/ DownloadRecorded \/ WireSettles
    \/ ActiveEnds \/ BusyEnds \/ Takes \/ SeesClosed \/ Returns

Next ==
    /\ Controller \/ Arrives \/ Readable \/ Closing \/ Coordinator
    /\ UNCHANGED given

\* Every future the coordinator polls is bounded by a timeout, so each of its
\* steps is eventually taken; the network and the controller owe nothing.
Fairness ==
    /\ WF_sessionVars(ActiveCloses) /\ WF_sessionVars(ActiveBegins) /\ WF_sessionVars(WireSettles)
    /\ WF_sessionVars(ActiveEnds) /\ WF_sessionVars(BusyEnds)
    /\ WF_sessionVars(Takes) /\ WF_sessionVars(SeesClosed) /\ WF_sessionVars(Returns)

Spec == Init /\ [][Next]_vars /\ Fairness

-----------------------------------------------------------------------------
\* Properties.

\* A controller that waits for its last operation, over a transport that keeps
\* the order of its substreams, is never refused: unless it
\* cancelled an earlier one, or the host has not yet served its probe, its
\* substream is neither answered Busy nor dropped while the session is open,
\* even when the host is still appending the end record of the transfer
\* before it.
SequentialNotRefused ==
    [][~given.concurrent /\ given.ordered =>
        \A s \in Streams:
            open /\ answer[s] = "none" /\ answer'[s] \in {"busy", "dropped"} =>
                \E t \in 1..(s - 1):
                    \/ view[t] = "cancelled"
                    \/ kind[t] = "probe" /\ answer[t] = "none"]_vars

\* The transfer records of the session never interleave: each start is
\* followed by its own end before the next transfer starts.
RecordsInOrder ==
    /\ \A i \in 1..Len(log): log[i].what = IF i % 2 = 1 THEN "start" ELSE "end"
    /\ \A i \in 1..Len(log): i % 2 = 0 => log[i].s = log[i - 1].s

\* Every substream the bridge accepted is eventually answered or closed, and
\* once the session is closing the coordinator returns.
SubstreamsDrain ==
    /\ \A s \in Streams:
         (\/ s \in {queue[i] : i \in 1..Len(queue)} \/ s \in {active.s, busy.s, deferred})
            ~> answer[s] # "none"
    /\ ~open ~> coord # "run"

-----------------------------------------------------------------------------
\* Stated by the repository and not met by the code.

\* Busy is a verdict about a transfer: the substream it defers to was opened
\* for one.
BusyMeansTransfer ==
    \A s \in Streams:
        answer[s] = "busy" => over[s] # 0 /\ kind[over[s]] # "probe"
=============================================================================
