------------------------ MODULE TerminalSessionProofs ------------------------
(***************************************************************************)
(* Proofs about TerminalSession.  TsInv says what an observer may hold,    *)
(* what is on file before an owner acts, when the host has recorded its    *)
(* exit, and how far both ends are with their manifests; the refinement of *)
(* the joint record follows from it.                                       *)
(***************************************************************************)
EXTENDS TerminalSession, FiniteSetTheorems, SequenceTheorems, TLAPS

-----------------------------------------------------------------------------
(* The inductive invariant *)

Reasons == {"none", "AuditFailure", "ConnectionLost", "LocalInterrupt", "NormalShellExit"}
Endings == {"none", "exit", "AuditFailure", "ConnectionLost", "LocalInterrupt", "NormalShellExit"}
Phases == {"Active", "Finalizing", "Finished", "Failed"}
Results == {"none", "ok", "lost", "interrupted", "audit"}

Events == {<<"resize">>, <<"exit">>, <<"complete">>} \cup {<<"close", r>> : r \in Reasons}
Histories == Seq(Events)
Directions == [count : Nat, bytes : Nat, partial : Nat]
Snapshots == {<<>>} \cup ((Nat \X Nat) \X (Nat \X Nat) \X Histories)
Checkpoints == [sequence : Nat, snapshot : Snapshots]
Manifests == [snapshot : Snapshots, ending : Endings, confirmed : Nat]

AllFrames ==
    [kind : {"checkpoint", "ack"}, body : Checkpoints]
    \cup [kind : {"notice"}, body : Reasons]
    \cup [kind : {"error"}, body : {"audit"}]
    \cup [kind : {"manifest", "signature"}, body : Manifests]

Sessions ==
    [phase : Phases, input : Directions, output : Directions, control : Histories, next : Nat,
     sent : Checkpoints, received : Checkpoints, confirmedSent : Nat, confirmedReceived : Nat]

Observers ==
    [s : Sessions, awaiting : BOOLEAN, writer : {"ok", "failed", "finished"}, noted : BOOLEAN,
     file : [input : Nat, output : Nat, control : Nat]]

\* What is on file was recorded, and a closed session has no partial block.
Sane(o) ==
    /\ o \in Observers
    /\ o.file.input <= Recorded(o.s.input)
    /\ o.file.output <= Recorded(o.s.output)
    /\ o.file.control <= Len(o.s.control)
    /\ o.s.phase \in {"Finalizing", "Finished"} =>
          o.s.input.partial = 0 /\ o.s.output.partial = 0

Closing == {"notice", "receiver", "barrier", "final", "manifest", "footer"}
Stages == {"active", "closing", "completing", "acknowledging", "hostclose", "done"} \cup Closing
OwnerNames == COwners \cup HOwners
OwnerStates == [st : {"idle", "audit", "io", "await"},
                what : {"none", "input", "output", "resize", "exit", "complete"}, n : Nat]

Controls == {"resize", "exit", "complete", "eof"}
Wires == [input : Nat, output : Nat, outputEof : BOOLEAN, toHost : Seq(Controls),
          toController : Seq(Controls)]
Deeds == [max : Scenarios, typed : Nat, sentInput : Nat, pty : Nat, produced : Nat,
          sentOutput : Nat, shown : Nat, resizes : Nat, sentResizes : Nat, sentExit : BOOLEAN,
          faults : SUBSET {"cancel", "signal", "disk", "link", "stall", "foreign"}]

TsTypes ==
    /\ obs \in [Ends -> Observers] /\ \A e \in Ends : Sane(obs[e])
    /\ frames \in [Ends -> Seq(AllFrames)]
    /\ connected \in BOOLEAN
    /\ stage \in [Ends -> Stages]
    /\ result \in [Ends -> Results]
    /\ reason \in [Ends -> Reasons]
    /\ ending \in [Ends -> Endings]
    /\ fin \in [Ends -> [sent : BOOLEAN, seen : BOOLEAN, own : Manifests, peer : Manifests]]
    /\ own \in [OwnerNames -> OwnerStates]
    /\ proc \in [Ends -> AllFrames \cup {NoFrame}]
    /\ wire \in Wires
    /\ did \in Deeds

\* What owner o is about to send or apply is on file.
Ready(o) ==
    /\ o = "input" => did.sentInput + own[o].n <= obs[Controller].file.input
    /\ o = "ptyInput" => did.pty + own[o].n <= obs[Host].file.input
    /\ o = "ptyOutput" /\ own[o].what = "output" =>
          did.sentOutput + own[o].n <= obs[Host].file.output
    /\ o = "output" => did.shown + own[o].n <= obs[Controller].file.output
    /\ o = "resize" => did.sentResizes + 1 <= Count(OnFile(Controller), <<"resize">>)

\* The part of the host's pump that comes after the exit is recorded.
ExitRecorded ==
    \/ own["ptyOutput"].what = "exit" /\ own["ptyOutput"].st # "audit"
    \/ own["ptyOutput"].what = "complete"

\* On file before it is sent or applied.
Effects ==
    /\ did.sentInput <= obs[Controller].file.input /\ did.pty <= obs[Host].file.input
    /\ did.sentOutput <= obs[Host].file.output /\ did.shown <= obs[Controller].file.output
    /\ did.sentResizes <= Count(OnFile(Controller), <<"resize">>)
    /\ \A o \in OwnerNames : own[o].st = "io" => Ready(o)
    /\ did.sentExit \/ ExitRecorded => Count(OnFile(Host), <<"exit">>) >= 1

\* The shell has not been reaped yet, or its exit is not recorded yet.
ExitOpen ==
    \/ own["ptyOutput"].what \in {"resize", "output"}
    \/ own["ptyOutput"].what = "exit" /\ own["ptyOutput"].st = "audit"
    \/ own["ptyOutput"] = Idle /\ Active(Host)

ExitCount == Count(obs[Host].s.control, <<"exit">>)

\* The shell exits once.
Exits ==
    /\ ExitCount <= 1
    /\ ExitOpen => ExitCount = 0
    /\ own["ptyOutput"].what = "none" => own["ptyOutput"] = Idle
    /\ own["ptyOutput"].st = "await" => own["ptyOutput"].what = "exit"
    /\ result[Host] = "ok" \/ ending[Host] = "exit" => ExitCount = 1

\* The manifests and signatures in a substream.
Pairs(q) == {q[i] : i \in {j \in DOMAIN q : q[j].kind \in {"manifest", "signature"}}}

\* How far an end has come with its manifest.
Closes(e) ==
    /\ stage[e] \in {"final", "manifest", "footer"} => obs[e].s.phase = "Finalizing"
    /\ obs[e].s.phase = "Finalizing" => stage[e] \in {"final", "manifest", "footer", "done"}
    /\ obs[e].s.phase = "Finished" => stage[e] = "done"
    /\ stage[e] \in Closing => ending[e] # "none"
    /\ fin[e].own # NoManifest =>
          /\ stage[e] \in {"manifest", "footer", "done"}
          /\ fin[e].own.snapshot = Snapshot(obs[e].s)
          /\ fin[e].own.ending = ending[e]
          /\ obs[e].s.phase # "Active"
          /\ obs[e].s.input.partial = 0 /\ obs[e].s.output.partial = 0
    /\ stage[e] \in {"manifest", "footer"} => fin[e].own # NoManifest
    /\ stage[e] = "footer" => fin[e].peer = fin[e].own
    /\ fin[e].peer # NoManifest => fin[e].peer = fin[Peer(e)].own
    /\ \A f \in Pairs(frames[e]) : f.body = fin[Peer(e)].own /\ fin[Peer(e)].own # NoManifest

\* The controller returns the exit code only out of the whole exchange.
ExitReturned ==
    result[Controller] = "ok" =>
        /\ stage[Controller] \in Closing => ending[Controller] = "exit"
        /\ stage[Controller] = "done" =>
              /\ Finished(Controller) /\ ending[Controller] = "exit"
              /\ fin[Controller].own # NoManifest /\ fin[Controller].peer = fin[Controller].own

TsInv == TsTypes /\ Effects /\ Exits /\ (\A e \in Ends : Closes(e)) /\ ExitReturned
-----------------------------------------------------------------------------
(* Directions, histories and counts *)

\* Quotient and remainder make up the dividend.
LEMMA Division ==
    ASSUME NEW a \in Nat, NEW b \in Nat \ {0}
    PROVE  /\ ((a \div b) * b) + (a % b) = a
           /\ a \div b \in Nat /\ a % b \in Nat /\ (a \div b) * b \in Nat
  <1>1. /\ ((a \div b) * b) + (a % b) = a
        /\ a \div b \in Nat /\ a % b \in Nat
    OBVIOUS
  <1>2. \A x, y \in Nat : x * y \in Nat
    OBVIOUS
  <1> QED  BY <1>1, <1>2

\* Normalizer::feed loses and invents no byte, whatever the segments.
LEMMA FeedFacts ==
    ASSUME NEW d \in Directions, NEW n \in Nat
    PROVE  Feed(d, n) \in Directions /\ Recorded(Feed(d, n)) = Recorded(d) + n
  <1>1. PICK a : a = d.partial + n
    OBVIOUS
  <1>2. PICK q : q = a \div BlockLen
    OBVIOUS
  <1>3. PICK r : r = a % BlockLen
    OBVIOUS
  <1>4. PICK m : m = q * BlockLen
    OBVIOUS
  <1>5. Feed(d, n) = [count |-> d.count + q, bytes |-> d.bytes + m, partial |-> r]
    BY <1>1, <1>2, <1>3, <1>4 DEF Feed
  <1>6. a \in Nat
    BY <1>1 DEF Directions
  <1>7. m + r = a /\ q \in Nat /\ r \in Nat /\ m \in Nat
    BY <1>6, <1>2, <1>3, <1>4, Division, BlockLenAssumption
  <1> QED  BY <1>5, <1>7, <1>1 DEF Recorded, Directions

\* Nor does Normalizer::finish.
LEMMA FinishFacts ==
    ASSUME NEW d \in Directions
    PROVE  /\ Finish(d) \in Directions /\ Finish(d).partial = 0
           /\ Recorded(Finish(d)) = Recorded(d) /\ Recorded(d) \in Nat
  BY DEF Finish, Directions, Recorded

\* The next history says everything the last one did.
Continued(h, k) == Len(k) >= Len(h) /\ SubSeq(k, 1, Len(h)) = h

\* A history continues itself, and one more event continues it.
LEMMA HistoryFacts ==
    ASSUME NEW h \in Histories
    PROVE  /\ Len(h) \in Nat /\ Continued(h, h)
           /\ \A v \in Events : Append(h, v) \in Histories /\ Len(Append(h, v)) = Len(h) + 1
                                /\ Continued(h, Append(h, v))
  <1> USE DEF Histories, Continued
  <1> HIDE DEF Events
  <1>1. Len(h) \in Nat /\ SubSeq(h, 1, Len(h)) = h
    OBVIOUS
  <1>2. ASSUME NEW v \in Events
        PROVE  Append(h, v) \in Seq(Events) /\ Len(Append(h, v)) = Len(h) + 1
               /\ SubSeq(Append(h, v), 1, Len(h)) = h
    OBVIOUS
  <1> QED  BY <1>1, <1>2

\* Counting in a part of a history, and after one more event.
LEMMA CountFacts ==
    ASSUME NEW h \in Histories, NEW v
    PROVE  /\ Count(h, v) \in Nat
           /\ \A n \in 0..Len(h) : Count(SubSeq(h, 1, n), v) \in Nat
           /\ \A k \in Histories : Continued(h, k) =>
                 \A n \in 0..Len(h), m \in 0..Len(k) :
                    n <= m => Count(SubSeq(h, 1, n), v) <= Count(SubSeq(k, 1, m), v)
           /\ SubSeq(h, 1, Len(h)) = h
           /\ \A w \in Events : Count(Append(h, w), v) = Count(h, v) + (IF w = v THEN 1 ELSE 0)
  <1> DEFINE At(q) == {i \in DOMAIN q : q[i] = v}
  <1> USE DEF Histories, Continued
  <1> HIDE DEF Events
  <1>1. ASSUME NEW k \in Seq(Events), NEW m \in 0..Len(k)
        PROVE  /\ SubSeq(k, 1, m) \in Seq(Events) /\ DOMAIN SubSeq(k, 1, m) = 1..m
               /\ \A i \in 1..m : SubSeq(k, 1, m)[i] = k[i]
    OBVIOUS
  <1>2. ASSUME NEW k \in Seq(Events)
        PROVE  IsFiniteSet(At(k)) /\ Cardinality(At(k)) \in Nat
    <2>1. DOMAIN k = 1..Len(k) /\ Len(k) \in Nat
      OBVIOUS
    <2>2. IsFiniteSet(1..Len(k))
      BY <2>1, FS_Interval
    <2>3. At(k) \subseteq 1..Len(k)
      BY <2>1
    <2> HIDE DEF At
    <2> QED  BY <2>2, <2>3, FS_Subset, FS_CardinalityType
  <1>3. ASSUME NEW k \in Seq(Events), NEW n \in 0..Len(h), NEW m \in 0..Len(k),
               Len(k) >= Len(h), SubSeq(k, 1, Len(h)) = h, n <= m
        PROVE  Cardinality(At(SubSeq(h, 1, n))) <= Cardinality(At(SubSeq(k, 1, m)))
    <2>1. \A i \in 1..Len(h) : k[i] = h[i]
      BY <1>1, <1>3
    <2>2. At(SubSeq(h, 1, n)) \subseteq At(SubSeq(k, 1, m))
      <3>1. ASSUME NEW i \in At(SubSeq(h, 1, n))
            PROVE  i \in At(SubSeq(k, 1, m))
        <4>1. i \in 1..n /\ h[i] = v
          BY <1>1
        <4>2. i \in 1..m /\ k[i] = v
          BY <4>1, <2>1, <1>3
        <4> QED  BY <4>2, <1>1
      <3> QED  BY <3>1
    <2>3. SubSeq(k, 1, m) \in Seq(Events)
      BY <1>1
    <2> HIDE DEF At
    <2> QED  BY <2>2, <2>3, <1>2, FS_Subset
  <1>4. SubSeq(h, 1, Len(h)) = h
    OBVIOUS
  <1>5. ASSUME NEW w \in Events
        PROVE  Cardinality(At(Append(h, w))) = Cardinality(At(h)) + (IF w = v THEN 1 ELSE 0)
    <2>1. /\ DOMAIN Append(h, w) = DOMAIN h \cup {Len(h) + 1} /\ Len(h) + 1 \notin DOMAIN h
          /\ Append(h, w)[Len(h) + 1] = w
          /\ \A i \in DOMAIN h : Append(h, w)[i] = h[i]
      OBVIOUS
    <2>2. CASE w = v
      <3>1. At(Append(h, w)) = At(h) \cup {Len(h) + 1} /\ Len(h) + 1 \notin At(h)
        BY <2>1, <2>2
      <3> HIDE DEF At
      <3> QED  BY <3>1, <2>2, <1>2, FS_AddElement
    <2>3. CASE w # v
      <3>1. At(Append(h, w)) = At(h)
        BY <2>1, <2>3
      <3> HIDE DEF At
      <3> QED  BY <3>1, <2>3, <1>2
    <2> QED  BY <2>2, <2>3
  <1>6. \A q : Count(q, v) = Cardinality(At(q))
    BY DEF Count
  <1> HIDE DEF At
  <1>7. \A n \in 0..Len(h) : Cardinality(At(SubSeq(h, 1, n))) \in Nat
    BY <1>1, <1>2
  <1> QED  BY <1>2, <1>3, <1>4, <1>5, <1>6, <1>7

-----------------------------------------------------------------------------
(* What the methods of the observer leave behind *)

\* A recording step: s becomes n.
Longer(s, n) ==
    /\ n \in Sessions /\ n.phase = s.phase
    /\ Recorded(s.input) <= Recorded(n.input) /\ Recorded(s.output) <= Recorded(n.output)
    /\ Continued(s.control, n.control)

\* The account and the file are kept.
Kept(o, p) ==
    /\ Sane(p) /\ p.file = o.file
    /\ p.s.input = o.s.input /\ p.s.output = o.s.output /\ p.s.control = o.s.control

\* All that a step ever does to an observer: an account and a file grow, the
\* account only while the session is active, and the phase goes forward.
Advances(o, p) ==
    /\ Sane(p)
    /\ Recorded(o.s.input) <= Recorded(p.s.input) /\ Recorded(o.s.output) <= Recorded(p.s.output)
    /\ Continued(o.s.control, p.s.control)
    /\ o.file.input <= p.file.input /\ o.file.output <= p.file.output
    /\ o.file.control <= p.file.control
    /\ o.s.phase # "Active" =>
          p.s.input = o.s.input /\ p.s.output = o.s.output /\ p.s.control = o.s.control
    /\ \/ p.s.phase = o.s.phase
       \/ o.s.phase \in {"Active", "Finalizing"} /\ p.s.phase = "Failed"
       \/ o.s.phase = "Active" /\ p.s.phase = "Finalizing"
       \/ o.s.phase = "Finalizing" /\ p.s.phase = "Finished"

\* A step that keeps the account advances an observer by its phase alone.
LEMMA KeptAdvances ==
    ASSUME NEW o, Sane(o), NEW p, Kept(o, p),
           \/ p.s.phase = o.s.phase
           \/ o.s.phase \in {"Active", "Finalizing"} /\ p.s.phase = "Failed"
           \/ o.s.phase = "Finalizing" /\ p.s.phase = "Finished"
    PROVE  Advances(o, p)
  <1>1. o.s.control \in Histories /\ o.s.input \in Directions /\ o.s.output \in Directions
        /\ o.file.input \in Nat /\ o.file.output \in Nat /\ o.file.control \in Nat
    BY DEF Sane, Observers, Sessions
  <1>2. Recorded(o.s.input) \in Nat /\ Recorded(o.s.output) \in Nat /\ Continued(o.s.control, o.s.control)
    BY <1>1, FinishFacts, HistoryFacts
  <1> QED  BY <1>1, <1>2 DEF Kept, Advances

\* record_input, record_output and commit_shared_control.
LEMMA LongerFacts ==
    ASSUME NEW o, Sane(o), NEW n \in Nat, NEW v \in Events
    PROVE  /\ Longer(o.s, RecordInput(o.s, n)) /\ Longer(o.s, RecordOutput(o.s, n))
           /\ Longer(o.s, RecordControl(o.s, v))
           /\ RecordInput(o.s, n).control = o.s.control /\ RecordOutput(o.s, n).control = o.s.control
           /\ RecordControl(o.s, v).control = Append(o.s.control, v)
           /\ Recorded(RecordInput(o.s, n).input) = Recorded(o.s.input) + n
           /\ Recorded(RecordOutput(o.s, n).output) = Recorded(o.s.output) + n
  <1>1. o.s \in Sessions /\ o.s.control \in Histories /\ o.s.input \in Directions
        /\ o.s.output \in Directions
    BY DEF Sane, Observers, Sessions
  <1>2. PICK i : i = Feed(o.s.input, n)
    OBVIOUS
  <1>3. PICK u : u = Feed(o.s.output, n)
    OBVIOUS
  <1>4. PICK h : h = Append(o.s.control, v)
    OBVIOUS
  <1>5. /\ i \in Directions /\ Recorded(i) = Recorded(o.s.input) + n
        /\ u \in Directions /\ Recorded(u) = Recorded(o.s.output) + n
        /\ Recorded(o.s.input) \in Nat /\ Recorded(o.s.output) \in Nat
    BY <1>1, <1>2, <1>3, FeedFacts, FinishFacts
  <1>6. h \in Histories /\ Continued(o.s.control, h) /\ Continued(o.s.control, o.s.control)
    BY <1>1, <1>4, HistoryFacts
  <1>7. /\ RecordInput(o.s, n) = [o.s EXCEPT !.input = i]
        /\ RecordOutput(o.s, n) = [o.s EXCEPT !.output = u]
        /\ RecordControl(o.s, v) = [o.s EXCEPT !.control = h]
    BY <1>2, <1>3, <1>4 DEF RecordInput, RecordOutput, RecordControl
  <1> HIDE DEF Directions, Histories, Events
  <1>8. /\ [o.s EXCEPT !.input = i] \in Sessions /\ [o.s EXCEPT !.output = u] \in Sessions
        /\ [o.s EXCEPT !.control = h] \in Sessions
    BY <1>1, <1>5, <1>6 DEF Sessions
  <1>9. ASSUME NEW p, p = [o.s EXCEPT !.input = i]
        PROVE  p.phase = o.s.phase /\ p.input = i /\ p.output = o.s.output /\ p.control = o.s.control
    BY <1>1, <1>9 DEF Sessions
  <1>10. ASSUME NEW p, p = [o.s EXCEPT !.output = u]
         PROVE  p.phase = o.s.phase /\ p.input = o.s.input /\ p.output = u /\ p.control = o.s.control
    BY <1>1, <1>10 DEF Sessions
  <1>11. ASSUME NEW p, p = [o.s EXCEPT !.control = h]
         PROVE  p.phase = o.s.phase /\ p.input = o.s.input /\ p.output = o.s.output /\ p.control = h
    BY <1>1, <1>11 DEF Sessions
  <1> HIDE DEF Sessions
  <1>12. Longer(o.s, RecordInput(o.s, n)) /\ RecordInput(o.s, n).control = o.s.control
         /\ Recorded(RecordInput(o.s, n).input) = Recorded(o.s.input) + n
    BY <1>5, <1>6, <1>7, <1>8, <1>9 DEF Longer
  <1>13. Longer(o.s, RecordOutput(o.s, n)) /\ RecordOutput(o.s, n).control = o.s.control
         /\ Recorded(RecordOutput(o.s, n).output) = Recorded(o.s.output) + n
    BY <1>5, <1>6, <1>7, <1>8, <1>10 DEF Longer
  <1>14. Longer(o.s, RecordControl(o.s, v)) /\ RecordControl(o.s, v).control = Append(o.s.control, v)
    BY <1>4, <1>5, <1>6, <1>7, <1>8, <1>11 DEF Longer
  <1> QED  BY <1>12, <1>13, <1>14

\* append_batch: everything recorded is on file.
OnFileAll(p) ==
    /\ p.file.input = Recorded(p.s.input) /\ p.file.output = Recorded(p.s.output)
    /\ p.file.control = Len(p.s.control)

\* append_batch puts the whole account on file.
LEMMA AppendedFacts ==
    ASSUME NEW o, o \in Observers, o.writer = "ok",
           o.s.phase \in {"Finalizing", "Finished"} => o.s.input.partial = 0 /\ o.s.output.partial = 0
    PROVE  Sane(Appended(o)) /\ Appended(o).s = o.s /\ OnFileAll(Appended(o))
  <1>1. o.s.control \in Histories /\ o.s.input \in Directions /\ o.s.output \in Directions
    BY DEF Observers, Sessions
  <1>2. PICK i : i = Recorded(o.s.input)
    OBVIOUS
  <1>3. PICK u : u = Recorded(o.s.output)
    OBVIOUS
  <1>4. PICK c : c = Len(o.s.control)
    OBVIOUS
  <1>5. i \in Nat /\ u \in Nat /\ c \in Nat
    BY <1>1, <1>2, <1>3, <1>4, FinishFacts, HistoryFacts
  <1>6. Appended(o) = [o EXCEPT !.file = [input |-> i, output |-> u, control |-> c]]
    BY <1>2, <1>3, <1>4 DEF Appended
  <1> HIDE DEF Sessions
  <1> QED  BY <1>2, <1>3, <1>4, <1>5, <1>6 DEF Sane, Observers, OnFileAll

\* A failed observer keeps its account and its file.
LEMMA FailFacts ==
    ASSUME NEW o, Sane(o)
    PROVE  Kept(o, FailObserver(o)) /\ FailObserver(o).s.phase = "Failed"
  <1>1. CASE o.s.phase = "Failed"
    BY <1>1 DEF FailObserver, Kept
  <1>2. CASE o.s.phase # "Failed"
    <2>1. PICK n : n = [o.s EXCEPT !.phase = "Failed"]
      OBVIOUS
    <2>2. /\ n \in Sessions /\ n.phase = "Failed" /\ n.input = o.s.input /\ n.output = o.s.output
          /\ n.control = o.s.control
      <3> HIDE DEF Directions, Histories, Checkpoints
      <3> QED  BY <2>1 DEF Sane, Observers, Sessions, Phases
    <2>3. FailObserver(o) = [o EXCEPT !.s = n, !.noted = (o.writer = "ok")]
      BY <1>2, <2>1 DEF FailObserver, FailClosed
    <2> HIDE DEF Sessions
    <2> QED  BY <2>2, <2>3 DEF Kept, Sane, Observers
  <1> QED  BY <1>1, <1>2

\* shared_snapshot and the checkpoint of it.
LEMMA SnapshotFacts ==
    ASSUME NEW s \in Sessions
    PROVE  /\ Snapshot(s) \in Snapshots /\ Snapshot(s) # <<>>
           /\ Checkpoint(s) \in Checkpoints /\ LastConfirmed(s) \in Nat
           /\ [sequence |-> s.next + 1, snapshot |-> Snapshot(s)] \in Checkpoints
           /\ \A e \in Endings : Manifest(s, e) \in Manifests
  <1>1. Snapshot(s) \in Snapshots /\ Snapshot(s) # <<>>
    BY DEF Snapshot, Snapshots, Sessions, Directions
  <1>2. s.next \in Nat /\ s.confirmedSent \in Nat /\ s.confirmedReceived \in Nat
    BY DEF Sessions
  <1> HIDE DEF Snapshots
  <1> QED  BY <1>1, <1>2 DEF Checkpoint, Checkpoints, LastConfirmed, Manifest, Manifests

\* Sending a checkpoint changes neither account nor phase.
LEMMA SendFacts ==
    ASSUME NEW o, Sane(o)
    PROVE  Kept(o, SendCheckpoint(o)) /\ SendCheckpoint(o).s.phase = o.s.phase
  <1>1. o.s \in Sessions
    BY DEF Sane, Observers
  <1>2. PICK c : c = Checkpoint(o.s)
    OBVIOUS
  <1>3. c \in Checkpoints
    BY <1>1, <1>2, SnapshotFacts
  <1>4. PICK n : n = [o.s EXCEPT !.sent = c, !.next = o.s.next + 1]
    OBVIOUS
  <1>5. /\ n \in Sessions /\ n.phase = o.s.phase /\ n.input = o.s.input /\ n.output = o.s.output
        /\ n.control = o.s.control
    <2>1. PICK k : k = o.s.next + 1
      OBVIOUS
    <2>2. k \in Nat
      BY <1>1, <2>1 DEF Sessions
    <2>3. n = [o.s EXCEPT !.sent = c, !.next = k]
      BY <1>4, <2>1
    <2> HIDE DEF Directions, Histories, Checkpoints, Phases
    <2> QED  BY <1>1, <1>3, <2>2, <2>3 DEF Sessions
  <1>6. SendCheckpoint(o) = [o EXCEPT !.s = n, !.awaiting = TRUE]
    <2>1. n = BuildCheckpoint(o.s)
      BY <1>1, <1>2, <1>4 DEF BuildCheckpoint, Sessions
    <2> QED  BY <2>1 DEF SendCheckpoint
  <1> HIDE DEF Sessions
  <1> QED  BY <1>5, <1>6 DEF Kept, Sane, Observers

\* handle_frame by the kind of the frame.
LEMMA FrameCases ==
    ASSUME NEW o, NEW f
    PROVE  /\ f.kind = "checkpoint" =>
                FrameError(o, f) = CheckpointError(o, f.body)
                /\ HandleFrame(o, f) = HandleCheckpoint(o, f.body)
           /\ f.kind = "ack" =>
                FrameError(o, f) = AckError(o, f.body) /\ HandleFrame(o, f) = HandleAck(o, f.body)
           /\ f.kind \notin {"checkpoint", "ack"} => HandleFrame(o, f) = o
  <1>1. "checkpoint" # "ack" /\ "checkpoint" \notin {"notice", "error"} /\ "ack" \notin {"notice", "error"}
    OBVIOUS
  <1>2. CASE f.kind = "checkpoint"
    BY <1>1, <1>2, Zenon DEF FrameError, HandleFrame
  <1>3. CASE f.kind = "ack"
    BY <1>1, <1>3, Zenon DEF FrameError, HandleFrame
  <1>4. CASE f.kind \notin {"checkpoint", "ack"}
    <2>1. f.kind # "checkpoint" /\ f.kind # "ack"
      BY <1>4
    <2> QED  BY <2>1, Zenon DEF HandleFrame
  <1> QED  BY <1>1, <1>2, <1>3, <1>4

\* The phases of an exchange.
Talking == {"Active", "Finalizing"}

\* No frame of the peer changes the account; it may fail the session.
LEMMA HandleFacts ==
    ASSUME NEW o, Sane(o), NEW f \in AllFrames
    PROVE  LET p == HandleFrame(o, f) IN
           /\ Kept(o, p)
           /\ p.s.phase = o.s.phase \/ (o.s.phase \in Talking /\ p.s.phase = "Failed")
           /\ FrameError(o, f) = "none" => p.s.phase = o.s.phase
  <1> USE DEF Talking
  <1>1. o.s \in Sessions /\ Kept(o, o)
    BY DEF Sane, Observers, Kept
  <1>2. PICK x : x = [o.s EXCEPT !.phase = "Failed"]
    OBVIOUS
  <1>3. /\ x \in Sessions /\ x.phase = "Failed" /\ x.input = o.s.input /\ x.output = o.s.output
        /\ x.control = o.s.control
    <2> HIDE DEF Directions, Histories, Checkpoints
    <2> QED  BY <1>1, <1>2 DEF Sessions, Phases
  <1>4. ASSUME NEW c, c = f.body, f.kind = "checkpoint"
        PROVE  LET p == HandleCheckpoint(o, c) IN
               /\ Kept(o, p)
               /\ p.s.phase = o.s.phase \/ (o.s.phase \in Talking /\ p.s.phase = "Failed")
               /\ CheckpointError(o, c) = "none" => p.s.phase = o.s.phase
    <2>1. c \in Checkpoints
      <3> HIDE DEF Checkpoints, Manifests, Reasons
      <3> QED  BY <1>4 DEF AllFrames
    <2>2. PICK n : n = [o.s EXCEPT !.received = c, !.confirmedReceived = c.sequence]
      OBVIOUS
    <2>3. /\ n \in Sessions /\ n.phase = o.s.phase /\ n.input = o.s.input /\ n.output = o.s.output
          /\ n.control = o.s.control
      <3>1. c.sequence \in Nat
        BY <2>1 DEF Checkpoints
      <3> HIDE DEF Directions, Histories, Checkpoints, Phases
      <3> QED  BY <1>1, <2>1, <2>2, <3>1 DEF Sessions
    <2>4. HandleCheckpoint(o, c) =
            IF o.s.phase \in Talking
            THEN [o EXCEPT !.s = IF CheckpointAccepted(o.s, c) THEN n ELSE x] ELSE o
      BY <1>2, <2>2 DEF HandleCheckpoint, ReceiveCheckpoint, FailCheckpoint
    <2>5. CheckpointError(o, c) = "none" => o.s.phase \in Talking /\ CheckpointAccepted(o.s, c)
      BY DEF CheckpointError
    <2> HIDE DEF Sessions
    <2> QED  BY <1>1, <1>3, <2>3, <2>4, <2>5 DEF Kept, Sane, Observers
  <1>5. ASSUME NEW c, c = f.body, f.kind = "ack"
        PROVE  LET p == HandleAck(o, c) IN
               /\ Kept(o, p)
               /\ p.s.phase = o.s.phase \/ (o.s.phase \in Talking /\ p.s.phase = "Failed")
               /\ AckError(o, c) = "none" => p.s.phase = o.s.phase
    <2>1. c \in Checkpoints
      <3> HIDE DEF Checkpoints, Manifests, Reasons
      <3> QED  BY <1>5 DEF AllFrames
    <2>2. PICK q : q = IF o.s.confirmedSent >= c.sequence THEN o.s.confirmedSent ELSE c.sequence
      OBVIOUS
    <2>3. PICK n : n = [o.s EXCEPT !.confirmedSent = q]
      OBVIOUS
    <2>4. /\ n \in Sessions /\ n.phase = o.s.phase /\ n.input = o.s.input /\ n.output = o.s.output
          /\ n.control = o.s.control
      <3>1. c.sequence \in Nat
        BY <2>1 DEF Checkpoints
      <3> HIDE DEF Directions, Histories, Checkpoints, Phases
      <3> QED  BY <1>1, <2>2, <2>3, <3>1 DEF Sessions
    <2>5. PICK b \in BOOLEAN : HandleAck(o, c) =
            IF o.s.phase \in Talking
            THEN [o EXCEPT !.s = IF AckAccepted(o.s, c) THEN n ELSE x, !.awaiting = b] ELSE o
      BY <1>2, <2>2, <2>3 DEF HandleAck, ReceiveAck, FailCheckpoint, Sane, Observers
    <2>6. AckError(o, c) = "none" => o.s.phase \in Talking /\ AckAccepted(o.s, c)
      BY DEF AckError
    <2> HIDE DEF Sessions
    <2> QED  BY <1>1, <1>3, <2>4, <2>5, <2>6 DEF Kept, Sane, Observers
  <1>6. CASE f.kind = "checkpoint"
    BY <1>4, <1>6, FrameCases
  <1>7. CASE f.kind = "ack"
    BY <1>5, <1>7, FrameCases
  <1>8. CASE f.kind \notin {"checkpoint", "ack"}
    BY <1>1, <1>8, FrameCases
  <1> QED  BY <1>6, <1>7, <1>8

\* record(): with the writer at work everything up to next is on file, without
\* it the session has failed.
LEMMA RecordFacts ==
    ASSUME NEW o, Sane(o), o.s.phase # "Finished", NEW next, Longer(o.s, next)
    PROVE  LET p == Record(o, next) IN
           /\ Advances(o, p)
           /\ RecordOk(o) => p.s = next /\ OnFileAll(p) /\ o.s.phase = "Active"
           /\ ~RecordOk(o) => p.s.phase = "Failed" /\ p.s.control \in {o.s.control, next.control}
  <1>1. o \in Observers /\ o.s \in Sessions /\ next \in Sessions /\ next.phase = o.s.phase
    BY DEF Sane, Observers, Longer
  <1>2. PICK q : q = [o EXCEPT !.s = next]
    OBVIOUS
  <1>3. q \in Observers /\ q.s = next /\ q.writer = o.writer /\ q.file = o.file
    <2> HIDE DEF Sessions
    <2> QED  BY <1>1, <1>2 DEF Observers
  <1>4. /\ o.file.input \in Nat /\ o.file.output \in Nat /\ o.file.control \in Nat
        /\ o.s.input \in Directions /\ o.s.output \in Directions /\ o.s.control \in Histories
        /\ next.input \in Directions /\ next.output \in Directions /\ next.control \in Histories
    BY <1>1 DEF Observers, Sessions
  <1>5. /\ Recorded(o.s.input) \in Nat /\ Recorded(o.s.output) \in Nat /\ Len(o.s.control) \in Nat
        /\ Recorded(next.input) \in Nat /\ Recorded(next.output) \in Nat /\ Len(next.control) \in Nat
    BY <1>4, FinishFacts, HistoryFacts
  <1>6. CASE RecordOk(o)
    <2>1. o.s.phase = "Active" /\ o.writer = "ok"
      BY <1>6 DEF RecordOk, Recordable
    <2>2. Record(o, next) = Appended(q)
      BY <1>2, <1>6 DEF Record
    <2>3. Sane(Appended(q)) /\ Appended(q).s = next /\ OnFileAll(Appended(q))
      BY <1>1, <1>3, <2>1, AppendedFacts
    <2>4. Advances(o, Appended(q))
      BY <1>1, <1>4, <1>5, <2>1, <2>3, SMTT(30) DEF Advances, Longer, Sane, OnFileAll, Continued
    <2> QED  BY <1>6, <2>1, <2>2, <2>3, <2>4
  <1>7. CASE ~RecordOk(o) /\ Recordable(o.s)
    <2>1. o.s.phase = "Active"
      BY <1>7 DEF Recordable
    <2>2. Record(o, next) = FailObserver(q)
      BY <1>2, <1>7 DEF Record
    <2>3. Sane(q)
      BY <1>1, <1>3, <1>4, <1>5, <2>1, SMTT(30) DEF Sane, Longer, Continued
    <2>4. Kept(q, FailObserver(q)) /\ FailObserver(q).s.phase = "Failed"
      BY <2>3, FailFacts
    <2>5. Advances(o, FailObserver(q)) /\ FailObserver(q).s.control = next.control
      BY <1>3, <1>4, <2>1, <2>4 DEF Advances, Longer, Kept
    <2> QED  BY <1>7, <2>2, <2>4, <2>5
  <1>8. CASE ~Recordable(o.s)
    <2>1. o.s.phase # "Active" /\ ~RecordOk(o)
      BY <1>8 DEF Recordable, RecordOk
    <2>2. Record(o, next) = FailObserver(o)
      <3>1. [o EXCEPT !.s = o.s] = o
        BY <1>1 DEF Observers
      <3> QED  BY <1>8, <2>1, <3>1 DEF Record
    <2>3. Kept(o, FailObserver(o)) /\ FailObserver(o).s.phase = "Failed"
      BY FailFacts
    <2>4. o.s.phase \in {"Finalizing", "Failed"}
      BY <1>1, <2>1 DEF Sessions, Phases
    <2>5. Advances(o, FailObserver(o))
      BY <2>3, <2>4, KeptAdvances
    <2> QED  BY <2>1, <2>2, <2>3, <2>5 DEF Kept
  <1> QED  BY <1>6, <1>7, <1>8

\* close_directions after a last control event, and its append.
LEMMA CloseFacts ==
    ASSUME NEW o, Sane(o), o.s.phase = "Active", NEW v \in Events
    PROVE  LET p == Appended([o EXCEPT !.s = CloseDirections(RecordControl(o.s, v))]) IN
           /\ Advances(o, p) /\ p.s.phase = "Finalizing"
           /\ p.s.control = Append(o.s.control, v)
  <1>1. o \in Observers /\ o.s \in Sessions
    BY DEF Sane, Observers
  <1>2. PICK r : r = RecordControl(o.s, v)
    OBVIOUS
  <1>3. /\ Longer(o.s, r) /\ r \in Sessions /\ r.phase = "Active"
        /\ r.control = Append(o.s.control, v)
    BY <1>2, LongerFacts DEF Longer
  <1>4. PICK i : i = Finish(r.input)
    OBVIOUS
  <1>5. PICK u : u = Finish(r.output)
    OBVIOUS
  <1>6. r.input \in Directions /\ r.output \in Directions /\ r.control \in Histories
    BY <1>3 DEF Sessions
  <1>7. /\ i \in Directions /\ i.partial = 0 /\ Recorded(i) = Recorded(r.input)
        /\ u \in Directions /\ u.partial = 0 /\ Recorded(u) = Recorded(r.output)
    BY <1>4, <1>5, <1>6, FinishFacts
  <1>8. PICK n : n = [r EXCEPT !.input = i, !.output = u, !.phase = "Finalizing"]
    OBVIOUS
  <1>9. n = CloseDirections(RecordControl(o.s, v))
    BY <1>2, <1>3, <1>4, <1>5, <1>8 DEF CloseDirections, Sessions
  <1>10. /\ n \in Sessions /\ n.phase = "Finalizing" /\ n.input = i /\ n.output = u
         /\ n.control = r.control
    <2> HIDE DEF Directions, Histories, Checkpoints
    <2> QED  BY <1>3, <1>7, <1>8 DEF Sessions, Phases
  <1>11. PICK q : q = [o EXCEPT !.s = n]
    OBVIOUS
  <1>12. q \in Observers /\ q.s = n /\ q.writer = o.writer /\ q.file = o.file
    <2> HIDE DEF Sessions
    <2> QED  BY <1>1, <1>10, <1>11 DEF Observers
  <1>13. /\ o.file.input \in Nat /\ o.file.output \in Nat /\ o.file.control \in Nat
         /\ o.s.input \in Directions /\ o.s.output \in Directions /\ o.s.control \in Histories
    BY <1>1 DEF Observers, Sessions
  <1>14. /\ Recorded(o.s.input) \in Nat /\ Recorded(o.s.output) \in Nat /\ Len(o.s.control) \in Nat
         /\ Recorded(r.input) \in Nat /\ Recorded(r.output) \in Nat /\ Len(r.control) \in Nat
    BY <1>6, <1>13, FinishFacts, HistoryFacts
  <1>15. /\ Recorded(o.s.input) <= Recorded(n.input) /\ Recorded(o.s.output) <= Recorded(n.output)
         /\ Recorded(n.input) \in Nat /\ Recorded(n.output) \in Nat /\ Len(n.control) \in Nat
         /\ Continued(o.s.control, n.control) /\ Len(o.s.control) <= Len(n.control)
    BY <1>3, <1>7, <1>10, <1>14 DEF Longer, Continued
  <1>16. /\ o.file.input <= Recorded(n.input) /\ o.file.output <= Recorded(n.output)
         /\ o.file.control <= Len(n.control)
    <2>1. /\ o.file.input <= Recorded(o.s.input) /\ o.file.output <= Recorded(o.s.output)
          /\ o.file.control <= Len(o.s.control)
      BY DEF Sane
    <2>2. \A a, b, c \in Nat : a <= b /\ b <= c => a <= c
      OBVIOUS
    <2> HIDE DEF Directions, Histories
    <2>3. o.file.input <= Recorded(n.input)
      BY <1>13, <1>14, <1>15, <2>1, <2>2
    <2>4. o.file.output <= Recorded(n.output)
      BY <1>13, <1>14, <1>15, <2>1, <2>2
    <2>5. o.file.control <= Len(n.control)
      BY <1>13, <1>14, <1>15, <2>1, <2>2
    <2> QED  BY <2>3, <2>4, <2>5
  <1>17. CASE o.writer = "ok"
    <2>1. Sane(Appended(q)) /\ Appended(q).s = n /\ OnFileAll(Appended(q))
      BY <1>7, <1>10, <1>12, <1>17, AppendedFacts
    <2>2. Advances(o, Appended(q))
      BY <1>10, <1>15, <1>16, <2>1 DEF Advances, OnFileAll
    <2> QED  BY <1>3, <1>9, <1>10, <1>11, <2>1, <2>2
  <1>18. CASE o.writer # "ok"
    <2>1. Appended(q) = q
      BY <1>12, <1>18 DEF Appended
    <2>2. Sane(q)
      BY <1>7, <1>10, <1>12, <1>16 DEF Sane
    <2>3. Advances(o, q)
      BY <1>10, <1>12, <1>13, <1>15, <2>2 DEF Advances
    <2> QED  BY <1>3, <1>9, <1>10, <1>11, <1>12, <2>1, <2>3
  <1> QED  BY <1>17, <1>18

\* An interrupted close ends the account with one close event, or fails.
LEMMA InterruptFacts ==
    ASSUME NEW o, Sane(o)
    PROVE  LET p == CloseInterrupted(o) IN
           /\ Advances(o, p) /\ p.s.phase # "Active"
           /\ p.s.phase = "Finalizing" \/ p.s.phase = o.s.phase
           /\ p.s.control \in {o.s.control, Append(o.s.control, <<"close", "ConnectionLost">>)}
  <1>1. CASE o.s.phase = "Active"
    <2>1. <<"close", "ConnectionLost">> \in Events
      BY DEF Events, Reasons
    <2>2. PICK v \in Events : v = <<"close", "ConnectionLost">>
      BY <2>1
    <2>3. CloseInterrupted(o) = Appended([o EXCEPT !.s = CloseDirections(RecordControl(o.s, v))])
      BY <1>1, <2>2 DEF CloseInterrupted, Recordable
    <2> HIDE DEF Events
    <2> QED  BY <1>1, <2>2, <2>3, CloseFacts
  <1>2. CASE o.s.phase # "Active"
    <2>1. CloseInterrupted(o) = o
      BY <1>2 DEF CloseInterrupted, Recordable
    <2>2. Advances(o, o)
      BY KeptAdvances DEF Kept
    <2> QED  BY <1>2, <2>1, <2>2
  <1> QED  BY <1>1, <1>2

\* A failing writer keeps the account, and so does the commit that finishes it.
LEMMA OtherFacts ==
    ASSUME NEW o, Sane(o)
    PROVE  /\ Kept(o, [o EXCEPT !.writer = "failed"])
           /\ [o EXCEPT !.writer = "failed"].s = o.s
           /\ o.s.phase = "Finalizing" =>
                 Kept(o, Sealed(o)) /\ Sealed(o).s.phase = "Finished"
  <1>1. o \in Observers /\ o.s \in Sessions
    BY DEF Sane, Observers
  <1>2. PICK q : q = [o EXCEPT !.writer = "failed"]
    OBVIOUS
  <1>3. q \in Observers /\ q.s = o.s /\ q.file = o.file
    <2> HIDE DEF Sessions
    <2> QED  BY <1>1, <1>2 DEF Observers
  <1>4. PICK n : n = [o.s EXCEPT !.phase = "Finished"]
    OBVIOUS
  <1>5. /\ n \in Sessions /\ n.phase = "Finished" /\ n.input = o.s.input /\ n.output = o.s.output
        /\ n.control = o.s.control
    <2> HIDE DEF Directions, Histories, Checkpoints
    <2> QED  BY <1>1, <1>4 DEF Sessions, Phases
  <1>6. PICK r : r = [o EXCEPT !.s = n, !.writer = "finished"]
    OBVIOUS
  <1>7. r \in Observers /\ r.s = n /\ r.file = o.file
    <2> HIDE DEF Sessions
    <2> QED  BY <1>1, <1>5, <1>6 DEF Observers
  <1>8. r = Sealed(o)
    BY <1>4, <1>6 DEF Sealed, FinishLedgerCommit
  <1>9. Kept(o, q)
    BY <1>3 DEF Kept, Sane
  <1>10. o.s.phase = "Finalizing" => Kept(o, r) /\ r.s.phase = "Finished"
    BY <1>5, <1>7 DEF Kept, Sane
  <1> QED  BY <1>2, <1>3, <1>8, <1>9, <1>10

-----------------------------------------------------------------------------
(* What most steps leave alone *)

\* The two ends and the owners at each of them.
LEMMA EndFacts ==
    /\ Ends = {Controller, Host} /\ Controller # Host
    /\ Peer(Controller) = Host /\ Peer(Host) = Controller
    /\ \A e \in Ends : Peer(e) \in Ends /\ Peer(e) # e /\ Peer(Peer(e)) = e
    /\ \A o \in COwners : EndOf(o) = Controller
    /\ \A o \in HOwners : EndOf(o) = Host
  BY ExchangeAssumption DEF Ends, Peer, EndOf, COwners, HOwners

\* Staying as it is is an advance.
LEMMA SelfAdvances ==
    ASSUME TsTypes
    PROVE  \A e \in Ends : Sane(obs[e]) /\ Kept(obs[e], obs[e]) /\ Advances(obs[e], obs[e])
  BY KeptAdvances DEF TsTypes, Kept

\* Every observer is kept or advances.
ObsAdvance == \A e \in Ends : Advances(obs[e], obs'[e])

\* At most one observer moves, and it finishes only out of the footer.
Single ==
    /\ ObsAdvance
    /\ \E e \in Ends :
          /\ \A d \in Ends : d # e => obs'[d] = obs[d]
          /\ obs'[e].s.phase = "Finished" => obs[e].s.phase = "Finished" \/ stage[e] = "footer"

\* Counts on file and in the account only grow, and the file never exceeds it.
LEMMA OnFileGrows ==
    ASSUME NEW o, Sane(o), NEW p, Advances(o, p), NEW v
    PROVE  LET old == Count(SubSeq(o.s.control, 1, o.file.control), v)
               new == Count(SubSeq(p.s.control, 1, p.file.control), v)
           IN  /\ old \in Nat /\ new \in Nat /\ old <= new
               /\ Count(p.s.control, v) \in Nat /\ new <= Count(p.s.control, v)
               /\ Count(o.s.control, v) \in Nat /\ Count(o.s.control, v) <= Count(p.s.control, v)
  <1>1. Sane(p) /\ Continued(o.s.control, p.s.control) /\ o.file.control <= p.file.control
    BY DEF Advances
  <1>2. PICK h \in Histories : h = o.s.control
    BY DEF Sane, Observers, Sessions
  <1>3. PICK k \in Histories : k = p.s.control
    BY <1>1 DEF Sane, Observers, Sessions
  <1>4. PICK n \in 0..Len(h) : n = o.file.control
    BY <1>2, HistoryFacts DEF Sane, Observers
  <1>5. PICK m \in 0..Len(k) : m = p.file.control
    BY <1>1, <1>3, HistoryFacts DEF Sane, Observers
  <1>6. Continued(h, k) /\ n <= m /\ Len(h) <= Len(k) /\ Len(h) \in Nat /\ Len(k) \in Nat
    BY <1>1, <1>2, <1>3, <1>4, <1>5, HistoryFacts DEF Continued
  <1>7. /\ Count(SubSeq(h, 1, n), v) \in Nat /\ Count(SubSeq(k, 1, m), v) \in Nat
        /\ Count(h, v) \in Nat /\ Count(k, v) \in Nat
    BY CountFacts
  <1>8. Count(SubSeq(h, 1, n), v) <= Count(SubSeq(k, 1, m), v)
    BY <1>6, CountFacts
  <1>9. Continued(k, k) /\ m <= Len(k) /\ Len(k) \in 0..Len(k)
    BY <1>6, HistoryFacts
  <1>10. Count(SubSeq(k, 1, m), v) <= Count(SubSeq(k, 1, Len(k)), v) /\ SubSeq(k, 1, Len(k)) = k
    BY <1>9, CountFacts
  <1>11. /\ Count(SubSeq(h, 1, Len(h)), v) <= Count(SubSeq(k, 1, Len(k)), v)
         /\ SubSeq(h, 1, Len(h)) = h
    <2>1. Len(h) \in 0..Len(h)
      BY <1>6
    <2> QED  BY <1>6, <1>9, <2>1, CountFacts
  <1> QED  BY <1>2, <1>3, <1>4, <1>5, <1>7, <1>8, <1>10, <1>11

deeds == <<did.sentInput, did.pty, did.sentOutput, did.shown, did.sentResizes, did.sentExit>>

\* Nothing is sent or applied, and an owner that comes to its effect is ready.
LEMMA EffectsMoved ==
    ASSUME TsTypes, Effects, ObsAdvance, UNCHANGED deeds,
           \A o \in OwnerNames : own'[o] = own[o] \/ own'[o].st # "io" \/ Ready(o)',
           ExitRecorded' => ExitRecorded \/ Count(OnFile(Host), <<"exit">>)' >= 1
    PROVE  Effects'
  <1>1. Controller \in Ends /\ Host \in Ends
    BY EndFacts
  <1>2. PICK c : c = obs'[Controller]
    OBVIOUS
  <1>3. PICK h : h = obs'[Host]
    OBVIOUS
  <1>4. /\ Sane(obs[Controller]) /\ Sane(obs[Host])
        /\ Advances(obs[Controller], c) /\ Advances(obs[Host], h)
    BY <1>1, <1>2, <1>3, SelfAdvances DEF ObsAdvance
  <1>5. PICK r1 : r1 = Count(OnFile(Controller), <<"resize">>)
    OBVIOUS
  <1>6. PICK r2 : r2 = Count(OnFile(Controller), <<"resize">>)'
    OBVIOUS
  <1>7. PICK x1 : x1 = Count(OnFile(Host), <<"exit">>)
    OBVIOUS
  <1>8. PICK x2 : x2 = Count(OnFile(Host), <<"exit">>)'
    OBVIOUS
  <1>9. r1 \in Nat /\ r2 \in Nat /\ r1 <= r2 /\ x1 \in Nat /\ x2 \in Nat /\ x1 <= x2
    <2>1. r1 = Count(SubSeq(obs[Controller].s.control, 1, obs[Controller].file.control), <<"resize">>)
          /\ x1 = Count(SubSeq(obs[Host].s.control, 1, obs[Host].file.control), <<"exit">>)
      BY <1>5, <1>7 DEF OnFile
    <2>2. r2 = Count(SubSeq(c.s.control, 1, c.file.control), <<"resize">>)
          /\ x2 = Count(SubSeq(h.s.control, 1, h.file.control), <<"exit">>)
      BY <1>2, <1>3, <1>6, <1>8 DEF OnFile, Count
    <2> QED  BY <1>4, <2>1, <2>2, OnFileGrows
  <1>10. /\ obs[Controller].file.input \in Nat /\ obs[Host].file.input \in Nat
         /\ obs[Controller].file.output \in Nat /\ obs[Host].file.output \in Nat
         /\ c.file.input \in Nat /\ h.file.input \in Nat /\ c.file.output \in Nat /\ h.file.output \in Nat
         /\ obs[Controller].file.input <= c.file.input /\ obs[Host].file.input <= h.file.input
         /\ obs[Controller].file.output <= c.file.output /\ obs[Host].file.output <= h.file.output
    BY <1>4 DEF Advances, Sane, Observers
  <1>11. /\ did.sentInput \in Nat /\ did.pty \in Nat /\ did.sentOutput \in Nat /\ did.shown \in Nat
         /\ did.sentResizes \in Nat
         /\ did'.sentInput = did.sentInput /\ did'.pty = did.pty /\ did'.sentOutput = did.sentOutput
         /\ did'.shown = did.shown /\ did'.sentResizes = did.sentResizes
         /\ did'.sentExit = did.sentExit
    BY DEF TsTypes, Deeds, deeds
  <1>12. ASSUME NEW o \in OwnerNames, own'[o].st = "io"
         PROVE  Ready(o)'
    <2>1. CASE own'[o] = own[o]
      <3>1. own[o].n \in Nat
        BY DEF TsTypes, OwnerStates
      <3>2. Ready(o)
        BY <1>12, <2>1 DEF Effects
      <3> QED  BY <1>2, <1>3, <1>5, <1>6, <1>9, <1>10, <1>11, <2>1, <3>1, <3>2 DEF Ready
    <2>2. CASE own'[o] # own[o]
      BY <1>12, <2>2
    <2> QED  BY <2>1, <2>2
  <1> HIDE DEF ObsAdvance
  <1>13. /\ did'.sentInput <= c.file.input /\ did'.pty <= h.file.input
         /\ did'.shown <= c.file.output /\ did'.sentOutput <= h.file.output
    BY <1>10, <1>11 DEF Effects
  <1>14. did'.sentResizes <= r2 /\ (did'.sentExit \/ ExitRecorded' => x2 >= 1)
    BY <1>5, <1>7, <1>8, <1>9, <1>11 DEF Effects
  <1> QED  BY <1>2, <1>3, <1>6, <1>8, <1>12, <1>13, <1>14 DEF Effects

\* No owner comes to its input or output.
OwnersCalm ==
    \A o \in OwnerNames :
        \/ own'[o] = own[o] \/ own'[o] = Idle
        \/ own'[o].st = "audit" /\ (own'[o].what = "complete" => ExitRecorded)

\* Nothing is sent or applied, and no owner comes to its effect.
LEMMA EffectsKept ==
    ASSUME TsTypes, Effects, ObsAdvance, OwnersCalm, UNCHANGED deeds
    PROVE  Effects'
  <1>1. \A o \in OwnerNames : own'[o] = own[o] \/ own'[o].st # "io"
    BY DEF OwnersCalm, Idle
  <1>2. ExitRecorded' => ExitRecorded
    <2>1. "ptyOutput" \in OwnerNames
      BY DEF OwnerNames, HOwners
    <2> QED  BY <2>1 DEF OwnersCalm, Idle, ExitRecorded
  <1> QED  BY <1>1, <1>2, EffectsMoved

\* The exit stays as recorded as it was.
LEMMA ExitsKept ==
    ASSUME Exits, ExitCount' = ExitCount, ExitOpen' => ExitOpen,
           own'["ptyOutput"].what = "none" => own'["ptyOutput"] = Idle,
           own'["ptyOutput"].st = "await" => own'["ptyOutput"].what = "exit",
           result'[Host] = "ok" => result[Host] = "ok" \/ ExitCount = 1,
           ending'[Host] = "exit" => result[Host] = "ok" \/ ending[Host] = "exit"
    PROVE  Exits'
  BY DEF Exits

\* Nothing is done that concerns the exit.
ExitsAlone ==
    /\ obs'[Host].s.control = obs[Host].s.control
    /\ own'["ptyOutput"] = own["ptyOutput"] /\ (Active(Host)' => Active(Host))
    /\ result'[Host] = "ok" => result[Host] = "ok"
    /\ ending'[Host] = "exit" => result[Host] = "ok" \/ ending[Host] = "exit"

\* The exit is not concerned.
LEMMA ExitsUnmoved ==
    ASSUME Exits, ExitsAlone
    PROVE  Exits'
  <1>1. ExitCount' = ExitCount
    BY DEF ExitsAlone, ExitCount, Count
  <1>2. ExitOpen' => ExitOpen
    BY DEF ExitsAlone, ExitOpen
  <1> QED  BY <1>1, <1>2, ExitsKept DEF ExitsAlone, Exits

\* The substreams hold no other manifests than before.
CarriedKept(e) ==
    /\ Pairs(frames'[e]) \subseteq Pairs(frames[e])
    /\ fin[Peer(e)].own # NoManifest => fin'[Peer(e)].own = fin[Peer(e)].own

\* How a step moves an end that keeps its manifests.
Stays(e) ==
    stage'[e] = stage[e] /\ ending'[e] = ending[e] /\ obs'[e].s.phase = obs[e].s.phase
EndsNow(e) == stage'[e] = "done" /\ ending'[e] = ending[e]
StaysOut(e) ==
    /\ stage[e] \notin Closing \cup {"done"} /\ stage'[e] \notin Closing \cup {"done"}
    /\ obs'[e].s.phase \notin {"Finalizing", "Finished"}
Enters(e) ==
    /\ stage[e] \notin {"final", "manifest", "footer", "done"}
    /\ stage'[e] \in {"notice", "receiver", "barrier"} /\ ending'[e] # "none"
    /\ obs'[e].s.phase = obs[e].s.phase
Bars(e) ==
    /\ stage[e] = "barrier" /\ stage'[e] = "final" /\ ending'[e] = ending[e]
    /\ obs'[e].s.phase = "Finalizing"

Seals(e) ==
    /\ stage[e] = "manifest" /\ stage'[e] = "footer" /\ ending'[e] = ending[e]
    /\ obs'[e].s.phase = obs[e].s.phase /\ fin[e].peer = fin[e].own

\* An end that keeps its manifests moves along the stages of the close.
LEMMA ClosesKept ==
    ASSUME NEW e \in Ends, Closes(e), Advances(obs[e], obs'[e]), CarriedKept(e),
           fin'[e].own = fin[e].own, fin'[e].peer = fin[e].peer,
           Stays(e) \/ EndsNow(e) \/ StaysOut(e) \/ Enters(e) \/ Bars(e) \/ Seals(e)
    PROVE  Closes(e)'
  <1>1. /\ fin[e].peer # NoManifest => fin[e].peer = fin'[Peer(e)].own
        /\ \A f \in Pairs(frames'[e]) : f.body = fin'[Peer(e)].own /\ fin'[Peer(e)].own # NoManifest
    <2>1. Peer(e)' = Peer(e)
      BY DEF Peer
    <2> QED  BY <2>1 DEF Closes, CarriedKept
  <1>2. fin[e].own # NoManifest =>
          /\ fin[e].own.snapshot = Snapshot(obs'[e].s) /\ obs'[e].s.phase # "Active"
          /\ obs'[e].s.input.partial = 0 /\ obs'[e].s.output.partial = 0
    BY DEF Closes, Advances, Snapshot
  <1>3. CASE Stays(e)
    BY <1>1, <1>2, <1>3 DEF Closes, Stays
  <1>4. CASE EndsNow(e)
    BY <1>1, <1>2, <1>4 DEF Closes, EndsNow, Closing
  <1>5. CASE StaysOut(e)
    BY <1>1, <1>2, <1>5 DEF Closes, StaysOut, Closing
  <1>6. CASE Enters(e)
    <2>1. obs[e].s.phase \notin {"Finalizing", "Finished"} /\ fin[e].own = NoManifest
      BY <1>6 DEF Closes, Enters
    <2> QED  BY <1>1, <1>6, <2>1 DEF Closes, Enters
  <1>7. CASE Bars(e)
    BY <1>1, <1>7 DEF Closes, Bars, Closing
  <1>8. CASE Seals(e)
    BY <1>1, <1>2, <1>8 DEF Closes, Seals, Closing
  <1> QED  BY <1>3, <1>4, <1>5, <1>6, <1>7, <1>8

\* One observer advances and the other stays.
LEMMA ObsStep ==
    ASSUME TsTypes, NEW e \in Ends, NEW p, Advances(obs[e], p), obs' = [obs EXCEPT ![e] = p]
    PROVE  /\ obs' \in [Ends -> Observers] /\ \A d \in Ends : Sane(obs'[d])
           /\ ObsAdvance /\ obs'[e] = p
           /\ \A d \in Ends : d # e => obs'[d] = obs[d]
  <1>1. Sane(p) /\ p \in Observers
    BY DEF Advances, Sane
  <1>2. obs \in [Ends -> Observers] /\ \A d \in Ends : Sane(obs[d])
    BY DEF TsTypes
  <1>3. obs' \in [Ends -> Observers] /\ obs'[e] = p /\ \A d \in Ends : d # e => obs'[d] = obs[d]
    BY <1>1, <1>2
  <1>4. \A d \in Ends : Sane(obs'[d])
    BY <1>1, <1>2, <1>3
  <1>5. ObsAdvance
    BY <1>3, SelfAdvances DEF ObsAdvance
  <1> QED  BY <1>3, <1>4, <1>5

\* Both observers stay.
LEMMA ObsSame ==
    ASSUME TsTypes, UNCHANGED obs
    PROVE  /\ obs' \in [Ends -> Observers] /\ \A d \in Ends : Sane(obs'[d])
           /\ ObsAdvance
  <1>1. obs \in [Ends -> Observers] /\ \A d \in Ends : Sane(obs[d])
    BY DEF TsTypes
  <1> QED  BY <1>1, SelfAdvances DEF ObsAdvance

\* Reading from and writing to a substream.
LEMMA PairFacts ==
    ASSUME NEW S, NEW q \in Seq(S)
    PROVE  /\ Pairs(<<>>) = {}
           /\ q # <<>> => /\ Tail(q) \in Seq(S) /\ Pairs(Tail(q)) \subseteq Pairs(q) /\ Head(q) \in S
                          /\ Head(q).kind \in {"manifest", "signature"} => Head(q) \in Pairs(q)
           /\ \A r \in Seq(S) : q \o r \in Seq(S) /\ Pairs(q \o r) = Pairs(q) \cup Pairs(r)
           /\ \A f \in S : <<f>> \in Seq(S) /\ Pairs(<<f>>) \subseteq {f}
                           /\ (f.kind \notin {"manifest", "signature"} => Pairs(<<f>>) = {})
           /\ \A f, g \in S : <<f, g>> \in Seq(S) /\ Pairs(<<f, g>>) \subseteq {f, g}
                  /\ (f.kind \notin {"manifest", "signature"} /\ g.kind \notin {"manifest", "signature"}
                        => Pairs(<<f, g>>) = {})
  <1>1. Pairs(<<>>) = {}
    BY DEF Pairs
  <1>2. ASSUME q # <<>>
        PROVE  /\ Tail(q) \in Seq(S) /\ Pairs(Tail(q)) \subseteq Pairs(q) /\ Head(q) \in S
               /\ Head(q).kind \in {"manifest", "signature"} => Head(q) \in Pairs(q)
    <2>1. /\ Tail(q) \in Seq(S) /\ Head(q) \in S /\ 1 \in DOMAIN q /\ q[1] = Head(q)
          /\ \A i \in DOMAIN Tail(q) : i + 1 \in DOMAIN q /\ Tail(q)[i] = q[i + 1]
      BY <1>2
    <2> QED  BY <2>1 DEF Pairs
  <1>3. ASSUME NEW r \in Seq(S)
        PROVE  q \o r \in Seq(S) /\ Pairs(q \o r) = Pairs(q) \cup Pairs(r)
    <2>1. /\ q \o r \in Seq(S) /\ Len(q) \in Nat /\ Len(r) \in Nat
          /\ DOMAIN q = 1..Len(q) /\ DOMAIN r = 1..Len(r) /\ DOMAIN (q \o r) = 1..(Len(q) + Len(r))
          /\ \A i \in 1..(Len(q) + Len(r)) :
                (q \o r)[i] = IF i <= Len(q) THEN q[i] ELSE r[i - Len(q)]
      OBVIOUS
    <2>2. ASSUME NEW f \in Pairs(q \o r)
          PROVE  f \in Pairs(q) \cup Pairs(r)
      <3>1. PICK i \in 1..(Len(q) + Len(r)) :
              f = (q \o r)[i] /\ (q \o r)[i].kind \in {"manifest", "signature"}
        BY <2>1 DEF Pairs
      <3>2. CASE i <= Len(q)
        BY <2>1, <3>1, <3>2 DEF Pairs
      <3>3. CASE i > Len(q)
        <4>1. i - Len(q) \in DOMAIN r /\ f = r[i - Len(q)]
          BY <2>1, <3>1, <3>3
        <4> QED  BY <3>1, <4>1 DEF Pairs
      <3> QED  BY <2>1, <3>1, <3>2, <3>3
    <2>3. ASSUME NEW f \in Pairs(q)
          PROVE  f \in Pairs(q \o r)
      <3>1. PICK i \in DOMAIN q : f = q[i] /\ q[i].kind \in {"manifest", "signature"}
        BY DEF Pairs
      <3>2. i \in DOMAIN (q \o r) /\ (q \o r)[i] = f
        BY <2>1, <3>1
      <3> QED  BY <3>1, <3>2 DEF Pairs
    <2>4. ASSUME NEW f \in Pairs(r)
          PROVE  f \in Pairs(q \o r)
      <3>1. PICK i \in DOMAIN r : f = r[i] /\ r[i].kind \in {"manifest", "signature"}
        BY DEF Pairs
      <3>2. i + Len(q) \in DOMAIN (q \o r) /\ (q \o r)[i + Len(q)] = f
        BY <2>1, <3>1
      <3> QED  BY <3>1, <3>2 DEF Pairs
    <2> QED  BY <2>1, <2>2, <2>3, <2>4
  <1>4. ASSUME NEW f \in S
        PROVE  <<f>> \in Seq(S) /\ Pairs(<<f>>) \subseteq {f}
               /\ (f.kind \notin {"manifest", "signature"} => Pairs(<<f>>) = {})
    BY DEF Pairs
  <1>5. ASSUME NEW f \in S, NEW g \in S
        PROVE  <<f, g>> \in Seq(S) /\ Pairs(<<f, g>>) \subseteq {f, g}
               /\ (f.kind \notin {"manifest", "signature"} /\ g.kind \notin {"manifest", "signature"}
                     => Pairs(<<f, g>>) = {})
    <2>1. <<f, g>> \in Seq(S) /\ DOMAIN <<f, g>> = {1, 2} /\ <<f, g>>[1] = f /\ <<f, g>>[2] = g
      OBVIOUS
    <2>2. PICK p : p = <<f, g>>
      OBVIOUS
    <2>3. \A x \in Pairs(p) : (x = f \/ x = g) /\ x.kind \in {"manifest", "signature"}
      BY <2>1, <2>2 DEF Pairs
    <2> QED  BY <2>1, <2>2, <2>3
  <1> QED  BY <1>1, <1>2, <1>3, <1>4, <1>5

\* Frames that are no part of a manifest pair.
Plain(q) == q \in Seq(AllFrames) /\ Pairs(q) = {}

\* Frames that are no manifests add no manifest to a substream.
LEMMA PostedFacts ==
    ASSUME NEW e \in Ends, NEW g \in [Ends -> Seq(AllFrames)], NEW q, Plain(q)
    PROVE  /\ Posted(g, e, q) \in [Ends -> Seq(AllFrames)]
           /\ \A d \in Ends : Pairs(Posted(g, e, q)[d]) = Pairs(g[d])
  <1> HIDE DEF AllFrames
  <1>1. Peer(e) \in Ends /\ g[Peer(e)] \in Seq(AllFrames) /\ q \in Seq(AllFrames) /\ Pairs(q) = {}
    BY EndFacts DEF Plain
  <1>2. PICK r : r = g[Peer(e)] \o q
    OBVIOUS
  <1>3. r \in Seq(AllFrames) /\ Pairs(r) = Pairs(g[Peer(e)])
    <2>1. PICK h \in Seq(AllFrames) : h = g[Peer(e)]
      BY <1>1
    <2>2. \A x \in Seq(AllFrames) : h \o x \in Seq(AllFrames) /\ Pairs(h \o x) = Pairs(h) \cup Pairs(x)
      BY PairFacts
    <2>3. h \o q \in Seq(AllFrames) /\ Pairs(h \o q) = Pairs(h) \cup Pairs(q)
      BY <1>1, <2>2
    <2> QED  BY <1>1, <1>2, <2>1, <2>3
  <1>4. Posted(g, e, q) = IF connected THEN [g EXCEPT ![Peer(e)] = r] ELSE g
    BY <1>2 DEF Posted
  <1> QED  BY <1>1, <1>3, <1>4

-----------------------------------------------------------------------------
(* The owners of both pumps *)

\* What an owner's step or the end of a pump does to stages and results.
PumpMoves(error) ==
    /\ stage' \in [Ends -> Stages] /\ result' \in [Ends -> Results]
    /\ \A d \in Ends :
          /\ \/ stage'[d] = stage[d] /\ result'[d] = result[d]
             \/ stage[d] \notin Closing \cup {"done"} /\ stage'[d] \notin Closing \cup {"done"}
          /\ Active(d)' => Active(d)
          /\ result'[d] \in {result[d], error}

\* An owner that fails moves its pump to closing and the other end not at all.
LEMMA FailsMove ==
    ASSUME TsTypes, NEW e \in Ends, NEW error \in Results, Pumping(e), OwnerFails(e, error)
    PROVE  PumpMoves(error) /\ stage'[e] = "closing" /\ \A d \in Ends : d # e => result'[d] = result[d]
  <1>1. stage \in [Ends -> Stages] /\ result \in [Ends -> Results]
    BY DEF TsTypes
  <1>2. PICK r : r = Merged(result[e], error)
    OBVIOUS
  <1>3. r \in {result[e], error} /\ r \in Results
    BY <1>1, <1>2 DEF Merged
  <1>4. stage' = [stage EXCEPT ![e] = "closing"] /\ result' = [result EXCEPT ![e] = r]
    BY <1>2 DEF OwnerFails
  <1> HIDE DEF Results
  <1> QED  BY <1>1, <1>3, <1>4 DEF PumpMoves, Pumping, Active, Stages, Closing

\* A pump that goes on moves nothing.
LEMMA ContinuesMoves ==
    ASSUME TsTypes, UNCHANGED <<stage, result>>
    PROVE  \A error : PumpMoves(error)
  BY DEF TsTypes, PumpMoves, Active

\* A step of a pump that leaves observers, frames and manifests alone.
LEMMA PumpStep ==
    ASSUME TsInv, TsTypes', Effects', Exits', UNCHANGED <<obs, frames, fin, ending>>,
           NEW error, PumpMoves(error)
    PROVE  TsInv' /\ Single
  <1>1. ASSUME NEW e \in Ends
        PROVE  Closes(e)'
    <2>1. Closes(e) /\ Advances(obs[e], obs'[e]) /\ CarriedKept(e)
      BY SelfAdvances DEF TsInv, CarriedKept
    <2>2. stage'[e] = stage[e] => Stays(e)
      BY DEF Stays
    <2>3. stage[e] \notin Closing \cup {"done"} /\ stage'[e] \notin Closing \cup {"done"} => StaysOut(e)
      BY <2>1 DEF StaysOut, Closes, Closing
    <2> QED  BY <2>1, <2>2, <2>3, ClosesKept DEF PumpMoves
  <1>2. ExitReturned'
    BY EndFacts DEF TsInv, ExitReturned, PumpMoves, Finished
  <1>3. Single
    BY EndFacts, ObsSame DEF TsInv, Single
  <1> QED  BY <1>1, <1>2, <1>3 DEF TsInv

\* The variables that an owner's step leaves alone.
LEMMA PumpTypes ==
    ASSUME TsTypes, UNCHANGED <<obs, frames, reason, ending, fin, proc>>,
           connected' \in BOOLEAN, NEW error, PumpMoves(error),
           own' \in [OwnerNames -> OwnerStates], wire' \in Wires, did' \in Deeds
    PROVE  TsTypes'
  <1>1. \A e \in Ends : Sane(obs'[e])
    BY DEF TsTypes
  <1> QED  BY <1>1 DEF TsTypes, PumpMoves

\* One owner changes.
LEMMA OwnFacts ==
    ASSUME TsTypes, NEW o \in OwnerNames, NEW x \in OwnerStates, own' = [own EXCEPT ![o] = x]
    PROVE  /\ own' \in [OwnerNames -> OwnerStates] /\ own'[o] = x
           /\ \A a \in OwnerNames : a # o => own'[a] = own[a]
  <1>1. own \in [OwnerNames -> OwnerStates]
    BY DEF TsTypes
  <1> HIDE DEF OwnerNames, OwnerStates
  <1> QED  BY <1>1

\* The owners and the states they take.
LEMMA NameFacts ==
    /\ OwnerNames = {"input", "output", "resize", "exit", "ptyInput", "ptyOutput"}
    /\ COwners \subseteq OwnerNames /\ HOwners \subseteq OwnerNames
    /\ Idle \in OwnerStates /\ Idle.st = "idle" /\ Idle.what = "none"
    /\ \A st \in {"audit", "io"}, w \in {"input", "output", "resize", "exit", "complete"}, n \in Nat :
          /\ Owner(st, w, n) \in OwnerStates /\ Owner(st, w, n).st = st
          /\ Owner(st, w, n).what = w /\ Owner(st, w, n).n = n /\ Owner(st, w, n) # Idle
  BY DEF OwnerNames, COwners, HOwners, Idle, OwnerStates, Owner

\* An owner that takes its next piece of work keeps the invariant.
LEMMA StartKeeps ==
    ASSUME TsInv, NEW o \in OwnerNames, NEW w \in {"input", "output", "resize", "exit"},
           NEW n \in Nat, OwnerStarts(o, Owner("audit", w, n)),
           wire' \in Wires, did' \in Deeds, UNCHANGED deeds
    PROVE  TsInv' /\ Single
  <1>1. TsTypes /\ Effects /\ Exits
    BY DEF TsInv
  <1>2. PICK x \in OwnerStates : /\ own' = [own EXCEPT ![o] = x] /\ x.st = "audit" /\ x.what = w
                                 /\ x # Idle
    <2>1. Owner("audit", w, n) \in OwnerStates /\ Owner("audit", w, n).st = "audit"
          /\ Owner("audit", w, n).what = w /\ Owner("audit", w, n) # Idle
      BY NameFacts
    <2> HIDE DEF OwnerStates
    <2> QED  BY <2>1 DEF OwnerStarts
  <1>3. /\ own' \in [OwnerNames -> OwnerStates] /\ own'[o] = x
        /\ \A a \in OwnerNames : a # o => own'[a] = own[a]
    BY <1>1, <1>2, OwnFacts
  <1>4. /\ UNCHANGED <<obs, frames, connected, reason, ending, fin, proc, stage, result>>
        /\ Active(EndOf(o)) /\ own[o] = Idle
    BY DEF OwnerStarts, finVars
  <1>5. PumpMoves("ok")
    BY <1>1, <1>4, ContinuesMoves
  <1>6. TsTypes'
    <2>1. connected' \in BOOLEAN
      BY <1>1, <1>4 DEF TsTypes
    <2> QED  BY <1>1, <1>3, <1>4, <1>5, <2>1, PumpTypes
  <1>7. OwnersCalm
    BY <1>2, <1>3 DEF OwnersCalm
  <1>8. Effects'
    BY <1>1, <1>4, <1>7, ObsSame, EffectsKept
  <1>9. Exits'
    <2>1. ExitCount' = ExitCount
      BY <1>4 DEF ExitCount, Count
    <2>2. CASE o = "ptyOutput"
      <3>1. ExitOpen
        BY <1>4, <2>2 DEF ExitOpen, EndOf, COwners
      <3> QED  BY <1>1, <1>2, <1>3, <1>4, <2>1, <2>2, <3>1, ExitsKept
    <2>3. CASE o # "ptyOutput"
      BY <1>1, <1>3, <1>4, <2>3, NameFacts, ExitsUnmoved DEF ExitsAlone, Active
    <2> QED  BY <2>2, <2>3
  <1> QED  BY <1>4, <1>5, <1>6, <1>8, <1>9, PumpStep

\* read_local_input, poll_terminal_resize, read_remote_output_chunk,
\* read_remote_exit and what the host's bridge reads.
Starting ==
    \/ CReadInput \/ CDetectResize \/ HPtyOutput \/ HPtyExit
    \/ CReadOutput \/ CReadExit \/ HReadInput \/ HReadResize

\* Reading input, output, resizes and exits, on both ends.
LEMMA StartingKeeps ==
    ASSUME TsInv, Starting
    PROVE  TsInv' /\ Single
  <1>1. did \in Deeds /\ wire \in Wires
    BY DEF TsInv, TsTypes
  <1>2. /\ "input" \in OwnerNames /\ "output" \in OwnerNames /\ "resize" \in OwnerNames
        /\ "exit" \in OwnerNames /\ "ptyInput" \in OwnerNames /\ "ptyOutput" \in OwnerNames
    BY NameFacts
  <1>3. UNCHANGED did => did' \in Deeds /\ UNCHANGED deeds
    BY <1>1 DEF deeds
  <1>4. UNCHANGED wire => wire' \in Wires
    BY <1>1
  <1>5. ASSUME wire.toHost # <<>>
        PROVE  [wire EXCEPT !.toHost = Tail(@)] \in Wires
    BY <1>1, <1>5, SMTT(30) DEF Wires
  <1>6. ASSUME wire.toController # <<>>
        PROVE  [wire EXCEPT !.toController = Tail(@)] \in Wires
    BY <1>1, <1>6 DEF Wires
  <1>7. CASE CReadInput
    <2>1. PICK n \in 1 .. did.max.input - did.typed :
             /\ OwnerStarts("input", Owner("audit", "input", n))
             /\ did' = [did EXCEPT !.typed = @ + n] /\ UNCHANGED wire
      BY <1>7 DEF CReadInput
    <2>2. n \in Nat
      OBVIOUS
    <2>3. did' \in Deeds /\ UNCHANGED deeds
      BY <1>1, <2>1, <2>2 DEF Deeds, deeds
    <2> QED  BY <1>2, <1>4, <2>1, <2>2, <2>3, StartKeeps
  <1>8. CASE CDetectResize
    <2>1. /\ OwnerStarts("resize", Owner("audit", "resize", 0))
          /\ did' = [did EXCEPT !.resizes = @ + 1] /\ UNCHANGED wire
      BY <1>8 DEF CDetectResize
    <2>2. did' \in Deeds /\ UNCHANGED deeds
      BY <1>1, <2>1 DEF Deeds, deeds
    <2> QED  BY <1>2, <1>4, <2>1, <2>2, StartKeeps
  <1>9. CASE HPtyOutput
    <2>1. PICK n \in 1 .. did.max.output - did.produced :
             /\ OwnerStarts("ptyOutput", Owner("audit", "output", n))
             /\ did' = [did EXCEPT !.produced = @ + n] /\ UNCHANGED wire
      BY <1>9 DEF HPtyOutput
    <2>2. n \in Nat
      OBVIOUS
    <2>3. did' \in Deeds /\ UNCHANGED deeds
      BY <1>1, <2>1, <2>2 DEF Deeds, deeds
    <2> QED  BY <1>2, <1>4, <2>1, <2>2, <2>3, StartKeeps
  <1>10. CASE HPtyExit
    <2>1. OwnerStarts("ptyOutput", Owner("audit", "exit", 0)) /\ UNCHANGED did /\ UNCHANGED wire
      BY <1>10 DEF HPtyExit
    <2> QED  BY <1>2, <1>3, <1>4, <2>1, StartKeeps
  <1>11. CASE CReadOutput
    <2>1. PICK n \in 1 .. wire.output :
             /\ OwnerStarts("output", Owner("audit", "output", n))
             /\ wire' = [wire EXCEPT !.output = @ - n] /\ UNCHANGED did
      BY <1>11 DEF CReadOutput
    <2>2. n \in Nat
      OBVIOUS
    <2>3. wire' \in Wires
      BY <1>1, <2>1, SMTT(30) DEF Wires
    <2> QED  BY <1>2, <1>3, <2>1, <2>2, <2>3, StartKeeps
  <1>12. CASE CReadExit
    <2>1. /\ OwnerStarts("exit", Owner("audit", "exit", 0)) /\ UNCHANGED did
          /\ wire.toController # <<>> /\ wire' = [wire EXCEPT !.toController = Tail(@)]
      BY <1>12 DEF CReadExit
    <2> QED  BY <1>2, <1>3, <1>6, <2>1, StartKeeps
  <1>13. CASE HReadInput
    <2>1. PICK n \in 1 .. wire.input :
             /\ OwnerStarts("ptyInput", Owner("audit", "input", n))
             /\ wire' = [wire EXCEPT !.input = @ - n] /\ UNCHANGED did
      BY <1>13 DEF HReadInput
    <2>2. n \in Nat
      OBVIOUS
    <2>3. wire' \in Wires
      BY <1>1, <2>1, SMTT(30) DEF Wires
    <2> QED  BY <1>2, <1>3, <2>1, <2>2, <2>3, StartKeeps
  <1>14. CASE HReadResize
    <2>1. /\ OwnerStarts("ptyOutput", Owner("audit", "resize", 0)) /\ UNCHANGED did
          /\ wire.toHost # <<>> /\ wire' = [wire EXCEPT !.toHost = Tail(@)]
      BY <1>14 DEF HReadResize
    <2> QED  BY <1>2, <1>3, <1>5, <2>1, StartKeeps
  <1> QED  BY <1>7, <1>8, <1>9, <1>10, <1>11, <1>12, <1>13, <1>14 DEF Starting

\* The frames a pump sends.
LEMMA PlainFacts ==
    /\ Plain(<<>>) /\ Plain(FailNotices)
    /\ \A o : Plain(RecordNotices(o))
    /\ \A o : Sane(o) => Plain(CheckpointFrame(o))
    /\ \A o, f : f \in AllFrames => Plain(FrameReply(o, f))
    /\ \A r \in Reasons : Plain(<<Frame("notice", r)>>)
    /\ \A c \in Checkpoints : Plain(<<Frame("checkpoint", c)>>)
  <1>1. \A c \in Checkpoints : /\ Frame("checkpoint", c) \in AllFrames /\ Frame("ack", c) \in AllFrames
                               /\ Frame("checkpoint", c).kind = "checkpoint" /\ Frame("ack", c).kind = "ack"
    <2> HIDE DEF Checkpoints, Reasons, Manifests
    <2> QED  BY DEF Frame, AllFrames
  <1>2. /\ \A r \in Reasons : Frame("notice", r) \in AllFrames /\ Frame("notice", r).kind = "notice"
        /\ Frame("error", "audit") \in AllFrames /\ Frame("error", "audit").kind = "error"
    <2> HIDE DEF Checkpoints, Reasons, Manifests
    <2> QED  BY DEF Frame, AllFrames
  <1>3. "AuditFailure" \in Reasons
    BY DEF Reasons
  <1>4. \A f \in AllFrames : f.kind = "checkpoint" => f.body \in Checkpoints
    <2> HIDE DEF Checkpoints, Reasons, Manifests
    <2> QED  BY DEF AllFrames
  <1> HIDE DEF AllFrames, Checkpoints, Reasons
  <1>5. \A f \in AllFrames : f.kind \notin {"manifest", "signature"} => Plain(<<f>>)
    <2>1. <<>> \in Seq(AllFrames)
      OBVIOUS
    <2> QED  BY <2>1, PairFacts DEF Plain
  <1>6. Plain(<<>>)
    <2>1. <<>> \in Seq(AllFrames)
      OBVIOUS
    <2>2. Pairs(<<>>) = {}
      BY DEF Pairs
    <2> QED  BY <2>1, <2>2 DEF Plain
  <1>7. Plain(FailNotices)
    <2>1. <<>> \in Seq(AllFrames)
      OBVIOUS
    <2>2. PICK f \in AllFrames : f = Frame("error", "audit")
      BY <1>2
    <2>3. PICK g \in AllFrames : g = Frame("notice", "AuditFailure")
      BY <1>2, <1>3
    <2>4. <<f, g>> \in Seq(AllFrames) /\ Pairs(<<f, g>>) = {}
      <3>1. f.kind \notin {"manifest", "signature"} /\ g.kind \notin {"manifest", "signature"}
        BY <1>2, <1>3, <2>2, <2>3
      <3>2. \A x, y \in AllFrames : <<x, y>> \in Seq(AllFrames)
              /\ (x.kind \notin {"manifest", "signature"} /\ y.kind \notin {"manifest", "signature"}
                    => Pairs(<<x, y>>) = {})
        BY <2>1, PairFacts
      <3> QED  BY <3>1, <3>2
    <2> QED  BY <2>2, <2>3, <2>4 DEF Plain, FailNotices
  <1>8. \A o : Plain(RecordNotices(o))
    BY <1>6, <1>7 DEF RecordNotices
  <1>9. ASSUME NEW c \in Checkpoints
        PROVE  Plain(<<Frame("checkpoint", c)>>) /\ Plain(<<Frame("ack", c)>>)
    BY <1>1, <1>5
  <1>10. \A o : Sane(o) => Plain(CheckpointFrame(o))
    BY <1>9, SnapshotFacts DEF CheckpointFrame, Sane, Observers
  <1>11. \A o, f : f \in AllFrames => Plain(FrameReply(o, f))
    BY <1>4, <1>6, <1>9 DEF FrameReply
  <1>12. \A r \in Reasons : Plain(<<Frame("notice", r)>>)
    BY <1>2, <1>5
  <1> QED  BY <1>6, <1>7, <1>8, <1>9, <1>10, <1>11, <1>12

\* A step of a pump that records or handles frames.
LEMMA PumpRecords ==
    ASSUME TsInv, TsTypes', Effects', Exits', NEW e \in Ends, Pumping(e),
           ObsAdvance, \A d \in Ends : d # e => obs'[d] = obs[d],
           obs'[e].s.phase \notin {"Finalizing", "Finished"}, UNCHANGED <<fin, ending>>,
           \A d \in Ends : Pairs(frames'[d]) \subseteq Pairs(frames[d]),
           NEW error, PumpMoves(error), stage'[e] \in {"active", "closing"},
           \A d \in Ends : d # e => stage'[d] = stage[d]
    PROVE  TsInv' /\ Single
  <1>1. ASSUME NEW d \in Ends
        PROVE  Closes(d)'
    <2>1. Closes(d) /\ Advances(obs[d], obs'[d]) /\ CarriedKept(d) /\ fin'[d] = fin[d]
      BY DEF TsInv, CarriedKept, ObsAdvance
    <2>2. CASE d # e
      <3>1. Stays(d)
        BY <2>2 DEF Stays
      <3> QED  BY <2>1, <3>1, ClosesKept
    <2>3. CASE d = e
      <3>1. StaysOut(d)
        BY <2>3 DEF StaysOut, Pumping, Closing
      <3> QED  BY <2>1, <3>1, ClosesKept
    <2> QED  BY <2>2, <2>3
  <1>2. ExitReturned'
    <2>1. Controller \in Ends
      BY EndFacts
    <2>2. CASE e = Controller
      BY <2>2 DEF ExitReturned, Closing
    <2>3. CASE e # Controller
      <3>1. obs'[Controller] = obs[Controller] /\ stage'[Controller] = stage[Controller]
        BY <2>1, <2>3
      <3>2. result'[Controller] = "ok" /\ stage'[Controller] \in Closing \cup {"done"}
              => result[Controller] = "ok"
        BY <2>1, <3>1 DEF PumpMoves
      <3> QED  BY <3>1, <3>2 DEF TsInv, ExitReturned, Finished
    <2> QED  BY <2>2, <2>3
  <1>3. Single
    BY DEF Single
  <1> QED  BY <1>1, <1>2, <1>3 DEF TsInv

\* What the recording step of owner o puts into the session.
Covers(o, next) ==
    /\ o = "input" => Recorded(next.input) = Recorded(obs[Controller].s.input) + own[o].n
    /\ o = "output" => Recorded(next.output) = Recorded(obs[Controller].s.output) + own[o].n
    /\ o = "resize" => next.control = Append(obs[Controller].s.control, <<"resize">>)
    /\ o = "ptyInput" => Recorded(next.input) = Recorded(obs[Host].s.input) + own[o].n
    /\ o = "ptyOutput" /\ own[o].what = "output" =>
          Recorded(next.output) = Recorded(obs[Host].s.output) + own[o].n
    /\ o = "ptyOutput" /\ own[o].what = "exit" =>
          next.control = Append(obs[Host].s.control, <<"exit">>)
    /\ o \in HOwners /\ ~(o = "ptyOutput" /\ own[o].what = "exit") =>
          Count(next.control, <<"exit">>) = ExitCount

\* What becomes of the owner.
Goes(o, then) ==
    \/ then = Idle /\ (o \in HOwners => ~Active(Host))
    \/ then.st = "io" /\ then.what = own[o].what /\ then.n = own[o].n

\* The events differ from each other.
LEMMA EventFacts ==
    /\ <<"resize">> \in Events /\ <<"exit">> \in Events /\ <<"complete">> \in Events
    /\ \A r \in Reasons : <<"close", r>> \in Events /\ <<"close", r>> # <<"exit">>
    /\ <<"resize">> # <<"exit">> /\ <<"complete">> # <<"exit">>
  BY DEF Events

\* An owner that records what it holds before its effect, or fails to.
LEMMA RecordKeeps ==
    ASSUME TsInv, NEW o \in OwnerNames, NEW next, NEW then \in OwnerStates,
           OwnerRecords(o, next, then), Longer(obs[EndOf(o)].s, next), Covers(o, next), Goes(o, then)
    PROVE  TsInv' /\ Single
  <1> DEFINE e == EndOf(o)
  <1>1. TsTypes /\ Effects /\ Exits /\ \A d \in Ends : Closes(d)
    BY DEF TsInv
  <1>2. e \in Ends /\ Pumping(e) /\ own[o].st = "audit" /\ Controller \in Ends /\ Host \in Ends
    BY EndFacts DEF OwnerRecords, EndOf
  <1>3. Sane(obs[e]) /\ obs[e].s.phase # "Finished"
    BY <1>1, <1>2 DEF TsTypes, Closes, Pumping
  <1>4. PICK p : p = Record(obs[e], next)
    OBVIOUS
  <1>5. /\ Advances(obs[e], p)
        /\ RecordOk(obs[e]) => p.s = next /\ OnFileAll(p) /\ obs[e].s.phase = "Active"
        /\ ~RecordOk(obs[e]) => p.s.phase = "Failed" /\ p.s.control \in {obs[e].s.control, next.control}
    BY <1>3, <1>4, RecordFacts
  <1>6. obs' = [obs EXCEPT ![e] = p]
    BY <1>4 DEF OwnerRecords
  <1>7. /\ obs' \in [Ends -> Observers] /\ (\A d \in Ends : Sane(obs'[d])) /\ ObsAdvance /\ obs'[e] = p
        /\ \A d \in Ends : d # e => obs'[d] = obs[d]
    BY <1>1, <1>2, <1>5, <1>6, ObsStep
  <1>8. frames' \in [Ends -> Seq(AllFrames)] /\ \A d \in Ends : Pairs(frames'[d]) = Pairs(frames[d])
    <2>1. PICK q : q = RecordNotices(obs[e])
      OBVIOUS
    <2>2. Plain(q) /\ frames' = Posted(frames, e, q)
      BY <2>1, PlainFacts DEF OwnerRecords, Post
    <2>3. frames \in [Ends -> Seq(AllFrames)]
      BY <1>1 DEF TsTypes
    <2> QED  BY <1>2, <2>2, <2>3, PostedFacts, SMTT(30)
  <1>9. /\ PumpMoves("audit") /\ (stage'[e] \in {"active", "closing"})
        /\ \A d \in Ends : d # e => stage'[d] = stage[d] /\ result'[d] = result[d]
        /\ ~RecordOk(obs[e]) => stage'[e] = "closing"
        /\ RecordOk(obs[e]) => UNCHANGED <<stage, result>>
    <2>1. CASE RecordOk(obs[e])
      BY <1>1, <1>2, <2>1, ContinuesMoves DEF OwnerRecords, PumpContinues, Pumping
    <2>2. CASE ~RecordOk(obs[e])
      <3>1. OwnerFails(e, "audit") /\ "audit" \in Results
        BY <2>2 DEF OwnerRecords, Results
      <3>2. \A d \in Ends : d # e => stage'[d] = stage[d]
        BY <3>1, <1>1 DEF OwnerFails, TsTypes
      <3> QED  BY <1>1, <1>2, <2>2, <3>1, <3>2, FailsMove
    <2> QED  BY <2>1, <2>2
  <1>10. PICK x \in OwnerStates : /\ own' = [own EXCEPT ![o] = x]
                                  /\ x = IF RecordOk(obs[e]) THEN then ELSE Idle
    <2> HIDE DEF OwnerStates
    <2>1. Idle \in OwnerStates
      BY NameFacts
    <2>2. CASE RecordOk(obs[e])
      BY <2>2 DEF OwnerRecords
    <2>3. CASE ~RecordOk(obs[e])
      BY <2>1, <2>3 DEF OwnerRecords
    <2> QED  BY <2>2, <2>3
  <1>11. /\ own' \in [OwnerNames -> OwnerStates] /\ own'[o] = x
         /\ \A a \in OwnerNames : a # o => own'[a] = own[a]
    BY <1>1, <1>10, OwnFacts
  <1>12. UNCHANGED <<connected, reason, ending, fin, proc, wire, did>>
    BY DEF OwnerRecords
  <1>13. TsTypes'
    BY <1>1, <1>7, <1>8, <1>9, <1>11, <1>12 DEF TsTypes, PumpMoves
  <1>14. obs'[e].s.phase \notin {"Finalizing", "Finished"}
    <2>1. RecordOk(obs[e]) => next.phase = "Active"
      BY <1>5 DEF Longer
    <2> QED  BY <1>5, <1>7, <2>1
  <1>15. Effects'
    <2>1. /\ p.file.input \in Nat /\ p.file.output \in Nat /\ p.s.control \in Histories
          /\ Recorded(obs[e].s.input) \in Nat /\ Recorded(obs[e].s.output) \in Nat
          /\ obs[e].file.input <= Recorded(obs[e].s.input)
          /\ obs[e].file.output <= Recorded(obs[e].s.output)
          /\ obs[e].file.input \in Nat /\ obs[e].file.output \in Nat /\ obs[e].s.control \in Histories
      <3>1. p \in Observers /\ obs[e] \in Observers
        BY <1>3, <1>5 DEF Advances, Sane
      <3>2. obs[e].s.input \in Directions /\ obs[e].s.output \in Directions
        BY <3>1 DEF Observers, Sessions
      <3>3. Recorded(obs[e].s.input) \in Nat /\ Recorded(obs[e].s.output) \in Nat
        BY <3>2, FinishFacts
      <3>4. /\ p.file.input \in Nat /\ p.file.output \in Nat /\ p.s.control \in Histories
            /\ obs[e].file.input \in Nat /\ obs[e].file.output \in Nat /\ obs[e].s.control \in Histories
        BY <3>1 DEF Observers, Sessions
      <3> QED  BY <1>3, <3>3, <3>4 DEF Sane
    <2>2. ASSUME own'[o].st = "io"
          PROVE  /\ RecordOk(obs[e]) /\ x.what = own[o].what /\ x.n = own[o].n
                 /\ p.s = next /\ p.file.input = Recorded(next.input)
                 /\ p.file.output = Recorded(next.output) /\ p.file.control = Len(next.control)
      BY <1>5, <1>10, <1>11, <2>2 DEF Idle, Goes, OnFileAll
    <2>3. own[o].n \in Nat /\ did.sentInput \in Nat /\ did.pty \in Nat /\ did.sentOutput \in Nat
          /\ did.shown \in Nat /\ did.sentResizes \in Nat
      BY <1>1 DEF TsTypes, OwnerStates, Deeds
    <2>4. ASSUME own'[o].st = "io"
          PROVE  Ready(o)'
      <3>1. CASE o = "input"
        <4>1. did.sentInput <= obs[e].file.input /\ e = Controller
          BY <1>1, <3>1 DEF Effects, EndOf, COwners
        <4>2. did.sentInput + own[o].n <= p.file.input
          BY <2>1, <2>2, <2>3, <2>4, <3>1, <4>1, SMTT(30) DEF Covers
        <4> QED  BY <1>7, <1>11, <1>12, <2>2, <2>4, <3>1, <4>1, <4>2 DEF Ready
      <3>2. CASE o = "ptyInput"
        <4>1. did.pty <= obs[e].file.input /\ e = Host
          BY <1>1, <3>2 DEF Effects, EndOf, COwners
        <4>2. did.pty + own[o].n <= p.file.input
          BY <2>1, <2>2, <2>3, <2>4, <3>2, <4>1, SMTT(30) DEF Covers
        <4> QED  BY <1>7, <1>11, <1>12, <2>2, <2>4, <3>2, <4>1, <4>2 DEF Ready
      <3>3. CASE o = "output"
        <4>1. did.shown <= obs[e].file.output /\ e = Controller
          BY <1>1, <3>3 DEF Effects, EndOf, COwners
        <4>2. did.shown + own[o].n <= p.file.output
          BY <2>1, <2>2, <2>3, <2>4, <3>3, <4>1, SMTT(30) DEF Covers
        <4> QED  BY <1>7, <1>11, <1>12, <2>2, <2>4, <3>3, <4>1, <4>2 DEF Ready
      <3>4. CASE o = "ptyOutput"
        <4>1. did.sentOutput <= obs[e].file.output /\ e = Host
          BY <1>1, <3>4 DEF Effects, EndOf, COwners
        <4>2. own[o].what = "output" => did.sentOutput + own[o].n <= p.file.output
          BY <2>1, <2>2, <2>3, <2>4, <3>4, <4>1, SMTT(30) DEF Covers
        <4> QED  BY <1>7, <1>11, <1>12, <2>2, <2>4, <3>4, <4>1, <4>2 DEF Ready
      <3>5. CASE o = "resize"
        <4>1. e = Controller /\ next.control = Append(obs[e].s.control, <<"resize">>)
          BY <3>5 DEF EndOf, COwners, Covers
        <4>2. PICK h \in Histories : h = obs[e].s.control
          BY <2>1
        <4>3. PICK k \in Histories : k = p.s.control
          BY <2>1
        <4>4. k = Append(h, <<"resize">>) /\ p.file.control = Len(k)
          BY <2>2, <2>4, <4>1, <4>2, <4>3
        <4>5. Count(k, <<"resize">>) = Count(h, <<"resize">>) + 1 /\ Count(h, <<"resize">>) \in Nat
          BY <4>4, CountFacts, EventFacts
        <4>6. SubSeq(k, 1, Len(k)) = k
          BY CountFacts
        <4>7. did.sentResizes <= Count(h, <<"resize">>)
          <5>1. Advances(obs[e], obs[e])
            BY <1>1, <1>2, SelfAdvances
          <5>2. /\ Count(OnFile(Controller), <<"resize">>) <= Count(h, <<"resize">>)
                /\ Count(OnFile(Controller), <<"resize">>) \in Nat
            BY <1>3, <4>1, <4>2, <5>1, OnFileGrows DEF OnFile
          <5>3. did.sentResizes <= Count(OnFile(Controller), <<"resize">>)
            BY <1>1 DEF Effects
          <5> QED  BY <2>3, <4>5, <5>2, <5>3
        <4>8. did.sentResizes + 1 <= Count(k, <<"resize">>)
          BY <2>3, <4>5, <4>7
        <4>9. OnFile(Controller)' = k
          BY <1>7, <4>1, <4>3, <4>4, <4>6 DEF OnFile
        <4> QED  BY <1>12, <3>5, <4>8, <4>9 DEF Ready, Count
      <3>6. CASE o = "exit"
        BY <3>6 DEF Ready
      <3> QED  BY <3>1, <3>2, <3>3, <3>4, <3>5, <3>6, NameFacts
    <2>5. ASSUME ExitRecorded', ~ExitRecorded
          PROVE  Count(OnFile(Host), <<"exit">>)' >= 1
      <3>1. o = "ptyOutput" /\ e = Host /\ own[o].what = "exit" /\ own'[o].st = "io"
        <4>1. o = "ptyOutput"
          BY <1>11, <2>5, NameFacts DEF ExitRecorded
        <4>2. x # Idle /\ x = then
          BY <1>10, <1>11, <2>5, <4>1 DEF ExitRecorded, Idle
        <4>3. x.st = "io" /\ x.what = own[o].what
          BY <4>2 DEF Goes
        <4> QED  BY <1>11, <2>5, <4>1, <4>3 DEF ExitRecorded, EndOf, COwners
      <3>2. next.control = Append(obs[e].s.control, <<"exit">>)
        BY <3>1 DEF Covers
      <3>3. PICK h \in Histories : h = obs[e].s.control
        BY <2>1
      <3>4. PICK k \in Histories : k = p.s.control
        BY <2>1
      <3>5. k = Append(h, <<"exit">>) /\ p.file.control = Len(k)
        BY <2>2, <3>1, <3>2, <3>3, <3>4
      <3>6. Count(k, <<"exit">>) = Count(h, <<"exit">>) + 1 /\ Count(h, <<"exit">>) \in Nat
        BY <3>5, CountFacts, EventFacts
      <3>7. SubSeq(k, 1, Len(k)) = k
        BY CountFacts
      <3>8. OnFile(Host)' = k
        BY <1>7, <3>1, <3>4, <3>5, <3>7 DEF OnFile
      <3> QED  BY <3>6, <3>8 DEF Count
    <2>6. UNCHANGED deeds
      BY <1>12 DEF deeds
    <2>7. \A a \in OwnerNames : own'[a] = own[a] \/ own'[a].st # "io" \/ Ready(a)'
      BY <1>11, <2>4
    <2> QED  BY <1>1, <1>7, <2>5, <2>6, <2>7, EffectsMoved
  <1>16. Exits'
    <2>1. /\ Active(Host)' => Active(Host)
          /\ result'[Host] = "ok" => result[Host] = "ok"
      BY <1>2, <1>9 DEF PumpMoves
    <2>2. CASE o \notin HOwners
      <3>1. e = Controller /\ o # "ptyOutput"
        BY <2>2, NameFacts DEF EndOf, COwners, HOwners
      <3>2. obs'[Host] = obs[Host] /\ own'["ptyOutput"] = own["ptyOutput"]
        BY <1>2, <1>7, <1>11, <3>1, EndFacts, NameFacts
      <3> QED  BY <1>1, <1>12, <2>1, <3>2, ExitsUnmoved DEF ExitsAlone
    <2>3. CASE o \in HOwners /\ ~(o = "ptyOutput" /\ own[o].what = "exit")
      <3>1. e = Host
        BY <2>3, EndFacts
      <3>2. ExitCount' = ExitCount
        <4>1. Count(next.control, <<"exit">>) = ExitCount
          BY <2>3 DEF Covers
        <4>2. PICK k : k = p.s.control
          OBVIOUS
        <4>3. Count(k, <<"exit">>) = ExitCount
          BY <1>5, <3>1, <4>1, <4>2 DEF ExitCount
        <4> QED  BY <1>7, <3>1, <4>2, <4>3 DEF ExitCount, Count
      <3>3. CASE o = "ptyInput"
        <4>1. own'["ptyOutput"] = own["ptyOutput"]
          BY <1>11, <3>3, NameFacts
        <4>2. ExitOpen' => ExitOpen
          BY <2>1, <4>1 DEF ExitOpen
        <4> QED  BY <1>1, <1>12, <2>1, <3>2, <4>1, <4>2, ExitsKept DEF Exits
      <3>4. CASE o = "ptyOutput"
        <4>1. own[o].what # "none"
          BY <1>1, <1>2, <3>4 DEF Exits, Idle
        <4>2. x = Idle => ~Active(Host)'
          <5>1. CASE RecordOk(obs[e])
            BY <1>2, <1>9, <1>10, <2>3, <5>1 DEF Goes, Idle, Active
          <5>2. CASE ~RecordOk(obs[e])
            BY <1>9, <3>1, <5>2 DEF Active
          <5> QED  BY <5>1, <5>2
        <4>3. x = Idle \/ (x.st = "io" /\ x.what = own[o].what)
          BY <1>10 DEF Goes
        <4>4. ExitOpen' => ExitOpen
          BY <1>11, <2>3, <3>4, <4>2, <4>3 DEF ExitOpen, Idle
        <4> QED  BY <1>1, <1>11, <1>12, <2>1, <3>2, <3>4, <4>1, <4>3, <4>4, ExitsKept DEF Idle
      <3> QED  BY <2>3, <3>3, <3>4 DEF HOwners
    <2>4. CASE o = "ptyOutput" /\ own[o].what = "exit"
      <3>1. e = Host /\ ExitCount = 0 /\ o \in HOwners
        BY <1>1, <1>2, <2>4 DEF EndOf, COwners, HOwners, Exits, ExitOpen
      <3>2. PICK h \in Histories : h = obs[Host].s.control
        BY <1>3, <3>1 DEF Sane, Observers, Sessions
      <3>3. Count(h, <<"exit">>) = 0 /\ Count(Append(h, <<"exit">>), <<"exit">>) = 1
        <4>1. Count(h, <<"exit">>) = 0
          BY <3>1, <3>2 DEF ExitCount
        <4> QED  BY <4>1, CountFacts, EventFacts
      <3>4. next.control = Append(h, <<"exit">>)
        BY <2>4, <3>2 DEF Covers
      <3>5. PICK k : k = p.s.control
        OBVIOUS
      <3>6. ExitCount' = Count(k, <<"exit">>)
        BY <1>7, <3>1, <3>5 DEF ExitCount, Count
      <3>7. ExitCount' \in {0, 1} /\ (RecordOk(obs[e]) => ExitCount' = 1)
        BY <1>5, <3>1, <3>2, <3>3, <3>4, <3>5, <3>6
      <3>8. result[Host] # "ok" /\ ending[Host] # "exit"
        BY <1>1, <3>1 DEF Exits
      <3>9. ~ExitOpen'
        <4>1. CASE RecordOk(obs[e])
          BY <1>9, <1>10, <1>11, <2>4, <3>1, <4>1 DEF ExitOpen, Goes, Idle, Active
        <4>2. CASE ~RecordOk(obs[e])
          BY <1>9, <1>10, <1>11, <2>4, <3>1, <4>2 DEF ExitOpen, Idle, Active
        <4> QED  BY <4>1, <4>2
      <3>10. x = Idle \/ (x.st = "io" /\ x.what = "exit")
        BY <1>10, <2>4 DEF Goes
      <3> QED  BY <1>11, <1>12, <2>1, <2>4, <3>7, <3>8, <3>9, <3>10 DEF Exits, Idle
    <2> QED  BY <2>2, <2>3, <2>4 DEF HOwners
  <1> QED  BY <1>2, <1>7, <1>8, <1>9, <1>12, <1>13, <1>14, <1>15, <1>16, PumpRecords

\* The recording steps of the owners.
Recording ==
    \/ CRecordInput \/ CRecordResize \/ CRecordOutput \/ CRecordExit
    \/ HRecordInput \/ HRecordResize \/ HRecordOutput \/ HRecordExit \/ HRecordComplete

\* What follows a successful record: the effect, or nothing in a closing pump.
LEMMA ThenFacts ==
    ASSUME TsTypes, NEW o \in OwnerNames
    PROVE  ThenIo(o) \in OwnerStates /\ Goes(o, ThenIo(o))
  <1>1. PICK x \in OwnerStates : x = own[o]
    BY DEF TsTypes
  <1>2. PICK y : y = [x EXCEPT !.st = "io"]
    OBVIOUS
  <1>3. y \in OwnerStates /\ y.st = "io" /\ y.what = x.what /\ y.n = x.n
    BY <1>1, <1>2 DEF OwnerStates
  <1>4. CASE Active(EndOf(o))
    <2>1. ThenIo(o) = y
      BY <1>1, <1>2, <1>4 DEF ThenIo
    <2> HIDE DEF OwnerStates
    <2> QED  BY <1>1, <1>3, <2>1 DEF Goes
  <1>5. CASE ~Active(EndOf(o))
    <2>1. ThenIo(o) = Idle
      BY <1>5 DEF ThenIo
    <2> HIDE DEF OwnerStates
    <2> QED  BY <1>5, <2>1, NameFacts, EndFacts DEF Goes
  <1> QED  BY <1>4, <1>5

\* The record() of every owner, on both ends.
LEMMA RecordingKeeps ==
    ASSUME TsInv, Recording
    PROVE  TsInv' /\ Single
  <1>1. TsTypes /\ Exits /\ Controller \in Ends /\ Host \in Ends
    BY EndFacts DEF TsInv
  <1>2. Sane(obs[Controller]) /\ Sane(obs[Host])
    BY <1>1 DEF TsTypes
  <1>3. /\ "input" \in OwnerNames /\ "output" \in OwnerNames /\ "resize" \in OwnerNames
        /\ "exit" \in OwnerNames /\ "ptyInput" \in OwnerNames /\ "ptyOutput" \in OwnerNames
        /\ EndOf("input") = Controller /\ EndOf("output") = Controller /\ EndOf("resize") = Controller
        /\ EndOf("exit") = Controller /\ EndOf("ptyInput") = Host /\ EndOf("ptyOutput") = Host
        /\ "input" \notin HOwners /\ "output" \notin HOwners /\ "resize" \notin HOwners
        /\ "exit" \notin HOwners
    BY NameFacts DEF EndOf, COwners, HOwners
  <1>4. \A o \in OwnerNames : ThenIo(o) \in OwnerStates /\ Goes(o, ThenIo(o)) /\ own[o].n \in Nat
    BY <1>1, ThenFacts DEF TsTypes, OwnerStates
  <1>5. PICK h \in Histories : h = obs[Host].s.control
    BY <1>2 DEF Sane, Observers, Sessions
  <1>6. /\ Count(h, <<"exit">>) = ExitCount /\ ExitCount \in Nat
        /\ Count(Append(h, <<"resize">>), <<"exit">>) = ExitCount
        /\ Count(Append(h, <<"complete">>), <<"exit">>) = ExitCount
    <2>1. Count(h, <<"exit">>) = ExitCount /\ Count(h, <<"exit">>) \in Nat
      BY <1>5, CountFacts DEF ExitCount
    <2>2. \A w \in Events :
             Count(Append(h, w), <<"exit">>) = Count(h, <<"exit">>) + (IF w = <<"exit">> THEN 1 ELSE 0)
      BY CountFacts
    <2>3. /\ Count(Append(h, <<"resize">>), <<"exit">>) = Count(h, <<"exit">>) + 0
          /\ Count(Append(h, <<"complete">>), <<"exit">>) = Count(h, <<"exit">>) + 0
      BY <2>2, EventFacts
    <2> QED  BY <2>1, <2>3
  <1> HIDE DEF Events, OwnerStates, OwnerNames
  <1>7. CASE CRecordInput
    <2>1. PICK n \in Nat : n = own["input"].n
      BY <1>3, <1>4
    <2>2. PICK s : s = RecordInput(obs[Controller].s, n)
      OBVIOUS
    <2>3. Longer(obs[Controller].s, s) /\ Recorded(s.input) = Recorded(obs[Controller].s.input) + n
      BY <1>2, <2>2, LongerFacts, EventFacts
    <2>4. OwnerRecords("input", s, ThenIo("input"))
      BY <1>7, <2>1, <2>2 DEF CRecordInput
    <2>5. Covers("input", s)
      BY <1>3, <2>1, <2>3 DEF Covers
    <2> QED  BY <1>3, <1>4, <2>3, <2>4, <2>5, RecordKeeps
  <1>8. CASE CRecordResize
    <2>1. PICK s : s = RecordControl(obs[Controller].s, <<"resize">>)
      OBVIOUS
    <2>2. Longer(obs[Controller].s, s) /\ s.control = Append(obs[Controller].s.control, <<"resize">>)
      BY <1>2, <2>1, LongerFacts, EventFacts
    <2>3. OwnerRecords("resize", s, ThenIo("resize"))
      BY <1>8, <2>1 DEF CRecordResize
    <2>4. Covers("resize", s)
      BY <1>3, <2>2 DEF Covers
    <2> QED  BY <1>3, <1>4, <2>2, <2>3, <2>4, RecordKeeps
  <1>9. CASE CRecordOutput
    <2>1. PICK n \in Nat : n = own["output"].n
      BY <1>3, <1>4
    <2>2. PICK s : s = RecordOutput(obs[Controller].s, n)
      OBVIOUS
    <2>3. Longer(obs[Controller].s, s) /\ Recorded(s.output) = Recorded(obs[Controller].s.output) + n
      BY <1>2, <2>2, LongerFacts, EventFacts
    <2>4. OwnerRecords("output", s, ThenIo("output"))
      BY <1>9, <2>1, <2>2 DEF CRecordOutput
    <2>5. Covers("output", s)
      BY <1>3, <2>1, <2>3 DEF Covers
    <2> QED  BY <1>3, <1>4, <2>3, <2>4, <2>5, RecordKeeps
  <1>10. CASE CRecordExit
    <2>1. PICK s : s = RecordControl(obs[Controller].s, <<"exit">>)
      OBVIOUS
    <2>2. Longer(obs[Controller].s, s)
      BY <1>2, <2>1, LongerFacts, EventFacts
    <2>3. OwnerRecords("exit", s, Idle)
      BY <1>10, <2>1 DEF CRecordExit
    <2>4. Covers("exit", s) /\ Goes("exit", Idle)
      BY <1>3 DEF Covers, Goes
    <2> QED  BY <1>3, <2>2, <2>3, <2>4, RecordKeeps, NameFacts
  <1>11. CASE HRecordInput
    <2>1. PICK n \in Nat : n = own["ptyInput"].n
      BY <1>3, <1>4
    <2>2. PICK s : s = RecordInput(obs[Host].s, n)
      OBVIOUS
    <2>3. Longer(obs[Host].s, s) /\ Recorded(s.input) = Recorded(obs[Host].s.input) + n /\ s.control = h
      BY <1>2, <1>5, <2>2, LongerFacts, EventFacts
    <2>4. OwnerRecords("ptyInput", s, ThenIo("ptyInput"))
      BY <1>11, <2>1, <2>2 DEF HRecordInput
    <2>5. Covers("ptyInput", s)
      BY <1>6, <2>1, <2>3 DEF Covers
    <2> QED  BY <1>3, <1>4, <2>3, <2>4, <2>5, RecordKeeps
  <1>12. CASE HRecordResize
    <2>1. PICK s : s = RecordControl(obs[Host].s, <<"resize">>)
      OBVIOUS
    <2>2. Longer(obs[Host].s, s) /\ s.control = Append(h, <<"resize">>)
      BY <1>2, <1>5, <2>1, LongerFacts, EventFacts
    <2>3. OwnerRecords("ptyOutput", s, ThenIo("ptyOutput")) /\ own["ptyOutput"].what = "resize"
      BY <1>12, <2>1 DEF HRecordResize
    <2>4. Covers("ptyOutput", s)
      BY <1>6, <2>2, <2>3 DEF Covers
    <2> QED  BY <1>3, <1>4, <2>2, <2>3, <2>4, RecordKeeps
  <1>13. CASE HRecordOutput
    <2>1. PICK n \in Nat : n = own["ptyOutput"].n
      BY <1>3, <1>4
    <2>2. PICK s : s = RecordOutput(obs[Host].s, n)
      OBVIOUS
    <2>3. Longer(obs[Host].s, s) /\ Recorded(s.output) = Recorded(obs[Host].s.output) + n /\ s.control = h
      BY <1>2, <1>5, <2>2, LongerFacts, EventFacts
    <2>4. OwnerRecords("ptyOutput", s, ThenIo("ptyOutput")) /\ own["ptyOutput"].what = "output"
      BY <1>13, <2>1, <2>2 DEF HRecordOutput
    <2>5. Covers("ptyOutput", s)
      BY <1>6, <2>1, <2>3, <2>4 DEF Covers
    <2> QED  BY <1>3, <1>4, <2>3, <2>4, <2>5, RecordKeeps
  <1>14. CASE HRecordExit
    <2>1. PICK s : s = RecordControl(obs[Host].s, <<"exit">>)
      OBVIOUS
    <2>2. Longer(obs[Host].s, s) /\ s.control = Append(obs[Host].s.control, <<"exit">>)
      BY <1>2, <2>1, LongerFacts, EventFacts
    <2>3. OwnerRecords("ptyOutput", s, ThenIo("ptyOutput")) /\ own["ptyOutput"].what = "exit"
      BY <1>14, <2>1 DEF HRecordExit
    <2>4. Covers("ptyOutput", s)
      BY <2>2, <2>3 DEF Covers
    <2> QED  BY <1>3, <1>4, <2>2, <2>3, <2>4, RecordKeeps
  <1>15. CASE HRecordComplete
    <2>1. PICK s : s = RecordControl(obs[Host].s, <<"complete">>)
      OBVIOUS
    <2>2. Longer(obs[Host].s, s) /\ s.control = Append(h, <<"complete">>)
      BY <1>2, <1>5, <2>1, LongerFacts, EventFacts
    <2>3. OwnerRecords("ptyOutput", s, ThenIo("ptyOutput")) /\ own["ptyOutput"].what = "complete"
      BY <1>15, <2>1 DEF HRecordComplete
    <2>4. Covers("ptyOutput", s)
      BY <1>6, <2>2, <2>3 DEF Covers
    <2> QED  BY <1>3, <1>4, <2>2, <2>3, <2>4, RecordKeeps
  <1> QED  BY <1>7, <1>8, <1>9, <1>10, <1>11, <1>12, <1>13, <1>14, <1>15 DEF Recording

-----------------------------------------------------------------------------
(* Input and output of the owners *)

\* What owner o does once its record is on file.
Acts(o) ==
    /\ did'.sentInput = did.sentInput \/ (o = "input" /\ did'.sentInput = did.sentInput + own[o].n)
    /\ did'.pty = did.pty \/ (o = "ptyInput" /\ did'.pty = did.pty + own[o].n)
    /\ \/ did'.sentOutput = did.sentOutput
       \/ /\ o = "ptyOutput" /\ own[o].what = "output"
          /\ did'.sentOutput = did.sentOutput + own[o].n
    /\ did'.shown = did.shown \/ (o = "output" /\ did'.shown = did.shown + own[o].n)
    /\ \/ did'.sentResizes = did.sentResizes
       \/ o = "resize" /\ did'.sentResizes = did.sentResizes + 1
    /\ did'.sentExit => did.sentExit \/ ExitRecorded

\* An owner that was ready has done its effect.
LEMMA EffectsActed ==
    ASSUME TsTypes, Effects, UNCHANGED obs, NEW o \in OwnerNames, Acts(o),
           own[o].st = "io" \/ UNCHANGED deeds, own'[o].st # "io",
           \A a \in OwnerNames : a # o => own'[a] = own[a], ExitRecorded' => ExitRecorded
    PROVE  Effects'
  <1>1. CASE own[o].st = "io"
    <2>1. Ready(o)
      BY <1>1 DEF Effects
    <2>2. /\ OnFile(Controller)' = OnFile(Controller) /\ OnFile(Host)' = OnFile(Host)
      BY DEF OnFile
    <2>3. PICK r : r = Count(OnFile(Controller), <<"resize">>)
      OBVIOUS
    <2>4. PICK c : c = Count(OnFile(Host), <<"exit">>)
      OBVIOUS
    <2>5. Count(OnFile(Controller), <<"resize">>)' = r /\ Count(OnFile(Host), <<"exit">>)' = c
      BY <2>2, <2>3, <2>4 DEF Count
    <2>6. /\ did'.sentInput <= obs[Controller].file.input /\ did'.pty <= obs[Host].file.input
          /\ did'.sentOutput <= obs[Host].file.output /\ did'.shown <= obs[Controller].file.output
          /\ did'.sentResizes <= r
      BY <2>1, <2>3 DEF Ready, Effects, Acts
    <2>7. did'.sentExit \/ ExitRecorded' => c >= 1
      BY <2>4 DEF Effects, Acts
    <2>8. ASSUME NEW a \in OwnerNames, own'[a].st = "io"
          PROVE  Ready(a)'
      <3>1. a # o /\ own'[a] = own[a] /\ Ready(a)
        BY <2>8 DEF Effects
      <3> QED  BY <2>3, <2>5, <3>1 DEF Ready, Acts
    <2> QED  BY <2>5, <2>6, <2>7, <2>8 DEF Effects
  <1>2. CASE UNCHANGED deeds
    <2>1. \A a \in OwnerNames : own'[a] = own[a] \/ own'[a].st # "io" \/ Ready(a)'
      OBVIOUS
    <2> QED  BY <1>2, <2>1, ObsSame, EffectsMoved
  <1> QED  BY <1>1, <1>2

\* The exit is on file, so it has been recorded once.
LEMMA ExitIsRecorded ==
    ASSUME TsTypes, Effects, Exits, ExitRecorded
    PROVE  ExitCount = 1
  <1>1. Host \in Ends
    BY EndFacts
  <1>2. Sane(obs[Host]) /\ Advances(obs[Host], obs[Host])
    BY <1>1, SelfAdvances
  <1>3. /\ Count(OnFile(Host), <<"exit">>) \in Nat /\ ExitCount \in Nat
        /\ Count(OnFile(Host), <<"exit">>) <= ExitCount
    BY <1>2, OnFileGrows DEF OnFile, ExitCount
  <1> QED  BY <1>3 DEF Effects, Exits

\* An owner that does its effect, or loses the substream in it.
LEMMA IoKeeps ==
    ASSUME TsInv, NEW o \in OwnerNames, Pumping(EndOf(o)), NEW x \in OwnerStates, x.st # "io",
           own' = [own EXCEPT ![o] = x], own[o].st = "io" \/ UNCHANGED deeds, Acts(o),
           UNCHANGED <<obs, frames, connected, reason, ending, fin, proc>>,
           NEW error \in {"ok", "lost"}, UNCHANGED <<stage, result>> \/ OwnerFails(EndOf(o), error),
           error = "ok" => o = "ptyOutput" /\ ExitRecorded,
           wire' \in Wires, did' \in Deeds,
           o = "ptyOutput" =>
               /\ ExitRecorded' => ExitRecorded
               /\ ExitOpen' => ExitOpen
               /\ x.what = "none" => x = Idle
               /\ x.st = "await" => x.what = "exit"
    PROVE  TsInv' /\ Single
  <1>1. TsTypes /\ Effects /\ Exits
    BY DEF TsInv
  <1>2. /\ own' \in [OwnerNames -> OwnerStates] /\ own'[o] = x
        /\ \A a \in OwnerNames : a # o => own'[a] = own[a]
    BY <1>1, OwnFacts
  <1>3. EndOf(o) \in Ends /\ error \in Results /\ "ptyOutput" \in OwnerNames
    BY EndFacts, NameFacts DEF EndOf, Results
  <1>4. PumpMoves(error) /\ \A d \in Ends : d # EndOf(o) => result'[d] = result[d]
    BY <1>1, <1>3, ContinuesMoves, FailsMove
  <1>5. TsTypes'
    <2>1. connected' \in BOOLEAN
      BY <1>1 DEF TsTypes
    <2> QED  BY <1>1, <1>2, <1>4, <2>1, PumpTypes
  <1>6. ExitRecorded' => ExitRecorded
    BY <1>2, <1>3 DEF ExitRecorded
  <1>7. Effects'
    BY <1>1, <1>2, <1>6, EffectsActed
  <1>8. Host \in Ends /\ (Active(Host)' => Active(Host)) /\ result'[Host] \in {result[Host], error}
    BY <1>4, EndFacts DEF PumpMoves
  <1>9. Exits'
    <2>1. ExitCount' = ExitCount
      BY DEF ExitCount, Count
    <2>2. CASE o # "ptyOutput"
      BY <1>1, <1>2, <1>3, <1>8, <2>2, ExitsUnmoved DEF ExitsAlone
    <2>3. CASE o = "ptyOutput"
      <3>1. result'[Host] = "ok" => result[Host] = "ok" \/ ExitCount = 1
        BY <1>1, <1>8, ExitIsRecorded
      <3> QED  BY <1>1, <1>2, <2>1, <2>3, <3>1, ExitsKept
    <2> QED  BY <2>2, <2>3
  <1> QED  BY <1>4, <1>5, <1>7, <1>9, PumpStep

\* The control substreams.
LEMMA WireFacts ==
    ASSUME NEW w \in Wires
    PROVE  /\ w.toHost # <<>> => [w EXCEPT !.toHost = Tail(@)] \in Wires
           /\ [w EXCEPT !.toHost = Append(@, "resize")] \in Wires
           /\ [w EXCEPT !.toHost = @ \o <<"complete", "eof">>] \in Wires
           /\ [w EXCEPT !.toController = Append(@, "eof")] \in Wires
           /\ [w EXCEPT !.outputEof = TRUE, !.toController = Append(@, "exit")] \in Wires
  <1>1. PICK S : S = Seq(Controls)
    OBVIOUS
  <1>2. w.toHost \in S /\ w.toController \in S
    BY <1>1 DEF Wires
  <1>3. \A q \in S : /\ [w EXCEPT !.toHost = q] \in Wires /\ [w EXCEPT !.toController = q] \in Wires
                     /\ [w EXCEPT !.outputEof = TRUE, !.toController = q] \in Wires
    BY <1>1 DEF Wires
  <1>4. ASSUME NEW q \in S
        PROVE  /\ q # <<>> => Tail(q) \in S
               /\ Append(q, "resize") \in S /\ Append(q, "eof") \in S /\ Append(q, "exit") \in S
               /\ q \o <<"complete", "eof">> \in S
    <2>1. \A c \in Controls : Append(q, c) \in S
      BY <1>1
    <2>2. "complete" \in Controls /\ "eof" \in Controls /\ "resize" \in Controls /\ "exit" \in Controls
      BY DEF Controls
    <2>3. \A a, b \in Controls : <<a, b>> \in Seq(Controls)
      <3> SUFFICES ASSUME NEW a \in Controls, NEW b \in Controls PROVE <<a, b>> \in Seq(Controls)
        OBVIOUS
      <3> QED  OBVIOUS
    <2>4. \A r \in Seq(Controls) : q \o r \in S
      BY <1>1
    <2>5. q # <<>> => Tail(q) \in S
      BY <1>1
    <2> QED  BY <2>1, <2>2, <2>3, <2>4, <2>5
  <1>5. PICK c1 : c1 = Append(w.toHost, "resize")
    OBVIOUS
  <1>6. PICK c2 : c2 = w.toHost \o <<"complete", "eof">>
    OBVIOUS
  <1>7. PICK c3 : c3 = Append(w.toController, "eof")
    OBVIOUS
  <1>8. PICK c4 : c4 = Append(w.toController, "exit")
    OBVIOUS
  <1>9. PICK c5 : c5 = Tail(w.toHost)
    OBVIOUS
  <1>10. c1 \in S /\ c2 \in S /\ c3 \in S /\ c4 \in S /\ (w.toHost # <<>> => c5 \in S)
    BY <1>2, <1>4, <1>5, <1>6, <1>7, <1>8, <1>9
  <1>11. /\ w.toHost # <<>> => [w EXCEPT !.toHost = c5] \in Wires
         /\ [w EXCEPT !.toHost = c1] \in Wires /\ [w EXCEPT !.toHost = c2] \in Wires
         /\ [w EXCEPT !.toController = c3] \in Wires
         /\ [w EXCEPT !.outputEof = TRUE, !.toController = c4] \in Wires
    BY <1>3, <1>10
  <1> QED  BY <1>5, <1>6, <1>7, <1>8, <1>9, <1>11, Zenon

\* Sending, displaying and applying what was recorded.
Doing ==
    \/ CSendInput \/ CSendResize \/ CDisplay \/ HWritePty \/ HApplyResize \/ HSendOutput
    \/ HSendExit \/ HAwaitComplete \/ HCloseControl \/ HControlEof \/ HAwaitTimeout

\* Sending, displaying, writing to the PTY and resizing, on both ends.
LEMMA DoingKeeps ==
    ASSUME TsInv, Doing
    PROVE  TsInv' /\ Single
  <1>1. TsTypes /\ Exits /\ did \in Deeds /\ wire \in Wires /\ own \in [OwnerNames -> OwnerStates]
    BY DEF TsInv, TsTypes
  <1>2. /\ "input" \in OwnerNames /\ "output" \in OwnerNames /\ "resize" \in OwnerNames
        /\ "exit" \in OwnerNames /\ "ptyInput" \in OwnerNames /\ "ptyOutput" \in OwnerNames
        /\ EndOf("input") = Controller /\ EndOf("output") = Controller /\ EndOf("resize") = Controller
        /\ EndOf("ptyInput") = Host /\ EndOf("ptyOutput") = Host
    BY NameFacts DEF EndOf, COwners
  <1>3. \A o \in OwnerNames : UNCHANGED did => did' \in Deeds /\ Acts(o) /\ UNCHANGED deeds
    BY <1>1 DEF Acts, deeds
  <1>4. UNCHANGED wire => wire' \in Wires
    BY <1>1
  <1>5. \A o \in OwnerNames : own[o].n \in Nat
    BY <1>1 DEF OwnerStates
  <1>6. Idle \in OwnerStates /\ Idle.st = "idle" /\ Idle.what = "none"
    BY NameFacts
  <1>7. "resize" # "ptyOutput" /\ "input" # "ptyOutput" /\ "output" # "ptyOutput"
        /\ "ptyInput" # "ptyOutput"
    OBVIOUS
  <1>8. wire.toHost # <<>> => [wire EXCEPT !.toHost = Tail(@)] \in Wires
    BY <1>1, WireFacts
  <1>9. UNCHANGED finVars => UNCHANGED <<stage, result, reason, ending, fin>>
    BY DEF finVars
  <1> HIDE DEF OwnerNames, OwnerStates
  <1>10. CASE CSendInput
    <2>1. PICK n \in Nat : n = own["input"].n
      BY <1>2, <1>5
    <2>2. /\ own["input"].st = "io" /\ Pumping(Controller) /\ own' = [own EXCEPT !["input"] = Idle]
          /\ \/ /\ wire' = [wire EXCEPT !.input = @ + n] /\ did' = [did EXCEPT !.sentInput = @ + n]
                /\ PumpContinues
             \/ UNCHANGED <<wire, did>> /\ OwnerFails(Controller, "lost")
          /\ UNCHANGED <<obs, frames, connected, reason, ending, fin, proc>>
      BY <1>2, <1>10, <2>1 DEF CSendInput, OwnerSends
    <2>3. did' = [did EXCEPT !.sentInput = @ + n] => did' \in Deeds /\ Acts("input")
      BY <1>1, <2>1 DEF Acts, Deeds
    <2>4. wire' = [wire EXCEPT !.input = @ + n] => wire' \in Wires
      BY <1>1, <2>1 DEF Wires
    <2>5. wire' \in Wires /\ did' \in Deeds /\ Acts("input")
      BY <1>2, <1>3, <1>4, <2>2, <2>3, <2>4
    <2>6. UNCHANGED <<stage, result>> \/ OwnerFails(EndOf("input"), "lost")
      BY <1>2, <2>2 DEF PumpContinues
    <2> QED  BY <1>2, <1>6, <1>7, <2>2, <2>5, <2>6, IoKeeps
  <1>11. CASE CSendResize
    <2>1. /\ own["resize"].st = "io" /\ Pumping(Controller) /\ own' = [own EXCEPT !["resize"] = Idle]
          /\ \/ /\ wire' = [wire EXCEPT !.toHost = Append(@, "resize")]
                /\ did' = [did EXCEPT !.sentResizes = @ + 1] /\ PumpContinues
             \/ UNCHANGED <<wire, did>> /\ OwnerFails(Controller, "lost")
          /\ UNCHANGED <<obs, frames, connected, reason, ending, fin, proc>>
      BY <1>2, <1>11 DEF CSendResize, OwnerSends
    <2>2. did' = [did EXCEPT !.sentResizes = @ + 1] => did' \in Deeds /\ Acts("resize")
      BY <1>1 DEF Acts, Deeds
    <2>3. wire' = [wire EXCEPT !.toHost = Append(@, "resize")] => wire' \in Wires
      BY <1>1, WireFacts
    <2>4. wire' \in Wires /\ did' \in Deeds /\ Acts("resize")
      BY <1>2, <1>3, <1>4, <2>1, <2>2, <2>3
    <2>5. UNCHANGED <<stage, result>> \/ OwnerFails(EndOf("resize"), "lost")
      BY <1>2, <2>1 DEF PumpContinues
    <2> QED  BY <1>2, <1>6, <1>7, <2>1, <2>4, <2>5, IoKeeps
  <1>12. CASE CDisplay
    <2>1. PICK n \in Nat : n = own["output"].n
      BY <1>2, <1>5
    <2>2. /\ own["output"].st = "io" /\ Pumping(Controller) /\ own' = [own EXCEPT !["output"] = Idle]
          /\ did' = [did EXCEPT !.shown = @ + n]
          /\ UNCHANGED <<obs, frames, connected, reason, ending, fin, proc>>
          /\ UNCHANGED wire /\ UNCHANGED <<stage, result>>
      BY <1>9, <1>12, <2>1 DEF CDisplay
    <2>3. did' \in Deeds /\ Acts("output")
      BY <1>1, <2>1, <2>2 DEF Acts, Deeds
    <2> QED  BY <1>2, <1>4, <1>6, <1>7, <2>2, <2>3, IoKeeps
  <1>13. CASE HWritePty
    <2>1. PICK n \in Nat : n = own["ptyInput"].n
      BY <1>2, <1>5
    <2>2. /\ own["ptyInput"].st = "io" /\ Pumping(Host) /\ own' = [own EXCEPT !["ptyInput"] = Idle]
          /\ \/ did' = [did EXCEPT !.pty = @ + n] /\ PumpContinues
             \/ OwnerFails(Host, "lost") /\ UNCHANGED did
          /\ UNCHANGED <<obs, frames, connected, reason, ending, fin, proc>> /\ UNCHANGED wire
      BY <1>13, <2>1 DEF HWritePty
    <2>3. did' = [did EXCEPT !.pty = @ + n] => did' \in Deeds /\ Acts("ptyInput")
      BY <1>1, <2>1 DEF Acts, Deeds
    <2>4. wire' \in Wires /\ did' \in Deeds /\ Acts("ptyInput")
      BY <1>2, <1>3, <1>4, <2>2, <2>3
    <2>5. UNCHANGED <<stage, result>> \/ OwnerFails(EndOf("ptyInput"), "lost")
      BY <1>2, <2>2 DEF PumpContinues
    <2> QED  BY <1>2, <1>6, <1>7, <2>2, <2>4, <2>5, IoKeeps
  <1>14. ASSUME own' = [own EXCEPT !["ptyOutput"] = Idle]
         PROVE  own'["ptyOutput"] = Idle /\ (ExitRecorded' => ExitRecorded)
    BY <1>1, <1>2, <1>6, <1>14 DEF ExitRecorded
  <1>15. CASE HApplyResize
    <2>1. /\ own["ptyOutput"].st = "io" /\ Pumping(Host) /\ own' = [own EXCEPT !["ptyOutput"] = Idle]
          /\ own["ptyOutput"].what = "resize"
          /\ UNCHANGED <<obs, frames, connected, reason, ending, fin, proc>>
          /\ UNCHANGED wire /\ UNCHANGED did /\ UNCHANGED <<stage, result>>
      BY <1>9, <1>15 DEF HApplyResize
    <2>2. ExitOpen
      BY <2>1 DEF ExitOpen
    <2> QED  BY <1>2, <1>3, <1>4, <1>6, <1>14, <2>1, <2>2, IoKeeps
  <1>16. CASE HSendOutput
    <2>1. PICK n \in Nat : n = own["ptyOutput"].n
      BY <1>2, <1>5
    <2>2. /\ own["ptyOutput"].st = "io" /\ Pumping(Host) /\ own' = [own EXCEPT !["ptyOutput"] = Idle]
          /\ own["ptyOutput"].what = "output"
          /\ \/ /\ wire' = [wire EXCEPT !.output = @ + n] /\ did' = [did EXCEPT !.sentOutput = @ + n]
                /\ PumpContinues
             \/ UNCHANGED <<wire, did>> /\ OwnerFails(Host, "lost")
          /\ UNCHANGED <<obs, frames, connected, reason, ending, fin, proc>>
      BY <1>2, <1>16, <2>1 DEF HSendOutput, OwnerSends
    <2>3. did' = [did EXCEPT !.sentOutput = @ + n] => did' \in Deeds /\ Acts("ptyOutput")
      BY <1>1, <2>1, <2>2 DEF Acts, Deeds
    <2>4. wire' = [wire EXCEPT !.output = @ + n] => wire' \in Wires
      BY <1>1, <2>1, SMTT(30) DEF Wires
    <2>5. wire' \in Wires /\ did' \in Deeds /\ Acts("ptyOutput")
      BY <1>2, <1>3, <1>4, <2>2, <2>3, <2>4
    <2>6. UNCHANGED <<stage, result>> \/ OwnerFails(EndOf("ptyOutput"), "lost")
      BY <1>2, <2>2 DEF PumpContinues
    <2>7. ExitOpen
      BY <2>2 DEF ExitOpen
    <2> QED  BY <1>2, <1>6, <1>14, <2>2, <2>5, <2>6, <2>7, IoKeeps
  <1>17. stage \in [Ends -> Stages] /\ Host \in Ends
    BY <1>1, EndFacts DEF TsTypes
  <1>18. OwnerFails(Host, "lost") \/ OwnerFails(Host, "ok") => ~Active(Host)'
    BY <1>17 DEF OwnerFails, Active
  <1>19. ~Active(Host)' /\ own'["ptyOutput"] = Idle => ~ExitOpen'
    BY <1>6 DEF ExitOpen
  <1>20. CASE HSendExit
    <2>1. /\ own["ptyOutput"].st = "io" /\ Pumping(Host) /\ own["ptyOutput"].what = "exit"
          /\ UNCHANGED <<obs, frames, connected, reason, ending, fin, proc>>
      BY <1>20 DEF HSendExit
    <2>2. ExitRecorded
      BY <2>1 DEF ExitRecorded
    <2>3. CASE connected
      <3>1. /\ own' = [own EXCEPT !["ptyOutput"].st = "await"]
            /\ wire' = [wire EXCEPT !.outputEof = TRUE, !.toController = Append(@, "exit")]
            /\ did' = [did EXCEPT !.sentExit = TRUE] /\ UNCHANGED <<stage, result>>
        BY <1>20, <2>3 DEF HSendExit, PumpContinues
      <3>2. PICK y : y = [own["ptyOutput"] EXCEPT !.st = "await"]
        OBVIOUS
      <3>3. y \in OwnerStates /\ y.st = "await" /\ y.what = "exit"
        BY <1>1, <1>2, <2>1, <3>2 DEF OwnerStates
      <3>4. own' = [own EXCEPT !["ptyOutput"] = y] /\ own'["ptyOutput"] = y
        BY <1>1, <1>2, <3>1, <3>2
      <3>5. wire' \in Wires
        BY <1>1, <3>1, WireFacts
      <3>6. did' \in Deeds /\ Acts("ptyOutput")
        BY <1>1, <2>2, <3>1 DEF Deeds, Acts
      <3>7. ~ExitOpen'
        BY <3>3, <3>4 DEF ExitOpen, Idle
      <3> QED  BY <1>2, <2>1, <2>2, <3>1, <3>3, <3>4, <3>5, <3>6, <3>7, IoKeeps
    <2>4. CASE ~connected
      <3>1. /\ own' = [own EXCEPT !["ptyOutput"] = Idle] /\ OwnerFails(Host, "lost")
            /\ UNCHANGED wire /\ UNCHANGED did
        BY <1>20, <2>4 DEF HSendExit
      <3> QED  BY <1>2, <1>3, <1>4, <1>6, <1>14, <1>18, <1>19, <2>1, <3>1, IoKeeps
    <2> QED  BY <2>3, <2>4
  <1>21. ASSUME own["ptyOutput"].st = "await"
         PROVE  ExitRecorded /\ ~ExitOpen /\ own["ptyOutput"].what = "exit"
    BY <1>1, <1>21 DEF Exits, ExitRecorded, ExitOpen, Idle
  <1>22. CASE HAwaitComplete
    <2>1. /\ own["ptyOutput"].st = "await" /\ Pumping(Host) /\ wire.toHost # <<>>
          /\ wire' = [wire EXCEPT !.toHost = Tail(@)]
          /\ own' = own \/ own' = [own EXCEPT !["ptyOutput"] = Owner("audit", "complete", 0)]
          /\ UNCHANGED <<obs, frames, connected, reason, ending, fin, proc>>
          /\ UNCHANGED did /\ UNCHANGED <<stage, result>>
      BY <1>9, <1>22 DEF HAwaitComplete
    <2>2. PICK y \in OwnerStates : /\ own' = [own EXCEPT !["ptyOutput"] = y]
                                   /\ \/ y = own["ptyOutput"]
                                      \/ y.st = "audit" /\ y.what = "complete"
      <3>1. CASE own' = own
        <4>1. own' = [own EXCEPT !["ptyOutput"] = own["ptyOutput"]] /\ own["ptyOutput"] \in OwnerStates
          BY <1>1, <1>2, <3>1
        <4> QED  BY <4>1
      <3>2. CASE own' = [own EXCEPT !["ptyOutput"] = Owner("audit", "complete", 0)]
        <4>1. PICK y \in OwnerStates : y = Owner("audit", "complete", 0)
          BY NameFacts
        <4>2. y.st = "audit" /\ y.what = "complete" /\ own' = [own EXCEPT !["ptyOutput"] = y]
          BY <3>2, <4>1, NameFacts
        <4> QED  BY <4>2
      <3> QED  BY <2>1, <3>1, <3>2
    <2>3. own'["ptyOutput"] = y /\ y.st \in {"await", "audit"} /\ y.what \in {"exit", "complete"}
          /\ (y.st = "await" => y.what = "exit") /\ (y.st = "audit" => y.what = "complete")
      BY <1>1, <1>2, <1>21, <2>1, <2>2
    <2>4. ~ExitOpen'
      BY <2>3 DEF ExitOpen, Idle
    <2> QED  BY <1>2, <1>3, <1>8, <1>21, <2>1, <2>2, <2>3, <2>4, IoKeeps
  <1>23. ASSUME HExited, Pumping(Host), wire' \in Wires, ExitRecorded
         PROVE  TsInv' /\ Single
    <2>1. /\ own' = [own EXCEPT !["ptyOutput"] = Idle]
          /\ UNCHANGED <<obs, frames, connected, reason, ending, fin, proc>> /\ UNCHANGED did
      BY <1>23 DEF HExited
    <2>2. (UNCHANGED <<stage, result>> /\ ~Active(Host)') \/ OwnerFails(Host, "ok")
      BY <1>23 DEF HExited, PumpContinues, Active
    <2>3. ~Active(Host)'
      BY <1>18, <2>2
    <2> QED  BY <1>2, <1>3, <1>6, <1>14, <1>19, <1>23, <2>1, <2>2, <2>3, IoKeeps
  <1>24. CASE HCloseControl
    <2>1. wire' = [wire EXCEPT !.toController = Append(@, "eof")] /\ HExited /\ Pumping(Host)
          /\ own["ptyOutput"].what = "complete"
      BY <1>24 DEF HCloseControl
    <2>2. wire' \in Wires
      BY <1>1, <2>1, WireFacts
    <2>3. ExitRecorded
      BY <2>1 DEF ExitRecorded
    <2> QED  BY <1>23, <2>1, <2>2, <2>3
  <1>25. CASE HControlEof
    BY <1>4, <1>21, <1>23, <1>25 DEF HControlEof
  <1>26. CASE HAwaitTimeout
    <2>1. /\ own["ptyOutput"].st = "await" /\ Pumping(Host) /\ own' = [own EXCEPT !["ptyOutput"] = Idle]
          /\ OwnerFails(Host, "lost") /\ UNCHANGED did /\ UNCHANGED wire
          /\ UNCHANGED <<obs, frames, connected, reason, ending, fin, proc>>
      BY <1>26 DEF HAwaitTimeout, HBreaks
    <2> QED  BY <1>2, <1>3, <1>4, <1>6, <1>14, <1>18, <1>19, <2>1, IoKeeps
  <1> QED  BY <1>10, <1>11, <1>12, <1>13, <1>15, <1>16, <1>20, <1>22, <1>24, <1>25, <1>26 DEF Doing

-----------------------------------------------------------------------------
(* Ends of the pumps, and faults *)

\* A fault changes nothing that has been done.
LEMMA FaultFacts ==
    ASSUME TsTypes, NEW f, Fault(f)
    PROVE  did' \in Deeds /\ UNCHANGED deeds
  <1>1. did \in Deeds /\ did' = [did EXCEPT !.faults = @ \cup {f}] /\ f \in did.max.faults
    BY DEF TsTypes, Fault
  <1>2. did.max \in Scenarios
    BY <1>1 DEF Deeds
  <1>3. f \in {"cancel", "signal", "disk", "link", "stall", "foreign"}
    BY <1>1, <1>2, TerminalAssumption
  <1> QED  BY <1>1, <1>3 DEF Deeds, deeds

\* A pump that breaks, and owners that are dropped with it.
LEMMA BreakKeeps ==
    ASSUME TsInv, UNCHANGED <<obs, frames, reason, ending, fin, proc>>,
           connected' \in BOOLEAN, wire' \in Wires, did' \in Deeds, UNCHANGED deeds,
           own' \in [OwnerNames -> OwnerStates],
           \A o \in OwnerNames : own'[o] = own[o] \/ (own'[o] = Idle /\ ~Active(EndOf(o))'),
           NEW error, PumpMoves(error), result'[Host] = "ok" => result[Host] = "ok"
    PROVE  TsInv' /\ Single
  <1>1. TsTypes /\ Effects /\ Exits
    BY DEF TsInv
  <1>2. TsTypes'
    BY <1>1, PumpTypes
  <1>3. Effects'
    <2>1. OwnersCalm
      BY DEF OwnersCalm
    <2> QED  BY <1>1, <2>1, ObsSame, EffectsKept
  <1>4. Exits'
    <2>1. ExitCount' = ExitCount
      BY DEF ExitCount, Count
    <2>2. Host \in Ends /\ "ptyOutput" \in OwnerNames /\ EndOf("ptyOutput") = Host
      BY EndFacts, NameFacts DEF EndOf, COwners
    <2>3. Active(Host)' => Active(Host)
      BY <2>2 DEF PumpMoves
    <2>4. own'["ptyOutput"] = own["ptyOutput"] \/ (own'["ptyOutput"] = Idle /\ ~Active(Host)')
      BY <2>2
    <2>5. ExitOpen' => ExitOpen
      BY <2>3, <2>4 DEF ExitOpen, Idle
    <2>6. /\ own'["ptyOutput"].what = "none" => own'["ptyOutput"] = Idle
          /\ own'["ptyOutput"].st = "await" => own'["ptyOutput"].what = "exit"
      BY <1>1, <2>4 DEF Exits, Idle
    <2> QED  BY <1>1, <2>1, <2>5, <2>6, ExitsKept
  <1> QED  BY <1>2, <1>3, <1>4, PumpStep

\* The pumps end, drop owners or go on.
Breaking ==
    \/ CReadOutputEof \/ CDrain \/ Stall \/ CComplete \/ CCancel \/ CLost \/ CCompletionTimeout
    \/ CDeadline \/ HLost \/ HSignal \/ HDeadline

\* Cancellation, loss, timeouts and deadlines of both pumps.
LEMMA BreakingKeeps ==
    ASSUME TsInv, Breaking
    PROVE  TsInv' /\ Single
  <1>1. /\ TsTypes /\ did \in Deeds /\ wire \in Wires /\ own \in [OwnerNames -> OwnerStates]
        /\ connected \in BOOLEAN /\ stage \in [Ends -> Stages] /\ result \in [Ends -> Results]
    BY DEF TsInv, TsTypes
  <1>2. Controller \in Ends /\ Host \in Ends /\ Controller # Host
        /\ "ok" \in Results /\ "lost" \in Results /\ "interrupted" \in Results
    BY EndFacts DEF Results
  <1>3. UNCHANGED did => did' \in Deeds /\ UNCHANGED deeds
    BY <1>1 DEF deeds
  <1>4. UNCHANGED <<wire, own, connected>> =>
           /\ wire' \in Wires /\ own' \in [OwnerNames -> OwnerStates] /\ connected' \in BOOLEAN
           /\ \A o \in OwnerNames : own'[o] = own[o]
    BY <1>1
  <1>5. UNCHANGED finVars => UNCHANGED <<stage, result, reason, ending, fin>>
    BY DEF finVars
  <1>6. CASE CReadOutputEof \/ CDrain
    <2>1. UNCHANGED <<obs, frames, connected, stage, result, reason, ending, fin, own, proc, wire, did>>
      BY <1>5, <1>6 DEF CReadOutputEof, CDrain
    <2>2. PumpMoves("lost")
      BY <1>1, <2>1, ContinuesMoves
    <2> QED  BY <1>3, <1>4, <2>1, <2>2, BreakKeeps
  <1>7. CASE Stall
    <2>1. /\ Fault("stall")
          /\ UNCHANGED <<obs, frames, connected, stage, result, reason, ending, fin, own, proc, wire>>
      BY <1>5, <1>7 DEF Stall
    <2>2. PumpMoves("lost")
      BY <1>1, <2>1, ContinuesMoves
    <2>3. did' \in Deeds /\ UNCHANGED deeds
      BY <1>1, <2>1, FaultFacts
    <2> QED  BY <1>4, <2>1, <2>2, <2>3, BreakKeeps
  <1>8. ASSUME NEW e \in Ends, NEW r \in Results, Active(e), OwnerFails(e, r), r = "ok" => e # Host,
               UNCHANGED <<obs, frames, connected, reason, ending, fin, own, proc, wire>>,
               did' \in Deeds, UNCHANGED deeds
        PROVE  TsInv' /\ Single
    <2>1. PumpMoves(r) /\ \A d \in Ends : d # e => result'[d] = result[d]
      BY <1>1, <1>8, FailsMove DEF Pumping, Active
    <2>2. result'[Host] = "ok" => result[Host] = "ok"
      BY <1>2, <1>8, <2>1 DEF PumpMoves
    <2> QED  BY <1>4, <1>8, <2>1, <2>2, BreakKeeps
  <1>9. ASSUME NEW r \in Results, Active(Controller), CBreaks(r), did' \in Deeds, UNCHANGED deeds
        PROVE  TsInv' /\ Single
    BY <1>2, <1>8, <1>9 DEF CBreaks
  <1>10. CASE CComplete \/ CLost \/ CCompletionTimeout
    <2>1. Active(Controller) /\ UNCHANGED did /\ (CBreaks("ok") \/ CBreaks("lost"))
      BY <1>10 DEF CComplete, CLost, CCompletionTimeout
    <2> QED  BY <1>2, <1>3, <1>9, <2>1
  <1>11. CASE CCancel
    <2>1. Active(Controller) /\ Fault("cancel") /\ CBreaks("interrupted")
      BY <1>11 DEF CCancel
    <2> QED  BY <1>1, <1>2, <1>9, <2>1, FaultFacts
  <1>12. CASE HLost
    <2>1. Active(Host) /\ OwnerFails(Host, "lost") /\ UNCHANGED did
          /\ UNCHANGED <<obs, frames, connected, reason, ending, fin, own, proc, wire>>
      BY <1>12 DEF HLost, HBreaks
    <2> QED  BY <1>2, <1>3, <1>8, <2>1
  <1>13. CASE HSignal
    <2>1. Active(Host) /\ OwnerFails(Host, "interrupted") /\ Fault("signal")
          /\ UNCHANGED <<obs, frames, connected, reason, ending, fin, own, proc, wire>>
      BY <1>13 DEF HSignal, HBreaks
    <2>2. did' \in Deeds /\ UNCHANGED deeds
      BY <1>1, <2>1, FaultFacts
    <2> QED  BY <1>2, <1>8, <2>1, <2>2
  <1>14. ASSUME NEW e \in Ends, stage[e] = "closing", UNCHANGED stage,
                result' = [result EXCEPT ![e] = Merged(@, "lost")]
         PROVE  PumpMoves("lost") /\ (result'[Host] = "ok" => result[Host] = "ok")
    <2>1. PICK r : r = Merged(result[e], "lost")
      OBVIOUS
    <2>2. r \in {result[e], "lost"} /\ r \in Results /\ result' = [result EXCEPT ![e] = r]
      BY <1>1, <1>2, <1>14, <2>1 DEF Merged
    <2> HIDE DEF Results, Stages
    <2> QED  BY <1>1, <1>2, <1>14, <2>2 DEF PumpMoves, Active, Closing
  <1>15. DOMAIN own = OwnerNames /\ Idle \in OwnerStates
    <2> HIDE DEF OwnerNames, OwnerStates
    <2> QED  BY <1>1, NameFacts
  <1>16. CASE CDeadline
    <2>1. /\ stage[Controller] = "closing" /\ UNCHANGED stage
          /\ own' = [o \in DOMAIN own |-> IF o \in COwners /\ own[o].st = "io" THEN Idle ELSE own[o]]
          /\ result' = [result EXCEPT ![Controller] = Merged(@, "lost")]
          /\ UNCHANGED <<obs, frames, connected, reason, ending, fin, proc, wire, did>>
      BY <1>16 DEF CDeadline
    <2>2. /\ own' \in [OwnerNames -> OwnerStates]
          /\ \A o \in OwnerNames : own'[o] = own[o] \/ (own'[o] = Idle /\ ~Active(EndOf(o))')
      <3>1. \A o \in OwnerNames : o \in COwners => ~Active(EndOf(o))'
        BY <2>1, EndFacts DEF Active
      <3> HIDE DEF OwnerNames, OwnerStates
      <3> QED  BY <1>1, <1>15, <2>1, <3>1
    <2>3. wire' \in Wires /\ connected' \in BOOLEAN
      BY <1>1, <2>1
    <2> QED  BY <1>2, <1>3, <1>14, <2>1, <2>2, <2>3, BreakKeeps
  <1>17. CASE HDeadline
    <2>1. /\ stage[Host] = "closing" /\ UNCHANGED stage
          /\ own' = [o \in DOMAIN own |->
                        IF o \in HOwners /\ own[o].st \in {"io", "await"} THEN Idle ELSE own[o]]
          /\ result' = [result EXCEPT ![Host] = Merged(@, "lost")] /\ connected' = FALSE
          /\ UNCHANGED <<obs, frames, reason, ending, fin, proc, wire, did>>
      BY <1>17 DEF HDeadline
    <2>2. /\ own' \in [OwnerNames -> OwnerStates]
          /\ \A o \in OwnerNames : own'[o] = own[o] \/ (own'[o] = Idle /\ ~Active(EndOf(o))')
      <3>1. \A o \in OwnerNames : o \in HOwners => ~Active(EndOf(o))'
        BY <2>1, EndFacts DEF Active
      <3> HIDE DEF OwnerNames, OwnerStates
      <3> QED  BY <1>1, <1>15, <2>1, <3>1
    <2>3. wire' \in Wires
      BY <1>1, <2>1
    <2> QED  BY <1>2, <1>3, <1>14, <2>1, <2>2, <2>3, BreakKeeps
  <1> QED  BY <1>6, <1>7, <1>10, <1>11, <1>12, <1>13, <1>16, <1>17 DEF Breaking

-----------------------------------------------------------------------------
(* The substreams and the audit branches of the pumps *)

\* Frames go, come or arrive; no end moves.
LEMMA StillKeeps ==
    ASSUME TsInv, NEW e \in Ends, NEW p, Kept(obs[e], p), p.s.phase = obs[e].s.phase,
           obs' = [obs EXCEPT ![e] = p], UNCHANGED <<stage, result, reason, ending, fin, own>>,
           frames' \in [Ends -> Seq(AllFrames)],
           \A d \in Ends : Pairs(frames'[d]) \subseteq Pairs(frames[d]),
           connected' \in BOOLEAN, proc' \in [Ends -> AllFrames \cup {NoFrame}],
           wire' \in Wires, did' \in Deeds, UNCHANGED deeds
    PROVE  TsInv' /\ Single
  <1>1. TsTypes /\ Effects /\ Exits /\ ExitReturned /\ Sane(obs[e])
    BY DEF TsInv, TsTypes
  <1>2. Advances(obs[e], p)
    BY <1>1, KeptAdvances
  <1>3. /\ obs' \in [Ends -> Observers] /\ (\A d \in Ends : Sane(obs'[d])) /\ ObsAdvance /\ obs'[e] = p
        /\ \A d \in Ends : d # e => obs'[d] = obs[d]
    BY <1>1, <1>2, ObsStep
  <1>4. /\ \A d \in Ends : obs'[d].s.phase = obs[d].s.phase /\ obs'[d].s.control = obs[d].s.control
        /\ Controller \in Ends /\ Host \in Ends
    BY <1>3, EndFacts DEF Kept
  <1>5. TsTypes'
    BY <1>1, <1>3 DEF TsTypes
  <1>6. Effects'
    <2>1. OwnersCalm
      BY DEF OwnersCalm
    <2> QED  BY <1>1, <1>3, <2>1, EffectsKept
  <1>7. Exits'
    BY <1>1, <1>4, ExitsUnmoved DEF ExitsAlone, Active
  <1>8. ASSUME NEW d \in Ends
        PROVE  Closes(d)'
    <2>1. Closes(d) /\ Advances(obs[d], obs'[d]) /\ CarriedKept(d) /\ fin'[d] = fin[d] /\ Stays(d)
      BY <1>3, <1>4 DEF TsInv, CarriedKept, ObsAdvance, Stays
    <2> QED  BY <2>1, ClosesKept
  <1>9. ExitReturned'
    BY <1>1, <1>4 DEF ExitReturned, Finished
  <1>10. Single
    BY <1>3, <1>4 DEF Single
  <1> QED  BY <1>5, <1>6, <1>7, <1>8, <1>9, <1>10 DEF TsInv

Delivering ==
    \/ PeerLeaves \/ LinkFails \/ ForeignCheckpoint
    \/ \E e \in Ends : WriterFails(e) \/ AuditRead(e)

\* Posting a frame that is no manifest, and taking one off a substream.
LEMMA FrameFacts ==
    ASSUME TsTypes, NEW e \in Ends
    PROVE  /\ frames \in [Ends -> Seq(AllFrames)]
           /\ \A q : Plain(q) => /\ Post(e, q) \in [Ends -> Seq(AllFrames)]
                                 /\ \A d \in Ends : Pairs(Post(e, q)[d]) = Pairs(frames[d])
           /\ frames[e] # <<>> =>
                 /\ Taken(e) \in [Ends -> Seq(AllFrames)] /\ Head(frames[e]) \in AllFrames
                 /\ \A d \in Ends : Pairs(Taken(e)[d]) \subseteq Pairs(frames[d])
                 /\ Head(frames[e]).kind \in {"manifest", "signature"} =>
                       Head(frames[e]) \in Pairs(frames[e])
                 /\ \A q : Plain(q) =>
                       /\ Posted(Taken(e), e, q) \in [Ends -> Seq(AllFrames)]
                       /\ \A d \in Ends : Pairs(Posted(Taken(e), e, q)[d]) \subseteq Pairs(frames[d])
  <1> HIDE DEF AllFrames
  <1>1. frames \in [Ends -> Seq(AllFrames)]
    BY DEF TsTypes
  <1>2. ASSUME NEW q, Plain(q)
        PROVE  /\ Post(e, q) \in [Ends -> Seq(AllFrames)]
               /\ \A d \in Ends : Pairs(Post(e, q)[d]) = Pairs(frames[d])
    BY <1>1, <1>2, PostedFacts DEF Post
  <1>3. ASSUME frames[e] # <<>>
        PROVE  /\ Taken(e) \in [Ends -> Seq(AllFrames)] /\ Head(frames[e]) \in AllFrames
               /\ \A d \in Ends : Pairs(Taken(e)[d]) \subseteq Pairs(frames[d])
               /\ Head(frames[e]).kind \in {"manifest", "signature"} => Head(frames[e]) \in Pairs(frames[e])
    <2>1. PICK q \in Seq(AllFrames) : q = frames[e]
      BY <1>1
    <2>2. PICK t : t = Tail(q)
      OBVIOUS
    <2>3. /\ t \in Seq(AllFrames) /\ Pairs(t) \subseteq Pairs(q) /\ Head(q) \in AllFrames
          /\ Head(q).kind \in {"manifest", "signature"} => Head(q) \in Pairs(q)
      BY <1>3, <2>1, <2>2, PairFacts
    <2>4. Taken(e) = [frames EXCEPT ![e] = t]
      BY <2>1, <2>2 DEF Taken
    <2> QED  BY <1>1, <2>1, <2>3, <2>4
  <1>4. ASSUME frames[e] # <<>>, NEW q, Plain(q)
        PROVE  /\ Posted(Taken(e), e, q) \in [Ends -> Seq(AllFrames)]
               /\ \A d \in Ends : Pairs(Posted(Taken(e), e, q)[d]) \subseteq Pairs(frames[d])
    <2>1. PICK g \in [Ends -> Seq(AllFrames)] : g = Taken(e)
      BY <1>3, <1>4
    <2>2. \A d \in Ends : Pairs(Posted(g, e, q)[d]) = Pairs(g[d])
      BY <1>4, PostedFacts
    <2>3. Posted(g, e, q) \in [Ends -> Seq(AllFrames)]
      BY <1>4, PostedFacts
    <2> QED  BY <1>3, <1>4, <2>1, <2>2, <2>3
  <1> QED  BY <1>1, <1>2, <1>3, <1>4

\* A disconnect, a failing writer and the arrival of an audit frame.
LEMMA DeliveringKeeps ==
    ASSUME TsInv, Delivering
    PROVE  TsInv' /\ Single
  <1>1. /\ TsTypes /\ did \in Deeds /\ wire \in Wires /\ connected \in BOOLEAN
        /\ frames \in [Ends -> Seq(AllFrames)] /\ proc \in [Ends -> AllFrames \cup {NoFrame}]
        /\ obs \in [Ends -> Observers]
    BY DEF TsInv, TsTypes
  <1>2. Controller \in Ends /\ Host \in Ends
    BY EndFacts
  <1>3. \A e \in Ends : Sane(obs[e]) /\ Kept(obs[e], obs[e]) /\ obs = [obs EXCEPT ![e] = obs[e]]
    BY <1>1, SelfAdvances
  <1>4. UNCHANGED did => did' \in Deeds /\ UNCHANGED deeds
    BY <1>1 DEF deeds
  <1>5. UNCHANGED finVars => UNCHANGED <<stage, result, reason, ending, fin>>
    BY DEF finVars
  <1> HIDE DEF AllFrames
  <1>6. ASSUME Disconnect, did' \in Deeds, UNCHANGED deeds
        PROVE  TsInv' /\ Single
    <2>1. PICK arrived \in BOOLEAN :
             /\ connected' = FALSE /\ frames' = IF arrived THEN frames ELSE [e \in Ends |-> <<>>]
             /\ wire' = IF arrived THEN wire
                        ELSE [wire EXCEPT !.input = 0, !.output = 0, !.toHost = <<>>, !.toController = <<>>]
             /\ UNCHANGED <<obs, stage, result, reason, ending, fin, own, proc>>
      BY <1>5, <1>6 DEF Disconnect
    <2>2. wire' \in Wires
      <3>1. PICK q : q = <<>>
        OBVIOUS
      <3>2. q \in Seq(Controls)
        BY <3>1
      <3>3. \A w \in Wires :
               [w EXCEPT !.input = 0, !.output = 0, !.toHost = q, !.toController = q] \in Wires
        BY <3>2 DEF Wires
      <3> HIDE DEF Wires
      <3> QED  BY <1>1, <2>1, <3>1, <3>3
    <2>3. frames' \in [Ends -> Seq(AllFrames)] /\ \A d \in Ends : Pairs(frames'[d]) \subseteq Pairs(frames[d])
      <3>1. Pairs(<<>>) = {} /\ <<>> \in Seq(AllFrames)
        BY DEF Pairs
      <3> QED  BY <1>1, <2>1, <3>1
    <2>4. obs' = [obs EXCEPT ![Host] = obs[Host]] /\ Kept(obs[Host], obs[Host])
      BY <1>2, <1>3, <2>1
    <2>5. connected' \in BOOLEAN /\ proc' \in [Ends -> AllFrames \cup {NoFrame}]
      BY <1>1, <2>1
    <2> QED  BY <1>2, <1>6, <2>1, <2>2, <2>3, <2>4, <2>5, StillKeeps
  <1>7. CASE PeerLeaves
    BY <1>4, <1>6, <1>7 DEF PeerLeaves
  <1>8. CASE LinkFails
    BY <1>1, <1>6, <1>8, FaultFacts DEF LinkFails
  <1>9. CASE ForeignCheckpoint
    <2>1. PICK c : c = [sequence |-> obs[Controller].s.next + 1, snapshot |-> Snapshot(obs[Controller].s)]
      OBVIOUS
    <2>2. /\ Fault("foreign") /\ frames' = Post(Controller, <<Frame("checkpoint", c)>>)
          /\ UNCHANGED <<obs, connected, stage, result, reason, ending, fin, own, proc, wire>>
      BY <1>5, <1>9, <2>1 DEF ForeignCheckpoint
    <2>3. obs[Controller].s \in Sessions
      BY <1>2, <1>3 DEF Sane, Observers
    <2>4. c \in Checkpoints
      BY <2>1, <2>3, SnapshotFacts
    <2>5. Plain(<<Frame("checkpoint", c)>>)
      BY <2>4, PlainFacts
    <2>6. frames' \in [Ends -> Seq(AllFrames)] /\ \A d \in Ends : Pairs(frames'[d]) = Pairs(frames[d])
      BY <1>1, <1>2, <2>2, <2>5, FrameFacts
    <2>7. obs' = [obs EXCEPT ![Host] = obs[Host]] /\ Kept(obs[Host], obs[Host])
      BY <1>2, <1>3, <2>2
    <2>8. did' \in Deeds /\ UNCHANGED deeds
      BY <1>1, <2>2, FaultFacts
    <2>9. connected' \in BOOLEAN /\ proc' \in [Ends -> AllFrames \cup {NoFrame}] /\ wire' \in Wires
          /\ UNCHANGED <<stage, result, reason, ending, fin, own>>
      BY <1>1, <2>2
    <2>10. \A d \in Ends : Pairs(frames'[d]) \subseteq Pairs(frames[d])
      BY <2>6
    <2> QED  BY <1>2, <2>6, <2>7, <2>8, <2>9, <2>10, StillKeeps
  <1>10. ASSUME NEW e \in Ends, WriterFails(e)
         PROVE  TsInv' /\ Single
    <2>1. PICK p : p = [obs[e] EXCEPT !.writer = "failed"]
      OBVIOUS
    <2>2. Kept(obs[e], p) /\ p.s = obs[e].s
      BY <1>3, <2>1, OtherFacts
    <2>3. /\ Fault("disk") /\ obs' = [obs EXCEPT ![e] = p]
          /\ UNCHANGED <<frames, connected, stage, result, reason, ending, fin, own, proc, wire>>
      BY <1>5, <1>10, <2>1 DEF WriterFails
    <2>4. did' \in Deeds /\ UNCHANGED deeds
      BY <1>1, <2>3, FaultFacts
    <2>5. frames' \in [Ends -> Seq(AllFrames)] /\ \A d \in Ends : Pairs(frames'[d]) \subseteq Pairs(frames[d])
      BY <1>1, <2>3
    <2>6. connected' \in BOOLEAN /\ proc' \in [Ends -> AllFrames \cup {NoFrame}] /\ wire' \in Wires
          /\ UNCHANGED <<stage, result, reason, ending, fin, own>>
      BY <1>1, <2>3
    <2> QED  BY <2>2, <2>3, <2>4, <2>5, <2>6, StillKeeps
  <1>11. ASSUME NEW e \in Ends, AuditRead(e)
         PROVE  TsInv' /\ Single
    <2>1. /\ frames[e] # <<>> /\ proc' = [proc EXCEPT ![e] = Head(frames[e])] /\ frames' = Taken(e)
          /\ UNCHANGED <<obs, connected, stage, result, reason, ending, fin, own, wire, did>>
      BY <1>5, <1>11 DEF AuditRead
    <2>2. /\ frames' \in [Ends -> Seq(AllFrames)] /\ Head(frames[e]) \in AllFrames
          /\ \A d \in Ends : Pairs(frames'[d]) \subseteq Pairs(frames[d])
      BY <1>1, <2>1, FrameFacts
    <2>3. proc' \in [Ends -> AllFrames \cup {NoFrame}]
      BY <1>1, <2>1, <2>2
    <2>4. obs' = [obs EXCEPT ![e] = obs[e]] /\ Kept(obs[e], obs[e])
      BY <1>3, <2>1
    <2>5. connected' \in BOOLEAN /\ wire' \in Wires /\ UNCHANGED <<stage, result, reason, ending, fin, own>>
      BY <1>1, <2>1
    <2> QED  BY <1>4, <2>1, <2>2, <2>3, <2>4, <2>5, StillKeeps
  <1> QED  BY <1>7, <1>8, <1>9, <1>10, <1>11 DEF Delivering

\* A pump handles or sends audit frames, or fails.
LEMMA AuditKeeps ==
    ASSUME TsInv, NEW e \in Ends, Pumping(e), NEW p, Kept(obs[e], p),
           p.s.phase \in {obs[e].s.phase, "Failed"}, obs' = [obs EXCEPT ![e] = p],
           frames' \in [Ends -> Seq(AllFrames)],
           \A d \in Ends : Pairs(frames'[d]) \subseteq Pairs(frames[d]),
           NEW next \in {stage[e], "closing"}, stage' = [stage EXCEPT ![e] = next],
           NEW r \in Results \ {"ok"}, result' = [result EXCEPT ![e] = r] \/ UNCHANGED result,
           reason' \in [Ends -> Reasons], proc' \in [Ends -> AllFrames \cup {NoFrame}],
           UNCHANGED <<connected, ending, fin, own, wire, did>>
    PROVE  TsInv' /\ Single
  <1>1. TsTypes /\ Effects /\ Exits /\ Sane(obs[e]) /\ Closes(e)
    BY DEF TsInv, TsTypes
  <1>2. obs[e].s.phase \in {"Active", "Failed"}
    BY <1>1 DEF Closes, Pumping, Sane, Observers, Sessions, Phases
  <1>3. Advances(obs[e], p) /\ p.s.phase \notin {"Finalizing", "Finished"}
    BY <1>1, <1>2, KeptAdvances
  <1>4. /\ obs' \in [Ends -> Observers] /\ (\A d \in Ends : Sane(obs'[d])) /\ ObsAdvance /\ obs'[e] = p
        /\ \A d \in Ends : d # e => obs'[d] = obs[d]
    BY <1>1, <1>3, ObsStep
  <1>5. /\ PumpMoves(r) /\ stage'[e] \in {"active", "closing"}
        /\ \A d \in Ends : d # e => stage'[d] = stage[d]
    <2>1. stage \in [Ends -> Stages] /\ result \in [Ends -> Results]
      BY <1>1 DEF TsTypes
    <2> HIDE DEF Results
    <2> QED  BY <2>1 DEF PumpMoves, Pumping, Active, Stages, Closing
  <1>6. TsTypes'
    BY <1>1, <1>4, <1>5 DEF TsTypes, PumpMoves
  <1>7. Effects'
    <2>1. OwnersCalm /\ UNCHANGED deeds
      BY DEF OwnersCalm, deeds
    <2> QED  BY <1>1, <1>4, <2>1, EffectsKept
  <1>8. Exits'
    <2>1. Host \in Ends
      BY EndFacts
    <2>2. obs'[Host].s.control = obs[Host].s.control
      BY <1>4, <2>1 DEF Kept
    <2>3. (Active(Host)' => Active(Host)) /\ result'[Host] \in {result[Host], r}
      BY <1>5, <2>1 DEF PumpMoves
    <2> QED  BY <1>1, <2>2, <2>3, ExitsUnmoved DEF ExitsAlone
  <1> QED  BY <1>3, <1>4, <1>5, <1>6, <1>7, <1>8, PumpRecords

Auditing == CFailClosed \/ \E e \in Ends : AuditSend(e) \/ AuditEof(e) \/ AuditProcess(e)

\* Running checkpoints, the frames of the peer and a fail_closed.
LEMMA AuditingKeeps ==
    ASSUME TsInv, Auditing
    PROVE  TsInv' /\ Single
  <1>1. /\ TsTypes /\ proc \in [Ends -> AllFrames \cup {NoFrame}] /\ reason \in [Ends -> Reasons]
        /\ frames \in [Ends -> Seq(AllFrames)] /\ obs \in [Ends -> Observers]
        /\ stage \in [Ends -> Stages] /\ result \in [Ends -> Results]
    BY DEF TsInv, TsTypes
  <1>2. \A e \in Ends : Sane(obs[e]) /\ Kept(obs[e], obs[e]) /\ obs = [obs EXCEPT ![e] = obs[e]]
    BY <1>1, SelfAdvances
  <1>3. UNCHANGED finVars => UNCHANGED <<stage, result, reason, ending, fin>>
    BY DEF finVars
  <1>4. UNCHANGED proc => proc' \in [Ends -> AllFrames \cup {NoFrame}]
    BY <1>1
  <1>5. UNCHANGED reason => reason' \in [Ends -> Reasons]
    BY <1>1
  <1>6. \A e \in Ends : UNCHANGED stage => stage' = [stage EXCEPT ![e] = stage[e]]
    BY <1>1
  <1>7. "audit" \in Results \ {"ok"} /\ "lost" \in Results \ {"ok"}
    BY DEF Results
  <1>8. UNCHANGED frames =>
           /\ frames' \in [Ends -> Seq(AllFrames)]
           /\ \A d \in Ends : Pairs(frames'[d]) \subseteq Pairs(frames[d])
    BY <1>1
  <1>9. ASSUME NEW e \in Ends, NEW q, Plain(q), frames' = Post(e, q)
        PROVE  /\ frames' \in [Ends -> Seq(AllFrames)]
               /\ \A d \in Ends : Pairs(frames'[d]) \subseteq Pairs(frames[d])
    <2>1. /\ Post(e, q) \in [Ends -> Seq(AllFrames)]
          /\ \A d \in Ends : Pairs(Post(e, q)[d]) = Pairs(frames[d])
      BY <1>1, <1>9, FrameFacts
    <2> QED  BY <1>9, <2>1
  <1> HIDE DEF AllFrames, Results, Reasons, Stages
  <1>10. CASE CFailClosed
    <2>1. PICK p : p = FailObserver(obs[Controller])
      OBVIOUS
    <2>2. Controller \in Ends /\ Pumping(Controller)
      BY <1>10, EndFacts DEF CFailClosed, Pumping
    <2>3. Kept(obs[Controller], p) /\ p.s.phase = "Failed"
      BY <1>2, <2>1, <2>2, FailFacts
    <2>4. /\ obs' = [obs EXCEPT ![Controller] = p] /\ frames' = Post(Controller, FailNotices)
          /\ UNCHANGED <<connected, ending, fin, own, wire, did>>
          /\ UNCHANGED stage /\ UNCHANGED result /\ UNCHANGED reason /\ UNCHANGED proc
      BY <1>3, <1>10, <2>1 DEF CFailClosed
    <2>5. /\ frames' \in [Ends -> Seq(AllFrames)]
          /\ \A d \in Ends : Pairs(frames'[d]) \subseteq Pairs(frames[d])
      BY <1>9, <2>2, <2>4, PlainFacts
    <2> QED  BY <1>4, <1>5, <1>6, <1>7, <2>2, <2>3, <2>4, <2>5, AuditKeeps
  <1>11. ASSUME NEW e \in Ends, AuditSend(e)
         PROVE  TsInv' /\ Single
    <2>1. PICK p : p = SendCheckpoint(obs[e])
      OBVIOUS
    <2>2. Kept(obs[e], p) /\ p.s.phase = obs[e].s.phase
      BY <1>2, <2>1, SendFacts
    <2>3. /\ Pumping(e) /\ obs' = [obs EXCEPT ![e] = p]
          /\ UNCHANGED <<connected, ending, fin, own, wire, did>> /\ UNCHANGED reason /\ UNCHANGED proc
          /\ \/ frames' = Post(e, CheckpointFrame(obs[e])) /\ UNCHANGED stage /\ UNCHANGED result
             \/ /\ UNCHANGED frames /\ stage' = [stage EXCEPT ![e] = "closing"]
                /\ result' = [result EXCEPT ![e] = "audit"]
      BY <1>11, <2>1 DEF AuditSend, Pumping, Active, PumpContinues
    <2>4. /\ frames' \in [Ends -> Seq(AllFrames)]
          /\ \A d \in Ends : Pairs(frames'[d]) \subseteq Pairs(frames[d])
      BY <1>2, <1>8, <1>9, <2>3, PlainFacts
    <2> QED  BY <1>4, <1>5, <1>6, <1>7, <2>2, <2>3, <2>4, AuditKeeps
  <1>12. ASSUME NEW e \in Ends, AuditEof(e)
         PROVE  TsInv' /\ Single
    <2>1. /\ Pumping(e) /\ UNCHANGED obs /\ UNCHANGED frames
          /\ UNCHANGED <<connected, ending, fin, own, wire, did>> /\ UNCHANGED reason /\ UNCHANGED proc
          /\ stage' = [stage EXCEPT ![e] = "closing"] /\ result' = [result EXCEPT ![e] = "audit"]
      BY <1>12 DEF AuditEof, Pumping, Active
    <2>2. obs' = [obs EXCEPT ![e] = obs[e]] /\ Kept(obs[e], obs[e])
      BY <1>2, <2>1
    <2> QED  BY <1>4, <1>5, <1>7, <1>8, <2>1, <2>2, AuditKeeps
  <1>13. ASSUME NEW e \in Ends, AuditProcess(e)
         PROVE  TsInv' /\ Single
    <2>1. PICK f \in AllFrames : f = proc[e]
      BY <1>1, <1>13 DEF AuditProcess
    <2>2. PICK p : p = HandleFrame(obs[e], f)
      OBVIOUS
    <2>3. Kept(obs[e], p) /\ p.s.phase \in {obs[e].s.phase, "Failed"}
      BY <1>2, <2>2, HandleFacts
    <2>4. /\ Pumping(e) /\ obs' = [obs EXCEPT ![e] = p] /\ frames' = Post(e, FrameReply(obs[e], f))
          /\ proc' = [proc EXCEPT ![e] = NoFrame]
          /\ UNCHANGED <<connected, ending, fin, own, wire, did>>
      BY <1>13, <2>1, <2>2 DEF AuditProcess
    <2>5. \/ UNCHANGED stage /\ UNCHANGED result /\ UNCHANGED reason
          \/ /\ stage' = [stage EXCEPT ![e] = "closing"] /\ f.kind = "notice"
             /\ result' = [result EXCEPT ![e] = Merged(@, "lost")]
             /\ reason' = [reason EXCEPT ![e] = f.body]
          \/ /\ stage' = [stage EXCEPT ![e] = "closing"]
             /\ result' = [result EXCEPT ![e] = "audit"] /\ UNCHANGED reason
      BY <1>13, <2>1, <2>2 DEF AuditProcess, PumpContinues, PeerCloses
    <2>6. /\ frames' \in [Ends -> Seq(AllFrames)]
          /\ \A d \in Ends : Pairs(frames'[d]) \subseteq Pairs(frames[d])
      BY <1>9, <2>4, PlainFacts
    <2>7. proc' \in [Ends -> AllFrames \cup {NoFrame}]
      BY <1>1, <2>4
    <2>8. reason' \in [Ends -> Reasons]
      <3>1. f.kind = "notice" => f.body \in Reasons
        <4> HIDE DEF Checkpoints, Manifests
        <4> QED  BY <2>1 DEF AllFrames
      <3> QED  BY <1>1, <2>5, <3>1
    <2>9. PICK r \in Results \ {"ok"} : result' = [result EXCEPT ![e] = r] \/ UNCHANGED result
      <3>1. Merged(result[e], "lost") \in {result[e], "lost"}
        BY DEF Merged
      <3>2. result = [result EXCEPT ![e] = result[e]]
        BY <1>1
      <3>3. result' = [result EXCEPT ![e] = Merged(@, "lost")] =>
               UNCHANGED result \/ result' = [result EXCEPT ![e] = "lost"]
        BY <3>1, <3>2
      <3> QED  BY <1>7, <2>5, <3>3
    <2>10. PICK next \in {stage[e], "closing"} : stage' = [stage EXCEPT ![e] = next]
      BY <1>6, <2>5
    <2> QED  BY <2>3, <2>4, <2>6, <2>7, <2>8, <2>9, <2>10, AuditKeeps
  <1> QED  BY <1>10, <1>11, <1>12, <1>13 DEF Auditing

-----------------------------------------------------------------------------
(* The end of the session *)

\* The owner of e's session takes it from one stage to the next.
Stepped(e, p, next, r, x) ==
    /\ obs' = [obs EXCEPT ![e] = p] /\ Advances(obs[e], p)
    /\ p.s.phase = "Finished" => obs[e].s.phase = "Finished" \/ stage[e] = "footer"
    /\ stage' = [stage EXCEPT ![e] = next] /\ next \in Stages \ {"active"}
    /\ result' = [result EXCEPT ![e] = r] /\ r \in Results
    /\ ending' = [ending EXCEPT ![e] = x] /\ x \in Endings
    /\ frames' \in [Ends -> Seq(AllFrames)] /\ reason' \in [Ends -> Reasons]
    /\ fin' \in [Ends -> [sent : BOOLEAN, seen : BOOLEAN, own : Manifests, peer : Manifests]]
    /\ \A d \in Ends : d # e => fin'[d] = fin[d]
    /\ UNCHANGED <<connected, own, proc>> /\ wire' \in Wires /\ did' \in Deeds /\ UNCHANGED deeds

\* The exit stays what it is.
ExitStands(e, p, r, x) ==
    e = Host =>
        /\ Count(p.s.control, <<"exit">>) = Count(obs[e].s.control, <<"exit">>)
        /\ r = "ok" => result[e] = "ok"
        /\ x = "exit" => result[e] = "ok" \/ ending[e] = "exit"

\* The exit code is kept by an ending with it, and returned by a finished one.
CodeStands(e, p, next, r, x) ==
    e = Controller /\ r = "ok" =>
        /\ next \in Closing => x = "exit"
        /\ next = "done" => /\ p.s.phase = "Finished" /\ x = "exit"
                            /\ fin'[e].own # NoManifest /\ fin'[e].peer = fin'[e].own

\* One end moves through its close; the other keeps all it has.
LEMMA StageKeeps ==
    ASSUME TsInv, NEW e \in Ends, NEW p, NEW next, NEW r, NEW x, Stepped(e, p, next, r, x),
           ExitStands(e, p, r, x), CodeStands(e, p, next, r, x), \A d \in Ends : Closes(d)'
    PROVE  TsInv' /\ Single
  <1>1. TsTypes /\ Effects /\ Exits /\ ExitReturned
    BY DEF TsInv
  <1>2. /\ obs' \in [Ends -> Observers] /\ (\A d \in Ends : Sane(obs'[d])) /\ ObsAdvance /\ obs'[e] = p
        /\ \A d \in Ends : d # e => obs'[d] = obs[d]
    BY <1>1, ObsStep DEF Stepped
  <1>3. /\ stage' \in [Ends -> Stages] /\ stage'[e] = next
        /\ result' \in [Ends -> Results] /\ result'[e] = r
        /\ ending' \in [Ends -> Endings] /\ ending'[e] = x
        /\ \A d \in Ends : d # e => stage'[d] = stage[d] /\ result'[d] = result[d] /\ ending'[d] = ending[d]
    <2>1. stage \in [Ends -> Stages] /\ result \in [Ends -> Results] /\ ending \in [Ends -> Endings]
      BY <1>1 DEF TsTypes
    <2> HIDE DEF Results, Stages, Endings
    <2> QED  BY <2>1 DEF Stepped
  <1>4. TsTypes'
    BY <1>1, <1>2, <1>3 DEF TsTypes, Stepped
  <1>5. Effects'
    <2>1. OwnersCalm /\ UNCHANGED deeds
      BY DEF OwnersCalm, Stepped
    <2> QED  BY <1>1, <1>2, <2>1, EffectsKept
  <1>6. Host \in Ends /\ Controller \in Ends
    BY EndFacts
  <1>7. Exits'
    <2>1. Active(Host)' => Active(Host)
      BY <1>3, <1>6 DEF Active, Stepped
    <2>2. own'["ptyOutput"] = own["ptyOutput"]
      BY DEF Stepped
    <2>3. ExitCount' = ExitCount
      <3>1. PICK k : k = p.s.control
        OBVIOUS
      <3>2. CASE e = Host
        <4>1. Count(k, <<"exit">>) = ExitCount
          BY <3>1, <3>2 DEF ExitStands, ExitCount
        <4> QED  BY <1>2, <3>1, <3>2, <4>1 DEF ExitCount, Count
      <3>3. CASE e # Host
        BY <1>2, <1>6, <3>3 DEF ExitCount, Count
      <3> QED  BY <3>2, <3>3
    <2>4. ExitOpen' => ExitOpen
      BY <2>1, <2>2 DEF ExitOpen
    <2>5. /\ result'[Host] = "ok" => result[Host] = "ok"
          /\ ending'[Host] = "exit" => result[Host] = "ok" \/ ending[Host] = "exit"
      BY <1>3, <1>6 DEF ExitStands
    <2> QED  BY <1>1, <2>2, <2>3, <2>4, <2>5, ExitsKept DEF Exits
  <1>8. ExitReturned'
    <2>1. CASE e = Controller
      BY <1>2, <1>3, <2>1 DEF CodeStands, ExitReturned, Finished
    <2>2. CASE e # Controller
      <3>1. fin'[Controller] = fin[Controller]
        BY <1>6, <2>2 DEF Stepped
      <3> QED  BY <1>1, <1>2, <1>3, <1>6, <2>2, <3>1 DEF ExitReturned, Finished
    <2> QED  BY <2>1, <2>2
  <1>9. Single
    BY <1>2 DEF Single, Stepped
  <1> QED  BY <1>4, <1>5, <1>7, <1>8, <1>9 DEF TsInv

\* Without a change to the manifests it is enough to know how the end moves.
LEMMA MoveKeeps ==
    ASSUME TsInv, NEW e \in Ends, NEW p, NEW next, NEW r, NEW x, Stepped(e, p, next, r, x),
           ExitStands(e, p, r, x), CodeStands(e, p, next, r, x),
           fin'[e].own = fin[e].own, fin'[e].peer = fin[e].peer,
           \A d \in Ends : Pairs(frames'[d]) \subseteq Pairs(frames[d]),
           Stays(e) \/ EndsNow(e) \/ StaysOut(e) \/ Enters(e) \/ Bars(e) \/ Seals(e)
    PROVE  TsInv' /\ Single
  <1>1. ASSUME NEW d \in Ends
        PROVE  Closes(d)'
    <2>1. TsTypes /\ Closes(d)
      BY DEF TsInv
    <2>2. ObsAdvance /\ \A a \in Ends : a # e => obs'[a] = obs[a]
      BY <2>1, ObsStep DEF Stepped
    <2>3. \A a \in Ends : fin'[a].own = fin[a].own /\ fin'[a].peer = fin[a].peer
      BY DEF Stepped
    <2>4. Advances(obs[d], obs'[d]) /\ CarriedKept(d)
      BY <2>2, <2>3, EndFacts DEF CarriedKept, ObsAdvance
    <2>5. CASE d # e
      <3>1. stage \in [Ends -> Stages] /\ ending \in [Ends -> Endings]
        BY <2>1 DEF TsTypes
      <3>2. stage'[d] = stage[d] /\ ending'[d] = ending[d]
        <4> HIDE DEF Stages, Endings
        <4> QED  BY <2>5, <3>1 DEF Stepped
      <3>3. Stays(d)
        BY <2>2, <2>5, <3>2 DEF Stays
      <3> QED  BY <2>1, <2>3, <2>4, <3>3, ClosesKept
    <2>6. CASE d = e
      BY <2>1, <2>3, <2>4, <2>6, ClosesKept
    <2> QED  BY <2>5, <2>6
  <1> QED  BY <1>1, StageKeeps

\* What a step leaves alone while a session ends.
Apart == UNCHANGED <<connected, own, proc, fin>> /\ wire' \in Wires /\ did' \in Deeds /\ UNCHANGED deeds

\* Frames are taken, or sent that are no part of a manifest pair.
Carries ==
    /\ frames' \in [Ends -> Seq(AllFrames)]
    /\ \A d \in Ends : Pairs(frames'[d]) \subseteq Pairs(frames[d])

\* The session of e ends without the exit code.
LEMMA DoneKeeps ==
    ASSUME TsInv, NEW e \in Ends, NEW p, Advances(obs[e], p),
           p.s.phase = "Finished" => obs[e].s.phase = "Finished",
           Count(p.s.control, <<"exit">>) = Count(obs[e].s.control, <<"exit">>),
           obs' = [obs EXCEPT ![e] = p], stage' = [stage EXCEPT ![e] = "done"],
           NEW r \in Results \ {"ok"}, result' = [result EXCEPT ![e] = r],
           UNCHANGED <<reason, ending>>, Carries, Apart
    PROVE  TsInv' /\ Single
  <1>1. /\ reason \in [Ends -> Reasons] /\ ending \in [Ends -> Endings] /\ stage \in [Ends -> Stages]
        /\ fin \in [Ends -> [sent : BOOLEAN, seen : BOOLEAN, own : Manifests, peer : Manifests]]
    BY DEF TsInv, TsTypes
  <1>2. "done" \in Stages \ {"active"}
    BY DEF Stages
  <1>3. Stepped(e, p, "done", r, ending[e])
    <2> HIDE DEF Stages, Reasons, Endings, Results, Manifests
    <2>1. ending' = [ending EXCEPT ![e] = ending[e]] /\ ending[e] \in Endings
      BY <1>1
    <2> QED  BY <1>1, <1>2, <2>1 DEF Stepped, Carries, Apart
  <1>4. ExitStands(e, p, r, ending[e]) /\ CodeStands(e, p, "done", r, ending[e])
    BY DEF ExitStands, CodeStands
  <1>5. EndsNow(e)
    <2> HIDE DEF Stages
    <2> QED  BY <1>1 DEF EndsNow
  <1> QED  BY <1>3, <1>4, <1>5, MoveKeeps DEF Carries, Apart

\* No other event counts as an exit.
LEMMA SameCounts ==
    ASSUME NEW o, Sane(o)
    PROVE  /\ \A p : Kept(o, p) => Count(p.s.control, <<"exit">>) = Count(o.s.control, <<"exit">>)
           /\ \A v \in Events :
                 v # <<"exit">> =>
                     Count(Append(o.s.control, v), <<"exit">>) = Count(o.s.control, <<"exit">>)
  <1> HIDE DEF Events
  <1>1. PICK h \in Histories : h = o.s.control
    BY DEF Sane, Observers, Sessions
  <1>2. ASSUME NEW v \in Events, v # <<"exit">>
        PROVE  Count(Append(h, v), <<"exit">>) = Count(h, <<"exit">>)
    <2>1. /\ Count(h, <<"exit">>) \in Nat
          /\ Count(Append(h, v), <<"exit">>) = Count(h, <<"exit">>) + (IF v = <<"exit">> THEN 1 ELSE 0)
      BY CountFacts
    <2> QED  BY <1>2, <2>1
  <1> QED  BY <1>1, <1>2 DEF Kept

\* A session that ends failed.
LEMMA FailedKeeps ==
    ASSUME TsInv, NEW e \in Ends, NEW p, Kept(obs[e], p), p.s.phase \in {obs[e].s.phase, "Failed"},
           obs[e].s.phase # "Finished", NEW f, EndsFailed(e, p, f), Carries, Apart
    PROVE  TsInv' /\ Single
  <1>1. Sane(obs[e]) /\ "audit" \in Results \ {"ok"}
    BY DEF TsInv, TsTypes, Results
  <1>2. Advances(obs[e], p)
    <2>1. obs[e].s.phase \in Phases
      BY <1>1 DEF Sane, Observers, Sessions
    <2> QED  BY <1>1, <2>1, KeptAdvances DEF Phases
  <1>3. Count(p.s.control, <<"exit">>) = Count(obs[e].s.control, <<"exit">>)
    BY <1>1, SameCounts
  <1> QED  BY <1>1, <1>2, <1>3, DoneKeeps DEF EndsFailed

\* A session that ends interrupted.
LEMMA InterruptedKeeps ==
    ASSUME TsInv, NEW e \in Ends, NEW error \in Results \ {"ok"}, EndsInterrupted(e, error), Apart
    PROVE  TsInv' /\ Single
  <1>1. Sane(obs[e]) /\ frames \in [Ends -> Seq(AllFrames)]
    BY DEF TsInv, TsTypes
  <1>2. PICK p : p = CloseInterrupted(obs[e])
    OBVIOUS
  <1>3. /\ Advances(obs[e], p) /\ (p.s.phase = "Finalizing" \/ p.s.phase = obs[e].s.phase)
        /\ p.s.control \in {obs[e].s.control, Append(obs[e].s.control, <<"close", "ConnectionLost">>)}
    BY <1>1, <1>2, InterruptFacts
  <1>4. <<"close", "ConnectionLost">> \in Events /\ <<"close", "ConnectionLost">> # <<"exit">>
    BY EventFacts DEF Reasons
  <1>5. Count(p.s.control, <<"exit">>) = Count(obs[e].s.control, <<"exit">>)
    <2> HIDE DEF Events
    <2> QED  BY <1>1, <1>3, <1>4, SameCounts
  <1>6. Carries
    BY <1>1 DEF Carries, EndsInterrupted
  <1> QED  BY <1>2, <1>3, <1>5, <1>6, DoneKeeps DEF EndsInterrupted

\* An end that enters the joint close.
LEMMA JointlyKeeps ==
    ASSUME TsInv, NEW e \in Ends, stage[e] \notin {"final", "manifest", "footer", "done"},
           NEW next \in {"notice", "receiver", "barrier"}, NEW how \in Endings \ {"none"},
           NEW why \in Reasons, stage' = [stage EXCEPT ![e] = next],
           ending' = [ending EXCEPT ![e] = how], reason' = [reason EXCEPT ![e] = why],
           NEW r \in Results, result' = [result EXCEPT ![e] = r], UNCHANGED <<obs, frames>>,
           e = Host => r = result[e] /\ (how = "exit" => r = "ok"),
           e = Controller /\ r = "ok" => how = "exit", Apart
    PROVE  TsInv' /\ Single
  <1>1. /\ TsTypes /\ reason \in [Ends -> Reasons] /\ ending \in [Ends -> Endings]
        /\ stage \in [Ends -> Stages] /\ frames \in [Ends -> Seq(AllFrames)] /\ obs \in [Ends -> Observers]
        /\ fin \in [Ends -> [sent : BOOLEAN, seen : BOOLEAN, own : Manifests, peer : Manifests]]
    BY DEF TsInv, TsTypes
  <1>2. next \in Stages \ {"active"} /\ next # "done"
    BY DEF Stages, Closing
  <1>3. Stepped(e, obs[e], next, r, how)
    <2> HIDE DEF Stages, Reasons, Endings, Results, Manifests, Observers
    <2>1. obs' = [obs EXCEPT ![e] = obs[e]] /\ Advances(obs[e], obs[e])
      BY <1>1, SelfAdvances
    <2>2. reason' \in [Ends -> Reasons]
      BY <1>1
    <2> QED  BY <1>1, <1>2, <2>1, <2>2 DEF Stepped, Apart
  <1>4. ExitStands(e, obs[e], r, how) /\ CodeStands(e, obs[e], next, r, how)
    BY <1>2 DEF ExitStands, CodeStands
  <1>5. Enters(e)
    <2> HIDE DEF Stages, Endings
    <2> QED  BY <1>1 DEF Enters
  <1> QED  BY <1>1, <1>3, <1>4, <1>5, MoveKeeps DEF Apart

\* The stages from the drained pumps to the close exchange.
Ending ==
    \/ CClosed \/ CRecordComplete \/ CSendComplete \/ CHostClosed \/ CCompleteCancelled
    \/ CCompleteFails \/ HClosed

\* The pumps hand over to the close, and the controller completes.
LEMMA EndingKeeps ==
    ASSUME TsInv, Ending
    PROVE  TsInv' /\ Single
  <1>1. /\ TsTypes /\ reason \in [Ends -> Reasons] /\ ending \in [Ends -> Endings]
        /\ result \in [Ends -> Results] /\ obs \in [Ends -> Observers]
        /\ stage \in [Ends -> Stages] /\ frames \in [Ends -> Seq(AllFrames)]
        /\ did \in Deeds /\ wire \in Wires
        /\ fin \in [Ends -> [sent : BOOLEAN, seen : BOOLEAN, own : Manifests, peer : Manifests]]
    BY DEF TsInv, TsTypes
  <1>2. Controller \in Ends /\ Host \in Ends /\ Controller # Host
    BY EndFacts
  <1>3. \A e \in Ends : /\ Sane(obs[e]) /\ Kept(obs[e], obs[e]) /\ Closes(e)
                        /\ Kept(obs[e], FailObserver(obs[e])) /\ FailObserver(obs[e]).s.phase = "Failed"
    BY <1>1, SelfAdvances, FailFacts DEF TsInv
  <1>4. ASSUME NEW e \in Ends, stage[e] \in {"closing", "completing", "acknowledging", "hostclose"}
        PROVE  obs[e].s.phase \in {"Active", "Failed"}
    BY <1>3, <1>4 DEF Closes, Sane, Observers, Sessions, Phases
  <1>5. UNCHANGED <<connected, fin, raised, termVars>> => Apart
    BY <1>1 DEF termVars, Apart, deeds
  <1>6. UNCHANGED frames => Carries
    BY <1>1 DEF Carries
  <1>7. \A e \in Ends : \A q : Plain(q) /\ frames' = Post(e, q) => Carries
    <2> TAKE e \in Ends
    <2> TAKE q
    <2>1. Plain(q) => /\ Post(e, q) \in [Ends -> Seq(AllFrames)]
                      /\ \A d \in Ends : Pairs(Post(e, q)[d]) = Pairs(frames[d])
      BY <1>1, FrameFacts
    <2> QED  BY <2>1 DEF Carries
  <1>8. Plain(FailNotices) /\ \A o : Plain(RecordNotices(o))
    BY PlainFacts
  <1>9. /\ "audit" \in Results \ {"ok"} /\ "lost" \in Results \ {"ok"} /\ "interrupted" \in Results
        /\ "LocalInterrupt" \in Endings \ {"none"} /\ "exit" \in Endings \ {"none"}
        /\ "LocalInterrupt" \in Reasons /\ "NormalShellExit" \in Reasons /\ "none" \in Reasons
        /\ \A z \in Reasons : z # "none" => z \in Endings \ {"none"} /\ z # "exit"
    BY DEF Results, Reasons, Endings
  <1> HIDE DEF Results, Reasons, Endings, AllFrames, Stages, Observers
  <1>10. \A e \in Ends : UNCHANGED result => result' = [result EXCEPT ![e] = result[e]] /\ result[e] \in Results
    BY <1>1
  <1>11. \A e \in Ends : stage[e] \in {"closing", "completing", "acknowledging", "hostclose"} =>
            stage[e] \notin {"final", "manifest", "footer", "done"}
    OBVIOUS
  <1>12. ASSUME NEW e \in Ends, stage[e] = "closing", Apart,
                \/ EndsFailed(e, FailObserver(obs[e]), Post(e, FailNotices))
                \/ EndsFailed(e, obs[e], frames)
         PROVE  TsInv' /\ Single
    <2>1. Carries
      BY <1>6, <1>7, <1>8, <1>12 DEF EndsFailed
    <2>2. obs[e].s.phase # "Finished"
      BY <1>4, <1>12
    <2>3. PICK p : p = FailObserver(obs[e])
      OBVIOUS
    <2>4. Kept(obs[e], p) /\ p.s.phase = "Failed" /\ Kept(obs[e], obs[e])
      BY <1>3, <2>3
    <2>5. CASE EndsFailed(e, FailObserver(obs[e]), Post(e, FailNotices))
      <3>1. EndsFailed(e, p, frames')
        BY <2>3, <2>5 DEF EndsFailed
      <3> QED  BY <1>12, <2>1, <2>2, <2>4, <3>1, FailedKeeps
    <2>6. CASE EndsFailed(e, obs[e], frames)
      BY <1>12, <2>1, <2>2, <2>4, <2>6, FailedKeeps
    <2> QED  BY <1>12, <2>5, <2>6
  \* An end that has left its pump and moves on to the completion.
  <1>13. ASSUME NEW p, Advances(obs[Controller], p), p.s.phase \in {"Active", "Failed"},
                NEW next \in {"completing", "acknowledging", "hostclose"},
                stage[Controller] \in {"closing", "completing", "acknowledging"},
                obs' = [obs EXCEPT ![Controller] = p], stage' = [stage EXCEPT ![Controller] = next],
                UNCHANGED <<frames, result, reason, ending>>, Apart
         PROVE  TsInv' /\ Single
    <2>1. next \in Stages \ {"active"} /\ next \notin Closing \cup {"done"}
      BY DEF Stages, Closing
    <2>2. Stepped(Controller, p, next, result[Controller], ending[Controller])
      <3> HIDE DEF Manifests
      <3>1. /\ result' = [result EXCEPT ![Controller] = result[Controller]]
            /\ ending' = [ending EXCEPT ![Controller] = ending[Controller]]
            /\ result[Controller] \in Results /\ ending[Controller] \in Endings
        BY <1>1, <1>2, <1>13
      <3> QED  BY <1>1, <1>13, <2>1, <3>1 DEF Stepped, Apart
    <2>3. /\ ExitStands(Controller, p, result[Controller], ending[Controller])
          /\ CodeStands(Controller, p, next, result[Controller], ending[Controller])
      BY <1>2, <2>1 DEF ExitStands, CodeStands
    <2>4. StaysOut(Controller)
      BY <1>1, <1>2, <1>13, <2>1 DEF StaysOut, Closing
    <2>5. Carries
      BY <1>6, <1>13
    <2> QED  BY <1>2, <1>13, <2>2, <2>3, <2>4, <2>5, MoveKeeps DEF Carries, Apart
  <1>14. obs = [obs EXCEPT ![Controller] = obs[Controller]]
         /\ Advances(obs[Controller], obs[Controller])
    BY <1>1, <1>2, SelfAdvances
  <1>15. CASE CClosed
    <2>1. stage[Controller] = "closing" /\ Apart
      BY <1>5, <1>15 DEF CClosed
    <2>2. \/ EndsFailed(Controller, FailObserver(obs[Controller]), Post(Controller, FailNotices))
          \/ EndsFailed(Controller, obs[Controller], frames)
          \/ EndsInterrupted(Controller, "lost")
          \/ /\ result[Controller] = "interrupted"
             /\ EndsJointly(Controller, "notice", "LocalInterrupt", "LocalInterrupt")
          \/ /\ stage' = [stage EXCEPT ![Controller] = "completing"]
             /\ UNCHANGED <<obs, frames, result, reason, ending>>
      BY <1>15 DEF CClosed
    <2>3. CASE EndsInterrupted(Controller, "lost")
      BY <1>2, <1>9, <2>1, <2>3, InterruptedKeeps
    <2>4. CASE /\ result[Controller] = "interrupted"
               /\ EndsJointly(Controller, "notice", "LocalInterrupt", "LocalInterrupt")
      <3>1. result' = [result EXCEPT ![Controller] = "interrupted"]
        BY <1>2, <1>10, <2>4 DEF EndsJointly
      <3> QED  BY <1>2, <1>9, <1>11, <2>1, <2>4, <3>1, JointlyKeeps DEF EndsJointly
    <2>5. CASE /\ stage' = [stage EXCEPT ![Controller] = "completing"]
               /\ UNCHANGED <<obs, frames, result, reason, ending>>
      <3>1. obs' = [obs EXCEPT ![Controller] = obs[Controller]]
        BY <1>14, <2>5
      <3> QED  BY <1>2, <1>4, <1>13, <1>14, <2>1, <2>5, <3>1
    <2> QED  BY <1>2, <1>12, <2>1, <2>2, <2>3, <2>4, <2>5
  <1>16. CASE CRecordComplete
    <2>1. stage[Controller] = "completing" /\ Apart
      BY <1>5, <1>16 DEF CRecordComplete
    <2>2. PICK s : s = RecordControl(obs[Controller].s, <<"complete">>)
      OBVIOUS
    <2>3. PICK p : p = Record(obs[Controller], s)
      OBVIOUS
    <2>4. Longer(obs[Controller].s, s)
      BY <1>2, <1>3, <2>2, LongerFacts, EventFacts
    <2>5. obs[Controller].s.phase \in {"Active", "Failed"}
      BY <1>2, <1>4, <2>1
    <2>6. /\ Advances(obs[Controller], p)
          /\ RecordOk(obs[Controller]) => p.s = s /\ obs[Controller].s.phase = "Active"
          /\ ~RecordOk(obs[Controller]) => p.s.phase = "Failed"
      BY <1>2, <1>3, <2>3, <2>4, <2>5, RecordFacts
    <2>7. CASE RecordOk(obs[Controller])
      <3>1. /\ obs' = [obs EXCEPT ![Controller] = p]
            /\ stage' = [stage EXCEPT ![Controller] = "acknowledging"]
            /\ UNCHANGED <<frames, result, reason, ending>>
        BY <1>16, <2>2, <2>3, <2>7 DEF CRecordComplete
      <3>2. p.s.phase = "Active"
        BY <2>4, <2>6, <2>7 DEF Longer
      <3> QED  BY <1>13, <2>1, <2>6, <3>1, <3>2
    <2>8. CASE ~RecordOk(obs[Controller])
      <3>1. EndsFailed(Controller, p, Post(Controller, RecordNotices(obs[Controller])))
        BY <1>16, <2>2, <2>3, <2>8 DEF CRecordComplete
      <3>2. Carries
        BY <1>2, <1>7, <1>8, <3>1 DEF EndsFailed
      <3>3. /\ obs' = [obs EXCEPT ![Controller] = p] /\ stage' = [stage EXCEPT ![Controller] = "done"]
            /\ result' = [result EXCEPT ![Controller] = "audit"] /\ UNCHANGED <<reason, ending>>
        BY <3>1 DEF EndsFailed
      <3>4. Count(p.s.control, <<"exit">>) = Count(obs[Controller].s.control, <<"exit">>)
        <4>1. ~RecordOk(obs[Controller]) => p.s.control \in {obs[Controller].s.control, s.control}
          BY <1>2, <1>3, <2>3, <2>4, <2>5, RecordFacts
        <4>2. s.control = Append(obs[Controller].s.control, <<"complete">>)
          BY <1>2, <1>3, <2>2, LongerFacts, EventFacts
        <4>3. Count(s.control, <<"exit">>) = Count(obs[Controller].s.control, <<"exit">>)
          BY <1>2, <1>3, <4>2, SameCounts, EventFacts
        <4> QED  BY <2>8, <4>1, <4>3
      <3> QED  BY <1>2, <1>9, <2>1, <2>6, <2>8, <3>2, <3>3, <3>4, DoneKeeps
    <2> QED  BY <2>7, <2>8
  <1>17. CASE CSendComplete
    <2>1. /\ stage[Controller] = "acknowledging"
          /\ wire' = [wire EXCEPT !.toHost = @ \o <<"complete", "eof">>]
          /\ stage' = [stage EXCEPT ![Controller] = "hostclose"]
          /\ UNCHANGED <<obs, frames, connected, result, reason, ending, fin, own, proc, did>>
      BY <1>17 DEF CSendComplete
    <2>2. Apart
      BY <1>1, <2>1, WireFacts DEF Apart, deeds
    <2>3. obs' = [obs EXCEPT ![Controller] = obs[Controller]]
      BY <1>14, <2>1
    <2> QED  BY <1>2, <1>4, <1>13, <1>14, <2>1, <2>2, <2>3
  <1>18. CASE CHostClosed
    <2>1. stage[Controller] = "hostclose" /\ EndsJointly(Controller, "notice", "exit", "NormalShellExit")
          /\ Apart
      BY <1>5, <1>18 DEF CHostClosed
    <2>2. result' = [result EXCEPT ![Controller] = result[Controller]] /\ result[Controller] \in Results
      BY <1>2, <1>10, <2>1 DEF EndsJointly
    <2> QED  BY <1>2, <1>9, <1>11, <2>1, <2>2, JointlyKeeps DEF EndsJointly
  <1>19. CASE CCompleteCancelled
    <2>1. /\ stage[Controller] \in {"acknowledging", "hostclose"} /\ Fault("cancel")
          /\ stage' = [stage EXCEPT ![Controller] = "notice"]
          /\ ending' = [ending EXCEPT ![Controller] = "LocalInterrupt"]
          /\ reason' = [reason EXCEPT ![Controller] = "LocalInterrupt"]
          /\ result' = [result EXCEPT ![Controller] = "interrupted"]
          /\ UNCHANGED <<obs, frames, connected, fin, own, proc, wire>>
      BY <1>19 DEF CCompleteCancelled
    <2>2. Apart
      BY <1>1, <2>1, FaultFacts DEF Apart
    <2>3. UNCHANGED <<obs, frames>>
      BY <2>1
    <2> QED  BY <1>2, <1>9, <1>11, <2>1, <2>2, <2>3, JointlyKeeps
  <1>20. CASE CCompleteFails
    <2>1. EndsInterrupted(Controller, "lost") /\ Apart
      BY <1>5, <1>20 DEF CCompleteFails
    <2> QED  BY <1>2, <1>9, <2>1, InterruptedKeeps
  <1>21. CASE HClosed
    <2>1. stage[Host] = "closing" /\ Apart
      BY <1>5, <1>21 DEF HClosed
    <2>2. \/ EndsFailed(Host, FailObserver(obs[Host]), Post(Host, FailNotices))
          \/ EndsFailed(Host, obs[Host], frames)
          \/ reason[Host] # "none" /\ EndsJointly(Host, "barrier", reason[Host], reason[Host])
          \/ result[Host] = "ok" /\ EndsJointly(Host, "receiver", "exit", "none")
          \/ result[Host] # "ok" /\ EndsInterrupted(Host, result[Host])
      BY <1>21 DEF HClosed
    <2>3. CASE reason[Host] # "none" /\ EndsJointly(Host, "barrier", reason[Host], reason[Host])
      <3>1. PICK z \in Reasons : z = reason[Host]
        BY <1>1, <1>2
      <3>2. z \in Endings \ {"none"} /\ z # "exit"
        BY <1>9, <2>3, <3>1
      <3>3. result' = [result EXCEPT ![Host] = result[Host]] /\ result[Host] \in Results
        BY <1>2, <1>10, <2>3 DEF EndsJointly
      <3>4. /\ stage' = [stage EXCEPT ![Host] = "barrier"] /\ ending' = [ending EXCEPT ![Host] = z]
            /\ reason' = [reason EXCEPT ![Host] = z] /\ UNCHANGED <<obs, frames>>
        BY <2>3, <3>1 DEF EndsJointly
      <3> QED  BY <1>2, <1>11, <2>1, <3>1, <3>2, <3>3, <3>4, JointlyKeeps
    <2>4. CASE result[Host] = "ok" /\ EndsJointly(Host, "receiver", "exit", "none")
      <3>1. result' = [result EXCEPT ![Host] = result[Host]] /\ result[Host] \in Results
        BY <1>2, <1>10, <2>4 DEF EndsJointly
      <3> QED  BY <1>2, <1>9, <1>11, <2>1, <2>4, <3>1, JointlyKeeps DEF EndsJointly
    <2>5. CASE result[Host] # "ok" /\ EndsInterrupted(Host, result[Host])
      <3>1. result[Host] \in Results \ {"ok"}
        BY <1>1, <1>2, <2>5
      <3> QED  BY <1>2, <2>1, <2>5, <3>1, InterruptedKeeps
    <2> QED  BY <1>2, <1>12, <2>1, <2>2, <2>3, <2>4, <2>5
  <1> QED  BY <1>15, <1>16, <1>17, <1>18, <1>19, <1>20, <1>21 DEF Ending

-----------------------------------------------------------------------------
(* close_and_finalize *)

\* To advance and then fail is to advance.
LEMMA AdvancesFailed ==
    ASSUME NEW o, Sane(o), o.s.phase # "Finished", NEW p, Advances(o, p), p.s.phase # "Finished"
    PROVE  /\ Advances(o, FailObserver(p)) /\ FailObserver(p).s.phase = "Failed"
           /\ FailObserver(p).s.control = p.s.control
  <1>1. Sane(p)
    BY DEF Advances
  <1>2. PICK q : q = FailObserver(p)
    OBVIOUS
  <1>3. Kept(p, q) /\ q.s.phase = "Failed"
    BY <1>1, <1>2, FailFacts
  <1>4. o.s.phase \in Phases
    BY DEF Sane, Observers, Sessions
  <1>5. Advances(o, q)
    BY <1>3, <1>4 DEF Advances, Kept, Phases
  <1> QED  BY <1>2, <1>3, <1>5 DEF Kept

\* One field of one end's finalization.
LEMMA FinEdits ==
    ASSUME TsTypes, NEW e \in Ends
    PROVE  /\ \A b \in BOOLEAN : \A g : g = [fin EXCEPT ![e].sent = b] \/ g = [fin EXCEPT ![e].seen = b] =>
                 /\ g \in [Ends -> [sent : BOOLEAN, seen : BOOLEAN, own : Manifests, peer : Manifests]]
                 /\ \A d \in Ends : d # e => g[d] = fin[d]
                 /\ g[e].own = fin[e].own /\ g[e].peer = fin[e].peer
           /\ \A m \in Manifests : \A g : g = [fin EXCEPT ![e].own = m] =>
                 /\ g \in [Ends -> [sent : BOOLEAN, seen : BOOLEAN, own : Manifests, peer : Manifests]]
                 /\ \A d \in Ends : d # e => g[d] = fin[d]
                 /\ g[e].own = m /\ g[e].peer = fin[e].peer
           /\ \A m \in Manifests : \A g : g = [fin EXCEPT ![e].peer = m] =>
                 /\ g \in [Ends -> [sent : BOOLEAN, seen : BOOLEAN, own : Manifests, peer : Manifests]]
                 /\ \A d \in Ends : d # e => g[d] = fin[d]
                 /\ g[e].own = fin[e].own /\ g[e].peer = m
  <1>1. fin \in [Ends -> [sent : BOOLEAN, seen : BOOLEAN, own : Manifests, peer : Manifests]]
    BY DEF TsTypes
  <1> HIDE DEF Manifests
  <1>2. ASSUME NEW b \in BOOLEAN, NEW g, g = [fin EXCEPT ![e].sent = b] \/ g = [fin EXCEPT ![e].seen = b]
        PROVE  /\ g \in [Ends -> [sent : BOOLEAN, seen : BOOLEAN, own : Manifests, peer : Manifests]]
               /\ \A d \in Ends : d # e => g[d] = fin[d]
               /\ g[e].own = fin[e].own /\ g[e].peer = fin[e].peer
    BY <1>1, <1>2
  <1>3. ASSUME NEW m \in Manifests, NEW g, g = [fin EXCEPT ![e].own = m]
        PROVE  /\ g \in [Ends -> [sent : BOOLEAN, seen : BOOLEAN, own : Manifests, peer : Manifests]]
               /\ \A d \in Ends : d # e => g[d] = fin[d]
               /\ g[e].own = m /\ g[e].peer = fin[e].peer
    BY <1>1, <1>3
  <1>4. ASSUME NEW m \in Manifests, NEW g, g = [fin EXCEPT ![e].peer = m]
        PROVE  /\ g \in [Ends -> [sent : BOOLEAN, seen : BOOLEAN, own : Manifests, peer : Manifests]]
               /\ \A d \in Ends : d # e => g[d] = fin[d]
               /\ g[e].own = fin[e].own /\ g[e].peer = m
    BY <1>1, <1>4
  <1> QED  BY <1>2, <1>3, <1>4

\* An end that closes has not finished and has an ending.
LEMMA ClosingFacts ==
    ASSUME TsInv, NEW e \in Ends, stage[e] \in Closing
    PROVE  /\ Sane(obs[e]) /\ obs[e].s.phase # "Finished" /\ ending[e] # "none"
           /\ e = Controller /\ result[e] = "ok" => ending[e] = "exit"
  <1>1. Closes(e) /\ ExitReturned /\ Sane(obs[e])
    BY DEF TsInv, TsTypes
  <1> QED  BY <1>1 DEF Closes, ExitReturned, Closing

\* An error of the finalization.
LEMMA FinFailsKeeps ==
    ASSUME TsInv, NEW e \in Ends, stage[e] \in Closing, NEW o, Advances(obs[e], o),
           o.s.phase # "Finished",
           Count(o.s.control, <<"exit">>) = Count(obs[e].s.control, <<"exit">>),
           NEW f \in [Ends -> Seq(AllFrames)], \A d \in Ends : Pairs(f[d]) \subseteq Pairs(frames[d]),
           NEW error, FinFails(e, error, o, f), UNCHANGED termVars
    PROVE  TsInv' /\ Single
  <1>1. TsTypes /\ did \in Deeds /\ wire \in Wires
    BY DEF TsInv, TsTypes
  <1>2. Sane(obs[e]) /\ obs[e].s.phase # "Finished"
    BY ClosingFacts
  <1>3. PICK p : p = IF e = Controller THEN FailObserver(o) ELSE o
    OBVIOUS
  <1>4. /\ Advances(obs[e], p) /\ p.s.phase # "Finished"
        /\ Count(p.s.control, <<"exit">>) = Count(obs[e].s.control, <<"exit">>)
    BY <1>2, <1>3, AdvancesFailed
  <1>5. Carries
    <2>1. /\ Posted(f, e, FailNotices) \in [Ends -> Seq(AllFrames)]
          /\ \A d \in Ends : Pairs(Posted(f, e, FailNotices)[d]) = Pairs(f[d])
      BY PlainFacts, PostedFacts
    <2> QED  BY <2>1 DEF FinFails, Carries
  <1>6. Apart
    BY <1>1 DEF FinFails, Apart, termVars, deeds
  <1>7. PICK r \in Results \ {"ok"} : r = FinResult(e, error)
    BY DEF FinResult, Results
  <1>8. /\ obs' = [obs EXCEPT ![e] = p] /\ stage' = [stage EXCEPT ![e] = "done"]
        /\ result' = [result EXCEPT ![e] = r] /\ UNCHANGED <<reason, ending>>
    BY <1>3, <1>7 DEF FinFails
  <1> QED  BY <1>4, <1>5, <1>6, <1>8, DoneKeeps

\* A step that goes on, without a change to the manifests.
LEMMA FinGoes ==
    ASSUME TsInv, NEW e \in Ends, stage[e] \in Closing, NEW p, Advances(obs[e], p),
           p.s.phase # "Finished",
           Count(p.s.control, <<"exit">>) = Count(obs[e].s.control, <<"exit">>),
           NEW next, NEW f, FinContinues(e, p, f, next), Carries, UNCHANGED termVars,
           reason' \in [Ends -> Reasons],
           fin' \in [Ends -> [sent : BOOLEAN, seen : BOOLEAN, own : Manifests, peer : Manifests]],
           \A d \in Ends : d # e => fin'[d] = fin[d],
           fin'[e].own = fin[e].own, fin'[e].peer = fin[e].peer,
           \/ next = stage[e] /\ p.s.phase = obs[e].s.phase
           \/ /\ stage[e] \in {"notice", "receiver"} /\ next = "barrier"
              /\ p.s.phase = obs[e].s.phase
           \/ stage[e] = "barrier" /\ next = "final" /\ p.s.phase = "Finalizing"
           \/ /\ stage[e] = "manifest" /\ next = "footer" /\ p.s.phase = obs[e].s.phase
              /\ fin[e].peer = fin[e].own
    PROVE  TsInv' /\ Single
  <1>1. /\ TsTypes /\ did \in Deeds /\ wire \in Wires /\ stage \in [Ends -> Stages]
        /\ result \in [Ends -> Results] /\ ending \in [Ends -> Endings] /\ obs \in [Ends -> Observers]
    BY DEF TsInv, TsTypes
  <1>2. /\ Sane(obs[e]) /\ obs[e].s.phase # "Finished" /\ ending[e] # "none"
        /\ e = Controller /\ result[e] = "ok" => ending[e] = "exit"
    BY ClosingFacts
  <1>3. next \in Stages \ {"active"} /\ next # "done"
    BY DEF Stages, Closing
  <1> HIDE DEF Stages, Results, Endings, Observers, Manifests
  <1>4. /\ obs' = [obs EXCEPT ![e] = p] /\ stage' = [stage EXCEPT ![e] = next]
        /\ UNCHANGED <<result, ending, connected>>
    BY DEF FinContinues
  <1>5. /\ result' = [result EXCEPT ![e] = result[e]] /\ ending' = [ending EXCEPT ![e] = ending[e]]
        /\ result[e] \in Results /\ ending[e] \in Endings
    BY <1>1, <1>4
  <1>6. Stepped(e, p, next, result[e], ending[e])
    <2>1. UNCHANGED <<own, proc>> /\ wire' \in Wires /\ did' \in Deeds /\ UNCHANGED deeds
      BY <1>1 DEF termVars, deeds
    <2> QED  BY <1>3, <1>4, <1>5, <2>1 DEF Stepped, Carries
  <1>7. ExitStands(e, p, result[e], ending[e]) /\ CodeStands(e, p, next, result[e], ending[e])
    BY <1>2, <1>3 DEF ExitStands, CodeStands
  <1>8. obs'[e] = p /\ stage'[e] = next /\ ending'[e] = ending[e]
    BY <1>1, <1>4
  <1>9. Stays(e) \/ Enters(e) \/ Bars(e) \/ Seals(e)
    BY <1>2, <1>8 DEF Stays, Enters, Bars, Seals
  <1> QED  BY <1>6, <1>7, <1>9, MoveKeeps DEF Carries

\* Only what concerns the checkpoints of e changes.
FinAside(e) ==
    /\ fin' \in [Ends -> [sent : BOOLEAN, seen : BOOLEAN, own : Manifests, peer : Manifests]]
    /\ \A d \in Ends : d # e => fin'[d] = fin[d]
    /\ fin'[e].own = fin[e].own /\ fin'[e].peer = fin[e].peer

\* A checkpoint, an acknowledgement or a notice during the close.
LEMMA SettleKeeps ==
    ASSUME TsInv, NEW e \in Ends, stage[e] \in Closing, frames[e] # <<>>,
           NEW f, f = Head(frames[e]), FinSettle(e, f), UNCHANGED termVars, FinAside(e)
    PROVE  TsInv' /\ Single
  <1>1. TsTypes /\ reason \in [Ends -> Reasons]
    BY DEF TsInv, TsTypes
  <1>2. Sane(obs[e]) /\ obs[e].s.phase # "Finished"
    BY ClosingFacts
  <1>3. f \in AllFrames
    BY <1>1, FrameFacts
  <1>4. PICK p : p = HandleFrame(obs[e], f)
    OBVIOUS
  <1>5. /\ Kept(obs[e], p) /\ (FrameError(obs[e], f) = "none" => p.s.phase = obs[e].s.phase)
        /\ \/ p.s.phase = obs[e].s.phase
           \/ obs[e].s.phase \in {"Active", "Finalizing"} /\ p.s.phase = "Failed"
    BY <1>2, <1>3, <1>4, HandleFacts DEF Talking
  <1>6. /\ Advances(obs[e], p) /\ p.s.phase # "Finished"
        /\ Count(p.s.control, <<"exit">>) = Count(obs[e].s.control, <<"exit">>)
    BY <1>2, <1>5, KeptAdvances, SameCounts
  <1>7. CASE FrameError(obs[e], f) = "none"
    <2>1. PICK g : g = Posted(Taken(e), e, FrameReply(obs[e], f))
      OBVIOUS
    <2>2. FinContinues(e, p, g, stage[e]) /\ UNCHANGED reason
      BY <1>4, <1>7, <2>1 DEF FinSettle
    <2>3. Plain(FrameReply(obs[e], f))
      BY <1>3, PlainFacts
    <2>4. g \in [Ends -> Seq(AllFrames)] /\ \A d \in Ends : Pairs(g[d]) \subseteq Pairs(frames[d])
      BY <1>1, <2>1, <2>3, FrameFacts
    <2>5. Carries
      BY <2>2, <2>4 DEF FinContinues, Carries
    <2>6. reason' \in [Ends -> Reasons]
      BY <1>1, <2>2
    <2> QED  BY <1>5, <1>6, <1>7, <2>2, <2>5, <2>6, FinGoes DEF FinAside
  <1>8. CASE FrameError(obs[e], f) # "none"
    <2>1. PICK g : g = Taken(e)
      OBVIOUS
    <2>2. FinFails(e, FrameError(obs[e], f), p, g)
      BY <1>4, <1>8, <2>1 DEF FinSettle
    <2>3. g \in [Ends -> Seq(AllFrames)] /\ \A d \in Ends : Pairs(g[d]) \subseteq Pairs(frames[d])
      BY <1>1, <2>1, FrameFacts
    <2> QED  BY <1>6, <2>2, <2>3, FinFailsKeeps
  <1> QED  BY <1>7, <1>8

\* Errors that leave the observer as it is, and steps that only take a frame.
LEMMA PlainSteps ==
    ASSUME TsInv, NEW e \in Ends, stage[e] \in Closing, UNCHANGED termVars
    PROVE  /\ \A error : FinFails(e, error, obs[e], frames) => TsInv' /\ Single
           /\ \A error : frames[e] # <<>> /\ FinFails(e, error, obs[e], Taken(e)) => TsInv' /\ Single
           /\ frames[e] # <<>> /\ FinContinues(e, obs[e], Taken(e), stage[e])
                 /\ UNCHANGED <<reason, fin>> => TsInv' /\ Single
  <1>1. /\ TsTypes /\ frames \in [Ends -> Seq(AllFrames)] /\ reason \in [Ends -> Reasons]
        /\ fin \in [Ends -> [sent : BOOLEAN, seen : BOOLEAN, own : Manifests, peer : Manifests]]
    BY DEF TsInv, TsTypes
  <1>2. Sane(obs[e]) /\ obs[e].s.phase # "Finished" /\ Advances(obs[e], obs[e])
    BY <1>1, ClosingFacts, SelfAdvances
  <1>3. ASSUME NEW error, FinFails(e, error, obs[e], frames)
        PROVE  TsInv' /\ Single
    BY <1>1, <1>2, <1>3, FinFailsKeeps
  <1>4. ASSUME frames[e] # <<>>
        PROVE  Taken(e) \in [Ends -> Seq(AllFrames)] /\ \A d \in Ends : Pairs(Taken(e)[d]) \subseteq Pairs(frames[d])
    BY <1>1, <1>4, FrameFacts
  <1>5. ASSUME NEW error, frames[e] # <<>>, FinFails(e, error, obs[e], Taken(e))
        PROVE  TsInv' /\ Single
    BY <1>2, <1>4, <1>5, FinFailsKeeps
  <1>6. ASSUME frames[e] # <<>>, FinContinues(e, obs[e], Taken(e), stage[e]), UNCHANGED <<reason, fin>>
        PROVE  TsInv' /\ Single
    <2>1. Carries
      BY <1>4, <1>6 DEF FinContinues, Carries
    <2>2. reason' \in [Ends -> Reasons]
          /\ fin' \in [Ends -> [sent : BOOLEAN, seen : BOOLEAN, own : Manifests, peer : Manifests]]
          /\ fin' = fin
      BY <1>1, <1>6
    <2> QED  BY <1>2, <1>6, <2>1, <2>2, FinGoes
  <1> QED  BY <1>3, <1>5, <1>6

\* The steps before the manifest.
LEMMA FinEarly ==
    ASSUME TsInv, NEW e \in Ends, UNCHANGED termVars,
           \/ FinSendNotice(e) \/ FinReceiveNotice(e) \/ FinBarrier(e) \/ FinSendFinal(e)
           \/ FinReadFrame(e) \/ FinTimeout(e) \/ FinEndpointLost(e)
    PROVE  TsInv' /\ Single
  <1>1. /\ TsTypes /\ frames \in [Ends -> Seq(AllFrames)] /\ reason \in [Ends -> Reasons]
        /\ fin \in [Ends -> [sent : BOOLEAN, seen : BOOLEAN, own : Manifests, peer : Manifests]]
    BY DEF TsInv, TsTypes
  <1>2. stage[e] \in Closing
    BY DEF FinSendNotice, FinReceiveNotice, FinBarrier, FinSendFinal, FinReadFrame, FinTimeout,
           FinEndpointLost, Awaits, Closing
  <1>3. Sane(obs[e]) /\ obs[e].s.phase # "Finished" /\ Advances(obs[e], obs[e])
    BY <1>1, <1>2, ClosingFacts, SelfAdvances
  <1>4. /\ \A error : FinFails(e, error, obs[e], frames) => TsInv' /\ Single
        /\ \A error : frames[e] # <<>> /\ FinFails(e, error, obs[e], Taken(e)) => TsInv' /\ Single
        /\ frames[e] # <<>> /\ FinContinues(e, obs[e], Taken(e), stage[e])
              /\ UNCHANGED <<reason, fin>> => TsInv' /\ Single
    BY <1>2, PlainSteps
  <1>5. UNCHANGED fin => FinAside(e)
    BY <1>1 DEF FinAside
  <1>6. UNCHANGED reason => reason' \in [Ends -> Reasons]
    BY <1>1
  <1>7. CASE FinTimeout(e) \/ FinEndpointLost(e)
    <2>1. FinFails(e, "FailedClosed", obs[e], frames) \/ FinFails(e, "Endpoint", obs[e], frames)
      BY <1>7 DEF FinTimeout, FinEndpointLost
    <2> QED  BY <1>4, <2>1
  <1>8. CASE FinSendNotice(e)
    <2>1. PICK q : q = <<Frame("notice", reason[e])>>
      OBVIOUS
    <2>2. CASE connected
      <3>1. stage[e] = "notice" /\ FinContinues(e, obs[e], Post(e, q), "barrier") /\ UNCHANGED <<reason, fin>>
        BY <1>8, <2>1, <2>2 DEF FinSendNotice
      <3>2. Plain(q)
        BY <1>1, <2>1, PlainFacts
      <3>3. /\ Post(e, q) \in [Ends -> Seq(AllFrames)]
            /\ \A d \in Ends : Pairs(Post(e, q)[d]) = Pairs(frames[d])
        BY <1>1, <3>2, FrameFacts
      <3>4. Carries
        BY <3>1, <3>3 DEF FinContinues, Carries
      <3> QED  BY <1>2, <1>3, <1>5, <1>6, <3>1, <3>4, FinGoes DEF FinAside
    <2>3. CASE ~connected
      BY <1>4, <1>8, <2>3 DEF FinSendNotice
    <2> QED  BY <2>2, <2>3
  <1>9. CASE FinReceiveNotice(e)
    <2>1. stage[e] = "receiver" /\ frames[e] # <<>>
      BY <1>9 DEF FinReceiveNotice
    <2>2. PICK f \in AllFrames : f = Head(frames[e])
      BY <1>1, <2>1, FrameFacts
    <2>3. \/ FinSettle(e, f) /\ UNCHANGED fin
          \/ /\ f.kind = "notice" /\ FinContinues(e, obs[e], Taken(e), "barrier")
             /\ reason' = [reason EXCEPT ![e] = f.body] /\ UNCHANGED fin
          \/ FinFails(e, "FailedClosed", obs[e], Taken(e))
          \/ FinFails(e, "OutOfOrder", obs[e], Taken(e))
      BY <1>9, <2>2 DEF FinReceiveNotice
    <2>4. CASE FinSettle(e, f) /\ UNCHANGED fin
      BY <1>2, <1>5, <2>1, <2>2, <2>4, SettleKeeps
    <2>5. CASE /\ f.kind = "notice" /\ FinContinues(e, obs[e], Taken(e), "barrier")
               /\ reason' = [reason EXCEPT ![e] = f.body] /\ UNCHANGED fin
      <3>1. f.body \in Reasons
        <4> HIDE DEF Checkpoints, Manifests, Reasons
        <4> QED  BY <2>2, <2>5 DEF AllFrames
      <3>2. reason' \in [Ends -> Reasons]
        <4> HIDE DEF Reasons
        <4> QED  BY <1>1, <2>5, <3>1
      <3>3. Carries
        BY <1>1, <2>1, <2>5, FrameFacts DEF FinContinues, Carries
      <3> QED  BY <1>2, <1>3, <1>5, <2>1, <2>5, <3>2, <3>3, FinGoes DEF FinAside
    <2> QED  BY <1>4, <2>1, <2>3, <2>4, <2>5
  <1>10. CASE FinBarrier(e)
    <2>1. PICK v : v = <<"close", reason[e]>>
      OBVIOUS
    <2>2. v \in Events /\ v # <<"exit">>
      BY <1>1, <2>1, EventFacts
    <2>3. PICK s : s = RecordControl(obs[e].s, v)
      OBVIOUS
    <2>4. Longer(obs[e].s, s) /\ s.control = Append(obs[e].s.control, v)
      <3> HIDE DEF Events
      <3>1. 0 \in Nat
        OBVIOUS
      <3> QED  BY <1>3, <2>2, <2>3, <3>1, LongerFacts
    <2>5. Count(Append(obs[e].s.control, v), <<"exit">>) = Count(obs[e].s.control, <<"exit">>)
      BY <1>3, <2>2, SameCounts
    <2>6. CASE RecordOk(obs[e])
      <3>1. PICK p : p = Appended([obs[e] EXCEPT !.s = CloseDirections(s)])
        OBVIOUS
      <3>2. stage[e] = "barrier" /\ FinContinues(e, p, frames, "final") /\ UNCHANGED <<reason, fin>>
        BY <1>10, <2>1, <2>3, <2>6, <3>1 DEF FinBarrier
      <3>3. obs[e].s.phase = "Active"
        BY <2>6 DEF RecordOk, Recordable
      <3>4. Advances(obs[e], p) /\ p.s.phase = "Finalizing" /\ p.s.control = Append(obs[e].s.control, v)
        <4> HIDE DEF Events
        <4> QED  BY <1>3, <2>2, <2>3, <3>1, <3>3, CloseFacts
      <3>5. Carries
        BY <1>1, <3>2 DEF FinContinues, Carries
      <3> QED  BY <1>2, <1>5, <1>6, <2>5, <3>2, <3>4, <3>5, FinGoes DEF FinAside
    <2>7. CASE ~RecordOk(obs[e])
      <3>1. PICK p : p = Record(obs[e], s)
        OBVIOUS
      <3>2. PICK g : g = Post(e, RecordNotices(obs[e]))
        OBVIOUS
      <3>3. FinFails(e, "RecordWriteFailed", p, g)
        BY <1>10, <2>1, <2>3, <2>7, <3>1, <3>2 DEF FinBarrier
      <3>4. /\ Advances(obs[e], p) /\ p.s.phase = "Failed"
            /\ p.s.control \in {obs[e].s.control, s.control}
        BY <1>3, <2>4, <2>7, <3>1, RecordFacts
      <3>5. Count(p.s.control, <<"exit">>) = Count(obs[e].s.control, <<"exit">>)
        BY <2>4, <2>5, <3>4
      <3>6. g \in [Ends -> Seq(AllFrames)] /\ \A d \in Ends : Pairs(g[d]) = Pairs(frames[d])
        BY <1>1, <3>2, FrameFacts, PlainFacts
      <3>7. \A d \in Ends : Pairs(g[d]) \subseteq Pairs(frames[d])
        BY <3>6
      <3> QED  BY <1>2, <3>3, <3>4, <3>5, <3>6, <3>7, FinFailsKeeps
    <2> QED  BY <2>6, <2>7
  <1>11. CASE FinSendFinal(e)
    <2>1. PICK p : p = SendCheckpoint(obs[e])
      OBVIOUS
    <2>2. Kept(obs[e], p) /\ p.s.phase = obs[e].s.phase
      BY <1>3, <2>1, SendFacts
    <2>3. /\ Advances(obs[e], p) /\ p.s.phase # "Finished"
          /\ Count(p.s.control, <<"exit">>) = Count(obs[e].s.control, <<"exit">>)
      BY <1>3, <2>2, KeptAdvances, SameCounts
    <2>4. CASE obs[e].writer = "ok" /\ connected
      <3>1. PICK g : g = Post(e, CheckpointFrame(obs[e]))
        OBVIOUS
      <3>2. /\ stage[e] = "final" /\ FinContinues(e, p, g, "final")
            /\ fin' = [fin EXCEPT ![e].sent = TRUE] /\ UNCHANGED reason
        BY <1>11, <2>1, <2>4, <3>1 DEF FinSendFinal
      <3>3. g \in [Ends -> Seq(AllFrames)] /\ \A d \in Ends : Pairs(g[d]) = Pairs(frames[d])
        <4>1. PICK q : q = CheckpointFrame(obs[e])
          OBVIOUS
        <4>2. Plain(q)
          BY <1>3, <4>1, PlainFacts
        <4>3. \A x : Plain(x) => /\ Post(e, x) \in [Ends -> Seq(AllFrames)]
                                 /\ \A d \in Ends : Pairs(Post(e, x)[d]) = Pairs(frames[d])
          BY <1>1, FrameFacts
        <4> QED  BY <3>1, <4>1, <4>2, <4>3
      <3>4. Carries
        BY <3>2, <3>3 DEF FinContinues, Carries
      <3>5. PICK h : h = fin'
        OBVIOUS
      <3>6. h = [fin EXCEPT ![e].sent = TRUE]
        BY <3>2, <3>5
      <3>7. FinAside(e)
        <4>1. PICK b \in BOOLEAN : b = TRUE
          OBVIOUS
        <4>2. h = [fin EXCEPT ![e].sent = b]
          BY <3>6, <4>1
        <4>3. /\ h \in [Ends -> [sent : BOOLEAN, seen : BOOLEAN, own : Manifests, peer : Manifests]]
              /\ \A d \in Ends : d # e => h[d] = fin[d]
              /\ h[e].own = fin[e].own /\ h[e].peer = fin[e].peer
          BY <1>1, <4>2, FinEdits, SMTT(30)
        <4> QED  BY <3>5, <4>3 DEF FinAside
      <3> QED  BY <1>2, <1>6, <2>2, <2>3, <3>2, <3>4, <3>7, FinGoes DEF FinAside
    <2>5. CASE ~(obs[e].writer = "ok" /\ connected)
      <3>1. PICK error : FinFails(e, error, p, frames)
        BY <1>11, <2>1, <2>5 DEF FinSendFinal
      <3> QED  BY <1>1, <1>2, <2>3, <3>1, FinFailsKeeps
    <2> QED  BY <2>4, <2>5
  <1>12. CASE FinReadFrame(e)
    <2>1. stage[e] = "final" /\ frames[e] # <<>>
      BY <1>12 DEF FinReadFrame
    <2>2. PICK f \in AllFrames : f = Head(frames[e])
      BY <1>1, <2>1, FrameFacts
    <2>3. PICK b : b = (fin[e].seen \/ (/\ f.kind = "checkpoint" /\ f.body.snapshot = Snapshot(obs[e].s)
                                        /\ FrameError(obs[e], f) = "none"))
      OBVIOUS
    <2>4. b \in BOOLEAN
      BY <2>3
    <2>5. \/ FinSettle(e, f) /\ fin' = [fin EXCEPT ![e].seen = b]
          \/ FinContinues(e, obs[e], Taken(e), "final") /\ UNCHANGED <<reason, fin>>
          \/ FinFails(e, "UnexpectedFrame", obs[e], Taken(e))
          \/ FinFails(e, "OutOfOrder", obs[e], Taken(e))
      BY <1>12, <2>2, <2>3 DEF FinReadFrame
    <2>6. CASE FinSettle(e, f) /\ fin' = [fin EXCEPT ![e].seen = b]
      <3>1. PICK h : h = fin'
        OBVIOUS
      <3>2. h = [fin EXCEPT ![e].seen = b]
        BY <2>6, <3>1
      <3>3. FinAside(e)
        BY <1>1, <2>4, <3>1, <3>2, FinEdits DEF FinAside
      <3> QED  BY <1>2, <2>1, <2>2, <2>6, <3>3, SettleKeeps
    <2> QED  BY <1>4, <2>1, <2>5, <2>6
  <1> QED  BY <1>7, <1>8, <1>9, <1>10, <1>11, <1>12

\* Only the last step of finalize finishes the record, with its manifest and the peer's.
LEMMA FooterKeeps ==
    ASSUME TsInv, NEW e \in Ends, UNCHANGED termVars, FinFooter(e)
    PROVE  TsInv' /\ Single
  <1>1. /\ TsTypes /\ did \in Deeds /\ wire \in Wires /\ stage \in [Ends -> Stages]
        /\ result \in [Ends -> Results] /\ ending \in [Ends -> Endings] /\ obs \in [Ends -> Observers]
        /\ frames \in [Ends -> Seq(AllFrames)] /\ reason \in [Ends -> Reasons]
        /\ fin \in [Ends -> [sent : BOOLEAN, seen : BOOLEAN, own : Manifests, peer : Manifests]]
        /\ Closes(e)
    BY DEF TsInv, TsTypes
  <1>2. stage[e] = "footer" /\ stage[e] \in Closing
    BY DEF FinFooter, Closing
  <1>3. /\ Sane(obs[e]) /\ obs[e].s.phase # "Finished" /\ ending[e] # "none"
        /\ e = Controller /\ result[e] = "ok" => ending[e] = "exit"
    BY <1>2, ClosingFacts
  <1>4. obs[e].s.phase = "Finalizing" /\ fin[e].own # NoManifest /\ fin[e].peer = fin[e].own
    BY <1>1, <1>2 DEF Closes
  <1>5. CASE obs[e].writer = "ok"
    <2>0. PICK z : z = Sealed(obs[e])
      OBVIOUS
    <2>1. PICK p : p = IF connected \/ ~Bound(e) \/ e # Controller THEN z ELSE FailObserver(z)
      OBVIOUS
    <2>2. /\ Kept(obs[e], p) /\ p.s.phase \in {"Finished", "Failed"}
          /\ connected \/ ~Bound(e) => p.s.phase = "Finished"
      <3>1. Kept(obs[e], z) /\ z.s.phase = "Finished"
        BY <1>3, <1>4, <2>0, OtherFacts
      <3>2. Kept(z, FailObserver(z)) /\ FailObserver(z).s.phase = "Failed"
        BY <3>1, FailFacts DEF Kept
      <3>3. Kept(obs[e], FailObserver(z))
        BY <3>1, <3>2 DEF Kept
      <3> QED  BY <2>1, <3>1, <3>2, <3>3
    <2>3. /\ Advances(obs[e], p)
          /\ Count(p.s.control, <<"exit">>) = Count(obs[e].s.control, <<"exit">>)
      BY <1>3, <1>4, <2>2, KeptAdvances, SameCounts
    <2>4. PICK r : r = IF connected \/ ~Bound(e) THEN result[e] ELSE "lost"
      OBVIOUS
    <2>5. r \in Results /\ (r = "ok" => result[e] = "ok") /\ "done" \in Stages \ {"active"}
      BY <1>1, <2>4 DEF Results, Stages
    <2> HIDE DEF Stages, Results, Endings, Observers, Manifests, Reasons, AllFrames
    <2>6. /\ obs' = [obs EXCEPT ![e] = p] /\ stage' = [stage EXCEPT ![e] = "done"]
          /\ result' = [result EXCEPT ![e] = r]
          /\ UNCHANGED <<frames, reason, fin, ending, connected>>
      <3>1. CASE connected \/ ~Bound(e)
        <4>1. result' = [result EXCEPT ![e] = result[e]]
          BY <1>1, <1>5, <3>1 DEF FinFooter, FinContinues
        <4> QED  BY <1>5, <2>0, <2>1, <2>4, <3>1, <4>1 DEF FinFooter, FinContinues
      <3>2. CASE ~connected /\ Bound(e)
        <4>1. FinFails(e, "Endpoint", z, frames) /\ FinResult(e, "Endpoint") = "lost"
          BY <1>5, <2>0, <3>2 DEF FinFooter, FinResult
        <4>2. Posted(frames, e, FailNotices) = frames
          BY <3>2 DEF Posted
        <4> QED  BY <2>1, <2>4, <3>2, <4>1, <4>2 DEF FinFails
      <3> QED  BY <3>1, <3>2
    <2>7. ending' = [ending EXCEPT ![e] = ending[e]] /\ ending[e] \in Endings
      BY <1>1, <2>6
    <2>8. Stepped(e, p, "done", r, ending[e])
      <3>1. UNCHANGED <<own, proc>> /\ wire' \in Wires /\ did' \in Deeds /\ UNCHANGED deeds
        BY <1>1 DEF termVars, deeds
      <3> QED  BY <1>1, <1>2, <2>3, <2>5, <2>6, <2>7, <3>1 DEF Stepped
    <2>9. ExitStands(e, p, r, ending[e])
      BY <2>3, <2>5 DEF ExitStands
    <2>10. CodeStands(e, p, "done", r, ending[e])
      <3>1. r = "ok" => p.s.phase = "Finished"
        BY <2>2, <2>4
      <3> QED  BY <1>3, <1>4, <2>5, <2>6, <3>1 DEF CodeStands, Closing
    <2>11. EndsNow(e)
      BY <1>1, <2>2, <2>6 DEF EndsNow
    <2>12. fin'[e] = fin[e] /\ \A d \in Ends : Pairs(frames'[d]) \subseteq Pairs(frames[d])
      BY <2>6
    <2> QED  BY <2>8, <2>9, <2>10, <2>11, <2>12, MoveKeeps
  <1>6. CASE obs[e].writer # "ok"
    <2>1. FinFails(e, "RecordWriteFailed", obs[e], frames)
      BY <1>6 DEF FinFooter
    <2> QED  BY <1>2, <2>1, PlainSteps
  <1> QED  BY <1>5, <1>6

\* An end that goes on to the manifest stage with its observer unchanged.
LEMMA ManifestStage ==
    ASSUME TsInv, NEW e \in Ends, UNCHANGED termVars, stage[e] \in {"final", "manifest"},
           NEW f \in [Ends -> Seq(AllFrames)], FinContinues(e, obs[e], f, "manifest"), UNCHANGED reason,
           fin' \in [Ends -> [sent : BOOLEAN, seen : BOOLEAN, own : Manifests, peer : Manifests]],
           \A d \in Ends : d # e => fin'[d] = fin[d],
           (\A d \in Ends : Closes(d)')
    PROVE  TsInv' /\ Single
  <1>1. /\ TsTypes /\ did \in Deeds /\ wire \in Wires /\ stage \in [Ends -> Stages]
        /\ result \in [Ends -> Results] /\ ending \in [Ends -> Endings] /\ obs \in [Ends -> Observers]
        /\ reason \in [Ends -> Reasons]
    BY DEF TsInv, TsTypes
  <1>2. stage[e] \in Closing
    BY DEF Closing
  <1>3. /\ Sane(obs[e]) /\ obs[e].s.phase # "Finished" /\ Advances(obs[e], obs[e])
        /\ e = Controller /\ result[e] = "ok" => ending[e] = "exit"
    BY <1>1, <1>2, ClosingFacts, SelfAdvances
  <1>4. "manifest" \in Stages \ {"active"}
    BY DEF Stages, Closing
  <1> HIDE DEF Stages, Results, Endings, Observers, Manifests, Reasons, AllFrames
  <1>5. /\ obs' = [obs EXCEPT ![e] = obs[e]] /\ stage' = [stage EXCEPT ![e] = "manifest"]
        /\ frames' = f /\ UNCHANGED <<result, ending, connected>>
    BY DEF FinContinues
  <1>6. /\ result' = [result EXCEPT ![e] = result[e]] /\ ending' = [ending EXCEPT ![e] = ending[e]]
        /\ result[e] \in Results /\ ending[e] \in Endings
    BY <1>1, <1>5
  <1>7. Stepped(e, obs[e], "manifest", result[e], ending[e])
    <2>1. /\ UNCHANGED <<own, proc>> /\ wire' \in Wires /\ did' \in Deeds /\ UNCHANGED deeds
          /\ reason' \in [Ends -> Reasons]
      BY <1>1 DEF termVars, deeds
    <2> QED  BY <1>3, <1>4, <1>5, <1>6, <2>1 DEF Stepped
  <1>8. ExitStands(e, obs[e], result[e], ending[e])
        /\ CodeStands(e, obs[e], "manifest", result[e], ending[e])
    BY <1>3 DEF ExitStands, CodeStands
  <1> QED  BY <1>7, <1>8, StageKeeps

\* The manifest an end signs states its closed account, and is what it sends.
LEMMA ManifestKeeps ==
    ASSUME TsInv, NEW e \in Ends, UNCHANGED termVars, FinManifest(e)
    PROVE  TsInv' /\ Single
  <1>1. /\ TsTypes /\ stage \in [Ends -> Stages] /\ obs \in [Ends -> Observers]
        /\ ending \in [Ends -> Endings] /\ frames \in [Ends -> Seq(AllFrames)]
        /\ fin \in [Ends -> [sent : BOOLEAN, seen : BOOLEAN, own : Manifests, peer : Manifests]]
        /\ \A d \in Ends : Closes(d) /\ Sane(obs[d])
    BY DEF TsInv, TsTypes
  <1>2. stage[e] = "final" /\ stage[e] \in Closing
    BY DEF FinManifest, Closing
  <1>3. PICK m : m = Manifest(obs[e].s, ending[e])
    OBVIOUS
  <1>4. CASE ~(obs[e].writer = "ok" /\ connected)
    <2>1. PICK error : FinFails(e, error, obs[e], frames)
      BY <1>4 DEF FinManifest
    <2> QED  BY <1>2, <2>1, PlainSteps
  <1>5. CASE obs[e].writer = "ok" /\ connected
    <2>1. /\ m \in Manifests /\ m.snapshot = Snapshot(obs[e].s) /\ m.ending = ending[e]
          /\ m # NoManifest
      <3>1. obs[e].s \in Sessions
        BY <1>1 DEF Sane, Observers
      <3>2. m \in Manifests /\ Snapshot(obs[e].s) # <<>>
        BY <1>1, <1>3, <3>1, SnapshotFacts
      <3>3. m.snapshot = Snapshot(obs[e].s) /\ m.ending = ending[e]
        BY <1>3 DEF Manifest
      <3> QED  BY <3>2, <3>3 DEF NoManifest
    <2>2. PICK a : a = Frame("manifest", m)
      OBVIOUS
    <2>3. PICK b : b = Frame("signature", m)
      OBVIOUS
    <2>4. a \in AllFrames /\ b \in AllFrames /\ a.body = m /\ b.body = m
      <3> HIDE DEF Manifests, Checkpoints, Reasons
      <3> QED  BY <2>1, <2>2, <2>3 DEF Frame, AllFrames
    <2>5. PICK f : f = Post(e, <<a, b>>)
      OBVIOUS
    <2>6. /\ FinContinues(e, obs[e], f, "manifest") /\ fin' = [fin EXCEPT ![e].own = m]
          /\ UNCHANGED reason
      BY <1>3, <1>5, <2>2, <2>3, <2>5 DEF FinManifest
    <2> HIDE DEF AllFrames, Stages, Endings, Observers, Manifests
    <2>7. PICK k \in Ends : k = Peer(e) /\ k # e /\ Peer(k) = e /\ \A d \in Ends : d = e \/ d = k
      <3>1. Peer(e) \in Ends /\ Peer(e) # e /\ Peer(Peer(e)) = e /\ \A d \in Ends : d = e \/ d = Peer(e)
        BY EndFacts
      <3> QED  BY <3>1
    <2>8. /\ f \in [Ends -> Seq(AllFrames)] /\ f[e] = frames[e]
          /\ Pairs(f[k]) \subseteq Pairs(frames[k]) \cup {a, b}
      <3>1. PICK q \in Seq(AllFrames) : q = frames[k]
        BY <1>1
      <3>2. PICK ab \in Seq(AllFrames) : ab = <<a, b>> /\ Pairs(ab) \subseteq {a, b}
        <4>1. \A x, y \in AllFrames : <<x, y>> \in Seq(AllFrames) /\ Pairs(<<x, y>>) \subseteq {x, y}
          BY <3>1, PairFacts
        <4>2. <<a, b>> \in Seq(AllFrames) /\ Pairs(<<a, b>>) \subseteq {a, b}
          BY <2>4, <4>1
        <4> QED  BY <4>2
      <3>3. \A x \in Seq(AllFrames) : q \o x \in Seq(AllFrames) /\ Pairs(q \o x) = Pairs(q) \cup Pairs(x)
        BY PairFacts
      <3>4. PICK qab : qab = q \o ab
        OBVIOUS
      <3>5. qab \in Seq(AllFrames) /\ Pairs(qab) = Pairs(q) \cup Pairs(ab)
        BY <3>2, <3>3, <3>4
      <3>6. f = [frames EXCEPT ![k] = qab]
        BY <1>5, <2>5, <2>7, <3>1, <3>2, <3>4 DEF Post, Posted
      <3>7. f \in [Ends -> Seq(AllFrames)] /\ f[e] = frames[e] /\ f[k] = qab
        BY <1>1, <2>7, <3>5, <3>6
      <3> QED  BY <3>1, <3>2, <3>5, <3>7
    <2>9. PICK h : h = fin'
      OBVIOUS
    <2>10. /\ h \in [Ends -> [sent : BOOLEAN, seen : BOOLEAN, own : Manifests, peer : Manifests]]
           /\ \A d \in Ends : d # e => h[d] = fin[d]
           /\ h[e].own = m /\ h[e].peer = fin[e].peer
      <3>1. m \in Manifests /\ h = [fin EXCEPT ![e].own = m]
        BY <2>1, <2>6, <2>9
      <3>2. \A x \in Manifests : \A g : g = [fin EXCEPT ![e].own = x] =>
               /\ g \in [Ends -> [sent : BOOLEAN, seen : BOOLEAN, own : Manifests, peer : Manifests]]
               /\ \A d \in Ends : d # e => g[d] = fin[d]
               /\ g[e].own = x /\ g[e].peer = fin[e].peer
        BY <1>1, FinEdits
      <3>3. PICK r : r = [fin EXCEPT ![e].own = m]
        OBVIOUS
      <3>4. \A g : g = [fin EXCEPT ![e].own = m] =>
               /\ g \in [Ends -> [sent : BOOLEAN, seen : BOOLEAN, own : Manifests, peer : Manifests]]
               /\ \A d \in Ends : d # e => g[d] = fin[d]
               /\ g[e].own = m /\ g[e].peer = fin[e].peer
        BY <3>1, <3>2, Zenon
      <3>5. h = r
        BY <3>1, <3>3
      <3>6. /\ r \in [Ends -> [sent : BOOLEAN, seen : BOOLEAN, own : Manifests, peer : Manifests]]
            /\ \A d \in Ends : d # e => r[d] = fin[d]
            /\ r[e].own = m /\ r[e].peer = fin[e].peer
        BY <3>3, <3>4, Zenon
      <3> QED  BY <3>5, <3>6
    <2>11. /\ obs' = [obs EXCEPT ![e] = obs[e]] /\ stage' = [stage EXCEPT ![e] = "manifest"]
           /\ frames' = f /\ UNCHANGED <<result, ending, connected>>
      BY <2>6 DEF FinContinues
    <2>12. /\ obs' = obs /\ stage'[e] = "manifest" /\ stage'[k] = stage[k] /\ ending' = ending
      BY <1>1, <2>7, <2>11
    <2>13. /\ obs[e].s.phase = "Finalizing" /\ fin[e].own = NoManifest /\ ending[e] # "none"
           /\ obs[e].s.input.partial = 0 /\ obs[e].s.output.partial = 0
      BY <1>1, <1>2 DEF Closes, Sane, Closing
    <2>14. Closes(e)'
      <3>1. Peer(e)' = k /\ h[k] = fin[k] /\ frames'[e] = frames[e]
        BY <2>7, <2>8, <2>10, <2>11 DEF Peer
      <3>2. /\ fin[e].peer # NoManifest => fin[e].peer = fin[k].own
            /\ \A x \in Pairs(frames[e]) : x.body = fin[k].own /\ fin[k].own # NoManifest
        BY <1>1, <2>7 DEF Closes
      <3>3. /\ h[e].peer # NoManifest => h[e].peer = h[k].own
            /\ \A x \in Pairs(frames'[e]) : x.body = h[k].own /\ h[k].own # NoManifest
        BY <2>10, <3>1, <3>2
      <3>4. /\ h[e].own # NoManifest /\ h[e].own.snapshot = Snapshot(obs[e].s)
            /\ h[e].own.ending = ending[e]
        BY <2>1, <2>10
      <3> QED  BY <2>9, <2>12, <2>13, <3>1, <3>3, <3>4 DEF Closes, Snapshot
    <2>15. Closes(k)'
      <3>1. Closes(k) /\ h[k] = fin[k] /\ Peer(k)' = e
        BY <1>1, <2>7, <2>10 DEF Peer
      <3>2. fin[k].peer = NoManifest /\ Pairs(frames[k]) = {}
        <4>1. /\ fin[k].peer # NoManifest => fin[k].peer = fin[e].own
              /\ \A x \in Pairs(frames[k]) : fin[e].own # NoManifest
          BY <2>7, <3>1 DEF Closes
        <4> QED  BY <2>13, <4>1
      <3>3. \A x \in Pairs(frames'[k]) : x.body = h[e].own /\ h[e].own # NoManifest
        BY <2>1, <2>4, <2>8, <2>10, <2>11, <3>2
      <3> QED  BY <2>9, <2>12, <3>1, <3>2, <3>3 DEF Closes, Snapshot
    <2>16. \A d \in Ends : Closes(d)'
      BY <2>7, <2>14, <2>15
    <2> QED  BY <1>2, <2>6, <2>8, <2>9, <2>10, <2>16, ManifestStage
  <1> QED  BY <1>4, <1>5

\* The manifest an end reads is the one its peer signed.
LEMMA PairKeeps ==
    ASSUME TsInv, NEW e \in Ends, UNCHANGED termVars, FinReadPair(e)
    PROVE  TsInv' /\ Single
  <1>1. /\ TsTypes /\ stage \in [Ends -> Stages] /\ obs \in [Ends -> Observers]
        /\ ending \in [Ends -> Endings] /\ frames \in [Ends -> Seq(AllFrames)]
        /\ reason \in [Ends -> Reasons]
        /\ fin \in [Ends -> [sent : BOOLEAN, seen : BOOLEAN, own : Manifests, peer : Manifests]]
        /\ \A d \in Ends : Closes(d) /\ Sane(obs[d])
    BY DEF TsInv, TsTypes
  <1>2. stage[e] = "manifest" /\ stage[e] \in Closing /\ frames[e] # <<>>
    BY DEF FinReadPair, Closing
  <1>3. PICK f \in AllFrames : f = Head(frames[e])
    BY <1>1, <1>2, FrameFacts
  <1>4. \/ FinSettle(e, f) /\ UNCHANGED fin
        \/ /\ f.kind = "manifest" /\ fin[e].peer = NoManifest
           /\ FinContinues(e, obs[e], Taken(e), "manifest")
           /\ fin' = [fin EXCEPT ![e].peer = f.body] /\ UNCHANGED reason
        \/ /\ PairMatches(e) /\ FinContinues(e, obs[e], Taken(e), "footer") /\ UNCHANGED <<reason, fin>>
        \/ FinContinues(e, obs[e], Taken(e), "manifest") /\ UNCHANGED <<reason, fin>>
        \/ \E error : FinFails(e, error, obs[e], Taken(e))
    BY <1>3 DEF FinReadPair
  <1>5. CASE FinSettle(e, f) /\ UNCHANGED fin
    <2>1. FinAside(e)
      BY <1>1, <1>5 DEF FinAside
    <2> QED  BY <1>2, <1>3, <1>5, <2>1, SettleKeeps
  <1>6. CASE /\ f.kind = "manifest" /\ fin[e].peer = NoManifest
             /\ FinContinues(e, obs[e], Taken(e), "manifest")
             /\ fin' = [fin EXCEPT ![e].peer = f.body] /\ UNCHANGED reason
    <2>1. PICK m \in Manifests : m = f.body
      <3> HIDE DEF Checkpoints, Manifests, Reasons
      <3> QED  BY <1>3, <1>6 DEF AllFrames
    <2> HIDE DEF AllFrames, Stages, Endings, Observers, Manifests
    <2>2. PICK k \in Ends : k = Peer(e) /\ k # e /\ Peer(k) = e /\ \A d \in Ends : d = e \/ d = k
      <3>1. Peer(e) \in Ends /\ Peer(e) # e /\ Peer(Peer(e)) = e /\ \A d \in Ends : d = e \/ d = Peer(e)
        BY EndFacts
      <3> QED  BY <3>1
    <2>3. f \in Pairs(frames[e])
      BY <1>1, <1>2, <1>3, <1>6, FrameFacts
    <2>4. m = fin[k].own /\ fin[k].own # NoManifest
      BY <1>1, <2>1, <2>2, <2>3 DEF Closes
    <2>5. PICK h : h = fin'
      OBVIOUS
    <2>6. /\ h \in [Ends -> [sent : BOOLEAN, seen : BOOLEAN, own : Manifests, peer : Manifests]]
          /\ \A d \in Ends : d # e => h[d] = fin[d]
          /\ h[e].own = fin[e].own /\ h[e].peer = m
      <3>1. h = [fin EXCEPT ![e].peer = m]
        BY <1>6, <2>1, <2>5
      <3>2. \A x \in Manifests : \A g : g = [fin EXCEPT ![e].peer = x] =>
               /\ g \in [Ends -> [sent : BOOLEAN, seen : BOOLEAN, own : Manifests, peer : Manifests]]
               /\ \A d \in Ends : d # e => g[d] = fin[d]
               /\ g[e].own = fin[e].own /\ g[e].peer = x
        BY <1>1, FinEdits
      <3>3. PICK r : r = [fin EXCEPT ![e].peer = m]
        OBVIOUS
      <3>4. \A g : g = [fin EXCEPT ![e].peer = m] =>
               /\ g \in [Ends -> [sent : BOOLEAN, seen : BOOLEAN, own : Manifests, peer : Manifests]]
               /\ \A d \in Ends : d # e => g[d] = fin[d]
               /\ g[e].own = fin[e].own /\ g[e].peer = m
        BY <2>1, <3>2, Zenon
      <3>5. h = r
        BY <3>1, <3>3
      <3>6. /\ r \in [Ends -> [sent : BOOLEAN, seen : BOOLEAN, own : Manifests, peer : Manifests]]
            /\ \A d \in Ends : d # e => r[d] = fin[d]
            /\ r[e].own = fin[e].own /\ r[e].peer = m
        BY <3>3, <3>4, Zenon
      <3> QED  BY <3>5, <3>6
    <2>7. PICK g \in [Ends -> Seq(AllFrames)] : g = Taken(e) /\ \A d \in Ends : Pairs(g[d]) \subseteq Pairs(frames[d])
      BY <1>1, <1>2, FrameFacts
    <2>8. /\ obs' = [obs EXCEPT ![e] = obs[e]] /\ stage' = [stage EXCEPT ![e] = "manifest"]
          /\ frames' = g /\ UNCHANGED <<result, ending, connected>>
      BY <1>6, <2>7 DEF FinContinues
    <2>9. obs' = obs /\ stage' = stage /\ ending' = ending
      BY <1>1, <1>2, <2>8
    <2>10. Closes(e)'
      <3>1. Closes(e) /\ Peer(e)' = k /\ h[k] = fin[k]
        BY <1>1, <2>2, <2>6 DEF Peer
      <3>2. \A x \in Pairs(frames'[e]) : x.body = h[k].own /\ h[k].own # NoManifest
        BY <2>2, <2>7, <2>8, <3>1 DEF Closes
      <3>3. h[e].peer = h[k].own
        BY <2>4, <2>6, <3>1
      <3>4. stage'[e] = "manifest"
        BY <1>2, <2>9
      <3> QED  BY <2>5, <2>6, <2>9, <3>1, <3>2, <3>3, <3>4 DEF Closes, Snapshot
    <2>11. Closes(k)'
      <3>1. Closes(k) /\ h[k] = fin[k] /\ h[e].own = fin[e].own
        BY <1>1, <2>2, <2>6
      <3>2. CarriedKept(k) /\ Stays(k) /\ Advances(obs[k], obs'[k])
        BY <1>1, <2>2, <2>5, <2>7, <2>8, <2>9, <3>1, SelfAdvances DEF CarriedKept, Stays
      <3> QED  BY <2>5, <3>1, <3>2, ClosesKept
    <2>12. \A d \in Ends : Closes(d)'
      BY <2>2, <2>10, <2>11
    <2>13. FinContinues(e, obs[e], g, "manifest")
      BY <1>6, <2>7
    <2> QED  BY <1>2, <1>6, <2>5, <2>6, <2>12, <2>13, ManifestStage
  <1>7. CASE PairMatches(e) /\ FinContinues(e, obs[e], Taken(e), "footer") /\ UNCHANGED <<reason, fin>>
    <2>1. Carries
      BY <1>1, <1>2, <1>7, FrameFacts DEF FinContinues, Carries
    <2>2. obs[e].s.phase # "Finished" /\ Advances(obs[e], obs[e])
      BY <1>1, <1>2, ClosingFacts, SelfAdvances
    <2>3. /\ reason' \in [Ends -> Reasons] /\ fin' = fin
          /\ fin' \in [Ends -> [sent : BOOLEAN, seen : BOOLEAN, own : Manifests, peer : Manifests]]
      BY <1>1, <1>7
    <2>4. fin[e].peer = fin[e].own
      BY <1>7 DEF PairMatches
    <2> QED  BY <1>2, <1>7, <2>1, <2>2, <2>3, <2>4, FinGoes
  <1>8. CASE FinContinues(e, obs[e], Taken(e), "manifest") /\ UNCHANGED <<reason, fin>>
    BY <1>2, <1>8, PlainSteps
  <1>9. CASE \E error : FinFails(e, error, obs[e], Taken(e))
    BY <1>2, <1>9, PlainSteps
  <1> QED  BY <1>4, <1>5, <1>6, <1>7, <1>8, <1>9

\* Every step of finalize.
LEMMA FinalizeKeeps ==
    ASSUME TsInv, NEW e \in Ends, Finalize(e), UNCHANGED termVars
    PROVE  TsInv' /\ Single
  BY FinEarly, FooterKeeps, ManifestKeeps, PairKeeps DEF Finalize

-----------------------------------------------------------------------------
(* The invariant holds *)

\* Every step belongs to one of the groups the proofs go through.
LEMMA NextGroups ==
    ASSUME Next
    PROVE  \/ Starting \/ Recording \/ Doing \/ Breaking \/ Delivering \/ Auditing \/ Ending
           \/ \E e \in Ends : Finalize(e) /\ UNCHANGED termVars
  <1> DEFINE Grouped == \/ Starting \/ Recording \/ Doing \/ Breaking \/ Delivering \/ Auditing \/ Ending
                        \/ \E e \in Ends : Finalize(e) /\ UNCHANGED termVars
  <1>1. Controller \in Ends /\ Host \in Ends
    BY EndFacts
  <1>2. ASSUME NEW e \in Ends, AuditNext(e)
        PROVE  Grouped
    BY <1>2 DEF AuditNext, Delivering, Auditing
  <1>3. CASE UserNext
    BY <1>3 DEF UserNext, Starting
  <1>4. CASE FaultNext
    BY <1>4 DEF FaultNext, Breaking, Delivering, Ending
  <1>5. CASE CNext
    <2>1. \/ Starting \/ Recording \/ Doing \/ Breaking \/ Auditing \/ Ending \/ AuditNext(Controller)
      BY <1>5 DEF CNext, Starting, Recording, Doing, Breaking, Auditing, Ending
    <2> QED  BY <1>1, <1>2, <2>1
  <1>6. CASE HNext
    <2>1. \/ Starting \/ Recording \/ Doing \/ Breaking \/ Ending \/ AuditNext(Host)
      BY <1>6 DEF HNext, Starting, Recording, Doing, Breaking, Ending
    <2> QED  BY <1>1, <1>2, <2>1
  <1>7. CASE PeerLeaves
    BY <1>7 DEF Delivering
  <1> QED  BY <1>3, <1>4, <1>5, <1>6, <1>7 DEF Next

\* Every step of the two programs, the user and the faults keeps TsInv and
\* moves at most one observer.
LEMMA NextKeeps ==
    ASSUME TsInv, Next
    PROVE  TsInv' /\ Single
  BY NextGroups, StartingKeeps, RecordingKeeps, DoingKeeps, BreakingKeeps, DeliveringKeeps,
     AuditingKeeps, EndingKeeps, FinalizeKeeps

\* A stuttering step.
LEMMA StutterKeeps ==
    ASSUME TsInv, UNCHANGED vars
    PROVE  TsInv'
  <1>1. /\ UNCHANGED <<obs, frames, connected, stage, result, reason, ending, fin>>
        /\ UNCHANGED <<own, proc, wire, did>>
    BY DEF vars, finVars, termVars
  <1>2. TsTypes' /\ Effects' /\ Exits' /\ ExitReturned'
    BY <1>1 DEF TsInv, TsTypes, Effects, ExitRecorded, Ready, OnFile, Exits, ExitOpen, ExitCount,
                Active, ExitReturned, Finished
  <1>3. ASSUME NEW e \in Ends
        PROVE  Closes(e)'
    BY <1>1 DEF TsInv, Closes, Peer
  <1> QED  BY <1>2, <1>3 DEF TsInv

\* A session that AuditReady has opened.
LEMMA NewFacts ==
    Sane(NewObserver) /\ NoManifest \in Manifests /\ NewObserver.s.control = <<>>
    /\ NewObserver.s.phase = "Active"
  <1>1. <<>> \in Histories /\ Len(<<>>) = 0 /\ <<>> \in Snapshots
    BY DEF Histories, Snapshots
  <1>2. NoBytes \in Directions /\ NoBytes.partial = 0 /\ Recorded(NoBytes) = 0
    BY DEF NoBytes, Directions, Recorded
  <1> HIDE DEF Histories, Snapshots, Directions
  <1>3. NoCheckpoint \in Checkpoints
    BY <1>1 DEF NoCheckpoint, Checkpoints
  <1> HIDE DEF Checkpoints
  <1>4. /\ NewSession \in Sessions /\ NewSession.input = NoBytes /\ NewSession.output = NoBytes
        /\ NewSession.control = <<>> /\ NewSession.phase = "Active"
    BY <1>1, <1>2, <1>3 DEF NewSession, Sessions, Phases
  <1> HIDE DEF Sessions, NewSession
  <1>5. /\ NewObserver \in Observers /\ NewObserver.s = NewSession
        /\ NewObserver.file = [input |-> 0, output |-> 0, control |-> 0]
    BY <1>4 DEF NewObserver, Observers
  <1>6. Sane(NewObserver)
    BY <1>1, <1>2, <1>4, <1>5 DEF Sane
  <1>7. NoManifest \in Manifests
    BY <1>1 DEF NoManifest, Manifests, Endings
  <1> QED  BY <1>4, <1>5, <1>6, <1>7

\* The session starts in the invariant.
LEMMA InitKeeps ==
    ASSUME Init
    PROVE  TsInv
  <1>1. /\ Controller \in Ends /\ Host \in Ends
        /\ "input" \in OwnerNames /\ "output" \in OwnerNames /\ "resize" \in OwnerNames
        /\ "ptyInput" \in OwnerNames /\ "ptyOutput" \in OwnerNames
    BY EndFacts, NameFacts
  <1>2. /\ \A e \in Ends : obs[e] = NewObserver /\ frames[e] = <<>> /\ stage[e] = "active"
        /\ \A e \in Ends : result[e] = "none" /\ ending[e] = "none" /\ fin[e] = NotFinal
        /\ \A o \in OwnerNames : own[o] = Idle
    BY DEF Init, OwnerNames
  <1>3. PICK max \in Scenarios :
          did = [max |-> max, typed |-> 0, sentInput |-> 0, pty |-> 0,
                 produced |-> 0, sentOutput |-> 0, shown |-> 0,
                 resizes |-> 0, sentResizes |-> 0, sentExit |-> FALSE, faults |-> {}]
    BY DEF Init
  <1>4. did \in Deeds
    BY <1>3 DEF Deeds
  <1>5. NewObserver \in Observers /\ Sane(NewObserver) /\ NoManifest \in Manifests
        /\ NewObserver.s.control = <<>> /\ NewObserver.s.phase = "Active"
        /\ NewObserver.file = [input |-> 0, output |-> 0, control |-> 0]
    BY NewFacts DEF Sane, NewObserver
  <1>6. TsTypes
    <2>1. obs \in [Ends -> Observers] /\ \A e \in Ends : Sane(obs[e])
      <3> HIDE DEF Observers, NewObserver
      <3> QED  BY <1>2, <1>5 DEF Init
    <2>2. frames \in [Ends -> Seq(AllFrames)]
      <3> HIDE DEF AllFrames
      <3> QED  BY DEF Init
    <2>3. NotFinal \in [sent : BOOLEAN, seen : BOOLEAN, own : Manifests, peer : Manifests]
      <3> HIDE DEF NoManifest, Manifests
      <3> QED  BY <1>5 DEF NotFinal
    <2>4. fin \in [Ends -> [sent : BOOLEAN, seen : BOOLEAN, own : Manifests, peer : Manifests]]
      BY <2>3 DEF Init
    <2>5. Idle \in OwnerStates /\ own \in [OwnerNames -> OwnerStates]
      BY DEF Init, Idle, OwnerStates, OwnerNames
    <2>6. proc \in [Ends -> AllFrames \cup {NoFrame}]
      BY DEF Init
    <2>7. wire \in Wires
      BY DEF Init, Wires
    <2>8. /\ stage \in [Ends -> Stages] /\ result \in [Ends -> Results] /\ reason \in [Ends -> Reasons]
          /\ ending \in [Ends -> Endings] /\ connected \in BOOLEAN
      BY DEF Init, Stages, Results, Reasons, Endings
    <2> QED  BY <1>4, <2>1, <2>2, <2>4, <2>5, <2>6, <2>7, <2>8 DEF TsTypes
  <1>7. ASSUME NEW v
        PROVE  Count(<<>>, v) = 0 /\ Count(SubSeq(<<>>, 1, 0), v) = 0
    <2>1. SubSeq(<<>>, 1, 0) = <<>> /\ {i \in DOMAIN <<>> : <<>>[i] = v} = {}
      OBVIOUS
    <2> QED  BY <2>1, FS_EmptySet DEF Count
  <1>8. Effects
    <2>1. \A o \in OwnerNames : own[o].st # "io"
      BY <1>2 DEF Idle
    <2>2. did.sentInput = 0 /\ did.pty = 0 /\ did.sentOutput = 0 /\ did.shown = 0
          /\ did.sentResizes = 0 /\ did.sentExit = FALSE
      BY <1>3
    <2>3. ~ExitRecorded
      BY <1>1, <1>2 DEF ExitRecorded, Idle
    <2>4. Count(OnFile(Controller), <<"resize">>) = 0
      BY <1>1, <1>2, <1>5, <1>7 DEF OnFile
    <2>5. obs[Controller].file = [input |-> 0, output |-> 0, control |-> 0]
          /\ obs[Host].file = [input |-> 0, output |-> 0, control |-> 0]
      BY <1>1, <1>2, <1>5
    <2> QED  BY <2>1, <2>2, <2>3, <2>4, <2>5 DEF Effects
  <1>9. Exits
    <2>1. ExitCount = 0
      BY <1>1, <1>2, <1>5, <1>7 DEF ExitCount
    <2> QED  BY <1>1, <1>2, <2>1 DEF Exits, Idle
  <1>10. ASSUME NEW e \in Ends
         PROVE  Closes(e)
    <2>1. Pairs(<<>>) = {}
      BY DEF Pairs
    <2>2. obs[e].s.phase = "Active" /\ frames[e] = <<>> /\ stage[e] = "active"
          /\ fin[e].own = NoManifest /\ fin[e].peer = NoManifest
      BY <1>2, <1>5 DEF NotFinal
    <2> QED  BY <2>1, <2>2 DEF Closes, Closing
  <1>11. ExitReturned
    BY <1>1, <1>2 DEF ExitReturned
  <1> QED  BY <1>6, <1>8, <1>9, <1>10, <1>11 DEF TsInv

\* TsInv is an invariant of the session: whatever the select loops of the two
\* programs choose, whichever of the faults strikes and wherever, for every
\* block length and every bound on bytes, resizes, checkpoints and faults.
THEOREM TerminalInvariant == Spec => []TsInv
  <1>1. Init => TsInv
    BY InitKeeps
  <1>2. TsInv /\ [Next]_vars => TsInv'
    BY NextKeeps, StutterKeeps
  <1> QED  BY <1>1, <1>2, PTL DEF Spec

\* Append before effect: whatever run_terminal or bridge_terminal has sent,
\* written to the PTY or displayed is in that end's record file (the contract
\* of record() in observer.rs), for every way the owners, the audit substream,
\* the closing of both pumps and the faults interleave.
THEOREM TerminalAppendsFirst == Spec => []AppendBeforeEffect
  <1>1. ASSUME TsInv
        PROVE  AppendBeforeEffect
    <2>1. TsTypes /\ Effects /\ Exits
      BY <1>1 DEF TsInv
    <2>2. Host \in Ends
      BY EndFacts
    <2>3. Sane(obs[Host]) /\ Advances(obs[Host], obs[Host])
      BY <2>1, <2>2, SelfAdvances
    <2>4. /\ Count(OnFile(Host), <<"exit">>) \in Nat /\ ExitCount \in Nat
          /\ Count(OnFile(Host), <<"exit">>) <= ExitCount
      BY <2>3, OnFileGrows DEF OnFile, ExitCount
    <2>5. did.sentExit => Count(OnFile(Host), <<"exit">>) = 1
      BY <2>1, <2>4 DEF Effects, Exits
    <2> QED  BY <2>1, <2>5 DEF AppendBeforeEffect, Effects
  <1> QED  BY <1>1, TerminalInvariant, PTL

\* The controller returns the exit code of the shell only when its record is
\* finished, the host has signed the same manifest, that manifest ends with
\* the exit, and the host has recorded that exit exactly once (run_terminal
\* and finalize: a finalization failure is never hidden behind the code).
THEOREM TerminalExitIsJoint == Spec => []ExitCodeIsJoint
  <1>1. ASSUME TsInv, Done(Controller), result[Controller] = "ok"
        PROVE  /\ Finished(Controller) /\ fin[Host].own = fin[Controller].own
               /\ fin[Host].own.ending = "exit" /\ Count(obs[Host].s.control, <<"exit">>) = 1
    <2>1. Controller \in Ends /\ Host \in Ends /\ Peer(Controller) = Host
      BY EndFacts
    <2>2. /\ Finished(Controller) /\ ending[Controller] = "exit"
          /\ fin[Controller].own # NoManifest /\ fin[Controller].peer = fin[Controller].own
      BY <1>1 DEF TsInv, ExitReturned, Done
    <2>3. Closes(Controller) /\ Closes(Host)
      BY <1>1, <2>1 DEF TsInv
    <2>4. fin[Host].own = fin[Controller].own
      BY <2>1, <2>2, <2>3 DEF Closes
    <2>5. fin[Host].own.ending = "exit" /\ ending[Host] = "exit"
      BY <2>2, <2>3, <2>4 DEF Closes
    <2>6. ExitCount = 1
      BY <1>1, <2>5 DEF TsInv, Exits
    <2> QED  BY <2>2, <2>4, <2>5, <2>6 DEF ExitCount
  <1>2. TsInv => ExitCodeIsJoint
    BY <1>1 DEF ExitCodeIsJoint
  <1> QED  BY <1>2, TerminalInvariant, PTL

-----------------------------------------------------------------------------
(* The two records implement the joint record *)

AccountOf(s) == [input |-> Recorded(s.input), output |-> Recorded(s.output), control |-> s.control]
Accounts == [e \in Ends |-> AccountOf(obs[e].s)]
Sealing == [e \in Ends |-> SealOf(obs[e])]

\* The seal says how the writer or else the phase of the session stands.
LEMMA SealFacts ==
    ASSUME NEW o
    PROVE  /\ o.writer = "finished" => SealOf(o) = "sealed"
           /\ o.writer # "finished" =>
                 /\ o.s.phase = "Active" => SealOf(o) = "open"
                 /\ o.s.phase = "Finalizing" => SealOf(o) = "closed"
                 /\ o.s.phase \in {"Finished", "Failed"} => SealOf(o) = "failed"
  BY DEF SealOf

\* The writer of e fails or, with the footer, finishes; it never works again.
WriterMoves(e) ==
    \/ obs'[e].writer = obs[e].writer
    \/ obs[e].writer = "ok" /\ obs'[e].writer = "failed"
    \/ obs[e].writer = "ok" /\ obs'[e].writer = "finished" /\ stage[e] = "footer"

\* A session behind a finished writer is not active.
FinishedPastActive == \A e \in Ends : obs[e].writer = "finished" => obs[e].s.phase # "Active"

\* Only the footer and a fault move the writer.
LEMMA WriterKept ==
    ASSUME NEW o, o \in Observers
    PROVE  /\ FailObserver(o).writer = o.writer
           /\ SendCheckpoint(o).writer = o.writer
           /\ CloseInterrupted(o).writer = o.writer
           /\ \A next : Appended([o EXCEPT !.s = next]).writer = o.writer
           /\ \A next : Record(o, next).writer = o.writer
           /\ \A f : HandleFrame(o, f).writer = o.writer
           /\ Sealed(o).writer = "finished" /\ FailObserver(Sealed(o)).writer = "finished"
  <1>1. "writer" \in DOMAIN o
    BY DEF Observers
  <1>2. ASSUME NEW q, "writer" \in DOMAIN q
        PROVE  /\ \A x : /\ [q EXCEPT !.s = x].writer = q.writer
                         /\ "writer" \in DOMAIN [q EXCEPT !.s = x]
               /\ FailObserver(q).writer = q.writer /\ Appended(q).writer = q.writer
    BY <1>2 DEF FailObserver, Appended
  <1>3. \A x : Appended([o EXCEPT !.s = x]).writer = o.writer
    BY <1>1, <1>2
  <1>4. \A x : FailObserver([o EXCEPT !.s = x]).writer = o.writer
    BY <1>1, <1>2
  <1>5. FailObserver(o).writer = o.writer
    BY <1>1, <1>2
  <1>6. SendCheckpoint(o).writer = o.writer
    BY <1>1 DEF SendCheckpoint
  <1>7. CloseInterrupted(o).writer = o.writer
    BY <1>3 DEF CloseInterrupted
  <1>8. \A next : Record(o, next).writer = o.writer
    BY <1>3, <1>4 DEF Record
  <1>9. \A f : HandleFrame(o, f).writer = o.writer
    <2>1. \A c : HandleCheckpoint(o, c).writer = o.writer
      BY <1>1 DEF HandleCheckpoint
    <2>2. \A c : HandleAck(o, c).writer = o.writer
      BY <1>1 DEF HandleAck
    <2> QED  BY <2>1, <2>2 DEF HandleFrame
  <1>10. "writer" \in DOMAIN Sealed(o) /\ Sealed(o).writer = "finished"
    BY <1>1 DEF Sealed
  <1>11. FailObserver(Sealed(o)).writer = "finished"
    BY <1>2, <1>10
  <1> QED  BY <1>3, <1>5, <1>6, <1>7, <1>8, <1>9, <1>10, <1>11

\* Failing closed after handling a frame, a checkpoint or a record.
LEMMA HandledWriter ==
    ASSUME NEW o, o \in Observers
    PROVE  /\ \A f : HandleFrame(o, f).writer = o.writer
                     /\ FailObserver(HandleFrame(o, f)).writer = o.writer
           /\ FailObserver(SendCheckpoint(o)).writer = o.writer
  <1>1. "writer" \in DOMAIN o
    BY DEF Observers
  <1>2. ASSUME NEW q, "writer" \in DOMAIN q PROVE FailObserver(q).writer = q.writer
    BY <1>2 DEF FailObserver
  <1>3. \A f : "writer" \in DOMAIN HandleFrame(o, f)
    BY <1>1 DEF HandleFrame, HandleCheckpoint, HandleAck
  <1>4. "writer" \in DOMAIN SendCheckpoint(o)
    BY <1>1 DEF SendCheckpoint
  <1> QED  BY <1>2, <1>3, <1>4, WriterKept

\* Failing closed after a record that failed.
LEMMA RecordedWriter ==
    ASSUME NEW o, o \in Observers, NEW next
    PROVE  FailObserver(Record(o, next)).writer = o.writer
  <1>1. "writer" \in DOMAIN o
    BY DEF Observers
  <1>2. ASSUME NEW q, "writer" \in DOMAIN q
        PROVE  /\ FailObserver(q).writer = q.writer
               /\ "writer" \in DOMAIN FailObserver(q) /\ "writer" \in DOMAIN Appended(q)
               /\ \A x : "writer" \in DOMAIN [q EXCEPT !.s = x]
    BY <1>2 DEF FailObserver, Appended
  <1>3. "writer" \in DOMAIN Record(o, next)
    BY <1>1, <1>2 DEF Record
  <1> QED  BY <1>2, <1>3, WriterKept

\* One observer is replaced.
LEMMA WriterOf ==
    ASSUME obs \in [Ends -> Observers], NEW e \in Ends, NEW p, obs' = [obs EXCEPT ![e] = p],
           \/ p.writer = obs[e].writer
           \/ obs[e].writer = "ok" /\ p.writer = "failed"
           \/ obs[e].writer = "ok" /\ p.writer = "finished" /\ stage[e] = "footer"
    PROVE  \A d \in Ends : WriterMoves(d)
  <1>1. obs'[e] = p /\ \A d \in Ends : d # e => obs'[d] = obs[d]
    OBVIOUS
  <1> QED  BY <1>1 DEF WriterMoves

\* The steps of finalize.
LEMMA FinalizeWriter ==
    ASSUME obs \in [Ends -> Observers], NEW e \in Ends, Finalize(e)
    PROVE  \A d \in Ends : WriterMoves(d)
  <1>1. PICK o : o = obs[e]
    OBVIOUS
  <1>2. o \in Observers
    BY <1>1
  <1> HIDE DEF Observers
  <1>3. ASSUME NEW p, p.writer = o.writer, NEW error, NEW f, FinFails(e, error, p, f),
               FailObserver(p).writer = o.writer
        PROVE  \A d \in Ends : WriterMoves(d)
    <2>1. PICK r : r = IF e = Controller THEN FailObserver(p) ELSE p
      OBVIOUS
    <2>2. obs' = [obs EXCEPT ![e] = r] /\ r.writer = obs[e].writer
      BY <1>1, <1>3, <2>1 DEF FinFails
    <2> QED  BY <2>2, WriterOf
  <1>4. ASSUME NEW p, p.writer = o.writer, NEW next, NEW f, FinContinues(e, p, f, next)
        PROVE  \A d \in Ends : WriterMoves(d)
    <2>1. obs' = [obs EXCEPT ![e] = p] /\ p.writer = obs[e].writer
      BY <1>1, <1>4 DEF FinContinues
    <2> QED  BY <2>1, WriterOf
  <1>5. ASSUME NEW error, NEW f, FinFails(e, error, obs[e], f)
        PROVE  \A d \in Ends : WriterMoves(d)
    BY <1>1, <1>2, <1>3, <1>5, WriterKept
  <1>6. ASSUME NEW next, NEW f, FinContinues(e, obs[e], f, next)
        PROVE  \A d \in Ends : WriterMoves(d)
    BY <1>1, <1>4, <1>6
  <1>7. ASSUME NEW f, FinSettle(e, f)
        PROVE  \A d \in Ends : WriterMoves(d)
    <2>1. PICK p : p = HandleFrame(o, f)
      OBVIOUS
    <2>2. p.writer = o.writer /\ FailObserver(p).writer = o.writer
      BY <1>2, <2>1, HandledWriter
    <2>3. \/ \E x, n : FinContinues(e, p, x, n)
          \/ \E x, n : FinFails(e, x, p, n)
      BY <1>1, <1>7, <2>1 DEF FinSettle
    <2> QED  BY <1>3, <1>4, <2>2, <2>3
  <1>8. CASE FinSendNotice(e)
    BY <1>5, <1>6, <1>8 DEF FinSendNotice
  <1>9. CASE FinReceiveNotice(e)
    BY <1>5, <1>6, <1>7, <1>9 DEF FinReceiveNotice
  <1>10. CASE FinBarrier(e)
    <2>1. PICK next : next = RecordControl(o.s, <<"close", reason[e]>>)
      OBVIOUS
    <2>2. \/ \E x : FinContinues(e, Appended([o EXCEPT !.s = CloseDirections(next)]), frames, x)
          \/ \E x, y : FinFails(e, x, Record(o, next), y)
      BY <1>1, <1>10, <2>1 DEF FinBarrier
    <2>3. FailObserver(Record(o, next)).writer = o.writer
      BY <1>2, RecordedWriter
    <2> QED  BY <1>2, <1>3, <1>4, <2>2, <2>3, WriterKept
  <1>11. CASE FinSendFinal(e)
    <2>1. \/ \E x, y : FinContinues(e, SendCheckpoint(o), x, y)
          \/ \E x, y : FinFails(e, x, SendCheckpoint(o), y)
      BY <1>1, <1>11 DEF FinSendFinal
    <2>2. FailObserver(SendCheckpoint(o)).writer = o.writer
      BY <1>2, HandledWriter
    <2> QED  BY <1>2, <1>3, <1>4, <2>1, <2>2, WriterKept
  <1>12. CASE FinReadFrame(e)
    BY <1>5, <1>6, <1>7, <1>12 DEF FinReadFrame
  <1>13. CASE FinManifest(e)
    BY <1>5, <1>6, <1>13 DEF FinManifest
  <1>14. CASE FinReadPair(e)
    BY <1>5, <1>6, <1>7, <1>14 DEF FinReadPair
  <1>15. CASE FinFooter(e)
    <2>1. stage[e] = "footer"
      BY <1>15 DEF FinFooter
    <2>2. CASE o.writer # "ok"
      BY <1>1, <1>5, <1>15, <2>2 DEF FinFooter
    <2>3. CASE o.writer = "ok"
      <3>1. PICK p : p \in {Sealed(o), FailObserver(Sealed(o))} /\ obs' = [obs EXCEPT ![e] = p]
        BY <1>1, <1>15, <2>3 DEF FinFooter, FinContinues, FinFails
      <3>2. p.writer = "finished"
        BY <1>2, <3>1, WriterKept
      <3> QED  BY <1>1, <2>1, <2>3, <3>1, <3>2, WriterOf
    <2> QED  BY <2>2, <2>3
  <1>16. CASE FinTimeout(e) \/ FinEndpointLost(e)
    BY <1>5, <1>16 DEF FinTimeout, FinEndpointLost
  <1> QED  BY <1>8, <1>9, <1>10, <1>11, <1>12, <1>13, <1>14, <1>15, <1>16 DEF Finalize

\* Every step moves a writer at most this far.
LEMMA NextWriter ==
    ASSUME TsInv, Next
    PROVE  \A d \in Ends : WriterMoves(d)
  <1>1. obs \in [Ends -> Observers] /\ Controller \in Ends /\ Host \in Ends
    BY EndFacts DEF TsInv, TsTypes
  <1> HIDE DEF Observers
  <1>2. ASSUME UNCHANGED obs PROVE \A d \in Ends : WriterMoves(d)
    BY <1>2 DEF WriterMoves
  <1>3. ASSUME NEW e \in Ends, NEW p, obs' = [obs EXCEPT ![e] = p], p.writer = obs[e].writer
        PROVE  \A d \in Ends : WriterMoves(d)
    BY <1>1, <1>3, WriterOf
  <1>4. \A e \in Ends : obs[e] \in Observers
    BY <1>1
  <1>5. CASE Starting
    BY <1>2, <1>5 DEF Starting, OwnerStarts, CReadInput, CDetectResize, HPtyOutput, HPtyExit,
                      CReadOutput, CReadExit, HReadInput, HReadResize
  <1>6. CASE Recording
    <2>1. \A o : EndOf(o) \in Ends
      BY <1>1 DEF EndOf
    <2>2. PICK o, next, then : OwnerRecords(o, next, then)
      BY <1>6 DEF Recording, CRecordInput, CRecordResize, CRecordOutput, CRecordExit, HRecordInput,
                  HRecordResize, HRecordOutput, HRecordExit, HRecordComplete
    <2>3. PICK e \in Ends : e = EndOf(o)
      BY <2>1
    <2>4. obs' = [obs EXCEPT ![e] = Record(obs[e], next)]
      BY <2>2, <2>3 DEF OwnerRecords
    <2> QED  BY <1>3, <1>4, <2>4, WriterKept
  <1>7. CASE Doing
    BY <1>2, <1>7 DEF Doing, OwnerSends, CSendInput, CSendResize, CDisplay, HWritePty, HApplyResize,
                      HSendOutput, HSendExit, HAwaitComplete, HCloseControl, HControlEof, HExited,
                      HAwaitTimeout, HBreaks
  <1>8. CASE Breaking
    BY <1>2, <1>8 DEF Breaking, CReadOutputEof, CDrain, Stall, CComplete, CCancel, CLost,
                      CCompletionTimeout, CDeadline, HLost, HSignal, HDeadline, CBreaks, HBreaks
  <1>9. CASE Delivering
    <2>1. ASSUME NEW e \in Ends, WriterFails(e) PROVE \A d \in Ends : WriterMoves(d)
      <3>1. PICK p : p = [obs[e] EXCEPT !.writer = "failed"]
        OBVIOUS
      <3>2. p.writer = "failed"
        BY <1>4, <3>1 DEF Observers
      <3>3. obs' = [obs EXCEPT ![e] = p] /\ obs[e].writer = "ok"
        BY <2>1, <3>1 DEF WriterFails
      <3> QED  BY <1>1, <3>2, <3>3, WriterOf
    <2> QED  BY <1>2, <1>9, <2>1 DEF Delivering, PeerLeaves, LinkFails, ForeignCheckpoint, Disconnect,
                                     AuditRead
  <1>10. CASE Auditing
    <2>1. CASE CFailClosed
      <3>1. obs' = [obs EXCEPT ![Controller] = FailObserver(obs[Controller])]
        BY <2>1 DEF CFailClosed
      <3> QED  BY <1>1, <1>3, <1>4, <3>1, WriterKept
    <2>2. ASSUME NEW e \in Ends, AuditSend(e) PROVE \A d \in Ends : WriterMoves(d)
      <3>1. obs' = [obs EXCEPT ![e] = SendCheckpoint(obs[e])]
        BY <2>2 DEF AuditSend
      <3> QED  BY <1>3, <1>4, <3>1, WriterKept
    <2>3. ASSUME NEW e \in Ends, AuditProcess(e) PROVE \A d \in Ends : WriterMoves(d)
      <3>1. obs' = [obs EXCEPT ![e] = HandleFrame(obs[e], proc[e])]
        BY <2>3 DEF AuditProcess
      <3> QED  BY <1>3, <1>4, <3>1, WriterKept
    <2> QED  BY <1>2, <1>10, <2>1, <2>2, <2>3 DEF Auditing, AuditEof
  <1>11. CASE Ending
    <2>1. ASSUME NEW e \in Ends, \/ \E f : EndsFailed(e, FailObserver(obs[e]), f)
                                 \/ \E f : EndsFailed(e, obs[e], f)
                                 \/ \E r : EndsInterrupted(e, r)
          PROVE  \A d \in Ends : WriterMoves(d)
      <3>1. PICK p : /\ p \in {FailObserver(obs[e]), obs[e], CloseInterrupted(obs[e])}
                     /\ obs' = [obs EXCEPT ![e] = p]
        BY <2>1 DEF EndsFailed, EndsInterrupted
      <3> QED  BY <1>3, <1>4, <3>1, WriterKept
    <2>2. CASE CClosed
      BY <1>1, <1>2, <2>1, <2>2 DEF CClosed, EndsJointly
    <2>3. CASE HClosed
      BY <1>1, <1>2, <2>1, <2>3 DEF HClosed, EndsJointly
    <2>4. CASE CRecordComplete
      <3>1. PICK next : obs' = [obs EXCEPT ![Controller] = Record(obs[Controller], next)]
        BY <2>4 DEF CRecordComplete, EndsFailed
      <3> QED  BY <1>1, <1>3, <1>4, <3>1, WriterKept
    <2>5. CASE CCompleteFails
      BY <1>1, <2>1, <2>5 DEF CCompleteFails
    <2> QED  BY <1>2, <1>11, <2>2, <2>3, <2>4, <2>5
             DEF Ending, CSendComplete, CHostClosed, EndsJointly, CCompleteCancelled
  <1>12. ASSUME NEW e \in Ends, Finalize(e) PROVE \A d \in Ends : WriterMoves(d)
    BY <1>1, <1>12, FinalizeWriter
  <1> QED  BY <1>5, <1>6, <1>7, <1>8, <1>9, <1>10, <1>11, <1>12, NextGroups

\* Behind a finished writer no session is active again.
LEMMA ShutStep ==
    ASSUME TsInv, FinishedPastActive, [Next]_vars
    PROVE  FinishedPastActive'
  <1>1. CASE Next
    <2>1. ASSUME NEW e \in Ends, obs'[e].writer = "finished" PROVE obs'[e].s.phase # "Active"
      <3>1. WriterMoves(e) /\ Advances(obs[e], obs'[e]) /\ Closes(e)
        BY <1>1, NextWriter, NextKeeps DEF Single, ObsAdvance, TsInv
      <3>2. obs[e].s.phase # "Active"
        BY <2>1, <3>1 DEF WriterMoves, FinishedPastActive, Closes
      <3> QED  BY <3>1, <3>2 DEF Advances
    <2> QED  BY <2>1 DEF FinishedPastActive
  <1>2. CASE UNCHANGED vars
    BY <1>2 DEF vars, FinishedPastActive
  <1> QED  BY <1>1, <1>2

\* The other party is the peer.
LEMMA OtherIsPeer ==
    \A e \in Ends : Joint!Other(e) = Peer(e)
  BY ExchangeAssumption DEF Joint!Other, Ends, Peer

\* What the next observer says goes on from what this one says.
LEMMA AccountGrows ==
    ASSUME NEW o, Sane(o), NEW p, Advances(o, p)
    PROVE  /\ Joint!Extends(AccountOf(o.s), AccountOf(p.s))
           /\ o.s.phase # "Active" => AccountOf(p.s) = AccountOf(o.s)
  <1>1. PICK a : a = AccountOf(o.s)
    OBVIOUS
  <1>2. PICK b : b = AccountOf(p.s)
    OBVIOUS
  <1>3. /\ a.input = Recorded(o.s.input) /\ a.output = Recorded(o.s.output) /\ a.control = o.s.control
        /\ b.input = Recorded(p.s.input) /\ b.output = Recorded(p.s.output) /\ b.control = p.s.control
    BY <1>1, <1>2 DEF AccountOf
  <1>4. /\ o.s.input \in Directions /\ o.s.output \in Directions
        /\ p.s.input \in Directions /\ p.s.output \in Directions
    BY DEF Advances, Sane, Observers, Sessions
  <1>5. /\ Recorded(o.s.input) \in Nat /\ Recorded(o.s.output) \in Nat
        /\ Recorded(p.s.input) \in Nat /\ Recorded(p.s.output) \in Nat
    BY <1>4, FinishFacts
  <1>6. /\ a.input \in Nat /\ a.output \in Nat /\ b.input \in Nat /\ b.output \in Nat
        /\ a.input <= b.input /\ a.output <= b.output /\ Continued(a.control, b.control)
    BY <1>3, <1>5 DEF Advances
  <1>7. Joint!Extends(a, b)
    BY <1>6 DEF Joint!Extends, Continued
  <1>8. o.s.phase # "Active" => AccountOf(p.s) = AccountOf(o.s)
    BY DEF Advances, AccountOf
  <1> QED  BY <1>1, <1>2, <1>7, <1>8

\* Two closed observers with the same snapshot have the same account.
LEMMA SameAccount ==
    ASSUME NEW o, Sane(o), NEW p, Sane(p), Snapshot(o.s) = Snapshot(p.s),
           o.s.input.partial = 0, o.s.output.partial = 0, p.s.input.partial = 0, p.s.output.partial = 0
    PROVE  AccountOf(o.s) = AccountOf(p.s)
  <1>1. o.s.input.bytes = p.s.input.bytes /\ o.s.output.bytes = p.s.output.bytes
        /\ o.s.control = p.s.control
    BY DEF Snapshot
  <1> QED  BY <1>1 DEF AccountOf, Recorded

\* A step that moves one observer adds to, closes, fails or seals one account.
LEMMA JointStep ==
    ASSUME TsInv, Single, FinishedPastActive, \A e \in Ends : WriterMoves(e)
    PROVE  Joint!RecordNext \/ UNCHANGED <<Accounts, Sealing>>
  <1>1. PICK e \in Ends :
          \A d \in Ends : d # e => obs'[d] = obs[d]
    BY DEF Single
  <1>2. PICK k \in Ends : k = Peer(e) /\ k # e /\ \A d \in Ends : d = e \/ d = k
    <2>1. Peer(e) \in Ends /\ Peer(e) # e /\ \A d \in Ends : d = e \/ d = Peer(e)
      BY EndFacts
    <2> QED  BY <2>1
  <1>3. PICK o : o = obs[e]
    OBVIOUS
  <1>4. PICK p : p = obs'[e]
    OBVIOUS
  <1>5. Sane(o) /\ Sane(obs[k]) /\ Advances(o, p) /\ Closes(e) /\ Closes(k)
    BY <1>3, <1>4 DEF TsInv, TsTypes, Single, ObsAdvance
  <1>6. PICK a : a = Accounts
    OBVIOUS
  <1>7. PICK b : b = Accounts'
    OBVIOUS
  <1>8. PICK q : q = Sealing
    OBVIOUS
  <1>9. PICK r : r = Sealing'
    OBVIOUS
  <1>10. /\ a[e] = AccountOf(o.s) /\ b[e] = AccountOf(p.s) /\ b[k] = a[k]
         /\ a = [d \in Ends |-> a[d]] /\ b = [d \in Ends |-> b[d]]
         /\ \A d \in Ends \ {e} : b[d] = a[d]
    BY <1>1, <1>2, <1>3, <1>4, <1>6, <1>7 DEF Accounts
  <1>11. /\ q[e] = SealOf(o) /\ r[e] = SealOf(p) /\ r[k] = q[k] /\ q[k] = SealOf(obs[k])
         /\ q = [d \in Ends |-> q[d]] /\ r = [d \in Ends |-> r[d]]
         /\ \A d \in Ends : d # e => r[d] = q[d]
         /\ r = [q EXCEPT ![e] = SealOf(p)]
    BY <1>1, <1>2, <1>3, <1>4, <1>8, <1>9 DEF Sealing
  <1>12. Joint!Extends(a[e], b[e]) /\ (o.s.phase # "Active" => b[e] = a[e])
    BY <1>5, <1>10, AccountGrows
  <1>13. o.s.phase # "Active" => b = a
    BY <1>2, <1>10, <1>12
  <1>14. \A d \in Ends : /\ Joint!Add(d) => Joint!RecordNext
                         /\ Joint!Close(d) => Joint!RecordNext
                         /\ Joint!Fail(d) => Joint!RecordNext
                         /\ Joint!Seal(d) => Joint!RecordNext
    BY DEF Joint!RecordNext
  <1>w. /\ \/ p.writer = o.writer
           \/ o.writer = "ok" /\ p.writer = "failed"
           \/ o.writer = "ok" /\ p.writer = "finished" /\ stage[e] = "footer"
        /\ o.writer = "finished" => o.s.phase # "Active"
        /\ obs[k].writer = "finished" => obs[k].s.phase # "Active"
    BY <1>3, <1>4 DEF WriterMoves, FinishedPastActive
  <1>15. o.s.phase = "Active" => Joint!Writes(e)
    <2>1. o.s.phase = "Active" => q[e] = "open"
      BY <1>11, <1>w, SealFacts
    <2>2. Joint!Writes(e) <=>
            /\ Sealing[e] = "open" /\ Joint!Extends(Accounts[e], Accounts'[e])
            /\ \A d \in Ends \ {e} : Accounts'[d] = Accounts[d]
      BY DEF Joint!Writes, Accounts, Sealing, AccountOf
    <2> QED  BY <1>6, <1>7, <1>8, <1>10, <1>12, <2>1, <2>2
  <1>f. ASSUME q[e] \in {"open", "closed"}, r = [q EXCEPT ![e] = "failed"],
               o.s.phase # "Active" \/ Joint!Writes(e)
        PROVE  Joint!RecordNext
    <2>1. Joint!Writes(e) \/ UNCHANGED Accounts
      BY <1>6, <1>7, <1>13, <1>f
    <2>2. Joint!Fail(e)
      BY <1>8, <1>9, <1>f, <2>1 DEF Joint!Fail, Sealing, Accounts, AccountOf
    <2> QED  BY <1>14, <2>2
  <1>16. CASE o.writer = "finished"
    <2>1. SealOf(o) = "sealed" /\ SealOf(p) = "sealed" /\ o.s.phase # "Active"
      BY <1>16, <1>w, SealFacts
    <2> QED  BY <1>2, <1>6, <1>7, <1>8, <1>9, <1>11, <1>13, <2>1
  <1>17. CASE o.writer # "finished" /\ p.writer # "finished"
    <2>0. o.s.phase \in Phases
      BY <1>5 DEF Sane, Observers, Sessions
    <2>1. CASE p.s.phase = o.s.phase
      <3>1. SealOf(p) = SealOf(o)
        BY <1>17, <2>0, <2>1, SealFacts DEF Phases
      <3>2. r = q
        BY <1>2, <1>11, <3>1
      <3>3. CASE o.s.phase = "Active"
        <4>1. Joint!Add(e)
          BY <1>8, <1>9, <1>15, <3>2, <3>3 DEF Joint!Add, Sealing
        <4> QED  BY <1>14, <4>1
      <3>4. CASE o.s.phase # "Active"
        BY <1>6, <1>7, <1>8, <1>9, <1>13, <3>2, <3>4
      <3> QED  BY <3>3, <3>4
    <2>2. CASE \/ o.s.phase \in {"Active", "Finalizing"} /\ p.s.phase = "Failed"
               \/ o.s.phase = "Finalizing" /\ p.s.phase = "Finished"
      <3>1. q[e] \in {"open", "closed"} /\ r = [q EXCEPT ![e] = "failed"]
        BY <1>11, <1>17, <2>2, SealFacts
      <3> QED  BY <1>15, <1>f, <3>1
    <2>3. CASE o.s.phase = "Active" /\ p.s.phase = "Finalizing"
      <3>1. r = [q EXCEPT ![e] = "closed"]
        BY <1>11, <1>17, <2>3, SealFacts
      <3>2. Joint!Close(e)
        BY <1>8, <1>9, <1>15, <2>3, <3>1 DEF Joint!Close, Sealing
      <3> QED  BY <1>14, <3>2
    <2> QED  BY <1>5, <2>1, <2>2, <2>3 DEF Advances
  <1>19. CASE o.writer # "finished" /\ p.writer = "finished"
    <2>1. stage[e] = "footer" /\ o.s.phase = "Finalizing"
      BY <1>3, <1>5, <1>19, <1>w DEF Closes
    <2>2. /\ fin[e].own # NoManifest /\ fin[e].peer = fin[e].own /\ fin[e].peer = fin[k].own
          /\ fin[e].own.snapshot = Snapshot(o.s)
      BY <1>2, <1>3, <1>5, <2>1 DEF Closes
    <2>3. /\ fin[k].own.snapshot = Snapshot(obs[k].s) /\ obs[k].s.phase # "Active"
          /\ obs[k].s.input.partial = 0 /\ obs[k].s.output.partial = 0
      BY <1>5, <2>2 DEF Closes
    <2>4. o.s.input.partial = 0 /\ o.s.output.partial = 0
      BY <1>5, <2>1 DEF Sane
    <2>5. AccountOf(o.s) = AccountOf(obs[k].s)
      BY <1>5, <2>2, <2>3, <2>4, SameAccount
    <2>6. a[e] = a[k]
      BY <1>6, <1>10, <2>5 DEF Accounts
    <2>7. q[e] = "closed" /\ q[k] # "open" /\ r = [q EXCEPT ![e] = "sealed"]
      <3>1. obs[k].s.phase \in Phases
        BY <1>5 DEF Sane, Observers, Sessions
      <3>2. SealOf(obs[k]) # "open"
        BY <2>3, <3>1, SealFacts DEF Phases
      <3>3. SealOf(o) = "closed" /\ SealOf(p) = "sealed"
        BY <1>19, <2>1, SealFacts
      <3> QED  BY <1>11, <3>2, <3>3
    <2>8. Joint!Other(e) = k
      BY <1>2, OtherIsPeer
    <2>9. b = a
      BY <1>13, <2>1
    <2>10. Joint!Seal(e)
      BY <1>6, <1>7, <1>8, <1>9, <2>6, <2>7, <2>8, <2>9 DEF Joint!Seal, Sealing, Accounts, AccountOf
    <2> QED  BY <1>14, <2>10
  <1> QED  BY <1>16, <1>17, <1>19

\* The audit records of the two ends implement the joint record: an end adds
\* to its account only while it is open, closes it once, and seals it only
\* over the same account, closed on the other side as well (finalize of
\* observer.rs on both ends, with everything that can break it off).
THEOREM TerminalImplementsJointRecord == Spec => JointRecordSpec
  <1>1. Init => Joint!RecordInit
    <2>1. SUFFICES ASSUME Init PROVE Joint!RecordInit
      OBVIOUS
    <2>2. \A e \in Ends : obs[e] = NewObserver
      BY <2>1 DEF Init
    <2>3. PICK o : o = NewObserver
      OBVIOUS
    <2>4. /\ Recorded(o.s.input) = 0 /\ Recorded(o.s.output) = 0 /\ o.s.control = <<>>
          /\ SealOf(o) = "open" /\ o.writer = "ok"
      <3>1. o.s = NewSession /\ o.writer = "ok"
        BY <2>3 DEF NewObserver
      <3>2. NewSession.phase = "Active" /\ NewSession.control = <<>>
            /\ NewSession.input = NoBytes /\ NewSession.output = NoBytes
        BY DEF NewSession
      <3>3. Recorded(NoBytes) = 0
        BY DEF Recorded, NoBytes
      <3> QED  BY <3>1, <3>2, <3>3, SealFacts
    <2>5. \A e \in Ends : /\ Recorded(obs[e].s.input) = 0 /\ Recorded(obs[e].s.output) = 0
                          /\ obs[e].s.control = <<>> /\ SealOf(obs[e]) = "open"
      BY <2>2, <2>3, <2>4
    <2> QED  BY <2>5 DEF Joint!RecordInit
  <1>2. TsInv /\ FinishedPastActive /\ [Next]_vars => [Joint!RecordNext]_(Joint!recordVars)
    <2>1. SUFFICES ASSUME TsInv, FinishedPastActive, [Next]_vars PROVE [Joint!RecordNext]_(Joint!recordVars)
      OBVIOUS
    <2>2. CASE Next
      <3>1. Joint!RecordNext \/ UNCHANGED <<Accounts, Sealing>>
        BY <2>1, <2>2, NextKeeps, NextWriter, JointStep
      <3> QED  BY <3>1 DEF Joint!recordVars, Accounts, AccountOf, Sealing
    <2>3. CASE UNCHANGED vars
      <3>1. obs' = obs
        BY <2>3 DEF vars
      <3> QED  BY <3>1 DEF Joint!recordVars
    <2> QED  BY <2>1, <2>2, <2>3
  <1>3. Init => FinishedPastActive
    BY DEF Init, FinishedPastActive, NewObserver
  <1>4. TsInv /\ FinishedPastActive /\ [Next]_vars => FinishedPastActive'
    BY ShutStep
  <1> QED  BY <1>1, <1>2, <1>3, <1>4, TerminalInvariant, PTL DEF Spec, JointRecordSpec, Joint!JointSpec
=============================================================================
