----------------------------- MODULE HostProofs -----------------------------
(***************************************************************************)
(* Theorems about the host, for any number of controllers, connections,    *)
(* replacement codes, substreams and sessions.                             *)
(*                                                                         *)
(* HostSession: the inductive invariant ties the await the loop is in to   *)
(* the TargetSession state and to what the local variables of run() stand  *)
(* for at that point.                                                      *)
(*                                                                         *)
(* FileSubstreams: a substream is at one place at a time: on its way, in   *)
(* the channel, kept for hand-off, in the active slot, or done with.  So   *)
(* none is served twice, and the audit record is at an odd length exactly  *)
(* while the active transfer has a start and no end.  For a controller     *)
(* that waits for its last operation over an ordered transport, moreover,  *)
(* what is on its way is sorted by substream.                              *)
(***************************************************************************)
EXTENDS HostSession, FileSubstreams, FiniteSetTheorems, SequenceTheorems, TLAPS

-----------------------------------------------------------------------------
(* The session loop *)

\* Phases with a controller of their own, and with a bound connection.
Engaged == {"quiescence", "evict", "settle"}
Bound == {"hello", "retry", "auth", "ack", "start", "release", "bridge", "finalize"}
Before == {"hello", "retry", "auth", "ack", "start"}

\* The loop and TargetSession agree.
LoopAgrees ==
    /\ phase \in {"idle", "recover", "quiescence", "evict", "settle", "hello", "retry"}
          => session = "Advertised"
    /\ phase = "auth" => session = "Authenticating"
    /\ phase = "ack" => session = "AwaitingTerminal"
    /\ phase = "start" => session = "StartingTerminal"
    /\ phase \in {"release", "bridge", "finalize"} => session = "Active"
    /\ phase \in {"cleanup", "ended"} => session # "Active"

\* What the binding stands for.  Until the commit its connection is the
\* peer's only one.
BindingHolds ==
    /\ phase \in Engaged => binding.peer \in Controllers
    /\ phase \in Bound => binding.peer \in Controllers /\ binding.conn \in Conns
    /\ phase \in Before => roster[binding.peer] = {binding.conn}

\* Who authenticated, and where the shell is.
Authenticated ==
    /\ phase \in {"ack", "start", "release", "bridge"}
          => authed = [conn |-> binding.conn, code |-> code]
    /\ pty => phase \in {"start", "release", "bridge"}

IInv == HostTypeOK /\ LoopAgrees /\ BindingHolds /\ Authenticated

-----------------------------------------------------------------------------
(* TargetSession::apply on the events the loop feeds it. *)

LEMMA ApplyFacts ==
    /\ Apply("Advertised", "BeginAuthentication") = "Authenticating"
    /\ Apply("Authenticating", "AuthenticationSucceeded") = "AwaitingTerminal"
    /\ Apply("AwaitingTerminal", "TerminalStreamsReady") = "StartingTerminal"
    /\ Apply("StartingTerminal", "TerminalReadyFlushed") = "Active"
    /\ Apply("Authenticating", "AuthenticationFailed") = "Advertised"
    /\ Apply("Authenticating", "ConnectionLost") = "Advertised"
    /\ Apply("Authenticating", "ExtraConnection") = "Advertised"
    /\ Apply("AwaitingTerminal", "ConnectionLost") = "Advertised"
    /\ Apply("AwaitingTerminal", "ExtraConnection") = "Advertised"
    /\ Apply("StartingTerminal", "ConnectionLost") = "Advertised"
    /\ Apply("StartingTerminal", "ExtraConnection") = "Advertised"
    /\ Apply("StartingTerminal", "TerminalStartFailed") = "Advertised"
    /\ Apply("Active", "ConnectionLost") = "Spent"
    /\ Apply("Active", "ExtraConnection") = "Spent"
    /\ Apply("Active", "ShellExited") = "Spent"
  BY DEF Apply, AbortEvents, ActiveEndsAs

-----------------------------------------------------------------------------
(* Frames: what a step does outside the loop's own variables. *)

\* The network, the lease and the history keep their types.
Surroundings ==
    /\ roster \in [Controllers -> SUBSET Conns]
    /\ upgrade \in [Controllers -> {"none", "pending", "failed", "connected"}]
    /\ lease \in BOOLEAN
    /\ code \in 1..MaxCode
    /\ interrupted \in BOOLEAN

\* The values of the loop's variables outside an attempt have their types.
LEMMA Blanks ==
    /\ Unbound \in [peer: Controllers \cup {None}, conn: Conns \cup {None}]
    /\ NoAuth \in [conn: Conns \cup {None}, code: 0..MaxCode]
    /\ NoStreams \subseteq Handshake
  <1>1. 0 \in 0..MaxCode
    BY HostAssumption
  <1> QED  BY <1>1 DEF Unbound, NoAuth, NoStreams

\* An attempt that ends leaves the session advertised and no shell.
LEMMA EndAttemptKeeps ==
    ASSUME IInv, Surroundings', NEW event, NEW next \in {"idle", "settle"},
           EndAttempt(event, next), After(event) = "Advertised",
           next = "settle" => binding.peer \in Controllers
    PROVE  IInv'
  <1>1. /\ phase' = next /\ session' = "Advertised" /\ streams' = NoStreams
        /\ pty' = FALSE /\ authed' = NoAuth /\ outcome' = outcome
        /\ binding' = IF next = "settle" THEN binding ELSE Unbound
    BY DEF EndAttempt
  <1>2. HostTypeOK'
    BY <1>1, Blanks DEF IInv, HostTypeOK, Surroundings, SessionStates, Phases
  <1>3. LoopAgrees' /\ BindingHolds' /\ Authenticated'
    BY <1>1 DEF LoopAgrees, BindingHolds, Authenticated, Engaged, Bound, Before
  <1> QED  BY <1>2, <1>3 DEF IInv

\* run() never returns with an active session.
LEMMA FinishKeeps ==
    ASSUME IInv, Surroundings', NEW event, NEW res \in {"code", "error", "interrupted"},
           Finish(event, res), After(event) \in SessionStates \ {"Active"}
    PROVE  IInv'
  <1>1. /\ phase' = "cleanup" /\ session' = After(event) /\ streams' = NoStreams
        /\ pty' = FALSE /\ authed' = NoAuth /\ outcome' = res /\ binding' = Unbound
    BY DEF Finish
  <1>2. HostTypeOK'
    BY <1>1, Blanks DEF HostTypeOK, Surroundings, Phases
  <1>3. LoopAgrees' /\ BindingHolds' /\ Authenticated'
    BY <1>1 DEF LoopAgrees, BindingHolds, Authenticated, Engaged, Bound, Before
  <1> QED  BY <1>2, <1>3 DEF IInv

\* What IInv says about each phase's session.
LEMMA SessionOf ==
    ASSUME IInv
    PROVE  /\ After("none") = session
           /\ phase = "auth" =>
                 /\ After("AuthenticationFailed") = "Advertised"
                 /\ After("ConnectionLost") = "Advertised"
                 /\ After("ExtraConnection") = "Advertised"
           /\ phase = "ack" =>
                 /\ After("ConnectionLost") = "Advertised"
                 /\ After("ExtraConnection") = "Advertised"
           /\ phase = "start" =>
                 /\ After("TerminalStartFailed") = "Advertised"
                 /\ After("ConnectionLost") = "Advertised"
                 /\ After("ExtraConnection") = "Advertised"
           /\ phase \in {"release", "bridge", "finalize"} =>
                 /\ After("ShellExited") = "Spent"
                 /\ After("ConnectionLost") = "Spent"
                 /\ After("ExtraConnection") = "Spent"
  BY ApplyFacts DEF IInv, LoopAgrees, After

-----------------------------------------------------------------------------
(* Roster events *)

LEMMA ReactKeeps ==
    ASSUME IInv, Surroundings', NEW p \in Controllers, React(p),
           \A q \in Controllers : q # p => roster'[q] = roster[q],
           UNCHANGED code
    PROVE  IInv'
  <1> USE DEF Enforcing
  <1>1. CASE phase \in Enforcing /\ p = binding.peer
    <2>0. BindingBroken(p)
      BY <1>1 DEF React
    <2>1. Settle(p) \in {"idle", "settle"} /\ BindingEvent(p) \in {"ExtraConnection", "ConnectionLost"}
      BY DEF Settle, BindingEvent
    <2>2. CASE phase \in {"hello", "retry"} /\ EndAttempt("none", Settle(p))
      BY <1>1, <2>1, <2>2, SessionOf, EndAttemptKeeps DEF IInv, LoopAgrees
    <2>3. CASE phase \in {"auth", "ack", "start"} /\ EndAttempt(BindingEvent(p), Settle(p))
      <3>1. After(BindingEvent(p)) = "Advertised"
        BY <2>1, <2>3, SessionOf
      <3> QED  BY <1>1, <2>1, <2>3, <3>1, EndAttemptKeeps
    <2>4. CASE /\ phase = "release" /\ phase' = "bridge"
               /\ UNCHANGED <<session, binding, streams, pty, authed, outcome>>
      BY <1>1, <2>4 DEF IInv, HostTypeOK, LoopAgrees, BindingHolds, Authenticated, Surroundings,
                       Phases, Engaged, Bound, Before
    <2>5. CASE phase = "bridge" /\ Finish(BindingEvent(p), "error")
      <3>1. After(BindingEvent(p)) = "Spent"
        BY <2>1, <2>5, SessionOf
      <3> QED  BY <2>5, <3>1, FinishKeeps DEF SessionStates
    <2>6. CASE phase = "finalize" /\ Finish("ConnectionLost", "error")
      BY <2>6, SessionOf, FinishKeeps DEF SessionStates
    <2> QED  BY <2>0, <2>2, <2>3, <2>4, <2>5, <2>6 DEF BindingBroken
  <1>2. CASE ~(phase \in Enforcing /\ p = binding.peer)
    <2>1. UNCHANGED loopVars
      BY <1>2 DEF React, Stay
    <2>2. phase \in Before => roster'[binding.peer] = {binding.conn}
      BY <1>2 DEF IInv, BindingHolds, Before, Bound
    <2> QED  BY <2>1, <2>2 DEF IInv, HostTypeOK, LoopAgrees, BindingHolds, Authenticated,
                              Surroundings, loopVars, Engaged, Bound, Before
  <1> QED  BY <1>1, <1>2

LEMMA RosterKeeps ==
    ASSUME IInv, NEW p \in Controllers, NEW c \in Conns, Established(p, c) \/ Closed(p, c)
    PROVE  IInv'
  <1>1. /\ Surroundings'
        /\ \A q \in Controllers : q # p => roster'[q] = roster[q]
        /\ React(p) /\ UNCHANGED code
    <2>1. CASE Established(p, c)
      BY <2>1 DEF Established, Surroundings, IInv, HostTypeOK
    <2>2. CASE Closed(p, c)
      BY <2>2 DEF Closed, Surroundings, IInv, HostTypeOK
    <2> QED  BY <2>1, <2>2
  <1> QED  BY <1>1, ReactKeeps

-----------------------------------------------------------------------------
(* The loop's own steps *)

LEMMA EnvironmentKeeps ==
    ASSUME IInv, Environment
    PROVE  IInv'
  <1>1. ASSUME NEW p \in Controllers, NEW c \in Conns, Established(p, c) \/ Closed(p, c)
        PROVE  IInv'
    BY <1>1, RosterKeeps
  <1>2. ASSUME NEW p \in Controllers, NEW res \in {"failed", "connected"}, UpgradeFinished(p, res)
        PROVE  IInv'
    BY <1>2 DEF UpgradeFinished, Stay, loopVars, IInv, HostTypeOK, LoopAgrees, BindingHolds,
                Authenticated, Engaged, Bound, Before
  <1>3. ASSUME NEW p \in Controllers, AuthStream(p)
        PROVE  IInv'
    <2>1. binding' \in [peer: Controllers \cup {None}, conn: Conns \cup {None}]
             /\ binding'.peer = p
      BY <1>3 DEF AuthStream
    <2> QED  BY <1>3, <2>1 DEF AuthStream, netVars, IInv, HostTypeOK, LoopAgrees, BindingHolds,
                Authenticated, Phases, Engaged, Bound, Before
  <1>4. CASE LeaseLost
    <2>1. lease' \in BOOLEAN
      BY <1>4, Zenon DEF LeaseLost
    <2>2. UNCHANGED <<netVars, loopVars, code, interrupted>>
      BY <1>4 DEF LeaseLost, Stay
    <2> QED  BY <2>1, <2>2 DEF netVars, loopVars, IInv, HostTypeOK, LoopAgrees, BindingHolds,
                Authenticated, Engaged, Bound, Before
  <1>5. CASE Interrupt
    <2>1. Surroundings'
      BY <1>5 DEF Interrupt, netVars, Surroundings, IInv, HostTypeOK
    <2>2. CASE phase \in {"idle", "recover", "hello", "retry", "auth"} /\ Finish("none", "interrupted")
      <3>1. After("none") \in SessionStates \ {"Active"}
        BY <2>2, SessionOf DEF IInv, LoopAgrees, SessionStates
      <3> QED  BY <2>1, <2>2, <3>1, FinishKeeps
    <2>3. CASE phase = "quiescence" /\ EndAttempt("none", "idle")
      BY <2>1, <2>3, SessionOf, EndAttemptKeeps DEF IInv, LoopAgrees
    <2>4. CASE phase = "ack" /\ EndAttempt("ConnectionLost", "idle")
      BY <2>1, <2>4, SessionOf, EndAttemptKeeps
    <2>5. CASE phase = "start" /\ Finish("TerminalStartFailed", "interrupted")
      BY <2>1, <2>5, SessionOf, FinishKeeps DEF SessionStates
    <2>6. CASE phase = "bridge" /\ Finish("ConnectionLost", "interrupted")
      BY <2>1, <2>6, SessionOf, FinishKeeps DEF SessionStates
    <2> QED  BY <1>5, <2>2, <2>3, <2>4, <2>5, <2>6 DEF Interrupt
  <1>6. ASSUME NEW p \in Controllers, NEW c \in Conns, Overflow(p, c)
        PROVE  IInv'
    BY <1>6 DEF Overflow, Stay, loopVars, IInv, HostTypeOK, LoopAgrees, BindingHolds,
                Authenticated, Engaged, Bound, Before
  <1> QED  BY <1>1, <1>2, <1>3, <1>4, <1>5, <1>6 DEF Environment

LEMMA RecoveryKeeps ==
    ASSUME IInv, RecoveryStarts \/ RecoveryFails \/ \E next \in 1..MaxCode : Recovered(next)
    PROVE  IInv'
  <1>1. CASE RecoveryStarts
    BY <1>1 DEF RecoveryStarts, netVars, IInv, HostTypeOK, LoopAgrees, BindingHolds,
                Authenticated, Phases, Engaged, Bound, Before
  <1>2. CASE RecoveryFails
    <2>1. Surroundings' /\ After("none") \in SessionStates \ {"Active"}
      BY <1>2, SessionOf DEF RecoveryFails, netVars, Surroundings, IInv, HostTypeOK, LoopAgrees,
                             SessionStates
    <2> QED  BY <1>2, <2>1, FinishKeeps DEF RecoveryFails
  <1>3. ASSUME NEW next \in 1..MaxCode, Recovered(next)
        PROVE  IInv'
    BY <1>3 DEF Recovered, netVars, IInv, HostTypeOK, LoopAgrees, BindingHolds,
                Authenticated, Phases, Engaged, Bound, Before
  <1> QED  BY <1>1, <1>2, <1>3

\* A step of Attempt or Ending that ends the attempt without a roster event.
LEMMA QuietSurroundings ==
    ASSUME IInv, UNCHANGED <<netVars, lease, code, interrupted>>
    PROVE  Surroundings'
  BY DEF netVars, Surroundings, IInv, HostTypeOK

LEMMA QuiescenceKeeps ==
    ASSUME IInv,
           (\E c \in Conns : Bind(c)) \/ QuiescenceTimeout \/ Evicted \/ Settled
    PROVE  IInv'
  <1>1. ASSUME NEW c \in Conns, Bind(c) PROVE IInv'
    <2>1. binding.peer \in Controllers /\ binding' = [peer |-> binding.peer, conn |-> c]
      BY <1>1 DEF Bind, IInv, HostTypeOK, BindingHolds, Engaged
    <2> QED  BY <1>1, <2>1 DEF Bind, netVars, IInv, HostTypeOK, LoopAgrees, BindingHolds,
                Authenticated, Phases, Engaged, Bound, Before
  <1>2. CASE QuiescenceTimeout
    BY <1>2 DEF QuiescenceTimeout, netVars, IInv, HostTypeOK, LoopAgrees, BindingHolds,
                Authenticated, Phases, Engaged, Bound, Before
  <1>3. CASE Evicted
    BY <1>3, SessionOf, QuietSurroundings, EndAttemptKeeps DEF Evicted, IInv, LoopAgrees
  <1>4. CASE Settled
    <2>1. Surroundings' /\ After("none") = "Advertised"
      BY <1>4, SessionOf, QuietSurroundings DEF Settled, IInv, LoopAgrees
    <2>2. CASE EndAttempt("none", "idle")
      BY <2>1, <2>2, EndAttemptKeeps
    <2>3. CASE Finish("none", "error")
      BY <2>1, <2>3, FinishKeeps DEF SessionStates
    <2> QED  BY <1>4, <2>2, <2>3 DEF Settled
  <1> QED  BY <1>1, <1>2, <1>3, <1>4

LEMMA AuthenticationKeeps ==
    ASSUME IInv, HelloRead \/ HelloRejected \/ AuthSucceeds \/ AuthFails
    PROVE  IInv'
  <1>1. CASE HelloRead
    <2>1. After("BeginAuthentication") = "Authenticating" /\ After("none") = "Advertised"
      BY <1>1, ApplyFacts DEF HelloRead, After, IInv, LoopAgrees
    <2> QED  BY <1>1, <2>1 DEF HelloRead, Move, netVars, IInv, HostTypeOK, LoopAgrees, BindingHolds,
                Authenticated, SessionStates, Phases, Engaged, Bound, Before
  <1>2. CASE HelloRejected
    BY <1>2, SessionOf, QuietSurroundings, EndAttemptKeeps DEF HelloRejected, IInv, LoopAgrees
  <1>3. CASE AuthSucceeds
    <2>1. After("AuthenticationSucceeded") = "AwaitingTerminal"
      BY <1>3, ApplyFacts DEF AuthSucceeds, After, IInv, LoopAgrees
    <2> QED  BY <1>3, <2>1 DEF AuthSucceeds, Move, netVars, IInv, HostTypeOK, LoopAgrees,
                BindingHolds, Authenticated, SessionStates, Phases, Engaged, Bound, Before
  <1>4. CASE AuthFails
    BY <1>4, SessionOf, QuietSurroundings, EndAttemptKeeps DEF AuthFails
  <1> QED  BY <1>1, <1>2, <1>3, <1>4

LEMMA StreamsKeep ==
    ASSUME IInv, (\E part \in Handshake : StreamsProgress(part)) \/ NoAuditRoot \/ StreamsFail
    PROVE  IInv'
  <1>1. ASSUME NEW part \in Handshake, StreamsProgress(part) PROVE IInv'
    <2>1. After("TerminalStreamsReady") = "StartingTerminal" /\ After("none") = "AwaitingTerminal"
      BY <1>1, ApplyFacts DEF StreamsProgress, After, IInv, LoopAgrees
    <2>2. streams' \subseteq Handshake
      BY <1>1 DEF StreamsProgress, IInv, HostTypeOK
    <2>3. CASE Move("TerminalStreamsReady", "start")
      BY <1>1, <2>1, <2>2, <2>3 DEF StreamsProgress, Move, netVars, IInv, HostTypeOK, LoopAgrees,
         BindingHolds, Authenticated, SessionStates, Phases, Engaged, Bound, Before
    <2>4. CASE Move("none", "ack")
      BY <1>1, <2>1, <2>2, <2>4 DEF StreamsProgress, Move, netVars, IInv, HostTypeOK, LoopAgrees,
         BindingHolds, Authenticated, SessionStates, Phases, Engaged, Bound, Before
    <2> QED  BY <1>1, <2>3, <2>4 DEF StreamsProgress
  <1>2. CASE StreamsFail
    BY <1>2, SessionOf, QuietSurroundings, EndAttemptKeeps DEF StreamsFail
  <1>3. CASE NoAuditRoot
    <2>1. After("TerminalStreamsReady") = "StartingTerminal"
      BY <1>3, ApplyFacts DEF NoAuditRoot, After, IInv, LoopAgrees
    <2> QED  BY <1>3, <2>1, QuietSurroundings, FinishKeeps DEF NoAuditRoot, SessionStates
  <1> QED  BY <1>1, <1>2, <1>3

LEMMA TerminalKeeps ==
    ASSUME IInv, OpenPty \/ ReadyFlushed \/ StartFails \/ Released
    PROVE  IInv'
  <1>1. CASE OpenPty
    BY <1>1 DEF OpenPty, netVars, IInv, HostTypeOK, LoopAgrees, BindingHolds,
                Authenticated, Engaged, Bound, Before
  <1>2. CASE ReadyFlushed
    <2>1. After("TerminalReadyFlushed") = "Active"
      BY <1>2, ApplyFacts DEF ReadyFlushed, After, IInv, LoopAgrees
    <2> QED  BY <1>2, <2>1 DEF ReadyFlushed, Move, netVars, IInv, HostTypeOK, LoopAgrees,
                BindingHolds, Authenticated, SessionStates, Phases, Engaged, Bound, Before
  <1>3. CASE StartFails
    BY <1>3, SessionOf, QuietSurroundings, EndAttemptKeeps DEF StartFails
  <1>4. CASE Released
    BY <1>4, SessionOf DEF Released, Move, netVars, IInv, HostTypeOK, LoopAgrees,
                BindingHolds, Authenticated, SessionStates, Phases, Engaged, Bound, Before
  <1> QED  BY <1>1, <1>2, <1>3, <1>4

LEMMA EndingKeeps ==
    ASSUME IInv, Ending
    PROVE  IInv'
  <1>1. CASE BridgeUnbound
    <2>1. Surroundings' /\ After("ExtraConnection") = "Spent" /\ After("ConnectionLost") = "Spent"
      BY <1>1, SessionOf, QuietSurroundings DEF BridgeUnbound
    <2>2. CASE Finish("ExtraConnection", "error")
      BY <2>1, <2>2, FinishKeeps DEF SessionStates
    <2>3. CASE Finish("ConnectionLost", "error")
      BY <2>1, <2>3, FinishKeeps DEF SessionStates
    <2> QED  BY <1>1, <2>2, <2>3 DEF BridgeUnbound
  <1>2. CASE ShellExits
    BY <1>2 DEF ShellExits, netVars, IInv, HostTypeOK, LoopAgrees, BindingHolds,
                Authenticated, Phases, Engaged, Bound, Before
  <1>3. CASE BridgeFails
    BY <1>3, SessionOf, QuietSurroundings, FinishKeeps DEF BridgeFails, SessionStates
  <1>4. CASE Finalized
    <2>1. Surroundings' /\ After("ShellExited") = "Spent" /\ After("ConnectionLost") = "Spent"
      BY <1>4, SessionOf, QuietSurroundings DEF Finalized
    <2>2. CASE Finish("ShellExited", "code")
      BY <2>1, <2>2, FinishKeeps DEF SessionStates
    <2>3. CASE Finish("ConnectionLost", "error")
      BY <2>1, <2>3, FinishKeeps DEF SessionStates
    <2> QED  BY <1>4, <2>2, <2>3 DEF Finalized
  <1>5. CASE Cleanup
    BY <1>5 DEF Cleanup, netVars, IInv, HostTypeOK, LoopAgrees, BindingHolds,
                Authenticated, Phases, Engaged, Bound, Before
  <1> QED  BY <1>1, <1>2, <1>3, <1>4, <1>5 DEF Ending

-----------------------------------------------------------------------------
(* The invariant *)

LEMMA InitInv == HostInit => IInv
  <1> SUFFICES ASSUME HostInit PROVE IInv
    OBVIOUS
  <1>0. lease \in BOOLEAN /\ pty \in BOOLEAN /\ interrupted \in BOOLEAN
    BY Zenon DEF HostInit
  <1>1. HostTypeOK
    BY <1>0, Blanks, HostAssumption DEF HostInit, HostTypeOK, SessionStates, Phases
  <1>2. LoopAgrees /\ BindingHolds /\ Authenticated
    BY DEF HostInit, LoopAgrees, BindingHolds, Authenticated, Engaged, Bound, Before
  <1> QED  BY <1>1, <1>2 DEF IInv

LEMMA StutterKeeps ==
    ASSUME IInv, UNCHANGED hostVars
    PROVE  IInv'
  BY DEF hostVars, netVars, loopVars, IInv, HostTypeOK, LoopAgrees, BindingHolds, Authenticated,
         Engaged, Bound, Before

LEMMA StepInv == IInv /\ [HostNext]_hostVars => IInv'
  <1> SUFFICES ASSUME IInv, [HostNext]_hostVars PROVE IInv'
    OBVIOUS
  <1>1. CASE Attempt
    BY <1>1, QuiescenceKeeps, AuthenticationKeeps, StreamsKeep, TerminalKeeps DEF Attempt
  <1>2. CASE RecoveryStarts \/ RecoveryFails \/ \E next \in 1..MaxCode : Recovered(next)
    BY <1>2, RecoveryKeeps
  <1> QED
    BY <1>1, <1>2, EnvironmentKeeps, EndingKeeps, StutterKeeps DEF HostNext

LEMMA Invariance == HostSpec => []IInv
  BY InitInv, StepInv, PTL DEF HostSpec

-----------------------------------------------------------------------------
(* What a step does to the code *)

\* The code stays on display, or stays consumed.
Quiet ==
    /\ code' = code
    /\ Consumed' <=> Consumed
    /\ session' = "Active" => session = "Active"

\* A step that moves the session neither into nor out of consumption is quiet.
LEMMA QuietSteps ==
    ASSUME UNCHANGED code,
           \/ session' = session
           \/ session \notin {"Active", "Spent"} /\ session' \notin {"Active", "Spent"}
           \/ session = "Active" /\ session' = "Spent"
    PROVE  Quiet
  BY DEF Quiet, Consumed

\* A roster event is quiet in every phase.
LEMMA ReactQuiet ==
    ASSUME IInv, NEW p \in Controllers, React(p), UNCHANGED code
    PROVE  Quiet
  <1>1. CASE BindingBroken(p)
    <2>1. BindingEvent(p) \in {"ExtraConnection", "ConnectionLost"}
      BY DEF BindingEvent
    <2> QED  BY <1>1, <2>1, SessionOf, QuietSteps
             DEF BindingBroken, EndAttempt, Finish, IInv, LoopAgrees
  <1>2. CASE Stay
    BY <1>2, QuietSteps DEF Stay, loopVars
  <1> QED  BY <1>1, <1>2 DEF React

LEMMA EnvironmentQuiet ==
    ASSUME IInv, Environment
    PROVE  Quiet
  <1>1. ASSUME NEW p \in Controllers, NEW c \in Conns, Established(p, c) \/ Closed(p, c)
        PROVE  Quiet
    BY <1>1, ReactQuiet DEF Established, Closed
  <1>2. ASSUME NEW p \in Controllers,
               UpgradeFinished(p, "failed") \/ UpgradeFinished(p, "connected") \/ AuthStream(p)
        PROVE  Quiet
    BY <1>2, QuietSteps DEF UpgradeFinished, AuthStream, Stay, loopVars
  <1>3. CASE LeaseLost
    BY <1>3, QuietSteps DEF LeaseLost, Stay, loopVars
  <1>4. CASE Interrupt
    BY <1>4, SessionOf, QuietSteps DEF Interrupt, EndAttempt, Finish, IInv, LoopAgrees
  <1>5. ASSUME NEW p \in Controllers, NEW c \in Conns, Overflow(p, c)
        PROVE  Quiet
    BY <1>5, QuietSteps DEF Overflow, Stay, loopVars
  <1> QED  BY <1>1, <1>2, <1>3, <1>4, <1>5 DEF Environment

LEMMA AttemptQuiet ==
    ASSUME IInv, Attempt
    PROVE  Quiet \/ ReadyFlushed
  <1>1. CASE (\E c \in Conns : Bind(c)) \/ QuiescenceTimeout \/ OpenPty
    BY <1>1, QuietSteps DEF Bind, QuiescenceTimeout, OpenPty
  <1>2. CASE Evicted \/ Settled \/ HelloRejected \/ AuthFails \/ StreamsFail \/ StartFails
    BY <1>2, SessionOf, QuietSteps
    DEF Evicted, Settled, HelloRejected, AuthFails, StreamsFail, StartFails, EndAttempt, Finish,
        IInv, LoopAgrees
  <1>3. CASE HelloRead \/ AuthSucceeds \/ Released
    BY <1>3, SessionOf, ApplyFacts, QuietSteps
    DEF HelloRead, AuthSucceeds, Released, Move, After, IInv, LoopAgrees
  <1>4. ASSUME NEW part \in Handshake, StreamsProgress(part)
        PROVE  Quiet
    BY <1>4, SessionOf, ApplyFacts, QuietSteps
    DEF StreamsProgress, Move, After, IInv, LoopAgrees
  <1>5. CASE NoAuditRoot
    BY <1>5, ApplyFacts, QuietSteps DEF NoAuditRoot, Finish, After, IInv, LoopAgrees
  <1> QED  BY <1>1, <1>2, <1>3, <1>4, <1>5 DEF Attempt

LEMMA EndingQuiet ==
    ASSUME IInv, Ending
    PROVE  Quiet
  <1>1. CASE BridgeUnbound \/ BridgeFails \/ Finalized
    BY <1>1, SessionOf, QuietSteps
    DEF BridgeUnbound, BridgeFails, Finalized, Finish, IInv, LoopAgrees
  <1>2. CASE ShellExits \/ Cleanup
    BY <1>2, QuietSteps DEF ShellExits, Cleanup
  <1> QED  BY <1>1, <1>2 DEF Ending

\* Only the flushed TerminalReady consumes the code and only a recovery
\* replaces it.
LEMMA StepEffect ==
    ASSUME IInv, [HostNext]_hostVars
    PROVE  Quiet \/ ReadyFlushed \/ \E next \in 1..MaxCode : Recovered(next)
  <1>1. CASE RecoveryStarts \/ RecoveryFails
    BY <1>1, SessionOf, QuietSteps DEF RecoveryStarts, RecoveryFails, Finish, netVars
  <1>2. CASE UNCHANGED hostVars
    BY <1>2, QuietSteps DEF hostVars, loopVars
  <1> QED
    BY <1>1, <1>2, EnvironmentQuiet, AttemptQuiet, EndingQuiet DEF HostNext

-----------------------------------------------------------------------------
(* The upgrade of the bound connection *)

\* Until the commit the bound connection is direct or its upgrade is over.
UpgradeOver ==
    phase \in Before => binding.conn \in Direct \/ upgrade[binding.peer] # "pending"

\* A step that binds nothing and touches the upgrades of other peers only.
LEMMA BindingKept ==
    ASSUME UpgradeOver,
           phase' \in Before =>
               /\ phase \in Before /\ binding' = binding
               /\ upgrade'[binding.peer] \in {upgrade[binding.peer], "failed", "connected"}
    PROVE  UpgradeOver'
  BY DEF UpgradeOver

\* Every way out of an attempt leaves the phases before the commit.
LEMMA AttemptLeaves ==
    ASSUME NEW event, NEW next \in {"idle", "settle"}, NEW res,
           EndAttempt(event, next) \/ Finish(event, res)
    PROVE  phase' \notin Before
  BY DEF EndAttempt, Finish, Before

\* A new connection of the bound peer, which may start an upgrade, ends the
\* attempt; one of another peer leaves it alone.
LEMMA RosterUpgrade ==
    ASSUME IInv, UpgradeOver, NEW p \in Controllers, NEW c \in Conns,
           Established(p, c) \/ Closed(p, c)
    PROVE  UpgradeOver'
  <1>1. React(p) /\ \A q \in Controllers : q # p => upgrade'[q] = upgrade[q]
    BY DEF Established, Closed, IInv, HostTypeOK
  <1>2. CASE phase \in Enforcing /\ p = binding.peer
    <2>1. BindingBroken(p) /\ Settle(p) \in {"idle", "settle"}
      BY <1>1, <1>2 DEF React, Settle
    <2>2. phase' \notin Before
      <3>1. CASE phase = "release"
        BY <2>1, <3>1 DEF BindingBroken, Before
      <3>2. CASE phase # "release"
        BY <2>1, <3>2, AttemptLeaves DEF BindingBroken
      <3> QED  BY <3>1, <3>2
    <2> QED  BY <2>2 DEF UpgradeOver
  <1>3. CASE ~(phase \in Enforcing /\ p = binding.peer)
    <2>1. phase' = phase /\ binding' = binding
      BY <1>1, <1>3 DEF React, Stay, loopVars
    <2>2. phase \in Before => binding.peer \in Controllers /\ binding.peer # p
      BY <1>3 DEF IInv, BindingHolds, Before, Bound, Enforcing
    <2> QED  BY <1>1, <2>1, <2>2, BindingKept
  <1> QED  BY <1>2, <1>3

LEMMA EnvironmentUpgrade ==
    ASSUME IInv, UpgradeOver, Environment
    PROVE  UpgradeOver'
  <1>1. ASSUME NEW p \in Controllers, NEW c \in Conns, Overflow(p, c)
        PROVE  UpgradeOver'
    <2>1. /\ phase' = phase /\ binding' = binding
          /\ upgrade' = [upgrade EXCEPT ![p] = "pending"]
          /\ Cardinality(roster[p]) >= RosterCapacity
      BY <1>1 DEF Overflow, Stay, loopVars
    <2>2. phase \in Before => binding.peer \in Controllers /\ binding.peer # p
      <3> SUFFICES ASSUME phase \in Before, binding.peer = p PROVE FALSE
        BY DEF IInv, BindingHolds, Before, Bound
      <3>1. roster[p] = {binding.conn}
        BY DEF IInv, BindingHolds
      <3>2. Cardinality(roster[p]) = 1
        BY <3>1, FS_Singleton
      <3> QED  BY <2>1, <3>2, HostAssumption
    <2> QED  BY <2>1, <2>2, BindingKept DEF IInv, HostTypeOK
  <1>2. ASSUME NEW p \in Controllers,
               UpgradeFinished(p, "failed") \/ UpgradeFinished(p, "connected")
        PROVE  UpgradeOver'
    BY <1>2, BindingKept DEF UpgradeFinished, Stay, loopVars, IInv, HostTypeOK, BindingHolds,
                             Before, Bound
  <1>3. ASSUME NEW p \in Controllers, AuthStream(p)
        PROVE  UpgradeOver'
    BY <1>3 DEF AuthStream, UpgradeOver, Before
  <1>4. CASE LeaseLost
    BY <1>4, BindingKept DEF LeaseLost, Stay, loopVars, netVars
  <1>5. CASE Interrupt
    BY <1>5, AttemptLeaves DEF Interrupt, UpgradeOver
  <1> QED  BY <1>1, <1>2, <1>3, <1>4, <1>5, RosterUpgrade DEF Environment

LEMMA AttemptUpgrade ==
    ASSUME IInv, UpgradeOver, Attempt
    PROVE  UpgradeOver'
  <1>1. ASSUME NEW c \in Conns, Bind(c) PROVE UpgradeOver'
    <2>1. /\ binding'.conn = c /\ binding'.peer = binding.peer /\ upgrade' = upgrade
          /\ UpgradeReady(binding.peer, c)
      BY <1>1 DEF Bind, netVars, IInv, HostTypeOK
    <2> QED  BY <2>1 DEF UpgradeReady, UpgradeOver
  <1>2. CASE QuiescenceTimeout
    BY <1>2 DEF QuiescenceTimeout, UpgradeOver, Before
  <1>3. CASE Evicted \/ Settled \/ HelloRejected \/ AuthFails \/ NoAuditRoot \/ StreamsFail
             \/ StartFails
    BY <1>3, AttemptLeaves DEF Evicted, Settled, HelloRejected, AuthFails, NoAuditRoot,
                               StreamsFail, StartFails, UpgradeOver
  <1>4. CASE HelloRead \/ AuthSucceeds \/ OpenPty \/ ReadyFlushed \/ Released
    BY <1>4, BindingKept DEF HelloRead, AuthSucceeds, OpenPty, ReadyFlushed, Released, Move,
                             netVars, Before
  <1>5. ASSUME NEW part \in Handshake, StreamsProgress(part) PROVE UpgradeOver'
    BY <1>5, BindingKept DEF StreamsProgress, Move, netVars, Before
  <1> QED  BY <1>1, <1>2, <1>3, <1>4, <1>5 DEF Attempt

LEMMA StepUpgrade == IInv /\ UpgradeOver /\ [HostNext]_hostVars => UpgradeOver'
  <1> SUFFICES ASSUME IInv, UpgradeOver, [HostNext]_hostVars PROVE UpgradeOver'
    OBVIOUS
  <1>1. CASE RecoveryStarts \/ RecoveryFails \/ \E next \in 1..MaxCode : Recovered(next)
    BY <1>1 DEF RecoveryStarts, RecoveryFails, Recovered, Finish, UpgradeOver, Before
  <1>2. CASE Ending
    BY <1>2, AttemptLeaves DEF Ending, BridgeUnbound, ShellExits, BridgeFails, Finalized, Cleanup,
                               Finish, UpgradeOver, Before
  <1>3. CASE UNCHANGED hostVars
    BY <1>3, BindingKept DEF hostVars, netVars, loopVars
  <1> QED
    BY <1>1, <1>2, <1>3, EnvironmentUpgrade, AttemptUpgrade DEF HostNext

-----------------------------------------------------------------------------
(* Results *)

\* The loop's variables keep their types, and no step feeds TargetSession an
\* event it rejects.
THEOREM HostTypes == HostSpec => []HostTypeOK
  <1>1. IInv => HostTypeOK
    BY DEF IInv
  <1> QED  BY <1>1, Invariance, PTL

\* A shell exists only for the authenticated controller of the current
\* attempt.
THEOREM HostShells == HostSpec => []ShellNeedsAuthentication
  <1>1. IInv => ShellNeedsAuthentication
    BY HostAssumption DEF IInv, BindingHolds, Authenticated, ShellNeedsAuthentication, Bound
  <1> QED  BY <1>1, Invariance, PTL

\* The code is committed over the authenticated controller's only
\* connection, with its shell open.
THEOREM HostCommits == HostSpec => CommitOnSoleConnection
  <1>1. ASSUME IInv, [HostNext]_hostVars, session # "Active", session' = "Active"
        PROVE  /\ roster'[binding.peer] = {authed.conn}
               /\ authed.code = code'
               /\ pty'
    <2>1. ReadyFlushed
      BY <1>1, StepEffect DEF Quiet, Recovered
    <2>2. /\ roster' = roster /\ code' = code /\ pty' = pty /\ pty /\ phase = "start"
      BY <2>1 DEF ReadyFlushed, Move, netVars
    <2>3. roster[binding.peer] = {binding.conn} /\ authed = [conn |-> binding.conn, code |-> code]
      BY <1>1, <2>2 DEF IInv, BindingHolds, Authenticated, Before
    <2> QED  BY <2>2, <2>3
  <1> QED  BY <1>1, Invariance, PTL DEF HostSpec, CommitOnSoleConnection

\* Authentication runs only over the peer's sole connection, and never over
\* one that a pending direct upgrade would replace (direct_upgrade_ready).
THEOREM HostSettled == HostSpec => []AuthenticatesSettledConnection
  <1>1. HostInit => UpgradeOver
    BY DEF HostInit, UpgradeOver, Before
  <1>2. IInv /\ UpgradeOver => AuthenticatesSettledConnection
    BY DEF IInv, BindingHolds, UpgradeOver, AuthenticatesSettledConnection, Before
  <1> QED  BY <1>1, <1>2, StepUpgrade, Invariance, PTL DEF HostSpec

\* The host implements OneShotCode.
THEOREM HostOneShot == HostSpec => OneShotSpec
  <1>1. HostInit => OneShot!Init
    BY DEF HostInit, OneShot!Init, Consumed
  <1>2. ASSUME IInv, [HostNext]_hostVars
        PROVE  [OneShot!Next]_<<code, Consumed>>
    <2>1. CASE Quiet
      <3>1. Consumed' = Consumed
        BY <2>1 DEF Quiet, Consumed
      <3> QED  BY <2>1, <3>1 DEF Quiet
    <2>2. CASE ReadyFlushed
      <3>1. session = "StartingTerminal" /\ session' = "Active" /\ code' = code
        BY <1>2, <2>2, ApplyFacts DEF ReadyFlushed, Move, After, IInv, LoopAgrees
      <3>2. ~Consumed /\ Consumed'
        BY <3>1 DEF Consumed
      <3> QED  BY <3>1, <3>2 DEF OneShot!Next, OneShot!Consume
    <2>3. ASSUME NEW next \in 1..MaxCode, Recovered(next)
          PROVE  [OneShot!Next]_<<code, Consumed>>
      <3>1. session = "Advertised" /\ session' = session /\ code' \in {code, code + 1}
        BY <1>2, <2>3 DEF Recovered, IInv, LoopAgrees
      <3>2. ~Consumed /\ Consumed' = Consumed
        BY <3>1 DEF Consumed
      <3> QED  BY <3>1, <3>2 DEF OneShot!Next, OneShot!Replace
    <2> QED  BY <1>2, <2>1, <2>2, <2>3, StepEffect
  <1> QED  BY <1>1, <1>2, Invariance, PTL DEF HostSpec, OneShotSpec, OneShot!Spec

-----------------------------------------------------------------------------
(* The file substreams *)

Kinds == {"probe", "upload", "download", "silent"}
Parts == [s : Streams, what : {"open", "first", "last"}]
Slots == [s : Streams, phase : {"reading", "wire", "ending"}]
Records == [s : Streams, what : {"start", "end"}]

TypeOK ==
    /\ given \in Sessions
    /\ kind \in [Streams -> Kinds \cup {"none"}]
    /\ view \in [Streams -> {"none", "open", "closed", "settled", "committed", "cancelled"}]
    /\ net \in Seq(Parts)
    /\ got \in [Streams -> SUBSET {"first", "last"}]
    /\ answer \in [Streams -> {"none", "dropped", "closed", "ended", "busy"}]
    /\ queue \in Seq(Streams) /\ Len(queue) <= 1
    /\ open \in BOOLEAN /\ settled \in BOOLEAN /\ closed \in BOOLEAN
    /\ active \in {Free} \cup Slots
    /\ busy \in {Free} \cup Slots
    /\ deferred \in 0..MaxStreams
    /\ coord \in {"run", "failed", "ended"}
    /\ log \in Seq(Records)

\* Neither in the active slot nor recorded.
Unserved(s) == s # active.s /\ \A i \in 1..Len(log): log[i].s # s

\* A substream is at one place at a time, and only those the controller has
\* opened are anywhere.
OnePlace ==
    /\ \A i \in 1..Len(net):
         /\ kind[net[i].s] # "none"
         /\ net[i].what = "open" =>
              /\ Unserved(net[i].s) /\ net[i].s # deferred
              /\ \A k \in 1..Len(queue): queue[k] # net[i].s
              /\ \A j \in 1..Len(net): net[j] = net[i] => i = j
    /\ \A k \in 1..Len(queue):
         kind[queue[k]] # "none" /\ Unserved(queue[k]) /\ queue[k] # deferred
    /\ deferred # 0 => kind[deferred] # "none" /\ Unserved(deferred)
    /\ active # Free => kind[active.s] # "none"
    /\ busy # Free => kind[busy.s] # "none"
    /\ \A i \in 1..Len(log): kind[log[i].s] # "none"

\* The controller only waits for what it has opened.
Opened == \A t \in Streams: kind[t] = "none" => view[t] = "none"

\* While the coordinator runs, the record is at an odd length exactly when the
\* active transfer's start is its last entry.
RecordOpen ==
    coord = "run" =>
        IF Len(log) % 2 = 1
        THEN active.phase \in {"wire", "ending"} /\ log[Len(log)] = [s |-> active.s, what |-> "start"]
        ELSE \A i \in 1..Len(log): log[i].s # active.s

SubInv == TypeOK /\ Opened /\ OnePlace /\ RecordOpen /\ RecordsInOrder

-----------------------------------------------------------------------------
Sequential == ~given.concurrent /\ given.ordered

Escaped(s) == \E t \in 1..(s - 1): view[t] = "cancelled"

InNet(p) == \E i \in 1..Len(net): net[i] = p

\* What is on its way is sorted by substream, and all of it later than what
\* has arrived.
SortedNet(q) ==
    /\ \A i, j \in 1..Len(q): i < j => q[i].s <= q[j].s
    /\ \A i, j \in 1..Len(q): i < j /\ q[i].s = q[j].s => q[j].what # "open"
    /\ \A i \in 1..Len(q):
         /\ active.s <= q[i].s /\ busy.s <= q[i].s /\ deferred <= q[i].s
         /\ \A k \in 1..Len(queue): queue[k] <= q[i].s
         /\ q[i].what = "open" => busy.s < q[i].s

\* What the coordinator holds is later than what it serves.
SortedSlots ==
    /\ \A k \in 1..Len(queue): active.s < queue[k] /\ busy.s < queue[k] /\ deferred < queue[k]
    /\ deferred # 0 => active.s < deferred /\ busy.s < deferred
    /\ busy # Free => active.s < busy.s

Sorted == SortedNet(net) /\ SortedSlots

\* How the operations stand for the controller.
Views ==
    /\ \A t \in Streams:
         /\ kind[t] = "none" <=> view[t] = "none"
         /\ kind[t] # "silent"
         /\ kind[t] = "probe" <=> view[t] = "closed"
         /\ view[t] = "settled" => answer[t] # "none"
         /\ view[t] = "committed" => answer[t] # "none" \/ active = [s |-> t, phase |-> "wire"]
         /\ view[t] \in {"committed", "cancelled"} => InNet(Part(t, "last")) \/ "last" \in got[t]
         /\ kind[t] = "probe" => InNet(Part(t, "first")) \/ "first" \in got[t]
    /\ \A s, t \in Streams: t < s /\ kind[s] # "none" => kind[t] # "none" /\ view[t] # "open"

\* What the coordinator holds is unanswered until its wire has settled.
Unanswered ==
    /\ \A t \in Streams: kind[t] = "none" => answer[t] = "none"
    /\ \A i \in 1..Len(net): net[i].what = "open" => answer[net[i].s] = "none"
    /\ \A k \in 1..Len(queue): answer[queue[k]] = "none"
    /\ deferred # 0 => answer[deferred] = "none"
    /\ active.phase \in {"reading", "wire"} => answer[active.s] = "none"
    /\ active.phase \in {"wire", "ending"} => kind[active.s] # "probe"
    /\ active.phase = "ending" => settled
    /\ open => coord = "run"
    /\ closed => ~open
    /\ busy # Free => Escaped(busy.s)

SeqInv == Sequential => Sorted /\ Views /\ Unanswered

-----------------------------------------------------------------------------
(* Facts about slots, parts and sequences *)

\* A slot is free or holds a substream.
LEMMA SlotFacts ==
    /\ Free.s = 0 /\ Free.phase = "none" /\ 0 \notin Streams
    /\ Streams \subseteq Int /\ \A s \in Streams: s > 0
    /\ \A x \in Slots: x # Free /\ x.s \in Streams /\ x.phase \in {"reading", "wire", "ending"}
    /\ \A s \in Streams: Serving(s) \in Slots /\ Serving(s).s = s /\ Serving(s).phase = "reading"
    /\ \A x \in Slots: \A ph \in {"reading", "wire", "ending"}:
          /\ [x EXCEPT !.phase = ph] \in Slots
          /\ [x EXCEPT !.phase = ph].s = x.s /\ [x EXCEPT !.phase = ph].phase = ph
BY SessionsAssumption DEF Free, Slots, Serving, Streams

\* The parts the controller writes.
LEMMA PartFacts ==
    /\ \A p \in Parts: p.s \in Streams /\ p.what \in {"open", "first", "last"} /\ p = Part(p.s, p.what)
    /\ \A s \in Streams, w \in {"open", "first", "last"}:
          Part(s, w) \in Parts /\ Part(s, w).s = s /\ Part(s, w).what = w
BY DEF Parts, Part

\* A sequence without its i-th element.
LEMMA WithoutFacts ==
    ASSUME NEW S, NEW q \in Seq(S), NEW i \in 1..Len(q)
    PROVE  /\ Without(q, i) \in Seq(S)
           /\ Len(Without(q, i)) = Len(q) - 1
           /\ \A j \in 1..(Len(q) - 1): Without(q, i)[j] = IF j < i THEN q[j] ELSE q[j + 1]
<1>0. Len(q) \in Nat /\ i \in Nat /\ 1 <= i /\ i <= Len(q)
  OBVIOUS
<1> DEFINE a == SubSeq(q, 1, i - 1)
           b == SubSeq(q, i + 1, Len(q))
<1>1. a \in Seq(S) /\ Len(a) = i - 1 /\ \A j \in 1..(i - 1): a[j] = q[j]
  BY <1>0
<1>2. b \in Seq(S) /\ Len(b) = Len(q) - i /\ \A j \in 1..(Len(q) - i): b[j] = q[i + j]
  BY <1>0
<1>3. Without(q, i) = a \o b
  BY DEF Without
<1> HIDE DEF a, b
<1>4. a \o b \in Seq(S) /\ Len(a \o b) = Len(q) - 1
  <2>1. a \o b \in Seq(S) /\ Len(a \o b) = Len(a) + Len(b)
    BY <1>1, <1>2, ConcatProperties
  <2> QED BY <1>0, <1>1, <1>2, <2>1
<1>5. ASSUME NEW j \in 1..(Len(q) - 1)
      PROVE  (a \o b)[j] = IF j < i THEN q[j] ELSE q[j + 1]
  <2>1. CASE j < i
    BY <1>0, <1>1, <1>2, <2>1
  <2>2. CASE ~(j < i)
    <3>1. (a \o b)[j] = b[j - (i - 1)]
      BY <1>0, <1>1, <1>2, <2>2
    <3>2. b[j - (i - 1)] = q[i + (j - (i - 1))]
      BY <1>0, <1>2, <2>2
    <3> QED BY <1>0, <2>2, <3>1, <3>2
  <2> QED BY <2>1, <2>2
<1> QED BY <1>3, <1>4, <1>5

\* A sequence with one more element.
LEMMA AppendFacts ==
    ASSUME NEW S, NEW q \in Seq(S), NEW e \in S
    PROVE  /\ Append(q, e) \in Seq(S)
           /\ Len(Append(q, e)) = Len(q) + 1 /\ Len(q) \in Nat
           /\ Append(q, e)[Len(q) + 1] = e
           /\ \A j \in 1..Len(q): Append(q, e)[j] = q[j]
OBVIOUS

\* The two parts of an opened substream, one after the other.
LEMMA OpenParts ==
    ASSUME NEW q \in Seq(Parts), NEW s \in Streams
    PROVE  q \o <<Part(s, "open"), Part(s, "first")>>
             = Append(Append(q, Part(s, "open")), Part(s, "first"))
<1>1. Part(s, "open") \in Parts /\ Part(s, "first") \in Parts
  BY PartFacts
<1> QED BY <1>1

-----------------------------------------------------------------------------
(* The audit record *)

\* Nothing has been opened, taken or recorded.
LEMMA InitSub == ASSUME Init PROVE SubInv
<1>1. given \in Sessions
  BY DEF Init
<1>2. TypeOK
  <2>1. /\ kind \in [Streams -> Kinds \cup {"none"}]
        /\ view \in [Streams -> {"none", "open", "closed", "settled", "committed", "cancelled"}]
        /\ got \in [Streams -> SUBSET {"first", "last"}]
        /\ answer \in [Streams -> {"none", "dropped", "closed", "ended", "busy"}]
    BY DEF Init
  <2>2. deferred \in 0..MaxStreams
    BY SessionsAssumption DEF Init
  <2>3. net \in Seq(Parts) /\ queue \in Seq(Streams) /\ Len(queue) <= 1 /\ log \in Seq(Records)
    BY DEF Init
  <2>4. /\ open \in BOOLEAN /\ settled \in BOOLEAN /\ closed \in BOOLEAN
        /\ active \in {Free} \cup Slots /\ busy \in {Free} \cup Slots
        /\ coord \in {"run", "failed", "ended"}
    BY DEF Init
  <2> QED BY <1>1, <2>1, <2>2, <2>3, <2>4 DEF TypeOK
<1>3. OnePlace
  BY SlotFacts DEF Init, OnePlace
<1>4. RecordOpen /\ RecordsInOrder
  BY DEF Init, RecordOpen, RecordsInOrder
<1> QED BY <1>2, <1>3, <1>4 DEF SubInv, Opened, Init

\* What has arrived is not on its way any more.
LEMMA NetWithout ==
    ASSUME net \in Seq(Parts), NEW i \in 1..Len(net), net' = Without(net, i)
    PROVE  /\ Len(net') = Len(net) - 1 /\ Len(net) \in Nat
           /\ \A j \in 1..(Len(net) - 1): net'[j] = IF j < i THEN net[j] ELSE net[j + 1]
<1>1. Len(net) \in Nat
  OBVIOUS
<1>2. Len(net') = Len(net) - 1 /\ \A j \in 1..(Len(net) - 1): net'[j] = IF j < i THEN net[j] ELSE net[j + 1]
  BY WithoutFacts
<1> QED BY <1>1, <1>2

\* A step that leaves the coordinator's slots and the record alone, opens no
\* substream, and takes away from what is on its way or waits in the channel.
LEMMA FewerPlaces ==
    ASSUME TypeOK, OnePlace, UNCHANGED <<kind, active, busy, deferred, log, queue>>,
           NEW i \in 1..Len(net), net' = Without(net, i)
    PROVE  OnePlace'
<1>1. /\ Len(net') = Len(net) - 1 /\ Len(net) \in Nat
      /\ \A j \in 1..(Len(net) - 1): net'[j] = IF j < i THEN net[j] ELSE net[j + 1]
  <2>1. net \in Seq(Parts)
    BY DEF TypeOK
  <2> QED BY <2>1, NetWithout, Zenon
<1>2. \A j \in 1..Len(net'): \E m \in 1..Len(net): net'[j] = net[m] /\ m = IF j < i THEN j ELSE j + 1
  BY <1>1
<1> QED BY <1>1, <1>2 DEF OnePlace, Unserved

\* A part of an opened substream other than its opening is written.
LEMMA MoreParts ==
    ASSUME TypeOK, OnePlace, UNCHANGED <<kind, active, busy, deferred, log, queue>>,
           NEW s \in Streams, kind[s] # "none", NEW w \in {"first", "last"},
           net' = Append(net, Part(s, w))
    PROVE  OnePlace'
<1>1. /\ Len(net') = Len(net) + 1 /\ Len(net) \in Nat
      /\ net'[Len(net) + 1] = Part(s, w) /\ \A j \in 1..Len(net): net'[j] = net[j]
  BY PartFacts, AppendFacts DEF TypeOK
<1>2. Part(s, w).s = s /\ Part(s, w).what # "open"
  BY PartFacts
<1> QED BY <1>1, <1>2 DEF OnePlace, Unserved

\* A new substream: nothing of it is anywhere yet.
LEMMA NewSubstream ==
    ASSUME TypeOK, OnePlace, UNCHANGED <<active, busy, deferred, log, queue>>,
           NEW s \in Streams, kind[s] = "none", NEW k \in Kinds, kind' = [kind EXCEPT ![s] = k],
           NEW n \in Nat, Len(net') = n, n > Len(net),
           \A j \in 1..Len(net): net'[j] = net[j],
           net'[Len(net) + 1] = Part(s, "open"),
           \A j \in 1..n: j > Len(net) + 1 => net'[j] = Part(s, "first")
    PROVE  OnePlace' /\ kind' \in [Streams -> Kinds \cup {"none"}]
<1>1. kind' \in [Streams -> Kinds \cup {"none"}] /\ kind'[s] # "none"
      /\ \A t \in Streams: kind[t] # "none" => kind'[t] # "none"
  BY DEF TypeOK, Kinds
<1>2. Len(net) \in Nat
  BY DEF TypeOK
<1>3. /\ Part(s, "open").s = s /\ Part(s, "first").s = s
      /\ Part(s, "first").what = "first" /\ Part(s, "open").what = "open"
  BY PartFacts
<1>4. /\ \A j \in 1..Len(net): net[j].s # s /\ net[j].s \in Streams
      /\ \A m \in 1..Len(queue): queue[m] # s /\ queue[m] \in Streams
      /\ deferred # s /\ active.s # s
      /\ \A m \in 1..Len(log): log[m].s # s /\ log[m].s \in Streams
      /\ (deferred # 0 => deferred \in Streams)
      /\ (active # Free => active.s \in Streams) /\ (busy # Free => busy.s \in Streams)
  <2>1. log \in Seq(Records) /\ \A r \in Records: r.s \in Streams
    BY DEF TypeOK, Records
  <2>2. deferred # 0 => deferred \in Streams
    BY SessionsAssumption DEF TypeOK, Streams
  <2> QED BY <2>1, <2>2, SlotFacts, PartFacts DEF OnePlace, TypeOK
<1>5. \A t: Unserved(t)' <=> Unserved(t)
  BY DEF Unserved
<1>6. \A j \in 1..n: j \in 1..Len(net) \/ j = Len(net) + 1 \/ (j > Len(net) + 1 /\ j \in 1..n)
  BY <1>2
<1>7. ASSUME NEW j \in 1..n
      PROVE  /\ kind'[net'[j].s] # "none"
             /\ net'[j].what = "open" =>
                  /\ Unserved(net'[j].s) /\ net'[j].s # deferred
                  /\ \A m \in 1..Len(queue): queue[m] # net'[j].s
                  /\ \A m \in 1..n: net'[m] = net'[j] => j = m
  <2>1. CASE j \in 1..Len(net)
    <3>1. net'[j] = net[j] /\ net[j].s # s /\ kind'[net[j].s] # "none"
      BY <1>1, <1>4, <2>1 DEF OnePlace
    <3>2. \A m \in 1..n: net'[m] = net'[j] => m \in 1..Len(net)
      BY <1>3, <1>6, <3>1
    <3>3. \A m \in 1..n: net'[m] = net'[j] => net[m] = net[j] /\ m \in 1..Len(net)
      BY <3>1, <3>2
    <3> QED BY <2>1, <3>1, <3>3 DEF OnePlace
  <2>2. CASE j = Len(net) + 1
    <3>1. net'[j] = Part(s, "open") /\ net'[j].s = s
      BY <1>3, <2>2
    <3>2. \A m \in 1..n: net'[m] = net'[j] => m = Len(net) + 1
      BY <1>3, <1>4, <1>6, <3>1
    <3> QED BY <1>1, <1>4, <2>2, <3>1, <3>2 DEF Unserved
  <2>3. CASE j > Len(net) + 1
    BY <1>1, <1>3, <2>3
  <2> QED BY <1>6, <2>1, <2>2, <2>3
<1>8. OnePlace'
  BY <1>1, <1>4, <1>5, <1>7 DEF OnePlace
<1> QED BY <1>1, <1>8

\* The controller and the bridge leave the slots and the record alone.
LEMMA PeerSub ==
    ASSUME SubInv, Controller \/ Arrives \/ Readable \/ Closing, UNCHANGED given
    PROVE  SubInv'
<1>0. TypeOK /\ Opened /\ OnePlace /\ net \in Seq(Parts) /\ queue \in Seq(Streams)
  BY DEF SubInv, TypeOK
<1>1. UNCHANGED coordVars
  BY DEF Controller, OpenSubstream, OpenSilently, ReadsEnd, Leaves, Arrives, Readable, Closing
<1>2. UNCHANGED <<active, settled, busy, deferred, closed, coord, log>>
  BY <1>1 DEF coordVars
<1>3. RecordOpen' /\ RecordsInOrder'
  BY <1>2 DEF SubInv, RecordOpen, RecordsInOrder
<1>4. ASSUME /\ kind' \in [Streams -> Kinds \cup {"none"}]
             /\ view' \in [Streams -> {"none", "open", "closed", "settled", "committed", "cancelled"}]
             /\ net' \in Seq(Parts)
             /\ got' \in [Streams -> SUBSET {"first", "last"}]
             /\ answer' \in [Streams -> {"none", "dropped", "closed", "ended", "busy"}]
             /\ queue' \in Seq(Streams) /\ Len(queue') <= 1
             /\ open' \in BOOLEAN
      PROVE  TypeOK'
  BY <1>0, <1>2, <1>4 DEF TypeOK
<1>5. CASE OpenSubstream
  <2>1. PICK s \in Streams, k \in given.kinds :
          /\ kind[s] = "none"
          /\ kind' = [kind EXCEPT ![s] = k]
          /\ view' = [view EXCEPT ![s] = IF k = "probe" THEN "closed" ELSE "open"]
          /\ net' = net \o <<Part(s, "open"), Part(s, "first")>>
          /\ UNCHANGED <<got, answer, queue, open>>
    <3>1. \A s \in Streams : s >= s
      BY SlotFacts
    <3> QED BY <1>5, <3>1 DEF OpenSubstream
  <2>2. k \in Kinds /\ k # "none"
    BY <1>0, SessionsAssumption DEF TypeOK, Kinds
  <2>3. PICK q : q = Append(net, Part(s, "open"))
    OBVIOUS
  <2>4. /\ q \in Seq(Parts) /\ Len(net) \in Nat /\ Len(q) = Len(net) + 1
        /\ q[Len(net) + 1] = Part(s, "open") /\ \A j \in 1..Len(net): q[j] = net[j]
    BY <1>0, <2>3, PartFacts, AppendFacts
  <2>5. net' = Append(q, Part(s, "first"))
    BY <1>0, <2>1, <2>3, OpenParts
  <2>6. /\ net' \in Seq(Parts) /\ Len(net') = Len(q) + 1 /\ net'[Len(q) + 1] = Part(s, "first")
        /\ \A j \in 1..Len(q): net'[j] = q[j]
    BY <2>4, <2>5, PartFacts, AppendFacts
  <2>7. /\ Len(net') = Len(net) + 2 /\ Len(net) + 2 \in Nat /\ Len(net) + 2 > Len(net)
        /\ \A j \in 1..Len(net): net'[j] = net[j]
        /\ net'[Len(net) + 1] = Part(s, "open")
        /\ \A j \in 1..(Len(net) + 2): j > Len(net) + 1 => net'[j] = Part(s, "first")
    BY <2>4, <2>6
  <2>8. OnePlace' /\ kind' \in [Streams -> Kinds \cup {"none"}]
    BY <1>0, <1>2, <2>1, <2>2, <2>7, NewSubstream
  <2>9. TypeOK'
    BY <1>0, <1>4, <2>1, <2>6, <2>8 DEF TypeOK
  <2>10. Opened'
    BY <1>0, <2>1, <2>2 DEF TypeOK, Opened
  <2> QED BY <1>3, <2>8, <2>9, <2>10 DEF SubInv
<1>6. CASE OpenSilently
  <2>1. PICK s \in Streams :
          /\ kind[s] = "none"
          /\ kind' = [kind EXCEPT ![s] = "silent"]
          /\ view' = [view EXCEPT ![s] = "open"]
          /\ net' = Append(net, Part(s, "open"))
          /\ UNCHANGED <<got, answer, queue, open>>
    <3>1. \A s \in Streams : s >= s
      BY SlotFacts
    <3> QED BY <1>6, <3>1 DEF OpenSilently
  <2>2. "silent" \in Kinds
    BY DEF Kinds
  <2>3. /\ net' \in Seq(Parts) /\ Len(net) \in Nat /\ Len(net') = Len(net) + 1
        /\ net'[Len(net) + 1] = Part(s, "open") /\ \A j \in 1..Len(net): net'[j] = net[j]
    BY <1>0, <2>1, PartFacts, AppendFacts
  <2>4. /\ Len(net) + 1 \in Nat /\ Len(net) + 1 > Len(net)
        /\ \A j \in 1..(Len(net) + 1): j > Len(net) + 1 => net'[j] = Part(s, "first")
    BY <2>3
  <2>5. OnePlace' /\ kind' \in [Streams -> Kinds \cup {"none"}]
    BY <1>0, <1>2, <2>1, <2>2, <2>3, <2>4, NewSubstream
  <2>6. TypeOK'
    BY <1>0, <1>4, <2>1, <2>3, <2>5 DEF TypeOK
  <2>7. Opened'
    BY <1>0, <2>1 DEF TypeOK, Opened
  <2> QED BY <1>3, <2>5, <2>6, <2>7 DEF SubInv
<1>7. ASSUME NEW s \in Streams, ReadsEnd(s)
      PROVE  SubInv'
  <2>1. /\ view' = [view EXCEPT ![s] = "settled"] /\ view[s] = "open"
        /\ UNCHANGED <<kind, net, got, answer, queue, open>>
    BY <1>7 DEF ReadsEnd
  <2>2. TypeOK' /\ Opened'
    BY <1>0, <1>4, <2>1 DEF TypeOK, Opened
  <2>3. OnePlace'
    BY <1>0, <1>2, <2>1 DEF OnePlace, Unserved
  <2> QED BY <1>3, <2>2, <2>3 DEF SubInv
<1>8. ASSUME NEW s \in Streams, NEW how \in {"committed", "cancelled"}, Leaves(s, how)
      PROVE  SubInv'
  <2>1. /\ view' = [view EXCEPT ![s] = how] /\ view[s] = "open"
        /\ net' = Append(net, Part(s, "last"))
        /\ UNCHANGED <<kind, got, answer, queue, open>>
    BY <1>8 DEF Leaves
  <2>2. net' \in Seq(Parts) /\ kind[s] # "none"
    BY <1>0, <2>1, PartFacts, AppendFacts DEF Opened
  <2>3. TypeOK' /\ Opened'
    BY <1>0, <1>4, <2>1, <2>2 DEF TypeOK, Opened
  <2>4. OnePlace'
    BY <1>0, <1>2, <2>1, <2>2, MoreParts
  <2> QED BY <1>3, <2>3, <2>4 DEF SubInv
<1>9. CASE Readable
  <2>1. PICK i \in 1..Len(net) :
          /\ net[i].what # "open" /\ net' = Without(net, i)
          /\ got' = [got EXCEPT ![net[i].s] = @ \cup {net[i].what}]
          /\ UNCHANGED <<kind, view, answer, queue, open>>
    BY <1>9 DEF Readable, Deliverable
  <2>2. net' \in Seq(Parts) /\ net[i] \in Parts
    BY <1>0, <2>1, WithoutFacts
  <2>3. net[i].s \in Streams /\ net[i].what \in {"first", "last"}
    BY <2>1, <2>2, PartFacts
  <2>4. got' \in [Streams -> SUBSET {"first", "last"}]
    BY <1>0, <2>1, <2>3 DEF TypeOK
  <2>5. TypeOK' /\ Opened'
    BY <1>0, <1>4, <2>1, <2>2, <2>4 DEF TypeOK, Opened
  <2>6. OnePlace'
    BY <1>0, <1>2, <2>1, FewerPlaces
  <2> QED BY <1>3, <2>5, <2>6 DEF SubInv
<1>10. CASE Arrives
  <2>1. PICK i \in 1..Len(net) :
          /\ net[i].what = "open" /\ net' = Without(net, i)
          /\ LET kept == open /\ coord = "run" /\ Len(queue) < 1 IN
             /\ queue' = IF kept THEN Append(queue, net[i].s) ELSE queue
             /\ answer' = IF kept THEN answer ELSE [answer EXCEPT ![net[i].s] = "dropped"]
          /\ UNCHANGED <<kind, view, got, open>>
    BY <1>10 DEF Arrives, Deliverable
  <2>2. net' \in Seq(Parts) /\ net[i] \in Parts
    BY <1>0, <2>1, WithoutFacts
  <2>3. net[i].s \in Streams
    BY <2>2, PartFacts
  <2>4. queue' \in Seq(Streams) /\ Len(queue') <= 1
    BY <1>0, <2>1, <2>3 DEF TypeOK
  <2>5. answer' \in [Streams -> {"none", "dropped", "closed", "ended", "busy"}]
    BY <1>0, <2>1, <2>3 DEF TypeOK
  <2>6. TypeOK' /\ Opened'
    BY <1>0, <1>4, <2>1, <2>2, <2>4, <2>5 DEF TypeOK, Opened
  <2>7. CASE queue' = queue
    BY <1>0, <1>2, <1>3, <2>1, <2>6, <2>7, FewerPlaces DEF SubInv
  <2>8. CASE Len(queue) < 1 /\ queue' = Append(queue, net[i].s)
    <3>1. Len(queue') = 1 /\ queue'[1] = net[i].s
      BY <1>0, <2>8
    <3>2. /\ Len(net') = Len(net) - 1 /\ Len(net) \in Nat
          /\ \A j \in 1..(Len(net) - 1): net'[j] = IF j < i THEN net[j] ELSE net[j + 1]
      <4>1. net \in Seq(Parts) /\ net' = Without(net, i)
        BY <1>0, <2>1
      <4> QED BY <4>1, NetWithout, Zenon
    <3>3. \A j \in 1..Len(net'): \E m \in 1..Len(net) \ {i}: net'[j] = net[m] /\ m = IF j < i THEN j ELSE j + 1
      BY <3>2
    <3>4. \A m \in 1..Len(net) \ {i}: net[m].what = "open" => net[m].s # net[i].s
      <4>1. \A m \in 1..Len(net): net[m] = Part(net[m].s, net[m].what)
        BY <1>0, PartFacts
      <4> QED BY <1>0, <2>1, <4>1 DEF OnePlace
    <3>5. OnePlace'
      <4>1. UNCHANGED <<kind, active, busy, deferred, log>> /\ \A t: Unserved(t)' <=> Unserved(t)
        BY <1>2, <2>1 DEF Unserved
      <4>2. \A k \in 1..Len(queue'): queue'[k] = net[i].s
        BY <3>1
      <4>3. ASSUME NEW j \in 1..Len(net')
            PROVE  /\ kind[net'[j].s] # "none"
                   /\ net'[j].what = "open" =>
                        /\ Unserved(net'[j].s) /\ net'[j].s # deferred /\ net'[j].s # net[i].s
                        /\ \A k \in 1..Len(net'): net'[k] = net'[j] => j = k
        <5>1. PICK m \in 1..Len(net) \ {i} : net'[j] = net[m] /\ m = IF j < i THEN j ELSE j + 1
          BY <3>3
        <5>2. \A k \in 1..Len(net'): \E l \in 1..Len(net): net'[k] = net[l] /\ (l = m => k = j)
          <6> SUFFICES ASSUME NEW k \in 1..Len(net')
                       PROVE  \E l \in 1..Len(net): net'[k] = net[l] /\ (l = m => k = j)
            OBVIOUS
          <6>1. PICK l \in 1..Len(net) \ {i} : net'[k] = net[l] /\ l = IF k < i THEN k ELSE k + 1
            BY <3>3
          <6>2. j \in Int /\ k \in Int /\ i \in Int
            BY <3>2
          <6>3. l = m => k = j
            BY <5>1, <6>1, <6>2
          <6> QED BY <6>1, <6>3
        <5>3. \A l \in 1..Len(net): net[m].what = "open" /\ net[l] = net[m] => l = m
          BY <1>0, <5>1 DEF OnePlace
        <5>4. net'[j].what = "open" => \A k \in 1..Len(net'): net'[k] = net'[j] => j = k
          BY <5>1, <5>2, <5>3
        <5> QED BY <1>0, <3>4, <5>1, <5>4 DEF OnePlace
      <4>4. /\ kind[net[i].s] # "none" /\ Unserved(net[i].s) /\ net[i].s # deferred
        BY <1>0, <2>1 DEF OnePlace
      <4> QED BY <1>0, <4>1, <4>2, <4>3, <4>4 DEF OnePlace
    <3> QED BY <1>3, <2>6, <3>5 DEF SubInv
  <2> QED BY <2>1, <2>7, <2>8
<1>11. CASE Closing
  <2>1. open' = FALSE /\ UNCHANGED <<kind, view, net, got, answer, queue>>
    BY <1>11 DEF Closing, peerVars
  <2>2. TypeOK' /\ Opened'
    BY <1>0, <1>4, <2>1 DEF TypeOK, Opened
  <2>3. OnePlace'
    BY <1>0, <1>2, <2>1 DEF OnePlace, Unserved
  <2> QED BY <1>3, <2>2, <2>3 DEF SubInv
<1> QED BY <1>5, <1>6, <1>7, <1>8, <1>9, <1>10, <1>11 DEF Controller

\* The coordinator serves, releases and records the active substream, or takes
\* the one kept for hand-off: no substream comes to a second place.
LEMMA SlotPlaces ==
    ASSUME TypeOK, OnePlace, UNCHANGED <<kind, net>>,
           queue' = queue \/ queue' = <<>>, busy' \in {busy, Free},
           \/ active' \in {Free} \cup Slots /\ active'.s \in {0, active.s} /\ deferred' \in {deferred, 0}
           \/ deferred # 0 /\ active' = Serving(deferred) /\ deferred' = 0,
           \/ log' = log
           \/ /\ active # Free
              /\ \E w \in {"start", "end"}: log' = Append(log, [s |-> active.s, what |-> w])
    PROVE  OnePlace' /\ log' \in Seq(Records)
<1>1. /\ log \in Seq(Records) /\ Len(log) \in Nat /\ (active # Free => active.s \in Streams)
      /\ (deferred # 0 => deferred \in Streams)
  BY SlotFacts, SessionsAssumption DEF TypeOK, Streams
<1>2. /\ log' \in Seq(Records)
      /\ \A i \in 1..Len(log'): \/ i \in 1..Len(log) /\ log'[i] = log[i]
                                \/ active # Free /\ log'[i].s = active.s
  <2>1. CASE log' = log
    BY <1>1, <2>1
  <2>2. CASE active # Free /\ \E w \in {"start", "end"}: log' = Append(log, [s |-> active.s, what |-> w])
    <3>1. PICK w \in {"start", "end"} : log' = Append(log, [s |-> active.s, what |-> w])
      BY <2>2
    <3>2. [s |-> active.s, what |-> w] \in Records
      BY <1>1, <2>2 DEF Records
    <3>3. PICK r \in Records : r = [s |-> active.s, what |-> w]
      BY <3>2
    <3>4. r.s = active.s /\ log' = Append(log, r)
      BY <3>1, <3>3
    <3> HIDE DEF Records
    <3>5. /\ Append(log, r) \in Seq(Records) /\ Len(Append(log, r)) = Len(log) + 1
          /\ Append(log, r)[Len(log) + 1] = r
          /\ \A j \in 1..Len(log): Append(log, r)[j] = log[j]
      BY <1>1, AppendFacts
    <3> QED BY <1>1, <2>2, <3>4, <3>5
  <2> QED BY <2>1, <2>2
<1>3. \A k \in 1..Len(queue'): k \in 1..Len(queue) /\ queue'[k] = queue[k]
  OBVIOUS
<1>4. ASSUME NEW t, t # 0, Unserved(t), t # deferred \/ deferred' = deferred
      PROVE  Unserved(t)'
  <2>1. t # active'.s
    BY <1>4, <1>1, SlotFacts DEF Unserved
  <2> QED BY <1>2, <1>4, <2>1 DEF Unserved
<1>5. /\ \A i \in 1..Len(net): net[i].s # 0
      /\ \A k \in 1..Len(queue): queue[k] # 0
  BY SlotFacts, PartFacts DEF TypeOK
<1>6. \A i \in 1..Len(log'): kind[log'[i].s] # "none"
  BY <1>2 DEF OnePlace
<1>7. /\ (active' # Free => kind[active'.s] # "none") /\ (busy' # Free => kind[busy'.s] # "none")
  BY <1>1, SlotFacts DEF OnePlace, TypeOK
<1>8. OnePlace'
  BY <1>3, <1>4, <1>5, <1>6, <1>7 DEF OnePlace
<1> QED BY <1>2, <1>8

\* The record when nothing is appended to it.
LEMMA RecordQuiet ==
    ASSUME SubInv, log' = log,
           \/ coord' # "run"
           \/ /\ coord = "run" /\ coord' = coord
              /\ \/ active'.s = active.s
                    /\ (active.phase \in {"wire", "ending"} => active'.phase \in {"wire", "ending"})
                 \/ active.phase \notin {"wire", "ending"} /\ (active'.s = 0 \/ Unserved(active'.s))
    PROVE  RecordOpen' /\ RecordsInOrder'
<1>1. RecordsInOrder'
  BY DEF SubInv, RecordsInOrder
<1>2. log \in Seq(Records) /\ \A i \in 1..Len(log): log[i].s # 0
  <2>1. \A r \in Records: r.s # 0
    BY SlotFacts DEF Records
  <2> QED BY <2>1 DEF SubInv, TypeOK
<1>3. RecordOpen'
  BY <1>2 DEF SubInv, RecordOpen, Unserved
<1> QED BY <1>1, <1>3

\* Odd and even lengths alternate.
LEMMA Parity ==
    \A n \in Nat: /\ n % 2 \in {0, 1}
                  /\ n % 2 = 0 => (n + 1) % 2 = 1 /\ ~(n % 2 = 1)
                  /\ n % 2 = 1 => (n + 1) % 2 = 0
OBVIOUS

\* The start of the active transfer is recorded.
LEMMA RecordStart ==
    ASSUME SubInv, coord = "run", active # Free, active.phase = "reading" \/ ~Recorded(active.s),
           log' = Append(log, [s |-> active.s, what |-> "start"]),
           active'.s = active.s, active'.phase = "wire"
    PROVE  RecordOpen' /\ RecordsInOrder'
<1>1. active \in Slots /\ active.s \in Streams /\ log \in Seq(Records) /\ Len(log) \in Nat
  BY SlotFacts DEF SubInv, TypeOK
<1>2. PICK r \in Records : r = [s |-> active.s, what |-> "start"]
  BY <1>1 DEF Records
<1>3. r.s = active.s /\ r.what = "start" /\ log' = Append(log, r)
  BY <1>2
<1>4. /\ Len(log') = Len(log) + 1 /\ log'[Len(log) + 1] = r /\ \A j \in 1..Len(log): log'[j] = log[j]
  BY <1>1, <1>3, AppendFacts
<1>5. Len(log) % 2 = 0
  <2>1. SUFFICES ASSUME Len(log) % 2 = 1 PROVE FALSE
    BY <1>1
  <2>2. active.phase \in {"wire", "ending"} /\ log[Len(log)] = [s |-> active.s, what |-> "start"]
    BY <2>1 DEF SubInv, RecordOpen
  <2>3. Len(log) \in 1..Len(log)
    BY <1>1, <2>1
  <2> QED BY <2>2, <2>3 DEF Recorded
<1>6. RecordsInOrder'
  <2>1. \A i \in 1..Len(log'): log'[i].what = IF i % 2 = 1 THEN "start" ELSE "end"
    <3> SUFFICES ASSUME NEW i \in 1..Len(log')
                 PROVE  log'[i].what = IF i % 2 = 1 THEN "start" ELSE "end"
      OBVIOUS
    <3>1. CASE i \in 1..Len(log)
      BY <1>4, <3>1 DEF SubInv, RecordsInOrder
    <3>2. CASE i = Len(log) + 1
      BY <1>1, <1>3, <1>4, <1>5, <3>2, Parity
    <3> QED BY <1>1, <1>4, <3>1, <3>2
  <2>2. \A i \in 1..Len(log'): i % 2 = 0 => log'[i].s = log'[i - 1].s
    <3> SUFFICES ASSUME NEW i \in 1..Len(log'), i % 2 = 0 PROVE log'[i].s = log'[i - 1].s
      OBVIOUS
    <3>1. i \in 1..Len(log) /\ i - 1 \in 1..Len(log)
      BY <1>1, <1>4, <1>5
    <3> QED BY <1>4, <3>1 DEF SubInv, RecordsInOrder
  <2> QED BY <2>1, <2>2 DEF RecordsInOrder
<1>7. RecordOpen'
  <2>1. Len(log') % 2 = 1
    BY <1>1, <1>4, <1>5
  <2>2. log'[Len(log')] = [s |-> active'.s, what |-> "start"]
    BY <1>2, <1>4
  <2> QED BY <2>1, <2>2 DEF RecordOpen
<1> QED BY <1>6, <1>7

\* The active transfer is over: its end is recorded when its start was.
LEMMA RecordEnd ==
    ASSUME SubInv, coord = "run", active.phase = "ending",
           log' = IF Recorded(active.s)
                  THEN Append(log, [s |-> active.s, what |-> "end"]) ELSE log,
           active'.s = 0 \/ (Unserved(active'.s) /\ active'.s \in Streams)
    PROVE  RecordOpen' /\ RecordsInOrder'
<1>1. active \in Slots /\ active.s \in Streams /\ log \in Seq(Records) /\ Len(log) \in Nat
  BY SlotFacts DEF SubInv, TypeOK
<1>a. active'.s # active.s /\ \A j \in 1..Len(log): log[j].s # active'.s
  <2>1. \A r \in Records: r.s # 0
    BY SlotFacts DEF Records
  <2> QED BY <1>1, <2>1, SlotFacts DEF Unserved
<1>2. CASE Len(log) % 2 = 0
  <2>1. \A i \in 1..Len(log): log[i].s # active.s
    BY <1>2, <1>1 DEF SubInv, RecordOpen
  <2>2. ~Recorded(active.s)
    <3>1. [s |-> active.s, what |-> "start"].s = active.s
      OBVIOUS
    <3> QED BY <2>1, <3>1 DEF Recorded
  <2> QED BY <1>1, <1>2, <1>a, <2>2 DEF SubInv, RecordOpen, RecordsInOrder
<1>3. CASE Len(log) % 2 = 1
  <2>1. log[Len(log)] = [s |-> active.s, what |-> "start"] /\ Len(log) \in 1..Len(log)
    BY <1>1, <1>3, SMTT(40) DEF SubInv, RecordOpen
  <2>2. Recorded(active.s) /\ log[Len(log)].s = active.s
    BY <2>1 DEF Recorded
  <2>3. PICK r \in Records : r = [s |-> active.s, what |-> "end"]
    BY <1>1 DEF Records
  <2>4. r.s = active.s /\ r.what = "end" /\ log' = Append(log, r)
    BY <2>2, <2>3
  <2>5. /\ Len(log') = Len(log) + 1 /\ log'[Len(log) + 1] = r /\ \A j \in 1..Len(log): log'[j] = log[j]
    BY <1>1, <2>4, AppendFacts
  <2>6. RecordsInOrder'
    <3>1. \A i \in 1..Len(log'): log'[i].what = IF i % 2 = 1 THEN "start" ELSE "end"
      <4> SUFFICES ASSUME NEW i \in 1..Len(log')
                   PROVE  log'[i].what = IF i % 2 = 1 THEN "start" ELSE "end"
        OBVIOUS
      <4>1. CASE i \in 1..Len(log)
        BY <2>5, <4>1 DEF SubInv, RecordsInOrder
      <4>2. CASE i = Len(log) + 1
        BY <1>1, <1>3, <2>4, <2>5, <4>2, Parity
      <4> QED BY <1>1, <2>5, <4>1, <4>2
    <3>2. \A i \in 1..Len(log'): i % 2 = 0 => log'[i].s = log'[i - 1].s
      <4> SUFFICES ASSUME NEW i \in 1..Len(log'), i % 2 = 0 PROVE log'[i].s = log'[i - 1].s
        OBVIOUS
      <4>1. CASE i \in 1..Len(log)
        <5>1. i - 1 \in 1..Len(log)
          BY <1>1, <4>1
        <5> QED BY <2>5, <4>1, <5>1 DEF SubInv, RecordsInOrder
      <4>2. CASE i = Len(log) + 1
        <5>1. i - 1 = Len(log) /\ log'[i - 1] = log[Len(log)]
          BY <1>1, <2>1, <2>5, <4>2
        <5> QED BY <2>2, <2>4, <2>5, <4>2, <5>1
      <4> QED BY <1>1, <2>5, <4>1, <4>2
    <3> QED BY <3>1, <3>2 DEF RecordsInOrder
  <2>7. RecordOpen'
    <3>1. PICK m \in Nat : m = Len(log') /\ m % 2 = 0
      BY <1>1, <1>3, <2>5, Parity
    <3>2. \A i \in 1..Len(log'): log'[i].s # active'.s
      BY <1>1, <1>a, <2>4, <2>5
    <3>3. ~(m % 2 = 1)
      BY <3>1, Parity, Zenon
    <3> QED BY <3>1, <3>2, <3>3, Zenon DEF RecordOpen
  <2> QED BY <2>6, <2>7
<1> QED BY <1>1, <1>2, <1>3, Parity

\* What a step of the coordinator on its slots has to show.
LEMMA SlotSub ==
    ASSUME SubInv, UNCHANGED <<given, kind, view, net, got>>,
           answer' \in [Streams -> {"none", "dropped", "closed", "ended", "busy"}],
           queue' = queue \/ queue' = <<>>, busy' \in {busy, Free},
           open' \in BOOLEAN, settled' \in BOOLEAN, closed' \in BOOLEAN,
           coord' \in {"run", "failed", "ended"},
           \/ active' \in {Free} \cup Slots /\ active'.s \in {0, active.s} /\ deferred' \in {deferred, 0}
           \/ deferred # 0 /\ active' = Serving(deferred) /\ deferred' = 0,
           \/ log' = log
           \/ /\ active # Free
              /\ \E w \in {"start", "end"}: log' = Append(log, [s |-> active.s, what |-> w]),
           RecordOpen', RecordsInOrder'
    PROVE  SubInv'
<1>1. TypeOK /\ OnePlace /\ Opened
  BY DEF SubInv
<1>2. OnePlace' /\ log' \in Seq(Records)
  BY <1>1, SlotPlaces
<1>3. /\ active' \in {Free} \cup Slots /\ busy' \in {Free} \cup Slots /\ deferred' \in 0..MaxStreams
      /\ 0 \in 0..MaxStreams
  BY <1>1, SlotFacts, SessionsAssumption DEF TypeOK, Streams
<1>4. queue' \in Seq(Streams) /\ Len(queue') <= 1
  <2>1. queue \in Seq(Streams) /\ Len(queue) <= 1
    BY <1>1 DEF TypeOK
  <2>2. <<>> \in Seq(Streams) /\ Len(<<>>) <= 1
    OBVIOUS
  <2> QED BY <2>1, <2>2, Zenon
<1>5. TypeOK'
  BY <1>1, <1>2, <1>3, <1>4 DEF TypeOK
<1>6. Opened'
  BY <1>1 DEF Opened
<1> QED BY <1>2, <1>5, <1>6 DEF SubInv

\* What a future that returned leaves in the slots: the substream kept for
\* hand-off was not served before.
LEMMA SlotsFreedSub ==
    ASSUME SubInv, NEW a \in {Free, active}, NEW b, SlotsFreed(a, b)
    PROVE  /\ settled' \in BOOLEAN
           /\ \/ active' = a /\ active' \in {Free} \cup Slots /\ active'.s \in {0, active.s} /\ deferred' = deferred
              \/ /\ a = Free /\ deferred # 0 /\ active' = Serving(deferred) /\ deferred' = 0
                 /\ active'.s = deferred /\ deferred \in Streams /\ Unserved(active'.s)
<1>1. TypeOK /\ OnePlace
  BY DEF SubInv
<1>2. deferred # 0 => deferred \in Streams /\ Serving(deferred).s = deferred
  BY <1>1, SlotFacts, SessionsAssumption DEF TypeOK, Streams
<1>3. Free.s = 0
  BY SlotFacts
<1>4. active \in {Free} \cup Slots /\ settled \in BOOLEAN /\ (deferred # 0 => Unserved(deferred))
  BY <1>1 DEF TypeOK, OnePlace
<1>5. CASE a = Free /\ b = Free /\ deferred # 0
  <2>1. active' = Serving(deferred) /\ settled' = FALSE /\ deferred' = 0
    BY <1>5 DEF SlotsFreed
  <2>2. active'.s = deferred /\ Unserved(active'.s)
    BY <1>2, <1>4, <1>5, <2>1
  <2> QED BY <1>2, <1>5, <2>1, <2>2
<1>6. CASE ~(a = Free /\ b = Free /\ deferred # 0)
  <2>1. active' = a /\ settled' = settled /\ deferred' = deferred
    BY <1>6 DEF SlotsFreed
  <2> QED BY <1>3, <1>4, <2>1
<1> QED BY <1>5, <1>6

\* The coordinator returns an error with everything it owns.
LEMMA FailsSub ==
    ASSUME SubInv, NEW s \in Streams, Fails(s), UNCHANGED given
    PROVE  SubInv'
<1>1. /\ coord' = "failed" /\ active' = Free /\ busy' = Free /\ deferred' = 0 /\ queue' = <<>>
      /\ open' = FALSE /\ UNCHANGED <<kind, view, net, got, settled, closed, log>>
  BY DEF Fails, peerVars
<1>2. answer' \in [Streams -> {"none", "dropped", "closed", "ended", "busy"}]
  BY DEF Fails, SubInv, TypeOK
<1>3. RecordOpen' /\ RecordsInOrder'
  BY <1>1, RecordQuiet
<1>4. settled' \in BOOLEAN /\ closed' \in BOOLEAN /\ active'.s = 0
  BY <1>1, SlotFacts DEF SubInv, TypeOK
<1> QED BY <1>1, <1>2, <1>3, <1>4, SlotSub

\* The futures in the two slots make progress, return or fail.
LEMMA ServeSub ==
    ASSUME SubInv, UNCHANGED given,
           \/ ActiveCloses \/ ActiveBegins \/ DownloadRecorded \/ WireSettles
           \/ ActiveEnds \/ BusyEnds
    PROVE  SubInv'
<1>1. /\ TypeOK /\ coord = "run" /\ active \in {Free} \cup Slots /\ busy \in {Free} \cup Slots
      /\ answer \in [Streams -> {"none", "dropped", "closed", "ended", "busy"}]
      /\ open \in BOOLEAN /\ settled \in BOOLEAN /\ closed \in BOOLEAN
  BY DEF SubInv, TypeOK, ActiveCloses, ActiveBegins, DownloadRecorded, WireSettles, ActiveEnds, BusyEnds
<1>2. active.phase \in {"reading", "wire", "ending"} =>
         active # Free /\ active \in Slots /\ active.s \in Streams
  BY <1>1, SlotFacts
<1>3. \A s \in Streams, how \in {"closed", "ended", "busy"}:
         [answer EXCEPT ![s] = how] \in [Streams -> {"none", "dropped", "closed", "ended", "busy"}]
  BY <1>1
<1>4. CASE ActiveCloses
  <2>1. /\ active.phase = "reading" /\ SlotsFreed(Free, busy) /\ answer' = [answer EXCEPT ![active.s] = "closed"]
        /\ UNCHANGED <<kind, view, net, got, queue, open, busy, closed, coord, log>>
    BY <1>4 DEF ActiveCloses, Leave, peerVars
  <2>2. /\ settled' \in BOOLEAN
        /\ \/ active' = Free /\ active' \in {Free} \cup Slots /\ active'.s = 0 /\ deferred' = deferred
           \/ /\ deferred # 0 /\ active' = Serving(deferred) /\ deferred' = 0
              /\ active'.s = deferred /\ Unserved(active'.s)
    BY <2>1, SlotsFreedSub, SlotFacts
  <2>3. RecordOpen' /\ RecordsInOrder'
    BY <1>1, <2>1, <2>2, RecordQuiet
  <2>4. answer' \in [Streams -> {"none", "dropped", "closed", "ended", "busy"}]
    BY <1>2, <1>3, <2>1
  <2> QED BY <1>1, <2>1, <2>2, <2>3, <2>4, SlotSub
<1>5. CASE ActiveBegins
  <2>1. active.phase = "reading" /\ active # Free /\ active \in Slots /\ active.s \in Streams
    BY <1>2, <1>5 DEF ActiveBegins
  <2>2. CASE Fails(active.s)
    BY <2>1, <2>2, FailsSub
  <2>3. CASE /\ active' = [active EXCEPT !.phase = "wire"]
             /\ log' = IF given.audited /\ kind[active.s] = "upload"
                       THEN Append(log, [s |-> active.s, what |-> "start"]) ELSE log
             /\ UNCHANGED <<kind, view, net, got, answer, queue, open, settled, busy, deferred, closed, coord>>
    <3>1. active' \in Slots /\ active'.s = active.s /\ active'.phase = "wire"
      BY <2>1, <2>3, SlotFacts
    <3>2. RecordOpen' /\ RecordsInOrder'
      <4>1. CASE log' = log
        BY <1>1, <2>1, <2>3, <3>1, <4>1, RecordQuiet
      <4>2. CASE log' = Append(log, [s |-> active.s, what |-> "start"])
        BY <1>1, <2>1, <3>1, <4>2, RecordStart
      <4> QED BY <2>3, <4>1, <4>2
    <3>3. \/ log' = log
          \/ /\ active # Free
             /\ \E w \in {"start", "end"}: log' = Append(log, [s |-> active.s, what |-> w])
      BY <2>1, <2>3
    <3> QED BY <1>1, <2>3, <3>1, <3>2, <3>3, SlotSub
  <2> QED BY <1>5, <2>2, <2>3 DEF ActiveBegins, peerVars
<1>6. CASE DownloadRecorded
  <2>1. active.phase = "wire" /\ active # Free /\ active \in Slots /\ active.s \in Streams /\ ~Recorded(active.s)
    BY <1>2, <1>6 DEF DownloadRecorded
  <2>2. CASE Fails(active.s)
    BY <2>1, <2>2, FailsSub
  <2>3. CASE /\ log' = Append(log, [s |-> active.s, what |-> "start"])
             /\ UNCHANGED <<kind, view, net, got, answer, queue, open, active, settled,
                            busy, deferred, closed, coord>>
    <3>1. RecordOpen' /\ RecordsInOrder'
      BY <1>1, <2>1, <2>3, RecordStart
    <3>2. active # Free /\ \E w \in {"start", "end"}: log' = Append(log, [s |-> active.s, what |-> w])
      BY <2>1, <2>3
    <3> QED BY <1>1, <2>3, <3>1, <3>2, SlotSub
  <2> QED BY <1>6, <2>2, <2>3 DEF DownloadRecorded, peerVars
<1>7. CASE WireSettles
  <2>1. /\ active.phase = "wire" /\ active' = [active EXCEPT !.phase = "ending"] /\ settled' = TRUE
        /\ answer' = [answer EXCEPT ![active.s] = "ended"]
        /\ UNCHANGED <<kind, view, net, got, queue, open, busy, deferred, closed, coord, log>>
    BY <1>7 DEF WireSettles, Leave, peerVars
  <2>2. active' \in Slots /\ active'.s = active.s /\ active'.phase = "ending"
    BY <1>2, <2>1, SlotFacts
  <2>3. RecordOpen' /\ RecordsInOrder'
    BY <1>1, <2>1, <2>2, RecordQuiet
  <2>4. answer' \in [Streams -> {"none", "dropped", "closed", "ended", "busy"}]
    BY <1>2, <1>3, <2>1
  <2> QED BY <1>1, <2>1, <2>2, <2>3, <2>4, SlotSub
<1>8. CASE ActiveEnds
  <2>1. active.phase = "ending" /\ active # Free /\ active \in Slots /\ active.s \in Streams
    BY <1>2, <1>8 DEF ActiveEnds
  <2>2. CASE Fails(active.s)
    BY <2>1, <2>2, FailsSub
  <2>3. CASE /\ SlotsFreed(Free, busy)
             /\ log' = IF Recorded(active.s)
                       THEN Append(log, [s |-> active.s, what |-> "end"]) ELSE log
             /\ UNCHANGED <<kind, view, net, got, answer, queue, open, busy, closed, coord>>
    <3>1. /\ settled' \in BOOLEAN
          /\ \/ active' = Free /\ active' \in {Free} \cup Slots /\ active'.s = 0 /\ deferred' = deferred
             \/ /\ deferred # 0 /\ active' = Serving(deferred) /\ deferred' = 0
                /\ active'.s = deferred /\ deferred \in Streams /\ Unserved(active'.s)
      BY <2>3, SlotsFreedSub, SlotFacts
    <3>2. RecordOpen' /\ RecordsInOrder'
      BY <1>1, <2>1, <2>3, <3>1, RecordEnd
    <3>3. \/ log' = log
          \/ /\ active # Free
             /\ \E w \in {"start", "end"}: log' = Append(log, [s |-> active.s, what |-> w])
      BY <2>1, <2>3
    <3> QED BY <1>1, <2>3, <3>1, <3>2, <3>3, SlotSub
  <2> QED BY <1>8, <2>2, <2>3 DEF ActiveEnds, peerVars
<1>9. CASE BusyEnds
  <2>1. /\ busy # Free /\ busy' = Free /\ SlotsFreed(active, Free)
        /\ \E how \in {"busy", "closed"}: answer' = [answer EXCEPT ![busy.s] = how]
        /\ UNCHANGED <<kind, view, net, got, queue, open, closed, coord, log>>
    BY <1>9 DEF BusyEnds, Leave, peerVars
  <2>2. busy.s \in Streams
    BY <1>1, <2>1, SlotFacts
  <2>3. answer' \in [Streams -> {"none", "dropped", "closed", "ended", "busy"}]
    BY <1>3, <2>1, <2>2
  <2>4. /\ settled' \in BOOLEAN
        /\ \/ active' = active /\ active' \in {Free} \cup Slots /\ active'.s = active.s /\ deferred' = deferred
           \/ /\ active = Free /\ deferred # 0 /\ active' = Serving(deferred) /\ deferred' = 0
              /\ active'.s = deferred /\ Unserved(active'.s)
    BY <2>1, SlotsFreedSub, SlotFacts
  <2>5. RecordOpen' /\ RecordsInOrder'
    BY <1>1, <2>1, <2>4, SlotFacts, RecordQuiet
  <2> QED BY <1>1, <2>1, <2>3, <2>4, <2>5, SlotSub
<1> QED BY <1>4, <1>5, <1>6, <1>7, <1>8, <1>9

\* The head of the channel: the only substream in it, served nowhere yet.
LEMMA HeadFacts ==
    ASSUME SubInv, queue # <<>>
    PROVE  /\ Len(queue) = 1 /\ queue[1] = Head(queue) /\ Head(queue) \in Streams
           /\ Tail(queue) = <<>>
           /\ kind[Head(queue)] # "none" /\ Unserved(Head(queue)) /\ Head(queue) # deferred
           /\ \A i \in 1..Len(net): net[i].what = "open" => net[i].s # Head(queue)
<1>1. queue \in Seq(Streams) /\ Len(queue) <= 1 /\ OnePlace
  BY DEF SubInv, TypeOK
<1>2. Len(queue) = 1 /\ queue[1] = Head(queue) /\ Head(queue) \in Streams /\ 1 \in 1..Len(queue)
  <2>1. Len(queue) \in Nat \ {0} /\ Len(queue) <= 1
    BY <1>1, EmptySeq, Zenon
  <2>2. Len(queue) = 1 /\ 1 \in 1..Len(queue)
    <3>1. \A n \in Nat \ {0}: n <= 1 => n = 1 /\ 1 \in 1..n
      OBVIOUS
    <3> QED BY <2>1, <3>1, Zenon
  <2>3. Head(queue) \in Streams
    BY <1>1, HeadTailProperties
  <2>4. queue[1] = Head(queue)
    BY <1>1
  <2> QED BY <2>2, <2>3, <2>4
<1>3. Tail(queue) = <<>>
  <2>1. Tail(queue) \in Seq(Streams) /\ Len(Tail(queue)) = Len(queue) - 1
    BY <1>1, HeadTailProperties
  <2>2. Len(Tail(queue)) = 0
    BY <1>2, <2>1
  <2> QED BY <2>1, <2>2, EmptySeq
<1> QED BY <1>1, <1>2, <1>3 DEF OnePlace

\* The role a substream taken from the channel gets.
LEMMA Dispositions ==
    ASSUME NEW a \in BOOLEAN, NEW w \in BOOLEAN, NEW b \in BOOLEAN
    PROVE  /\ file_substream_disposition(a, w, b) = "Active" => ~a /\ ~b
           /\ file_substream_disposition(a, w, b) = "Busy" => a /\ ~w /\ ~b
           /\ file_substream_disposition(a, w, b) = "Drop" => a /\ ~w /\ b
           /\ file_substream_disposition(a, w, b) = "Deferred" => a \/ b
BY DEF file_substream_disposition

\* The coordinator takes a substream from the channel in one of the four roles.
LEMMA TakesSub ==
    ASSUME SubInv, Takes, UNCHANGED given
    PROVE  SubInv'
<1> DEFINE s == Head(queue)
           role == file_substream_disposition(active # Free, settled, busy # Free)
<1>1. /\ coord = "run" /\ queue # <<>> /\ deferred = 0 /\ queue' = Tail(queue)
      /\ UNCHANGED <<kind, view, net, got, open, closed, coord, log>>
      /\ \/ /\ role = "Active"
            /\ active' = Serving(s) /\ settled' = FALSE
            /\ UNCHANGED <<answer, busy, deferred>>
         \/ busy' = Serving(s) /\ UNCHANGED <<answer, active, settled, deferred>>
         \/ deferred' = s /\ UNCHANGED <<answer, active, settled, busy>>
         \/ Leave(s, "dropped") /\ UNCHANGED <<active, settled, busy, deferred>>
  BY DEF Takes, peerVars
<1>2. /\ s \in Streams /\ queue' = <<>> /\ Unserved(s) /\ s # 0
      /\ kind[s] # "none" /\ \A i \in 1..Len(net): net[i].what = "open" => net[i].s # s
  BY <1>1, HeadFacts, SlotFacts
<1>3. role = "Active" => active = Free
  BY Dispositions DEF SubInv, TypeOK
<1> HIDE DEF s, role
<1>4. TypeOK /\ OnePlace /\ Opened
  BY DEF SubInv
<1>5. /\ Serving(s) \in Slots /\ Serving(s).s = s /\ Serving(s) # Free /\ s \in 0..MaxStreams
      /\ Free.phase \notin {"wire", "ending"}
  BY <1>2, SlotFacts, SessionsAssumption DEF Streams
<1>6. answer' \in [Streams -> {"none", "dropped", "closed", "ended", "busy"}]
  BY <1>1, <1>2, <1>4 DEF TypeOK, Leave
<1>7. queue' \in Seq(Streams) /\ Len(queue') <= 1
  BY <1>2
<1>8. TypeOK' /\ Opened'
  <2>1. /\ active' \in {Free} \cup Slots /\ busy' \in {Free} \cup Slots /\ deferred' \in 0..MaxStreams
        /\ settled' \in BOOLEAN
    BY <1>1, <1>4, <1>5 DEF TypeOK
  <2> QED BY <1>1, <1>4, <1>6, <1>7, <2>1 DEF TypeOK, Opened
<1>9. RecordOpen' /\ RecordsInOrder'
  <2>1. CASE active' = active
    BY <1>1, <2>1, RecordQuiet
  <2>2. CASE active = Free /\ active' = Serving(s)
    BY <1>1, <1>2, <1>5, <2>2, RecordQuiet
  <2> QED BY <1>1, <1>3, <2>1, <2>2
<1>10. OnePlace'
  <2>1. \A k \in 1..Len(queue'): FALSE
    BY <1>2
  <2>2. \A t: t # s /\ Unserved(t) => Unserved(t)'
    BY <1>1, <1>5 DEF Unserved
  <2>3. \A i \in 1..Len(net):
          /\ kind[net[i].s] # "none"
          /\ net[i].what = "open" =>
               /\ Unserved(net[i].s)' /\ net[i].s # deferred'
               /\ \A j \in 1..Len(net): net[j] = net[i] => i = j
    BY <1>1, <1>2, <1>4, <2>2 DEF OnePlace
  <2>4. deferred' # 0 => kind[deferred'] # "none" /\ Unserved(deferred)'
    <3>1. CASE deferred' = deferred
      BY <1>1, <3>1
    <3>2. CASE deferred' = s /\ active' = active
      <4>1. s # active'.s /\ \A i \in 1..Len(log'): log'[i].s # s
        BY <1>1, <1>2, <3>2 DEF Unserved
      <4> QED BY <1>2, <3>2, <4>1 DEF Unserved
    <3> QED BY <1>1, <3>1, <3>2
  <2>5. /\ active' # Free => kind[active'.s] # "none"
        /\ busy' # Free => kind[busy'.s] # "none"
        /\ \A i \in 1..Len(log): kind[log[i].s] # "none"
    BY <1>1, <1>2, <1>4, <1>5 DEF OnePlace
  <2> QED BY <1>1, <2>1, <2>3, <2>4, <2>5 DEF OnePlace
<1> QED BY <1>8, <1>9, <1>10 DEF SubInv

\* The coordinator sees its channel closed, and returns.
LEMMA ReturnSub ==
    ASSUME SubInv, SeesClosed \/ Returns, UNCHANGED given
    PROVE  SubInv'
<1>1. /\ UNCHANGED <<kind, view, net, got, answer, queue, open, active, settled, busy, deferred, log>>
      /\ coord' \in {"run", "ended"} /\ coord = "run" /\ closed' \in BOOLEAN
  BY DEF SubInv, TypeOK, SeesClosed, Returns, peerVars
<1>2. TypeOK' /\ Opened'
  BY <1>1 DEF SubInv, TypeOK, Opened
<1>3. OnePlace'
  BY <1>1 DEF SubInv, OnePlace, Unserved
<1>4. RecordOpen' /\ RecordsInOrder'
  BY <1>1, RecordQuiet
<1> QED BY <1>2, <1>3, <1>4 DEF SubInv

\* Every step keeps a substream at one place and the record paired.
LEMMA NextSub == SubInv /\ [Next]_vars => SubInv'
<1> SUFFICES ASSUME SubInv, [Next]_vars PROVE SubInv'
  OBVIOUS
<1>1. CASE Next
  <2>1. UNCHANGED given /\ (Controller \/ Arrives \/ Readable \/ Closing \/ Coordinator)
    BY <1>1 DEF Next
  <2>2. CASE Controller \/ Arrives \/ Readable \/ Closing
    BY <2>1, <2>2, PeerSub
  <2>3. CASE Coordinator
    BY <2>1, <2>3, ServeSub, TakesSub, ReturnSub DEF Coordinator
  <2> QED BY <2>1, <2>2, <2>3
<1>2. CASE UNCHANGED vars
  <2>1. UNCHANGED <<given, kind, view, net, got, answer, queue, open, active, settled,
                    busy, deferred, closed, coord, log>>
    BY <1>2 DEF vars, sessionVars, peerVars, coordVars
  <2>2. TypeOK' /\ Opened'
    BY <2>1 DEF SubInv, TypeOK, Opened
  <2>3. OnePlace' /\ RecordOpen' /\ RecordsInOrder'
    BY <2>1 DEF SubInv, OnePlace, Unserved, RecordOpen, RecordsInOrder
  <2> QED BY <2>2, <2>3 DEF SubInv
<1> QED BY <1>1, <1>2

\* However many substreams the controller opens, in whatever order they are
\* served, deferred, answered Busy or dropped, and wherever an append fails,
\* the transfer records of a session never interleave: every start in the
\* audit record is followed by the end of the same transfer before the next.
THEOREM SubstreamRecords == Spec => []RecordsInOrder
<1>1. Init => SubInv
  BY InitSub
<1>2. SubInv => RecordsInOrder
  BY DEF SubInv
<1> QED BY <1>1, <1>2, NextSub, PTL DEF Spec

-----------------------------------------------------------------------------
(* A controller that waits for its last operation *)

\* Where substreams are, as numbers.
LEMMA PlaceTypes ==
    ASSUME SubInv
    PROVE  /\ net \in Seq(Parts) /\ Len(net) \in Nat
           /\ \A i \in 1..Len(net): net[i].s \in Streams /\ kind[net[i].s] # "none"
           /\ \A k \in 1..Len(queue): queue[k] \in Streams /\ kind[queue[k]] # "none" /\ queue[k] # active.s
           /\ (deferred # 0 => deferred \in Streams /\ kind[deferred] # "none")
           /\ (active # Free => active \in Slots /\ active.s \in Streams /\ kind[active.s] # "none")
           /\ (busy # Free => busy.s \in Streams /\ kind[busy.s] # "none")
           /\ active.s \in Nat /\ busy.s \in Nat /\ deferred \in Nat
<1>1. TypeOK /\ OnePlace
  BY DEF SubInv
<1>2. net \in Seq(Parts) /\ Len(net) \in Nat /\ queue \in Seq(Streams)
  BY <1>1 DEF TypeOK
<1>3. \A i \in 1..Len(net): net[i].s \in Streams
  BY <1>2, PartFacts
<1>4. (deferred # 0 => deferred \in Streams) /\ deferred \in Nat /\ Streams \subseteq Nat
  BY <1>1, SessionsAssumption DEF TypeOK, Streams
<1>5. \A k \in 1..Len(queue): queue[k] \in Streams
  BY <1>2
<1>6. /\ active = Free \/ (active \in Slots /\ active.s \in Streams)
      /\ busy = Free \/ busy.s \in Streams
  BY <1>1, SlotFacts DEF TypeOK
<1>7. active.s \in Nat /\ busy.s \in Nat
  BY <1>4, <1>6, SlotFacts
<1> QED BY <1>1, <1>2, <1>3, <1>4, <1>5, <1>6, <1>7 DEF OnePlace, Unserved

\* A sorted sequence with one more part of the latest substream.
LEMMA SortedAppend ==
    ASSUME NEW q \in Seq(Parts), SortedNet(q), NEW s \in Streams, NEW w \in {"open", "first", "last"},
           \A i \in 1..Len(q): q[i].s <= s /\ (w = "open" => q[i].s < s),
           active.s <= s, busy.s <= s, w = "open" => busy.s < s, deferred <= s,
           \A k \in 1..Len(queue): queue[k] <= s
    PROVE  SortedNet(Append(q, Part(s, w))) /\ Append(q, Part(s, w)) \in Seq(Parts)
<1>1. PICK e \in Parts : e = Part(s, w) /\ e.s = s /\ e.what = w
  BY PartFacts
<1>2. /\ Append(q, e) \in Seq(Parts)
      /\ Len(Append(q, e)) = Len(q) + 1 /\ Len(q) \in Nat
      /\ Append(q, e)[Len(q) + 1] = e
      /\ \A j \in 1..Len(q): Append(q, e)[j] = q[j]
  BY AppendFacts
<1>3. PICK r : r = Append(q, e)
  OBVIOUS
<1>4. \A i \in 1..Len(r): (i \in 1..Len(q) /\ r[i] = q[i]) \/ (i = Len(q) + 1 /\ r[i] = e)
  BY <1>2, <1>3
<1>5. ASSUME NEW i \in 1..Len(r), NEW j \in 1..Len(r), i < j
      PROVE  r[i].s <= r[j].s /\ (r[i].s = r[j].s => r[j].what # "open")
  <2>1. i \in 1..Len(q) /\ r[i] = q[i]
    BY <1>2, <1>3, <1>5
  <2>2. CASE j \in 1..Len(q) /\ r[j] = q[j]
    BY <1>5, <2>1, <2>2 DEF SortedNet
  <2>3. CASE r[j] = e
    <3>1. q[i].s \in Int /\ s \in Int
      BY <2>1, PartFacts, SlotFacts
    <3> QED BY <1>1, <2>1, <2>3, <3>1
  <2> QED BY <1>4, <2>2, <2>3
<1>6. ASSUME NEW i \in 1..Len(r)
      PROVE  /\ active.s <= r[i].s /\ busy.s <= r[i].s /\ deferred <= r[i].s
             /\ \A k \in 1..Len(queue): queue[k] <= r[i].s
             /\ r[i].what = "open" => busy.s < r[i].s
  BY <1>1, <1>4 DEF SortedNet
<1>7. SortedNet(r)
  BY <1>5, <1>6 DEF SortedNet
<1> QED BY <1>1, <1>2, <1>3, <1>7

\* A sorted sequence without its first part.
LEMMA SortedWithout ==
    ASSUME NEW q \in Seq(Parts), SortedNet(q), 1 \in 1..Len(q)
    PROVE  SortedNet(Without(q, 1))
<1>1. PICK r : r = Without(q, 1)
  OBVIOUS
<1>2. /\ Len(r) = Len(q) - 1 /\ Len(q) \in Nat
      /\ \A j \in 1..Len(r): r[j] = q[j + 1] /\ j + 1 \in 1..Len(q)
  <2>1. Len(r) = Len(q) - 1 /\ \A j \in 1..(Len(q) - 1): r[j] = IF j < 1 THEN q[j] ELSE q[j + 1]
    BY <1>1, WithoutFacts
  <2> QED BY <2>1
<1>3. SortedNet(r)
  <2>1. \A i, j \in 1..Len(r): i < j => i + 1 < j + 1
    BY <1>2
  <2> QED BY <1>2, <2>1 DEF SortedNet
<1> QED BY <1>1, <1>3

\* Nothing is open before the session starts.
LEMMA InitSeq == ASSUME Init PROVE SeqInv
<1>1. net = <<>> /\ queue = <<>> /\ deferred = 0 /\ active = Free /\ busy = Free
  BY DEF Init
<1>2. (\A i \in 1..Len(net): FALSE) /\ (\A k \in 1..Len(queue): FALSE)
  BY <1>1
<1>3. Sorted
  BY <1>1, <1>2 DEF Sorted, SortedNet, SortedSlots
<1>4. Views
  BY DEF Init, Views
<1>5. Unanswered
  BY <1>1, <1>2, SlotFacts DEF Init, Unanswered
<1> QED BY <1>3, <1>4, <1>5 DEF SeqInv

\* In a session of one operation at a time over an ordered transport, the
\* parts arrive in the order they were written.
LEMMA InOrder ==
    ASSUME SubInv, Sequential, NEW i \in Deliverable
    PROVE  i = 1 /\ 1 \in 1..Len(net) /\ Len(net) \in Nat
BY PlaceTypes DEF Sequential, Deliverable

\* The slots do not change under the steps of the controller and the bridge.
LEMMA SortedQuiet ==
    ASSUME UNCHANGED <<active, busy, deferred, queue>>, SortedSlots, SortedNet(net')
    PROVE  Sorted'
BY DEF Sorted, SortedNet, SortedSlots

\* A cancelled operation stays cancelled.
LEMMA EscapedKept ==
    ASSUME NEW x \in Streams, Escaped(x),
           \A t \in Streams: view[t] = "cancelled" => view'[t] = "cancelled"
    PROVE  \E t \in 1..(x - 1): view'[t] = "cancelled"
<1>1. \A t \in 1..(x - 1): t \in Streams
  BY SessionsAssumption DEF Streams
<1> QED BY <1>1 DEF Escaped

\* A later substream is opened only once every earlier operation has ended.
LEMMA LatestOpen ==
    ASSUME SubInv, Views, NEW s \in Streams, view[s] = "open"
    PROVE  /\ \A i \in 1..Len(net): net[i].s <= s
           /\ \A k \in 1..Len(queue): queue[k] <= s
           /\ active.s <= s /\ busy.s <= s /\ deferred <= s
<1>1. \A t \in Streams: kind[t] # "none" => t <= s
  <2> SUFFICES ASSUME NEW t \in Streams, kind[t] # "none", ~(t <= s) PROVE FALSE
    OBVIOUS
  <2>1. s < t
    BY SlotFacts
  <2> QED BY <2>1 DEF Views
<1>2. 0 <= s
  BY SlotFacts
<1> QED BY <1>1, <1>2, PlaceTypes, SlotFacts

\* The controller opens a substream once its last operation has ended.
LEMMA OpenSeq ==
    ASSUME SubInv, Sequential, Sorted, Views, Unanswered, OpenSubstream, UNCHANGED given
    PROVE  Sorted' /\ Views' /\ Unanswered'
<1>1. UNCHANGED <<got, answer, queue, open, active, settled, busy, deferred, closed, coord>>
  BY DEF OpenSubstream, coordVars
<1>2. PICK s \in Streams, k \in given.kinds :
        /\ \A t \in Streams: kind[t] = "none" <=> t >= s
        /\ \A t \in 1..(s - 1): view[t] # "open"
        /\ kind' = [kind EXCEPT ![s] = k]
        /\ view' = [view EXCEPT ![s] = IF k = "probe" THEN "closed" ELSE "open"]
        /\ net' = net \o <<Part(s, "open"), Part(s, "first")>>
  BY DEF OpenSubstream, Sequential
<1>3. /\ k \in {"probe", "upload", "download"} /\ s \in Nat /\ s > 0
      /\ kind \in [Streams -> Kinds \cup {"none"}]
      /\ view \in [Streams -> {"none", "open", "closed", "settled", "committed", "cancelled"}]
  BY SessionsAssumption, SlotFacts DEF SubInv, TypeOK, Streams
<1>4. \A t \in Streams: kind[t] # "none" => t < s /\ t # s
  BY <1>2, SlotFacts
<1>5. /\ \A i \in 1..Len(net): net[i].s < s
      /\ \A m \in 1..Len(queue): queue[m] < s
      /\ active.s < s /\ busy.s < s /\ deferred < s
  BY <1>3, <1>4, PlaceTypes, SlotFacts
<1>6. PICK q \in Seq(Parts) : q = Append(net, Part(s, "open")) /\ SortedNet(q)
  <2>1. net \in Seq(Parts) /\ SortedNet(net)
    BY PlaceTypes DEF Sorted
  <2>2. /\ \A i \in 1..Len(net): net[i].s <= s /\ net[i].s < s
        /\ \A m \in 1..Len(queue): queue[m] <= s
        /\ active.s <= s /\ busy.s <= s /\ deferred <= s
    BY <1>3, <1>5, PlaceTypes, SlotFacts
  <2> QED BY <1>5, <2>1, <2>2, SortedAppend
<1>7. /\ Len(net) \in Nat /\ Len(q) = Len(net) + 1
      /\ q[Len(net) + 1] = Part(s, "open") /\ \A j \in 1..Len(net): q[j] = net[j]
  <2>1. net \in Seq(Parts)
    BY PlaceTypes
  <2> QED BY <1>6, <2>1, PartFacts, AppendFacts
<1>8. net' = Append(q, Part(s, "first")) /\ SortedNet(net')
  <2>1. net' = Append(q, Part(s, "first"))
    BY <1>2, <1>6, PlaceTypes, OpenParts
  <2>2. \A j \in 1..Len(q): q[j].s <= s
    BY <1>3, <1>5, <1>7, PartFacts, PlaceTypes, SlotFacts
  <2>3. /\ \A m \in 1..Len(queue): queue[m] <= s
        /\ active.s <= s /\ busy.s <= s /\ deferred <= s
    BY <1>3, <1>5, PlaceTypes, SlotFacts
  <2> QED BY <1>6, <2>1, <2>2, <2>3, SortedAppend
<1>9. /\ Len(net') = Len(net) + 2 /\ net'[Len(net) + 2] = Part(s, "first")
      /\ net'[Len(net) + 1] = Part(s, "open") /\ \A j \in 1..Len(net): net'[j] = net[j]
  <2>1. /\ Len(net') = Len(q) + 1 /\ net'[Len(q) + 1] = Part(s, "first")
        /\ \A j \in 1..Len(q): net'[j] = q[j]
    BY <1>6, <1>8, PartFacts, AppendFacts
  <2> QED BY <1>7, <2>1
<1>10. Sorted'
  BY <1>1, <1>8, SortedQuiet DEF Sorted
<1>11. \A p: InNet(p) => InNet(p)'
  <2>1. \A j \in 1..Len(net): j \in 1..Len(net')
    BY <1>7, <1>9
  <2> QED BY <1>9, <2>1 DEF InNet
<1>12. InNet(Part(s, "first"))'
  <2>1. Len(net) + 2 \in 1..Len(net')
    BY <1>7, <1>9
  <2> QED BY <1>9, <2>1 DEF InNet
<1>13. Views'
  <2>1. ASSUME NEW t \in Streams, t # s
        PROVE  kind'[t] = kind[t] /\ view'[t] = view[t]
    BY <1>2, <1>3, <2>1
  <2>2. kind'[s] = k /\ view'[s] = IF k = "probe" THEN "closed" ELSE "open"
    BY <1>2, <1>3
  <2>3. ASSUME NEW t \in Streams
        PROVE  /\ kind'[t] = "none" <=> view'[t] = "none"
               /\ kind'[t] # "silent"
               /\ kind'[t] = "probe" <=> view'[t] = "closed"
               /\ view'[t] = "settled" => answer'[t] # "none"
               /\ view'[t] = "committed" => answer'[t] # "none" \/ active' = [s |-> t, phase |-> "wire"]
               /\ view'[t] \in {"committed", "cancelled"} => InNet(Part(t, "last"))' \/ "last" \in got'[t]
               /\ kind'[t] = "probe" => InNet(Part(t, "first"))' \/ "first" \in got'[t]
    <3>1. CASE t = s
      BY <1>3, <1>12, <2>2, <3>1
    <3>2. CASE t # s
      BY <1>1, <1>11, <2>1, <3>2 DEF Views
    <3> QED BY <3>1, <3>2
  <2>4. ASSUME NEW u \in Streams, NEW t \in Streams, t < u, kind'[u] # "none"
        PROVE  kind'[t] # "none" /\ view'[t] # "open"
    <3>1. u <= s
      BY <1>3, <1>4, <2>1, <2>4, SlotFacts
    <3>2. t < s /\ t # s /\ t \in 1..(s - 1)
      BY <1>3, <2>4, <3>1, SlotFacts
    <3>3. kind[t] # "none" /\ view[t] # "open"
      BY <1>2, <3>2, SlotFacts
    <3> QED BY <2>1, <3>2, <3>3
  <2> QED BY <2>3, <2>4 DEF Views
<1>14. Unanswered'
  <2>1. \A t \in Streams: kind'[t] = "none" => answer'[t] = "none"
    BY <1>1, <1>2, <1>3 DEF Unanswered
  <2>2. \A i \in 1..Len(net'): net'[i].what = "open" => answer'[net'[i].s] = "none"
    <3>1. answer[s] = "none"
      <4>1. kind[s] = "none"
        BY <1>4
      <4> QED BY <4>1 DEF Unanswered
    <3>2. \A i \in 1..Len(net'): i \in 1..Len(net) \/ net'[i] \in {Part(s, "open"), Part(s, "first")}
      BY <1>7, <1>9
    <3>3. Part(s, "open").s = s /\ Part(s, "first").s = s
      BY PartFacts
    <3> QED BY <1>1, <1>9, <3>1, <3>2, <3>3 DEF Unanswered
  <2>3. active'.phase \in {"wire", "ending"} => kind'[active'.s] # "probe"
    <3>1. active.phase \in {"wire", "ending"} => active.s \in Streams /\ active.s # s
      BY <1>4, PlaceTypes, SlotFacts
    <3> QED BY <1>1, <1>2, <1>3, <3>1 DEF Unanswered
  <2>4. busy' # Free => Escaped(busy.s)'
    <3>1. \A t \in Streams: view[t] = "cancelled" => view'[t] = "cancelled"
      <4>1. view[s] = "none"
        BY <1>4 DEF Views
      <4> QED BY <1>2, <1>3, <4>1
    <3>2. busy # Free => \E t \in 1..(busy.s - 1): view'[t] = "cancelled"
      BY <3>1, PlaceTypes, EscapedKept DEF Unanswered
    <3> QED BY <1>1, <3>2 DEF Escaped
  <2> QED BY <1>1, <2>1, <2>2, <2>3, <2>4 DEF Unanswered
<1> QED BY <1>10, <1>13, <1>14

\* An operation ends for the controller, which has opened none after it.
LEMMA EndSeq ==
    ASSUME SubInv, Sequential, Sorted, Views, Unanswered, UNCHANGED given, NEW s \in Streams,
           ReadsEnd(s) \/ \E how \in {"committed", "cancelled"}: Leaves(s, how)
    PROVE  Sorted' /\ Views' /\ Unanswered'
<1>1. UNCHANGED <<kind, got, answer, queue, open, active, settled, busy, deferred, closed, coord>>
  BY DEF ReadsEnd, Leaves, coordVars
<1>2. view[s] = "open"
  BY DEF ReadsEnd, Leaves
<1>3. PICK h \in {"settled", "committed", "cancelled"} :
        /\ view' = [view EXCEPT ![s] = h]
        /\ h = "settled" => answer[s] # "none" /\ net' = net
        /\ h # "settled" => net' = Append(net, Part(s, "last"))
        /\ h = "committed" => active = [s |-> s, phase |-> "wire"]
  <2>1. CASE ReadsEnd(s)
    BY <2>1 DEF ReadsEnd
  <2>2. ASSUME NEW how \in {"committed", "cancelled"}, Leaves(s, how)
        PROVE  /\ view' = [view EXCEPT ![s] = how]
               /\ net' = Append(net, Part(s, "last"))
               /\ how = "committed" => active = [s |-> s, phase |-> "wire"]
    BY <2>2 DEF Leaves
  <2> QED BY <2>1, <2>2
<1>4. /\ net \in Seq(Parts) /\ Len(net) \in Nat /\ SortedNet(net) /\ SortedSlots
      /\ view \in [Streams -> {"none", "open", "closed", "settled", "committed", "cancelled"}]
  BY PlaceTypes DEF Sorted, SubInv, TypeOK
<1>5. view'[s] = h /\ \A t \in Streams: t # s => view'[t] = view[t]
  BY <1>3, <1>4
<1>6. /\ SortedNet(net')
      /\ \A p: InNet(p) => InNet(p)'
      /\ h # "settled" => InNet(Part(s, "last"))'
      /\ \A i \in 1..Len(net'): net'[i].what = "open" => i \in 1..Len(net) /\ net'[i] = net[i]
  <2>1. CASE h = "settled"
    BY <1>3, <1>4, <2>1 DEF InNet
  <2>2. CASE h # "settled"
    <3>1. net' = Append(net, Part(s, "last"))
      BY <1>3, <2>2
    <3>2. /\ Len(net') = Len(net) + 1 /\ net'[Len(net) + 1] = Part(s, "last")
          /\ \A j \in 1..Len(net): net'[j] = net[j]
      BY <1>4, <3>1, PartFacts, AppendFacts
    <3>3. SortedNet(net')
      BY <1>2, <1>4, <3>1, LatestOpen, SortedAppend
    <3>4. /\ \A j \in 1..Len(net): j \in 1..Len(net')
          /\ Len(net) + 1 \in 1..Len(net')
      BY <1>4, <3>2
    <3>5. (\A p: InNet(p) => InNet(p)') /\ InNet(Part(s, "last"))'
      BY <3>2, <3>4 DEF InNet
    <3>6. \A i \in 1..Len(net'): net'[i].what = "open" => i \in 1..Len(net) /\ net'[i] = net[i]
      <4>1. Part(s, "last").what # "open"
        BY PartFacts
      <4> QED BY <1>4, <3>2, <4>1
    <3> QED BY <3>3, <3>5, <3>6
  <2> QED BY <2>1, <2>2
<1>7. Sorted'
  BY <1>1, <1>4, <1>6, SortedQuiet
<1>8. Views'
  <2>1. ASSUME NEW t \in Streams
        PROVE  /\ kind'[t] = "none" <=> view'[t] = "none"
               /\ kind'[t] # "silent"
               /\ kind'[t] = "probe" <=> view'[t] = "closed"
               /\ view'[t] = "settled" => answer'[t] # "none"
               /\ view'[t] = "committed" => answer'[t] # "none" \/ active' = [s |-> t, phase |-> "wire"]
               /\ view'[t] \in {"committed", "cancelled"} => InNet(Part(t, "last"))' \/ "last" \in got'[t]
               /\ kind'[t] = "probe" => InNet(Part(t, "first"))' \/ "first" \in got'[t]
    <3>1. CASE t = s
      <4>1. kind[s] # "none" /\ kind[s] # "probe" /\ kind[s] # "silent"
        BY <1>2 DEF Views
      <4> QED BY <1>1, <1>3, <1>5, <1>6, <3>1, <4>1
    <3>2. CASE t # s
      BY <1>1, <1>5, <1>6, <3>2 DEF Views
    <3> QED BY <3>1, <3>2
  <2>2. ASSUME NEW u \in Streams, NEW t \in Streams, t < u, kind'[u] # "none"
        PROVE  kind'[t] # "none" /\ view'[t] # "open"
    BY <1>1, <1>5, <2>2 DEF Views
  <2> QED BY <2>1, <2>2 DEF Views
<1>9. Unanswered'
  <2>1. \A i \in 1..Len(net'): net'[i].what = "open" => answer'[net'[i].s] = "none"
    BY <1>1, <1>6 DEF Unanswered
  <2>2. busy' # Free => Escaped(busy.s)'
    <3>1. \A t \in Streams: view[t] = "cancelled" => view'[t] = "cancelled"
      BY <1>2, <1>5
    <3>2. busy # Free => \E t \in 1..(busy.s - 1): view'[t] = "cancelled"
      BY <3>1, PlaceTypes, EscapedKept DEF Unanswered
    <3> QED BY <1>1, <3>2 DEF Escaped
  <2> QED BY <1>1, <2>1, <2>2 DEF Unanswered
<1> QED BY <1>7, <1>8, <1>9

\* What has arrived is not on its way any more, and can be read.
LEMMA FirstGone ==
    ASSUME net \in Seq(Parts), 1 \in 1..Len(net), net' = Without(net, 1)
    PROVE  /\ \A j \in 1..Len(net'): net'[j] = net[j + 1] /\ j + 1 \in 1..Len(net) /\ 1 < j + 1
           /\ \A p: InNet(p) => InNet(p)' \/ p = net[1]
<1>1. Len(net) \in Nat /\ 1 <= Len(net)
  OBVIOUS
<1>2. Len(net') = Len(net) - 1 /\ \A j \in 1..(Len(net) - 1): net'[j] = IF j < 1 THEN net[j] ELSE net[j + 1]
  BY WithoutFacts
<1>3. \A j \in 1..Len(net'): net'[j] = net[j + 1] /\ j + 1 \in 1..Len(net) /\ 1 < j + 1
  BY <1>1, <1>2
<1>4. ASSUME NEW p, InNet(p), p # net[1] PROVE InNet(p)'
  <2>1. PICK i \in 1..Len(net) : net[i] = p
    BY <1>4 DEF InNet
  <2>2. i - 1 \in 1..Len(net') /\ (i - 1) + 1 = i
    BY <1>1, <1>2, <1>4, <2>1
  <2>3. net'[i - 1] = p
    BY <1>3, <2>1, <2>2
  <2> QED BY <2>2, <2>3 DEF InNet
<1> QED BY <1>3, <1>4

\* A substream arrives in its turn.
LEMMA ArriveSeq ==
    ASSUME SubInv, Sequential, Sorted, Views, Unanswered, Arrives, UNCHANGED given
    PROVE  Sorted' /\ Views' /\ Unanswered'
<1>1. UNCHANGED <<kind, view, got, open, active, settled, busy, deferred, closed, coord>>
  BY DEF Arrives, coordVars
<1>2. /\ 1 \in 1..Len(net) /\ net[1].what = "open" /\ net' = Without(net, 1)
      /\ LET kept == open /\ coord = "run" /\ Len(queue) < 1 IN
         /\ queue' = IF kept THEN Append(queue, net[1].s) ELSE queue
         /\ answer' = IF kept THEN answer ELSE [answer EXCEPT ![net[1].s] = "dropped"]
  <2>1. PICK i \in Deliverable :
          /\ net[i].what = "open" /\ net' = Without(net, i)
          /\ LET kept == open /\ coord = "run" /\ Len(queue) < 1 IN
             /\ queue' = IF kept THEN Append(queue, net[i].s) ELSE queue
             /\ answer' = IF kept THEN answer ELSE [answer EXCEPT ![net[i].s] = "dropped"]
    BY DEF Arrives
  <2> QED BY <2>1, InOrder
<1>3. PICK s \in Streams : s = net[1].s /\ kind[s] # "none" /\ net[1] = Part(s, "open")
  <2>1. net[1] \in Parts
    BY <1>2, PlaceTypes
  <2> QED BY <1>2, <2>1, PlaceTypes, PartFacts
<1>4. /\ net \in Seq(Parts) /\ SortedNet(net) /\ SortedSlots /\ SortedNet(net') /\ OnePlace
      /\ answer \in [Streams -> {"none", "dropped", "closed", "ended", "busy"}]
      /\ queue \in Seq(Streams)
  BY <1>2, PlaceTypes, SortedWithout DEF Sorted, SubInv, TypeOK
<1>5. /\ \A j \in 1..Len(net'): net'[j] = net[j + 1] /\ j + 1 \in 1..Len(net) /\ 1 < j + 1
      /\ \A p: InNet(p) => InNet(p)' \/ p = net[1]
  BY <1>2, <1>4, FirstGone
<1>6. /\ active.s < s /\ busy.s < s /\ deferred < s
      /\ \A k \in 1..Len(queue): queue[k] # s
      /\ \A j \in 1..Len(net'): s <= net'[j].s /\ (net'[j].what = "open" => net'[j].s # s)
  <2>1. active.s # s /\ deferred # s /\ \A k \in 1..Len(queue): queue[k] # s
    BY <1>2, <1>3, <1>4 DEF OnePlace, Unserved
  <2>2. active.s <= s /\ busy.s < s /\ deferred <= s
    BY <1>2, <1>3, <1>4 DEF SortedNet
  <2>3. ASSUME NEW j \in 1..Len(net')
        PROVE  s <= net'[j].s /\ (net'[j].what = "open" => net'[j].s # s)
    <3>1. PICK m \in 1..Len(net) : 1 < m /\ net'[j] = net[m]
      BY <1>5, <2>3
    <3>2. net[1].s <= net[m].s /\ (net[1].s = net[m].s => net[m].what # "open")
      BY <1>2, <1>4, <3>1 DEF SortedNet
    <3> QED BY <1>3, <3>1, <3>2
  <2> QED BY <2>1, <2>2, <2>3, PlaceTypes, SlotFacts
<1>7. \/ queue' = queue /\ answer' = [answer EXCEPT ![s] = "dropped"]
      \/ (\A k \in 1..Len(queue'): queue'[k] = s) /\ answer' = answer
  <2>1. CASE queue' = queue /\ answer' = [answer EXCEPT ![s] = "dropped"]
    BY <2>1
  <2>2. CASE Len(queue) < 1 /\ queue' = Append(queue, s) /\ answer' = answer
    <3>1. Len(queue) = 0
      BY <1>4, <2>2
    <3>2. Len(queue') = 1 /\ queue'[1] = s
      BY <1>4, <2>2, <3>1
    <3> QED BY <2>2, <3>2
  <2> QED BY <1>2, <1>3, <2>1, <2>2
<1>8. Sorted'
  <2>1. CASE queue' = queue
    BY <1>1, <1>4, <2>1, SortedQuiet
  <2>2. CASE \A k \in 1..Len(queue'): queue'[k] = s
    <3>1. SortedSlots'
      BY <1>1, <1>4, <1>6, <2>2 DEF SortedSlots
    <3>2. SortedNet(net)'
      BY <1>1, <1>4, <1>6, <2>2 DEF SortedNet
    <3> QED BY <3>1, <3>2 DEF Sorted
  <2> QED BY <1>7, <2>1, <2>2
<1>9. answer[s] = "none" /\ answer'[s] \in {"none", "dropped"} /\ \A t \in Streams: t # s => answer'[t] = answer[t]
  BY <1>2, <1>3, <1>4, <1>7 DEF Unanswered
<1>10. Views'
  <2>1. \A t \in Streams: answer[t] # "none" => answer'[t] # "none"
    BY <1>9
  <2>2. \A t \in Streams: (InNet(Part(t, "last")) => InNet(Part(t, "last"))') /\ (InNet(Part(t, "first")) => InNet(Part(t, "first"))')
    <3>1. \A t \in Streams: Part(t, "last") # net[1] /\ Part(t, "first") # net[1]
      BY <1>2, PartFacts
    <3> QED BY <1>5, <3>1
  <2> QED BY <1>1, <2>1, <2>2 DEF Views
<1>11. Unanswered'
  <2>1. \A t \in Streams: kind'[t] = "none" => answer'[t] = "none"
    BY <1>1, <1>3, <1>9 DEF Unanswered
  <2>2. \A i \in 1..Len(net'): net'[i].what = "open" => answer'[net'[i].s] = "none"
    BY <1>5, <1>6, <1>9, PlaceTypes DEF Unanswered
  <2>3. \A k \in 1..Len(queue'): answer'[queue'[k]] = "none"
    <3>1. CASE queue' = queue
      BY <1>6, <1>9, <3>1, PlaceTypes DEF Unanswered
    <3>2. CASE (\A k \in 1..Len(queue'): queue'[k] = s) /\ answer' = answer
      BY <1>9, <3>2
    <3> QED BY <1>7, <3>1, <3>2
  <2>4. /\ deferred' # 0 => answer'[deferred'] = "none"
        /\ active'.phase \in {"reading", "wire"} => answer'[active'.s] = "none"
    <3>1. active.phase \in {"reading", "wire"} => active.s \in Streams
      BY PlaceTypes, SlotFacts
    <3>2. active.s # s /\ deferred # s
      BY <1>6, PlaceTypes, SlotFacts
    <3> QED BY <1>1, <1>9, <3>1, <3>2, PlaceTypes DEF Unanswered
  <2>5. busy' # Free => Escaped(busy.s)'
    BY <1>1 DEF Escaped, Unanswered
  <2> QED BY <1>1, <2>1, <2>2, <2>3, <2>4, <2>5 DEF Unanswered
<1> QED BY <1>8, <1>10, <1>11

\* What the controller wrote next can be read, or the session is closing.
LEMMA ReadSeq ==
    ASSUME SubInv, Sequential, Sorted, Views, Unanswered, Readable \/ Closing, UNCHANGED given
    PROVE  Sorted' /\ Views' /\ Unanswered'
<1>1. UNCHANGED <<kind, view, answer, queue, active, settled, busy, deferred, closed, coord>>
  BY DEF Readable, Closing, coordVars, peerVars
<1>2. busy' # Free => Escaped(busy.s)'
  BY <1>1 DEF Escaped, Unanswered
<1>3. CASE Closing
  <2>1. UNCHANGED <<net, got>> /\ open' = FALSE
    BY <1>3 DEF Closing, peerVars
  <2>2. Sorted'
    BY <1>1, <2>1 DEF Sorted, SortedNet, SortedSlots
  <2>3. Views'
    BY <1>1, <2>1 DEF Views, InNet
  <2>4. Unanswered'
    BY <1>1, <1>2, <2>1 DEF Unanswered
  <2> QED BY <2>2, <2>3, <2>4
<1>4. CASE Readable
  <2>1. /\ 1 \in 1..Len(net) /\ net[1].what # "open" /\ net' = Without(net, 1) /\ open' = open
        /\ got' = [got EXCEPT ![net[1].s] = @ \cup {net[1].what}]
    <3>1. PICK i \in Deliverable :
            /\ net[i].what # "open" /\ net' = Without(net, i) /\ open' = open
            /\ got' = [got EXCEPT ![net[i].s] = @ \cup {net[i].what}]
      BY <1>4 DEF Readable
    <3> QED BY <3>1, InOrder
  <2>2. PICK s \in Streams, w \in {"first", "last"} : net[1] = Part(s, w) /\ net[1].s = s /\ net[1].what = w
    <3>1. net[1] \in Parts
      BY <2>1, PlaceTypes
    <3> QED BY <2>1, <3>1, PartFacts
  <2>3. /\ net \in Seq(Parts) /\ SortedSlots /\ SortedNet(net')
        /\ got \in [Streams -> SUBSET {"first", "last"}]
    BY <2>1, PlaceTypes, SortedWithout DEF Sorted, SubInv, TypeOK
  <2>4. /\ \A j \in 1..Len(net'): net'[j] = net[j + 1] /\ j + 1 \in 1..Len(net) /\ 1 < j + 1
        /\ \A p: InNet(p) => InNet(p)' \/ p = net[1]
    BY <2>1, <2>3, FirstGone
  <2>5. Sorted'
    BY <1>1, <2>3, SortedQuiet
  <2>6. got'[s] = got[s] \cup {w} /\ \A t \in Streams: got[t] \subseteq got'[t]
    BY <2>1, <2>2, <2>3
  <2>7. \A t \in Streams, v \in {"first", "last"}:
          InNet(Part(t, v)) \/ v \in got[t] => InNet(Part(t, v))' \/ v \in got'[t]
    <3> SUFFICES ASSUME NEW t \in Streams, NEW v \in {"first", "last"}, InNet(Part(t, v)) \/ v \in got[t]
                 PROVE  InNet(Part(t, v))' \/ v \in got'[t]
      OBVIOUS
    <3>1. CASE v \in got[t]
      BY <2>6, <3>1
    <3>2. CASE InNet(Part(t, v)) /\ Part(t, v) # net[1]
      BY <2>4, <3>2
    <3>3. CASE Part(t, v) = net[1]
      <4>1. t = s /\ v = w
        BY <2>2, <3>3, PartFacts
      <4> QED BY <2>6, <4>1
    <3> QED BY <3>1, <3>2, <3>3
  <2>8. Views'
    BY <1>1, <2>7 DEF Views
  <2>9. Unanswered'
    BY <1>1, <1>2, <2>1, <2>4 DEF Unanswered
  <2> QED BY <2>5, <2>8, <2>9
<1> QED BY <1>3, <1>4

\* The places of substreams in a sequential session are distinct.
LEMMA Distinct ==
    ASSUME SubInv, Sorted
    PROVE  /\ \A k \in 1..Len(queue): queue[k] # active.s /\ queue[k] # busy.s /\ queue[k] # deferred
           /\ deferred # 0 => deferred # active.s /\ deferred # busy.s
           /\ busy # Free => busy.s # active.s
           /\ \A i \in 1..Len(net): net[i].what = "open" =>
                 /\ net[i].s # active.s /\ net[i].s # busy.s /\ net[i].s # deferred
                 /\ \A k \in 1..Len(queue): queue[k] # net[i].s
<1>1. /\ \A k \in 1..Len(queue): active.s < queue[k] /\ busy.s < queue[k] /\ deferred < queue[k]
      /\ deferred # 0 => active.s < deferred /\ busy.s < deferred
      /\ busy # Free => active.s < busy.s
      /\ \A i \in 1..Len(net): net[i].what = "open" => busy.s < net[i].s
  BY DEF Sorted, SortedSlots, SortedNet
<1>2. \A i \in 1..Len(net): net[i].what = "open" =>
                 /\ net[i].s # active.s /\ net[i].s # deferred
                 /\ \A k \in 1..Len(queue): queue[k] # net[i].s
  BY DEF SubInv, OnePlace, Unserved
<1> QED BY <1>1, <1>2, PlaceTypes, SlotFacts

\* The coordinator's steps on its slots keep the order.
LEMMA SortedSlotStep ==
    ASSUME SubInv, Sorted, UNCHANGED net,
           queue' = queue \/ queue' = <<>>, busy' \in {busy, Free},
           \/ active'.s \in {0, active.s} /\ deferred' \in {deferred, 0}
           \/ deferred # 0 /\ active'.s = deferred /\ deferred' = 0 /\ busy' = Free
    PROVE  Sorted'
<1>1. /\ net \in Seq(Parts) /\ \A i \in 1..Len(net): net[i].s \in Streams /\ net[i].s \in Nat /\ 0 < net[i].s /\ 0 <= net[i].s
      /\ \A k \in 1..Len(queue): queue[k] \in Nat /\ 0 < queue[k]
      /\ (deferred # 0 => deferred \in Nat /\ 0 < deferred)
      /\ (busy # Free => busy.s \in Nat /\ 0 < busy.s)
      /\ active.s \in Nat /\ busy.s \in Nat /\ deferred \in Nat
      /\ Free.s = 0 /\ busy'.s \in {0, busy.s}
  BY PlaceTypes, SlotFacts
<1>2. \A k \in 1..Len(queue'): k \in 1..Len(queue) /\ queue'[k] = queue[k]
  OBVIOUS
<1>3. SortedNet(net)'
  BY <1>1, <1>2 DEF Sorted, SortedNet
<1>4. SortedSlots'
  BY <1>1, <1>2 DEF Sorted, SortedSlots
<1> QED BY <1>3, <1>4 DEF Sorted

\* The coordinator changes how operations stand only by answering them.
LEMMA ViewsStep ==
    ASSUME Views, UNCHANGED <<kind, view, net, got>>,
           \A t \in Streams: answer[t] # "none" => answer'[t] # "none",
           \A t \in Streams: active = [s |-> t, phase |-> "wire"] => active' = active \/ answer'[t] # "none"
    PROVE  Views'
<1>1. \A p: InNet(p)' <=> InNet(p)
  BY DEF InNet
<1> QED BY <1>1 DEF Views

\* An append that fails closes every substream the coordinator holds.
LEMMA FailsSeq ==
    ASSUME SubInv, Sorted, Views, Unanswered, active # Free, Fails(active.s)
    PROVE  Sorted' /\ Views' /\ Unanswered'
<1> DEFINE Held == {active.s, busy.s, deferred} \cup {queue[i] : i \in 1..Len(queue)}
<1>1. /\ coord' = "failed" /\ active' = Free /\ busy' = Free /\ deferred' = 0 /\ queue' = <<>>
      /\ open' = FALSE /\ UNCHANGED <<kind, view, net, got, settled, closed>>
      /\ answer' = [t \in Streams |->
                      IF t \in Held THEN (IF answer[t] = "none" THEN "closed" ELSE answer[t]) ELSE answer[t]]
  BY DEF Fails, peerVars
<1>2. \A t \in Held: t \in Streams => kind[t] # "none"
  BY PlaceTypes, SlotFacts
<1>3. \A i \in 1..Len(net): net[i].what = "open" => net[i].s \notin Held
  BY Distinct
<1>4. active.s \in Held
  OBVIOUS
<1> HIDE DEF Held
<1>5. \A t \in Streams: answer'[t] = answer[t] \/ (t \in Held /\ answer'[t] # "none")
  BY <1>1
<1>6. answer'[active.s] # "none" /\ active.s \in Streams
  BY <1>1, <1>4, PlaceTypes
<1>7. Free.s = 0 /\ Free.phase = "none" /\ \A k \in 1..Len(queue'): FALSE
  BY <1>1, SlotFacts
<1>8. Sorted'
  BY <1>1, <1>7, SortedSlotStep
<1>9. Views'
  <2>1. \A t \in Streams: answer[t] # "none" => answer'[t] # "none"
    BY <1>5
  <2>2. \A t \in Streams: active = [s |-> t, phase |-> "wire"] => answer'[t] # "none"
    BY <1>6
  <2> QED BY <1>1, <2>1, <2>2, ViewsStep
<1>10. Unanswered'
  <2>1. \A t \in Streams: kind'[t] = "none" => answer'[t] = "none"
    BY <1>1, <1>2, <1>5 DEF Unanswered
  <2>2. \A i \in 1..Len(net'): net'[i].what = "open" => answer'[net'[i].s] = "none"
    BY <1>1, <1>3, <1>5, PlaceTypes DEF Unanswered
  <2> QED BY <1>1, <1>7, <2>1, <2>2 DEF Unanswered
<1> QED BY <1>8, <1>9, <1>10

\* A future returned and answered its substream: what is still held is not
\* answered, and the substream kept for hand-off is served next.
LEMMA AnsweredSlot ==
    ASSUME SubInv, Sorted, Unanswered, UNCHANGED <<kind, view, net, queue, open, closed, coord>>,
           busy' \in {busy, Free},
           \/ active' = Free /\ deferred' = deferred
           \/ active' = active /\ deferred' = deferred /\ settled' = settled
           \/ deferred # 0 /\ active' = Serving(deferred) /\ deferred' = 0,
           \/ answer' = answer
           \/ \E x \in Streams, h \in {"closed", "ended", "busy"}:
                /\ answer' = [answer EXCEPT ![x] = h]
                /\ (x = active.s /\ active' # active) \/ (x = busy.s /\ busy # Free)
    PROVE  Unanswered' /\ \A t \in Streams: answer[t] # "none" => answer'[t] # "none"
<1>1. /\ Free.phase = "none" /\ Free.s = 0
      /\ deferred # 0 => Serving(deferred).phase = "reading" /\ Serving(deferred).s = deferred
  BY PlaceTypes, SlotFacts
<1>2. answer \in [Streams -> {"none", "dropped", "closed", "ended", "busy"}]
  BY DEF SubInv, TypeOK
<1>3. \A t \in Streams: \/ answer'[t] = answer[t]
                        \/ t = active.s /\ active' # active /\ answer'[t] # "none"
                        \/ t = busy.s /\ busy # Free /\ answer'[t] # "none"
  BY <1>2
<1>4. \A t \in Streams: kind[t] = "none" => answer'[t] = "none"
  BY <1>3, PlaceTypes, SlotFacts DEF Unanswered
<1>5. \A i \in 1..Len(net): net[i].what = "open" => answer'[net[i].s] = "none"
  BY <1>3, PlaceTypes, Distinct DEF Unanswered
<1>6. \A k \in 1..Len(queue): answer'[queue[k]] = "none"
  BY <1>3, PlaceTypes, Distinct DEF Unanswered
<1>7. deferred # 0 => answer'[deferred] = "none"
  BY <1>3, PlaceTypes, Distinct DEF Unanswered
<1>8. active' = active /\ active.phase \in {"reading", "wire"} => answer'[active.s] = "none"
  <2>1. active.phase \in {"reading", "wire"} => active.s \in Streams /\ active # Free
    BY PlaceTypes, SlotFacts
  <2> QED BY <1>3, <2>1, Distinct DEF Unanswered
<1>9. /\ active'.phase \in {"reading", "wire"} => answer'[active'.s] = "none"
      /\ active'.phase \in {"wire", "ending"} => kind[active'.s] # "probe"
      /\ active'.phase = "ending" => settled'
      /\ deferred' # 0 => answer'[deferred'] = "none"
  BY <1>1, <1>7, <1>8 DEF Unanswered
<1>10. busy' # Free => Escaped(busy.s)'
  BY <1>1 DEF Escaped, Unanswered
<1>11. Unanswered'
  BY <1>4, <1>5, <1>6, <1>9, <1>10 DEF Unanswered
<1> QED BY <1>3, <1>11

\* The futures in the two slots make progress, return or fail.
LEMMA ServeSeq ==
    ASSUME SubInv, Sorted, Views, Unanswered,
           \/ ActiveCloses \/ ActiveBegins \/ DownloadRecorded \/ WireSettles
           \/ ActiveEnds \/ BusyEnds
    PROVE  Sorted' /\ Views' /\ Unanswered'
<1>1. active \in {Free} \cup Slots /\ answer \in [Streams -> {"none", "dropped", "closed", "ended", "busy"}]
  BY DEF SubInv, TypeOK
<1>2. active.phase \in {"reading", "wire", "ending"} =>
         active # Free /\ active \in Slots /\ active.s \in Streams
  BY <1>1, SlotFacts
<1>3. Free.s = 0 /\ Free.phase = "none"
  BY SlotFacts
<1>4. CASE ActiveCloses
  <2>1. /\ active.phase = "reading" /\ SlotsFreed(Free, busy) /\ answer' = [answer EXCEPT ![active.s] = "closed"]
        /\ UNCHANGED <<kind, view, net, got, queue, open, busy, closed, coord>>
    BY <1>4 DEF ActiveCloses, Leave, peerVars
  <2>2. \/ active' = Free /\ deferred' = deferred
        \/ busy = Free /\ deferred # 0 /\ active' = Serving(deferred) /\ deferred' = 0 /\ active'.s = deferred
    BY <2>1, PlaceTypes, SlotFacts DEF SlotsFreed
  <2>3. active' # active
    BY <1>2, <2>1, <2>2, Distinct
  <2>4. Sorted'
    BY <1>3, <2>1, <2>2, SortedSlotStep
  <2>5. Unanswered' /\ \A t \in Streams: answer[t] # "none" => answer'[t] # "none"
    BY <1>2, <2>1, <2>2, <2>3, AnsweredSlot
  <2>6. \A t \in Streams: active # [s |-> t, phase |-> "wire"]
    BY <2>1
  <2>7. Views'
    BY <2>1, <2>5, <2>6, ViewsStep
  <2> QED BY <2>4, <2>5, <2>7
<1>5. CASE ActiveBegins
  <2>1. /\ active.phase = "reading" /\ active # Free /\ active \in Slots /\ active.s \in Streams
        /\ kind[active.s] \in {"upload", "download"}
    BY <1>2, <1>5 DEF ActiveBegins
  <2>2. CASE Fails(active.s)
    BY <2>1, <2>2, FailsSeq
  <2>3. CASE /\ active' = [active EXCEPT !.phase = "wire"]
             /\ UNCHANGED <<kind, view, net, got, answer, queue, open, settled, busy, deferred, closed, coord>>
    <3>1. active' \in Slots /\ active'.s = active.s /\ active'.phase = "wire"
      BY <2>1, <2>3, SlotFacts
    <3>2. Sorted'
      BY <2>3, <3>1, SortedSlotStep
    <3>3. \A t \in Streams: active # [s |-> t, phase |-> "wire"]
      BY <2>1
    <3>4. Views'
      BY <2>3, <3>3, ViewsStep
    <3>5. busy' # Free => Escaped(busy.s)'
      BY <2>3 DEF Escaped, Unanswered
    <3>6. Unanswered'
      BY <2>1, <2>3, <3>1, <3>5 DEF Unanswered
    <3> QED BY <3>2, <3>4, <3>6
  <2> QED BY <1>5, <2>2, <2>3 DEF ActiveBegins, peerVars
<1>6. CASE DownloadRecorded
  <2>1. active # Free
    BY <1>2, <1>6 DEF DownloadRecorded
  <2>2. CASE Fails(active.s)
    BY <2>1, <2>2, FailsSeq
  <2>3. CASE UNCHANGED <<kind, view, net, got, answer, queue, open, active, settled,
                         busy, deferred, closed, coord>>
    <3>1. Sorted'
      BY <2>3 DEF Sorted, SortedNet, SortedSlots
    <3>2. Views'
      BY <2>3, ViewsStep
    <3>3. busy' # Free => Escaped(busy.s)'
      BY <2>3 DEF Escaped, Unanswered
    <3>4. Unanswered'
      BY <2>3, <3>3 DEF Unanswered
    <3> QED BY <3>1, <3>2, <3>4
  <2> QED BY <1>6, <2>2, <2>3 DEF DownloadRecorded, peerVars
<1>7. CASE WireSettles
  <2>1. /\ active.phase = "wire" /\ active' = [active EXCEPT !.phase = "ending"] /\ settled' = TRUE
        /\ answer' = [answer EXCEPT ![active.s] = "ended"]
        /\ UNCHANGED <<kind, view, net, got, queue, open, busy, deferred, closed, coord>>
    BY <1>7 DEF WireSettles, Leave, peerVars
  <2>2. /\ active' \in Slots /\ active'.s = active.s /\ active'.phase = "ending"
        /\ active.s \in Streams /\ active # Free
    BY <1>2, <2>1, SlotFacts
  <2>3. Sorted'
    BY <2>1, <2>2, SortedSlotStep
  <2>4. answer'[active.s] = "ended" /\ \A t \in Streams: t # active.s => answer'[t] = answer[t]
    BY <1>1, <2>1, <2>2
  <2>5. Views'
    <3>1. \A t \in Streams: answer[t] # "none" => answer'[t] # "none"
      BY <2>4
    <3>2. \A t \in Streams: active = [s |-> t, phase |-> "wire"] => answer'[t] # "none"
      BY <2>4
    <3> QED BY <2>1, <3>1, <3>2, ViewsStep
  <2>6. Unanswered'
    <3>1. \A t \in Streams: kind'[t] = "none" => answer'[t] = "none"
      BY <2>1, <2>2, <2>4, PlaceTypes DEF Unanswered
    <3>2. \A i \in 1..Len(net'): net'[i].what = "open" => answer'[net'[i].s] = "none"
      BY <2>1, <2>4, PlaceTypes, Distinct DEF Unanswered
    <3>3. \A k \in 1..Len(queue'): answer'[queue'[k]] = "none"
      BY <2>1, <2>4, PlaceTypes, Distinct DEF Unanswered
    <3>4. deferred' # 0 => answer'[deferred'] = "none"
      BY <2>1, <2>4, PlaceTypes, Distinct DEF Unanswered
    <3>5. busy' # Free => Escaped(busy.s)'
      BY <2>1 DEF Escaped, Unanswered
    <3> QED BY <2>1, <2>2, <3>1, <3>2, <3>3, <3>4, <3>5 DEF Unanswered
  <2> QED BY <2>3, <2>5, <2>6
<1>8. CASE ActiveEnds
  <2>1. active.phase = "ending" /\ active # Free /\ active.s \in Streams
    BY <1>2, <1>8 DEF ActiveEnds
  <2>2. CASE Fails(active.s)
    BY <2>1, <2>2, FailsSeq
  <2>3. CASE SlotsFreed(Free, busy) /\ UNCHANGED <<kind, view, net, got, answer, queue, open, busy, closed, coord>>
    <3>1. \/ active' = Free /\ deferred' = deferred
          \/ busy = Free /\ deferred # 0 /\ active' = Serving(deferred) /\ deferred' = 0 /\ active'.s = deferred
      BY <2>3, PlaceTypes, SlotFacts DEF SlotsFreed
    <3>2. Sorted'
      BY <1>3, <2>3, <3>1, SortedSlotStep
    <3>3. Unanswered' /\ \A t \in Streams: answer[t] # "none" => answer'[t] # "none"
      BY <2>3, <3>1, AnsweredSlot
    <3>4. \A t \in Streams: active # [s |-> t, phase |-> "wire"]
      BY <2>1
    <3>5. Views'
      BY <2>3, <3>3, <3>4, ViewsStep
    <3> QED BY <3>2, <3>3, <3>5
  <2> QED BY <1>8, <2>2, <2>3 DEF ActiveEnds, peerVars
<1>9. CASE BusyEnds
  <2>1. /\ busy # Free /\ busy' = Free /\ SlotsFreed(active, Free)
        /\ \E how \in {"busy", "closed"}: answer' = [answer EXCEPT ![busy.s] = how]
        /\ UNCHANGED <<kind, view, net, got, queue, open, closed, coord>>
    BY <1>9 DEF BusyEnds, Leave, peerVars
  <2>2. \/ active' = active /\ deferred' = deferred /\ settled' = settled
        \/ active = Free /\ deferred # 0 /\ active' = Serving(deferred) /\ deferred' = 0 /\ active'.s = deferred
    BY <2>1, PlaceTypes, SlotFacts DEF SlotsFreed
  <2>3. Sorted'
    BY <2>1, <2>2, SortedSlotStep
  <2>4. Unanswered' /\ \A t \in Streams: answer[t] # "none" => answer'[t] # "none"
    BY <2>1, <2>2, PlaceTypes, AnsweredSlot
  <2>5. \A t \in Streams: active = [s |-> t, phase |-> "wire"] => active' = active
    BY <1>3, <2>2
  <2>6. Views'
    BY <2>1, <2>4, <2>5, ViewsStep
  <2> QED BY <2>3, <2>4, <2>6
<1> QED BY <1>4, <1>5, <1>6, <1>7, <1>8, <1>9

\* A substream that waits behind an unsettled active one was opened after the
\* controller cancelled: everything else the controller could have read or
\* written to end that operation would make the active future ready first.
LEMMA WaitsBehindCancel ==
    ASSUME SubInv, Sorted, Views, Unanswered, queue # <<>>, active # Free, ~settled, ~CanRead(active)
    PROVE  Escaped(Head(queue))
<1>1. /\ Len(queue) = 1 /\ queue[1] = Head(queue) /\ Head(queue) \in Streams /\ 1 \in 1..Len(queue)
      /\ kind[Head(queue)] # "none"
  BY HeadFacts
<1>2. PICK s \in Streams, t \in Streams :
        /\ s = Head(queue) /\ t = active.s /\ t < s /\ kind[t] # "none"
        /\ \A i \in 1..Len(net): s <= net[i].s
  <2>1. active.s \in Streams /\ kind[active.s] # "none"
    BY PlaceTypes
  <2> QED BY <1>1, <2>1 DEF Sorted, SortedSlots, SortedNet
<1>3. active.phase \in {"reading", "wire"} /\ answer[t] = "none"
  <2>1. active.phase \in {"reading", "wire", "ending"}
    BY PlaceTypes, SlotFacts
  <2> QED BY <1>2, <2>1 DEF Unanswered
<1>4. view[t] # "open" /\ view[t] # "none" /\ view[t] # "settled"
  BY <1>1, <1>2, <1>3 DEF Views
<1>5. \A w \in {"first", "last"}: ~InNet(Part(t, w))
  <2>1. \A w \in {"first", "last"}: Part(t, w).s = t
    BY PartFacts
  <2>2. ~(s <= t)
    BY <1>2, SlotFacts
  <2> QED BY <1>2, <2>1, <2>2 DEF InNet
<1>6. view[t] # "committed"
  <2> SUFFICES ASSUME view[t] = "committed" PROVE FALSE
    OBVIOUS
  <2>1. active = [s |-> t, phase |-> "wire"] /\ "last" \in got[t]
    BY <1>3, <1>5 DEF Views
  <2> QED BY <2>1 DEF CanRead
<1>7. view[t] # "closed"
  <2> SUFFICES ASSUME view[t] = "closed" PROVE FALSE
    OBVIOUS
  <2>1. kind[t] = "probe" /\ "first" \in got[t]
    BY <1>5 DEF Views
  <2>2. active.phase = "reading"
    BY <1>2, <1>3, <2>1 DEF Unanswered
  <2> QED BY <1>2, <2>1, <2>2 DEF CanRead
<1>8. view[t] = "cancelled"
  BY <1>4, <1>6, <1>7 DEF SubInv, TypeOK
<1>9. t \in 1..(s - 1)
  BY <1>2, SlotFacts
<1> QED BY <1>2, <1>8, <1>9 DEF Escaped

\* What follows an escaped substream has escaped too.
LEMMA EscapedLater ==
    ASSUME NEW x \in Streams, NEW y \in Streams, x < y, Escaped(x)
    PROVE  Escaped(y)
<1>1. \A t \in 1..(x - 1): t \in 1..(y - 1)
  BY SlotFacts
<1> QED BY <1>1 DEF Escaped

\* The coordinator takes the next substream in one of the four roles.
LEMMA TakesSeq ==
    ASSUME SubInv, Sorted, Views, Unanswered, Takes
    PROVE  Sorted' /\ Views' /\ Unanswered'
<1> DEFINE s == Head(queue)
           role == file_substream_disposition(active # Free, settled, busy # Free)
<1>1. /\ queue # <<>> /\ deferred = 0 /\ queue' = Tail(queue) /\ ~CanRead(active)
      /\ UNCHANGED <<kind, view, net, got, open, closed, coord>>
      /\ \/ /\ role = "Active"
            /\ active' = Serving(s) /\ settled' = FALSE
            /\ UNCHANGED <<answer, busy, deferred>>
         \/ role = "Busy" /\ busy' = Serving(s) /\ UNCHANGED <<answer, active, settled, deferred>>
         \/ deferred' = s /\ UNCHANGED <<answer, active, settled, busy>>
         \/ answer' = [answer EXCEPT ![s] = "dropped"] /\ UNCHANGED <<active, settled, busy, deferred>>
  BY DEF Takes, peerVars, Leave
<1>2. /\ s \in Streams /\ queue' = <<>> /\ queue[1] = s /\ 1 \in 1..Len(queue)
      /\ kind[s] # "none" /\ \A i \in 1..Len(net): net[i].what = "open" => net[i].s # s
  BY <1>1, HeadFacts
<1>3. /\ role = "Active" => active = Free /\ busy = Free
      /\ role = "Busy" => active # Free /\ ~settled /\ busy = Free
  BY Dispositions DEF SubInv, TypeOK
<1>4. role = "Busy" => Escaped(s)
  BY <1>1, <1>3, WaitsBehindCancel
<1> HIDE DEF s, role
<1>5. /\ Serving(s).s = s /\ Serving(s).phase = "reading" /\ Serving(s) # Free /\ s \in Nat /\ 0 < s
      /\ Free.phase = "none" /\ Free.s = 0 /\ Streams \subseteq Nat
      /\ answer \in [Streams -> {"none", "dropped", "closed", "ended", "busy"}]
  BY <1>2, SlotFacts, SessionsAssumption DEF Streams, SubInv, TypeOK
<1>6. \A k \in 1..Len(queue'): FALSE
  BY <1>2
<1>7. /\ active.s < s /\ busy.s < s /\ answer[s] = "none"
      /\ \A i \in 1..Len(net): s <= net[i].s /\ (net[i].what = "open" => s < net[i].s)
  <2>1. active.s < s /\ busy.s < s /\ answer[s] = "none"
    BY <1>2 DEF Sorted, SortedSlots, Unanswered
  <2>2. \A i \in 1..Len(net): s <= net[i].s
    BY <1>2 DEF Sorted, SortedNet
  <2>3. \A i \in 1..Len(net): net[i].s \in Nat
    BY <1>5, PlaceTypes
  <2>4. \A i \in 1..Len(net): net[i].what = "open" => s < net[i].s
    BY <1>2, <1>5, <2>2, <2>3
  <2> QED BY <2>1, <2>2, <2>4
<1>8. Sorted'
  <2>1. SortedSlots'
    BY <1>1, <1>3, <1>5, <1>6, <1>7 DEF SortedSlots, Sorted
  <2>2. SortedNet(net)'
    <3>1. \A i \in 1..Len(net):
            /\ active'.s <= net[i].s /\ busy'.s <= net[i].s /\ deferred' <= net[i].s
            /\ net[i].what = "open" => busy'.s < net[i].s
      BY <1>1, <1>5, <1>7 DEF Sorted, SortedNet
    <3> QED BY <1>1, <1>6, <3>1 DEF Sorted, SortedNet
  <2> QED BY <2>1, <2>2 DEF Sorted
<1>9. /\ \A t \in Streams: answer[t] # "none" => answer'[t] # "none"
      /\ \A t \in Streams: t # s => answer'[t] = answer[t]
      /\ answer' = answer \/ UNCHANGED <<active, busy, deferred>>
  BY <1>1, <1>2, <1>5
<1>10. Views'
  <2>1. \A t \in Streams: active = [s |-> t, phase |-> "wire"] => active' = active
    BY <1>1, <1>3, <1>5
  <2> QED BY <1>1, <1>9, <2>1, ViewsStep
<1>11. Unanswered'
  <2>1. \A t \in Streams: kind'[t] = "none" => answer'[t] = "none"
    BY <1>1, <1>2, <1>9 DEF Unanswered
  <2>2. \A i \in 1..Len(net'): net'[i].what = "open" => answer'[net'[i].s] = "none"
    BY <1>1, <1>2, <1>9, PlaceTypes DEF Unanswered
  <2>3. deferred' # 0 => answer'[deferred'] = "none"
    BY <1>1, <1>7
  <2>4. /\ active'.phase \in {"reading", "wire"} => answer'[active'.s] = "none"
        /\ active'.phase \in {"wire", "ending"} => kind'[active'.s] # "probe"
        /\ active'.phase = "ending" => settled'
    <3>1. CASE active' = active /\ settled' = settled
      <4>1. active.phase \in {"reading", "wire"} => active.s \in Streams /\ active.s # s
        BY <1>5, <1>7, PlaceTypes, SlotFacts
      <4> QED BY <1>1, <1>9, <3>1, <4>1 DEF Unanswered
    <3>2. CASE active' = Serving(s) /\ answer' = answer
      BY <1>5, <1>7, <3>2
    <3> QED BY <1>1, <3>1, <3>2
  <2>5. busy' # Free => Escaped(busy.s)'
    <3>1. CASE busy' = busy
      BY <1>1, <3>1 DEF Escaped, Unanswered
    <3>2. CASE role = "Busy" /\ busy' = Serving(s)
      BY <1>1, <1>4, <1>5, <3>2 DEF Escaped
    <3> QED BY <1>1, <3>1, <3>2
  <2> QED BY <1>1, <1>6, <2>1, <2>2, <2>3, <2>4, <2>5 DEF Unanswered
<1> QED BY <1>8, <1>10, <1>11

\* The coordinator sees its channel closed, or returns.
LEMMA ReturnSeq ==
    ASSUME SubInv, Sorted, Views, Unanswered, SeesClosed \/ Returns
    PROVE  Sorted' /\ Views' /\ Unanswered'
<1>1. /\ UNCHANGED <<kind, view, net, got, answer, queue, open, active, settled, busy, deferred>>
      /\ ~open /\ closed \in BOOLEAN
  BY DEF SeesClosed, Returns, peerVars, Unanswered, SubInv, TypeOK
<1>2. Sorted'
  BY <1>1 DEF Sorted, SortedNet, SortedSlots
<1>3. Views'
  BY <1>1, ViewsStep
<1>4. busy' # Free => Escaped(busy.s)'
  BY <1>1 DEF Escaped, Unanswered
<1>5. Unanswered'
  BY <1>1, <1>4 DEF Unanswered
<1> QED BY <1>2, <1>3, <1>5

\* Every step of a sequential session keeps its substreams in turn.
LEMMA NextSeq == SubInv /\ SeqInv /\ [Next]_vars => SeqInv'
<1> SUFFICES ASSUME SubInv, SeqInv, [Next]_vars, Sequential' PROVE Sorted' /\ Views' /\ Unanswered'
  BY DEF SeqInv
<1>0. UNCHANGED given
  BY DEF Next, vars
<1>1. Sequential /\ Sorted /\ Views /\ Unanswered
  BY <1>0 DEF Sequential, SeqInv
<1>2. CASE Next
  <2>1. CASE Controller
    <3>1. ~OpenSilently
      BY <1>1 DEF OpenSilently, Sequential
    <3> QED BY <1>0, <1>1, <2>1, <3>1, OpenSeq, EndSeq DEF Controller
  <2>2. CASE Arrives
    BY <1>0, <1>1, <2>2, ArriveSeq
  <2>3. CASE Readable \/ Closing
    BY <1>0, <1>1, <2>3, ReadSeq
  <2>4. CASE Coordinator
    BY <1>1, <2>4, ServeSeq, TakesSeq, ReturnSeq DEF Coordinator
  <2> QED BY <1>2, <2>1, <2>2, <2>3, <2>4 DEF Next
<1>3. CASE UNCHANGED vars
  <2>1. UNCHANGED <<kind, view, net, got, answer, queue, open, active, settled,
                    busy, deferred, closed, coord>>
    BY <1>3 DEF vars, sessionVars, peerVars, coordVars
  <2>2. Sorted'
    BY <1>1, <2>1 DEF Sorted, SortedNet, SortedSlots
  <2>3. Views'
    BY <1>1, <2>1, ViewsStep
  <2>4. busy' # Free => Escaped(busy.s)'
    BY <1>1, <2>1 DEF Escaped, Unanswered
  <2>5. Unanswered'
    BY <1>1, <2>1, <2>4 DEF Unanswered
  <2> QED BY <2>2, <2>3, <2>5
<1> QED BY <1>2, <1>3

\* Who is refused, and why.
LEMMA Refused ==
    ASSUME SubInv, Sequential, Sorted, Views, Unanswered, Next,
           NEW s \in Streams, open, answer[s] = "none", answer'[s] \in {"busy", "dropped"}
    PROVE  \E t \in 1..(s - 1): view[t] = "cancelled" \/ (kind[t] = "probe" /\ answer[t] = "none")
<1>1. answer \in [Streams -> {"none", "dropped", "closed", "ended", "busy"}]
  BY DEF SubInv, TypeOK
<1>2. CASE Arrives
  <2>1. /\ 1 \in 1..Len(net) /\ net[1].what = "open"
        /\ LET kept == open /\ coord = "run" /\ Len(queue) < 1 IN
           answer' = IF kept THEN answer ELSE [answer EXCEPT ![net[1].s] = "dropped"]
    <3>1. PICK i \in Deliverable :
            /\ net[i].what = "open"
            /\ LET kept == open /\ coord = "run" /\ Len(queue) < 1 IN
               answer' = IF kept THEN answer ELSE [answer EXCEPT ![net[i].s] = "dropped"]
      BY <1>2 DEF Arrives
    <3> QED BY <3>1, InOrder
  <2>2. s = net[1].s /\ ~(Len(queue) < 1) /\ kind[s] # "none"
    <3>1. answer' # answer
      OBVIOUS
    <3>2. coord = "run"
      BY DEF Unanswered
    <3>3. answer' = [answer EXCEPT ![net[1].s] = "dropped"] /\ ~(Len(queue) < 1)
      BY <2>1, <3>1, <3>2
    <3>4. s = net[1].s
      BY <1>1, <2>1, <3>3, PlaceTypes
    <3> QED BY <2>1, <3>3, <3>4, PlaceTypes
  <2>3. queue # <<>>
    <3>1. Len(<<>>) < 1
      OBVIOUS
    <3> QED BY <2>2, <3>1
  <2>4. PICK t \in Streams :
          /\ t = queue[1] /\ t < s /\ answer[t] = "none" /\ t # active.s /\ kind[t] # "none"
    <3>1. 1 \in 1..Len(queue) /\ queue[1] \in Streams /\ kind[queue[1]] # "none" /\ queue[1] # active.s
      BY <2>3, HeadFacts, PlaceTypes
    <3>2. queue[1] <= s
      BY <2>1, <2>2, <3>1 DEF Sorted, SortedNet
    <3>3. queue[1] # s
      BY <2>1, <2>2, <3>1, Distinct
    <3>4. queue[1] < s
      BY <3>1, <3>2, <3>3, SlotFacts
    <3> QED BY <3>1, <3>4 DEF Unanswered
  <2>5. view[t] \notin {"none", "open", "settled", "committed"}
    <3>1. active # [s |-> t, phase |-> "wire"]
      BY <2>4
    <3> QED BY <2>2, <2>4, <3>1 DEF Views
  <2>6. view[t] = "cancelled" \/ kind[t] = "probe"
    BY <2>5 DEF Views, SubInv, TypeOK
  <2>7. t \in 1..(s - 1)
    BY <2>4, SlotFacts
  <2> QED BY <2>4, <2>6, <2>7
<1>3. CASE BusyEnds
  <2>1. busy # Free /\ \E how \in {"busy", "closed"}: answer' = [answer EXCEPT ![busy.s] = how]
    BY <1>3 DEF BusyEnds, Leave
  <2>2. busy.s = s
    BY <1>1, <2>1, PlaceTypes
  <2> QED BY <2>1, <2>2 DEF Unanswered, Escaped
<1>4. CASE Takes
  <2>1. /\ queue # <<>> /\ ~CanRead(active)
        /\ \/ answer' = answer
           \/ /\ file_substream_disposition(active # Free, settled, busy # Free) = "Drop"
              /\ answer' = [answer EXCEPT ![Head(queue)] = "dropped"]
    BY <1>4 DEF Takes, Leave
  <2>2. Head(queue) \in Streams
    BY <2>1, HeadFacts
  <2>3. s = Head(queue) /\ file_substream_disposition(active # Free, settled, busy # Free) = "Drop"
    BY <1>1, <2>1, <2>2
  <2>4. active # Free /\ ~settled
    BY <2>3, Dispositions DEF SubInv, TypeOK
  <2> QED BY <2>1, <2>3, <2>4, WaitsBehindCancel DEF Escaped
<1>5. ASSUME answer' = answer PROVE FALSE
  BY <1>5
<1>6. ASSUME NEW x, Fails(x) PROVE FALSE
  <2>1. answer'[s] \in {answer[s], "closed"}
    BY <1>6 DEF Fails
  <2> QED BY <2>1
<1>7. ASSUME NEW x, NEW h \in {"closed", "ended"}, answer' = [answer EXCEPT ![x] = h] PROVE FALSE
  BY <1>1, <1>7
<1>8. ~Controller /\ ~Readable /\ ~Closing /\ ~SeesClosed /\ ~Returns
  BY <1>5 DEF Controller, OpenSubstream, OpenSilently, ReadsEnd, Leaves, Readable, Closing, SeesClosed, Returns
<1>9. ~ActiveCloses /\ ~WireSettles
  BY <1>7 DEF ActiveCloses, WireSettles, Leave
<1>10. ~ActiveBegins /\ ~DownloadRecorded /\ ~ActiveEnds
  BY <1>5, <1>6 DEF ActiveBegins, DownloadRecorded, ActiveEnds
<1> QED BY <1>2, <1>3, <1>4, <1>8, <1>9, <1>10 DEF Next, Coordinator

\* For any number of substreams: a controller that waits for its last operation
\* over a transport that keeps the order is never answered Busy nor dropped
\* while the session is open, unless it cancelled an earlier operation or its
\* probe has not been served; the transfer whose end record the host is still
\* appending never costs it the next.
THEOREM SubstreamsNotRefused == Spec => SequentialNotRefused
<1>1. Init => SubInv /\ SeqInv
  BY InitSub, InitSeq
<1>2. SubInv /\ SeqInv /\ [Next]_vars =>
        [~given.concurrent /\ given.ordered =>
           \A s \in Streams:
               open /\ answer[s] = "none" /\ answer'[s] \in {"busy", "dropped"} =>
                   \E t \in 1..(s - 1):
                       \/ view[t] = "cancelled"
                       \/ kind[t] = "probe" /\ answer[t] = "none"]_vars
  <2> SUFFICES ASSUME SubInv, SeqInv, Next, Sequential,
                      NEW s \in Streams, open, answer[s] = "none", answer'[s] \in {"busy", "dropped"}
               PROVE  \E t \in 1..(s - 1): view[t] = "cancelled" \/ (kind[t] = "probe" /\ answer[t] = "none")
    BY DEF Sequential
  <2>1. Sorted /\ Views /\ Unanswered
    BY DEF SeqInv
  <2> QED BY <2>1, Refused
<1> QED BY <1>1, <1>2, NextSub, NextSeq, PTL DEF Spec, SequentialNotRefused
=============================================================================
