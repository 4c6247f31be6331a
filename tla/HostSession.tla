---------------------------- MODULE HostSession ----------------------------
(***************************************************************************)
(* One run of a host (crates/yon/src/host.rs, HostSession::run): wait for  *)
(* a controller, let its connection settle, bind to that one connection,   *)
(* authenticate, collect the terminal streams, open the PTY, commit the    *)
(* one-time code, bridge the terminal, and clean up.  Swarm events, lost   *)
(* relay leases, timeouts and signals arrive at every await.               *)
(*                                                                         *)
(* The endpoint driver is polled inside each phase, so a roster event and  *)
(* the phase's reaction to it are one action.  The phases are the awaits   *)
(* of the loop; the TargetSession automaton (yonder-core/src/session.rs)   *)
(* is kept beside them exactly as the code keeps it.                       *)
(***************************************************************************)
EXTENDS Naturals, FiniteSets

CONSTANTS
    Controllers,     \* PeerIds that know the host's address
    Conns,           \* ConnectionIds
    Direct,          \* the connections that are not relayed
    RosterCapacity,  \* PER_PEER_CAPACITY of the ConnectionBook
    None,            \* no connection, no peer
    MaxCode          \* bound: replacement codes of one run

ASSUME HostAssumption ==
    /\ Direct \subseteq Conns
    /\ None \notin Conns \cup Controllers
    /\ RosterCapacity \in Nat /\ RosterCapacity >= 2
    /\ MaxCode \in Nat \ {0}

VARIABLES
    roster,       \* ConnectionBook of the endpoint driver
    upgrade,      \* DirectUpgradeTracker outcome per peer
    lease,        \* ReservationLease::is_usable
    phase,        \* where HostSession::run awaits
    session,      \* TargetSession
    binding,      \* ConnectionBinding, with None while it is still unknown
    streams,      \* what acknowledge_and_wait_for_terminal_streams has so far
    pty,          \* a terminal is open
    authed,       \* history: connection and code the controller authenticated with
    code,         \* history: number of the advertised code
    interrupted,  \* history: a select received a shutdown signal
    outcome       \* what run() returns

netVars == <<roster, upgrade>>
loopVars == <<phase, session, binding, streams, pty, authed, outcome>>
hostVars == <<netVars, lease, loopVars, code, interrupted>>

Unbound == [peer |-> None, conn |-> None]
NoStreams == {}
Handshake == {"ack", "data", "control"}
NoAuth == [conn |-> None, code |-> 0]

HostInit ==
    /\ roster = [p \in Controllers |-> {}]
    /\ upgrade = [p \in Controllers |-> "none"]
    /\ lease = TRUE
    /\ phase = "idle"
    /\ session = "Advertised"
    /\ binding = Unbound
    /\ streams = NoStreams
    /\ pty = FALSE
    /\ authed = NoAuth
    /\ code = 1
    /\ interrupted = FALSE
    /\ outcome = "none"

-----------------------------------------------------------------------------
(* TargetSession *)

\* What sends an authenticated but not yet active session back to waiting.
AbortEvents == {"TerminalStartFailed", "ConnectionLost", "ExtraConnection"}

\* Mutant of ActiveEndsAs: losing an active session offers the code again.
ActiveEndsAsOffer == "Advertised"

\* Whatever ends an active session, its code stays consumed.
ActiveEndsAs == "Spent"

\* apply(): the next state, or Invalid where the code returns TransitionError.
Apply(state, event) ==
    CASE state = "Advertised" /\ event = "BeginAuthentication" -> "Authenticating"
      [] state = "Authenticating" /\ event = "AuthenticationSucceeded" -> "AwaitingTerminal"
      [] state = "Authenticating"
         /\ event \in {"AuthenticationFailed", "ConnectionLost", "ExtraConnection"} -> "Advertised"
      [] state = "AwaitingTerminal" /\ event = "TerminalStreamsReady" -> "StartingTerminal"
      [] state \in {"AwaitingTerminal", "StartingTerminal"} /\ event \in AbortEvents -> "Advertised"
      [] state = "StartingTerminal" /\ event = "TerminalReadyFlushed" -> "Active"
      [] state = "Active"
         /\ event \in {"ShellExited", "ConnectionLost", "ExtraConnection"} -> ActiveEndsAs
      [] state = "Spent" /\ event \in {"ShellExited", "ConnectionLost"} -> "Spent"
      [] OTHER -> "Invalid"

\* Session after an optional event.
After(event) == IF event = "none" THEN session ELSE Apply(session, event)

\* is_consumed().
Consumed == session \in {"Active", "Spent"}

-----------------------------------------------------------------------------
(* Ways out of an attempt *)

\* The attempt is over: what belonged to it is dropped, the PTY with it
\* (its drop guard kills the shell), and the loop continues at phase next.
EndAttempt(event, next) ==
    /\ session' = After(event)
    /\ phase' = next
    /\ binding' = IF next = "settle" THEN binding ELSE Unbound
    /\ streams' = NoStreams
    /\ pty' = FALSE
    /\ authed' = NoAuth
    /\ UNCHANGED outcome

\* run() returns; release_locator and remove_reservation follow.
Finish(event, result) ==
    /\ session' = After(event)
    /\ phase' = "cleanup"
    /\ binding' = Unbound
    /\ streams' = NoStreams
    /\ pty' = FALSE
    /\ authed' = NoAuth
    /\ outcome' = result

\* The loop stays in its phase.
Stay == UNCHANGED loopVars

-----------------------------------------------------------------------------
(* The roster *)

\* Phases that run enforce_binding on every roster event of the bound peer.
Enforcing == {"hello", "retry", "auth", "ack", "start", "release", "bridge", "finalize"}

\* binding_event: another connection beside the bound one, or none left.
BindingEvent(p) == IF roster'[p] # {} THEN "ExtraConnection" ELSE "ConnectionLost"

\* settle_binding_change waits until an ambiguous peer is fully disconnected.
Settle(p) == IF roster'[p] # {} THEN "settle" ELSE "idle"

\* The bound peer's roster changed under the loop.
BindingBroken(p) ==
    \/ phase \in {"hello", "retry"} /\ EndAttempt("none", Settle(p))
    \/ phase \in {"auth", "ack", "start"} /\ EndAttempt(BindingEvent(p), Settle(p))
    \/ /\ phase = "release"          \* only warned about; the bridge checks again
       /\ phase' = "bridge"
       /\ UNCHANGED <<session, binding, streams, pty, authed, outcome>>
    \/ phase = "bridge" /\ Finish(BindingEvent(p), "error")
    \/ phase = "finalize" /\ Finish("ConnectionLost", "error")

React(p) == IF phase \in Enforcing /\ p = binding.peer THEN BindingBroken(p) ELSE Stay

\* A ConnectionId is used once; one nothing refers to stands for a new one.
Unused(c) == (\A p \in Controllers : c \notin roster[p]) /\ binding.conn # c

\* record_established: a relayed connection starts a direct upgrade.
Established(p, c) ==
    /\ phase # "ended"
    /\ Unused(c)
    /\ Cardinality(roster[p]) < RosterCapacity
    /\ roster' = [roster EXCEPT ![p] = @ \cup {c}]
    /\ upgrade' = IF c \in Direct THEN upgrade ELSE [upgrade EXCEPT ![p] = "pending"]
    /\ React(p)
    /\ UNCHANGED <<lease, code, interrupted>>

\* Beyond the roster's capacity a connection is closed without an event; a
\* relayed one has restarted the peer's upgrade by then.
Overflow(p, c) ==
    /\ phase # "ended"
    /\ Unused(c)
    /\ c \notin Direct
    /\ Cardinality(roster[p]) >= RosterCapacity
    /\ upgrade' = [upgrade EXCEPT ![p] = "pending"]
    /\ Stay
    /\ UNCHANGED <<roster, lease, code, interrupted>>

Closed(p, c) ==
    /\ phase # "ended"
    /\ c \in roster[p]
    /\ roster' = [roster EXCEPT ![p] = @ \ {c}]
    /\ upgrade' = IF roster'[p] = {} THEN [upgrade EXCEPT ![p] = "none"] ELSE upgrade
    /\ React(p)
    /\ UNCHANGED <<lease, code, interrupted>>

\* A DCUtR result for a peer the tracker knows.
UpgradeFinished(p, result) ==
    /\ phase # "ended"
    /\ upgrade[p] # "none"
    /\ upgrade' = [upgrade EXCEPT ![p] = result]
    /\ Stay
    /\ UNCHANGED <<roster, lease, code, interrupted>>

-----------------------------------------------------------------------------
(* The relay lease *)

LeaseLost ==
    /\ phase # "ended"
    /\ lease
    /\ lease' = FALSE
    /\ Stay
    /\ UNCHANGED <<netVars, code, interrupted>>

RecoveryStarts ==
    /\ phase = "idle"
    /\ ~lease
    /\ phase' = "recover"
    /\ UNCHANGED <<netVars, lease, session, binding, streams, pty, authed, outcome,
                   code, interrupted>>

\* RelayRecovery::run: the locator is reclaimed, or after a conflict a new
\* code is displayed; retryable failures loop, others end the host.
Recovered(next) ==
    /\ phase = "recover"
    /\ next \in {code, code + 1} /\ next <= MaxCode
    /\ code' = next
    /\ lease' = TRUE
    /\ phase' = "idle"
    /\ UNCHANGED <<netVars, session, binding, streams, pty, authed, outcome, interrupted>>

RecoveryFails ==
    /\ phase = "recover"
    /\ Finish("none", "error")
    /\ UNCHANGED <<netVars, lease, code, interrupted>>

-----------------------------------------------------------------------------
(* From an authentication stream to the bound connection *)

\* wait_for_auth checks the lease before every wait.
AuthStream(p) ==
    /\ phase = "idle"
    /\ lease
    /\ roster[p] # {}
    /\ phase' = "quiescence"
    /\ binding' = [peer |-> p, conn |-> None]
    /\ UNCHANGED <<netVars, lease, session, streams, pty, authed, outcome, code, interrupted>>

\* Mutant of UpgradeReady: a pending upgrade is not waited for.
UpgradeReadyAlways(p, c) == c \in roster[p]

\* direct_upgrade_ready(): a relayed connection counts once its upgrade failed.
UpgradeReady(p, c) == c \in Direct \/ upgrade[p] = "failed"

\* wait_for_controller_quiescence binds to the peer's only connection.
Bind(c) ==
    /\ phase = "quiescence"
    /\ roster[binding.peer] = {c}
    /\ UpgradeReady(binding.peer, c)
    /\ binding' = [binding EXCEPT !.conn = c]
    /\ phase' = "hello"
    /\ UNCHANGED <<netVars, lease, session, streams, pty, authed, outcome, code, interrupted>>

\* PRE_AUTH_QUIESCENCE_TIMEOUT: the peer is disconnected; whether that
\* converges or not the loop goes on.
QuiescenceTimeout ==
    /\ phase = "quiescence"
    /\ phase' = "evict"
    /\ UNCHANGED <<netVars, lease, session, binding, streams, pty, authed, outcome,
                   code, interrupted>>

Evicted ==
    /\ phase = "evict"
    /\ EndAttempt("none", "idle")
    /\ UNCHANGED <<netVars, lease, code, interrupted>>

\* Mutant of Settled: close_peer_and_wait has no deadline.
SettledPatient ==
    /\ phase = "settle"
    /\ roster[binding.peer] = {}
    /\ EndAttempt("none", "idle")
    /\ UNCHANGED <<netVars, lease, code, interrupted>>

\* close_peer_and_wait converges, or fails and with it the host.
Settled ==
    /\ phase = "settle"
    /\ \/ roster[binding.peer] = {} /\ EndAttempt("none", "idle")
       \/ roster[binding.peer] # {} /\ Finish("none", "error")
    /\ UNCHANGED <<netVars, lease, code, interrupted>>

-----------------------------------------------------------------------------
(* Authentication *)

Move(event, next) ==
    /\ session' = After(event)
    /\ phase' = next
    /\ UNCHANGED <<netVars, lease, binding, code, interrupted, outcome>>

\* The hello is read; the rate limiter decides.
HelloRead ==
    /\ phase = "hello"
    /\ \/ Move("BeginAuthentication", "auth")
       \/ Move("none", "retry")
    /\ UNCHANGED <<streams, pty, authed>>

\* A malformed hello, and a Retry sent or not, leave the session as it was.
HelloRejected ==
    /\ phase \in {"hello", "retry"}
    /\ EndAttempt("none", "idle")
    /\ UNCHANGED <<netVars, lease, code, interrupted>>

AuthSucceeds ==
    /\ phase = "auth"
    /\ Move("AuthenticationSucceeded", "ack")
    /\ authed' = [conn |-> binding.conn, code |-> code]
    /\ UNCHANGED <<streams, pty>>

AuthFails ==
    /\ phase = "auth"
    /\ EndAttempt("AuthenticationFailed", "idle")
    /\ UNCHANGED <<netVars, lease, code, interrupted>>

\* The flushed acknowledgement and the first data and control stream of the
\* controller, in any order; the third of them ends the wait.
StreamsProgress(part) ==
    /\ phase = "ack"
    /\ part \notin streams
    /\ streams' = streams \cup {part}
    /\ IF streams' = Handshake THEN Move("TerminalStreamsReady", "start")
                               ELSE Move("none", "ack")
    /\ UNCHANGED <<pty, authed>>

\* The last stream is there, but an enterprise host finds no audit directory.
NoAuditRoot ==
    /\ phase = "ack"
    /\ \E part \in Handshake : streams = Handshake \ {part}
    /\ Finish("TerminalStreamsReady", "error")
    /\ UNCHANGED <<netVars, lease, code, interrupted>>

\* Deadlines and failed writes.
StreamsFail ==
    /\ phase = "ack"
    /\ EndAttempt("ConnectionLost", "idle")
    /\ UNCHANGED <<netVars, lease, code, interrupted>>

-----------------------------------------------------------------------------
(* The terminal *)

\* start_terminal: hello, audit handshake and PTY.
OpenPty ==
    /\ phase = "start"
    /\ ~pty
    /\ pty' = TRUE
    /\ UNCHANGED <<netVars, lease, phase, session, binding, streams, authed, outcome,
                   code, interrupted>>

\* TerminalReady is flushed: the code is consumed.
ReadyFlushed ==
    /\ phase = "start"
    /\ pty
    /\ Move("TerminalReadyFlushed", "release")
    /\ UNCHANGED <<streams, pty, authed>>

\* Any failure before the flush; an opened PTY is shut down.
StartFails ==
    /\ phase = "start"
    /\ EndAttempt("TerminalStartFailed", "idle")
    /\ UNCHANGED <<netVars, lease, code, interrupted>>

\* release_locator_bound: acknowledged or not, the terminal starts.
Released ==
    /\ phase = "release"
    /\ Move("none", "bridge")
    /\ UNCHANGED <<streams, pty, authed>>

\* The bridge begins with enforce_binding, which covers what happened while
\* the locator was being released.
BridgeUnbound ==
    /\ phase = "bridge"
    /\ roster[binding.peer] # {binding.conn}
    /\ Finish(IF roster[binding.peer] # {} THEN "ExtraConnection" ELSE "ConnectionLost",
              "error")
    /\ UNCHANGED <<netVars, lease, code, interrupted>>

\* The shell exits and its PTY is shut down; the audit is finalized.
ShellExits ==
    /\ phase = "bridge"
    /\ roster[binding.peer] = {binding.conn}
    /\ phase' = "finalize"
    /\ pty' = FALSE
    /\ UNCHANGED <<netVars, lease, session, binding, streams, authed, outcome, code, interrupted>>

BridgeFails ==
    /\ phase = "bridge"
    /\ Finish("ConnectionLost", "error")
    /\ UNCHANGED <<netVars, lease, code, interrupted>>

Finalized ==
    /\ phase = "finalize"
    /\ \/ Finish("ShellExited", "code")
       \/ Finish("ConnectionLost", "error")
    /\ UNCHANGED <<netVars, lease, code, interrupted>>

\* Locator release and reservation removal of run_host_session.
Cleanup ==
    /\ phase = "cleanup"
    /\ phase' = "ended"
    /\ lease' = FALSE
    /\ UNCHANGED <<netVars, session, binding, streams, pty, authed, outcome, code, interrupted>>

-----------------------------------------------------------------------------
(* Signals *)

\* A select received a shutdown signal.  Most awaits return Interrupted from
\* run(); the waits for quiescence and for terminal streams return it to a
\* loop that treats it as one more failed attempt.
Interrupt ==
    /\ ~interrupted
    /\ interrupted' = TRUE
    /\ \/ phase \in {"idle", "recover", "hello", "retry", "auth"} /\ Finish("none", "interrupted")
       \/ phase = "quiescence" /\ EndAttempt("none", "idle")
       \/ phase = "ack" /\ EndAttempt("ConnectionLost", "idle")
       \/ phase = "start" /\ Finish("TerminalStartFailed", "interrupted")
       \/ phase = "bridge" /\ Finish("ConnectionLost", "interrupted")
    /\ UNCHANGED <<netVars, lease, code>>

Environment ==
    \/ \E p \in Controllers, c \in Conns :
          Established(p, c) \/ Overflow(p, c) \/ Closed(p, c)
    \/ \E p \in Controllers : \/ UpgradeFinished(p, "failed")
                              \/ UpgradeFinished(p, "connected")
                              \/ AuthStream(p)
    \/ LeaseLost
    \/ Interrupt

\* The steps a phase takes by itself, its deadlines included.
Attempt ==
    \/ \E c \in Conns : Bind(c)
    \/ QuiescenceTimeout \/ Evicted \/ Settled
    \/ HelloRead \/ HelloRejected
    \/ AuthSucceeds \/ AuthFails
    \/ \E part \in Handshake : StreamsProgress(part)
    \/ NoAuditRoot \/ StreamsFail
    \/ OpenPty \/ ReadyFlushed \/ StartFails
    \/ Released

Ending == BridgeUnbound \/ ShellExits \/ BridgeFails \/ Finalized \/ Cleanup

HostNext ==
    \/ Environment
    \/ RecoveryStarts \/ RecoveryFails
    \/ \E next \in 1..MaxCode : Recovered(next)
    \/ Attempt
    \/ Ending

\* Every await of an attempt has a deadline or ends with its connection, and
\* finalization and cleanup are bounded.
HostFairness == WF_hostVars(Attempt) /\ WF_hostVars(Finalized \/ Cleanup \/ BridgeUnbound)

HostSpec == HostInit /\ [][HostNext]_hostVars /\ HostFairness

-----------------------------------------------------------------------------
(* Properties *)

Phases == {"idle", "recover", "quiescence", "evict", "settle", "hello", "retry", "auth",
           "ack", "start", "release", "bridge", "finalize", "cleanup", "ended"}

SessionStates == {"Advertised", "Authenticating", "AwaitingTerminal", "StartingTerminal",
                  "Active", "Spent"}

\* Every variable holds a value of its type; in particular the loop never
\* feeds TargetSession an event its state does not accept.
HostTypeOK ==
    /\ roster \in [Controllers -> SUBSET Conns]
    /\ upgrade \in [Controllers -> {"none", "pending", "failed", "connected"}]
    /\ lease \in BOOLEAN
    /\ phase \in Phases
    /\ session \in SessionStates
    /\ binding \in [peer: Controllers \cup {None}, conn: Conns \cup {None}]
    /\ streams \subseteq Handshake
    /\ pty \in BOOLEAN
    /\ authed \in [conn: Conns \cup {None}, code: 0..MaxCode]
    /\ code \in 1..MaxCode
    /\ interrupted \in BOOLEAN
    /\ outcome \in {"none", "code", "error", "interrupted"}

\* A shell exists only between the start of a terminal and the end of its
\* bridge, and only for a controller that authenticated with the code on
\* display over the connection the host is bound to: no path back to the
\* waiting loop leaves a shell behind.
ShellNeedsAuthentication ==
    pty => /\ phase \in {"start", "release", "bridge"}
           /\ authed = [conn |-> binding.conn, code |-> code]
           /\ binding.conn # None

\* The code is committed only while the connection the controller
\* authenticated on is that controller's only one.
CommitOnSoleConnection ==
    [][session # "Active" /\ session' = "Active" =>
          /\ roster'[binding.peer] = {authed.conn}
          /\ authed.code = code'
          /\ pty']_hostVars

\* Authentication runs only over a connection that will not be replaced by
\* a pending direct upgrade.
AuthenticatesSettledConnection ==
    phase \in {"hello", "auth"} =>
        /\ roster[binding.peer] = {binding.conn}
        /\ binding.conn \in Direct \/ upgrade[binding.peer] # "pending"

\* The host implements the one-shot code.
OneShot == INSTANCE OneShotCode WITH consumed <- Consumed

OneShotSpec == OneShot!Spec

\* No controller attempt holds the host: it comes back to the waiting loop,
\* bridges a terminal or ends.
AttemptsEnd ==
    phase \notin {"idle", "recover", "bridge", "ended"}
        ~> phase \in {"idle", "bridge", "ended"}

\* A host that received a shutdown signal stops.
SignalStopsHost == interrupted => phase \in {"cleanup", "ended"}
=============================================================================
