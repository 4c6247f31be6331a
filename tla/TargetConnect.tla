--------------------------- MODULE TargetConnect ---------------------------
(***************************************************************************)
(* How the controller gets from a connection code to an authenticated      *)
(* connection (controller.rs, network.rs): relay, resolve, selection of    *)
(* one connection to the host, convergence to it, authentication, and the  *)
(* single fallback to a relay-only endpoint.  The connection to the relay  *)
(* is RelayDial's; Connect puts the two together.                          *)
(*                                                                         *)
(* driver.next() updates the endpoint's connection book and returns the    *)
(* event in one step, so an event is one action here.  Time passes only    *)
(* while the selection waits; its unit is LATE_DIRECT_SAMPLE_WINDOW, and   *)
(* the deadlines of the other steps may expire at any moment.              *)
(***************************************************************************)
EXTENDS ConnectionSelection

CONSTANTS
    MaxConnections,    \* bound on the connections established to the host
    MaxPings,          \* bound on the ping samples of an attempt
    MaxAccidents,      \* bound on connections that close unasked
    Transports,        \* subset of DOMAIN TransportRank
    RoundTrips,        \* set of round trips
    SelectionWindow, UpgradeWindow, LateWindow, SettleTimeout,
    RetryLimit,        \* authentication retries
    Access             \* "standard" or "enterprise"

None == -1
VARIABLES
    attempt,     \* "full" or "relayOnly": the DirectUpgradePolicy
    stage,       \* where prepare_controller_session stands
    reason,      \* the error it returned, or the one it is closing for
    from,        \* the stage it failed in
    resolves,    \* Resolve exchanges sent to the relay
    book,        \* connections of the host in the driver's book
    asked,       \* connections the driver asked the swarm to close
    made,        \* number of connections established in this attempt
    accidents, pings,
    selection, outcome, candidate,
    now, selectionAt, upgradeAt, lateAt, elapsed, lateElapsed,
    winner, retries

attemptVars == <<attempt, stage, reason, from, resolves>>
netVars == <<book, asked, made, accidents, pings>>
timers == <<now, selectionAt, upgradeAt, lateAt, elapsed, lateElapsed>>
selVars == <<selection, outcome, candidate, timers>>
vars == <<attemptVars, netVars, selVars, winner, retries>>

Enabled == attempt = "full"
NoConnection == [id |-> 0, path |-> "none"]

\* The variables of connect_target_until and of a fresh endpoint.
Fresh ==
    /\ book = {} /\ asked = {} /\ made = 0 /\ pings = 0
    /\ selection = NewSelection /\ outcome = "none" /\ candidate = FALSE
    /\ now = 0 /\ selectionAt = None /\ upgradeAt = None /\ lateAt = None
    /\ elapsed = FALSE /\ lateElapsed = FALSE
    /\ winner = NoConnection /\ retries = 0

TargetInit ==
    /\ attempt = "full" /\ stage = "relay" /\ reason = "none" /\ from = "none"
    /\ resolves = 0 /\ accidents = 0
    /\ Fresh

Known == {c.id : c \in book}

-----------------------------------------------------------------------------
\* The end of an attempt.  The full endpoint is dropped with its connections,
\* and the errors of direct_fallback_required lead to one relay-only attempt.

direct_fallback_required(error) ==
    error \in {"DirectUpgradeFailed", "TargetUpgradeDidNotSettle",
               "AdditionalBoundConnection", "BoundConnectionLost"}

\* Mutant of FallsBack: the fallback falls back again.
FallsBackAgain(error) == direct_fallback_required(error)

\* The fallback attempt has no fallback of its own.
FallsBack(error) == Enabled /\ direct_fallback_required(error)

FailsWith(error) ==
    IF FallsBack(error)
    THEN /\ attempt' = "relayOnly" /\ stage' = "relay"
         /\ reason' = "none" /\ from' = "none"
         /\ book' = {} /\ asked' = {} /\ made' = 0 /\ pings' = 0
         /\ selection' = NewSelection /\ outcome' = "none" /\ candidate' = FALSE
         /\ now' = 0 /\ selectionAt' = None /\ upgradeAt' = None /\ lateAt' = None
         /\ elapsed' = FALSE /\ lateElapsed' = FALSE
         /\ winner' = NoConnection /\ retries' = 0
         /\ UNCHANGED <<resolves, accidents>>
    ELSE /\ stage' = "failed" /\ reason' = error /\ from' = stage
         /\ UNCHANGED <<attempt, resolves, netVars, selVars, winner, retries>>

Goes(next) == stage' = next /\ UNCHANGED <<attempt, reason, from, resolves>>

-----------------------------------------------------------------------------
\* connect_relay_with_policy, once connect_configured_relay has returned.
ConnectRelay(result) ==
    /\ stage = "relay"
    /\ IF result = "Ok"
       THEN Goes("resolve") /\ UNCHANGED <<netVars, selVars, winner, retries>>
       ELSE FailsWith(result)

\* fallback_target: an enterprise admission is not asked for twice.
fallback_target == IF Access = "enterprise" THEN "Reuse" ELSE "Resolve"

\* The host's PeerId: resolved, or the admitted one once the new relay
\* connection is seen to offer the same access.
Resolve ==
    /\ stage = "resolve"
    /\ LET sends == Enabled \/ fallback_target = "Resolve" IN
       \/ /\ stage' = "select"
          /\ resolves' = resolves + (IF sends THEN 1 ELSE 0)
          /\ UNCHANGED <<attempt, reason, from, netVars, selVars, winner, retries>>
       \/ FailsWith(IF sends THEN "Resolve" ELSE "RelayAccessChanged")

-----------------------------------------------------------------------------
\* connect_target_until.

Deadline ==
    IF elapsed
    THEN IF lateAt # None /\ ~lateElapsed THEN lateAt
         ELSE IF upgradeAt # None THEN upgradeAt ELSE SettleTimeout
    ELSE IF selectionAt # None THEN selectionAt ELSE SettleTimeout

AtMost(t) == IF t < SettleTimeout THEN t ELSE SettleTimeout

target_selection_is_settled(sel, result, over, lateOver) ==
    IF ~over \/ ~Enabled THEN over
    ELSE IF HasDirect(sel) THEN HasDirectSample(sel) \/ lateOver
    ELSE result = "Failed"

\* arm_late_sample_window.
LateArmed(sel, over) ==
    IF over /\ HasDirect(sel) /\ ~HasDirectSample(sel) /\ lateAt = None
    THEN AtMost(now + LateWindow) ELSE lateAt

\* Mutant of finish_target_selection: the best connection of any path.
finish_target_selectionAny(sel) == Finish(sel)

\* The winner: relayed candidates do not compete with direct ones.
finish_target_selection(sel) ==
    IF Enabled THEN FinishDirect(sel) ELSE Finish(sel)

\* The loop is left: the losers are closed, or there is nothing to select.
\* Settled without a direct candidate means that the upgrade failed.
\* `keep' is the book, `ask' what the driver asked to close.
Leaves(sel, keep, ask) ==
    IF Enabled /\ ~HasDirect(sel)
    THEN /\ stage' = "closing" /\ reason' = "DirectUpgradeFailed"
         /\ asked' = {c.id : c \in keep}
         /\ UNCHANGED <<attempt, from, resolves, winner>>
    ELSE IF sel.candidates = <<>>
    THEN /\ stage' = "failed" /\ reason' = "RelayUnavailable" /\ from' = stage
         /\ asked' = ask
         /\ UNCHANGED <<attempt, resolves, winner>>
    ELSE LET w == finish_target_selection(sel) IN
         /\ winner' = [id |-> w.id, path |-> w.path]
         /\ asked' = ask \cup Losers(sel, w.id)
         /\ Goes("converge")

\* The tail of the loop, after an event.
AfterEvent(sel, result, has, keep, ask) ==
    LET opens == has /\ selectionAt = None IN
    /\ selection' = sel /\ outcome' = result /\ candidate' = has /\ book' = keep
    /\ selectionAt' = IF opens THEN AtMost(now + SelectionWindow) ELSE selectionAt
    /\ upgradeAt' = IF opens /\ Enabled THEN AtMost(now + UpgradeWindow) ELSE upgradeAt
    /\ UNCHANGED <<now, elapsed, lateElapsed, retries>>
    /\ IF target_selection_is_settled(sel, result, elapsed, lateElapsed)
       THEN Leaves(sel, keep, ask) /\ UNCHANGED lateAt
       ELSE /\ lateAt' = LateArmed(sel, elapsed)
            /\ asked' = ask
            /\ UNCHANGED <<attemptVars, winner>>

\* Without DCUtR the swarm only reaches the host through the circuit.
Paths == IF Enabled THEN {"Direct", "Relayed"} ELSE {"Relayed"}

SelectEstablished ==
    /\ stage = "select" /\ made < MaxConnections
    /\ \E path \in Paths, t \in Transports:
         LET c == [id |-> made + 1, path |-> path, transport |-> t]
             ok == Accepts(selection, c)
         IN /\ path = "Direct" => \E other \in book: other.path = "Relayed"
            /\ made' = made + 1
            /\ AfterEvent(Established(selection, c), outcome, candidate \/ ok,
                          book \cup {c}, IF ok THEN asked ELSE asked \cup {c.id})
    /\ UNCHANGED <<accidents, pings>>

SelectPing ==
    /\ stage = "select" /\ pings < MaxPings
    /\ \E c \in book, rtt \in RoundTrips:
         AfterEvent(Pinged(selection, c.id, rtt), outcome, candidate, book, asked)
    /\ pings' = pings + 1
    /\ UNCHANGED <<made, accidents>>

\* A connection closes because it was asked to, or by accident.
Closes(c) ==
    /\ c.id \in asked \/ accidents < MaxAccidents
    /\ accidents' = IF c.id \in asked THEN accidents ELSE accidents + 1

SelectClosed ==
    /\ stage = "select"
    /\ \E c \in book:
         /\ Closes(c)
         /\ AfterEvent(Closed(selection, c.id), outcome, candidate, book \ {c}, asked \ {c.id})
    /\ UNCHANGED <<made, pings>>

SelectUpgrade ==
    /\ stage = "select" /\ Enabled /\ \E c \in book: c.path = "Relayed"
    /\ \E result \in {"Failed"} \cup (IF HasDirect(selection) THEN {"Connected"} ELSE {}):
         /\ outcome # result
         /\ AfterEvent(selection, result, candidate, book, asked)
    /\ UNCHANGED <<made, accidents, pings>>

Tick ==
    /\ stage = "select" /\ now < Deadline
    /\ now' = now + 1
    /\ UNCHANGED <<attemptVars, netVars, selection, outcome, candidate, selectionAt,
                   upgradeAt, lateAt, elapsed, lateElapsed, winner, retries>>

\* The deadline fires: the window, the late-sample window, or the last one.
SelectTimeout ==
    /\ stage = "select" /\ now >= Deadline
    /\ LET window == selectionAt # None /\ ~elapsed
           late == ~window /\ lateAt = Deadline /\ ~lateElapsed
           settled == target_selection_is_settled(selection, outcome,
                          elapsed \/ window, lateElapsed \/ late)
       IN /\ elapsed' = (elapsed \/ window)
          /\ lateElapsed' = (lateElapsed \/ late)
          /\ lateAt' = IF window /\ ~settled THEN LateArmed(selection, TRUE) ELSE lateAt
          /\ IF window \/ late
             THEN IF settled THEN Leaves(selection, book, asked)
                  ELSE UNCHANGED <<attemptVars, asked, winner>>
             ELSE /\ stage' = "closing"
                  /\ reason' = IF candidate THEN "TargetUpgradeDidNotSettle"
                               ELSE "RelayUnavailable"
                  /\ asked' = Known
                  /\ UNCHANGED <<attempt, from, resolves, winner>>
    /\ UNCHANGED <<book, made, accidents, pings, selection, outcome, candidate,
                   now, selectionAt, upgradeAt, retries>>

-----------------------------------------------------------------------------
\* Events outside the selection: the book changes, and the loop that waits
\* asks for what it does not want.

Wanted == CASE stage = "closing" -> {} [] stage = "converge" -> {winner.id}

BookChanges ==
    /\ stage \in {"closing", "converge"}
    /\ \/ /\ made < MaxConnections
          /\ \E path \in Paths, t \in Transports:
               book' = book \cup {[id |-> made + 1, path |-> path, transport |-> t]}
          /\ made' = made + 1
          /\ UNCHANGED accidents
       \/ /\ \E c \in book: Closes(c) /\ book' = book \ {c}
          /\ UNCHANGED made
    /\ asked' = {c.id : c \in book'} \ Wanted
    /\ UNCHANGED <<attemptVars, pings, selVars, winner, retries>>

\* close_peer_and_wait.
CloseDone ==
    /\ stage = "closing" /\ book = {}
    /\ FailsWith(reason)

CloseTimeout ==
    /\ stage = "closing" /\ book # {}
    /\ FailsWith("ConnectionCloseDidNotConverge")

\* converge_to_binding.
Converged ==
    /\ stage = "converge" /\ Known = {winner.id}
    /\ Goes("authenticate")
    /\ UNCHANGED <<netVars, selVars, winner, retries>>

ConvergeFails ==
    /\ stage = "converge" /\ Known # {winner.id}
    /\ FailsWith(IF winner.id \notin Known THEN "SelectedConnectionLost"
                 ELSE "RelayDidNotConverge")

-----------------------------------------------------------------------------
\* authenticate_controller and the opening of the terminal streams, under
\* drive_bound: any other connection of the host ends the attempt.

Additional ==
    /\ stage \in {"authenticate", "streams"} /\ made < MaxConnections
    /\ FailsWith("AdditionalBoundConnection")

BindingLost ==
    /\ stage \in {"authenticate", "streams"} /\ accidents < MaxAccidents
    /\ FailsWith("BoundConnectionLost")

Authenticates ==
    /\ stage = "authenticate"
    /\ \/ Goes("streams") /\ UNCHANGED <<netVars, selVars, winner, retries>>
       \/ /\ retries < RetryLimit
          /\ retries' = retries + 1
          /\ UNCHANGED <<attemptVars, netVars, selVars, winner>>
       \/ FailsWith("Authentication")

OpensStreams ==
    /\ stage = "streams"
    /\ \/ Goes("ready") /\ UNCHANGED <<netVars, selVars, winner, retries>>
       \/ FailsWith("Application")

-----------------------------------------------------------------------------
Select ==
    \/ SelectEstablished \/ SelectPing \/ SelectClosed \/ SelectUpgrade
    \/ Tick \/ SelectTimeout

\* What happens between the relay connection and the terminal.
TargetNext ==
    \/ Resolve \/ Select \/ BookChanges
    \/ CloseDone \/ CloseTimeout \/ Converged \/ ConvergeFails
    \/ Additional \/ BindingLost \/ Authenticates \/ OpensStreams

\* Time passes, timers fire, and every exchange with the relay or the host is
\* bounded by a timeout; the network owes nothing.
TargetFairness ==
    /\ WF_vars(Tick) /\ WF_vars(SelectTimeout) /\ WF_vars(Resolve)
    /\ WF_vars(CloseDone) /\ WF_vars(CloseTimeout)
    /\ WF_vars(Converged) /\ WF_vars(ConvergeFails)
    /\ WF_vars(Authenticates) /\ WF_vars(OpensStreams)

-----------------------------------------------------------------------------
\* Properties.

\* The route is decided by the attempt, not by round trips: authentication on
\* the full endpoint runs over a direct connection, on the fallback over a
\* relayed one, and the connection is the only one to the host.  An enterprise
\* relay was asked for admission exactly once, whatever failed before.
RouteMatchesAttempt ==
    stage \in {"authenticate", "streams", "ready"}
        => /\ Known = {winner.id}
           /\ winner.path = IF Enabled THEN "Direct" ELSE "Relayed"
           /\ Access = "enterprise" => resolves = 1

-----------------------------------------------------------------------------
(* Stated by the repository and not met by the code *)

\* A full attempt that found no direct connection in time falls back.
NoDirectFallsBack ==
    stage = "failed" /\ Enabled /\ from = "closing" => reason = "ConnectionCloseDidNotConverge"

\* The ranking is an order: the winner does not depend on the order in which
\* the candidates are stored.
RankingIsOrder ==
    LET cs == selection.candidates IN
    \A p \in SetToSeqs({cs[i] : i \in 1..Len(cs)}): cs # <<>> => MinBy(p).id = MinBy(cs).id
=============================================================================
