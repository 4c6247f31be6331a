----------------------------- MODULE RelayDial -----------------------------
(***************************************************************************)
(* connect_configured_relay (network.rs): every configured transport to    *)
(* the relay is dialled at once, failed sets are redialled with a backoff, *)
(* one connection is selected, and everything else is drained before the   *)
(* call returns.  libp2p cannot cancel a dial, so the budget is split:     *)
(* DialWindow to start dials, TransportTimeout for the last one to end,    *)
(* DrainWindow to close.  A host calls it again and again on one driver.   *)
(*                                                                         *)
(* A dial ends by its own timeout, and an event is handled before time     *)
(* passes on.  A set is dialled only when nothing of the last one is left, *)
(* so a dial and its connection go by the name of their address.           *)
(***************************************************************************)
EXTENDS ConnectionSelection, FiniteSetsExt

CONSTANTS
    Addresses,         \* the EndpointRelaySet
    TransportOf,       \* the transport of each address
    MaxPings,          \* bound: ping samples of one call
    RoundTrips,
    DialWindow, TransportTimeout, DrainWindow, SelectionWindow,
    Delays             \* what relay_backoff may yield

None == -1

VARIABLES
    stage,        \* idle, before, attempt, after, done
    now,          \* time since the call
    dials,        \* dials of the swarm, each with the end of its timeout
    tracked,      \* pending_relay_dials
    book,         \* connections to the relay in the driver's book
    asked,        \* connections asked to close
    selection, selectionAt, nextDial, pings,
    keep,         \* the selected connection, or None
    result,
    abandoned     \* history: the attempt ended before its race was run

netVars == <<dials, tracked, book, asked>>
attemptVars == <<selection, selectionAt, nextDial, pings>>
vars == <<stage, now, netVars, attemptVars, keep, result, abandoned>>

AttemptDeadline == DialWindow + TransportTimeout
ConnectDeadline == AttemptDeadline + DrainWindow

DialInit ==
    /\ stage = "idle" /\ now = 0
    /\ dials = {} /\ tracked = {} /\ book = {} /\ asked = {}
    /\ selection = NewSelection /\ selectionAt = None /\ nextDial = None /\ pings = 0
    /\ keep = None /\ result = "none" /\ abandoned = FALSE

\* A call finds the driver as the last one left it, dials in flight included.
Begins ==
    /\ stage \in {"idle", "done"}
    /\ stage' = "before" /\ now' = 0
    /\ selection' = NewSelection /\ selectionAt' = None /\ nextDial' = None /\ pings' = 0
    /\ keep' = None /\ result' = "none" /\ abandoned' = FALSE
    /\ asked' = book
    /\ dials' = {[d EXCEPT !.until = @ - now] : d \in dials}
    /\ UNCHANGED <<tracked, book>>

Returns(r) == stage' = "done" /\ result' = r

-----------------------------------------------------------------------------
(* connect_relay_attempt *)

\* The attempt fails: drain_relay_state(None), then the error is returned.
AttemptFails(error) ==
    /\ stage' = "after" /\ result' = error
    /\ abandoned' = (tracked # {} /\ now < AttemptDeadline)
    /\ asked' = book
    /\ UNCHANGED <<now, dials, tracked, book, attemptVars, keep>>

\* Mutant of NextRelayDial: redialling is not limited to the dial window.
NextRelayDialAny == {now + d : d \in Delays}

\* next_relay_dial.
NextRelayDial ==
    {now + d : d \in {e \in Delays: now + e <= DialWindow}}
        \cup (IF \E d \in Delays: now + d > DialWindow THEN {None} ELSE {})

\* dial_relay_set: the swarm accepts some of the dials.
DialSet(accepted) ==
    /\ dials' = {[id |-> a, until |-> now + TransportTimeout] : a \in accepted}
    /\ tracked' = accepted

\* The first drain is over and the attempt starts.
Starts ==
    /\ stage = "before" /\ book = {} /\ tracked = {}
    /\ \/ now > DialWindow /\ AttemptFails("RelayUnavailable")
       \/ /\ now <= DialWindow
          /\ \E accepted \in SUBSET Addresses:
               /\ DialSet(accepted)
               /\ nextDial' \in IF accepted = {} THEN NextRelayDial ELSE {None}
          /\ stage' = "attempt"
          /\ UNCHANGED <<now, book, asked, selection, selectionAt, pings, keep, result, abandoned>>

\* The check at the top of the loop.
Exhausted == selectionAt = None /\ nextDial = None /\ tracked = {}

GivesUp ==
    /\ stage = "attempt" /\ Exhausted
    /\ AttemptFails("RelayUnavailable")

\* The tail of the loop: the window opens, or a failed set is to be redialled.
AfterEvent(sel, opens) ==
    /\ selection' = sel
    /\ selectionAt' = IF opens /\ selectionAt = None
                      THEN Min({now + SelectionWindow, AttemptDeadline}) ELSE selectionAt
    /\ nextDial' \in IF selectionAt' = None /\ nextDial = None /\ tracked' = {}
                     THEN NextRelayDial ELSE {nextDial}
    /\ UNCHANGED <<stage, now, keep, result, abandoned>>

\* record_established and record_relay_dial_failed.
DialEnds(d) == dials' = dials \ {d} /\ tracked' = tracked \ {d.id}

DialSucceeds ==
    /\ stage = "attempt" /\ ~Exhausted
    /\ \E d \in dials:
         LET c == [id |-> d.id, transport |-> TransportOf[d.id], path |-> "Direct"]
             ok == Accepts(selection, c)
         IN /\ DialEnds(d)
            /\ book' = book \cup {c.id}
            /\ asked' = IF ok THEN asked ELSE asked \cup {c.id}
            /\ AfterEvent(Established(selection, c), ok)
    /\ UNCHANGED pings

DialFails ==
    /\ stage = "attempt" /\ ~Exhausted
    /\ \E d \in dials: DialEnds(d)
    /\ AfterEvent(selection, FALSE)
    /\ UNCHANGED <<book, asked, pings>>

Pings ==
    /\ stage = "attempt" /\ pings < MaxPings
    /\ \E c \in book, rtt \in RoundTrips: AfterEvent(Pinged(selection, c, rtt), FALSE)
    /\ pings' = pings + 1
    /\ UNCHANGED netVars

ConnectionCloses ==
    /\ stage = "attempt"
    /\ \E c \in book:
         /\ book' = book \ {c} /\ asked' = asked \ {c}
         /\ AfterEvent(Closed(selection, c), FALSE)
    /\ UNCHANGED <<dials, tracked, pings>>

Deadline ==
    IF selectionAt # None THEN selectionAt
    ELSE IF nextDial # None THEN Min({nextDial, AttemptDeadline}) ELSE AttemptDeadline

\* The selection window is over: finish_relay_selection.
Selects ==
    /\ stage = "attempt" /\ selectionAt # None /\ now >= Deadline
    /\ \/ selection.candidates = <<>> /\ AttemptFails("RelayUnavailable")
       \/ /\ selection.candidates # <<>>
          /\ keep' = Finish(selection).id
          /\ asked' = book \ {keep'}
          /\ stage' = "after"
          /\ UNCHANGED <<now, dials, tracked, book, attemptVars, result, abandoned>>

AttemptTimeout ==
    /\ stage = "attempt" /\ ~Exhausted /\ selectionAt = None /\ now >= AttemptDeadline
    /\ AttemptFails("RelayUnavailable")

\* The redial; dial_relay_set refuses while a dial is pending, which
\* CallLeavesNothing shows not to happen.
Redials ==
    /\ stage = "attempt" /\ ~Exhausted /\ selectionAt = None
    /\ now >= Deadline /\ now < AttemptDeadline /\ tracked = {}
    /\ \E accepted \in SUBSET Addresses: DialSet(accepted)
    /\ nextDial' = None
    /\ UNCHANGED <<stage, now, book, asked, selection, selectionAt, pings, keep, result, abandoned>>

-----------------------------------------------------------------------------
(* drain_relay_state: what is not kept is closed and every dial awaited *)

Draining == stage \in {"before", "after"}

RosterReady == IF keep = None THEN book = {} ELSE book = {keep}

\* The tail of an iteration: everything but the binding is asked to close.
DrainsOn == asked' = book' \ {keep} /\ UNCHANGED <<stage, now, attemptVars, keep, result, abandoned>>

DrainDial ==
    /\ Draining
    /\ \E d \in dials:
         /\ DialEnds(d)
         /\ book' \in {book, book \cup {d.id}}
    /\ DrainsOn

DrainCloses ==
    /\ Draining
    /\ \E c \in book \ {keep}: book' = book \ {c}
    /\ DrainsOn
    /\ UNCHANGED <<dials, tracked>>

\* relay_drain_event: the binding itself is lost.
DrainLoses ==
    /\ stage = "after" /\ keep \in book
    /\ book' = book \ {keep} /\ asked' = asked
    /\ Returns("SelectedConnectionLost")
    /\ UNCHANGED <<now, dials, tracked, attemptVars, keep, abandoned>>

Drained ==
    /\ stage = "after" /\ RosterReady /\ tracked = {}
    /\ Returns(IF keep = None THEN result ELSE "Ok")
    /\ UNCHANGED <<now, netVars, attemptVars, keep, abandoned>>

DrainTimeout ==
    /\ Draining /\ now >= ConnectDeadline
    /\ ~(RosterReady /\ tracked = {})
    /\ Returns("RelayDidNotConverge")
    /\ UNCHANGED <<now, netVars, attemptVars, keep, abandoned>>

-----------------------------------------------------------------------------
Tick ==
    /\ \/ stage = "attempt" /\ ~Exhausted /\ now < Deadline
       \/ Draining /\ now < ConnectDeadline
    /\ \A d \in dials: now < d.until
    /\ now' = now + 1
    /\ UNCHANGED <<stage, netVars, attemptVars, keep, result, abandoned>>

DialNext ==
    \/ Begins \/ Starts \/ GivesUp
    \/ DialSucceeds \/ DialFails \/ Pings \/ ConnectionCloses
    \/ Selects \/ AttemptTimeout \/ Redials
    \/ DrainDial \/ DrainCloses \/ DrainLoses \/ Drained \/ DrainTimeout
    \/ Tick

-----------------------------------------------------------------------------
(* Properties *)

\* The budget suffices: except when the selected connection is lost, a call
\* returns with no dial in flight, at its deadline too; a set is never dialled
\* on top of another; and a selected connection is the only one left.
CallLeavesNothing ==
    /\ stage = "attempt" /\ nextDial # None => tracked = {}
    /\ stage = "done" /\ result # "SelectedConnectionLost" => dials = {} /\ tracked = {}
    /\ stage = "done" /\ result = "Ok" => book = {keep}

-----------------------------------------------------------------------------
(* Stated by the repository and not met by the code *)

\* A call returns only when the set of pending dials is empty.
PendingClearedOnReturn == stage = "done" => tracked = {}

\* An attempt fails only when every transport it dialled has failed, or at its
\* deadline.
RaceIsRun == ~abandoned
=============================================================================
