------------------------------ MODULE Connect ------------------------------
(***************************************************************************)
(* The calls of connect_configured_relay (network.rs), RelayDial, and what *)
(* its callers do next.  A host calls it again on the same driver whenever *)
(* the relay is lost; the controller goes on to the host it wants to reach *)
(* (TargetConnect), and its fallback starts over on a fresh endpoint.      *)
(***************************************************************************)
EXTENDS TargetConnect

CONSTANTS
    Addresses, TransportOf, RelayPings, Delays,
    DialWindow, TransportTimeout, DrainWindow

ASSUME DialAssumption ==
    /\ TransportOf \in [Addresses -> DOMAIN TransportRank]
    /\ {DialWindow, TransportTimeout, DrainWindow, SelectionWindow, RelayPings} \subseteq Nat
    /\ DrainWindow # 0
    /\ Delays \subseteq Nat \ {0}

VARIABLES
    caller,   \* "controller" or "host"
    call,     \* the stage of the call
    clock, dials, tracked, relays, closing, choice, windowAt, nextDial, samples,
    keep, result, abandoned

dialVars == <<call, clock, dials, tracked, relays, closing, choice, windowAt,
              nextDial, samples, keep, result, abandoned>>
callVars == <<dialVars, vars>>

Dial == INSTANCE RelayDial WITH
    MaxPings <- RelayPings, stage <- call, now <- clock, book <- relays, asked <- closing,
    selection <- choice, selectionAt <- windowAt, pings <- samples

Init == caller \in {"controller", "host"} /\ Dial!DialInit /\ TargetInit

\* The driver of the call is dropped, or its state no longer matters.
DialForgotten ==
    /\ call' = "idle" /\ clock' = 0
    /\ dials' = {} /\ tracked' = {} /\ relays' = {} /\ closing' = {}
    /\ choice' = NewSelection /\ windowAt' = None /\ nextDial' = None /\ samples' = 0
    /\ keep' = None /\ result' = "none" /\ abandoned' = FALSE

\* The call runs; only a host calls again.
Dials ==
    /\ stage = "relay"
    /\ caller = "controller" => call # "done"
    /\ Dial!DialNext
    /\ UNCHANGED vars

\* prepare_controller_session goes on with the answer.
ControllerConnects ==
    /\ caller = "controller" /\ call = "done"
    /\ ConnectRelay(result)
    /\ DialForgotten

Targets == caller = "controller" /\ TargetNext /\ UNCHANGED dialVars

Next == (Dials \/ ControllerConnects \/ Targets) /\ UNCHANGED caller

\* A dial ends by its timeout, an event is handled before time passes on, and
\* the deadlines of a call fire.
Spec ==
    /\ Init /\ [][Next]_<<caller, callVars>>
    /\ WF_callVars(Dials) /\ WF_callVars(ControllerConnects)
    /\ TargetFairness

-----------------------------------------------------------------------------
(* Properties *)

\* The budget of a call suffices: except when the selected connection is lost,
\* it returns with no dial in flight, at its deadline too; a set is never
\* dialled on top of another; and a selected connection is the only one left
\* (network.rs, connect_configured_relay, next_relay_dial, drain_relay_state).
CallLeavesNothing == Dial!CallLeavesNothing

\* A connect command ends, whatever the relay, the host and the network do:
\* its dials are bounded and it falls back at most once (controller.rs,
\* prepare_controller_session).
ConnectEnds == caller = "controller" ~> stage \in {"ready", "failed"}
=============================================================================
