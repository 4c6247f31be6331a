-------------------------- MODULE HostRegistration --------------------------
(***************************************************************************)
(* A host keeps its connection code registered at the relay: connection,   *)
(* reservation, access policy and locator, and RelayRecovery when the      *)
(* lease is lost (host.rs, protocol.rs), composed with the relay's         *)
(* Registry, other hosts that use it, and relay restarts.                  *)
(*                                                                         *)
(* The two ends of a connection learn of its end at different times: the   *)
(* relay may still hold a connection, and the reservation made over it,    *)
(* that the host has closed and replaced.  How the relay's owner loop      *)
(* schedules registry calls is RelayService's subject; here a call may be  *)
(* served, refused with Retry, or outlived by its caller.                  *)
(***************************************************************************)
EXTENDS Registry

CONSTANTS
    Host, HostSource,
    Links,         \* ConnectionIds of the host's relay connections
    None,
    RetryLimit,    \* RETRY_LIMIT of a registry exchange
    MaxFaults      \* bound: lost connections, reservations, replies, restarts

ASSUME RegistrationAssumption ==
    /\ Host \in Peers /\ HostSource \in Sources
    /\ None \notin Links \cup Locators
    /\ RetryLimit \in Nat /\ MaxFaults \in Nat

VARIABLES
    prompt,      \* the relay sees every close before the host's backoff ends
    phase,       \* where the host awaits
    advertised,  \* locator of the printed code, None before the first one
    link,        \* the host's relay connection
    relayLinks,  \* connections of the host in the relay's book
    reserved,    \* the connection the host's reservation was made over
    pending,     \* registry calls the relay has not handled
    answer,      \* the relay's answer on its way to the host
    retries,
    faults,
    taken        \* history: another host got the locator since the code was last registered

hostVars == <<phase, advertised, link, relayLinks, reserved, pending, answer, retries, faults, taken>>
hrVars == <<regVars, hostVars>>

NoAnswer == [result |-> "none"]
Retry == [result |-> "Retry"]
Calling == {"reclaim", "allocate"}

HrInit ==
    /\ Init
    /\ prompt \in BOOLEAN
    /\ phase = "connect" /\ advertised = None /\ link = None
    /\ relayLinks = {} /\ reserved = None
    /\ pending = {} /\ answer = NoAnswer /\ retries = 0
    /\ faults = 0 /\ taken = FALSE

\* The history variable after a step of the registry.
Watch ==
    taken' = (taken \/ /\ advertised \in DOMAIN byLocator'
                       /\ byLocator'[advertised].owner # Host)

Enter(next) == phase' = next /\ answer' = NoAnswer /\ retries' = 0

\* A fault of the network, the relay or an unlucky timeout.
Fault == faults < MaxFaults /\ faults' = faults + 1

-----------------------------------------------------------------------------
(* establish_host_relay and what follows it on one connection *)

\* connect_configured_relay has drained the old connection and has a new one;
\* a failed attempt only waits longer.
Connect ==
    /\ phase = "connect"
    /\ prompt => relayLinks = {} /\ reserved = None
    /\ \E c \in Links \ relayLinks:
         /\ link' = c
         /\ relayLinks' = relayLinks \cup {c}
    /\ SetConnection(Host, TRUE)
    /\ Watch /\ Enter("reserve")
    /\ UNCHANGED <<advertised, reserved, pending, faults>>

\* The host gives the candidate up: remove_reservation and a delay.
GiveUp ==
    /\ Enter("backoff")
    /\ UNCHANGED <<regVars, advertised, link, relayLinks, reserved, pending, taken>>

\* The relay grants one reservation per peer.
Reserves ==
    /\ phase = "reserve"
    /\ \/ /\ link \in relayLinks /\ reserved = None
          /\ reserved' = link
          /\ SetReservation(Host, TRUE)
          /\ Watch /\ Enter("access")
          /\ UNCHANGED <<advertised, link, relayLinks, pending, faults>>
       \/ /\ link \notin relayLinks \/ reserved # None
          /\ GiveUp /\ UNCHANGED faults

\* Mutant of Registers: a recovery allocates at once.
AccessAlwaysAllocates == "allocate"

\* The first registration allocates, a recovery reclaims its locator.
Registers == IF advertised = None THEN "allocate" ELSE "reclaim"

\* wait_for_relay_access: the expected policy, or another one.
Access ==
    /\ phase = "access"
    /\ \/ Enter(Registers) /\ UNCHANGED <<link, faults>>
       \/ Enter("exited") /\ link' = None /\ UNCHANGED faults
    /\ UNCHANGED <<regVars, advertised, relayLinks, reserved, pending, taken>>

\* reconverge_relay, and one registry exchange on the connection.
Call ==
    /\ phase \in Calling
    /\ link \in relayLinks /\ answer = NoAnswer
    /\ \A c \in pending: c.link # link
    /\ pending' = pending \cup {[link |-> link, op |-> phase, locator |-> advertised]}
    /\ UNCHANGED <<regVars, phase, advertised, link, relayLinks, reserved, answer, retries,
                   faults, taken>>

\* A timeout, an I/O error, or the connection is gone.
CallFails ==
    /\ phase \in Calling \cup {"reserve", "access"}
    /\ IF link \in relayLinks THEN Fault ELSE UNCHANGED faults
    /\ GiveUp

-----------------------------------------------------------------------------
(* The relay *)

\* A call runs if its connection is the only one of the peer, and its answer
\* reaches a host that still waits on that connection.
Serve ==
    /\ \E c \in pending:
         /\ pending' = pending \ {c}
         /\ IF relayLinks # {c.link} THEN UNCHANGED regVars
            ELSE /\ IF c.op = "allocate" THEN Allocate(Host, HostSource)
                    ELSE Reclaim(Host, HostSource, c.locator)
                 /\ reply'.result # "RandomFailed"
         /\ answer' = IF link # c.link \/ phase # c.op THEN answer
                      ELSE IF relayLinks # {c.link} THEN Retry ELSE reply'
    /\ Watch
    /\ UNCHANGED <<phase, advertised, link, relayLinks, reserved, retries, faults>>

\* A connection ends at the relay: the host had left it, or by a fault.
RelayCloses ==
    /\ \E c \in relayLinks:
         /\ IF c = link THEN Fault ELSE UNCHANGED faults
         /\ relayLinks' = relayLinks \ {c}
         /\ pending' = {k \in pending: k.link # c}
    /\ SetConnection(Host, relayLinks' # {})
    /\ Watch
    /\ UNCHANGED <<phase, advertised, link, reserved, answer, retries>>

\* ReservationClosed follows the connection's end; ReservationTimedOut needs
\* no such end.
ReservationEnds ==
    /\ reserved # None
    /\ IF reserved \in relayLinks THEN Fault ELSE UNCHANGED faults
    /\ reserved' = None
    /\ SetReservation(Host, FALSE)
    /\ Watch
    /\ UNCHANGED <<phase, advertised, link, relayLinks, pending, answer, retries>>

\* The relay restarts with an empty registry.
Restart ==
    /\ Fault
    /\ byLocator' = [l \in {} |-> l] /\ byOwner' = [p \in {} |-> p]
    /\ bySource' = [s \in Sources |-> 0]
    /\ reservations' = {} /\ connections' = {} /\ reply' = NoReply
    /\ relayLinks' = {} /\ reserved' = None /\ pending' = {}
    /\ UNCHANGED <<phase, advertised, link, answer, retries, taken>>

\* The other hosts, and time.
Others ==
    /\ \/ \E p \in Peers \ {Host}:
            \/ SetReservation(p, p \notin reservations)
            \/ SetConnection(p, p \notin connections)
            \/ Allocate(p, HostSource)
            \/ \E l \in Locators: Reclaim(p, HostSource, l) \/ Release(p, l)
       \/ Tick
    /\ Watch
    /\ UNCHANGED <<phase, advertised, link, relayLinks, reserved, pending, answer, retries, faults>>

-----------------------------------------------------------------------------
(* The answer *)

\* Mutant of Reclaimed: a conflict is taken for the host's own mapping.
ReclaimedLoose == answer.result \in {"Acquired", "Conflict"}

\* reclaim_response: the locator asked for, and no other.
Reclaimed == answer.result = "Acquired" /\ answer.locator = advertised

ReceiveReclaim ==
    /\ phase = "reclaim" /\ answer # NoAnswer
    /\ \/ Reclaimed /\ Enter("ready") /\ taken' = FALSE
       \/ ~Reclaimed /\ answer.result = "Conflict"
          /\ Enter("allocate") /\ UNCHANGED taken
    /\ UNCHANGED <<regVars, advertised, link, relayLinks, reserved, pending, faults>>

\* allocate_advertisement: a new code, shown, or its locator given back.
ReceiveAllocate ==
    /\ phase = "allocate" /\ answer.result = "Acquired"
    /\ \/ /\ Enter("ready")
          /\ advertised' = answer.locator /\ taken' = FALSE
          /\ UNCHANGED <<regVars, link>>
       \/ /\ Enter("exited")
          /\ link' = None
          /\ IF relayLinks = {link} THEN Release(Host, answer.locator) ELSE UNCHANGED regVars
          /\ Watch
          /\ UNCHANGED advertised
    /\ UNCHANGED <<relayLinks, reserved, pending, faults>>

\* Retry within the exchange's budget.
ReceiveRetry ==
    /\ phase \in Calling /\ answer = Retry /\ retries < RetryLimit
    /\ answer' = NoAnswer /\ retries' = retries + 1
    /\ UNCHANGED <<regVars, phase, advertised, link, relayLinks, reserved, pending, faults, taken>>

\* retryable_relay_error: the whole establishment is repeated.
ReceiveRefusal ==
    /\ phase \in Calling
    /\ \/ answer.result \in {"Capacity", "ReservationRequired"}
       \/ answer = Retry /\ retries = RetryLimit
    /\ GiveUp
    /\ UNCHANGED faults

\* drain_relay_state closes the old connection before the next attempt.
BackoffEnds ==
    /\ phase = "backoff"
    /\ Enter("connect")
    /\ link' = None
    /\ UNCHANGED <<regVars, advertised, relayLinks, reserved, pending, faults, taken>>

\* Mutant of LeaseLost: the listener's end is not looked at.
LeaseLostConnection == link \notin relayLinks

\* ReservationLease::is_usable.
LeaseLost == link \notin relayLinks \/ reserved # link

RecoveryStarts ==
    /\ phase = "ready" /\ LeaseLost
    /\ Enter("connect")
    /\ link' = None
    /\ UNCHANGED <<regVars, advertised, relayLinks, reserved, pending, faults, taken>>

\* The connection breaks and the host sees it first.
HostLosesLink ==
    /\ phase = "ready" /\ link # None
    /\ Fault
    /\ Enter("connect")
    /\ link' = None
    /\ UNCHANGED <<regVars, advertised, relayLinks, reserved, pending, taken>>

\* The session is over: release_locator, best effort, and the process ends.
Ends ==
    /\ phase = "ready"
    /\ Enter("exited")
    /\ link' = None
    /\ \/ relayLinks = {link} /\ Release(Host, advertised)
       \/ UNCHANGED regVars
    /\ Watch
    /\ UNCHANGED <<advertised, relayLinks, reserved, pending, faults>>

\* A shutdown signal: nothing is released.
Interrupt ==
    /\ phase \in Calling \cup {"connect", "reserve", "backoff"}
    /\ Enter("exited")
    /\ link' = None
    /\ UNCHANGED <<regVars, advertised, relayLinks, reserved, pending, faults, taken>>

-----------------------------------------------------------------------------
Receive == ReceiveReclaim \/ ReceiveAllocate \/ ReceiveRetry \/ ReceiveRefusal

HrNext ==
    \/ Connect \/ Reserves \/ Access \/ Call \/ CallFails \/ Receive
    \/ BackoffEnds \/ RecoveryStarts \/ HostLosesLink \/ Ends \/ Interrupt
    \/ Serve \/ RelayCloses \/ ReservationEnds \/ Restart \/ Others

\* The host's awaits all end and its relay events are delivered; the relay
\* serves its calls and sees the closes.  The other hosts owe nothing.
HrFairness ==
    /\ WF_hrVars(Connect) /\ WF_hrVars(Reserves) /\ WF_hrVars(Access) /\ WF_hrVars(Call)
    /\ WF_hrVars(CallFails) /\ WF_hrVars(Receive)
    /\ WF_hrVars(BackoffEnds) /\ WF_hrVars(RecoveryStarts)
    /\ WF_hrVars(Serve) /\ WF_hrVars(RelayCloses) /\ WF_hrVars(ReservationEnds)

HrSpec == HrInit /\ [][HrNext /\ UNCHANGED prompt]_<<prompt, hrVars>> /\ HrFairness

-----------------------------------------------------------------------------
(* Properties *)

Registered ==
    /\ advertised \in DOMAIN byLocator
    /\ byLocator[advertised].owner = Host
    /\ byLocator[advertised].state = "Active"

\* The code a waiting host shows leads to it, for as long as the connection
\* and the reservation it registered over last: whatever was lost, repeated or
\* taken by others on the way there.
AdvertisedIsRegistered == phase = "ready" /\ ~LeaseLost => Registered

\* A printed code is replaced only when another host got its locator since the
\* code was last registered.
CodeKeptUnlessTaken ==
    [][advertised # None /\ advertised' # advertised => taken]_hrVars

\* Once the faults are over the host is registered for good, or has ended, if
\* the relay notices a closed connection before the host's backoff is over.
HostReturns == prompt => <>[](phase = "exited" \/ (phase = "ready" /\ ~LeaseLost /\ Registered))
=============================================================================
