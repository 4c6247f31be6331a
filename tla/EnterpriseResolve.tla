------------------------- MODULE EnterpriseResolve -------------------------
(***************************************************************************)
(* Enterprise access on the relay (crates/yon-relay/src): one task per     *)
(* resolve substream (enterprise_resolve.rs) sends the user to a browser   *)
(* and waits; one handler per HTTPS callback (callback_session.rs) takes   *)
(* the transaction out of the relay-owned registry, verifies the member    *)
(* and hands the session back through the owner; the session itself        *)
(* (session.rs) travels from the one to the other by ownership.  Either    *)
(* side may time out or disappear at any await.                            *)
(*                                                                         *)
(* A 256-bit OAuth state names its exchange, so the exchange stands for    *)
(* it.  Admission limits are in ResolveLimiters and the locator registry   *)
(* in Registry: here both answer either way.  Deadlines are events: a      *)
(* session becomes overdue, a callback connection becomes late.            *)
(***************************************************************************)
EXTENDS Naturals, Sequences, FiniteSets

CONSTANTS
    Exchanges,   \* resolve substreams; each runs once
    Callbacks,   \* callback connections; each serves one request
    Providers,   \* the configured providers
    Unknown,     \* a provider that is not configured
    Readers,     \* ENTERPRISE_RESOLVE_READERS: permits
    Capacity,    \* CallbackRegistry::DEFAULT_CAPACITY
    Channel      \* MAX_CALLBACK_CONNECTIONS: callback request channel

ASSUME EnterpriseAssumption ==
    /\ Unknown \notin Providers
    /\ Readers \in Nat \ {0}
    /\ Capacity \in Nat /\ Readers <= Capacity
    /\ Channel \in Nat \ {0}

VARIABLES
    stage,      \* where each exchange awaits
    phase,      \* EnterpriseResolvePhase of its session
    provider,   \* the provider selected in the session
    answer,     \* the response the exchange writes last
    outcome,    \* the oneshot from the callback side to the exchange
    cancelled,  \* exchanges that fired their cancellation
    registry,   \* states in the CallbackRegistry
    commands,   \* transaction channel to the owner
    requests,   \* callback channel to the owner
    handling,   \* where each callback handler awaits
    target,     \* the exchange its state names
    route,      \* the provider whose route it arrived on
    clock,      \* the sessions overdue when it read the clock, until it asks
    page,       \* its CallbackResult, shown in the browser
    overdue,    \* sessions past their deadline
    late,       \* callback connections past their deadline
    verified    \* history: <<exchange, provider>> of the members verified

sessionVars == <<phase, provider>>
exchangeVars == <<stage, answer, cancelled>>
httpVars == <<handling, target, route, clock, page>>
browserVars == <<httpVars, overdue, late, verified>>
vars == <<sessionVars, exchangeVars, outcome, registry, commands, requests, browserVars>>

NoProvider == "none"
NoExchange == "none"
Results == {"Admitted", "Rejected", "InvalidState", "Platform"}
Terminal == {"Completed", "Cancelled", "Expired", "Failed", "Unavailable"}

EntInit ==
    /\ stage = [e \in Exchanges |-> "none"]
    /\ phase = [e \in Exchanges |-> "Created"]
    /\ provider = [e \in Exchanges |-> NoProvider]
    /\ answer = [e \in Exchanges |-> "none"]
    /\ outcome = [e \in Exchanges |-> "none"]
    /\ cancelled = {}
    /\ registry = {}
    /\ commands = <<>>
    /\ requests = <<>>
    /\ handling = [b \in Callbacks |-> "idle"]
    /\ target = [b \in Callbacks |-> NoExchange]
    /\ route = [b \in Callbacks |-> NoProvider]
    /\ clock = [b \in Callbacks |-> {}]
    /\ page = [b \in Callbacks |-> "none"]
    /\ overdue = {}
    /\ late = {}
    /\ verified = {}

-----------------------------------------------------------------------------
(* The session *)

\* terminal(): a session dies once.
Dies(e, end) ==
    /\ phase' = [phase EXCEPT ![e] = IF @ \in Terminal THEN @ ELSE end]
    /\ UNCHANGED provider

-----------------------------------------------------------------------------
(* The exchange: up to the registered transaction *)

Running == {e \in Exchanges : stage[e] \notin {"none", "ended"}}

\* A full pool drops the substream.
Accept(e) ==
    /\ stage[e] = "none"
    /\ Cardinality(Running) < Readers
    /\ stage' = [stage EXCEPT ![e] = "starting"]
    /\ UNCHANGED <<sessionVars, answer, cancelled, outcome, registry, commands, requests,
                   browserVars>>

\* A task that has written its last message, or failed to, ends.
Ends(e) ==
    /\ stage' = [stage EXCEPT ![e] = "ended"]
    /\ UNCHANGED <<answer, cancelled>>

\* The exchange goes on to write its last response.
Responds(e, response) ==
    /\ answer' = [answer EXCEPT ![e] = response]
    /\ stage' = [stage EXCEPT ![e] = "answering"]
    /\ UNCHANGED cancelled

\* Reads, writes and decodes that fail or time out before the transaction
\* is registered drop the session with the task.
EarlyFailure(e) ==
    /\ stage[e] \in {"starting", "offering", "selecting"}
    /\ Ends(e)
    /\ UNCHANGED <<sessionVars, outcome, registry, commands, requests, browserVars>>

Admitted(e) ==
    /\ stage[e] = "starting"
    /\ phase' = [phase EXCEPT ![e] = "ProviderSelection"]
    /\ stage' = [stage EXCEPT ![e] = "offering"]
    /\ UNCHANGED <<provider, answer, cancelled, outcome, registry, commands, requests,
                   browserVars>>

Limited(e) ==
    /\ stage[e] = "starting"
    /\ Responds(e, "Retry")
    /\ UNCHANGED <<sessionVars, outcome, registry, commands, requests, browserVars>>

Offered(e) ==
    /\ stage[e] = "offering"
    /\ stage' = [stage EXCEPT ![e] = "selecting"]
    /\ UNCHANGED <<sessionVars, answer, cancelled, outcome, registry, commands, requests,
                   browserVars>>

\* A transaction command carries the clock its sender read: the sessions
\* overdue by then are swept.
Command(op, e) == [op |-> op, exchange |-> e, swept |-> overdue]

\* The provider is fixed and the single-use state exists from here on.
Select(e, p) ==
    /\ stage[e] = "selecting"
    /\ IF p \in Providers
       THEN /\ phase' = [phase EXCEPT ![e] = "Authenticating"]
            /\ provider' = [provider EXCEPT ![e] = p]
            /\ stage' = [stage EXCEPT ![e] = "registering"]
            /\ commands' = Append(commands, Command("register", e))
            /\ UNCHANGED <<answer, cancelled>>
       ELSE /\ Dies(e, "Failed")
            /\ Responds(e, "Failed")
            /\ UNCHANGED commands
    /\ UNCHANGED <<outcome, registry, requests, browserVars>>

-----------------------------------------------------------------------------
(* The exchange: waiting for the browser *)

UrlWritten(e) ==
    /\ stage[e] = "redirecting"
    /\ stage' = [stage EXCEPT ![e] = "pending"]
    /\ UNCHANGED <<sessionVars, answer, cancelled, outcome, registry, commands, requests,
                   browserVars>>

\* The exchange gives up: it drops the receiver of its outcome, fires the
\* cancellation and has the owner remove the transaction.
Withdraw(e, next) ==
    /\ stage' = [stage EXCEPT ![e] = next]
    /\ outcome' = [outcome EXCEPT ![e] = "none"]
    /\ cancelled' = cancelled \cup {e}
    /\ commands' = Append(commands, Command("remove", e))
    /\ UNCHANGED answer

UrlFails(e) ==
    /\ stage[e] = "redirecting"
    /\ Withdraw(e, "cancelling")
    /\ UNCHANGED <<sessionVars, registry, requests, browserVars>>

Expires(e) ==
    /\ stage[e] = "pending"
    /\ e \in overdue
    /\ Withdraw(e, "expiring")
    /\ UNCHANGED <<sessionVars, registry, requests, browserVars>>

PeerCloses(e) ==
    /\ stage[e] = "pending"
    /\ Withdraw(e, "cancelling")
    /\ UNCHANGED <<sessionVars, registry, requests, browserVars>>

\* The completion, or the loss of its sender, arrives.
OutcomeReceived(e) ==
    /\ stage[e] = "pending"
    /\ outcome[e] # "none"
    /\ outcome' = [outcome EXCEPT ![e] = "none"]
    /\ \/ /\ outcome[e] # "Admitted"
          /\ Responds(e, "Failed")
          /\ UNCHANGED sessionVars
       \/ /\ outcome[e] = "Admitted" /\ e \in overdue
          /\ Dies(e, "Expired")
          /\ Responds(e, "Expired")
       \/ /\ outcome[e] = "Admitted" /\ e \notin overdue
          /\ phase' = [phase EXCEPT ![e] = "Resolving"]
          /\ stage' = [stage EXCEPT ![e] = "resolving"]
          /\ UNCHANGED <<provider, answer, cancelled>>
    /\ UNCHANGED <<registry, commands, requests, browserVars>>

\* resolve_enterprise_target in the owner.
ResolveTarget(e, found) ==
    /\ stage[e] = "resolving"
    /\ IF found
       THEN /\ phase' = [phase EXCEPT ![e] = "Completed"]
            /\ UNCHANGED provider
            /\ Responds(e, "Resolved")
       ELSE /\ Dies(e, "Unavailable")
            /\ Responds(e, "Unavailable")
    /\ UNCHANGED <<outcome, registry, commands, requests, browserVars>>

Answered(e) ==
    /\ stage[e] = "answering"
    /\ Ends(e)
    /\ UNCHANGED <<sessionVars, outcome, registry, commands, requests, browserVars>>

\* The session's lifetime, ten minutes from its creation.
SessionDeadline(e) ==
    /\ e \in Running /\ phase[e] # "Created" /\ e \notin overdue
    /\ overdue' = overdue \cup {e}
    /\ UNCHANGED <<sessionVars, exchangeVars, outcome, registry, commands, requests, httpVars,
                   late, verified>>

-----------------------------------------------------------------------------
(* The callback handler *)

\* Whether the exchange still holds the receiver of its outcome.
Waiting(e) == stage[e] \in {"redirecting", "pending"}

\* Dropping the sender, or sending on it, is seen by an exchange that waits.
Settle(settled, result) ==
    outcome' = [e \in Exchanges |->
                  IF e \in settled /\ Waiting(e) THEN result ELSE outcome[e]]

\* The browser follows the redirect, once or again, on either route.
Arrive(b, e, p) ==
    /\ handling[b] = "idle"
    /\ stage[e] \notin {"none", "starting", "offering", "selecting", "registering"}
    /\ provider[e] # NoProvider
    /\ handling' = [handling EXCEPT ![b] = "asking"]
    /\ target' = [target EXCEPT ![b] = e]
    /\ route' = [route EXCEPT ![b] = p]
    /\ clock' = [clock EXCEPT ![b] = overdue]
    /\ UNCHANGED <<sessionVars, exchangeVars, outcome, registry, commands, requests, page,
                   overdue, late, verified>>

\* Mutant of Mismatched: any configured provider's route will do.
MismatchedNever(b) == FALSE

\* The route is bound to the provider the session selected.
Mismatched(b) == provider[target[b]] # route[b]

\* A handler that met a mismatch shows it, whatever becomes of the entry.
Returned(b, result) ==
    IF handling[b] \in {"finishing", "completing"} /\ Mismatched(b)
    THEN "InvalidState" ELSE result

\* The handler moves on or, with its page, returns and forgets its locals.
Continues(b, next) ==
    /\ handling' = [handling EXCEPT ![b] = next]
    /\ clock' = [clock EXCEPT ![b] = {}]
    /\ UNCHANGED <<target, route, page>>

Shows(b, result) ==
    /\ handling' = [handling EXCEPT ![b] = "done"]
    /\ page' = [page EXCEPT ![b] = result]
    /\ target' = [target EXCEPT ![b] = NoExchange]
    /\ route' = [route EXCEPT ![b] = NoProvider]
    /\ clock' = [clock EXCEPT ![b] = {}]

Request(op, b) ==
    [op |-> op, callback |-> b, exchange |-> target[b], swept |-> clock[b],
     result |-> page[b]]

\* timeout_at polls the send before the clock: room in the channel wins.
Ask(b) ==
    /\ handling[b] = "asking"
    /\ Len(requests) < Channel
    /\ requests' = Append(requests, Request("take", b))
    /\ Continues(b, "taking")
    /\ UNCHANGED <<sessionVars, exchangeVars, outcome, registry, commands, overdue, late,
                   verified>>

AskTimesOut(b) ==
    /\ b \in late
    /\ \/ handling[b] = "asking" /\ Len(requests) >= Channel
       \/ handling[b] \in {"taking", "completing"}
    /\ Shows(b, Returned(b, "Platform"))
    /\ UNCHANGED <<sessionVars, exchangeVars, outcome, registry, commands, requests, overdue,
                   late, verified>>

\* The handler owns the session and has a result for it.
Concludes(b, result) ==
    /\ handling' = [handling EXCEPT ![b] = "finishing"]
    /\ page' = [page EXCEPT ![b] = result]
    /\ UNCHANGED <<exchangeVars, outcome, registry, commands, requests, target, route, clock,
                   overdue, late>>

Mismatch(b) ==
    /\ handling[b] = "verifying"
    /\ Mismatched(b)
    /\ Dies(target[b], "Failed")
    /\ Concludes(b, "InvalidState")
    /\ UNCHANGED verified

\* verify_member succeeds: callback() and validate_member(true).
Member(b) ==
    /\ handling[b] = "verifying"
    /\ ~Mismatched(b)
    /\ phase' = [phase EXCEPT ![target[b]] = "Authenticated"]
    /\ UNCHANGED provider
    /\ verified' = verified \cup {<<target[b], route[b]>>}
    /\ Concludes(b, "Admitted")

\* A code that is invalid, a user who is no member or declines, a platform
\* that fails.
NotMember(b, result) ==
    /\ handling[b] = "verifying"
    /\ ~Mismatched(b)
    /\ result \in {"Rejected", "InvalidState", "Platform"}
    /\ Dies(target[b], "Failed")
    /\ Concludes(b, result)
    /\ UNCHANGED verified

VerificationCancelled(b) ==
    /\ handling[b] = "verifying"
    /\ ~Mismatched(b)
    /\ target[b] \in cancelled
    /\ Dies(target[b], "Cancelled")
    /\ Concludes(b, "InvalidState")
    /\ UNCHANGED verified

VerificationTimesOut(b) ==
    /\ handling[b] = "verifying"
    /\ ~Mismatched(b)
    /\ b \in late
    /\ Dies(target[b], "Failed")
    /\ Concludes(b, "Platform")
    /\ UNCHANGED verified

\* finish_entry(): the session goes back through the owner ...
Finish(b) ==
    /\ handling[b] = "finishing"
    /\ Len(requests) < Channel
    /\ requests' = Append(requests, Request("complete", b))
    /\ Continues(b, "completing")
    /\ UNCHANGED <<sessionVars, exchangeVars, outcome, registry, commands, overdue, late,
                   verified>>

\* ... or, with no room before the deadline, straight to the exchange.
FinishTimesOut(b) ==
    /\ handling[b] = "finishing"
    /\ b \in late
    /\ Len(requests) >= Channel
    /\ Dies(target[b], "Failed")
    /\ Settle({target[b]}, "Platform")
    /\ Shows(b, Returned(b, "Platform"))
    /\ UNCHANGED <<exchangeVars, registry, commands, requests, overdue, late, verified>>

\* The session and the sender of its outcome, while a handler owns them.
Holds(b) == handling[b] \in {"verifying", "finishing"}

\* Mutant of Disconnects: the transaction outlives the connection.
DisconnectsKeeping(b) ==
    /\ handling[b] \notin {"idle", "done"}
    /\ Shows(b, "none")
    /\ UNCHANGED <<sessionVars, exchangeVars, outcome, registry, commands, requests, overdue,
                   late, verified>>

\* The browser goes away: the server drops the handler at its await, and
\* what the handler owns with it.
Disconnects(b) ==
    /\ handling[b] \notin {"idle", "done"}
    /\ Settle(IF Holds(b) THEN {target[b]} ELSE {}, "lost")
    /\ Shows(b, "none")
    /\ UNCHANGED <<sessionVars, exchangeVars, registry, commands, requests, overdue, late,
                   verified>>

\* CALLBACK_CONNECTION_TIMEOUT, from the accept on.
CallbackDeadline(b) ==
    /\ b \notin late
    /\ \/ handling[b] \notin {"idle", "done"}
       \/ \E i \in DOMAIN requests : requests[i].callback = b
    /\ late' = late \cup {b}
    /\ UNCHANGED <<sessionVars, exchangeVars, outcome, registry, commands, requests, httpVars,
                   overdue, verified>>

-----------------------------------------------------------------------------
(* The relay owner *)

\* insert(): expired entries are swept first; a full table refuses, and the
\* refused session is dropped.
Register ==
    /\ commands # <<>> /\ Head(commands).op = "register"
    /\ LET m == Head(commands)
           live == registry \ m.swept
       IN /\ IF Cardinality(live) < Capacity
             THEN /\ registry' = live \cup {m.exchange}
                  /\ stage' = [stage EXCEPT ![m.exchange] = "redirecting"]
                  /\ UNCHANGED <<answer, cancelled>>
             ELSE /\ registry' = live
                  /\ Responds(m.exchange, "Failed")
          /\ Settle(registry \cap m.swept, "lost")
    /\ commands' = Tail(commands)
    /\ UNCHANGED <<sessionVars, requests, browserVars>>

\* remove(), and the exchange that asked for it goes on: it ends the session
\* it got back, if any.
Remove ==
    /\ commands # <<>> /\ Head(commands).op = "remove"
    /\ LET e == Head(commands).exchange
           expiring == stage[e] = "expiring"
       IN /\ registry' = registry \ {e}
          /\ IF e \in registry
             THEN Dies(e, IF expiring THEN "Expired" ELSE "Cancelled")
             ELSE UNCHANGED sessionVars
          /\ IF expiring THEN Responds(e, "Expired") ELSE Ends(e)
    /\ commands' = Tail(commands)
    /\ UNCHANGED <<outcome, requests, browserVars>>

\* Mutant of Taken: the entry is read, not removed.
TakenLeaving(entries, e) == entries

\* take() consumes the entry.
Taken(entries, e) == entries \ {e}

\* A handler that no longer waits lets the entry drop.
Take ==
    /\ requests # <<>> /\ Head(requests).op = "take"
    /\ LET m == Head(requests)
           live == registry \ m.swept
           found == m.exchange \in live
           waits == handling[m.callback] = "taking"
       IN /\ registry' = Taken(live, m.exchange)
          /\ Settle((registry \cap m.swept)
                      \cup (IF found /\ ~waits THEN {m.exchange} ELSE {}), "lost")
          /\ IF ~waits THEN UNCHANGED httpVars
             ELSE IF found THEN Continues(m.callback, "verifying")
             ELSE Shows(m.callback, "InvalidState")
    /\ requests' = Tail(requests)
    /\ UNCHANGED <<sessionVars, exchangeVars, commands, overdue, late, verified>>

\* Mutant of Committed: a late session is failed, its result kept.
CommittedLate(m) == IF m.exchange \in cancelled THEN "InvalidState" ELSE m.result

\* A completion is committed unless its exchange cancelled or its connection
\* ran out of time meanwhile.
Committed(m) ==
    IF m.exchange \in cancelled THEN "InvalidState"
    ELSE IF m.callback \in late THEN "Platform"
    ELSE m.result

Complete ==
    /\ requests # <<>> /\ Head(requests).op = "complete"
    /\ LET m == Head(requests)
       IN /\ IF m.exchange \in cancelled THEN Dies(m.exchange, "Cancelled")
             ELSE IF m.callback \in late THEN Dies(m.exchange, "Failed")
             ELSE UNCHANGED sessionVars
          /\ Settle({m.exchange}, Committed(m))
          /\ IF handling[m.callback] = "completing"
             THEN Shows(m.callback, Returned(m.callback, Committed(m)))
             ELSE UNCHANGED httpVars
    /\ requests' = Tail(requests)
    /\ UNCHANGED <<exchangeVars, registry, commands, overdue, late, verified>>

-----------------------------------------------------------------------------

Owner ==
    \/ Register \/ Remove \/ Take \/ Complete
    \/ \E e \in Exchanges, found \in BOOLEAN : ResolveTarget(e, found)

Handler(b) ==
    \/ Ask(b) \/ AskTimesOut(b) \/ Mismatch(b) \/ Member(b)
    \/ \E r \in Results : NotMember(b, r)
    \/ VerificationCancelled(b) \/ VerificationTimesOut(b)
    \/ Finish(b) \/ FinishTimesOut(b) \/ Disconnects(b)

Exchange(e) ==
    \/ EarlyFailure(e) \/ Admitted(e) \/ Limited(e) \/ Offered(e)
    \/ \E p \in Providers \cup {Unknown} : Select(e, p)
    \/ UrlWritten(e) \/ UrlFails(e) \/ Expires(e) \/ PeerCloses(e)
    \/ OutcomeReceived(e) \/ Answered(e)

Next ==
    \/ \E e \in Exchanges : Accept(e) \/ Exchange(e) \/ SessionDeadline(e)
    \/ \E b \in Callbacks, e \in Exchanges, p \in Providers : Arrive(b, e, p)
    \/ \E b \in Callbacks : Handler(b) \/ CallbackDeadline(b)
    \/ Owner

\* The human selection is read until the session's deadline, the offer is
\* written within the message timeout.
SelectionEnds(e) ==
    \/ Offered(e)
    \/ EarlyFailure(e) /\ (stage[e] = "offering" \/ e \in overdue)

\* The owner serves its channels, reads and writes are bounded by timeouts,
\* a callback connection by its deadline.  Nothing obliges a browser to come,
\* a provider to answer or a session to run out.
Fairness ==
    /\ WF_vars(Owner)
    /\ \A e \in Exchanges :
          /\ WF_vars(SelectionEnds(e))
          /\ WF_vars(UrlWritten(e) \/ UrlFails(e))
          /\ WF_vars(Expires(e) \/ OutcomeReceived(e))
          /\ WF_vars(Answered(e))
    /\ \A b \in Callbacks :
          /\ WF_vars(CallbackDeadline(b))
          /\ WF_vars(AskTimesOut(b) \/ Mismatch(b) \/ VerificationTimesOut(b))
          /\ WF_vars(Finish(b) \/ FinishTimesOut(b))

EntSpec == EntInit /\ [][Next]_vars /\ Fairness

-----------------------------------------------------------------------------
(* Properties *)

\* Where the session of e is owned: the registry, a queued registration, a
\* callback handler, a queued completion.
Owners(e) ==
    {<<"registry">> : x \in registry \cap {e}}
    \cup {<<"register", i>> : i \in {j \in DOMAIN commands :
                commands[j].op = "register" /\ commands[j].exchange = e}}
    \cup {<<"handler", b>> : b \in {c \in Callbacks : Holds(c) /\ target[c] = e}}
    \cup {<<"complete", i>> : i \in {j \in DOMAIN requests :
                requests[j].op = "complete" /\ requests[j].exchange = e}}

\* A transaction is in one place at a time: replayed callbacks never give two
\* handlers the same session, nor one while the registry still offers it.  A
\* registered one belongs to an exchange that still runs and holds a permit, so
\* with as many slots as permits CallbackRegistry::insert refuses no exchange,
\* however callbacks, expiry and disconnects interleave.
TransactionsOwned ==
    /\ \A e \in Exchanges : Cardinality(Owners(e)) <= 1
    /\ registry \subseteq Running

\* The relay discloses a target only to an exchange whose user was verified
\* with the provider the exchange selected and that has not withdrawn.
DisclosedOnlyToMember ==
    \A e \in Exchanges :
        answer[e] = "Resolved" => <<e, provider[e]>> \in verified /\ e \notin cancelled

\* The browser is told "admitted" only by a commit that reaches an exchange
\* still waiting for it, and an exchange hears of an admission only with a
\* session that will accept begin_resolve(): a deadline that passes while the
\* completion is queued fails both together.
AdmissionReachesWaiter ==
    [][/\ \A b \in Callbacks :
            handling[b] = "completing" /\ handling'[b] = "done" /\ page'[b] = "Admitted"
              => Waiting(target[b]) /\ outcome'[target[b]] = "Admitted"
       /\ \A e \in Exchanges :
            Waiting(e)' /\ outcome'[e] = "Admitted" => phase'[e] = "Authenticated"]_vars

\* An exchange always hears the end of it.  A transaction a callback took is
\* settled by that callback's own deadline: its exchange hears a result, or
\* the loss of the handler, unless it withdraws by itself.  And once its session
\* has run out, every exchange ends and frees its permit.
ExchangesSettle ==
    \A e \in Exchanges :
        /\ (\E b \in Callbacks : Holds(b) /\ target[b] = e)
             ~> (outcome[e] # "none" \/ ~Waiting(e))
        /\ e \in overdue ~> stage[e] = "ended"
=============================================================================
