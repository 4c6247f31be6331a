---------------------------- MODULE RelayService ----------------------------
(***************************************************************************)
(* The relay's single-owner loop, crates/yon-relay/src/service.rs, with    *)
(* the registry protocol it serves: swarm events keep the ConnectionBook   *)
(* and the Registry in step, each registry substream runs as a task that   *)
(* hands one RegistryCall to the owner and writes the owner's decision     *)
(* back, and a peer refused for capacity is disconnected.                  *)
(*                                                                         *)
(* The relay process runs on a current-thread runtime (main.rs:457), so    *)
(* the code between two awaits of the owner or of a task is one action,    *)
(* and a decision handed to a task still waiting is always received: the   *)
(* timeout polls the exchange before its own deadline.  The select of the  *)
(* owner loop is unbiased: pending events, calls and completions are       *)
(* handled in any order.  Resolve admission is in ResolveLimiters.         *)
(***************************************************************************)
EXTENDS Registry, Sequences

CONSTANTS
    Conns,           \* ConnectionId values
    SourceOf,        \* source_prefix() of each connection, or NoSource
    NoSource,        \* an endpoint without an IP component
    RosterCapacity,  \* PER_PEER_CAPACITY of the ConnectionBook
    Readers,         \* REGISTRY_READERS: permits and call channel capacity
    Kinds            \* bound: the kinds of request the hosts of an instance send

ASSUME ServiceAssumption ==
    /\ SourceOf \in [Conns -> Sources \cup {NoSource}]
    /\ NoSource \notin Sources
    /\ RosterCapacity \in Nat \ {0}
    /\ Readers \in Nat \ {0}
    /\ Kinds \subseteq {"allocate", "reclaim", "release"}

VARIABLES
    live,      \* swarm connections of each peer (libp2p)
    closing,   \* connections close_connection() was called on
    book,      \* ConnectionBook rosters
    active,    \* registry_active
    rejected,  \* rejected_peers
    exchange,  \* the registry task of each peer in registry_active
    calls,     \* registry_calls channel
    retrying,  \* immediate-retry tasks holding a permit
    running    \* the owner loop has not broken

svcVars == <<live, closing, book, active, rejected, exchange, calls, retrying, running>>
vars == <<regVars, svcVars>>

Requests == [kind: {"allocate"}] \cup [kind: {"reclaim", "release"}, locator: Locators]

\* A task reads the request, waits for the decision, writes it, drains when
\* it refused for capacity, and reports done.
Holding == {"reading", "waiting", "writing", "draining"}  \* stages that own a permit
NoTask == [stage |-> "none"]
Task(stage, c, rejects) == [stage |-> stage, conn |-> c, rejects |-> rejects]

Permits == Cardinality({p \in Peers : exchange[p].stage \in Holding}) + retrying

\* A connection id is fresh once nothing in the relay mentions it any more;
\* libp2p never reuses one.
Unused(c) == /\ \A p \in Peers : c \notin live[p]
             /\ \A i \in 1..Len(calls) : calls[i].conn # c
             /\ \A p \in Peers : exchange[p] # NoTask => exchange[p].conn # c

SvcInit == /\ Init
           /\ live = [p \in Peers |-> {}]
           /\ closing = {}
           /\ book = [p \in Peers |-> {}]
           /\ active = {}
           /\ rejected = {}
           /\ exchange = [p \in Peers |-> NoTask]
           /\ calls = <<>>
           /\ retrying = 0
           /\ running = TRUE

-----------------------------------------------------------------------------
(* Swarm events *)

\* ConnectionBook::established: a full roster refuses the connection.
Recorded(p, c) == IF Cardinality(book[p]) < RosterCapacity
                  THEN book[p] \cup {c} ELSE book[p]

\* The registry learns whether the roster of p holds a connection.
Observe(p) == SetConnection(p, book'[p] # {})

\* An overflowing connection is closed; a peer waiting to be disconnected may
\* not keep its reservation alive with a replacement connection.
MustClose(p, c) == c \notin Recorded(p, c) \/ p \in rejected

Established(p, c) ==
    /\ running
    /\ Unused(c)
    /\ live' = [live EXCEPT ![p] = @ \cup {c}]
    /\ book' = [book EXCEPT ![p] = Recorded(p, c)]
    /\ Observe(p)
    /\ closing' = IF MustClose(p, c) THEN closing \cup {c} ELSE closing
    /\ UNCHANGED <<active, rejected, exchange, calls, retrying, running>>

\* The connection ends, by our close or by the remote's.
Closed(p, c) ==
    /\ running
    /\ c \in live[p]
    /\ live' = [live EXCEPT ![p] = @ \ {c}]
    /\ closing' = closing \ {c}
    /\ book' = [book EXCEPT ![p] = @ \ {c}]
    /\ Observe(p)
    /\ rejected' = IF p \notin active /\ book'[p] = {}
                   THEN rejected \ {p} ELSE rejected
    /\ UNCHANGED <<active, exchange, calls, retrying, running>>

\* ReservationReqAccepted comes over a connection; ReservationClosed and
\* ReservationTimedOut may come before or after the connection's own end.
ReservationAccepted(p) ==
    /\ running
    /\ live[p] # {}
    /\ p \notin reservations
    /\ SetReservation(p, TRUE)
    /\ UNCHANGED svcVars

ReservationEnded(p) ==
    /\ running
    /\ p \in reservations
    /\ SetReservation(p, FALSE)
    /\ UNCHANGED svcVars

-----------------------------------------------------------------------------
(* Registry substreams *)

\* A substream without a permit is dropped.
PermitFree == Permits < Readers

\* A peer that is being served, is being disconnected or has not exactly one
\* connection is told to retry.
Servable(p) == p \notin active /\ p \notin rejected /\ Cardinality(book[p]) = 1

AnswerRetry(p) ==
    /\ running
    /\ live[p] # {}
    /\ PermitFree
    /\ ~Servable(p)
    /\ retrying' = retrying + 1
    /\ UNCHANGED <<regVars, live, closing, book, active, rejected, exchange, calls, running>>

Admit(p) ==
    /\ running
    /\ PermitFree
    /\ Servable(p)
    /\ active' = active \cup {p}
    /\ exchange' = [exchange EXCEPT ![p] =
                       Task("reading", CHOOSE c \in book[p] : TRUE, FALSE)]
    /\ UNCHANGED <<regVars, live, closing, book, rejected, calls, retrying, running>>

RetryAnswered ==
    /\ running
    /\ retrying > 0
    /\ retrying' = retrying - 1
    /\ UNCHANGED <<regVars, live, closing, book, active, rejected, exchange, calls, running>>

\* registry_exchange has read a request and queues it for the owner; the
\* channel is bounded.
ChannelRoom == Len(calls) < Readers

SendCall(p, request) ==
    /\ running
    /\ exchange[p].stage = "reading"
    /\ request.kind \in Kinds
    /\ ChannelRoom
    /\ calls' = Append(calls, [peer |-> p, conn |-> exchange[p].conn,
                               request |-> request, awaited |-> TRUE])
    /\ exchange' = [exchange EXCEPT ![p].stage = "waiting"]
    /\ UNCHANGED <<regVars, live, closing, book, active, rejected, retrying, running>>

\* Mutant of Timed: reading the request is not under the timeout.
TimedLate == {"waiting", "writing"}

\* Stages under MESSAGE_TIMEOUT.
Timed == {"reading", "waiting", "writing"}

\* A bad request, an I/O error or MESSAGE_TIMEOUT ends the exchange.  A call
\* already queued stays queued, with nobody waiting for its answer.
ExchangeFails(p) ==
    /\ running
    /\ exchange[p].stage \in Timed
    /\ exchange' = [exchange EXCEPT ![p].stage = "done"]
    /\ calls' = [i \in 1..Len(calls) |->
                    IF calls[i].peer = p THEN [calls[i] EXCEPT !.awaited = FALSE]
                                         ELSE calls[i]]
    /\ UNCHANGED <<regVars, live, closing, book, active, rejected, retrying, running>>

\* The response was written, flushed and closed.  A capacity refusal keeps the
\* connection for REJECTED_CONNECTION_DRAIN so that the answer gets through.
ResponseWritten(p) ==
    /\ running
    /\ exchange[p].stage = "writing"
    /\ exchange' = [exchange EXCEPT ![p].stage =
                       IF exchange[p].rejects THEN "draining" ELSE "done"]
    /\ UNCHANGED <<regVars, live, closing, book, active, rejected, calls, retrying, running>>

DrainEnds(p) ==
    /\ running
    /\ exchange[p].stage = "draining"
    /\ exchange' = [exchange EXCEPT ![p].stage = "done"]
    /\ UNCHANGED <<regVars, live, closing, book, active, rejected, calls, retrying, running>>

-----------------------------------------------------------------------------
(* The owner *)

\* The loop breaks: the task group is shut down and the node dropped.
Halt == /\ running' = FALSE
        /\ active' = {}
        /\ exchange' = [p \in Peers |-> NoTask]
        /\ calls' = <<>>
        /\ retrying' = 0
        /\ UNCHANGED <<live, closing, book, rejected>>

\* close_peer_connections(): everything in the roster.
CloseAll(p) == closing \cup book[p]

\* A refusal that nobody waits for any more closes the peer at once.
ClosedUnheard(call, rejects) ==
    IF rejects /\ ~call.awaited THEN CloseAll(call.peer) ELSE closing

\* What the owner does with a decision on call: a capacity refusal marks the
\* peer rejected.
Deliver(call, rejects) ==
    /\ calls' = Tail(calls)
    /\ rejected' = IF rejects THEN rejected \cup {call.peer} ELSE rejected
    /\ exchange' = IF call.awaited
                   THEN [exchange EXCEPT ![call.peer] =
                            Task("writing", call.conn, rejects)]
                   ELSE exchange
    /\ closing' = ClosedUnheard(call, rejects)
    /\ UNCHANGED <<live, book, active, retrying, running>>

\* Mutant of Sole: any single connection will do, not only the one the request
\* was admitted on.
SoleAny(call) == Cardinality(book[call.peer]) = 1

\* The connection the request was admitted on is still the peer's only one.
Sole(call) == book[call.peer] = {call.conn}

\* handle_registry_call: without its sole connection the peer is told to retry.
HandleCall ==
    /\ running
    /\ calls # <<>>
    /\ LET call == Head(calls)
           p == call.peer
           s == SourceOf[call.conn]
           kind == call.request.kind
       IN  \/ /\ ~Sole(call) \/ (kind # "release" /\ s = NoSource)
              /\ Deliver(call, FALSE)
              /\ UNCHANGED regVars
           \/ /\ Sole(call)
              /\ kind = "release"
              /\ Release(p, call.request.locator)
              /\ Deliver(call, FALSE)
           \/ /\ Sole(call)
              /\ kind # "release"
              /\ s # NoSource
              /\ IF kind = "allocate" THEN Allocate(p, s)
                                      ELSE Reclaim(p, s, call.request.locator)
              /\ IF reply'.result = "RandomFailed" THEN Halt
                 ELSE Deliver(call, reply'.result = "Capacity")

\* A peer refused for capacity loses every connection it has by now.
ClosedWhenDone(p) == IF exchange[p].rejects THEN CloseAll(p) ELSE closing

\* Mutant of RejectedWhenDone: only a later close would clear the peer.
RejectedKept(p) == rejected

\* A peer without a connection left is no longer rejected.
RejectedWhenDone(p) == IF book[p] = {} THEN rejected \ {p} ELSE rejected

\* RegistryTaskDone: the peer may be served again.
TaskDone(p) ==
    /\ running
    /\ exchange[p].stage = "done"
    /\ exchange' = [exchange EXCEPT ![p] = NoTask]
    /\ active' = active \ {p}
    /\ closing' = ClosedWhenDone(p)
    /\ rejected' = RejectedWhenDone(p)
    /\ UNCHANGED <<regVars, live, book, calls, retrying, running>>

\* A signal or a failed listener, task or protocol registration.
Shutdown == running /\ Halt /\ UNCHANGED regVars

ClockTick == running /\ Tick /\ UNCHANGED svcVars

SvcNext ==
    \/ \E p \in Peers, c \in Conns : Established(p, c) \/ Closed(p, c)
    \/ \E p \in Peers : ReservationAccepted(p) \/ ReservationEnded(p)
    \/ \E p \in Peers : AnswerRetry(p) \/ Admit(p)
    \/ RetryAnswered
    \/ \E p \in Peers, request \in Requests : SendCall(p, request)
    \/ \E p \in Peers : ExchangeFails(p) \/ ResponseWritten(p) \/ DrainEnds(p) \/ TaskDone(p)
    \/ HandleCall
    \/ Shutdown
    \/ ClockTick

\* The owner keeps polling its channels, every exchange is under
\* MESSAGE_TIMEOUT and every drain under a timer, and libp2p finishes the
\* closes it was asked for.
SvcFairness ==
    /\ WF_vars(HandleCall)
    /\ \A p \in Peers : /\ WF_vars(ExchangeFails(p) \/ ResponseWritten(p))
                        /\ WF_vars(DrainEnds(p))
                        /\ WF_vars(TaskDone(p))
                        /\ \A c \in Conns : WF_vars(c \in closing /\ Closed(p, c))

SvcSpec == SvcInit /\ [][SvcNext]_vars /\ SvcFairness

-----------------------------------------------------------------------------
(* Properties *)

\* A peer refused for capacity is on its way out, and only for as long: it
\* stays in rejected_peers only while a task or a connection of its remains,
\* and every connection of it is being closed except the one the answer is
\* still being delivered on.  No order of timeouts, stale calls, closes and
\* completions locks it out of the relay, or in, for good.
RejectionDrains ==
    running => \A p \in rejected :
        /\ p \in active \/ book[p] # {}
        /\ \A c \in live[p] :
             \/ c \in closing
             \/ /\ exchange[p].stage \in {"writing", "draining", "done"}
                /\ exchange[p].rejects
                /\ exchange[p].conn = c

\* The source prefix peer p's hold on locator l is charged to: none or one.
ChargedFor(p, l) ==
    {byLocator[k].source : k \in {j \in DOMAIN byLocator \cap {l} : byLocator[j].owner = p}}

\* A request acts only for the connection it came over.  Between reading a
\* request and handling it the peer may have lost that connection, opened
\* another one from elsewhere, or given up waiting: whatever the order, a peer
\* is given a locator, or loses one it has not let expire, only while the
\* request's own connection is up and every other connection of the peer is
\* being closed, and the locator is charged to that connection's source.
StaleCallsChangeNothing ==
    [][\A p \in Peers, l \in Locators :
          \/ ChargedFor(p, l)' = ChargedFor(p, l)
          \/ ChargedFor(p, l)' = {} /\ l \in Expired
          \/ /\ calls # <<>>
             /\ Head(calls).peer = p
             /\ Head(calls).conn \in live[p]
             /\ live[p] \ {Head(calls).conn} \subseteq closing
             /\ ChargedFor(p, l)' \subseteq {SourceOf[Head(calls).conn]}]_vars

\* Every admitted registry exchange comes to an end and frees the peer's slot.
ExchangesEnd == \A p \in Peers : p \in active ~> p \notin active
=============================================================================
