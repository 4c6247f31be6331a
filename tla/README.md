# Yonder: specifications and proofs

Yonder gives one controller one remote terminal on one host. The host displays
a short connection code; the controller types it in; a relay brings the two
together; the peers prefer a direct path, authenticate each other with the code
(a PAKE) and open a PTY. The code is used up by the first terminal. This
directory models the parts of the program whose correctness depends on the order
in which tasks, timers, connections and people act, checks them with TLC on
small instances, and proves the central ones with TLAPS for every value of the
constants.

All source paths below are relative to `src/crates/`.

## 1. Inventory

### The relay (`yon-relay/src`)

| Part | State | Operations | Interacts through |
|---|---|---|---|
| Locator registry, `registry.rs` | `by_locator`, `by_owner`, `by_source`, reserved and connected peers | `set_reservation`, `set_connection`, `allocate`, `reclaim`, `release`, `resolve`, lazy `prune` | direct calls of the owner loop |
| Owner loop, `service.rs` | connection book, `registry_active`, `rejected_peers`, permits, channels | swarm events, registry and resolve calls, task completions, shutdown | bounded channels to tasks, libp2p |
| Resolve admission, `ResolveLimiters` in `registry.rs` | a global limiter and a bounded table of source limiters | `check` with prune | owner loop |
| Enterprise resolve, `enterprise_resolve.rs`, `session.rs` | one session per substream | offer, select, wait for the browser, resolve | transaction channel to the owner |
| OAuth callback, `callback.rs`, `callback_session.rs` | single-use registry of transactions | take, verify, complete | request channel to the owner, oneshot to the exchange |
| Provider clients, `provider.rs`, `verifier.rs`, `exchange.rs` | none | HTTPS to WeCom and Feishu | called by the callback |

What is hard here. The owner is single-threaded, but every exchange is a task of
its own, times out by itself, and reaches the owner through a channel that may
be full or hold its predecessor's messages. A decision can therefore be made
for a task that is gone, for a connection that was replaced, or for a session
that a second callback also wants. Expiry is lazy everywhere. Capacity refusals
close connections whose closing comes back as events.

### The host (`yon/src/host.rs`, `network.rs`, `yonder-core/src/session.rs`)

| Part | State | Operations |
|---|---|---|
| `HostSession::run` | phase of the loop, `TargetSession`, binding, lease | wait, settle, authenticate, collect streams, start terminal, commit, release, bridge, finalize, clean up |
| Relay registration, `RelayRecovery` and `protocol.rs` | relay connection, reservation, locator on display | connect, reserve, allocate, reclaim, release, back off, replace the code |
| Endpoint driver | rosters, direct-upgrade tracker, leases, listeners, pending dials | polled inside every await of host and controller |
| Terminal bridge | pumps for input, output, files, audit; closing deadline | pump, drain, close, merge errors |
| File substreams | coordinator with an active, a busy and a deferred slot | accept, refuse busy, serve, hand off |

What is hard here. Roster changes, lost leases and signals arrive at every await,
and each await has its own reaction; a terminal may be open while the code is
not yet consumed; one missed exit leaves a shell or offers a used code again. The
relay and the host learn of a lost connection at different times, so a host that
reconnects may meet its own last connection.

### The controller (`yon/src/controller.rs`, `network.rs`, `local_control.rs`, `transfer_prompt.rs`)

| Part | State | Operations |
|---|---|---|
| `prepare_controller_session` | attempt, admission, authentication retries | relay, resolve, connect, authenticate, fall back once |
| Connection selection, `connection.rs`, `path.rs` | candidates with ping samples, windows | offer, sample, close, select, converge, drain |
| Terminal pump, `run_terminal` | step futures, remote completion, closing drain | read, record, send, show, close |
| File prompt | control machine, path prompt, delayed output | type, prompt, start, cancel, flush |

Hard: candidates that succeed in the wrong order and upgrade results that come after
a deadline, dials that cannot be cancelled, a fallback after the code may have been
consumed, a browser resolve that must not be repeated, a select whose branches become
ready together, and a key press that arrives while the pump is busy.

### File transfer (`yon/src/transfer.rs`, `file_semantics.rs`, `yonder-core/src/wire/file_transfer.rs`)

| Part | State | Operations |
|---|---|---|
| `WireSession` | direction, side, wire state | `send`, `receive`, `close` |
| `run_upload`, `run_download`, `handle_upload_from_open`, `handle_download_from_open` | the await, source or temporary file, hasher, audit facts, cancel flag | open, offer, ready, stream, finish, verify, commit, acknowledge |
| `SourceFile`, `PrivateTempFile`, `SealedTempFile` | open handle and identity, running digest | read, recheck, write, seal, verify, no-replace commit |

Hard: the answer to the commit may be lost, a write may be cancelled in the middle of
a frame, cancellation crosses completion, the source changes while it is read and the
target appears while it is written, and the two sides' audit records must agree.

### Session audit (`yon/src/audit/*`, `yonder-core/src/wire/audit*.rs`)

| Part | State | Operations |
|---|---|---|
| `AuditSession` | four hash chains, checkpoints and acknowledgements, phase | record, checkpoint, acknowledge, close, fail closed |
| `AuditObserver` | session, writer, pending acknowledgement | exchange frames, finalize, commit |
| Ledger and identity | `ledger.state`, `ledger.lock`, identity file, records directory | open, recover, commit, advance |
| Verifier | the walk of one record, the pair rules, the local anchor | walk, compare, anchor |

Hard: either side may vanish between any two messages, checkpoints cross the bytes
they speak of on other substreams, writes fail half way, processes share one ledger,
and the machine loses power between a rename and its sync.

### Shared (`yonder-core`, `yonder-net`, `yonder-config`)

Domain types and codecs, rosters, rate limiters, task groups, transports,
identities, configuration.

Every part, modelled or not, is listed in `PROJECT.json`, as is every hazard with
the line where it bites.

## 2. Modules

| Module | Models | Composes |
|---|---|---|
| `Registry` | the locator registry, one action per public method | |
| `RelayService` | the owner loop with registry exchanges, connection book, capacity refusals | extends `Registry` |
| `ResolveLimiters` | admission of plain resolves | |
| `EnterpriseResolve` | enterprise exchanges, sessions, callbacks and the owner's transaction table | |
| `OneShotCode` | abstract: a code opens at most one terminal | |
| `HostSession` | one run of a host with its endpoint driver | implements `OneShotCode` |
| `HostRegistration` | a host's registration and recovery, against the relay's registry and another host | extends `Registry` |
| `ConnectionSelection` | candidates of a selection window and their ranking, as operators | |
| `RelayDial` | one call of `connect_configured_relay`, without a specification of its own | extends `ConnectionSelection` |
| `TargetConnect` | the controller from the relay to an authenticated connection, likewise | extends `ConnectionSelection` |
| `Connect` | the calls of both and their two callers: a host calls again on the same driver, a controller goes on, its fallback starts over on a fresh endpoint | extends `TargetConnect`, instantiates `RelayDial` |
| `FileWire` | the direction tables of the file protocol | |
| `FileDelivery` | abstract: published at most once, whole, replacing nothing; verdicts never wrong | |
| `FileTransfer` | one transfer, both sides, both directions | extends `FileWire`, implements `FileDelivery` |
| `FileSubstreams` | the host's file coordinator and the controller's sequence of operations | |
| `TransferUi` | the controller's control machine, path prompt, delayed display | |
| `JointRecord` | abstract: two accounts that only grow, sealed when they agree | |
| `AuditSession` | the audit state machine of one end, as operators | |
| `AuditExchange` | the observer: frames, checkpoints, finalization | extends `AuditSession` |
| `TerminalSession` | an audited session from `TerminalReady` to its end, both ends | extends `AuditExchange`, implements `JointRecord` |
| `AuditVerify` | the offline verifier, as operators | |
| `RecordedSession` | the records two honest ends leave, wherever they stop, and their verification | extends `AuditSession`, `AuditVerify` |
| `AuditLedger` | the ledger of one machine, shared by processes that crash | |
| `RelayProofs` | theorems of the registry, of the owner loop and its refinement of the registry, and of a host's registration | extends `RelayService`, `HostRegistration` |
| `ResolveProofs` | theorems of the two ways to resolve | extends `ResolveLimiters`, `EnterpriseResolve` |
| `ControllerProofs` | theorems of the controller's way to a session and of its display | extends `Connect`, `TransferUi` |
| `FileTransferProofs`, `AuditLedgerProofs`, `TerminalSessionProofs` | theorems | extend the module they are about |
| `TerminalExchangeProofs` | theorem `TerminalNoMismatch` | extends `TerminalSessionProofs` |
| `HostProofs` | theorems about `HostSession` and `FileSubstreams` | extends both |
| `MC*` | constants and scenarios of the runs, and the symmetry of `ResolveLimiters` | |

A definition called `X…` whose comment says "Mutant of X" is X with a
plausible mistake in it. It is not used by any specification; it documents
which mistake the property named in `PROJECT.json` catches.

### Registry

The three hash maps are three variables, because `refresh` relies on their
agreement (`expect`). Every method starts with `prune`, so every action does;
time is a `Tick` that ages suspended mappings up to `Grace`. `reply` is the
answer to the last call, with the root failure of the random source among the
answers. Locators stand for the ring; the random starting point of `allocate`
is a choice of any free locator.

### RelayService

One action per branch of the owner's `select!` and one per await of an
exchange task. The relay runs on a current-thread runtime, so the code between
two awaits is atomic. `live` and `closing` are libp2p's; `book` is the
`ConnectionBook` with its roster capacity. A task is in one of the stages
`reading`, `waiting`, `writing`, `draining`, `done`. A message in the call
channel carries `awaited`, which is false once its task has timed out: that
is the closed oneshot the owner finds. The model frees a permit when the task
reaches `done`; the code frees it just after sending the completion, and the
owner cannot observe the difference except as one permit more for an instant.

The owner uses the registry only through its methods, so every step of the loop is a step
of `Registry` or leaves it alone (theorem `ServiceRefinesRegistry`), and what is proved about
`Registry` holds of the registry inside the loop. What the loop adds is *when* it may use a
method: `Sole` is the test of `handle_registry_call` that the connection the request came
over is still the peer's only one. `StaleCallsChangeNothing` states what that test is for,
against `live` and `closing` and not against the book the test reads.

### ResolveLimiters

A limiter is its debt, the distance of its theoretical arrival time from now.
The boundary cell of the GCRA is left open. The assumption is the validation of
`ResolveLimits::new`; the code's own reason for that validation is the theorem
`LimitersNeverFull`. `PruningForgivesNothing` needs one more condition,
`RecoversWhenIdle`: a limiter that is pruned has recovered. `ResolveLimits::new`
does not check it. The defaults satisfy it amply (1 request per second with burst
32 for a source; the idle window is 600 s); a configuration with a large burst
and a short window would not, and the property is stated under the condition.
`EnterpriseLimiters` are the same algorithm with 1024 entries.

### EnterpriseResolve

An exchange is where its task awaits: `starting`, `offering`, `selecting`,
`registering`, `redirecting`, `pending`, `cancelling`, `expiring`, `resolving`,
`answering`, `ended`. A callback handler is `asking`, `taking`, `verifying`,
`finishing`, `completing` or `done`. The session's phase moves with the
session by ownership: the exchange creates it, the registration carries it to the
registry, `take` to the handler, `complete` through the owner back to the
exchange. The oneshots are `outcome` (with `lost` for a dropped sender) and
`cancelled`. A 256-bit state names its exchange. The relay sweeps with the clock
the sender read, so a message carries the set of sessions overdue at that moment;
a handler that finds the channel full sends with the old reading.

`Disconnects` drops a handler at any await: a browser that goes away, or
`LimitedStream` failing its I/O at the connection's deadline. Locator registry and
limiters answer either way. Relay shutdown is in `RelayService`.

### HostSession and OneShotCode

`phase` is the await at which `HostSession::run` is suspended, `session` the
`TargetSession` automaton as the code keeps it, `Apply` its transition table,
with `Invalid` for a refused event. `React` is the endpoint driver's answer to
a roster change inside an await that enforces the binding: the attempt ends, with
`ExtraConnection` or `ConnectionLost` by what is left. `EndAttempt` and `Finish`
are the two ways out, with the state they reset. PAKE, PTY and audit appear as
success or failure. The bridge is one phase, its closing drain one step.

`consumed` of `OneShotCode` is `session \in {Active, Spent}`; `code` counts the
codes displayed. `OneShotSpec` says that a host consumes one code once and shows
no other afterwards. It does not speak of the shell: that every failure between the opened
shell and the committed session takes the shell down is the theorem `HostShells`.

### FileTransfer, FileWire and FileDelivery

A side is at one await of its handler (`pc`); the same action serves both functions
that contain the code, with the sender and the receiver given by `dir`. A frame is
recorded in the `WireSession` and written in one step. `WriteFails` is everything that
`write_frame_bounded` may do instead: refuse because the cancel flag is set, or lose the
stream or be cancelled before or after the first byte, in which case the frame arrives
not at all, in part (`Cut`) or whole. A best-effort notice may be lost the same way.
Contents are sequences of blocks that carry the version of the source they were read
from, so a torn read is visible; a digest is the content it was computed from. All
codes of a local file failure are one, `File`. Wire names and paths are left out, except
that a name may fail to encode. A change of the source that preserves size and
modification time is not modelled: the code documents that it cannot see it.

`RecordEnd` is the terminal audit record, which the host writes after the wire state
machine has ended. `Sessions` says which sides are foreign and whether there is a record:
a foreign side runs another implementation, sends any frames in any order, and nothing is
assumed of it but that it stops at `MaxBlocks` blocks, which stands for a finite disk: the
receiver itself does not stop at the declared size before `Finish`.

`FileDelivery` sees the object at the target path as absent, whole, torn or other: its
steps publish the whole snapshot into an empty path, and `Occupy` is another program that
takes the path first. The mapping compares the stored blocks with the snapshot, so a
publication of anything else, or over something else, is no step of it.

### HostRegistration

The host's await is `phase` (connect, reserve, access, the two calls, back-off,
registered, ended). `link` is the connection the host has, `relayLinks` the ones the
relay still counts: `RelayCloses` and `ReservationEnds` are the relay's notice of what
the host has dropped. `calls` are registry calls that the relay has not handled, which may
outlive their callers; a lost answer is a fault. Serving a call is a step of `Registry`.
`Others` is another host that takes what is free; `Restart` empties the registry. `prompt` is
chosen in the initial state: in such a run the relay sees every close before the host's
back-off is over.
`taken` remembers whether another host has had the locator on display since the code was
last registered. A refusal for capacity and the disconnection after it are
`RelayService`'s subject.

### ConnectionSelection, RelayDial, TargetConnect and Connect

`ConnectionSelection` keeps the candidates in the order of the slice, because `closed`
uses `swap_remove` and `min_by` depends on the order. `Before` is `compare` key by key.

`RelayDial`: a dial ends by its own timeout, an event is handled before time passes on,
and the stages are the drain before, the attempt and the drain after. Round trips and
delays are small numbers; `DialWindow`, `TransportTimeout` and `DrainWindow` split the
deadline in the proportions that matter (the last dial started in the window can still
end before the deadline). `DialAssumption` states what the durations of network.rs are:
natural numbers, and a drain window that is not empty (`RELAY_DRAIN_WINDOW`, 500 ms):
with an empty one a drain would give up on a dial whose timeout is due at that very instant.

`TargetConnect`: `attempt` is the `DirectUpgradePolicy`, `stage` the await of
`prepare_controller_session`, and the selection's five deadlines are `selectionAt`,
`upgradeAt`, `lateAt`, the settle timeout and the total deadline. Time passes only while
the selection waits, in units of 750 ms; every other deadline may expire whenever its
await is pending. The book's capacity of 8 is not reached.

### TerminalSession, AuditExchange, AuditSession and JointRecord

An owner (`own`) is a step future of a select: it appends to the record, then does its
I/O. A select takes any ready branch; the biased ones keep their order. The four
substreams are queues of their own, so an audit checkpoint may overtake or lag behind the
bytes it covers. A hash chain is what was committed to it. `stage` is the owner's way
through pump, drain, completion exchange, close barrier, final checkpoints, manifests,
footer and ledger commit; `result` is what the session returns. Faults are a
cancellation, a signal, a writer failure, a lost link, a stall (any timeout may expire)
and a checkpoint by a peer that is no honest end. `JointRecord` maps `account` to the
counts and events on file and `seal` to the end of each record.

A footer seals the record and finishes the session; from then on the writer refuses every
append (`writer.rs`). `finish_bound_output` looks at the binding once more: if the connection
has gone, the controller fails its finished session closed, with a failure notice that
reaches nobody, and reports the lost endpoint; the host only reports it. The record stays
sealed, which is why `seal` is read off the writer and not off the session's phase.

Left out: the handshake before `TerminalReady` (it is in `RecordedSession`), the chain of file records, local-only
records, a failing display, sessions without audit. The host's control shutdown and its
return are one poll.

### AuditLedger

One action per system call whose order matters: lock, identity file, load, scan of the
records directory, write of the temporary state, rename, directory sync, record append
and sync, unlock. `stable` is what a power loss leaves. A crash releases the lock; a
dropped finalization releases it too, while the writer thread keeps the commit (`late`).
`faults` is the history of faults. `LedgerContinuous` is the offline anchor with the two caps of
verify.rs: it follows at most `MaxAnchorSteps` links (1024 in the code) and gives up on a
directory with more than `MaxAnchorScan` entries (8192). A record therefore stays on the chain
for ever, but is found there only while the caps reach it (`InReach`), which
`ReportedIsAnchored` states as an equivalence.

### AuditVerify and RecordedSession

A record is its header and a sequence of frames. The session starts with `TerminalHello`,
`AuditHello` and the contributions, writes and syncs the header, exchanges `AuditReady`
and only then opens the shell; an attempt may be given up at each of these steps
(`Abandon`), and a session may stop at any moment: the walk of one record and the pair's
rules are evaluated on what every append and every sync leaves. The verifier's batch rule,
its last two confirmations per direction and the footer's position are modelled because
honest records depend on them. Tampering is not.

Bytes are recorded and sent (or written to the PTY) in one step; the outcome of that effect
is a record of its own, owed until then (`owed`), and other records may come between.
On the controller the raw output, its display and the outcome of the display are three
appends, and a prompt may delay the display behind further raw output. An outcome names the
last block of its direction, as the verifier checks. A close waits for owed outcomes (the
closing drain records a failed one for an effect that timed out); a failure does not. A
batch is one append: the cut inside one is `CutBatchIsPrefix` of section 5.

### FileSubstreams

`active`, `busy` and `deferred` are the coordinator's slots, `queue` the channel of
one from the bridge, `settled` the flag that a transfer publishes before its end record.
The actions follow the order of the biased select. `given` is the controller's session:
how many operations of which kinds, one after the other or at once, audited or not, and
whether the transport keeps the order between substreams (TCP multiplexing) or not (QUIC).

### TransferUi

A keystroke is one of seven tokens, a read a chunk of them, remote output is numbered. The
pump looks at a processed chunk only at the top of its loop and only when no step future
is in flight (`other` stands for the resize and audit futures), which is where the disagreements
of section 5 come from. Rendering, UTF-8 editing, the bell, an unavailable base directory and
non-interactive input are left out.

## 3. Runs

| Run | Instance | Shows |
|---|---|---|
| `relay_service` | 2 peers, 2 connections (one without a source address), 2 locators, roster of 1, grace of 2, allocate and release | the registry's indexes and quotas stay exact inside the loop, a locator is lost only by release or by a grace that no second loss restarts, a request makes or releases a mapping only while its own connection is the peer's only one that stays, every connection of a refused peer is being closed and the peer is not locked out afterwards, every exchange ends |
| `host_registration` | one host and one other, 3 locators, capacity 2, grace 1, 2 successive links, 1 retry, 2 faults | the code on display leads to this host, is replaced only when another host has had its locator, and is back once the faults are over |
| `resolve_limiters` | 5 sources, a table of 4 | the table never refuses a new source |
| `enterprise_resolve` | 1 exchange, 2 callbacks, 2 providers, a channel with one slot | the target is disclosed only to a verified member, a session has one owner at a time, an admission shown is an admission heard, the exchange always settles |
| `connect` | 3 relay addresses, 3 connections of the host, round trips 1 and 2, 2 pings, 1 accident, host and controller callers | a relay call leaves no dial behind, authentication runs only over the sole connection of the route the attempt is for, the command ends |
| `host_session` | 2 controllers, 1 relayed and 2 direct connections, 2 codes | authentication runs only over a connection that will stay, the code is consumed once and for good (`OneShotCode`), no attempt holds the host |
| `terminal_session` | both ends; a resize with crossing checkpoints; output with one fault of any kind; input with a failing disk, a lost link or a cancellation | honest ends never look mismatched, nothing takes effect before it is on file, an exit code needs a joint record, `JointRecord` is implemented, a settled close finishes, both ends return |
| `file_transfer` | both directions, up to 2 blocks, an audited transfer between two ends of this program or one foreign end, 2 faults (a foreign end counts as one), cancellation at every await | refinement of `FileDelivery`, nothing unverified is published, honest ends never take each other for a violator, it ends |
| `file_substreams` | four audited operations one after the other; three uploads at once; an upload that overtakes its probe | records never interleave, no operation is refused while only the end record before it is missing, every accepted substream is answered or closed |
| `transfer_ui` | chunks of one or two keys, output in flight, a small delay buffer | the display shows the remote output once and in order |
| `audit_ledger` | 3 sessions and a preflight of one machine, one crash, power loss, disk failure or dropped finalization, an anchor walk of one link | no later process meets a conflict, what was reported as committed stays on the chain and verifies exactly as far as the walk reaches, a record whose process died is committed by another |
| `recorded_session` | six sessions, with blocks of 2 bytes: a full block of input with a controller checkpoint; a full block of output; a partial one with a host checkpoint; a resize with checkpoints of both ends; three running checkpoints of the host against one of the controller; a partial block of input with a key action. The handshake before each, final checkpoints, an interruption anywhere, a power loss | no shell opens before both headers are on disk and neither end tells of a terminal the host has not recorded, an appended record is intact, a finished pair verifies as complete, two confirmations per direction are enough for the verifier |

Where a run has several scenarios, the module chooses one in its initial state (`given`,
`max`, `did.max`, `prompt`) and nothing later depends on the choice but the bounds.

Why the bounds suffice. Peers, connections, sources and exchanges interact in pairs:
a replacement connection, a second callback, a competing host, a checkpoint that crosses
another. Two of each give every pair, and every capacity of an instance is small enough to
be reached. One fault, and two where the recovery from the first has a path of its own
(`HostRegistration`, `FileTransfer`), meets every await and every handling of another fault that the code
has. For a transfer, two blocks tell the first, a middle and the last await of the data loop
apart and let a change fall between two reads; two faults let one failure meet the handling
of another. Cancellation is not counted as a fault and may come at any await.

`AuditLedger` has one fault. With two, a crash between the rename of `ledger.state` and
the directory sync, another commit and then a power loss may roll the state back behind a
record that names it, and every later open answers `Conflict`; `NeverConflicts` is
therefore claimed for one fault. `ReportedIsAnchored` and `PendingIsRecovered` are stated for
histories without a dropped finalization, because a late commit of the writer thread
breaks them (section 5, `OlderIsCommitted`). Three commits exceed the walk of one link; the cap on
scanned records, which three records do not reach, is covered by the theorem.

`RelayService` has a grace of two ticks: with one, the first tick already ends it and no
second loss could restart it. Its capacity and source quota are 1; larger ones are the
theorems' matter. So are a delay buffer of more than one chunk in `TransferUi`
(`DisplayKeepsOrder`) and the refusal of a transaction at the table's capacity
(`EnterpriseOwns`). `RecordedSession` closes from the controller's side, and has four
checkpoints of one end, its final one included: with two, the last two confirmations of either
side always include the first, and records two confirmations apart could not be told from
records one apart.

Symmetry is used by `ResolveLimiters` only, which checks no liveness. Deadlock checking is off where the system may stop:
a relay that has shut down, a host or controller that has ended, a transfer that is over.

### Fairness

* Relay: the owner keeps polling its channels; a registry exchange is under
  `MESSAGE_TIMEOUT` and a drain under its timer, so each ends; libp2p completes the
  closes it was asked for. Peers owe nothing.
* Enterprise: the owner again; writes are under the message timeout, the human
  selection under the session deadline, a callback under its connection deadline. No
  fairness is assumed of browsers, providers, or the passing of a session's ten minutes.
* Host: the awaits of an attempt are under deadlines, cleanup and finalization are
  bounded. Two writes have no timeout of their own, the retry answer and `TerminalReady`:
  they are a few bytes on a fresh stream, and end with the connection at the latest.
  Nothing obliges a controller to come or a shell to exit.
* Registration: the host's awaits end, because each has a timeout; the relay serves what is
  in its queue and notices a closed connection in the end. `HostReturns` is claimed only
  for runs with `prompt`, in which the relay's notice of a close comes within the host's
  back-off: otherwise the host may meet its own last connection for ever.
* Connect: dials, pings and bounded exchanges end, time passes while a selection
  waits. A connection may close whenever it likes, and a ping may go unanswered.
* Terminal: each end's task keeps stepping (`WF` of `CNext` and `HNext`), a stalled
  exchange may time out, and a connection whose other end has gone is closed.
* File transfer: each handler keeps stepping, because every read and write is under
  `control_timeout` or `data_progress_timeout`; a read from a peer that has gone fails.
* File substreams: the coordinator keeps stepping; every future it holds has a timeout.
* Ledger: each process keeps stepping, and a process that asks for the ledger lock again
  and again gets it (`SF` of `OpenLock` and `BeginCommit`): the lock is held for the
  length of a commit only, and the callers retry until their deadline.

## 4. Proofs

| Theorem | Says |
|---|---|
| `RegistryTypeOK`, `RegistryIndexes`, `RegistryAvailability`, `RegistryResolves` | the registry's invariants, for any peers, prefixes, quotas and grace |
| `RegistryHolds` | the action property: a locator is lost only by its owner's release or by grace, and grace never restarts |
| `ServiceRefinesRegistry`, `ServiceIndexes`, `ServiceHolds` | the owner loop takes only the registry's steps, and so inherits its theorems |
| `ServiceStaleCalls` | the action property: a mapping is made or released only for a request whose connection is the one the peer keeps, and charged to its source |
| `ServiceRejections` | a peer refused for capacity is on its way out, and only for as long as it has a task or a connection |
| `LimitersTypeOK`, `LimitersNeverFull`, `LimitersForgiveNothing` | the source table cannot fill under what `ResolveLimits::new` accepts |
| `EnterpriseDiscloses` | a target is disclosed only to a verified exchange that has not withdrawn |
| `EnterpriseOwns` | a transaction is in one place at a time, a registered one belongs to a running exchange |
| `EnterpriseAdmits` | the action property: an admission reaches an exchange that waits and a session that accepts it |
| `HostTypes` | the loop never feeds `TargetSession` an event its state refuses |
| `HostShells` | a shell exists only for the authenticated, bound connection |
| `HostCommits` | the code is consumed only on the controller's sole connection |
| `HostSettled` | authentication runs only over the sole connection that no pending upgrade will replace |
| `HostOneShot` | the host implements `OneShotCode` |
| `TransferPublishesWhole` | what is published has the announced size and digest, whatever the sender is |
| `TransferImplementsDelivery` | the transfer implements `FileDelivery` |
| `TerminalInvariant` | the inductive invariant of a session, below |
| `TerminalAppendsFirst` | what was sent, applied or displayed is on file, for every interleaving and fault |
| `TerminalExitIsJoint` | the exit code is returned only with a finished record, over a manifest the host has signed too and that states the one recorded exit |
| `TerminalNoMismatch` | between honest ends no checkpoint mismatches and no manifest comes before the final checkpoint, however the exchanges and the close cross |
| `TerminalImplementsJointRecord` | the two records implement `JointRecord` |
| `RegistrationAdvertised` | the code a waiting host shows is registered to it and resolves, or its lease is lost and it will notice |
| `RegistrationKeepsCode` | the action property: a printed code is replaced only after another host got its locator |
| `SubstreamRecords` | transfers are recorded as whole pairs, start then end, one after the other |
| `SubstreamsNotRefused` | the action property: a controller that waits for its last operation is neither refused nor dropped, except behind one it cancelled |
| `CallsLeaveNothing` | a call of `connect_configured_relay` leaves no dial behind and, when it succeeds, one relay connection |
| `RouteOfAttempt` | authentication runs over the only connection to the host, on the path the attempt is for, after one admission |
| `DisplayKeepsOrder` | remote output is recorded, held back, refused and shown in the order it came |
| `LedgerNeverConflicts`, `LedgerAnchors` | for any number of faults of one kind no process is refused by recovery, and what was reported stays on the chain and is found within any caps |
| `LedgerWithstandsOneFault` | with at most one fault, of any kind, both hold without a condition |

**Registry.** None of the invariants is inductive alone: `release` may subtract from
`by_source` only because the counts are exact, the counts are exact only because
owner and locator indexes are inverse, and a resolve is right only because
`Active` means reserved and connected. `IInv` is their conjunction with the reply's
meaning. `Coherent` (the shape of the three maps) is shown to survive prune, insert,
remove and rewrite as lemmas about any maps; each method is then a composition of
two of them. Assumption: finitely many locators, more than the capacity
(`RegistryAssumption`; in the code, 2^20 against at most 320).

**HostRegistration.** It takes the registry's steps, so `IInv` holds of it, and `HostInv` says
what the host and its relay know of each other. A call is on a connection the relay still has
and asks for what the host waits for (`CallsPlaced`); an `Acquired` on its way is true of
the registry, and nothing is pending that could give the host another locator
(`AnswerPlaced`); a waiting host that has not lost its lease owns what it shows
(`LeaseHolds`); until somebody else got the printed locator, everything pending is a
reclaim of it (`OnlyReclaims`). The last two are the theorems' content; the first two carry
them across the moment between the relay's answer and the host's reading of it. What one
registry step means for one peer's locator is a lemma of its own (`PeerKeeps`
and its neighbours).

**RelayService.** Each step of the loop is shown to be one registry step or to leave the
registry alone (`ServiceRefinesRegistry`); the registry's theorems then hold of the
loop. `RejectionDrains` needs `SvcInv`: a live connection is on the book or being
closed and belongs to one peer (`Rostered`), a task's peer is active and a refusal is
answered on a connection of the book (`TasksActive`), and at most one call of a peer is
awaited, by a task that waits for it (`CallsAwaited`), without which a stale call could
reject a peer whose task is gone. `ServiceStaleCalls` follows from `Rostered` and `Sole`, step by step
from what each registry method may do to one peer's hold on one locator (`HoldMoves`). Assumptions: those of the registry and
`ServiceAssumption`.

**ResolveLimiters.** The table is full only if more sources than `Window + GlobalBurst`
were admitted by the global limiter within the idle window. `IInv` counts: the entries
seen at most `k` ticks ago are bounded by what the global limiter could have let
through in `k` ticks given its present debt. Assumption: the validation of
`ResolveLimits::new`.

**EnterpriseResolve.** `EntInv` follows a transaction from the registry to a callback
handler, to the owner's command and request queues and back: it is in exactly one of
these places (`OnePlace`), what is queued matches the exchange and the handler it is for
(`CommandsMatch`, `RequestsMatch`, `Awaited`), and an admission exists only where the
provider has verified the user (`AdmissionsProven`). The three results are read off
it. Any number of exchanges, callbacks, replays and providers.

**HostSession.** `IInv` ties `phase` to `session`, to the binding, to the PTY and to
the authenticated connection; each action preserves each part. `StepEffect` then
says that every step keeps code and consumption except `ReadyFlushed`, which
consumes, and `Recovered`, which may replace the code and requires it unconsumed;
the refinement follows. `HostSettled` adds `UpgradeOver`: once the wait for a direct
connection is over no upgrade of that peer becomes pending again.

**FileTransfer.** `FtInv` has a part that holds whatever the peer is (`Settings`: the
stages of the two roles; `Sourced`: what was sent is the source as it was opened, once
it is rechecked; `Published`: only what `verify_finish` has accepted is published) and one
for two sides of this program (`Honest`: a `Finish` under way or read names exactly what
was sent, and from then on neither a frame nor an outcome of one side contradicts what
the other has stored). The refinement needs both. Sizes and versions of the source
are any numbers; a digest is the content itself.

**FileSubstreams.** `SubInv`: a substream is in one place, and the record has an odd length
exactly while the active transfer's start is its last entry. `SequentialNotRefused` needs
`SeqInv`, for a controller that waits and a transport that keeps order: what is on the way
is sorted by substream and later than what has arrived (`Sorted`), how far the controller is
with each operation agrees with what the host has read and answered (`Views`,
`Unanswered`). The argument is `WaitsBehindCancel`: a substream that finds the slot
taken by one whose future is not ready was opened after a cancellation.

**Connect.** `DialInv`: the dials in flight are the tracked ones, each ends by the
attempt's deadline (`DialTimes`), and a redial is due only while none is in flight and
no window is open (`RedialDue`). The drain after the attempt then sees the last of them end.
`RouteInv`: the winner is on the attempt's path, from authentication on it is the only
connection, and the enterprise relay is asked once. It rests on what the ranking returns
for every sequence of candidates: `DirectFacts` (the filter keeps exactly the direct
candidates) and `MinByFacts` (`min_by` returns one of its arguments). Both are folds, and
are proved by taking the least index at which the claim could fail (`LeastOf`). Any
addresses, connections, round trips and delays.

**TransferUi.** `UiInv`: the numbered chunks, from shown over written, held back and being
recorded, rise along the way and, with the refused ones, are all there are (`Ordered`); one
chunk at a time is in flight (`OneInFlight`); only an open prompt holds any back, and
a transfer has none (`HeldByPrompt`), without which a chunk could overtake the held ones.

**TerminalSession.** `TsInv` has four parts besides the types. `Effects`: what an owner has
done, and what an owner in its "io" step is about to do, is on file (`Ready`); without the
second half the first is not inductive, because the record was made a step earlier and a
writer may have failed since. `Exits`: the host's history holds at most one exit, and none
while the shell may still be reaped or its exit is being recorded. `Closes`: how far an end
is with its manifest: a manifest states the closed account of its end, the account has not
changed since, and every manifest on the way to the other end, or read there, is that one.
`ExitReturned`: the controller's good result comes out of the whole exchange. The lemmas
about the observer (`RecordFacts`, `HandleFacts`, `CloseFacts`, `Advances`) say what each
method of it may do to account, file and phase; each action is then a step of one observer
(`Single`), and the refinement maps that step to `Add`, `Close`, `Fail` or `Seal`. A seal is
the footer, where an end has read the other's manifest and it equals its own: equal
snapshots and no partial block give equal accounts. What happens behind a footer, the
controller's failure included, leaves the file alone because the writer is finished
(`NextWriter`). Assumptions: a positive block length,
two different ends, scenarios over natural numbers (`TerminalAssumption`); any number of
bytes, resizes and checkpoints, and any combination of the six faults, each at most once.

`TerminalNoMismatch` needs a second invariant, of what is on its way between two honest ends:
`MxInv`, which holds until a foreign peer has skipped a sequence (`MismatchInv`). `Exchange`
follows the one pending checkpoint of each end: it is on its way, or its acknowledgement is,
or neither because one end failed; without a pending one the peer has received the last. That
alone is not inductive, because a running checkpoint may be taken for the final one and a
final one for a running one. `Finals` says which is which: the close is recorded at the barrier,
a checkpoint covers a close only when it is the final one, and the end that takes it for that
has closed with the same snapshot. `AckFirst`: where the peer has taken an end's final
checkpoint, the acknowledgement precedes the peer's manifest on the substream, so that the manifest
never meets an end that still waits. `CloseOrder`: the host closes after the controller's
notice, and the notice precedes the controller's final checkpoint, so that neither final reaches
an end in front of its own barrier. Every step takes at most one frame at one end and writes some
to the other (`Moves`), and `MxKept` shows once that such a step keeps `MxInv`; the actions
are then shown to be such steps.

**AuditLedger.** The state file and the records are two things that no one step writes.
`LedgerCore` says how far lock, record and head are at each step (`Stepped`), that every
record links to the head or lies below it (`Sound`), that at most one is pending and
none once a process has recovered (`OnePending`), and what a power loss would leave
(`StableHead`); `Chained` that each record names the head below it. The faults are split by kind (`OneKind`): any number of
crashes and disk failures, any number of power losses, or one dropped finalization. This
is not a convenience: with mixed faults the statement is false in the model. A process that
dies between the rename and the sync of the directory leaves a head that others read and
build on; a power loss after that takes it back, and two records then follow the
same head. For a reported commit the walk finds every link (`ChainLinks`), since `Chained` leaves
one whole record for each sequence below the head, and stops exactly at the caps
(`DoneIsAnchored`). With one fault in all the condition is void (`LedgerWithstandsOneFault`),
which is the bound of the run.

**Only proved.** Type correctness of the modules, `ActiveIffAvailable`,
`WithinLimits`, `ResolvedIsReachable`, `PruningForgivesNothing`,
`ShellNeedsAuthentication` and `CommitOnSoleConnection` have theorems and are in no run.

**Only model-checked.** Liveness under fairness and anything about ENABLED is out of
the prover's reach. Induction over data is so only in part: the induction theorems of the library
take an operator as a parameter and cannot be used, but a claim about a fold over indices can be proved at the
least index at which it could fail, as `ControllerProofs` does. Of the safety properties these
are checked by TLC only: `HonestPeersAgree` of `FileTransfer`, whose invariant would pair every
program point of one side with what the other may still send; and the four invariants
of `RecordedSession` (`HonestRecordIntact`, `ShellHasTwoRecords`, `FinishedPairVerifies`,
`ConfirmationsNeverFarApart`), whose invariant has to follow the verifier's state through every
frame of both records.

## 5. Statements of the repository that the code does not meet

Each of these is a definition at the end of its module. It is in no run: added to the run's configuration as an
invariant (`RemainderReachesPrompt` as a property, those of `RelayDial` as `Dial!…`), it
makes TLC show the behaviour described. `RankingIsOrder` needs a larger instance than
`connect`: three candidates, two transports, round trips 1 to 3 and five samples.

### HostSession

`SignalStopsHost` (`yon/src/host.rs:7444`). wait_for_controller_quiescence (host.rs:7728)
and acknowledge_and_wait_for_terminal_streams (host.rs:7960) return HostError::Interrupted
when a shutdown signal arrives, but HostSession::run handles every error of the first with
`continue` (host.rs:7444) and every non-endpoint error of the second with ConnectionLost
and `continue` (host.rs:7540): the signal is consumed and the host goes on waiting for
controllers until a second signal. docs/design/product.md:123 says "`host` 在等待阶段收到 Ctrl+C
时有界清理并安静返回 `130`" (a host that receives Ctrl+C while waiting cleans up within bounds and
quietly returns 130); docs/design/verification.md:57 repeats it.

### FileTransfer

`SharedFailureAgrees` (`yon/src/transfer.rs:969`). The sender sets facts.digest as soon as
Finish is written (also line 1866), the receiver only after its commit (1253, 1545). A
failure in between, such as a target created by another program at commit, is recorded as
the same shared failure by both sides, but with the digest on the sender's side and zeroes
on the receiver's. The comments say "The SHA-256 of the transferred file, set at the
success point." (yon/src/transfer.rs:180) and "only fields both sides verify from the
0.2.0 file protocol enter the shared record" (yon/src/transfer.rs:164).

`UncertainOutcomeIsRecorded` (`yon/src/transfer.rs:283`). When the write of Finish fails
after its first byte, finish_send_failure answers CommitStatusUnknown before facts.digest
is set, and record_transfer_end returns Ok without writing anything. The design says
"`CommittedUnconfirmed` 与 `CommitStatusUnknown` 只记录为与匹配 transfer ID、方向、角色及最近共享 START
绑定的本地固定载荷" (docs/design/file-transfer.md:61), and that the uncertain window opens with any
byte of Finish (file-transfer.md:59): the START in the chain is left without an end.

### TerminalSession

`SharedFactsSettled` (`yon/src/host.rs:9609`). The controller records and sends a resize
while the host has already sent TerminalExit; the host decodes it in
complete_terminal_exit_io_until_closing and drops it without recording. Both ends pass the
close barrier with different control chains, wait for a final checkpoint that can never be
exact, and a normal exit ends as an audit failure. The comment says "At that point no
shared fact may be in flight, so the peer snapshot must equal the local final snapshot."
(yon/src/audit/session.rs:2190).

`ManifestsAgree` (`yon/src/controller.rs:2955`). The controller is cancelled after it has
sent TerminalComplete; it closes with LocalInterrupt while the host, which has the
completion, finalizes the shell's exit. Both final checkpoints are exact, but the
manifests carry different endings. The design says "随后构造的 `JointManifest` 必须逐字节一致"
(docs/design/session-audit.md:81).

`MismatchIsRecorded` (`yon/src/audit/session.rs:2998`). fail_checkpoint sets
Phase::Failed, and fail_closed_records refuses a session in that phase, so fail_closed
appends nothing. The comment says "the caller persists the failure-close records
best-effort through [`AuditSession::fail_closed_records`]"
(yon/src/audit/session.rs:2995).

`PeerFailureNotDowngraded` (`yon/src/controller.rs:1591`). The inner select of
run_terminal takes any ready branch, so an ended terminal substream can be taken while the
peer's audit error waits in the audit substream, and the session ends as a lost
connection. The design says "对端已经发送的强制审计失败不会因独立终端子流恰好同时关闭而被随机降格为普通 I/O 断开"
(docs/design/session-audit.md:95).

`MutualExitReported` (`yon/src/network.rs:1405`). Both ends have exchanged and verified
the manifest pair and the host has returned; its close of the connection reaches the
controller inside drive_bound while the controller still writes its footer and ledger
commit, so the finalization is dropped (or its result replaced) and the controller reports
an audit failure instead of the shell's code. The design says "成功进入 Active 后，主控端返回远端 shell
的 `0..=255` 退出码" (docs/design/product.md:122).

### AuditLedger

`OlderIsCommitted` (`yon/src/network.rs:1405`). drive_bound drops the finalization (and
the writer's 2 s timeout gives it up) after the writer thread has taken the ledger commit;
the ledger lock is released, another process commits the same sequence, and the thread
then completes the first record: a whole, sealed record that is in no ledger and that the
scan passes over as "Already committed; nothing to do." (yon/src/audit/ledger.rs:852).

`RecordSyncedFirst` (`yon/src/audit/ledger.rs:724`). recover_pending_records advances and
syncs the ledger over a pending record that a crashed process wrote and did not sync; a
power loss then leaves a ledger that counts a torn record. The design's order is
"LedgerCommit -> record sync_all -> ledger 原子推进" (docs/design/session-audit.md:83).

`FirstRunRetries` (`yon/src/audit/identity.rs:424`). create_identity_file creates the file
under its final name and writes it afterwards; a crash in between leaves a file every
later run refuses as invalid. The comment says "so a failed first run can safely retry."
(yon/src/audit/identity.rs:374).

### RecordedSession

`CutBatchIsPrefix` (`yon/src/audit/verify.rs:1511`). record_input and record_output write
the local record, which names the batch's last block, before the blocks. A process killed
in between leaves a record whose walk ends with an open batch; ChainVerifier::finish
flushes it and returns Tampered ("the local audit chain is inconsistent"). next_frame says
"everything before it is a valid prefix (design sections 22.5 and 23.3)."
(yon/src/audit/verify.rs:436).

`CutFrameIsPrefix` (`yon/src/audit/verify.rs:400`). footer_start is Some wherever the walk
stops, so walk_file takes what is left of a cut frame for a footer: with at least
MIN_LEGAL_FOOTER_LEN bytes left it does not decode and the record is Tampered ("the
container footer is invalid" or "trailing bytes"). The comment is "The frame is cut off:
everything before it is a valid prefix" (yon/src/audit/verify.rs:435).

`InterruptedPairMatches` (`yon/src/audit/verify.rs:884`). receive_checkpoint acknowledges
a snapshot its own chains have not reached; if the connection is lost before that output
arrives, the confirmed snapshot is no prefix of the receiver's record and the pair is a
MISMATCH between honest ends. The design says "不得用跨子流到达顺序制造伪不一致"
(docs/design/session-audit.md:81).

### FileSubstreams

`BusyMeansTransfer` (`yon/src/host.rs:8878`). The disposition of a new substream looks
only at whether the active slot is taken, and the first substream of a session is a
capability probe whose end of stream the host may not have read yet (QUIC streams are not
ordered among themselves). The transfer the controller opens after its probe is then
answered Busy. The design says "`Busy` 只表示前一笔文件操作仍在执行线协议"
(docs/design/file-transfer.md:53).

### TransferUi

`PromptNeedsSupport` (`yon/src/controller.rs:3727`). probe_file_transfer_capability
returns Ok(Unsupported) for a peer without the protocol; begin_file_transfer_modal caches
it and falls through to debug_assert_eq!(capability, Supported): a debug build panics, a
release build opens the path prompt. The design says "协商不支持只把本连接缓存为
`Unsupported`，显示固定错误并返回终端" (docs/design/file-transfer.md:23).

`CancelIsOver` (`yon/src/controller.rs:3808`). Enter and Ctrl+C read together in the
destination field set transfer_cancel after the prompt completed; begin_transfer then
takes its early cancel path, which does not clear the flag (only handle_transfer_event
does), so every later transfer of the session is cancelled before it starts. The design
says "普通文件错误、取消和不支持只结束该文件操作" (docs/design/file-transfer.md:15).

`DetachIsKept` (`yon/src/controller.rs:1791`). While a transfer runs, a processed chunk
waits in pending_local_input, because only the idle loop top handles it, and reading goes
on: the next chunk overwrites a pending Detach. The control machine has ended and ignores
every later key, so the session can no longer be left from the keyboard; nor does the
detach cancel the transfer. The design says "`Ctrl+] .` 会取消文件并结束整个会话"
(docs/design/file-transfer.md:15).

`ModalHasOwner` (`yon/src/controller.rs:1791`). The machine enters its prompt phase when
the selector is read, the prompt opens only at the idle loop top. A key read while a
resize, audit or recording step is in flight replaces the pending selector: the machine
stays modal with no prompt and no transfer, Ctrl+C only sets the cancel flag, and no input
reaches the remote shell any more. The design says "终端 I/O 在路径提示和传输期间继续工作"
(docs/design/file-transfer.md:15).

`RemainderReachesPrompt` (`yon/src/controller.rs:3640`). handle_processed_input returns
StartModal(direction) and drops the chunk with its remainder; the prompt is created empty,
and feed_initial later gets the remainder of another chunk, which is empty.
PathPrompt::feed_initial says "The bytes are appended to the current line in their
original order, never dropped." (yon/src/transfer_prompt.rs:146).

`OverflowDropsNothing` (`yon/src/controller.rs:1808`). DelayedOutputBuffer::append writes
nothing when the chunk does not fit; the pump only sets delayed_overflow and drops the
chunk, so that remote output never reaches the display. A test says "the overflow is
reported, nothing is dropped" (yon/src/controller.rs:8815).

### TargetConnect

`NoDirectFallsBack` (`yon/src/network.rs:1223`). When the total deadline passes with no
candidate at all, connect_target_until answers RelayUnavailable, which
direct_fallback_required (yon/src/controller.rs:1080) does not list: the command fails
without the relay-only attempt. docs/design/architecture.md:62 names "无候选时 `30s` 总期限截止"
(the 30 s total deadline when there is no candidate) among the triggers of the fallback.

`RankingIsOrder` (`yonder-net/src/path.rs:195`). compare looks at the ranges of two
candidates with equal medians only if both have at least two samples, so it is not
transitive: of three candidates with the median 2, A (1 and 3 over QUIC) comes before B
(one sample of 2, over QUIC) by order of establishment, B before C (2 and 2 over TCP) by
transport, and C before A by range. min_by then answers with a candidate that depends on
the order of the slice, which closed() changes with swap_remove. The test
"selection_is_permutation_independent" (yonder-net/src/path.rs:366) states the opposite
for its candidates, and docs/design/architecture.md:60 speaks of a fixed ranking key
("同类候选排序键固定为").

### RelayDial

`RaceIsRun` (`yon/src/network.rs:838`). A candidate opens the selection window; if it
closes before the window ends, the selection is empty when the timer fires and
finish_relay_selection answers RelayUnavailable at once, although other dials are still in
flight and most of the attempt's time is left. The doc comment says "Races and retries
every configured relay transport within one absolute 10 second attempt."
(yon/src/network.rs:774).

`PendingClearedOnReturn` (`yon/src/network.rs:1015`). drain_relay_state answers
SelectedConnectionLost as soon as the selected connection closes, also while losing dials
are still pending; the caller returns the error with pending dials whose connections
arrive later. docs/design/architecture.md:117 says "API 必须持续消费拨号终态、关闭败选连接并在 pending
集清空后返回" (the API must keep consuming dial outcomes, close losing connections and return
once the pending set is empty).

## 6. Not modelled

Cryptography (PAKE, TLS, signatures), operating-system terminals and file systems, HTTP to
the providers, construction of transports, command lines, configuration and output, the
byte layout of wire frames and audit containers. Reasons are given per part in
`PROJECT.json`. More than half of the repository's Rust lines are tests, and most of the
rest are these codecs, clients, validators and command lines: sequential code whose
mistakes a unit test finds. The models stand for the part in which tasks, timers, peers,
processes and people interleave.

Inside the modelled parts:

* `RelayService`: plain resolves have no action of their own (their decisions are
  `Registry.Resolve` and `ResolveLimiters`), nor has the listener bookkeeping.
* `HostRegistration`: a refusal for capacity and the disconnection after it.
* `RelayDial`: a retry whose dials are all rejected synchronously gives up at once.
* `TargetConnect`: the book's capacity of 8 is not reached; losing the winner during
  convergence gives `SelectedConnectionLost`, which does not fall back; the browser
  dialogue of the enterprise resolve is one bounded exchange.
* `TerminalSession`: the handshake (`RecordedSession` has it, without what the peer's keys
  and digests are checked for), the chain of file records, local-only records, a
  failing display, sessions without a record; the host's control shutdown and its return
  are one poll.
* `FileSubstreams`: a sequential controller that cancels twice during a slow audit append
  can still be dropped, and a substream that overtakes another over QUIC may be answered
  `Busy`; `SequentialNotRefused` excepts both.
* `TransferUi`: rendering, UTF-8 editing, the bell, an unavailable base directory,
  non-interactive input.
* `AuditVerify`: tampered records, file-transfer events, replay, container layout.

## 7. Plan

1. `AuditWriter`: the writer thread with its queue, poisoning and timeouts, composed with
   `TerminalSession` in place of the one-step append.
2. The controller's side of the enterprise resolve, composed with `EnterpriseResolve`.
3. `RelayResolve`: resolve exchanges in the owner loop, composed with limiters and registry.
4. The chain of file records in `TerminalSession`, fed by `FileTransfer`'s end records.

Theorems to come: the invariants of `RecordedSession`; `HonestPeersAgree` of `FileTransfer`. Recursion is written as functions or
folds in every module that will carry a theorem.
