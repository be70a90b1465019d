# A TLA+ verification of UMP

UMP connects robots of different manufacturers to a coordinator. This directory
holds TLA+ models of it, the TLC configurations that check them and TLAPS
proofs. Paths are relative to the repository; `runtime.py` and the like are
files of `src/ump/`. `PROJECT.json` maps every definition to the lines it
models and lists the runs, the mutants, the hazards and the findings.

## 1. The system

### Components

| Component | State | Operations | What makes it correct |
|---|---|---|---|
| Participant (`runtime.py`, class `Participant`) | the journal below, handler threads, execution pool | assignment, query, cancellation request, publication, close | native code runs once, answers agree with the journal |
| Assignment journal (`journal.py`) | `assignments` (status, outcome, binding), `resource_reservations` | claim, complete, lookup, resolve_unknown, recovery on open | rows and outcomes are final, reservations follow outcomes |
| `ump-reconcile` (`cli.py` 490–547) | the same journal | open, resolve | only unknown work is resolved |
| Coordinator (`collaboration.py`) | handler threads, sequence | outcome, acknowledgement, snapshot, cancellation ack, submit, submit_many, replan, cancel, reconcile, resume, dispatch | dependencies hold on the floor, one publication per assignment |
| Run journal (`coordinator_store.py`) | `runs`, `run_steps` | create_run, ready_assignments, mark_dispatched, record_*, reconcile_outcome, request_cancellation, recovery on open | run and steps agree, results are final |
| Coordinator service and CLI (`coordinator_node.py`, `cli.py`) | process lifetime | start, submit, cancel, resume, close | – |
| Outbox, inbox, replay floor (`delivery.py`, `network.py`) | `outbox`, `inbox`, `replay_sequences` | publish, flush, retry, serve a connection, worker loop | acknowledged means durable, order per session and stream, safety traffic gets through |
| Registry and watchdog (`runtime.py` 46–280) | per peer: session, manifest, state, sequences; the edge last reported | manifest and state handlers, is_fresh, missing_context, evaluate | the view never goes back, edges reach the adapter |
| Inspector (`inspector.py`), runtime monitor (`operations.py`) | recorded events, latched fault, health | record, require_healthy, check | a recording fault shows |
| Authority leases (`authority.py`) | leases, append-only events | grant, revoke, authorize, queries | no execution without a lease; events and rows agree |
| Credential store (`credentials.py`) | generations, revocations, events, directories | enrol, activate, revoke, require_active_bundle, queries | only an active, complete bundle starts |
| ROS 2 adapter (`ros2.py`) | active goals | execute, cancel | a known status is what happened |
| Node (`node.py`, `cli.py` 860–1090) | process phase, configured bundle | start, run, close | stops when its credential is no longer good |
| Plan validation (`collaboration.py` 47–97, 232–270) | none | validate_plan, _prepare | exactly the plans that can be carried out |
| Standards integrations (`integrations/`) | last state per robot | ingest, export | a stop or fault is not lost on the way |
| Backup (`data_ops.py`) | backup and restore directories | backup, verify-backup, restore | what verifies is whole |
| Discovery, laboratory, simulation, conformance, benchmark, diagnostics | – | – | see section 6 |


### How they interact

A process publishes by numbering an envelope and writing one outbox row per
disclosed peer in one transaction; `flush` and a retry thread send the oldest
due row of each peer and stream over a new TLS connection. The peer's
connection thread stages an inbox row, raises the durable replay floor,
activates the row and acknowledges. Inbox workers hand rows to the subscribed
handlers, one at a time per source session and stream. The coordinator's
handlers write the run journal and dispatch what has become ready; the
participant's handlers write the assignment journal, call native code inline or
in a pool, and publish. Nothing but these queues connects the processes, and
every process may stop between any two transactions.

The node reads its authority store in the assignment handler, and its
credential store at the start, in every period of its run loop and in every
handshake. Operators change both stores with their own commands while the node
runs. Manifests and states go the same way as the other messages and end in the
registry of each observer: a node, whose watchdog tells its adapter when a
required peer falls silent, or a coordinator, which waits for fresh context
before it lets a planner propose.

### What is hard

Handlers of several sessions, execution threads, commands and an operator's
tool interleave between the transactions of one journal; a record is read in
one transaction and acted on in a later one; a crash hands the same request out
again; a client's timeout leaves the server's thread at work; a stopped
coordinator returns as a new session beside the old one's undelivered rows.
Leases and certificates end by the clock while work waits or runs; an enrolment
and a backup change directories that no transaction covers; a wait for an
action server times out while the server goes on.
`PROJECT.json` lists these places under `hazards`, each at its line.

## 2. The modules

| Module | Models |
|---|---|
| `Participant` | one robot's process, its journal and inbox, and `ump-reconcile` |
| `AssignmentRecord` | the promise about an assignment that `Participant` implements |
| `ParticipantProofs` | the theorems about `Participant`, the refinement included |
| `Coordinator` | the coordinator's process and journal; the robots as far as it sees them |
| `CoordinatorProofs` | the theorems about `Coordinator` |
| `Delivery` | one sender, its outbox, connections, and the peers' floor and inbox |
| `FifoChannel` | the abstract queue that `Delivery` implements |
| `DeliveryProofs` | the theorems about `Delivery`, the refinement included |
| `Registry` | a publishing robot and one observer: registry, recorder and monitor, watchdog, the coordinator's wait and its proposal |
| `RegistryProofs` | the theorems about `Registry` |
| `Authority` | the authority store and the statuses its queries show |
| `AuthorityProofs` | the theorems about `Authority` |
| `Credentials` | the credential store with its directories |
| `CredentialsProofs` | the theorem and lemmas about `Credentials` |
| `RosAction` | the ROS 2 adapter and the action server it talks to |
| `Node` | one robot's process over `Authority`, `Credentials` and `RosAction` |
| `NodeProofs` | the theorems about `RosAction` and the composition |
| `PlanValidation` | `validate_plan`, and what becomes of the plans it accepts and refuses |
| `Integrations` | the four standards' mappings of mode, safety and health, in chains |
| `Backup` | `ump-ops` backup, verify and restore, several at once |
| `ToolsProofs` | the theorems about `PlanValidation`, `Integrations` and `Backup` |
| `MCParticipant`, `MCCoordinator`, `MCDelivery`, `MCRegistry`, `MCNode`, `MCTools` | values of the constants for TLC; `MCTools` lets a behaviour be one of `PlanValidation`, `Integrations` or `Backup`, which share nothing |

A definition whose comment begins with "Mutant:" is a plausible bug in the
definition that follows it. No specification uses one; with one put in the
place of its original, TLC finds the property it is listed with violated.

### Participant

`status`, `outcome`, `binding` and `reserved` are the journal's tables; `inbox`
has one queue per source session; `pc` and `out` are the handler thread of a
session and the messages it still has to publish; `exec` and `result` are the
thread in `_execute_assignment`. Each handler is a chain of actions cut at its
transactions and publications: `Admit`, `Claim`, `Publish`, `StartExecution`
and `FinishInline` for an assignment; `Query`; `Cancel`, `CancelNative` and
`CompleteCancel` for a cancellation. `NativeAccept` ... `PublishOutcome` is the
execution. `HandlerRaises` and `ExecutionRaises` stand for the exceptions a
closed journal, a failing adapter call or a full outbox cause; the inbox row is then a dead
letter. `Crash` and `Close` stop the process, `Start` and `Subscribe` are the
two halves of a start, and `ToolOpen`, `ToolResolve`, `ToolFails` are the
operator's tool.

Payloads are members of `Contents` (what the fingerprint tells apart). An
outcome is its status and who wrote it. All checks before the journal (window,
deadline, lease, manifest, input schema) are one set, `admits`, which changes at
any time. The publication of manifests and states is in `Registry`. Messages
arrive while the process is up or closing, as the bus is stopped last.
`CancelNative` succeeds only while native work runs: the adapters of the
repository refuse a cancellation of anything else (`ros2.py` 236–248, `lab.py`
278–285), and of any other adapter it is an assumption.

`AssignmentRecord` is what all this amounts to for the rest of the system: one
record per assignment, which goes from `absent` over `accepted`, and perhaps
`interrupted`, to one end; one execution at most; and answers. `Promise` maps
the journal's two columns to the record (`RecordOf`: a row that is unknown and
has no outcome is interrupted, one with an outcome has that end), `started` to
the executions and the published messages to what they tell a coordinator
(`Says`): an acceptance, a result, a cancellation that was carried out, or that
the work has ended. A refusal, `unknown` and a rejected cancellation tell
nothing; a coordinator cannot see whether `rejected` is a refusal or a recorded
result.

### Coordinator

`step` and `run` are the journal's two status columns. A thread is a robot
session's handler or the user's command; `pc`, `plans` and `todo` say where it
is and what it has still to dispatch, cancel or query. Reading the ready steps,
marking one dispatched and publishing it are three actions, as they are three
operations in `_dispatch_ready`. `Stop` and `OpenStore` end and begin a
process, with recovery or, for the cancel command, without it. `Robot...`
actions are a summary of `Participant`: one fate per assignment, answers in
order, interrupted work unknown after a restart. Adapters and operators may
record any known terminal status, `rejected` included. Plans are valid by
assumption, which `PlanValidation` justifies.
A failure between two plans of one `submit_many` batch is not modelled, a
failing announcement after the runs are created is.

### Delivery and FifoChannel

`outbox` and `inbox[p]` are the tables in row order, `floor` the replay table,
`task[t]` a publishing thread, `send[st]` the attempt under a stream's send
lock and `conn[p][st][k]` the peer's connection threads. A restarted peer
(`PeerRestarts`) has its workers at once and its handlers only after
`Subscribe`; what a worker takes (`ClaimRow`) in between meets no handler and is
marked processed, and its position in `taken` is noted in `unheard`. `PublishLocked` tells
`Participant._send` (TRUE) from `Coordinator._publish` (FALSE).
`MaxConnections` is the number of connection threads of one peer and stream
that may be alive at once; 1 says that a server finishes with a timed-out
connection before the client's retry reaches it. Clocks are abstracted: backoff
ends at some time. Frames, certificates and encryption are left out.

`FifoChannel` has per link a sequence put and a sequence taken, and takes in
order and without gaps, a message again only directly after itself. What is
taken is heard while the receiver is `listening`, and is otherwise `unheard`.
`ImplementsFifo` maps the history `queued` (what was stored for a link, in the
order it was stored) to `put`, the rows the workers took to `taken` and the
subscribed peers' links to `listening`.

### Registry

`view` is the registry's entry for the robot. The robot's two publishing
threads read the adapter and the clock (`LoopRead`, `ExecRead`) before they take
the publication lock, so timestamps and sequence numbers may disagree.
`PublishRaises` is a publication that a full outbox refuses, after the number
was given out and, for a changed condition, perhaps between the send on the
safety stream and the other; it ends the loop of the process, or the execution
thread. `chan` is
what `Delivery` promises, a queue per session and stream, handled in any order
among them. `EvaluateRead` and `EvaluateApply` are the two halves of the
watchdog's `evaluate`. `WaitForParticipants`, `Propose` and `Validate` are the
coordinator's submission. `parts` says what the observer has beside the
registry, so that one module serves a node and a coordinator. A state is
represented by its safety condition, a manifest by the set of its capabilities.

### Authority, Credentials, RosAction and Node

`lease` and `audit` are the tables of the authority store, `cert`, `status`,
`revoked` and `trail` those of the credential store, `dirs` the files beside it.
Each command is one transaction, except the enrolment, which is cut at each of
its file operations (`EnrollBegin` ... `EnrollCommit`, `EnrollFails`,
`EnrollCrashes`). The crash is the death of the process: the files are not
synchronized before the commit (`credentials.py` 452–461), and what a loss of
power leaves of them is not modelled. Terms of a lease are a window, an uncertainty, an issuer and
capabilities; a certificate is its validity window.
The read-only queries are operators over the same tables: statuses and filters
(`EffectiveLeaseStatus`, `Selected`, `EffectiveStatus`, `ShowGeneration`), event
listings cut at a limit (`AuthorityEvents`, `EventsRead`) and the check
behind `--preflight` (`ReadActive`, `Preflight`). `ShownIsEnforced` relates them
to what `authorize` and the start of the node decide. Each query is taken to
read one state: `read_active_credential` makes two queries, and an operator's
command between them is not modelled.

`RosAction` has the client's thread in `execute` (`client`, `returned`), the
thread of a cancellation (`cancelling`), the table of active goals, and an action
server that may accept, finish and cancel at any time (external, from the way
the adapter uses it). `ResultTimeout` is whether a result timeout is configured.

`Node` composes the three. `work` follows an assignment from the handshake to
the end of its native work: authorization, claim and submission are separate
steps, so that leases, certificates and the process may change between them.
`phase` is the close in the order of `Participant.close` and `bus.stop`. What
`Participant` and `Delivery` model in detail is one step here. `allowed` is a
history variable: the assignments whose lease held, in the sense of what a lease
promises (`LeaseHolds`), at some time after their receipt. `Authorize` reads
clock and lease in one step; the handler reads the clock first (`runtime.py`
469, `authority.py` 430), and a lease that is granted between the two with a
window that has ended between them is the case this leaves out. Clocks never go
back.

### PlanValidation, Integrations and Backup

`PlanValidation` has the depth-first search of `validate_plan` with its stack of
calls: `VisitRaises`, `VisitSkips`, `VisitEnters` and `VisitReturns` are the ways
through one call of `visit`, and `SearchReturns` ends the loop over the graph. It
then runs what was accepted, and what was refused for a cycle, by the dispatch
rule of the run journal. `Integrations` applies any of the four
standards' export and ingest in sequence to any state or native document. The
ROS 2 bridge checks the identity of a document and answers with its own
adapter's state, which begins a chain anew (`Ros2Ingest`).
`Backup` has each file operation of `ump-ops` processes with the same
destination as a step, beside services that write, a medium that damages files
and kills. A restore verifies file after file (`RestoreBegins`,
`RestoreVerifies`, `RestoreChecks`), while another operator's backup may remove
or replace them. It reads the manifest a second time after it has made its
target (`RestoreReads`), outside the `try` that would remove it.

## 3. The runs

| Run | Instance | Shows |
|---|---|---|
| `participant` | two assignments for one resource, two sessions of one issuer, three requests, a pool of one, one stop, full outbox | `NativeAtMostOnce`, `PublishedIsRecorded`, `NativeWorkExclusive`, `ReleasedOnlyWhenSettled` |
| `participant_live` | one assignment, two issuers, inline execution, two requests, two stops, the tool beside the live process | `AcceptedSettles`, `InboxDrains`, `KeepsRecord` |
| `coordinator` | a chain of two steps, three commands, two stops, a robot restart, full outbox; robots record `succeeded`, `rejected` or `unknown`, operators `cancelled` | `DependenciesDone`, `PublishedOnce`, `SettledAgrees`, `RunMatchesSteps`, `ResultsFinal` |
| `coordinator_live` | a join over two robots and a revision | `RunEnds` |
| `delivery` | two publishers, both streams, two rows, one fault, a restart of the sender and one of the peer | `AckedIsDurable`, `SequencesIncrease`, `SafetyReserved`, `HandledAgainOnlyAfterRestart`, `ImplementsFifo` |
| `delivery_live` | one publisher, two rows, one fault, one restart | `PublishedIsHandled` |
| `registry` | two sessions of the robot, three operational messages each, a change, an execution thread, a refused publication or recording, two clock values | `ViewNeverOlder`, `QuietViewIsLatest` |
| `registry_live` | one session, four clock values, a failing publication, callback or recording, a restart of the observer, a submission | `FaultIsVisible`, `EdgesAreReported` |
| `node` | one lease with two possible terms, two own certificates and a peer's, one assignment, three commands, three clock values, one stop | `WorkIsAuthorized`, `AuditExplainsLeases`, `LeasesOnlyAdvance`, `BundlesComplete`, `AuditExplainsCredentials`, `KnownMeansSettled`, `CancellationIsTrue`, `ShownIsEnforced`, `CredentialFaultStops` |
| `tools` | all plans of three steps with up to two dependencies each; chains of three gateways; two operators, two databases, two writes, two faults, a damaged file | `AcceptedPlansComplete`, `StopsAndFaultsSurvive`, `BackupsAreWhole` |

`TypeOK` is checked in the first run of each state machine.

Two runs end in a violation and show a defect of the code. `PROJECT.json`
quotes the lines under `findings`.

| Run | Counterexample |
|---|---|
| `delivery_timeout` | two connection threads hold one envelope; one discards the staged row the other acknowledges |
| `delivery_race` | two threads of a coordinator store their envelopes in the opposite order of their numbers |

### Bounds

Every bound is a constant beginning with `Max`. Three requests are an
assignment, its redelivery in the other session and a cancellation, or two
competing assignments and a third request; two sessions are two handlers at
once. One stop between any two steps is what a recovery can meet; two in
`participant_live` let the second interrupt what the first left. Three commands
are a submission with a cancellation and a reconciliation in either order. Two
outbox rows are enough for reordering and for a full outbox whose reserve is one
row, and one fault for a retry that meets its own first attempt. `MaxSessions`
and `MaxStops` bound the restarts of the sender and of the peers, `MaxRestarts`
both together. `Delivery` is
general in `Peers`, but with two peers the state space is beyond TLC; peers
share nothing except the outbox's capacity and the send lock. In `registry`
three messages are a manifest and two states, so that a state of either thread
can overtake another, and two clock values give earlier, equal and later
timestamps; two sessions are an old one whose messages are late and the running
one. In `node` three commands are a grant, its revocation and a renewal, or an
enrolment, an activation and a revocation; the three clock values lie before,
inside and after the windows of a lease and of a certificate. Three steps are
enough for a cycle of length three and for one that is reached twice. Two faults
in `tools` are a killed backup and a failing one that finds its leavings.
Deadlock is not
checked, because every instance stops when its bounds are used up.

Symmetry is used in the runs `participant` (assignments, sessions) and
`delivery` (publishers), neither of which has a liveness property.

### Fairness

Weak fairness only. Threads that can run are run (handlers, executions,
connection threads, workers, the retry thread), native calls return, and a
stopped participant is started again (`deploy/systemd/ump-node.service` line 15,
`Restart=on-failure`). In `Node` the run loop, the close, the workers and the
waits of the ROS client library end (each has a timeout; with `ResultTimeout =
FALSE` nothing ends the wait for a result), and nothing is assumed of the action
server. No command, request, crash, fault or resolution is ever
assumed. A peer that is unreachable for ever is excluded by `MaxFaults`, and a
peer that restarts gets to its subscription.
`InboxDrains` says that no row stays in the inbox, by its handler or because
there was none to call, and not that every row had a handler (section 5).
`PublishedIsHandled` has two conditions: a timed-out attempt is over at the peer
before its retry begins (`MaxConnections = 1`; `delivery_timeout` loses the
message otherwise), and no restarted process of the peer takes the row before it
has subscribed (`Missed`; section 5).
`AcceptedSettles` is checked with `OutboxMayFill = FALSE`: with a full outbox
the acknowledgement after `claim` raises and the assignment stays accepted until
the next start. `RunEnds` is checked without stops, because a coordinator that
stops is started by its operator.

## 4. The proofs

The theorems hold for all values of the constants that satisfy the named
assumptions of the modules.

| Theorem | States |
|---|---|
| `ParticipantProofs!TypeCorrect` | `Spec => []TypeOK` |
| `ParticipantProofs!AtMostOnce` | `Spec => []NativeAtMostOnce` |
| `ParticipantProofs!OutcomesRecorded` | `Spec => []PublishedIsRecorded` |
| `ParticipantProofs!RecordKept` | `Spec => KeepsRecord` |
| `ParticipantProofs!WorkExclusive` | `Spec => []NativeWorkExclusive`, assuming `~LiveTool` |
| `ParticipantProofs!ReservationsHeld` | `Spec => ReleasedOnlyWhenSettled` |
| `CoordinatorProofs!TypeCorrect` | `Spec => []TypeOK` |
| `CoordinatorProofs!PublishesOnce` | `Spec => []PublishedOnce` |
| `CoordinatorProofs!DependenciesFirst` | `Spec => []DependenciesDone` |
| `CoordinatorProofs!JournalAgrees` | `Spec => []SettledAgrees` |
| `CoordinatorProofs!RunsMatch` | `Spec => []RunMatchesSteps` |
| `CoordinatorProofs!ResultsAreFinal` | `Spec => ResultsFinal` |
| `DeliveryProofs!TypeCorrect` | `Spec => []TypeOK` |
| `DeliveryProofs!ReserveKept` | `Spec => []SafetyReserved` |
| `DeliveryProofs!LockedPublicationOrdered` | `Spec => []SequencesIncrease`, assuming `PublishLocked` |
| `DeliveryProofs!AcknowledgedIsKept` | `Spec => []AckedIsDurable`, assuming `MaxConnections = 1` |
| `DeliveryProofs!DeliveryImplementsFifo` | `Spec => ImplementsFifo`, assuming both |
| `DeliveryProofs!RepeatsNeedRestart` | `Spec => []HandledAgainOnlyAfterRestart`, assuming both |
| `RegistryProofs!TypeCorrect` | `Spec => []TypeOK` |
| `RegistryProofs!NeverOlder` | `Spec => ViewNeverOlder` |
| `RegistryProofs!QuietIsLatest` | `Spec => []QuietViewIsLatest` |
| `AuthorityProofs!AuditCorrect` | `AuthoritySpec => []AuditExplainsLeases` |
| `AuthorityProofs!LeasesAdvance` | `AuthoritySpec => LeasesOnlyAdvance` |
| `CredentialsProofs!AtMostOneActive` | `CredentialsSpec => []OneActive` |
| `NodeProofs!NodeUsesAuthority` | `Spec => AuthoritySpec`; with it `NodeAudit` and `NodeLeasesAdvance` |
| `NodeProofs!NodeTypeCorrect` | `Spec => []TypeOK` |
| `NodeProofs!WorkAuthorized` | `Spec => []WorkIsAuthorized` |
| `NodeProofs!NodeBundles`, `NodeCredentialAudit` | `Spec => []BundlesComplete`, `Spec => []AuditExplainsCredentials` |
| `NodeProofs!KnownIsSettled`, `CancellationsAreTrue` | `Spec => []KnownMeansSettled`, `Spec => []CancellationIsTrue` |
| `NodeProofs!NodeOneActive` | `Spec => []OneActive` |
| `NodeProofs!ShownEnforced` | `Spec => []ShownIsEnforced` |
| `ToolsProofs!SearchIsRight` | `PlanSpec => []AcceptedPlansComplete` |
| `ToolsProofs!ChainsAreHonest` | `IntegrationsSpec => []StopsAndFaultsSurvive` |
| `ToolsProofs!BackupsWhole` | `BackupSpec => []BackupsAreWhole` |

`Participant`, for any number of assignments, sessions, workers, requests and
stops, with the tool beside the process or not (`ParticipantAssumption`):

- `TypeInv` adds to `TypeOK` that a busy handler has its row at the head of its
  queue, of the kind it handles (it reads the row again in every step), and that
  an execution past the native call holds an outcome.
- `OnceInv` follows an assignment from the claim to the native call: a row that
  does not exist was never started; a handler with a new claim is the only one
  with that identifier and it is not yet started; a queued execution is not yet
  started. That rows never disappear (`RowsStay`) does the rest: a second claim
  finds the row and never starts anything.
- `RowInv` says that the two columns of a row tell one story, and that a
  cancellation past its first look works on a row. With it every step is one of
  four transactions or leaves both columns alone (`JournalSteps`), and what was
  true of a record stays true (`RecordMoves`).
- `MessageInv` says that whatever is published, still owed by a handler, or
  about to be published by an execution is covered by the journal: it carries
  the recorded outcome, and what it says is true of the record. It is preserved
  because recorded outcomes are never replaced (`OutcomeStays`).
- The refinement `RecordKept` follows step by step: a claim is `Accept`, the
  opening of the journal `Interrupt`, a completion or resolution `End` (or
  nothing, when the same outcome is recorded again), the native call `Begin`, a
  publication `Tell` or nothing. `OnceInv` gives the guard of `Begin`,
  `MessageInv` that of `Tell`.
- `ReservationsHeld` is an action property: each step that changes a
  reservation is a completion or a resolution, and `ReservedAfter` releases only
  for a known outcome.
- `HoldInv` is what makes `NativeWorkExclusive` inductive: an assignment holds
  all its resources from its claim on, not only while the native call runs,
  unless a cancellation has recorded its outcome. `QuietInv` says that no thread
  survives its process. The theorem assumes `~LiveTool`: an `ump-reconcile` that
  opens the journal of a running participant makes running work unknown and lets
  an operator release what it holds (section 5).

`Coordinator`, for any valid plans, steps, robots, commands and restarts
(`CoordinatorAssumption`), has one inductive invariant, `IInv`, since its parts
need each other:

- `TodoInv`, `SentInv` and `PublishInv` follow a step from the reading of the
  ready steps to its publication. What a thread read as ready may no longer be
  so when it marks or publishes it; but dependencies that were done stay done,
  `mark_dispatched` takes a pending step only, and so one thread at most is about
  to publish a step, and none after it was published.
- `RequestsInv` and `RepliesInv` say what may be under way: an assignment waits
  in one queue and is new to its robot, and what a robot has answered stays true
  of it. `SettledAgrees` follows for answers of every age and session.
- `RowsInv`, `RunMatchesSteps` and the lemmas around `Advances` (no row
  disappears, a begun step stays begun, a known terminal status stays as it is)
  are proved once for a transaction that writes the steps of a plan, and used by
  every operation of the store.

`Delivery`, for any peers, sessions, publishers, connections and capacities
(`DeliveryAssumption`), has a chain of invariants, each resting on the ones
before it:

- `TypeInv` adds what the bounds and the numbering need, and `ReserveInv` says
  that operational rows leave the reserve free; `SafetyReserved` follows.
- `OrderInv`, with `PublishLocked`: one publisher is at work, the counter is the
  highest number of its session and stream, and higher than every stored one
  until its rows are stored.
- `DurableInv`, with `MaxConnections = 1`: the row a connection thread staged or
  found is there until that thread discards it, and available before it
  acknowledges.
- `ArrivalInv`: an envelope arrives only after the earlier ones of its link were
  acknowledged. With it `InboxInv` (the rows of a link are in the order of
  their numbers) and `HandledInv` (nothing is handed out before the rows
  ahead of it were processed) give the order in which the workers take them.
- `QueueInv` ties `queued` to the outbox, and the refinement maps each step:
  `Enqueue` to `Put`, `ClaimRow` to `TakeNext` or, for a row that a
  restart returned, to `TakeLastAgain`, the restart of a peer and its
  subscription to `Turn`, and every other step to a stutter.
- `RepeatInv` counts: per link, rows taken exceed messages by at most the number
  of the peers' restarts, and by one less while a returned row waits to be
  handed out again. Restarts of the sender do not count.

Both hypotheses are needed: the runs `delivery_race` and `delivery_timeout` are
counterexamples without the first and without the second. `Participant._send`
satisfies the first and `Coordinator._publish` does not; the second is an
assumption on the network.

`Registry`, for any capabilities, conditions, sessions, publications, restarts
and clocks (`RegistryAssumption`):

- `TypeInv` adds to `TypeOK` that a state shown is of the session whose manifest
  is shown, and what a thread inside a publication has read.
- `QueueInv`: the numbers in a queue increase, and exceed those the view has seen
  of that session and stream. So a handler refuses the head of a queue, starts a
  new view, or brings the view forward, and never meets a repeated number.
- `LatestInv`: the latest state of a stream is still queued, or the view has
  reached it; no queued state is later, and the last of equal timestamps is the
  latest. A publication that is refused leaves a gap in the numbers, which
  neither invariant minds. When the queues are empty, `QuietViewIsLatest` remains. It says nothing
  of the sessions in `gaps`, whose messages were refused (section 5).

The stores and the node, for any leases, terms, clocks, certificates,
generations, assignments and bounds (`AuthorityAssumption`,
`CredentialsAssumption`, `RosAssumption`, `NodeAssumption`):

- `Explained` in `AuthorityProofs` says per lease that the row is what its last
  event made it. It is inductive with the types, since a grant or revocation
  writes the row and appends the event in one transaction.
- `CredInv` adds to `BundlesComplete` and `AuditExplainsCredentials` that the
  rows are the first generations without a gap (`Contiguous`), so that an
  enrolment works in a directory no row names; where an enrolment is
  (`EnrollInv`); and that an activation names a stored generation (`AuditInv`),
  so that a newly enrolled one is not taken for active.
- `GoalInv` in `NodeProofs` relates, per assignment, what the client's
  thread knows to the state of the goal in the server. `CrashKeepsRosInv` shows
  that the node's crash, which ends client threads and not the goal, keeps it.
- `AuthorizationInv` adds to `WorkIsAuthorized` that a request in the inbox is
  in `allowed` while its lease holds (`AllowedWhileHolding`): the handler's
  check comes at an arbitrary later time. `AuthorizesHolds` is the arithmetic
  step: the uncertainty `authorize` counts on both sides implies that the window
  covers every true time the clock may stand for.
- The composition: every step of the node is a step of each store or leaves it
  alone (`StoreStep`, `CredentialStoreStep`), so the stores' invariants carry
  over; for the authority store this is the refinement `Spec => AuthoritySpec`.
- `ShownInv` adds to the stores' invariants that every row of the inventory names
  its certificate, and that the newest credential event is still true of the
  rows: what was activated last is active, what was revoked last is retired. A
  listing cut at a limit shows that event.

`PlanValidation`, for any proposals, robots, leases and deadlines
(`PlanAssumption`): that the search is right needs no induction over plans,
because the search is a state machine and `PlanInv` speaks of sets of steps.

- `PathInv`: the calls in progress are a path of dependencies without a
  repetition. So a call with a step of the path closes a cycle, and the steps of
  the path that lead to it are a set each of which waits for another (`Stuck`).
  Such a set stays disjoint from what has succeeded, and the plan never
  completes.
- `VisitedInv`: what was visited is closed under dependencies and `Grounded`,
  that is, every non-empty part of it has a step that depends on none of that
  part. `GroundedGrows` is the step of a returning visit. `ListsInv` says that
  nothing of a list is forgotten, so that at the end all steps were visited; the
  steps of an accepted plan that have not succeeded are a part of it, and one of
  them is ready.

`Integrations`, for chains of any length: `RelayInv` is the property with the
type of the shown state, and each standard has its table once (`VdaKeeps`,
`OpcKeeps`, `OthersKeep`).

`Backup`, for any operators, databases, writes, faults and damage
(`BackupAssumption`), rests on `BackupInv`:

- `OwnerInv`: one process makes the backup and one fills the target. It holds
  because `mkdir` refuses a directory that exists, before the `try` statement
  whose clean-up removes one.
- `ManifestInv`: sums are of versions a database has had.
- `CopyInv`, until the medium damages a file: file, sum in the manifest and sum
  its maker noted are one version (`OneVersion`, `MakerKnows`); versions only grow
  while a restore runs (`NotOlder`), so a restored file that is not of the verified
  version is later, and then the manifest is no longer the verified one
  (`TargetInv`).

Only model-checked: the liveness properties (`AcceptedSettles`, `InboxDrains`,
`RunEnds`, `PublishedIsHandled`, `FaultIsVisible`, `EdgesAreReported`,
`CredentialFaultStops`), since fairness is out of the prover's reach. Every
invariant, action property and refinement of a passing run has its theorem.

## 5. Observations without a run of their own

Properties that a document states and the code does not have are kept in the
modules, after the other properties. Adding `UnknownIsResolvable`,
`TakenIsHeard` or `ContextReturns` to the `INVARIANTS`, or one of the others to the `PROPERTIES`,
of the named configuration gives the counterexample.

- `Participant!RedeliveryNotRefused`: a redelivered assignment meets the window,
  deadline, authority and manifest checks (`runtime.py` 468–520) before
  `journal.claim`, so accepted or finished work is answered `rejected` once its
  deadline or lease has lapsed. `docs/PROTOCOL.md` 114–116 and 123–126 say a
  redelivery replays the stored outcome or reports unknown (`Participant.cfg`).
- `Participant!UnknownIsResolvable`: `_execute_assignment` records an `unknown`
  outcome, and `resolve_unknown` refuses a row whose outcome is not NULL
  (`journal.py` 414), although `docs/RECONCILIATION.md` 3–6 and 17–20 offer the
  tool for action-result timeouts (`Participant.cfg`).
- `Participant!RemovedByHandler`: `SqliteInbox.__init__` starts its workers
  (`delivery.py` 392) before `Participant.__init__` subscribes, and rows of the
  previous process are marked processed unseen; `delivery.py` 343 calls the inbox
  durable (`ParticipantLive.cfg`).
- `Delivery!TakenIsHeard`: the same window seen from the sender: an acknowledged
  message meets no handler after a restart of the peer, although
  `docs/NETWORK_PROFILE.md` 71–73 says that the order of staging, floor and
  activation closes the crash windows (`Delivery.cfg`).
- `Coordinator!NoDispatchAfterFailure`: `mark_dispatched` does not check that the
  run is still active (`coordinator_store.py` 404–418), so an independent step
  read as ready is dispatched after the run has failed, contrary to
  `docs/PROTOCOL.md` 213–215 (`CoordinatorLive.cfg`).
- `Registry!StaleNeverAuthorizes`: the time freshness is measured against is read
  before the planner runs (`collaboration.py` 232–246), so a plan is validated
  with context that has become stale meanwhile; `docs/PROTOCOL.md` 43
  (`RegistryLive.cfg`).
- `Registry!ContextReturns`: a restarted observer has an empty registry and
  refuses the states of running robots until they announce themselves again,
  which they do only when they restart or their manifest changes;
  `collaboration.py` 355 and `docs/RECONCILIATION.md` 50 (`RegistryLive.cfg`).

Further observations, from reading and from what the properties had to leave
out:

- `replan` accepts an unknown predecessor; `docs/PROTOCOL.md` 106–108 and
  `docs/ARCHITECTURE.md` 66–68 differ on whether it may.
- A plain outcome message resolves an unknown step (`collaboration.py` 151–154),
  while `docs/PROTOCOL.md` 231 speaks of a snapshot.
- `ump-reconcile` beside a live participant marks running work unknown and lets
  an operator release its resources; `journal.py` 211–212 presumes that the
  opening process is the only one.
- `docs/NETWORK_PROFILE.md` 73 promises order per source; the inbox keeps it per
  source session and stream (`delivery.py` 500–533), as line 87 says. A
  cancellation of a new session may overtake an assignment of the old one, and
  no property speaks of it.
- A failure in the middle of a `submit_many` batch leaves runs that nobody
  dispatches; no property is about the batch.
- The publication lock is held during the flush (`runtime.py` 334), so a blocked
  operational connection also delays a safety publication of the same process,
  in contrast to `docs/NETWORK_PROFILE.md` 83–84.

- A late manifest of an old session resets the view of the running one
  (`runtime.py` 70–104), against `docs/PROTOCOL.md` 39; `gaps` in `Registry`
  leaves those sessions out. A safety state that overtakes its session's manifest
  is refused, and an execution thread may publish before the announcement.
- Of two states with equal timestamps the one handled later is shown, whichever
  was published later.
- `protocol_events` is unique by session and sequence without the stream
  (`inspector.py` 48–97), so one of two events with the same number in the two
  streams is not recorded; `docs/INSPECTOR.md` 61.
- `service.close` waits for native work while the bus still receives; a claim
  made then is acknowledged and never executed, and after the journal is closed
  requests become dead letters. Without a result timeout the wait has no end.
- A cancellation that arrives before the goal handle is registered is refused.
- A directory left by a crashed enrolment makes the next enrolment fail once. A
  restored older credential database forgets revocations.
- Messages already in the inbox are handled although their sender's certificate
  has been revoked meanwhile; revocation is checked at the handshake.
- A lease whose window is shorter than twice its uncertainty is selected under
  both `expired` and `not_yet_valid`.
- `ump-ops` backs databases up one after the other, not as one snapshot; a
  restore does not copy the manifest, so a restored directory does not verify
  (`docs/OPERATIONS.md` 104); and a restore may mix two backups when an
  interrupted one is made again meanwhile.
- The VDA 5050 export turns `unknown` and `recovery_required` into eStop `NONE`,
  which, like a missing `safetyState`, is ingested as `normal`, against
  `docs/STANDARDS_INTEGRATIONS.md` 81–82; a stop that passes a standard without
  safety and then VDA 5050 arrives as `normal`. MassRobotics and Open-RMF exports
  drop faults. `StopsAndFaultsSurvive` states what remains true.

## 6. Not modelled, and the plan

Not modelled: discovery (expiring hints, each connection is authenticated
anyway); the laboratory, simulation, demonstration, conformance and benchmark
programs, which drive the modelled parts; operating diagnostics, deployment and
configuration files, reports and exports, which are input and output; JSON
encoding and field limits; the HTTP viewer of the inspector and the paging of
the read-only queries; task documents of the integrations.

Left: `Coordinator` with participants that are only known by `AssignmentRecord`,
over `FifoChannel`, in place of the robots it has now; with it a revision beside
reconciled work and the batch of `submit_many`.
