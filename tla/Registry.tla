------------------------------- MODULE Registry -------------------------------
(***************************************************************************)
(* One robot that publishes its manifest and state, and one process that   *)
(* observes it: the registry of peers with, as the process is configured,  *)
(* the recorder of protocol events and the health check it feeds, the      *)
(* communication watchdog of a node, or the coordinator's wait for         *)
(* participants before it plans.                                           *)
(*                                                                         *)
(* Between them is what Delivery provides: a queue per source session and  *)
(* stream, read in order, the queues of different sessions and streams in  *)
(* any order, and a message handed out again when the observer stops       *)
(* before it is done with it.  Both clocks read the same time.             *)
(***************************************************************************)
EXTENDS Naturals, Sequences, FiniteSets

CONSTANTS
    Capabilities,   \* the robot's capabilities; a manifest is the set available
    Safeties,       \* values of RobotState.safety
    None,           \* no manifest, no state
    Configurations, \* sets of the parts of an observer: see Parts
    FreshFor,       \* RobotState.fresh_for_ms, in steps of the clock
    MaxTime,        \* bound of the clock
    MaxSessions,    \* bound on the robot's process lifetimes
    MaxSequence,    \* bound on the operational sequence of a session
    MaxChanges,     \* bound on the changes of the robot
    MaxExecutions,  \* bound on the publications by execution threads
    MaxFaults,      \* bound on failing publications, callbacks and recordings
    MaxRestarts,    \* bound on the observer's restarts
    MaxSubmissions  \* bound on the coordinator's submissions

ASSUME RegistryAssumption ==
    /\ None \notin Capabilities \cup Safeties
    /\ "normal" \in Safeties
    /\ Configurations \subseteq SUBSET {"recorder", "watchdog", "planner"}
    /\ {FreshFor, MaxTime, MaxSessions, MaxSequence, MaxChanges,
        MaxExecutions, MaxFaults, MaxRestarts, MaxSubmissions} \subseteq Nat

Manifests  == SUBSET Capabilities
Streams    == {"operational", "safety"}
Sessions   == 1..MaxSessions
Publishers == {"loop", "exec"}

VARIABLES
    now,       \* the clock
    robot,     \* what the adapter would report
    session,   \* number of the robot's last process lifetime
    seq,       \* Participant._sequences
    last,      \* Participant._last_published_manifest and _safety
    task,      \* the run loop and an execution thread inside a publication
    chan,      \* envelopes on their way, per session and stream
    parts,     \* what the observer has beside the registry
    up,        \* its process is "up", "stopping" or "down"
    view,      \* Registry.peers[robot]
    rows,      \* protocol_events of the inspector
    latched,   \* InspectorRecorder._error is set
    monitor,   \* RuntimeMonitor
    eval,      \* what evaluate has read of the required peer, else "idle"
    active,    \* CommunicationWatchdog._active_stale is not empty
    told,      \* what the adapter's callbacks were last told
    cmd,       \* a submission of the coordinator
    used,      \* the counters behind the bounds
    latest,    \* history: per stream, the last state with the greatest timestamp
    gaps       \* history: sessions of which this observer process refused a state,
               \* was handed out none of the past or replaced the view

robotVars    == <<robot, session, seq, last, task, latest>>
observerVars == <<parts, up, view, rows, latched, monitor, gaps>>
dogVars      == <<eval, active, told>>
vars == <<now, robotVars, chan, observerVars, dogVars, cmd, used>>

(* An envelope carries a manifest or a state, of which its safety is kept. *)
IsEnvelope(e) ==
    /\ e.session \in Sessions /\ e.stream \in Streams
    /\ e.seq \in Nat /\ e.at \in 0..MaxTime
    /\ \/ e.type = "manifest" /\ e.body \in Manifests /\ e.stream = "operational"
       \/ e.type = "state" /\ e.body \in Safeties

IdleTask == [pc |-> "idle", manifest |-> None, safety |-> None, at |-> 0, force |-> FALSE]
NoCommand == [pc |-> "none", now |-> 0, capability |-> None]

NothingPublished == [st \in Streams |-> [at |-> 0, body |-> None]]

(* What a thread has read of the adapter and the clock before it publishes.*)
Reading(pc, force) == [pc |-> pc, manifest |-> robot.manifest, safety |-> robot.safety,
                       at |-> now, force |-> force]

(* A registry that has not heard of the robot.                             *)
PeerView == [session |-> 0, manifest |-> None, state |-> None, at |-> 0,
             last |-> [st \in Streams |-> 0]]

(* The parts of the observer that live in its memory and end with it.      *)
MemoryLost ==
    /\ view'    = PeerView
    /\ latched' = FALSE
    /\ eval'    = "idle"
    /\ active'  = FALSE
    /\ told'    = FALSE
    /\ cmd'     = NoCommand

Init ==
    /\ now = 0
    /\ robot = [manifest |-> Capabilities, safety |-> "normal"]
    /\ session = 0
    /\ seq = [st \in Streams |-> 0]
    /\ last = [manifest |-> None, safety |-> None]
    /\ task = [t \in Publishers |-> IdleTask]
    /\ chan = [s \in Sessions |-> [st \in Streams |-> <<>>]]
    /\ parts \in Configurations
    /\ up = "down"
    /\ view = PeerView
    /\ rows = {}
    /\ latched = FALSE
    /\ monitor = [healthy |-> TRUE, ready |-> FALSE]
    /\ eval = "idle"
    /\ active = FALSE
    /\ told = FALSE
    /\ cmd = NoCommand
    /\ used = [changes |-> 0, executions |-> 0, faults |-> 0, restarts |-> 0,
               submissions |-> 0]
    /\ latest = NothingPublished
    /\ gaps = {}

Count(k) == used' = [used EXCEPT ![k] = @ + 1]

-----------------------------------------------------------------------------
(* The robot.                                                              *)

(* The adapter's manifest or state changes (external: native code).        *)
RobotChanges ==
    /\ used.changes < MaxChanges
    /\ \/ \E m \in Manifests \ {robot.manifest} : robot' = [robot EXCEPT !.manifest = m]
       \/ \E x \in Safeties \ {robot.safety} : robot' = [robot EXCEPT !.safety = x]
    /\ Count("changes")
    /\ UNCHANGED <<now, session, seq, last, task, latest, chan, observerVars,
                   dogVars, cmd>>

(* ParticipantService is built and started, after its last process was     *)
(* stopped or crashed: a new session with new sequences, whose main thread *)
(* begins with the announcement.  What the last process has published is   *)
(* in its outbox and still delivered.  (One that is down and one that does *)
(* not publish look the same to an observer.)                              *)
RobotStarts ==
    /\ session < MaxSessions
    /\ session' = session + 1
    /\ seq' = [st \in Streams |-> 0]
    /\ last' = [manifest |-> None, safety |-> None]
    /\ task' = [t \in Publishers |->
                   IF t = "loop" THEN Reading("manifest", TRUE) ELSE IdleTask]
    /\ latest' = NothingPublished
    /\ UNCHANGED <<now, robot, chan, observerVars, dogVars, cmd, used>>

(* ParticipantService.run reads the adapter and the clock.                 *)
LoopRead ==
    /\ session # 0 /\ task["loop"].pc = "idle"
    /\ seq["operational"] < MaxSequence
    /\ task' = [task EXCEPT !["loop"] = Reading("manifest", FALSE)]
    /\ UNCHANGED <<now, robot, session, seq, last, latest, chan, observerVars,
                   dogVars, cmd, used>>

(* The end of _execute_assignment, or an owner's safety callback, reads    *)
(* the clock and lets publish_state or publish_safety_state read the       *)
(* adapter before the publication lock is taken.                           *)
ExecRead ==
    /\ session # 0 /\ task["exec"].pc = "idle"
    /\ used.executions < MaxExecutions
    /\ \E pc \in {"state", "safety"} :
          task' = [task EXCEPT !["exec"] = Reading(pc, FALSE)]
    /\ Count("executions")
    /\ UNCHANGED <<now, robot, session, seq, last, latest, chan, observerVars,
                   dogVars, cmd>>

(* _send under the publication lock, once for every element of streams.    *)
(* What the full outbox of a stream refuses has its number by then.        *)
Send(type, streams, refused, at, body) ==
    LET Env(st) == [type |-> type, session |-> session, stream |-> st,
                    seq |-> seq[st] + 1, at |-> at, body |-> body]
    IN  /\ seq'  = [st \in Streams |->
                       IF st \in streams \cup refused THEN seq[st] + 1 ELSE seq[st]]
        /\ chan' = [chan EXCEPT ![session] = [st \in Streams |->
                       IF st \in streams THEN Append(chan[session][st], Env(st))
                                            ELSE chan[session][st]]]
        /\ latest' = [st \in Streams |->
                       IF type = "state" /\ st \in streams /\ at >= latest[st].at
                       THEN [at |-> at, body |-> body] ELSE latest[st]]

(* publish_manifest: forced by the announcement, else only when changed.   *)
Announces(reading) == reading.force \/ reading.manifest # last.manifest

PublishManifest ==
    /\ task["loop"].pc = "manifest"
    /\ IF Announces(task["loop"])
       THEN /\ Send("manifest", {"operational"}, {}, task["loop"].at, task["loop"].manifest)
            /\ last' = [last EXCEPT !.manifest = task["loop"].manifest]
       ELSE UNCHANGED <<seq, chan, last, latest>>
    /\ task' = [task EXCEPT !["loop"].pc = "state"]
    /\ UNCHANGED <<now, robot, session, observerVars, dogVars, cmd, used>>

(* publish_state: a changed safety condition goes on both streams.         *)
StateStreams(safety) ==
    IF last.safety # None /\ safety # last.safety THEN Streams ELSE {"operational"}

PublishState(t) ==
    /\ task[t].pc = "state"
    /\ Send("state", StateStreams(task[t].safety), {}, task[t].at, task[t].safety)
    /\ last' = [last EXCEPT !.safety = task[t].safety]
    /\ task' = [task EXCEPT ![t] = IdleTask]
    /\ UNCHANGED <<now, robot, session, observerVars, dogVars, cmd, used>>

(* publish_safety_state: the safety stream alone.                          *)
PublishSafetyState ==
    /\ task["exec"].pc = "safety"
    /\ Send("state", {"safety"}, {}, task["exec"].at, task["exec"].safety)
    /\ last' = [last EXCEPT !.safety = task["exec"].safety]
    /\ task' = [task EXCEPT !["exec"] = IdleTask]
    /\ UNCHANGED <<now, robot, session, observerVars, dogVars, cmd, used>>

(* The streams on which a thread is about to publish.                      *)
Sending(t) ==
    CASE task[t].pc = "manifest" -> IF Announces(task[t]) THEN {"operational"} ELSE {}
      [] task[t].pc = "state"    -> StateStreams(task[t].safety)
      [] task[t].pc = "safety"   -> {"safety"}
      [] OTHER                   -> {}

(* The outbox is full for one of them, and publish raises.  publish_state  *)
(* sends on the safety stream first, and notes the condition between the   *)
(* two.  The exception ends the node's loop, and with it the process; that *)
(* of an execution thread ends with its thread.                            *)
PublishRaises(t) ==
    /\ used.faults < MaxFaults
    /\ \E st \in Sending(t) :
          /\ Send("state", IF st = "operational" THEN Sending(t) \ {st} ELSE {}, {st},
                  task[t].at, task[t].safety)
          /\ last' = IF \/ task[t].pc = "state" /\ st = "operational"
                        \/ task[t].pc = "safety"
                     THEN [last EXCEPT !.safety = task[t].safety] ELSE last
    /\ task' = [task EXCEPT ![t] = IF t = "loop" THEN [@ EXCEPT !.pc = "stopped"] ELSE IdleTask]
    /\ Count("faults")
    /\ UNCHANGED <<now, robot, session, observerVars, dogVars, cmd>>

-----------------------------------------------------------------------------
(* The observer's handlers.                                                *)

(* Mutant: a new session keeps the state of the old one.                   *)
ManifestViewKeepsState(v, e) ==
    LET w == IF v.session # e.session
             THEN [v EXCEPT !.last = [st \in Streams |-> 0]] ELSE v
    IN  IF e.seq <= w.last[e.stream] THEN w
        ELSE [w EXCEPT !.manifest = e.body, !.session = e.session,
                       !.last[e.stream] = e.seq]

(* Registry._manifest: a manifest of another session starts a new view.    *)
ManifestView(v, e) ==
    LET w == IF v.session # e.session
             THEN [v EXCEPT !.state = None, !.at = 0, !.last = [st \in Streams |-> 0]]
             ELSE v
    IN  IF e.seq <= w.last[e.stream] THEN w
        ELSE [w EXCEPT !.manifest = e.body, !.session = e.session,
                       !.last[e.stream] = e.seq]

(* Mutant: the timestamps of the two streams are not compared.             *)
StateViewUnordered(v, e) ==
    IF e.seq <= v.last[e.stream] THEN v
    ELSE [v EXCEPT !.last[e.stream] = e.seq, !.state = e, !.at = e.at]

(* Mutant: a state with the timestamp of the one shown is dropped.         *)
StateViewStrict(v, e) ==
    IF e.seq <= v.last[e.stream] THEN v
    ELSE LET w == [v EXCEPT !.last[e.stream] = e.seq]
         IN  IF w.state # None /\ e.at <= w.at THEN w ELSE [w EXCEPT !.state = e, !.at = e.at]

(* Registry._state, for a session whose manifest the view has.             *)
StateView(v, e) ==
    IF e.seq <= v.last[e.stream] THEN v
    ELSE LET w == [v EXCEPT !.last[e.stream] = e.seq]
         IN  IF e.at < w.at THEN w ELSE [w EXCEPT !.state = e, !.at = e.at]

Raises(e) == e.type = "state" /\ (view.session # e.session \/ view.manifest = None)

(* The UNIQUE constraint of protocol_events: the stream is not part of it. *)
IsRecorded(e) == \E r \in rows : r.session = e.session /\ r.seq = e.seq

(* InspectorStore.record: INSERT OR IGNORE.                                *)
Recorded(e) == IF IsRecorded(e) THEN rows
               ELSE rows \cup {[session |-> e.session, seq |-> e.seq]}

(* InspectorRecorder._record: a failing write is latched and nothing is    *)
(* recorded after it.                                                      *)
Record(e) ==
    \/ /\ rows' = IF "recorder" \in parts /\ ~latched THEN Recorded(e) ELSE rows
       /\ UNCHANGED <<latched, used>>
    \/ /\ "recorder" \in parts /\ ~latched
       /\ used.faults < MaxFaults
       /\ latched' = TRUE
       /\ Count("faults")
       /\ UNCHANGED rows

(* An inbox worker hands the head of a queue to the registry, then to the  *)
(* recorder.  A state that the registry refuses is a dead letter and the   *)
(* recorder does not see it.                                               *)
Handle(s, st) ==
    /\ up # "down"
    /\ chan[s][st] # <<>>
    /\ LET e == Head(chan[s][st])
       IN  IF Raises(e)
           THEN /\ gaps' = gaps \cup {s}
                /\ UNCHANGED <<view, rows, latched, used>>
           ELSE /\ view' = IF e.type = "manifest" THEN ManifestView(view, e)
                                                  ELSE StateView(view, e)
                /\ Record(e)
                /\ gaps' = IF view'.session = view.session THEN gaps
                           ELSE gaps \cup ({view.session} \ {0})
    /\ chan' = [chan EXCEPT ![s][st] = Tail(@)]
    /\ UNCHANGED <<now, robotVars, parts, up, monitor, dogVars, cmd>>

-----------------------------------------------------------------------------
(* The observer's service: start, health check, close, crash.              *)

ObserverStarts ==
    /\ up = "down"
    /\ used.restarts <= MaxRestarts
    /\ up' = "up"
    /\ Count("restarts")
    /\ monitor' = [healthy |-> TRUE, ready |-> TRUE]
    /\ UNCHANGED <<now, robotVars, chan, parts, view, rows, latched, gaps, dogVars, cmd>>

(* Mutant: the recorder is not part of the health check.                   *)
HealthyAlways == TRUE

(* require_runtime_health without the credential check, which is in Node.  *)
Healthy == ~latched

(* A failed check raises out of the service's loop.                        *)
HealthCheck ==
    /\ up = "up" /\ ~Healthy
    /\ monitor' = [healthy |-> FALSE, ready |-> FALSE]
    /\ up' = "stopping"
    /\ UNCHANGED <<now, robotVars, chan, parts, view, rows, latched, gaps, dogVars, cmd,
                   used>>

(* The process ends: close joins the watchdog and stops the bus; a crash   *)
(* may come at any time, also after a message was recorded and before its  *)
(* row in the inbox is done: it is then handed out again.                  *)
ObserverStops ==
    /\ up # "down"
    /\ up' = "down"
    /\ MemoryLost
    /\ \/ UNCHANGED rows
       \/ \E s \in Sessions, st \in Streams :
             /\ "recorder" \in parts /\ ~latched
             /\ chan[s][st] # <<>> /\ ~Raises(Head(chan[s][st]))
             /\ rows' = Recorded(Head(chan[s][st]))
    /\ monitor' = [monitor EXCEPT !.ready = FALSE]
    /\ gaps' = 1..session
    /\ UNCHANGED <<now, robotVars, chan, parts, used>>

-----------------------------------------------------------------------------
(* The watchdog of a node, with one required peer.                         *)

(* Registry.is_fresh.                                                      *)
IsFresh(t) == view.state # None /\ t <= view.at + FreshFor

(* The first half of evaluate: the registry is read before the watchdog's  *)
(* lock is taken.                                                          *)
EvaluateRead ==
    /\ "watchdog" \in parts /\ up = "up" /\ eval = "idle"
    /\ eval' = IF IsFresh(now) THEN "fresh" ELSE "stale"
    /\ UNCHANGED <<now, robotVars, chan, observerVars, active, told, cmd, used>>

(* Mutant: the edge is taken as reported although the callback has failed. *)
CallbackFailsRecorded ==
    /\ used.faults < MaxFaults
    /\ Count("faults")
    /\ active' = (eval = "stale")
    /\ UNCHANGED told

(* The callback raises: the edge is not recorded and is tried again.       *)
CallbackFails ==
    /\ used.faults < MaxFaults
    /\ Count("faults")
    /\ UNCHANGED <<active, told>>

(* communication_lost or communication_restored returns.                   *)
CallbackReturns ==
    /\ active' = (eval = "stale")
    /\ told' = (eval = "stale")
    /\ UNCHANGED used

(* The second half, under the lock: a callback only on an edge.            *)
EvaluateApply ==
    /\ up # "down" /\ eval # "idle"
    /\ eval' = "idle"
    /\ \/ (eval = "stale") = active /\ UNCHANGED <<active, told, used>>
       \/ (eval = "stale") # active /\ (CallbackReturns \/ CallbackFails)
    /\ UNCHANGED <<now, robotVars, chan, observerVars, cmd>>

-----------------------------------------------------------------------------
(* The coordinator's submission.                                           *)

(* Registry.missing_context, for a goal with one participant.              *)
MissingContext(t) == view.manifest = None \/ ~IsFresh(t)

(* wait_for_participants polls missing_context; its timeout, an interrupt  *)
(* or a failed health check end the command.  Then the clock is read.      *)
WaitForParticipants ==
    /\ "planner" \in parts /\ up = "up" /\ cmd.pc = "none"
    /\ used.submissions < MaxSubmissions
    /\ Count("submissions")
    /\ \/ /\ ~MissingContext(now)
          /\ cmd' = [cmd EXCEPT !.pc = "planning", !.now = now]
       \/ cmd' = [cmd EXCEPT !.pc = "refused"]
    /\ UNCHANGED <<now, robotVars, chan, observerVars, dogVars>>

(* The planner proposes a capability, for as long as it takes.  It is      *)
(* untrusted: it may propose any.                                          *)
Propose ==
    /\ up = "up" /\ cmd.pc = "planning"
    /\ \E c \in Capabilities : cmd' = [cmd EXCEPT !.pc = "proposed", !.capability = c]
    /\ UNCHANGED <<now, robotVars, chan, observerVars, dogVars, used>>

(* The checks of validate_plan that depend on the view: the participant is *)
(* present and fresh at the time read before planning, and its manifest    *)
(* says the capability is available.                                       *)
Validates == view.manifest # None /\ IsFresh(cmd.now) /\ cmd.capability \in view.manifest

Validate ==
    /\ up = "up" /\ cmd.pc = "proposed"
    /\ cmd' = [cmd EXCEPT !.pc = IF Validates THEN "submitted" ELSE "refused"]
    /\ UNCHANGED <<now, robotVars, chan, observerVars, dogVars, used>>

SubmissionDone ==
    /\ cmd.pc \in {"submitted", "refused"}
    /\ cmd' = NoCommand
    /\ UNCHANGED <<now, robotVars, chan, observerVars, dogVars, used>>

-----------------------------------------------------------------------------
Tick ==
    /\ now < MaxTime
    /\ now' = now + 1
    /\ UNCHANGED <<robotVars, chan, observerVars, dogVars, cmd, used>>

Robot == RobotChanges \/ RobotStarts

Publication ==
    \/ LoopRead \/ PublishManifest
    \/ ExecRead \/ PublishSafetyState
    \/ \E t \in Publishers : PublishState(t)

PublicationFails == \E t \in Publishers : PublishRaises(t)

Handlers == \E s \in Sessions, st \in Streams : Handle(s, st)

Service == ObserverStarts \/ HealthCheck \/ ObserverStops

Watchdog == EvaluateRead \/ EvaluateApply

Submission == WaitForParticipants \/ Propose \/ Validate \/ SubmissionDone

Next ==
    \/ Tick \/ Robot \/ Publication \/ PublicationFails
    \/ Handlers \/ Service \/ Watchdog \/ Submission

Spec == Init /\ [][Next]_vars

(* Threads run: publications, handlers, the watchdog's thread, the health  *)
(* check of the run loop and the close that follows it.                    *)
FairSpec ==
    /\ Spec
    /\ WF_vars(Publication)
    /\ \A s \in Sessions, st \in Streams : WF_vars(Handle(s, st))
    /\ WF_vars(Watchdog)
    /\ WF_vars(HealthCheck)
    /\ WF_vars(up = "stopping" /\ ObserverStops)

-----------------------------------------------------------------------------
(* Every variable has its form; in particular, what the registry shows of  *)
(* a robot comes from one lifetime of its process: a state is never kept   *)
(* beside the manifest of another session.                                 *)
TypeOK ==
    /\ now \in 0..MaxTime
    /\ robot \in [manifest : Manifests, safety : Safeties]
    /\ session \in 0..MaxSessions
    /\ seq \in [Streams -> Nat]
    /\ last \in [manifest : Manifests \cup {None}, safety : Safeties \cup {None}]
    /\ \A t \in Publishers :
          /\ task[t].pc \in {"idle", "manifest", "state", "safety", "stopped"}
          /\ task[t].pc \in {"state", "safety"} => task[t].safety \in Safeties
    /\ \A s \in Sessions, st \in Streams :
          \A i \in 1..Len(chan[s][st]) : IsEnvelope(chan[s][st][i])
    /\ up \in {"up", "stopping", "down"}
    /\ rows \subseteq [session : Sessions, seq : Nat]
    /\ \A x \in {active, told, latched, monitor.healthy, monitor.ready} : x \in BOOLEAN
    /\ view.state # None => /\ IsEnvelope(view.state) /\ view.manifest \in Manifests
                            /\ view.state.at = view.at /\ view.state.session = view.session
    /\ cmd.pc \in {"none", "planning", "proposed", "submitted", "refused"}

(* Within a session the registry's state never goes back in the robot's    *)
(* time, although two streams are handled in any order.                    *)
ViewNeverOlder ==
    [][view'.session = view.session /\ view.state # None => view'.at >= view.at]_view

(* Nothing the running robot has published is still on its way.            *)
Quiet == session # 0 /\ \A st \in Streams : chan[session][st] = <<>>

(* When all that the running robot published has been handled, the view    *)
(* shows the last state with the greatest timestamp of a stream, and none  *)
(* of the other stream is later: no order of the two streams, and no race  *)
(* of the loop with an execution thread for the publication lock, leaves   *)
(* an older one standing.  A session of which a state was refused or       *)
(* handled by an earlier process of the observer, or whose view a late     *)
(* manifest of an older session has replaced, is left out.                 *)
QuietViewIsLatest ==
    Quiet /\ view.session = session /\ view.state # None /\ session \notin gaps
        => /\ [at |-> view.at, body |-> view.state.body] = latest[view.state.stream]
           /\ \A st \in Streams : view.at >= latest[st].at

(* A failed recording is reported: the service does not stay ready.        *)
FaultIsVisible == latched ~> ~monitor.ready

(* A required peer that stays stale is reported to the adapter as lost, and *)
(* one that stays fresh as restored, although callbacks may fail and late   *)
(* messages come between the reading and the callback.                      *)
EdgesAreReported ==
    /\ <>[]("watchdog" \in parts /\ up = "up" /\ ~IsFresh(now)) => <>[]told
    /\ <>[]("watchdog" \in parts /\ up = "up" /\ IsFresh(now)) => <>[]~told

-----------------------------------------------------------------------------
(* What a document says, and the code does not do (README, section 5).     *)

(* docs/PROTOCOL.md 43: stale state is not used to authorize a plan.       *)
StaleNeverAuthorizes ==
    [][cmd.pc = "proposed" /\ cmd'.pc = "submitted" => IsFresh(now)]_vars

(* collaboration.py 355 and docs/RECONCILIATION.md 50: after the observer  *)
(* restarts, the robots that are running announce themselves again, so     *)
(* that the states they publish are not refused.                           *)
ContextReturns ==
    up = "up" /\ session # 0 /\ chan[session]["operational"] # <<>>
        => ~Raises(Head(chan[session]["operational"]))
=============================================================================
