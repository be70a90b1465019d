---------------------------- MODULE Coordinator ----------------------------
(***************************************************************************)
(* The coordinator: ump.collaboration.Coordinator, its durable run journal *)
(* ump.coordinator_store and the commands ump.coordinator_node and the CLI *)
(* give the operator.  Each robot session's replies are a queue of the     *)
(* durable inbox with one handler thread at a time; the user's thread runs *)
(* one command at a time.  Every read or transaction of the journal and    *)
(* every publication is one step, so threads interleave between reading    *)
(* which steps are ready, marking one dispatched and publishing it.        *)
(*                                                                         *)
(* The process may stop anywhere.  A new process is a new session of the   *)
(* coordinator, hence a new queue at the robots, and it either recovers    *)
(* interrupted runs or, for the cancel command, opens the journal as is.   *)
(*                                                                         *)
(* Robots are reduced to what Participant lets a coordinator observe: one  *)
(* fate per assignment, answers in the order they are published, and a     *)
(* restart after which work in progress is unknown.  An assignment is its  *)
(* step: identifiers, payload and fingerprint are fixed when the run is    *)
(* created.  Plans are valid (dependencies inside the plan, no cycle).     *)
(***************************************************************************)
EXTENDS Naturals, Sequences, FiniteSets

CONSTANTS
    Plans, NoPlan,      \* plan identifiers
    Supersedes,         \* Supersedes[p]: p's predecessor, NoPlan for a first plan
    Steps,              \* plan steps, each with its assignment
    PlanOf, Deps,       \* the plan of a step, and the steps it depends on
    Robots, NoRobot,    \* robot identities
    RobotOf,            \* the robot a step is assigned to
    NativeStatuses,     \* outcomes robots record in this instance
    Resolutions,        \* outcomes operators resolve interrupted work to
    OutboxMayFill,      \* may a publication fail because the outbox is full?
    MaxCommands,        \* bound: operator commands over a behaviour
    MaxStops,           \* bound: coordinator processes after the first
    MaxRobotStops       \* bound: restarts of each robot

KnownTerminal == {"succeeded", "failed", "rejected", "cancelled"}
InFlight      == {"dispatched", "accepted", "cancellation_requested"}

ASSUME CoordinatorAssumption ==
    /\ Supersedes \in [Plans -> Plans \cup {NoPlan}] /\ NoPlan \notin Plans
    /\ PlanOf \in [Steps -> Plans]
    /\ Deps \in [Steps -> SUBSET Steps]
    /\ \A s \in Steps : \A d \in Deps[s] : PlanOf[d] = PlanOf[s] /\ d # s
    /\ \A p \in Plans : \E s \in Steps : PlanOf[s] = p
    /\ RobotOf \in [Steps -> Robots] /\ NoRobot \notin Robots
    /\ NativeStatuses \subseteq KnownTerminal \cup {"unknown"}
    /\ Resolutions \subseteq KnownTerminal
    /\ OutboxMayFill \in BOOLEAN
    /\ MaxCommands \in Nat /\ MaxStops \in Nat /\ MaxRobotStops \in Nat

Links    == Robots \X (0..MaxStops)       \* coordinator sessions, per robot
Channels == Robots \X (0..MaxRobotStops)  \* robot sessions
User     == <<NoRobot, 0>>
Threads  == Channels \cup {User}

VARIABLES
    step,       \* journal: run_steps.status, "absent" without a row
    run,        \* journal: runs.status, "absent" without a row
    proc,       \* "down", "starting", "up", or "cancel" for the cancel command
    session,    \* the session of the current process
    pc,         \* where each thread is
    plans,      \* plans the thread has still to create or to dispatch
    todo,       \* steps the thread has still to dispatch, cancel or query
    requests,   \* published requests each robot has not handled
    replies,    \* durable inbox: the replies of each robot session
    robot,      \* each robot's truth about a step's assignment
    epoch,      \* the current session of each robot
    again,      \* assignments a robot handles again after its restart
    sent,       \* history: publications of each assignment
    commands    \* history: commands issued, for the bound

journalVars == <<step, run>>
threadVars  == <<pc, plans, todo>>
robotVars   == <<robot, epoch, again>>
vars == <<journalVars, proc, session, threadVars, requests, replies, robotVars,
          sent, commands>>

Requests == [kind : {"assignment", "assignment_query", "cancellation_request"},
             id : Steps]
Replies  == [kind : {"assignment_ack", "outcome", "cancellation_ack",
                     "assignment_snapshot"},
             id : Steps,
             status : KnownTerminal
                      \cup {"accepted", "unknown", "already_terminal", "none"}]

Request(k, s)      == [kind |-> k, id |-> s]
ReplyMsg(k, s, st) == [kind |-> k, id |-> s, status |-> st]

Init ==
    /\ step     = [s \in Steps |-> "absent"]
    /\ run      = [p \in Plans |-> "absent"]
    /\ proc     = "up"
    /\ session  = 0
    /\ pc       = [t \in Threads |-> "idle"]
    /\ plans    = [t \in Threads |-> {}]
    /\ todo     = [t \in Threads |-> {}]
    /\ requests = [k \in Links |-> <<>>]
    /\ replies  = [c \in Channels |-> <<>>]
    /\ robot    = [s \in Steps |-> "none"]
    /\ epoch    = [r \in Robots |-> 0]
    /\ again    = {}
    /\ sent     = [s \in Steps |-> 0]
    /\ commands = 0

-----------------------------------------------------------------------------
(* The journal.                                                            *)

(* _refresh_run_locked: a run's status from the statuses of its steps.     *)
RunStatus(st, p) ==
    LET statuses == {st[s] : s \in {q \in Steps : PlanOf[q] = p}} IN
    IF "unknown" \in statuses THEN "unknown"
    ELSE IF statuses \cap {"failed", "rejected"} # {} THEN "failed"
    ELSE IF statuses = {"succeeded"} THEN "succeeded"
    ELSE IF statuses \subseteq {"succeeded", "cancelled"} THEN "cancelled"
    ELSE "active"

(* A transaction that updates steps of plan p and refreshes the run.       *)
Write(st, p) ==
    /\ step' = st
    /\ run'  = [run EXCEPT ![p] = RunStatus(st, p)]

SetStep(s, status) == Write([step EXCEPT ![s] = status], PlanOf[s])

(* Mutant: dependencies only have to be under way.                         *)
ReadyStepsEarly(p) ==
    {s \in Steps : /\ PlanOf[s] = p
                   /\ run[p] = "active"
                   /\ step[s] = "pending"
                   /\ \A d \in Deps[s] : step[d] # "pending"}

(* ready_assignments.                                                      *)
ReadySteps(p) ==
    {s \in Steps : /\ PlanOf[s] = p
                   /\ run[p] = "active"
                   /\ step[s] = "pending"
                   /\ \A d \in Deps[s] : step[d] = "succeeded"}

(* _transition for an outcome: in-flight work takes it, terminal work only *)
(* the same one again; otherwise it raises.                                *)
TakesOutcome(s, status) == step[s] \in InFlight \cup {status}

(* Mutant: an acknowledgement counts whatever the step has become.         *)
TakesAckAlways(s) == step[s] # "pending"

(* _transition for an acknowledgement: terminal work is left alone, a step *)
(* waiting for its cancellation raises.                                    *)
TakesAck(s) == step[s] \in {"dispatched", "accepted"}

(* Mutant: recovery forgets the runs.                                      *)
RecoverStepsOnly ==
    /\ step' = [s \in Steps |-> IF step[s] \in InFlight THEN "unknown" ELSE step[s]]
    /\ UNCHANGED run

(* _recover_interrupted_runs.                                              *)
Recover ==
    /\ step' = [s \in Steps |-> IF step[s] \in InFlight THEN "unknown" ELSE step[s]]
    /\ run'  = [p \in Plans |->
                   IF \E s \in Steps : PlanOf[s] = p /\ step[s] \in InFlight
                   THEN "unknown" ELSE run[p]]

(* Mutant: work whose state is unknown is taken for cancelled.             *)
CancelledUnknown(p) ==
    [s \in Steps |->
        IF PlanOf[s] # p THEN step[s]
        ELSE IF step[s] \in {"pending", "unknown"} THEN "cancelled"
        ELSE IF step[s] \in {"dispatched", "accepted"}
        THEN "cancellation_requested"
        ELSE step[s]]

(* request_cancellation: what becomes of the plan's steps.                 *)
Cancelled(p) ==
    [s \in Steps |->
        IF PlanOf[s] # p THEN step[s]
        ELSE IF step[s] = "pending" THEN "cancelled"
        ELSE IF step[s] \in {"dispatched", "accepted", "unknown"}
        THEN "cancellation_requested"
        ELSE step[s]]

-----------------------------------------------------------------------------
(* Threads: handlers of replies, and the user's commands.                  *)

Running == proc \in {"up", "cancel"}

Reply(t) == Head(replies[t])

(* The thread's work is over: a handler's row leaves the inbox.            *)
Leave(t) ==
    /\ pc'    = [pc EXCEPT ![t] = "idle"]
    /\ plans' = [plans EXCEPT ![t] = {}]
    /\ todo'  = [todo EXCEPT ![t] = {}]
    /\ replies' = IF t = User THEN replies
                  ELSE [replies EXCEPT ![t] = Tail(@)]

Takes(t, k) ==
    /\ Running
    /\ t # User
    /\ pc[t] = "idle"
    /\ replies[t] # <<>>
    /\ Reply(t).kind = k

(* Mutant: a recorded outcome wakes nobody.                                *)
ThenDispatchNever(t, ps) == Leave(t)

(* Go on to _dispatch_ready for these plans.                               *)
ThenDispatch(t, ps) ==
    /\ pc'    = [pc EXCEPT ![t] = "ready"]
    /\ plans' = [plans EXCEPT ![t] = ps]
    /\ todo'  = [todo EXCEPT ![t] = {}]
    /\ UNCHANGED replies

(* _outcome reads the step's status and decides which way to record.       *)
ReadOutcome(t) ==
    /\ Takes(t, "outcome")
    /\ pc' = [pc EXCEPT ![t] = IF step[Reply(t).id] = "unknown"
                               THEN "reconcile" ELSE "record"]
    /\ UNCHANGED <<journalVars, proc, session, plans, todo, requests, replies,
                   robotVars, sent, commands>>

(* record_outcome, after which the plan's ready steps are dispatched.      *)
RecordOutcome(t) ==
    LET s == Reply(t).id IN
    /\ pc[t] = "record"
    /\ IF TakesOutcome(s, Reply(t).status)
       THEN SetStep(s, Reply(t).status) /\ ThenDispatch(t, {PlanOf[s]})
       ELSE Leave(t) /\ UNCHANGED journalVars
    /\ UNCHANGED <<proc, session, requests, robotVars, sent, commands>>

(* Mutant: whatever the answer says is taken for a terminal outcome.       *)
ReconcilesAny(t) ==
    LET s == Reply(t).id IN
    IF step[s] = "unknown"
    THEN SetStep(s, Reply(t).status) /\ ThenDispatch(t, {PlanOf[s]})
    ELSE Leave(t) /\ UNCHANGED journalVars

(* reconcile_outcome: only unknown steps, only known terminal outcomes.    *)
Reconciles(t) ==
    LET s == Reply(t).id IN
    IF Reply(t).status \in KnownTerminal /\ step[s] = "unknown"
    THEN SetStep(s, Reply(t).status) /\ ThenDispatch(t, {PlanOf[s]})
    ELSE Leave(t) /\ UNCHANGED journalVars

ReconcileOutcome(t) ==
    /\ pc[t] = "reconcile"
    /\ Reconciles(t)
    /\ UNCHANGED <<proc, session, requests, robotVars, sent, commands>>

(* _assignment_snapshot: without an outcome it is ignored.                 *)
TakeSnapshot(t) ==
    /\ Takes(t, "assignment_snapshot")
    /\ Reconciles(t)
    /\ UNCHANGED <<proc, session, requests, robotVars, sent, commands>>

(* _acknowledgement; replayed terminal statuses change nothing.            *)
TakeAcknowledgement(t) ==
    LET s == Reply(t).id IN
    /\ Takes(t, "assignment_ack")
    /\ IF TakesAck(s) /\ Reply(t).status \in {"accepted", "rejected", "unknown"}
       THEN SetStep(s, Reply(t).status)
       ELSE UNCHANGED journalVars
    /\ Leave(t)
    /\ UNCHANGED <<proc, session, requests, robotVars, sent, commands>>

(* _cancellation_acknowledgement: a refusal leaves the step unknown.       *)
TakeCancellationAck(t) ==
    LET s == Reply(t).id
        accepted == Reply(t).status \in {"accepted", "already_terminal"} IN
    /\ Takes(t, "cancellation_ack")
    /\ SetStep(s, IF step[s] = "cancellation_requested" /\ ~accepted
                  THEN "unknown" ELSE step[s])
    /\ Leave(t)
    /\ UNCHANGED <<proc, session, requests, robotVars, sent, commands>>

(* The first of several rows; their order is any fixed order.              *)
FirstOf(S) == CHOOSE x \in S : TRUE

(* _dispatch_ready, first the list of ready assignments of one plan ...    *)
ReadReady(t) ==
    /\ pc[t] = "ready"
    /\ IF plans[t] = {} THEN Leave(t)
       ELSE LET p == FirstOf(plans[t]) IN
            /\ plans' = [plans EXCEPT ![t] = @ \ {p}]
            /\ todo'  = [todo EXCEPT ![t] = ReadySteps(p)]
            /\ pc'    = [pc EXCEPT ![t] = "dispatch"]
            /\ UNCHANGED replies
    /\ UNCHANGED <<journalVars, proc, session, requests, robotVars, sent, commands>>

(* The next step of the list.                                              *)
Next1(t) == FirstOf(todo[t])

(* Mutant: mark_dispatched does not look at the row it updates.            *)
MayDispatchAlways(s) == TRUE

(* mark_dispatched updates a pending row only.                             *)
MayDispatch(s) == step[s] = "pending"

(* ... then mark_dispatched for each of them ...                           *)
MarkDispatched(t) ==
    /\ pc[t] = "dispatch"
    /\ IF todo[t] = {}
       THEN pc' = [pc EXCEPT ![t] = "ready"] /\ UNCHANGED <<step, todo>>
       ELSE IF MayDispatch(Next1(t))
       THEN /\ step' = [step EXCEPT ![Next1(t)] = "dispatched"]
            /\ pc'   = [pc EXCEPT ![t] = "publish"]
            /\ UNCHANGED todo
       ELSE /\ todo' = [todo EXCEPT ![t] = @ \ {Next1(t)}]
            /\ UNCHANGED <<step, pc>>
    /\ UNCHANGED <<run, proc, session, plans, requests, replies, robotVars, sent,
                   commands>>

Send(k, s) ==
    requests' = [requests EXCEPT ![<<RobotOf[s], session>>] = Append(@, Request(k, s))]

(* ... and its publication.                                                *)
PublishAssignment(t) ==
    LET s == Next1(t) IN
    /\ pc[t] = "publish"
    /\ Send("assignment", s)
    /\ sent' = [sent EXCEPT ![s] = @ + 1]
    /\ todo' = [todo EXCEPT ![t] = @ \ {s}]
    /\ pc'   = [pc EXCEPT ![t] = "dispatch"]
    /\ UNCHANGED <<journalVars, proc, session, plans, replies, robotVars, commands>>

(* The outbox is full: publish raises, and so does the handler or command. *)
(* A new run's goal and plan are announced before its first dispatch.      *)
PublishFails(t) ==
    /\ OutboxMayFill
    /\ \/ pc[t] \in {"publish", "cancelling", "querying"} /\ todo[t] # {}
       \/ pc[t] = "creating" /\ \A p \in plans[t] : run[p] # "absent"
    /\ Leave(t)
    /\ UNCHANGED <<journalVars, proc, session, requests, robotVars, sent, commands>>

-----------------------------------------------------------------------------
(* The user's commands.                                                    *)

Command ==
    /\ pc[User] = "idle"
    /\ commands < MaxCommands
    /\ commands' = commands + 1

Creates(ps) ==
    /\ pc'    = [pc EXCEPT ![User] = "creating"]
    /\ plans' = [plans EXCEPT ![User] = ps]
    /\ UNCHANGED <<journalVars, proc, session, todo, requests, replies, robotVars,
                   sent>>

(* submit and submit_many, once the proposals are validated.               *)
Submit(ps) ==
    /\ proc = "up"
    /\ Command
    /\ ps # {}
    /\ \A p \in ps : run[p] = "absent" /\ Supersedes[p] = NoPlan
    /\ Creates(ps)

(* replan looks at the predecessor, then prepares the new plan.            *)
Replan(p) ==
    /\ proc = "up"
    /\ Command
    /\ run[p] = "absent"
    /\ Supersedes[p] \in Plans
    /\ run[Supersedes[p]] \notin {"absent", "active"}
    /\ Creates({p})

(* create_run, plan after plan, then the dispatch of all of them.          *)
CreateRun ==
    LET new == {p \in plans[User] : run[p] = "absent"} IN
    /\ pc[User] = "creating"
    /\ IF new = {}
       THEN /\ pc' = [pc EXCEPT ![User] = "ready"]
            /\ UNCHANGED journalVars
       ELSE LET p == FirstOf(new) IN
            /\ step' = [s \in Steps |-> IF PlanOf[s] = p THEN "pending" ELSE step[s]]
            /\ run'  = [run EXCEPT ![p] = "active"]
            /\ UNCHANGED pc
    /\ UNCHANGED <<proc, session, plans, todo, requests, replies, robotVars, sent,
                   commands>>

(* cancel: the journal first, then a request for everything in flight.     *)
Cancel(p) ==
    /\ Running
    /\ Command
    /\ run[p] # "absent"
    /\ Write(Cancelled(p), p)
    /\ todo' = [todo EXCEPT ![User] =
                   {s \in Steps : /\ PlanOf[s] = p
                                  /\ step[s] \in {"dispatched", "accepted", "unknown"}}]
    /\ pc' = [pc EXCEPT ![User] = "cancelling"]
    /\ UNCHANGED <<proc, session, plans, requests, replies, robotVars, sent>>

PublishCancellation ==
    /\ pc[User] = "cancelling"
    /\ IF todo[User] = {}
       THEN Leave(User) /\ UNCHANGED requests
       ELSE /\ Send("cancellation_request", Next1(User))
            /\ todo' = [todo EXCEPT ![User] = @ \ {Next1(User)}]
            /\ UNCHANGED <<pc, plans, replies>>
    /\ UNCHANGED <<journalVars, proc, session, robotVars, sent, commands>>

(* reconcile: query what is unknown, then resume the active plans.         *)
Reconcile(p) ==
    /\ proc = "up"
    /\ Command
    /\ run[p] # "absent"
    /\ todo' = [todo EXCEPT ![User] =
                   {s \in Steps : PlanOf[s] = p /\ step[s] = "unknown"}]
    /\ pc' = [pc EXCEPT ![User] = "querying"]
    /\ UNCHANGED <<journalVars, proc, session, plans, requests, replies, robotVars,
                   sent>>

PublishQuery ==
    /\ pc[User] = "querying"
    /\ IF todo[User] = {}
       THEN /\ ThenDispatch(User, {p \in Plans : run[p] = "active"})
            /\ UNCHANGED requests
       ELSE /\ Send("assignment_query", Next1(User))
            /\ todo' = [todo EXCEPT ![User] = @ \ {Next1(User)}]
            /\ UNCHANGED <<pc, plans, replies>>
    /\ UNCHANGED <<journalVars, proc, session, robotVars, sent, commands>>

-----------------------------------------------------------------------------
(* The process.                                                            *)

Stop ==
    /\ proc # "down"
    /\ session < MaxStops
    /\ proc'  = "down"
    /\ pc'    = [t \in Threads |-> "idle"]
    /\ plans' = [t \in Threads |-> {}]
    /\ todo'  = [t \in Threads |-> {}]
    /\ UNCHANGED <<journalVars, session, requests, replies, robotVars, sent, commands>>

(* The bus comes first, and its inbox workers with it.                     *)
Start ==
    /\ proc = "down"
    /\ proc' = "starting"
    /\ session' = session + 1
    /\ UNCHANGED <<journalVars, threadVars, requests, replies, robotVars, sent,
                   commands>>

(* A reply handled before the coordinator subscribed is lost.              *)
ProcessUnsubscribed(t) ==
    /\ proc = "starting"
    /\ replies[t] # <<>>
    /\ replies' = [replies EXCEPT ![t] = Tail(@)]
    /\ UNCHANGED <<journalVars, proc, session, threadVars, requests, robotVars,
                   sent, commands>>

(* The store is opened and the coordinator subscribes; the cancel command  *)
(* opens it without recovery.                                              *)
OpenStore(mode) ==
    /\ proc = "starting"
    /\ proc' = mode
    /\ IF mode = "up" THEN Recover ELSE UNCHANGED journalVars
    /\ UNCHANGED <<session, threadVars, requests, replies, robotVars, sent, commands>>

-----------------------------------------------------------------------------
(* Robots, as Participant presents them.                                   *)

Answer(s, messages) ==
    replies' = [replies EXCEPT ![<<RobotOf[s], epoch[RobotOf[s]]>>] = @ \o messages]

Handles(k, kind) ==
    /\ requests[k] # <<>>
    /\ Head(requests[k]).kind = kind
    /\ requests' = [requests EXCEPT ![k] = Tail(@)]

Refused(s) == <<ReplyMsg("assignment_ack", s, "rejected"),
                ReplyMsg("outcome", s, "rejected")>>

HasOutcome(s) == robot[s] \in KnownTerminal \cup {"unknown"}

RobotAssignment(k) ==
    LET s == Head(requests[k]).id IN
    /\ Handles(k, "assignment")
    /\ \/ /\ robot' = [robot EXCEPT ![s] = "running"]
          /\ Answer(s, <<ReplyMsg("assignment_ack", s, "accepted")>>)
       \/ /\ robot' = [robot EXCEPT ![s] = "refused"]
          /\ Answer(s, Refused(s))
    /\ UNCHANGED <<journalVars, proc, session, threadVars, epoch, again, sent,
                   commands>>

RobotOutcome(s, o) ==
    /\ robot[s] = "running"
    /\ robot' = [robot EXCEPT ![s] = o]
    /\ Answer(s, <<ReplyMsg("outcome", s, o)>>)
    /\ UNCHANGED <<journalVars, proc, session, threadVars, requests, epoch, again,
                   sent, commands>>

RobotQuery(k) ==
    LET s == Head(requests[k]).id IN
    /\ Handles(k, "assignment_query")
    /\ IF robot[s] \in {"none", "refused"} THEN UNCHANGED replies
       ELSE Answer(s, <<ReplyMsg("assignment_snapshot", s,
                                 IF HasOutcome(s) THEN robot[s] ELSE "none")>>)
    /\ UNCHANGED <<journalVars, proc, session, threadVars, robotVars, sent, commands>>

RobotCancellation(k) ==
    LET s == Head(requests[k]).id
        Ack(st) == ReplyMsg("cancellation_ack", s, st) IN
    /\ Handles(k, "cancellation_request")
    /\ \/ /\ robot[s] \in {"none", "refused"}
          /\ UNCHANGED <<robot, replies>>
       \/ /\ HasOutcome(s)
          /\ Answer(s, <<Ack("already_terminal"), ReplyMsg("outcome", s, robot[s])>>)
          /\ UNCHANGED robot
       \/ /\ robot[s] = "interrupted"
          /\ Answer(s, <<Ack("unknown")>>)
          /\ UNCHANGED robot
       \/ /\ robot[s] = "running"
          /\ Answer(s, <<Ack("rejected")>>)
          /\ UNCHANGED robot
       \/ /\ robot[s] = "running"
          /\ Answer(s, <<Ack("accepted"), ReplyMsg("outcome", s, "cancelled")>>)
          /\ robot' = [robot EXCEPT ![s] = "cancelled"]
    /\ UNCHANGED <<journalVars, proc, session, threadVars, epoch, again, sent,
                   commands>>

(* Running work is unknown to the next process, unless its outcome was     *)
(* recorded and only its publication is missing; a request whose handler   *)
(* was interrupted comes again.                                            *)
RobotRestart(r, interrupted, handled) ==
    LET working == {s \in Steps : RobotOf[s] = r /\ robot[s] = "running"} IN
    /\ epoch[r] < MaxRobotStops
    /\ epoch' = [epoch EXCEPT ![r] = @ + 1]
    /\ robot' \in {[s \in Steps |-> IF s \notin working THEN robot[s]
                                   ELSE IF s \in interrupted THEN "interrupted" ELSE o] :
                     o \in NativeStatuses}
    /\ handled \subseteq working
    /\ interrupted \subseteq working
    /\ again' = again \cup handled
    /\ UNCHANGED <<journalVars, proc, session, threadVars, requests, replies, sent,
                   commands>>

(* The interrupted request is handled again.                               *)
RobotAgain(s) ==
    /\ s \in again
    /\ again' = again \ {s}
    /\ LET st == IF HasOutcome(s) THEN robot[s] ELSE "unknown" IN
       \/ Answer(s, <<ReplyMsg("assignment_ack", s, st), ReplyMsg("outcome", s, st)>>)
       \/ Answer(s, Refused(s))
    /\ UNCHANGED <<journalVars, proc, session, threadVars, requests, robot, epoch,
                   sent, commands>>

(* An operator resolves the robot's interrupted work from evidence.        *)
RobotResolve(s, o) ==
    /\ robot[s] = "interrupted"
    /\ robot' = [robot EXCEPT ![s] = o]
    /\ UNCHANGED <<journalVars, proc, session, threadVars, requests, replies, epoch,
                   again, sent, commands>>

-----------------------------------------------------------------------------
Dispatch(t) ==
    ReadReady(t) \/ MarkDispatched(t) \/ PublishAssignment(t) \/ PublishFails(t)

Handler(t) ==
    \/ ReadOutcome(t) \/ RecordOutcome(t) \/ ReconcileOutcome(t) \/ TakeSnapshot(t)
    \/ TakeAcknowledgement(t) \/ TakeCancellationAck(t)

Continue == CreateRun \/ PublishCancellation \/ PublishQuery

Commands ==
    \/ \E ps \in SUBSET Plans : Submit(ps)
    \/ \E p \in Plans : Replan(p) \/ Cancel(p) \/ Reconcile(p)

Robot ==
    \/ \E k \in Links : RobotAssignment(k) \/ RobotQuery(k) \/ RobotCancellation(k)
    \/ \E s \in Steps, o \in NativeStatuses : RobotOutcome(s, o)
    \/ \E s \in Steps : RobotAgain(s)
    \/ \E r \in Robots, i, h \in SUBSET Steps : RobotRestart(r, i, h)
    \/ \E s \in Steps, o \in Resolutions : RobotResolve(s, o)

Next ==
    \/ \E t \in Threads : Dispatch(t)
    \/ \E t \in Channels : Handler(t) \/ ProcessUnsubscribed(t)
    \/ Continue \/ Commands \/ Stop \/ Start \/ Robot
    \/ \E mode \in {"up", "cancel"} : OpenStore(mode)

Spec == Init /\ [][Next]_vars

(* Threads are scheduled and robots answer; no command is ever assumed.    *)
Fairness ==
    /\ \A t \in Threads : WF_vars(Dispatch(t))
    /\ \A t \in Channels : WF_vars(Handler(t))
    /\ WF_vars(Continue)
    /\ \A k \in Links :
           WF_vars(RobotAssignment(k) \/ RobotQuery(k) \/ RobotCancellation(k))
    /\ \A s \in Steps : WF_vars(\E o \in NativeStatuses : RobotOutcome(s, o))
    /\ \A s \in Steps : WF_vars(RobotAgain(s))

FairSpec == Spec /\ Fairness

-----------------------------------------------------------------------------
(* What must hold.                                                         *)

StepStatus == KnownTerminal \cup InFlight \cup {"absent", "pending", "unknown"}

TypeOK ==
    /\ step     \in [Steps -> StepStatus]
    /\ run      \in [Plans -> {"absent", "active", "succeeded", "failed",
                               "cancelled", "unknown"}]
    /\ proc     \in {"down", "starting", "up", "cancel"}
    /\ session  \in 0..MaxStops
    /\ pc       \in [Threads -> {"idle", "record", "reconcile", "ready", "dispatch",
                                 "publish", "creating", "cancelling", "querying"}]
    /\ plans    \in [Threads -> SUBSET Plans]
    /\ todo     \in [Threads -> SUBSET Steps]
    /\ requests \in [Links -> Seq(Requests)]
    /\ replies  \in [Channels -> Seq(Replies)]
    /\ robot    \in [Steps -> {"none", "refused", "running", "interrupted", "unknown"}
                              \cup KnownTerminal]
    /\ epoch    \in [Robots -> 0..MaxRobotStops]
    /\ again    \in SUBSET Steps
    /\ sent     \in [Steps -> Nat]
    /\ commands \in Nat

(* A robot gets to work on a step only when the robots of all the steps it *)
(* depends on really recorded success: whatever the coordinator crashed    *)
(* through, recovered, cancelled or reconciled in between.                 *)
DependenciesDone ==
    \A s \in Steps : robot[s] # "none" =>
        \A d \in Deps[s] : robot[d] = "succeeded"

(* An assignment is published at most once, although several handlers and  *)
(* commands may find the same step ready and a restart resumes plans.      *)
PublishedOnce == \A s \in Steps : sent[s] <= 1

(* What the journal says of a finished step is what its robot recorded;    *)
(* cancelled without the robot's word is only what was never published.    *)
SettledAgrees ==
    \A s \in Steps :
        /\ step[s] \in {"succeeded", "failed"} => robot[s] = step[s]
        /\ step[s] = "cancelled" =>
               robot[s] = IF sent[s] = 0 THEN "none" ELSE "cancelled"

(* The run's stored status is the one its steps give, after every          *)
(* transaction of every thread and after recovery.                         *)
RunMatchesSteps ==
    \A p \in Plans : run[p] # "absent" => run[p] = RunStatus(step, p)

(* A known terminal step status is never replaced (late acknowledgements,  *)
(* repeated or contradicting outcomes, cancellation, recovery).            *)
ResultsFinal ==
    [][\A s \in Steps : step[s] \in KnownTerminal => step'[s] = step[s]]_vars

(* While process and robots stay up, an active run ends: every ready step  *)
(* is dispatched by some thread and every outcome reaches the journal.     *)
RunEnds == \A p \in Plans : run[p] = "active" ~> run[p] # "active"

-----------------------------------------------------------------------------
(* What a document says, and the code does not do.                         *)

(* docs/PROTOCOL.md: pending steps "are not dispatched after a run has     *)
(* entered a terminal failed or unknown state".  mark_dispatched does not  *)
(* look at the run that ready_assignments looked at.                       *)
NoDispatchAfterFailure ==
    [][\A s \in Steps : step[s] = "pending" /\ step'[s] = "dispatched" =>
           run[PlanOf[s]] \notin {"failed", "unknown"}]_vars
=============================================================================
