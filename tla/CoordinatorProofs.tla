------------------------- MODULE CoordinatorProofs -------------------------
(***************************************************************************)
(* Theorems about Coordinator for every set of valid plans, steps and      *)
(* robots, any number of commands and restarts, and whatever robots record *)
(* and operators resolve.                                                  *)
(***************************************************************************)
EXTENDS Coordinator, TLAPS

(* Steps that have a row and have left "pending".                          *)
Begun(s) == step[s] \notin {"absent", "pending"}

(* The step a thread has marked and not yet published.                     *)
Publishing(t, s) == pc[t] = "publish" /\ todo[t] # {} /\ s = Next1(t)

(* Threads.  A process that is down or starting has none at work; a busy   *)
(* handler has its reply at the head of its queue, an outcome if it is     *)
(* about to record one; a thread that publishes has a step to publish.  A  *)
(* process that stopped may start again (MaxStops bounds the stops).       *)
ThreadsInv ==
    /\ proc = "down" => session < MaxStops
    /\ proc \in {"down", "starting"} => \A t \in Threads : pc[t] = "idle"
    /\ \A t \in Channels : pc[t] # "idle" => replies[t] # <<>>
    /\ \A t \in Channels : pc[t] \in {"record", "reconcile"} => Reply(t).kind = "outcome"
    /\ \A t \in Threads : pc[t] = "publish" => todo[t] # {}

(* The lists threads work through.  What is to be dispatched has all its   *)
(* dependencies done; what is to be cancelled or queried has begun.        *)
TodoInv ==
    /\ \A t \in Threads : pc[t] \in {"dispatch", "publish"} =>
          \A s \in todo[t] : \A d \in Deps[s] : step[d] = "succeeded"
    /\ pc[User] \in {"cancelling", "querying"} => \A s \in todo[User] : Begun(s)

(* A plan has a run exactly when its steps have rows.                      *)
RowsInv == \A s \in Steps : step[s] = "absent" <=> run[PlanOf[s]] = "absent"

(* Publication.  A published step has begun, its dependencies are done and *)
(* it was published once; a robot knows of published steps only.           *)
SentInv ==
    /\ \A s \in Steps : sent[s] # 0 =>
          sent[s] = 1 /\ Begun(s) /\ \A d \in Deps[s] : step[d] = "succeeded"
    /\ \A s \in Steps : robot[s] # "none" => sent[s] # 0

(* A step about to be published has not been, it has begun and is not      *)
(* cancelled, and one thread only is about to publish it.                  *)
PublishInv ==
    /\ \A t \in Threads, s \in Steps : Publishing(t, s) =>
          sent[s] = 0 /\ Begun(s) /\ step[s] # "cancelled"
    /\ \A t, u \in Threads, s \in Steps : Publishing(t, s) /\ Publishing(u, s) => t = u

(* Requests are about steps that have begun; an assignment that waits was  *)
(* published, waits nowhere else and is new to its robot.                  *)
Waits(k, i, s) ==
    /\ i \in DOMAIN requests[k]
    /\ requests[k][i] = Request("assignment", s)
RequestsInv ==
    /\ \A k \in Links : \A i \in DOMAIN requests[k] : Begun(requests[k][i].id)
    /\ \A k \in Links, s \in Steps : \A i \in DOMAIN requests[k] :
          Waits(k, i, s) => sent[s] # 0 /\ robot[s] = "none"
    /\ \A k, l \in Links, s \in Steps :
          \A i \in DOMAIN requests[k], j \in DOMAIN requests[l] :
             Waits(k, i, s) /\ Waits(l, j, s) => k = l /\ i = j

(* What a robot has answered stays true of it.                             *)
TrueOf(truth, m) ==
    /\ truth[m.id] # "none"
    /\ m.kind = "outcome" => m.status \in KnownTerminal \cup {"unknown"}
    /\ m.kind \in {"outcome", "assignment_snapshot"}
         /\ m.status \in {"succeeded", "failed", "cancelled"} => truth[m.id] = m.status
Truthful(m) == TrueOf(robot, m)
RepliesInv ==
    /\ \A c \in Channels : \A i \in DOMAIN replies[c] : Truthful(replies[c][i])
    /\ \A s \in again : robot[s] # "none"

IInv ==
    /\ TypeOK /\ ThreadsInv /\ TodoInv /\ RowsInv /\ SentInv /\ PublishInv
    /\ RequestsInv /\ RepliesInv /\ SettledAgrees /\ RunMatchesSteps
-----------------------------------------------------------------------------
(* Operators the model is built from.                                      *)

(* The first of several rows is one of them.                               *)
LEMMA FirstIn ==
    ASSUME NEW S, S # {}
    PROVE  FirstOf(S) \in S
BY DEF FirstOf

(* The user is not a handler.                                              *)
LEMMA UserApart == User \in Threads /\ User \notin Channels /\ Channels \subseteq Threads
BY CoordinatorAssumption DEF User, Threads, Channels

RunStatuses == {"active", "succeeded", "failed", "cancelled", "unknown"}

(* A run's status is never "absent", and depends on the plan's steps only. *)
LEMMA RunStatusLocal ==
    ASSUME NEW f, NEW g, NEW p,
           \A s \in Steps : PlanOf[s] = p => f[s] = g[s]
    PROVE  RunStatus(f, p) = RunStatus(g, p)
<1>1. {f[s] : s \in {q \in Steps : PlanOf[q] = p}}
        = {g[s] : s \in {q \in Steps : PlanOf[q] = p}}
  OBVIOUS
<1>2. QED BY <1>1 DEF RunStatus

(* A run that exists has one of five statuses.                             *)
LEMMA RunStatusType ==
    ASSUME NEW f, NEW p
    PROVE  RunStatus(f, p) \in RunStatuses
BY DEF RunStatus, RunStatuses

-----------------------------------------------------------------------------
(* The journal.  Whatever a transaction does, rows do not disappear, a     *)
(* step that has begun stays so, a known terminal status stays as it is,   *)
(* and the runs match their steps.                                         *)

Advances ==
    /\ step' \in [Steps -> StepStatus]
    /\ run' \in [Plans -> RunStatuses \cup {"absent"}]
    /\ \A s \in Steps : Begun(s) => Begun(s)'
    /\ \A s \in Steps : step[s] \in KnownTerminal => step'[s] = step[s]
    /\ RowsInv' /\ RunMatchesSteps'

JournalInv == TypeOK /\ RowsInv /\ RunMatchesSteps

(* A transaction that writes begun steps of one plan.                      *)
LEMMA WriteAdvances ==
    ASSUME JournalInv, NEW p \in Plans, run[p] # "absent",
           NEW st \in [Steps -> StepStatus], Write(st, p),
           \A s \in Steps : PlanOf[s] # p => st[s] = step[s],
           \A s \in Steps : PlanOf[s] = p => st[s] # "absent",
           \A s \in Steps : Begun(s) => st[s] \notin {"absent", "pending"},
           \A s \in Steps : step[s] \in KnownTerminal => st[s] = step[s]
    PROVE  Advances
<1>1. step' = st /\ run' = [run EXCEPT ![p] = RunStatus(st, p)]
  BY DEF Write
<1>2. RunStatus(st, p) \in RunStatuses
  BY RunStatusType
<1>3. run' \in [Plans -> RunStatuses \cup {"absent"}]
  BY <1>1, <1>2 DEF JournalInv, TypeOK, RunStatuses
<1>4. RowsInv'
  BY <1>1, <1>2, CoordinatorAssumption DEF JournalInv, TypeOK, RowsInv, RunStatuses
<1>5. RunMatchesSteps'
  <2> SUFFICES ASSUME NEW q \in Plans, run'[q] # "absent"
               PROVE  run'[q] = RunStatus(step', q)
    BY DEF RunMatchesSteps
  <2>1. CASE q = p
    BY <1>1, <2>1 DEF JournalInv, TypeOK
  <2>2. CASE q # p
    <3>1. RunStatus(step', q) = RunStatus(step, q)
      BY <1>1, <2>2, RunStatusLocal
    <3>2. QED BY <1>1, <2>2, <3>1 DEF JournalInv, TypeOK, RunMatchesSteps
  <2>3. QED BY <2>1, <2>2
<1>6. QED BY <1>1, <1>3, <1>4, <1>5 DEF Advances, Begun

(* The transaction of one step's transition.                               *)
LEMMA SetStepAdvances ==
    ASSUME JournalInv, NEW s \in Steps, Begun(s),
           NEW v \in StepStatus \ {"absent", "pending"},
           step[s] \in KnownTerminal => v = step[s], SetStep(s, v)
    PROVE  Advances /\ step' = [step EXCEPT ![s] = v]
<1> DEFINE st == [step EXCEPT ![s] = v]
           p  == PlanOf[s]
<1>1. p \in Plans /\ run[p] # "absent"
  BY CoordinatorAssumption DEF JournalInv, RowsInv, Begun
<1>2. Write(st, p) /\ st \in [Steps -> StepStatus]
  BY DEF SetStep, JournalInv, TypeOK
<1>3. \A q \in Steps : PlanOf[q] = p => step[q] # "absent"
  BY <1>1 DEF JournalInv, RowsInv
<1>4. /\ \A q \in Steps : PlanOf[q] # p => st[q] = step[q]
      /\ \A q \in Steps : PlanOf[q] = p => st[q] # "absent"
      /\ \A q \in Steps : Begun(q) => st[q] \notin {"absent", "pending"}
      /\ \A q \in Steps : step[q] \in KnownTerminal => st[q] = step[q]
  BY <1>3 DEF JournalInv, TypeOK, Begun
<1>5. step' = st
  BY <1>2 DEF Write
<1> HIDE DEF st, p
<1>6. Advances
  BY <1>1, <1>2, <1>4, WriteAdvances
<1>7. QED BY <1>5, <1>6 DEF st

(* request_cancellation.                                                   *)
LEMMA CancelAdvances ==
    ASSUME JournalInv, NEW p \in Plans, run[p] # "absent", Write(Cancelled(p), p)
    PROVE  Advances /\ step' = Cancelled(p)
<1>1. Cancelled(p) \in [Steps -> StepStatus]
  BY DEF Cancelled, JournalInv, TypeOK, StepStatus, KnownTerminal, InFlight
<1>2. \A q \in Steps : PlanOf[q] = p => step[q] # "absent"
  BY DEF JournalInv, RowsInv
<1>3. /\ \A q \in Steps : PlanOf[q] # p => Cancelled(p)[q] = step[q]
      /\ \A q \in Steps : PlanOf[q] = p => Cancelled(p)[q] # "absent"
      /\ \A q \in Steps : Begun(q) => Cancelled(p)[q] \notin {"absent", "pending"}
      /\ \A q \in Steps : step[q] \in KnownTerminal => Cancelled(p)[q] = step[q]
  BY <1>2 DEF JournalInv, TypeOK, Begun, Cancelled, KnownTerminal
<1>4. QED BY <1>1, <1>3, WriteAdvances DEF Write

(* _recover_interrupted_runs.                                              *)
LEMMA RecoverAdvances ==
    ASSUME JournalInv, Recover
    PROVE  Advances
<1>1. step' \in [Steps -> StepStatus]
  BY DEF Recover, JournalInv, TypeOK, StepStatus
<1>2. run' \in [Plans -> RunStatuses \cup {"absent"}]
  BY DEF Recover, JournalInv, TypeOK, RunStatuses
<1>3. /\ \A s \in Steps : Begun(s) => Begun(s)'
      /\ \A s \in Steps : step[s] \in KnownTerminal => step'[s] = step[s]
  BY DEF Recover, Begun, KnownTerminal, InFlight
<1>4. RowsInv'
  BY CoordinatorAssumption DEF Recover, JournalInv, TypeOK, RowsInv, InFlight
<1>5. RunMatchesSteps'
  <2> SUFFICES ASSUME NEW p \in Plans, run'[p] # "absent"
               PROVE  run'[p] = RunStatus(step', p)
    BY DEF RunMatchesSteps
  <2>1. CASE \E s \in Steps : PlanOf[s] = p /\ step[s] \in InFlight
    <3>1. PICK s \in Steps : PlanOf[s] = p /\ step[s] \in InFlight
      BY <2>1
    <3>2. step'[s] = "unknown" /\ run'[p] = "unknown"
      BY <3>1 DEF Recover
    <3>3. "unknown" \in {step'[x] : x \in {q \in Steps : PlanOf[q] = p}}
      BY <3>1, <3>2
    <3>4. QED BY <3>2, <3>3 DEF RunStatus
  <2>2. CASE ~\E s \in Steps : PlanOf[s] = p /\ step[s] \in InFlight
    <3>1. RunStatus(step', p) = RunStatus(step, p)
      BY <2>2, RunStatusLocal DEF Recover
    <3>2. run'[p] = run[p]
      BY <2>2 DEF Recover
    <3>3. QED BY <3>1, <3>2 DEF JournalInv, RunMatchesSteps
  <2>3. QED BY <2>1, <2>2
<1>6. QED BY <1>1, <1>2, <1>3, <1>4, <1>5 DEF Advances

(* mark_dispatched does not refresh the run, and need not.                 *)
LEMMA MarkAdvances ==
    ASSUME JournalInv, NEW s \in Steps, step[s] = "pending",
           step' = [step EXCEPT ![s] = "dispatched"], run' = run
    PROVE  Advances
<1>1. step' \in [Steps -> StepStatus] /\ run' \in [Plans -> RunStatuses \cup {"absent"}]
  BY DEF JournalInv, TypeOK, StepStatus, InFlight, RunStatuses
<1>2. /\ \A q \in Steps : Begun(q) => Begun(q)'
      /\ \A q \in Steps : step[q] \in KnownTerminal => step'[q] = step[q]
  BY DEF JournalInv, TypeOK, Begun, KnownTerminal
<1>3. RowsInv'
  BY DEF JournalInv, TypeOK, RowsInv
<1>4. RunMatchesSteps'
  <2> SUFFICES ASSUME NEW p \in Plans, run[p] # "absent"
               PROVE  run[p] = RunStatus(step', p)
    BY DEF RunMatchesSteps
  <2>1. CASE PlanOf[s] # p
    <3>1. \A q \in Steps : PlanOf[q] = p => step'[q] = step[q]
      BY <2>1 DEF JournalInv, TypeOK
    <3>2. \A f : (\A q \in Steps : PlanOf[q] = p => f[q] = step[q])
                    => RunStatus(f, p) = RunStatus(step, p)
      BY RunStatusLocal
    <3>3. QED BY <3>1, <3>2 DEF JournalInv, RunMatchesSteps
  <2>2. CASE PlanOf[s] = p
    <3> DEFINE old == {step[x] : x \in {q \in Steps : PlanOf[q] = p}}
               new == {step'[x] : x \in {q \in Steps : PlanOf[q] = p}}
    <3>1. "pending" \in old /\ "dispatched" \in new
      BY <2>2 DEF JournalInv, TypeOK
    <3>2. \A v : v \notin {"pending", "dispatched"} => (v \in old <=> v \in new)
      BY DEF JournalInv, TypeOK
    <3>3. /\ "unknown" \in old <=> "unknown" \in new
          /\ old \cap {"failed", "rejected"} = new \cap {"failed", "rejected"}
          /\ old # {"succeeded"} /\ new # {"succeeded"}
          /\ ~(old \subseteq {"succeeded", "cancelled"})
          /\ ~(new \subseteq {"succeeded", "cancelled"})
      BY <3>1, <3>2
    <3> HIDE DEF old, new
    <3>4. RunStatus(step', p) = RunStatus(step, p)
      BY <3>3 DEF RunStatus, old, new
    <3>5. QED BY <3>4 DEF JournalInv, RunMatchesSteps
  <2>3. QED BY <2>1, <2>2
<1>5. QED BY <1>1, <1>2, <1>3, <1>4 DEF Advances

(* create_run.                                                             *)
LEMMA CreateAdvances ==
    ASSUME JournalInv, NEW p \in Plans, run[p] = "absent",
           step' = [s \in Steps |-> IF PlanOf[s] = p THEN "pending" ELSE step[s]],
           run' = [run EXCEPT ![p] = "active"]
    PROVE  Advances
<1>1. step' \in [Steps -> StepStatus] /\ run' \in [Plans -> RunStatuses \cup {"absent"}]
  BY DEF JournalInv, TypeOK, StepStatus, RunStatuses
<1>2. /\ \A q \in Steps : Begun(q) => Begun(q)'
      /\ \A q \in Steps : step[q] \in KnownTerminal => step'[q] = step[q]
  BY DEF JournalInv, RowsInv, Begun, KnownTerminal
<1>3. RowsInv'
  BY CoordinatorAssumption DEF JournalInv, TypeOK, RowsInv
<1>4. RunMatchesSteps'
  <2> SUFFICES ASSUME NEW q \in Plans, run'[q] # "absent"
               PROVE  run'[q] = RunStatus(step', q)
    BY DEF RunMatchesSteps
  <2>1. CASE q # p
    <3>0. \A s \in Steps : PlanOf[s] = q => step'[s] = step[s]
      BY <2>1
    <3>1. RunStatus(step', q) = RunStatus(step, q)
      BY <3>0, RunStatusLocal
    <3>2. QED BY <2>1, <3>1 DEF JournalInv, RunMatchesSteps, TypeOK
  <2>2. CASE q = p
    <3>1. PICK s \in Steps : PlanOf[s] = p
      BY CoordinatorAssumption
    <3>2. {step'[x] : x \in {r \in Steps : PlanOf[r] = p}} = {"pending"}
      BY <3>1
    <3>3. QED BY <2>2, <3>2 DEF RunStatus, JournalInv, TypeOK
  <2>3. QED BY <2>1, <2>2
<1>5. QED BY <1>1, <1>2, <1>3, <1>4 DEF Advances

-----------------------------------------------------------------------------
(* What a transaction of the coordinator keeps of the rest.  A step takes  *)
(* a settled status only from its robot, or is cancelled while pending.    *)

Supported ==
    \A s \in Steps : step'[s] # step[s] =>
        /\ step'[s] \in {"succeeded", "failed"} => robot[s] = step'[s]
        /\ step'[s] = "cancelled" => step[s] = "pending" \/ robot[s] = "cancelled"

(* Replies leave a queue at its head only.                                 *)
RepliesShrink ==
    /\ replies' \in [Channels -> Seq(Replies)]
    /\ \A c \in Channels :
          \/ replies'[c] = replies[c]
          \/ replies[c] # <<>> /\ replies'[c] = Tail(replies[c])

JournalStep ==
    Advances /\ Supported /\ RepliesShrink /\ UNCHANGED <<requests, robotVars, sent>>

(* What is in a shorter queue was in the longer one.                       *)
LEMMA ShrinkElements ==
    ASSUME TypeOK, RepliesShrink, NEW c \in Channels, NEW i \in DOMAIN replies'[c]
    PROVE  \E j \in DOMAIN replies[c] : replies'[c][i] = replies[c][j]
<1>1. replies[c] \in Seq(Replies) /\ replies'[c] \in Seq(Replies)
  BY DEF TypeOK, RepliesShrink
<1>2. CASE replies'[c] = replies[c]
  BY <1>2
<1>3. CASE replies[c] # <<>> /\ replies'[c] = Tail(replies[c])
  <2>1. i + 1 \in DOMAIN replies[c] /\ replies'[c][i] = replies[c][i + 1]
    BY <1>1, <1>3
  <2>2. QED BY <2>1
<1>4. QED BY <1>2, <1>3 DEF RepliesShrink

(* A step of the journal keeps what the invariant says of rows,            *)
(* publications, requests, replies and results.                            *)
LEMMA JournalStepKeeps ==
    ASSUME IInv, JournalStep
    PROVE  /\ RowsInv' /\ RunMatchesSteps' /\ SentInv' /\ RequestsInv' /\ RepliesInv'
           /\ SettledAgrees'
<1>1. RowsInv' /\ RunMatchesSteps'
  BY DEF JournalStep, Advances
<1>2. Advances /\ UNCHANGED <<requests, robot, again, sent>>
  BY DEF JournalStep, robotVars
<1>3. SentInv'
  <2>1. \A s \in Steps : \A d \in Deps[s] : d \in Steps
    BY CoordinatorAssumption
  <2>2. QED
    BY <1>2, <2>1 DEF IInv, SentInv, Advances, KnownTerminal
<1>4. RequestsInv'
  <2>1. \A k \in Links : \A i \in DOMAIN requests[k] : requests[k][i].id \in Steps
    <3>1. \A k \in Links : requests[k] \in Seq(Requests)
      BY DEF IInv, TypeOK
    <3>2. \A k \in Links : \A i \in DOMAIN requests[k] : requests[k][i] \in Requests
      BY <3>1
    <3>3. QED BY <3>2 DEF Requests
  <2>2. QED
    BY <1>2, <2>1 DEF IInv, RequestsInv, Advances, Waits
<1>5. RepliesInv'
  <2>1. ASSUME NEW c \in Channels, NEW i \in DOMAIN replies'[c]
        PROVE  Truthful(replies[c][i])'
    <3>1. PICK j \in DOMAIN replies[c] : replies'[c][i] = replies[c][j]
      BY ShrinkElements DEF IInv, JournalStep
    <3>2. Truthful(replies[c][j])
      BY DEF IInv, RepliesInv
    <3>3. QED BY <1>2, <3>1, <3>2 DEF Truthful, TrueOf
  <2>2. QED BY <1>2, <2>1 DEF IInv, RepliesInv
<1>6. SettledAgrees'
  <2> SUFFICES ASSUME NEW s \in Steps
               PROVE  /\ step'[s] \in {"succeeded", "failed"} => robot[s] = step'[s]
                      /\ step'[s] = "cancelled" =>
                            robot[s] = IF sent[s] = 0 THEN "none" ELSE "cancelled"
    BY <1>2 DEF SettledAgrees
  <2>1. CASE step'[s] = step[s]
    BY <2>1 DEF IInv, SettledAgrees
  <2>2. CASE step'[s] # step[s]
    <3>1. step[s] = "pending" => sent[s] = 0 /\ robot[s] = "none"
      BY DEF IInv, SentInv, Begun
    <3>2. robot[s] = "cancelled" => sent[s] # 0
      BY DEF IInv, SentInv
    <3>3. QED BY <2>2, <3>1, <3>2 DEF JournalStep, Supported
  <2>3. QED BY <2>1, <2>2
<1>7. QED BY <1>1, <1>3, <1>4, <1>5, <1>6

(* Threads that go on publishing still may.                                *)
LEMMA PublishKeeps ==
    ASSUME IInv, Advances, Supported, sent' = sent,
           \A t \in Threads, s \in Steps : Publishing(t, s)' => Publishing(t, s)
    PROVE  PublishInv'
<1>1. ASSUME NEW t \in Threads, NEW s \in Steps, Publishing(t, s)'
      PROVE  sent'[s] = 0 /\ Begun(s)' /\ step'[s] # "cancelled"
  <2>1. sent[s] = 0 /\ Begun(s) /\ step[s] # "cancelled"
    BY <1>1 DEF IInv, PublishInv
  <2>2. robot[s] # "cancelled"
    BY <2>1 DEF IInv, SentInv
  <2>3. QED BY <2>1, <2>2 DEF Advances, Supported, Begun
<1>2. \A t, u \in Threads, s \in Steps : Publishing(t, s)' /\ Publishing(u, s)' => t = u
  BY DEF IInv, PublishInv
<1>3. QED BY <1>1, <1>2 DEF PublishInv

(* Lists that only get shorter keep what is known of them.                 *)
LEMMA TodoKeeps ==
    ASSUME IInv, Advances,
           \A t \in Threads : pc'[t] \in {"dispatch", "publish"} =>
              pc[t] \in {"dispatch", "publish"} /\ todo'[t] \subseteq todo[t],
           pc'[User] \in {"cancelling", "querying"} =>
              pc[User] \in {"cancelling", "querying"} /\ todo'[User] \subseteq todo[User]
    PROVE  TodoInv'
<1>1. todo \in [Threads -> SUBSET Steps] /\ User \in Threads
  BY UserApart DEF IInv, TypeOK
<1>2. \A s \in Steps : \A d \in Deps[s] : d \in Steps
  BY CoordinatorAssumption
<1>3. QED BY <1>1, <1>2 DEF IInv, TodoInv, Advances, KnownTerminal

(* A step that leaves the journal alone advances it trivially.             *)
LEMMA SameJournal ==
    ASSUME IInv, UNCHANGED journalVars
    PROVE  Advances /\ Supported
BY DEF IInv, TypeOK, journalVars, Advances, Supported, RunStatuses, Begun, RowsInv,
       RunMatchesSteps

(* The journal's part of the invariant.                                    *)
LEMMA JournalPart == IInv => JournalInv
BY DEF IInv, JournalInv

(* A thread that is done.                                                  *)
LEMMA LeaveKeeps ==
    ASSUME IInv, NEW t \in Threads, t # User => replies[t] # <<>>, Leave(t),
           Advances, Supported, UNCHANGED <<proc, session, requests, robotVars, sent>>,
           commands' = commands
    PROVE  IInv'
<1>1. /\ pc' = [pc EXCEPT ![t] = "idle"]
      /\ plans' = [plans EXCEPT ![t] = {}]
      /\ todo' = [todo EXCEPT ![t] = {}]
      /\ replies' = IF t = User THEN replies ELSE [replies EXCEPT ![t] = Tail(@)]
  BY DEF Leave
<1>2. t # User => t \in Channels
  BY DEF Threads
<1>3. RepliesShrink
  BY <1>1, <1>2 DEF IInv, TypeOK, RepliesShrink
<1>4. TypeOK'
  BY <1>1, <1>3 DEF IInv, TypeOK, Advances, RepliesShrink, RunStatuses, robotVars
<1>5. ThreadsInv'
  <2>1. \A c \in Channels : c # t => pc'[c] = pc[c] /\ replies'[c] = replies[c]
    BY <1>1, <1>2, UserApart DEF IInv, TypeOK
  <2>2. QED BY <1>1, <2>1, UserApart DEF IInv, TypeOK, ThreadsInv, Reply
<1>6. \A u \in Threads, s \in Steps : Publishing(u, s)' => Publishing(u, s)
  BY <1>1 DEF IInv, TypeOK, Publishing, Next1
<1>7. TodoInv'
  BY <1>1, UserApart, TodoKeeps DEF IInv, TypeOK
<1>8. JournalStep
  BY <1>3 DEF JournalStep
<1>9. QED BY <1>4, <1>5, <1>6, <1>7, <1>8, PublishKeeps, JournalStepKeeps DEF IInv

(* A thread that goes on to dispatch.                                      *)
LEMMA ThenDispatchKeeps ==
    ASSUME IInv, NEW t \in Threads, t # User => replies[t] # <<>>,
           NEW ps \in SUBSET Plans, ThenDispatch(t, ps),
           proc \notin {"down", "starting"},
           Advances, Supported, UNCHANGED <<proc, session, requests, robotVars, sent>>,
           commands' = commands
    PROVE  IInv'
<1>1. /\ pc' = [pc EXCEPT ![t] = "ready"]
      /\ plans' = [plans EXCEPT ![t] = ps]
      /\ todo' = [todo EXCEPT ![t] = {}]
      /\ replies' = replies
  BY DEF ThenDispatch
<1>2. RepliesShrink
  BY <1>1 DEF IInv, TypeOK, RepliesShrink
<1>3. TypeOK'
  BY <1>1, <1>2 DEF IInv, TypeOK, Advances, RepliesShrink, RunStatuses, robotVars
<1>4. ThreadsInv'
  BY <1>1, UserApart DEF IInv, TypeOK, ThreadsInv, Reply
<1>5. \A u \in Threads, s \in Steps : Publishing(u, s)' => Publishing(u, s)
  BY <1>1 DEF IInv, TypeOK, Publishing, Next1
<1>6. TodoInv'
  BY <1>1, UserApart, TodoKeeps DEF IInv, TypeOK
<1>7. JournalStep
  BY <1>2 DEF JournalStep
<1>8. QED BY <1>3, <1>4, <1>5, <1>6, <1>7, PublishKeeps, JournalStepKeeps DEF IInv

-----------------------------------------------------------------------------
(* Handlers of replies.                                                    *)

(* The reply at the head of a queue is true, and its step has begun.       *)
LEMMA HeadReply ==
    ASSUME IInv, NEW t \in Channels, replies[t] # <<>>
    PROVE  /\ Reply(t) \in Replies /\ Reply(t).id \in Steps
           /\ Truthful(Reply(t)) /\ Begun(Reply(t).id)
<1>1. replies[t] \in Seq(Replies)
  BY DEF IInv, TypeOK
<1>2. Reply(t) \in Replies /\ 1 \in DOMAIN replies[t] /\ Reply(t) = replies[t][1]
  BY <1>1 DEF Reply
<1>3. Reply(t).id \in Steps
  BY <1>2 DEF Replies
<1>4. Truthful(Reply(t))
  BY <1>2 DEF IInv, RepliesInv
<1>5. Begun(Reply(t).id)
  BY <1>3, <1>4 DEF IInv, SentInv, Truthful, TrueOf
<1>6. QED BY <1>2, <1>3, <1>4, <1>5

(* Taking over what a robot says of its work.                              *)
LEMMA TakeStatus ==
    ASSUME IInv, NEW t \in Channels, replies[t] # <<>>,
           Reply(t).kind \in {"outcome", "assignment_snapshot"},
           Reply(t).status \in KnownTerminal \cup {"unknown"},
           step[Reply(t).id] \in KnownTerminal => Reply(t).status = step[Reply(t).id],
           SetStep(Reply(t).id, Reply(t).status)
    PROVE  Advances /\ Supported
<1> DEFINE s == Reply(t).id
           v == Reply(t).status
<1>1. s \in Steps /\ Truthful(Reply(t)) /\ Begun(s)
  BY HeadReply
<1>2. v \in StepStatus \ {"absent", "pending"}
  BY DEF StepStatus, KnownTerminal
<1> HIDE DEF s, v
<1>3. Advances /\ step' = [step EXCEPT ![s] = v]
  BY <1>1, <1>2, JournalPart, SetStepAdvances DEF s, v
<1>4. v \in {"succeeded", "failed", "cancelled"} => robot[s] = v
  BY <1>1 DEF Truthful, TrueOf, s, v
<1>5. Supported
  BY <1>1, <1>3, <1>4 DEF Supported, IInv, TypeOK
<1>6. QED BY <1>3, <1>5

(* A handler at work belongs to a process that is up.                      *)
LEMMA AtWork ==
    ASSUME IInv, NEW t \in Threads, pc[t] # "idle"
    PROVE  proc \notin {"down", "starting"} /\ (t \in Channels => replies[t] # <<>>)
BY DEF IInv, ThreadsInv

(* One plan is a set of plans.                                             *)
LEMMA PlansOfStep ==
    ASSUME NEW s \in Steps
    PROVE  {PlanOf[s]} \in SUBSET Plans
BY CoordinatorAssumption

(* reconcile_outcome, from an outcome or a snapshot.                       *)
LEMMA ReconcilesKeeps ==
    ASSUME IInv, NEW t \in Channels, replies[t] # <<>>, proc \notin {"down", "starting"},
           Reply(t).kind \in {"outcome", "assignment_snapshot"}, Reconciles(t),
           UNCHANGED <<proc, session, requests, robotVars, sent, commands>>
    PROVE  IInv'
<1> DEFINE s == Reply(t).id
           takes == Reply(t).status \in KnownTerminal /\ step[s] = "unknown"
<1>1. t \in Threads /\ t # User /\ s \in Steps
  BY UserApart, HeadReply
<1>2. CASE takes
  <2>1. SetStep(s, Reply(t).status) /\ ThenDispatch(t, {PlanOf[s]})
    BY <1>2 DEF Reconciles
  <2>2. Advances /\ Supported
    BY <1>2, <2>1, TakeStatus DEF KnownTerminal
  <2>3. QED BY <1>1, <2>1, <2>2, PlansOfStep, ThenDispatchKeeps
<1>3. CASE ~takes
  <2>1. Leave(t) /\ UNCHANGED journalVars
    BY <1>3 DEF Reconciles
  <2>2. QED BY <1>1, <2>1, SameJournal, LeaveKeeps
<1>4. QED BY <1>2, <1>3

(* The handlers of replies.                                                *)
LEMMA HandlerKeeps ==
    ASSUME IInv, NEW t \in Channels, Handler(t)
    PROVE  IInv'
<1> DEFINE s == Reply(t).id
           v == Reply(t).status
<1>0. t \in Threads /\ t # User
  BY UserApart
<1>1. CASE ReadOutcome(t)
  <2>1. /\ proc \notin {"down", "starting"} /\ replies[t] # <<>>
        /\ Reply(t).kind = "outcome"
        /\ \E w \in {"record", "reconcile"} : pc' = [pc EXCEPT ![t] = w]
        /\ UNCHANGED <<journalVars, proc, session, plans, todo, requests, replies, robotVars,
                       sent, commands>>
    BY <1>1 DEF ReadOutcome, Takes, Running
  <2>2. TypeOK'
    BY <2>1 DEF IInv, TypeOK, journalVars, robotVars
  <2>3. ThreadsInv'
    BY <1>0, <2>1 DEF IInv, TypeOK, ThreadsInv, Reply
  <2>4. Advances /\ Supported
    BY <2>1, SameJournal
  <2>5. \A u \in Threads, q \in Steps : Publishing(u, q)' => Publishing(u, q)
    BY <2>1 DEF IInv, TypeOK, Publishing, Next1
  <2>6. TodoInv'
    BY <1>0, <2>1, <2>4, TodoKeeps, UserApart DEF IInv, TypeOK
  <2>7. RepliesShrink
    BY <2>1 DEF IInv, TypeOK, RepliesShrink
  <2>8. QED
    BY <2>1, <2>2, <2>3, <2>4, <2>5, <2>6, <2>7, PublishKeeps, JournalStepKeeps
       DEF IInv, JournalStep
<1>2. CASE RecordOutcome(t)
  <2>1. proc \notin {"down", "starting"} /\ replies[t] # <<>> /\ Reply(t).kind = "outcome"
    BY <1>0, <1>2, AtWork DEF RecordOutcome, IInv, ThreadsInv
  <2>2. s \in Steps /\ Truthful(Reply(t))
    BY <2>1, HeadReply
  <2>3. v \in KnownTerminal \cup {"unknown"}
    BY <2>1, <2>2 DEF Truthful, TrueOf
  <2>4. CASE TakesOutcome(s, v)
    <3>1. SetStep(s, v) /\ ThenDispatch(t, {PlanOf[s]})
      BY <1>2, <2>4 DEF RecordOutcome
    <3>2. step[s] \in KnownTerminal => v = step[s]
      BY <2>4 DEF TakesOutcome, InFlight, KnownTerminal
    <3>3. Advances /\ Supported
      BY <2>1, <2>3, <3>1, <3>2, TakeStatus
    <3>4. QED
      BY <1>0, <1>2, <2>1, <2>2, <3>1, <3>3, PlansOfStep, ThenDispatchKeeps DEF RecordOutcome
  <2>5. CASE ~TakesOutcome(s, v)
    <3>1. Leave(t) /\ UNCHANGED journalVars
      BY <1>2, <2>5 DEF RecordOutcome
    <3>2. QED BY <1>0, <1>2, <2>1, <3>1, SameJournal, LeaveKeeps DEF RecordOutcome
  <2>6. QED BY <2>4, <2>5
<1>3. CASE ReconcileOutcome(t)
  <2>1. proc \notin {"down", "starting"} /\ replies[t] # <<>> /\ Reply(t).kind = "outcome"
    BY <1>0, <1>3, AtWork DEF ReconcileOutcome, IInv, ThreadsInv
  <2>2. QED BY <1>3, <2>1, ReconcilesKeeps DEF ReconcileOutcome
<1>4. CASE TakeSnapshot(t)
  <2>1. /\ proc \notin {"down", "starting"} /\ replies[t] # <<>>
        /\ Reply(t).kind = "assignment_snapshot"
    BY <1>4 DEF TakeSnapshot, Takes, Running
  <2>2. QED BY <1>4, <2>1, ReconcilesKeeps DEF TakeSnapshot
<1>5. CASE TakeAcknowledgement(t)
  <2>1. replies[t] # <<>> /\ Leave(t)
    BY <1>5 DEF TakeAcknowledgement, Takes
  <2>2. s \in Steps /\ Begun(s)
    BY <2>1, HeadReply
  <2>3. Advances /\ Supported
    <3>1. CASE TakesAck(s) /\ v \in {"accepted", "rejected", "unknown"}
      <4>1. SetStep(s, v) /\ step[s] \notin KnownTerminal
        BY <1>5, <3>1 DEF TakeAcknowledgement, TakesAck, KnownTerminal
      <4>2. v \in StepStatus \ {"absent", "pending"}
        BY <3>1 DEF StepStatus, KnownTerminal, InFlight
      <4> HIDE DEF s, v
      <4>3. Advances /\ step' = [step EXCEPT ![s] = v]
        BY <2>2, <4>1, <4>2, JournalPart, SetStepAdvances
      <4>4. QED BY <2>2, <3>1, <4>3 DEF Supported, IInv, TypeOK
    <3>2. CASE ~(TakesAck(s) /\ v \in {"accepted", "rejected", "unknown"})
      BY <1>5, <3>2, SameJournal DEF TakeAcknowledgement
    <3>3. QED BY <3>1, <3>2
  <2>4. QED BY <1>0, <1>5, <2>1, <2>3, LeaveKeeps DEF TakeAcknowledgement
<1>6. CASE TakeCancellationAck(t)
  <2> DEFINE w == IF /\ step[s] = "cancellation_requested"
                     /\ v \notin {"accepted", "already_terminal"}
                  THEN "unknown" ELSE step[s]
  <2>1. replies[t] # <<>> /\ Leave(t) /\ SetStep(s, w)
    BY <1>6 DEF TakeCancellationAck, Takes
  <2>2. s \in Steps /\ Begun(s)
    BY <2>1, HeadReply
  <2>3. w \in StepStatus \ {"absent", "pending"}
    BY <2>2 DEF IInv, TypeOK, Begun, StepStatus
  <2>4. step[s] \in KnownTerminal => w = step[s]
    BY DEF KnownTerminal
  <2>5. w \in {step[s], "unknown"}
    OBVIOUS
  <2> HIDE DEF s, v, w
  <2>6. Advances /\ step' = [step EXCEPT ![s] = w]
    BY <2>1, <2>2, <2>3, <2>4, JournalPart, SetStepAdvances
  <2>7. Supported
    BY <2>2, <2>5, <2>6 DEF Supported, IInv, TypeOK
  <2>8. QED BY <1>0, <1>6, <2>1, <2>6, <2>7, LeaveKeeps DEF TakeCancellationAck
<1>7. QED BY <1>1, <1>2, <1>3, <1>4, <1>5, <1>6 DEF Handler

-----------------------------------------------------------------------------
(* Dispatch.                                                               *)

(* A step of the coordinator that publishes nothing.                       *)
LEMMA QuietStepKeeps ==
    ASSUME IInv, Advances, Supported, RepliesShrink,
           UNCHANGED <<requests, robotVars, sent>>,
           TypeOK', ThreadsInv', TodoInv',
           \A t \in Threads, s \in Steps : Publishing(t, s)' => Publishing(t, s)
    PROVE  IInv'
BY PublishKeeps, JournalStepKeeps DEF IInv, JournalStep

(* Replies that stay do not grow.                                          *)
LEMMA RepliesSame ==
    ASSUME IInv, replies' = replies
    PROVE  RepliesShrink
BY DEF IInv, TypeOK, RepliesShrink

(* ready_assignments: what it lists has its dependencies done.             *)
LEMMA ReadReadyKeeps ==
    ASSUME IInv, NEW t \in Threads, ReadReady(t)
    PROVE  IInv'
<1>1. /\ pc[t] = "ready"
      /\ UNCHANGED <<journalVars, proc, session, requests, robotVars, sent, commands>>
  BY DEF ReadReady
<1>2. t # User => replies[t] # <<>>
  BY <1>1, AtWork DEF Threads
<1>3. Advances /\ Supported
  BY <1>1, SameJournal
<1>4. CASE plans[t] = {}
  BY <1>1, <1>2, <1>3, <1>4, LeaveKeeps DEF ReadReady
<1>5. CASE plans[t] # {}
  <2> DEFINE p == FirstOf(plans[t])
  <2>1. p \in Plans
    BY <1>5, FirstIn DEF IInv, TypeOK
  <2>2. /\ plans' = [plans EXCEPT ![t] = @ \ {p}]
        /\ todo' = [todo EXCEPT ![t] = ReadySteps(p)]
        /\ pc' = [pc EXCEPT ![t] = "dispatch"]
        /\ replies' = replies
    BY <1>5 DEF ReadReady
  <2> HIDE DEF p
  <2>3. ReadySteps(p) \subseteq Steps
    BY DEF ReadySteps
  <2>4. TypeOK'
    BY <1>1, <2>2, <2>3 DEF IInv, TypeOK, journalVars, robotVars
  <2>5. ThreadsInv'
    BY <1>1, <2>2 DEF IInv, TypeOK, ThreadsInv, Reply
  <2>6. TodoInv'
    <3>1. \A s \in ReadySteps(p) : \A d \in Deps[s] : step[d] = "succeeded"
      BY DEF ReadySteps
    <3>2. QED
      BY <1>1, <2>2, <3>1 DEF IInv, TypeOK, TodoInv, journalVars, Begun
  <2>7. \A u \in Threads, s \in Steps : Publishing(u, s)' => Publishing(u, s)
    BY <2>2 DEF IInv, TypeOK, Publishing, Next1
  <2>8. QED
    BY <1>1, <1>3, <2>2, <2>4, <2>5, <2>6, <2>7, RepliesSame, QuietStepKeeps
<1>6. QED BY <1>4, <1>5

(* mark_dispatched: the one thread whose update finds the row pending goes *)
(* on to publish the step.                                                 *)
LEMMA MarkDispatchedKeeps ==
    ASSUME IInv, NEW t \in Threads, MarkDispatched(t)
    PROVE  IInv'
<1>1. /\ pc[t] = "dispatch"
      /\ UNCHANGED <<run, proc, session, plans, requests, replies, robotVars, sent, commands>>
  BY DEF MarkDispatched
<1>2. RepliesShrink
  BY <1>1, RepliesSame
<1>3. CASE todo[t] = {}
  <2>1. pc' = [pc EXCEPT ![t] = "ready"] /\ UNCHANGED <<step, todo>>
    BY <1>3 DEF MarkDispatched
  <2>2. Advances /\ Supported
    BY <1>1, <2>1, SameJournal DEF journalVars
  <2>3. TypeOK'
    BY <1>1, <2>1 DEF IInv, TypeOK, robotVars
  <2>4. ThreadsInv'
    BY <1>1, <2>1 DEF IInv, TypeOK, ThreadsInv, Reply
  <2>5. TodoInv'
    BY <2>1, <2>2, TodoKeeps, UserApart DEF IInv, TypeOK
  <2>6. \A u \in Threads, s \in Steps : Publishing(u, s)' => Publishing(u, s)
    BY <2>1 DEF IInv, TypeOK, Publishing, Next1
  <2>7. QED BY <1>1, <1>2, <2>2, <2>3, <2>4, <2>5, <2>6, QuietStepKeeps
<1>4. CASE todo[t] # {} /\ ~MayDispatch(Next1(t))
  <2>1. todo' = [todo EXCEPT ![t] = @ \ {Next1(t)}] /\ UNCHANGED <<step, pc>>
    BY <1>4 DEF MarkDispatched
  <2>2. Advances /\ Supported
    BY <1>1, <2>1, SameJournal DEF journalVars
  <2>3. TypeOK'
    BY <1>1, <2>1 DEF IInv, TypeOK, robotVars
  <2>4. ThreadsInv'
    BY <1>1, <2>1 DEF IInv, TypeOK, ThreadsInv, Reply
  <2>5. TodoInv'
    BY <1>1, <2>1, <2>2, TodoKeeps, UserApart DEF IInv, TypeOK
  <2>6. \A u \in Threads, s \in Steps : Publishing(u, s)' => Publishing(u, s)
    BY <1>1, <2>1 DEF IInv, TypeOK, Publishing, Next1
  <2>7. QED BY <1>1, <1>2, <2>2, <2>3, <2>4, <2>5, <2>6, QuietStepKeeps
<1>5. CASE todo[t] # {} /\ MayDispatch(Next1(t))
  <2> DEFINE s == Next1(t)
  <2>1. s \in todo[t] /\ s \in Steps /\ step[s] = "pending"
    BY <1>5, FirstIn DEF IInv, TypeOK, Next1, MayDispatch
  <2>2. /\ step' = [step EXCEPT ![s] = "dispatched"]
        /\ pc' = [pc EXCEPT ![t] = "publish"]
        /\ todo' = todo
    BY <1>5 DEF MarkDispatched
  <2>3. Advances
    BY <1>1, <2>1, <2>2, JournalPart, MarkAdvances
  <2>4. Supported
    BY <2>1, <2>2 DEF Supported, IInv, TypeOK
  <2>5. TypeOK'
    BY <1>1, <2>2, <2>3 DEF IInv, TypeOK, Advances, robotVars
  <2>6. ThreadsInv'
    BY <1>1, <1>5, <2>2 DEF IInv, TypeOK, ThreadsInv, Reply
  <2>7. TodoInv'
    BY <1>1, <2>2, <2>3, TodoKeeps, UserApart DEF IInv, TypeOK
  <2>8. PublishInv'
    <3>1. sent[s] = 0
      BY <2>1 DEF IInv, SentInv, Begun
    <3>2. \A u \in Threads : ~Publishing(u, s)
      BY <2>1 DEF IInv, PublishInv, Begun
    <3>3. \A u \in Threads, q \in Steps : Publishing(u, q)' =>
             Publishing(u, q) \/ (u = t /\ q = s)
      BY <2>2 DEF IInv, TypeOK, Publishing, Next1
    <3>4. \A q \in Steps : q # s => step'[q] = step[q]
      BY <2>2 DEF IInv, TypeOK
    <3>5. step'[s] = "dispatched"
      BY <2>1, <2>2 DEF IInv, TypeOK
    <3>6. \A u, w \in Threads, q \in Steps :
             Publishing(u, q) /\ Publishing(w, q) => u = w
      BY DEF IInv, PublishInv
    <3>7. \A u \in Threads, q \in Steps : Publishing(u, q) =>
             sent[q] = 0 /\ Begun(q) /\ step[q] # "cancelled"
      BY DEF IInv, PublishInv
    <3> HIDE DEF s
    <3>8. \A u \in Threads, q \in Steps : Publishing(u, q)' =>
             sent'[q] = 0 /\ Begun(q)' /\ step'[q] # "cancelled"
      BY <1>1, <3>1, <3>2, <3>3, <3>4, <3>5, <3>7 DEF Begun
    <3>9. \A u, w \in Threads, q \in Steps :
             Publishing(u, q)' /\ Publishing(w, q)' => u = w
      BY <3>2, <3>3, <3>6
    <3>10. QED BY <3>8, <3>9 DEF PublishInv
  <2>9. QED
    BY <1>1, <1>2, <2>3, <2>4, <2>5, <2>6, <2>7, <2>8, JournalStepKeeps
       DEF IInv, JournalStep
<1>6. QED BY <1>3, <1>4, <1>5

-----------------------------------------------------------------------------
(* Publications.                                                           *)

(* What a queue of requests holds after one more was put into it.          *)
LEMMA SendElements ==
    ASSUME TypeOK, NEW kind \in {"assignment", "assignment_query", "cancellation_request"},
           NEW s \in Steps, Send(kind, s)
    PROVE  LET k == <<RobotOf[s], session>> IN
           /\ k \in Links
           /\ requests' \in [Links -> Seq(Requests)]
           /\ \A l \in Links : \A i \in DOMAIN requests'[l] :
                 \/ i \in DOMAIN requests[l] /\ requests'[l][i] = requests[l][i]
                 \/ /\ l = k /\ i = Len(requests[k]) + 1
                    /\ requests'[l][i] = Request(kind, s)
<1> DEFINE k == <<RobotOf[s], session>>
           m == Request(kind, s)
<1>1. k \in Links
  BY CoordinatorAssumption DEF TypeOK, Links
<1>2. m \in Requests
  BY DEF Request, Requests
<1>3. requests' = [requests EXCEPT ![k] = Append(@, m)]
  BY DEF Send
<1> HIDE DEF k, m
<1>4. requests' \in [Links -> Seq(Requests)]
  BY <1>1, <1>2, <1>3 DEF TypeOK
<1>5. \A l \in Links : requests[l] \in Seq(Requests)
  BY DEF TypeOK
<1>6. \A l \in Links : l # k => requests'[l] = requests[l]
  BY <1>3 DEF TypeOK
<1>7. requests'[k] = Append(requests[k], m)
  BY <1>1, <1>3 DEF TypeOK
<1>8. \A i \in DOMAIN requests'[k] :
         \/ i \in DOMAIN requests[k] /\ requests'[k][i] = requests[k][i]
         \/ i = Len(requests[k]) + 1 /\ requests'[k][i] = m
  BY <1>1, <1>2, <1>5, <1>7
<1>9. QED BY <1>1, <1>4, <1>6, <1>8 DEF k, m

(* Queries and cancellations leave assignments alone.                      *)
LEMMA SendOtherKeeps ==
    ASSUME IInv, NEW kind \in {"assignment_query", "cancellation_request"},
           NEW s \in Steps, Begun(s), Send(kind, s), UNCHANGED <<step, robot, sent>>
    PROVE  RequestsInv' /\ requests' \in [Links -> Seq(Requests)]
<1> DEFINE k == <<RobotOf[s], session>>
<1>1. /\ k \in Links
      /\ requests' \in [Links -> Seq(Requests)]
      /\ \A l \in Links : \A i \in DOMAIN requests'[l] :
            \/ i \in DOMAIN requests[l] /\ requests'[l][i] = requests[l][i]
            \/ requests'[l][i] = Request(kind, s)
  BY SendElements DEF IInv
<1> HIDE DEF k
<1>2. \A l \in Links : \A i \in DOMAIN requests'[l] : Begun(requests[l][i].id)'
  BY <1>1 DEF IInv, RequestsInv, Request, Begun
<1>3. \A l \in Links, q \in Steps : \A i \in DOMAIN requests'[l] :
         Waits(l, i, q)' => i \in DOMAIN requests[l] /\ Waits(l, i, q)
  BY <1>1 DEF Waits, Request
<1>4. QED BY <1>1, <1>2, <1>3 DEF IInv, RequestsInv

(* The publication of an assignment.                                       *)
LEMMA PublishAssignmentKeeps ==
    ASSUME IInv, NEW t \in Threads, PublishAssignment(t)
    PROVE  IInv'
<1> DEFINE s == Next1(t)
           k == <<RobotOf[s], session>>
<1>1. /\ pc[t] = "publish" /\ Send("assignment", s)
      /\ sent' = [sent EXCEPT ![s] = @ + 1]
      /\ todo' = [todo EXCEPT ![t] = @ \ {s}]
      /\ pc' = [pc EXCEPT ![t] = "dispatch"]
      /\ UNCHANGED <<journalVars, proc, session, plans, replies, robotVars, commands>>
  BY DEF PublishAssignment
<1>2. todo[t] # {} /\ s \in todo[t] /\ s \in Steps /\ Publishing(t, s)
  <2>1. todo[t] # {}
    BY <1>1 DEF IInv, ThreadsInv
  <2>2. QED BY <1>1, <2>1, FirstIn DEF IInv, TypeOK, Next1, Publishing
<1>3. sent[s] = 0 /\ Begun(s) /\ step[s] # "cancelled"
  BY <1>2 DEF IInv, PublishInv
<1>4. robot[s] = "none"
  BY <1>2, <1>3 DEF IInv, SentInv
<1>5. \A d \in Deps[s] : step[d] = "succeeded"
  BY <1>1, <1>2 DEF IInv, TodoInv
<1>6. sent'[s] = 1 /\ \A q \in Steps : q # s => sent'[q] = sent[q]
  BY <1>1, <1>2, <1>3 DEF IInv, TypeOK
<1>7. /\ k \in Links
      /\ requests' \in [Links -> Seq(Requests)]
      /\ \A l \in Links : \A i \in DOMAIN requests'[l] :
            \/ i \in DOMAIN requests[l] /\ requests'[l][i] = requests[l][i]
            \/ l = k /\ i = Len(requests[k]) + 1 /\ requests'[l][i] = Request("assignment", s)
  BY <1>1, <1>2, SendElements DEF IInv
<1> HIDE DEF s, k
<1>8. Advances /\ Supported
  BY <1>1, SameJournal
<1>9. TypeOK'
  <2>1. sent' \in [Steps -> Nat]
    BY <1>1, <1>2, <1>3 DEF IInv, TypeOK
  <2>2. QED BY <1>1, <1>7, <2>1 DEF IInv, TypeOK, journalVars, robotVars
<1>10. ThreadsInv'
  BY <1>1 DEF IInv, TypeOK, ThreadsInv, Reply
<1>11. TodoInv'
  BY <1>1, <1>8, TodoKeeps, UserApart DEF IInv, TypeOK
<1>12. RowsInv' /\ RunMatchesSteps'
  BY <1>8 DEF Advances
<1>13. SentInv'
  BY <1>1, <1>3, <1>4, <1>5, <1>6 DEF IInv, SentInv, Begun, journalVars, robotVars
<1>14. PublishInv'
  <2>1. \A u \in Threads, q \in Steps : Publishing(u, q)' => Publishing(u, q) /\ u # t
    BY <1>1 DEF IInv, TypeOK, Publishing, Next1
  <2>2. \A u \in Threads : Publishing(u, s) => u = t
    BY <1>2 DEF IInv, PublishInv
  <2>3. \A u \in Threads, q \in Steps : Publishing(u, q)' => q # s
    BY <2>1, <2>2
  <2>4. QED
    BY <1>1, <1>6, <2>1, <2>3 DEF IInv, PublishInv, Begun, journalVars
<1>15. RequestsInv'
  <2>1. \A l \in Links : \A i \in DOMAIN requests'[l] : Begun(requests[l][i].id)'
    BY <1>1, <1>3, <1>7 DEF IInv, RequestsInv, Request, Begun, journalVars
  <2>2. \A l \in Links, q \in Steps : \A i \in DOMAIN requests'[l] : Waits(l, i, q)' =>
           \/ i \in DOMAIN requests[l] /\ Waits(l, i, q)
           \/ l = k /\ i = Len(requests[k]) + 1 /\ q = s
    BY <1>7 DEF Waits, Request
  <2>3. \A l \in Links, q \in Steps : \A i \in DOMAIN requests[l] :
           Waits(l, i, q) => sent[q] # 0 /\ robot[q] = "none"
    BY DEF IInv, RequestsInv
  <2>4. \A l \in Links, q \in Steps : \A i \in DOMAIN requests'[l] :
           Waits(l, i, q)' => sent'[q] # 0 /\ robot'[q] = "none"
    BY <1>1, <1>4, <1>6, <2>2, <2>3 DEF robotVars
  <2>5. \A l, n \in Links, q \in Steps :
           \A i \in DOMAIN requests[l], j \in DOMAIN requests[n] :
              Waits(l, i, q) /\ Waits(n, j, q) => l = n /\ i = j
    BY DEF IInv, RequestsInv
  <2>6. \A l, n \in Links, q \in Steps :
           \A i \in DOMAIN requests'[l], j \in DOMAIN requests'[n] :
              Waits(l, i, q)' /\ Waits(n, j, q)' => l = n /\ i = j
    BY <1>3, <2>2, <2>3, <2>5
  <2>7. QED BY <2>1, <2>4, <2>6 DEF RequestsInv
<1>16. RepliesInv'
  BY <1>1 DEF IInv, RepliesInv, Truthful, TrueOf, robotVars
<1>17. SettledAgrees'
  BY <1>1, <1>3, <1>6 DEF IInv, SettledAgrees, journalVars, robotVars
<1>18. QED
  BY <1>9, <1>10, <1>11, <1>12, <1>13, <1>14, <1>15, <1>16, <1>17 DEF IInv

(* The steps of _dispatch_ready.                                           *)
LEMMA DispatchKeeps ==
    ASSUME IInv, NEW t \in Threads, Dispatch(t)
    PROVE  IInv'
<1>1. ASSUME PublishFails(t) PROVE IInv'
  <2>1. pc[t] # "idle"
    BY <1>1 DEF PublishFails
  <2>2. t # User => replies[t] # <<>>
    BY <2>1, AtWork DEF Threads
  <2>3. QED BY <1>1, <2>2, SameJournal, LeaveKeeps DEF PublishFails
<1>2. QED
  BY <1>1, ReadReadyKeeps, MarkDispatchedKeeps, PublishAssignmentKeeps DEF Dispatch

-----------------------------------------------------------------------------
(* The user's thread.                                                      *)

(* Commands under way: create_run, cancellation requests, queries.         *)
LEMMA ContinueKeeps ==
    ASSUME IInv, Continue
    PROVE  IInv'
<1>0. User \in Threads /\ User \notin Channels /\ Channels \subseteq Threads
  BY UserApart
<1>1. CASE CreateRun
  <2> DEFINE new == {p \in plans[User] : run[p] = "absent"}
             p   == FirstOf(new)
  <2>1. /\ pc[User] = "creating"
        /\ UNCHANGED <<proc, session, plans, todo, requests, replies, robotVars, sent,
                       commands>>
    BY <1>1 DEF CreateRun
  <2>2. RepliesShrink
    BY <2>1, RepliesSame
  <2>3. CASE new = {}
    <3>1. pc' = [pc EXCEPT ![User] = "ready"] /\ UNCHANGED journalVars
      BY <1>1, <2>3 DEF CreateRun
    <3>2. Advances /\ Supported
      BY <3>1, SameJournal
    <3>3. TypeOK'
      BY <2>1, <3>1 DEF IInv, TypeOK, journalVars, robotVars
    <3>4. ThreadsInv'
      BY <1>0, <2>1, <3>1 DEF IInv, TypeOK, ThreadsInv, Reply
    <3>5. TodoInv'
      BY <1>0, <2>1, <3>1, <3>2, TodoKeeps DEF IInv, TypeOK
    <3>6. \A u \in Threads, s \in Steps : Publishing(u, s)' => Publishing(u, s)
      BY <2>1, <3>1 DEF IInv, TypeOK, Publishing, Next1
    <3>7. QED BY <2>1, <2>2, <3>2, <3>3, <3>4, <3>5, <3>6, QuietStepKeeps
  <2>4. CASE new # {}
    <3>1. p \in new
      BY <2>4, FirstIn
    <3>2. p \in Plans /\ run[p] = "absent"
      BY <1>0, <3>1 DEF IInv, TypeOK
    <3>3. /\ step' = [s \in Steps |-> IF PlanOf[s] = p THEN "pending" ELSE step[s]]
          /\ run' = [run EXCEPT ![p] = "active"]
          /\ pc' = pc
      BY <1>1, <2>4 DEF CreateRun
    <3> HIDE DEF p, new
    <3>4. Advances
      BY <3>2, <3>3, JournalPart, CreateAdvances
    <3>5. Supported
      BY <3>3 DEF Supported
    <3>6. TypeOK'
      BY <2>1, <3>3, <3>4 DEF IInv, TypeOK, Advances, RunStatuses, robotVars
    <3>7. ThreadsInv'
      BY <2>1, <3>3 DEF IInv, ThreadsInv, Reply
    <3>8. TodoInv'
      BY <2>1, <3>3, <3>4, TodoKeeps
    <3>9. \A u \in Threads, s \in Steps : Publishing(u, s)' => Publishing(u, s)
      BY <2>1, <3>3 DEF Publishing, Next1
    <3>10. QED
      BY <2>1, <2>2, <3>4, <3>5, <3>6, <3>7, <3>8, <3>9, QuietStepKeeps
  <2>5. QED BY <2>3, <2>4
<1>2. ASSUME NEW at \in {"cancelling", "querying"},
             NEW kind \in {"assignment_query", "cancellation_request"},
             pc[User] = at, todo[User] # {}, Send(kind, Next1(User)),
             todo' = [todo EXCEPT ![User] = @ \ {Next1(User)}],
             UNCHANGED <<journalVars, proc, session, pc, plans, replies, robotVars, sent,
                         commands>>
      PROVE  IInv'
  <2> DEFINE s == Next1(User)
  <2>1. s \in todo[User] /\ s \in Steps
    BY <1>0, <1>2, FirstIn DEF IInv, TypeOK, Next1
  <2>2. Begun(s)
    BY <1>2, <2>1 DEF IInv, TodoInv
  <2>3. RequestsInv' /\ requests' \in [Links -> Seq(Requests)]
    BY <1>2, <2>1, <2>2, SendOtherKeeps DEF journalVars, robotVars
  <2> HIDE DEF s
  <2>4. Advances /\ Supported
    BY <1>2, SameJournal
  <2>5. TypeOK'
    BY <1>2, <2>3 DEF IInv, TypeOK, journalVars, robotVars
  <2>6. ThreadsInv'
    BY <1>0, <1>2 DEF IInv, TypeOK, ThreadsInv, Reply
  <2>7. TodoInv'
    BY <1>0, <1>2, <2>4, TodoKeeps DEF IInv, TypeOK
  <2>8. \A u \in Threads, q \in Steps : Publishing(u, q)' => Publishing(u, q)
    BY <1>2 DEF IInv, TypeOK, Publishing, Next1
  <2>9. PublishInv'
    BY <1>2, <2>4, <2>8, PublishKeeps
  <2>10. SentInv' /\ RepliesInv' /\ SettledAgrees'
    BY <1>2 DEF IInv, SentInv, RepliesInv, SettledAgrees, Begun, Truthful, TrueOf, journalVars,
                robotVars
  <2>11. QED
    BY <2>3, <2>4, <2>5, <2>6, <2>7, <2>9, <2>10 DEF IInv, Advances
<1>3. CASE PublishCancellation
  <2>1. CASE todo[User] = {}
    BY <1>0, <1>3, <2>1, SameJournal, LeaveKeeps DEF PublishCancellation
  <2>2. CASE todo[User] # {}
    BY <1>2, <1>3, <2>2 DEF PublishCancellation
  <2>3. QED BY <2>1, <2>2
<1>4. CASE PublishQuery
  <2>1. CASE todo[User] = {}
    <3>1. proc \notin {"down", "starting"}
      BY <1>0, <1>4, AtWork DEF PublishQuery
    <3>2. {p \in Plans : run[p] = "active"} \in SUBSET Plans
      OBVIOUS
    <3>3. /\ ThenDispatch(User, {p \in Plans : run[p] = "active"})
          /\ UNCHANGED <<journalVars, proc, session, requests, robotVars, sent, commands>>
      BY <1>4, <2>1 DEF PublishQuery
    <3>4. QED BY <1>0, <3>1, <3>2, <3>3, SameJournal, ThenDispatchKeeps
  <2>2. CASE todo[User] # {}
    BY <1>2, <1>4, <2>2 DEF PublishQuery
  <2>3. QED BY <2>1, <2>2
<1>5. QED BY <1>1, <1>3, <1>4 DEF Continue

(* Commands.                                                               *)
LEMMA CommandsKeep ==
    ASSUME IInv, Commands
    PROVE  IInv'
<1>0. User \in Threads /\ User \notin Channels /\ Channels \subseteq Threads
  BY UserApart
<1>1. ASSUME NEW ps \in SUBSET Plans, proc = "up", Command, Creates(ps)
      PROVE  IInv'
  <2>1. /\ pc[User] = "idle" /\ commands' = commands + 1
        /\ pc' = [pc EXCEPT ![User] = "creating"]
        /\ plans' = [plans EXCEPT ![User] = ps]
        /\ UNCHANGED <<journalVars, proc, session, todo, requests, replies, robotVars, sent>>
    BY <1>1 DEF Command, Creates
  <2>2. Advances /\ Supported /\ RepliesShrink
    BY <2>1, SameJournal, RepliesSame
  <2>3. TypeOK'
    <3>1. commands' \in Nat
      BY <2>1 DEF IInv, TypeOK
    <3>2. QED BY <2>1, <3>1 DEF IInv, TypeOK, journalVars, robotVars
  <2>4. ThreadsInv'
    BY <1>0, <1>1, <2>1 DEF IInv, TypeOK, ThreadsInv, Reply
  <2>5. TodoInv'
    BY <1>0, <2>1, <2>2, TodoKeeps DEF IInv, TypeOK
  <2>6. \A u \in Threads, s \in Steps : Publishing(u, s)' => Publishing(u, s)
    BY <2>1 DEF IInv, TypeOK, Publishing, Next1
  <2>7. QED BY <2>1, <2>2, <2>3, <2>4, <2>5, <2>6, QuietStepKeeps
<1>2. ASSUME NEW p \in Plans, Cancel(p)
      PROVE  IInv'
  <2> DEFINE S == {s \in Steps : /\ PlanOf[s] = p
                                 /\ step[s] \in {"dispatched", "accepted", "unknown"}}
  <2>1. /\ proc \in {"up", "cancel"} /\ run[p] # "absent" /\ Write(Cancelled(p), p)
        /\ pc[User] = "idle" /\ commands' = commands + 1
        /\ todo' = [todo EXCEPT ![User] = S]
        /\ pc' = [pc EXCEPT ![User] = "cancelling"]
        /\ UNCHANGED <<proc, session, plans, requests, replies, robotVars, sent>>
    BY <1>2 DEF Cancel, Command, Running
  <2>2. Advances /\ step' = Cancelled(p)
    BY <2>1, JournalPart, CancelAdvances
  <2>3. Supported
    BY <2>2 DEF Supported, Cancelled
  <2>4. RepliesShrink
    BY <2>1, RepliesSame
  <2>5. S \subseteq Steps /\ \A s \in S : Begun(s)'
    BY <2>2 DEF Cancelled, Begun
  <2> HIDE DEF S
  <2>6. TypeOK'
    <3>1. commands' \in Nat
      BY <2>1 DEF IInv, TypeOK
    <3>2. QED BY <2>1, <2>2, <2>5, <3>1 DEF IInv, TypeOK, Advances, RunStatuses, robotVars
  <2>7. ThreadsInv'
    BY <1>0, <2>1 DEF IInv, TypeOK, ThreadsInv, Reply
  <2>8. TodoInv'
    <3>1. \A s \in Steps : \A d \in Deps[s] : d \in Steps
      BY CoordinatorAssumption
    <3>2. QED
      BY <1>0, <2>1, <2>2, <2>5, <3>1 DEF IInv, TypeOK, TodoInv, Advances, KnownTerminal
  <2>9. \A u \in Threads, s \in Steps : Publishing(u, s)' => Publishing(u, s)
    BY <2>1 DEF IInv, TypeOK, Publishing, Next1
  <2>10. QED BY <2>1, <2>2, <2>3, <2>4, <2>6, <2>7, <2>8, <2>9, QuietStepKeeps
<1>3. ASSUME NEW p \in Plans, Reconcile(p)
      PROVE  IInv'
  <2> DEFINE S == {s \in Steps : PlanOf[s] = p /\ step[s] = "unknown"}
  <2>1. /\ proc = "up" /\ pc[User] = "idle" /\ commands' = commands + 1
        /\ todo' = [todo EXCEPT ![User] = S]
        /\ pc' = [pc EXCEPT ![User] = "querying"]
        /\ UNCHANGED <<journalVars, proc, session, plans, requests, replies, robotVars, sent>>
    BY <1>3 DEF Reconcile, Command
  <2>2. Advances /\ Supported /\ RepliesShrink
    BY <2>1, SameJournal, RepliesSame
  <2>3. S \subseteq Steps /\ \A s \in S : Begun(s)'
    BY <2>1 DEF Begun, journalVars
  <2> HIDE DEF S
  <2>4. TypeOK'
    <3>1. commands' \in Nat
      BY <2>1 DEF IInv, TypeOK
    <3>2. QED BY <2>1, <2>3, <3>1 DEF IInv, TypeOK, journalVars, robotVars
  <2>5. ThreadsInv'
    BY <1>0, <2>1 DEF IInv, TypeOK, ThreadsInv, Reply
  <2>6. TodoInv'
    BY <1>0, <2>1, <2>3 DEF IInv, TypeOK, TodoInv, journalVars
  <2>7. \A u \in Threads, s \in Steps : Publishing(u, s)' => Publishing(u, s)
    BY <2>1 DEF IInv, TypeOK, Publishing, Next1
  <2>8. QED BY <2>1, <2>2, <2>4, <2>5, <2>6, <2>7, QuietStepKeeps
<1>4. ASSUME NEW ps \in SUBSET Plans, Submit(ps) PROVE IInv'
  BY <1>1, <1>4 DEF Submit
<1>5. ASSUME NEW p \in Plans, Replan(p) PROVE IInv'
  <2>1. {p} \in SUBSET Plans
    OBVIOUS
  <2>2. QED BY <1>1, <1>5, <2>1 DEF Replan
<1>6. QED BY <1>2, <1>3, <1>4, <1>5 DEF Commands

-----------------------------------------------------------------------------
(* The process.                                                            *)

(* The process stops, starts, loses replies and opens the journal.         *)
LEMMA ProcessKeeps ==
    ASSUME IInv,
           \/ Stop \/ Start \/ \E t \in Channels : ProcessUnsubscribed(t)
           \/ \E mode \in {"up", "cancel"} : OpenStore(mode)
    PROVE  IInv'
<1>0. User \in Threads /\ User \notin Channels /\ Channels \subseteq Threads
  BY UserApart
<1>1. CASE Stop
  <2>1. /\ proc' = "down" /\ session < MaxStops
        /\ pc' = [t \in Threads |-> "idle"]
        /\ plans' = [t \in Threads |-> {}]
        /\ todo' = [t \in Threads |-> {}]
        /\ UNCHANGED <<journalVars, session, requests, replies, robotVars, sent, commands>>
    BY <1>1 DEF Stop
  <2>2. Advances /\ Supported /\ RepliesShrink
    BY <2>1, SameJournal, RepliesSame
  <2>3. TypeOK'
    BY <2>1 DEF IInv, TypeOK, journalVars, robotVars
  <2>4. ThreadsInv'
    BY <1>0, <2>1 DEF ThreadsInv
  <2>5. TodoInv'
    BY <1>0, <2>1, <2>2, TodoKeeps
  <2>6. \A u \in Threads, s \in Steps : Publishing(u, s)' => Publishing(u, s)
    BY <2>1 DEF Publishing
  <2>7. QED BY <2>1, <2>2, <2>3, <2>4, <2>5, <2>6, QuietStepKeeps
<1>2. CASE Start
  <2>1. /\ proc = "down" /\ proc' = "starting" /\ session' = session + 1
        /\ UNCHANGED <<journalVars, threadVars, requests, replies, robotVars, sent, commands>>
    BY <1>2 DEF Start
  <2>2. Advances /\ Supported /\ RepliesShrink
    BY <2>1, SameJournal, RepliesSame
  <2>3. session' \in 0..MaxStops
    BY <2>1, CoordinatorAssumption DEF IInv, TypeOK, ThreadsInv
  <2>4. TypeOK'
    BY <2>1, <2>3 DEF IInv, TypeOK, journalVars, robotVars, threadVars
  <2>5. ThreadsInv'
    BY <2>1 DEF IInv, ThreadsInv, Reply, threadVars
  <2>6. TodoInv'
    BY <2>1, <2>2, TodoKeeps DEF threadVars
  <2>7. \A u \in Threads, s \in Steps : Publishing(u, s)' => Publishing(u, s)
    BY <2>1 DEF Publishing, Next1, threadVars
  <2>8. QED BY <2>1, <2>2, <2>4, <2>5, <2>6, <2>7, QuietStepKeeps
<1>3. ASSUME NEW t \in Channels, ProcessUnsubscribed(t)
      PROVE  IInv'
  <2>1. /\ proc = "starting" /\ replies[t] # <<>>
        /\ replies' = [replies EXCEPT ![t] = Tail(@)]
        /\ UNCHANGED <<journalVars, proc, session, threadVars, requests, robotVars, sent,
                       commands>>
    BY <1>3 DEF ProcessUnsubscribed
  <2>2. RepliesShrink
    BY <2>1 DEF IInv, TypeOK, RepliesShrink
  <2>3. Advances /\ Supported
    BY <2>1, SameJournal
  <2>4. TypeOK'
    BY <2>1, <2>2 DEF IInv, TypeOK, journalVars, robotVars, threadVars, RepliesShrink
  <2>5. ThreadsInv'
    BY <1>0, <2>1 DEF IInv, ThreadsInv, threadVars
  <2>6. TodoInv'
    BY <2>1, <2>3, TodoKeeps DEF threadVars
  <2>7. \A u \in Threads, s \in Steps : Publishing(u, s)' => Publishing(u, s)
    BY <2>1 DEF Publishing, Next1, threadVars
  <2>8. QED BY <2>1, <2>2, <2>3, <2>4, <2>5, <2>6, <2>7, QuietStepKeeps
<1>4. ASSUME NEW mode \in {"up", "cancel"}, OpenStore(mode)
      PROVE  IInv'
  <2>1. /\ proc = "starting" /\ proc' = mode
        /\ Recover \/ UNCHANGED journalVars
        /\ UNCHANGED <<session, threadVars, requests, replies, robotVars, sent, commands>>
    BY <1>4 DEF OpenStore
  <2>2. Advances /\ Supported
    <3>1. CASE Recover
      BY <3>1, JournalPart, RecoverAdvances DEF Supported, Recover
    <3>2. CASE UNCHANGED journalVars
      BY <3>2, SameJournal
    <3>3. QED BY <2>1, <3>1, <3>2
  <2>3. RepliesShrink
    BY <2>1, RepliesSame
  <2>4. TypeOK'
    BY <2>1, <2>2 DEF IInv, TypeOK, Advances, RunStatuses, robotVars, threadVars
  <2>5. ThreadsInv'
    BY <2>1 DEF IInv, ThreadsInv, Reply, threadVars
  <2>6. TodoInv'
    BY <2>1, <2>2, TodoKeeps DEF threadVars
  <2>7. \A u \in Threads, s \in Steps : Publishing(u, s)' => Publishing(u, s)
    BY <2>1 DEF Publishing, Next1, threadVars
  <2>8. QED BY <2>1, <2>2, <2>3, <2>4, <2>5, <2>6, <2>7, QuietStepKeeps
<1>5. QED BY <1>1, <1>2, <1>3, <1>4

-----------------------------------------------------------------------------
(* Robots.                                                                 *)

RobotStatuses == {"none", "refused", "running", "interrupted", "unknown"} \cup KnownTerminal

(* A robot does not forget an assignment nor change a settled outcome, and *)
(* knows only what was published.                                          *)
RobotEvolves ==
    /\ robot' \in [Steps -> RobotStatuses]
    /\ \A s \in Steps :
          /\ robot[s] # "none" => robot'[s] # "none"
          /\ robot[s] \in KnownTerminal => robot'[s] = robot[s]
          /\ robot'[s] # "none" => sent[s] # 0

RepliesGrow ==
    /\ replies' \in [Channels -> Seq(Replies)]
    /\ \A c \in Channels : replies[c] # <<>> =>
          replies'[c] # <<>> /\ Head(replies'[c]) = Head(replies[c])

(* A step of a robot leaves the coordinator alone; what is left to show is *)
(* that requests and replies stay as they should be.                       *)
LEMMA RobotStepKeeps ==
    ASSUME IInv, UNCHANGED <<journalVars, proc, session, threadVars, sent, commands>>,
           RobotEvolves, RepliesGrow, RequestsInv', RepliesInv',
           requests' \in [Links -> Seq(Requests)], epoch' \in [Robots -> 0..MaxRobotStops],
           again' \in SUBSET Steps
    PROVE  IInv'
<1>1. TypeOK'
  BY DEF IInv, TypeOK, RobotEvolves, RobotStatuses, RepliesGrow, journalVars, threadVars
<1>2. ThreadsInv'
  BY DEF IInv, ThreadsInv, RepliesGrow, Reply, threadVars
<1>3. TodoInv' /\ RowsInv' /\ RunMatchesSteps'
  BY DEF IInv, TodoInv, RowsInv, RunMatchesSteps, Begun, journalVars, threadVars
<1>4. SentInv'
  BY DEF IInv, SentInv, Begun, RobotEvolves, journalVars
<1>5. PublishInv'
  BY DEF IInv, PublishInv, Publishing, Next1, Begun, journalVars, threadVars
<1>6. SettledAgrees'
  BY DEF IInv, SettledAgrees, RobotEvolves, KnownTerminal, journalVars
<1>7. QED BY <1>1, <1>2, <1>3, <1>4, <1>5, <1>6 DEF IInv

(* Answers that are true keep all answers true.                            *)
LEMMA AnswerKeeps ==
    ASSUME IInv, RobotEvolves, NEW s \in Steps, NEW ms \in Seq(Replies), Answer(s, ms),
           \A j \in DOMAIN ms : TrueOf(robot', ms[j]),
           \A q \in again' : robot'[q] # "none"
    PROVE  RepliesGrow /\ RepliesInv'
<1> DEFINE c0 == <<RobotOf[s], epoch[RobotOf[s]]>>
<1>1. c0 \in Channels
  BY CoordinatorAssumption DEF IInv, TypeOK, Channels
<1>2. replies' = [replies EXCEPT ![c0] = @ \o ms]
  BY DEF Answer
<1> HIDE DEF c0
<1>3. \A c \in Channels : replies[c] \in Seq(Replies)
  BY DEF IInv, TypeOK
<1>4. replies'[c0] = replies[c0] \o ms /\ \A c \in Channels : c # c0 => replies'[c] = replies[c]
  BY <1>1, <1>2 DEF IInv, TypeOK
<1>5. replies[c0] \o ms \in Seq(Replies)
  BY <1>1, <1>3
<1>6. replies' \in [Channels -> Seq(Replies)]
  BY <1>1, <1>2, <1>5 DEF IInv, TypeOK
<1>7. replies[c0] # <<>> =>
         replies'[c0] # <<>> /\ Head(replies'[c0]) = Head(replies[c0])
  BY <1>1, <1>3, <1>4
<1>8. RepliesGrow
  BY <1>4, <1>6, <1>7 DEF RepliesGrow
<1>9. ASSUME NEW c \in Channels, NEW i \in DOMAIN replies'[c]
      PROVE  TrueOf(robot', replies'[c][i])
  <2>1. ASSUME i \in DOMAIN replies[c], replies'[c][i] = replies[c][i]
        PROVE  TrueOf(robot', replies'[c][i])
    <3>1. TrueOf(robot, replies[c][i]) /\ replies[c][i].id \in Steps
      <4>1. replies[c][i] \in Replies
        BY <1>3, <2>1
      <4>2. QED BY <2>1, <4>1 DEF IInv, RepliesInv, Truthful, Replies
    <3>2. QED BY <2>1, <3>1 DEF TrueOf, RobotEvolves, KnownTerminal
  <2>2. CASE c # c0
    BY <1>4, <2>1, <2>2
  <2>3. CASE c = c0
    <3>1. i \in 1..(Len(replies[c]) + Len(ms))
      BY <1>3, <1>4, <2>3
    <3>2. CASE i <= Len(replies[c])
      BY <1>3, <1>4, <2>1, <2>3, <3>1, <3>2
    <3>3. CASE i > Len(replies[c])
      <4>1. /\ i - Len(replies[c]) \in DOMAIN ms
            /\ replies'[c][i] = ms[i - Len(replies[c])]
        BY <1>3, <1>4, <2>3, <3>1, <3>3
      <4>2. QED BY <4>1
    <3>4. QED BY <1>3, <3>1, <3>2, <3>3
  <2>4. QED BY <2>2, <2>3
<1>10. RepliesInv'
  BY <1>9 DEF RepliesInv, Truthful
<1>11. QED BY <1>8, <1>10

(* Without an answer the same holds.                                       *)
LEMMA SilentKeeps ==
    ASSUME IInv, RobotEvolves, replies' = replies, \A q \in again' : robot'[q] # "none"
    PROVE  RepliesGrow /\ RepliesInv'
<1>1. \A c \in Channels : \A i \in DOMAIN replies[c] : replies[c][i].id \in Steps
  <2>1. \A c \in Channels : replies[c] \in Seq(Replies)
    BY DEF IInv, TypeOK
  <2>2. \A c \in Channels : \A i \in DOMAIN replies[c] : replies[c][i] \in Replies
    BY <2>1
  <2>3. QED BY <2>2 DEF Replies
<1>2. RepliesInv'
  BY <1>1 DEF IInv, RepliesInv, Truthful, TrueOf, RobotEvolves, KnownTerminal
<1>3. QED BY <1>2 DEF RepliesGrow, IInv, TypeOK

(* A robot that begins an assignment has taken the only request for it.    *)
LEMMA HandlesKeeps ==
    ASSUME IInv, NEW k \in Links, NEW kind, Handles(k, kind), UNCHANGED <<step, sent>>,
           \A s \in Steps : robot[s] = "none" /\ robot'[s] # "none" =>
              Head(requests[k]) = Request("assignment", s)
    PROVE  RequestsInv' /\ requests' \in [Links -> Seq(Requests)]
<1>1. requests[k] # <<>> /\ requests' = [requests EXCEPT ![k] = Tail(@)]
  BY DEF Handles
<1>2. \A l \in Links : requests[l] \in Seq(Requests)
  BY DEF IInv, TypeOK
<1>3. requests' \in [Links -> Seq(Requests)]
  BY <1>1, <1>2 DEF IInv, TypeOK
<1> DEFINE old(l, i) == IF l = k THEN i + 1 ELSE i
<1>4. ASSUME NEW l \in Links, NEW i \in DOMAIN requests'[l]
      PROVE  /\ old(l, i) \in DOMAIN requests[l]
             /\ requests'[l][i] = requests[l][old(l, i)]
             /\ i \in Nat
  <2>1. CASE l # k
    <3>1. requests'[l] = requests[l]
      BY <1>1, <2>1 DEF IInv, TypeOK
    <3>2. QED BY <1>2, <2>1, <3>1
  <2>2. CASE l = k
    <3>1. requests'[k] = Tail(requests[k])
      BY <1>1 DEF IInv, TypeOK
    <3>2. requests[k] \in Seq(Requests) /\ i \in DOMAIN Tail(requests[k])
      BY <1>2, <2>2, <3>1
    <3>3. /\ i \in Nat /\ i + 1 \in DOMAIN requests[k]
          /\ Tail(requests[k])[i] = requests[k][i + 1]
      BY <1>1, <3>2
    <3>4. QED BY <2>2, <3>1, <3>3
  <2>3. QED BY <2>1, <2>2
<1>5. \A l \in Links : \A i \in DOMAIN requests'[l] : Begun(requests[l][i].id)'
  BY <1>4 DEF IInv, RequestsInv, Begun
<1>6. \A l \in Links, s \in Steps : \A i \in DOMAIN requests'[l] :
         Waits(l, i, s)' => Waits(l, old(l, i), s)
  BY <1>4 DEF Waits
<1>7. ASSUME NEW l \in Links, NEW s \in Steps, NEW i \in DOMAIN requests'[l], Waits(l, i, s)'
      PROVE  sent'[s] # 0 /\ robot'[s] = "none"
  <2>1. Waits(l, old(l, i), s) /\ old(l, i) \in DOMAIN requests[l]
    BY <1>4, <1>6, <1>7
  <2> HIDE DEF old
  <2>2. sent[s] # 0 /\ robot[s] = "none"
    BY <2>1 DEF IInv, RequestsInv
  <2>3. ASSUME Head(requests[k]) = Request("assignment", s)
        PROVE  FALSE
    <3>1. 1 \in DOMAIN requests[k] /\ requests[k][1] = Head(requests[k])
      BY <1>1, <1>2
    <3>2. Waits(k, 1, s)
      BY <2>3, <3>1 DEF Waits
    <3>3. l = k /\ old(l, i) = 1
      BY <2>1, <3>1, <3>2 DEF IInv, RequestsInv
    <3>4. i + 1 = 1 /\ i \in DOMAIN Tail(requests[k])
      BY <1>1, <3>3 DEF old, IInv, TypeOK
    <3>5. i \in 1..Len(Tail(requests[k]))
      BY <1>1, <1>2, <3>4
    <3>6. QED BY <3>4, <3>5
  <2>4. QED BY <2>2, <2>3
<1>8. ASSUME NEW l \in Links, NEW n \in Links, NEW s \in Steps,
             NEW i \in DOMAIN requests'[l], NEW j \in DOMAIN requests'[n],
             Waits(l, i, s)', Waits(n, j, s)'
      PROVE  l = n /\ i = j
  <2>1. /\ Waits(l, old(l, i), s) /\ old(l, i) \in DOMAIN requests[l] /\ i \in Nat
        /\ Waits(n, old(n, j), s) /\ old(n, j) \in DOMAIN requests[n] /\ j \in Nat
    BY <1>4, <1>6, <1>8
  <2> HIDE DEF old
  <2>2. l = n /\ old(l, i) = old(n, j)
    BY <2>1 DEF IInv, RequestsInv
  <2>3. QED BY <2>1, <2>2 DEF old
<1>9. QED BY <1>3, <1>5, <1>7, <1>8 DEF RequestsInv

(* Requests stay where they are while robots begin nothing.                *)
LEMMA RequestsSame ==
    ASSUME IInv, UNCHANGED <<requests, step, sent>>,
           \A s \in Steps : robot[s] = "none" => robot'[s] = "none"
    PROVE  RequestsInv' /\ requests' \in [Links -> Seq(Requests)]
<1>1. RequestsInv'
  BY DEF IInv, RequestsInv, Begun, Waits
<1>2. QED BY <1>1 DEF IInv, TypeOK

(* Replies are built from typed parts.                                     *)
LEMMA ReplyType ==
    ASSUME NEW s \in Steps,
           NEW k \in {"assignment_ack", "outcome", "cancellation_ack", "assignment_snapshot"},
           NEW st \in KnownTerminal \cup {"accepted", "unknown", "already_terminal", "none"}
    PROVE  /\ ReplyMsg(k, s, st) \in Replies
           /\ ReplyMsg(k, s, st).kind = k /\ ReplyMsg(k, s, st).id = s
           /\ ReplyMsg(k, s, st).status = st
BY DEF ReplyMsg, Replies

(* One or two answers that are true.                                       *)
LEMMA OneAnswer ==
    ASSUME NEW m \in Replies, NEW truth, TrueOf(truth, m)
    PROVE  <<m>> \in Seq(Replies) /\ \A j \in DOMAIN <<m>> : TrueOf(truth, <<m>>[j])
OBVIOUS

(* Two true answers.                                                       *)
LEMMA TwoAnswers ==
    ASSUME NEW m \in Replies, NEW n \in Replies, NEW truth,
           TrueOf(truth, m), TrueOf(truth, n)
    PROVE  <<m, n>> \in Seq(Replies) /\ \A j \in DOMAIN <<m, n>> : TrueOf(truth, <<m, n>>[j])
OBVIOUS

(* A refusal says nothing of the outcome of native work.                   *)
LEMMA RefusedTrue ==
    ASSUME NEW s \in Steps, NEW truth, truth[s] # "none"
    PROVE  Refused(s) \in Seq(Replies) /\ \A j \in DOMAIN Refused(s) : TrueOf(truth, Refused(s)[j])
<1> DEFINE m == ReplyMsg("assignment_ack", s, "rejected")
           n == ReplyMsg("outcome", s, "rejected")
<1>1. /\ m \in Replies /\ m.kind = "assignment_ack" /\ m.id = s /\ m.status = "rejected"
      /\ n \in Replies /\ n.kind = "outcome" /\ n.id = s /\ n.status = "rejected"
  BY ReplyType DEF KnownTerminal
<1> HIDE DEF m, n
<1>2. TrueOf(truth, m) /\ TrueOf(truth, n)
  BY <1>1 DEF TrueOf, KnownTerminal
<1>3. QED BY <1>1, <1>2, TwoAnswers DEF Refused, m, n

(* The request at the head of a queue.                                     *)
LEMMA HeadRequest ==
    ASSUME IInv, NEW k \in Links, requests[k] # <<>>
    PROVE  /\ Head(requests[k]).id \in Steps
           /\ Head(requests[k]).kind = "assignment" =>
                 /\ Head(requests[k]) = Request("assignment", Head(requests[k]).id)
                 /\ sent[Head(requests[k]).id] # 0 /\ robot[Head(requests[k]).id] = "none"
<1> DEFINE m == Head(requests[k])
<1>1. requests[k] \in Seq(Requests)
  BY DEF IInv, TypeOK
<1>2. m \in Requests /\ 1 \in DOMAIN requests[k] /\ requests[k][1] = m
  BY <1>1
<1>3. m.id \in Steps /\ (m.kind = "assignment" => m = Request("assignment", m.id))
  BY <1>2 DEF Requests, Request
<1>4. m.kind = "assignment" => Waits(k, 1, m.id)
  BY <1>2, <1>3 DEF Waits
<1>5. m.kind = "assignment" => sent[m.id] # 0 /\ robot[m.id] = "none"
  BY <1>2, <1>3, <1>4 DEF IInv, RequestsInv
<1>6. QED BY <1>3, <1>5

(* A robot that only answers keeps its truth.                              *)
LEMMA RobotUnchanged ==
    ASSUME IInv, robot' = robot
    PROVE  RobotEvolves
BY DEF IInv, TypeOK, SentInv, RobotEvolves, RobotStatuses, KnownTerminal

(* A robot takes or refuses an assignment it did not know.                 *)
LEMMA RobotAssignmentKeeps ==
    ASSUME IInv, NEW k \in Links, RobotAssignment(k)
    PROVE  IInv'
<1> DEFINE s == Head(requests[k]).id
<1>1. /\ Handles(k, "assignment")
      /\ requests[k] # <<>> /\ Head(requests[k]).kind = "assignment"
      /\ UNCHANGED <<journalVars, proc, session, threadVars, epoch, again, sent, commands>>
  BY DEF RobotAssignment, Handles
<1>2. /\ s \in Steps /\ Head(requests[k]) = Request("assignment", s)
      /\ sent[s] # 0 /\ robot[s] = "none"
  BY <1>1, HeadRequest
<1>3. \/ /\ robot' = [robot EXCEPT ![s] = "running"]
         /\ Answer(s, <<ReplyMsg("assignment_ack", s, "accepted")>>)
      \/ /\ robot' = [robot EXCEPT ![s] = "refused"]
         /\ Answer(s, Refused(s))
  BY DEF RobotAssignment
<1> HIDE DEF s
<1>4. RobotEvolves
  BY <1>2, <1>3 DEF IInv, TypeOK, SentInv, RobotEvolves, RobotStatuses, KnownTerminal
<1>5. RequestsInv' /\ requests' \in [Links -> Seq(Requests)]
  <2>1. \A q \in Steps : robot[q] = "none" /\ robot'[q] # "none" =>
           Head(requests[k]) = Request("assignment", q)
    BY <1>2, <1>3 DEF IInv, TypeOK
  <2>2. QED BY <1>1, <2>1, HandlesKeeps DEF journalVars
<1>6. \A q \in again' : robot'[q] # "none"
  BY <1>1, <1>4 DEF IInv, TypeOK, RepliesInv, RobotEvolves
<1>7. robot'[s] # "none"
  BY <1>2, <1>3 DEF IInv, TypeOK
<1>8. RepliesGrow /\ RepliesInv'
  <2>1. CASE Answer(s, <<ReplyMsg("assignment_ack", s, "accepted")>>)
    <3> DEFINE m == ReplyMsg("assignment_ack", s, "accepted")
    <3>1. m \in Replies /\ m.kind = "assignment_ack" /\ m.id = s
      BY <1>2, ReplyType
    <3> HIDE DEF m
    <3>2. TrueOf(robot', m)
      BY <1>7, <3>1 DEF TrueOf
    <3>3. <<m>> \in Seq(Replies) /\ \A j \in DOMAIN <<m>> : TrueOf(robot', <<m>>[j])
      BY <3>1, <3>2, OneAnswer
    <3>4. QED BY <1>2, <1>4, <1>6, <2>1, <3>3, AnswerKeeps DEF m
  <2>2. CASE Answer(s, Refused(s))
    BY <1>2, <1>4, <1>6, <1>7, <2>2, RefusedTrue, AnswerKeeps
  <2>3. QED BY <1>3, <2>1, <2>2
<1>9. epoch' \in [Robots -> 0..MaxRobotStops] /\ again' \in SUBSET Steps
  BY <1>1 DEF IInv, TypeOK
<1>10. QED BY <1>1, <1>4, <1>5, <1>8, <1>9, RobotStepKeeps

(* A robot records an outcome and reports it.                              *)
LEMMA RobotOutcomeKeeps ==
    ASSUME IInv, NEW s \in Steps, NEW o \in NativeStatuses, RobotOutcome(s, o)
    PROVE  IInv'
<1> DEFINE m == ReplyMsg("outcome", s, o)
<1>1. /\ robot[s] = "running" /\ robot' = [robot EXCEPT ![s] = o]
      /\ Answer(s, <<m>>)
      /\ UNCHANGED <<journalVars, proc, session, threadVars, requests, epoch, again, sent,
                     commands>>
  BY DEF RobotOutcome
<1>2. o \in KnownTerminal \cup {"unknown"}
  BY CoordinatorAssumption
<1>3. m \in Replies /\ m.kind = "outcome" /\ m.id = s /\ m.status = o
  BY <1>2, ReplyType DEF KnownTerminal
<1> HIDE DEF m
<1>4. RobotEvolves
  BY <1>1, <1>2 DEF IInv, TypeOK, SentInv, RobotEvolves, RobotStatuses, KnownTerminal
<1>5. \A q \in again' : robot'[q] # "none"
  BY <1>1, <1>4 DEF IInv, TypeOK, RepliesInv, RobotEvolves
<1>6. TrueOf(robot', m)
  BY <1>1, <1>2, <1>3 DEF TrueOf, KnownTerminal, IInv, TypeOK
<1>7. RepliesGrow /\ RepliesInv'
  <2>1. <<m>> \in Seq(Replies) /\ \A j \in DOMAIN <<m>> : TrueOf(robot', <<m>>[j])
    BY <1>3, <1>6, OneAnswer
  <2>2. QED BY <1>1, <1>4, <1>5, <2>1, AnswerKeeps
<1>8. RequestsInv' /\ requests' \in [Links -> Seq(Requests)]
  BY <1>1, RequestsSame DEF IInv, TypeOK, journalVars
<1>9. epoch' \in [Robots -> 0..MaxRobotStops] /\ again' \in SUBSET Steps
  BY <1>1 DEF IInv, TypeOK
<1>10. QED BY <1>1, <1>4, <1>7, <1>8, <1>9, RobotStepKeeps

(* A robot answers a query with what it knows.                             *)
LEMMA RobotQueryKeeps ==
    ASSUME IInv, NEW k \in Links, RobotQuery(k)
    PROVE  IInv'
<1> DEFINE s  == Head(requests[k]).id
           st == IF HasOutcome(s) THEN robot[s] ELSE "none"
           m  == ReplyMsg("assignment_snapshot", s, st)
<1>1. /\ Handles(k, "assignment_query") /\ requests[k] # <<>>
      /\ UNCHANGED <<journalVars, proc, session, threadVars, robot, epoch, again, sent,
                     commands>>
      /\ \/ replies' = replies
         \/ robot[s] # "none" /\ Answer(s, <<m>>)
  BY DEF RobotQuery, Handles, robotVars
<1>2. s \in Steps
  BY <1>1, HeadRequest
<1>3. st \in KnownTerminal \cup {"unknown", "none"}
      /\ (st # "none" => st = robot[s])
  BY DEF HasOutcome, KnownTerminal
<1> HIDE DEF s, st
<1>4. m \in Replies /\ m.kind = "assignment_snapshot" /\ m.id = s /\ m.status = st
  BY <1>2, <1>3, ReplyType DEF KnownTerminal
<1> HIDE DEF m
<1>5. RobotEvolves
  BY <1>1, RobotUnchanged
<1>6. \A q \in again' : robot'[q] # "none"
  BY <1>1 DEF IInv, RepliesInv
<1>7. RepliesGrow /\ RepliesInv'
  <2>1. CASE replies' = replies
    BY <1>5, <1>6, <2>1, SilentKeeps
  <2>2. CASE robot[s] # "none" /\ Answer(s, <<m>>)
    <3>1. TrueOf(robot', m)
      BY <1>1, <1>3, <1>4, <2>2 DEF TrueOf
    <3>2. <<m>> \in Seq(Replies) /\ \A j \in DOMAIN <<m>> : TrueOf(robot', <<m>>[j])
      BY <1>4, <3>1, OneAnswer
    <3>3. QED BY <1>2, <1>5, <1>6, <2>2, <3>2, AnswerKeeps
  <2>3. QED BY <1>1, <2>1, <2>2
<1>8. RequestsInv' /\ requests' \in [Links -> Seq(Requests)]
  BY <1>1, HandlesKeeps DEF journalVars
<1>9. epoch' \in [Robots -> 0..MaxRobotStops] /\ again' \in SUBSET Steps
  BY <1>1 DEF IInv, TypeOK
<1>10. QED BY <1>1, <1>5, <1>7, <1>8, <1>9, RobotStepKeeps

(* A robot answers a cancellation request.                                 *)
LEMMA RobotCancellationKeeps ==
    ASSUME IInv, NEW k \in Links, RobotCancellation(k)
    PROVE  IInv'
<1> DEFINE s == Head(requests[k]).id
           Ack(st) == ReplyMsg("cancellation_ack", s, st)
<1>1. /\ Handles(k, "cancellation_request") /\ requests[k] # <<>>
      /\ UNCHANGED <<journalVars, proc, session, threadVars, epoch, again, sent, commands>>
  BY DEF RobotCancellation, Handles
<1>2. s \in Steps
  BY <1>1, HeadRequest
<1>3. \/ robot' = robot /\ replies' = replies
      \/ /\ HasOutcome(s) /\ robot' = robot
         /\ Answer(s, <<Ack("already_terminal"), ReplyMsg("outcome", s, robot[s])>>)
      \/ /\ robot[s] = "interrupted" /\ robot' = robot
         /\ Answer(s, <<Ack("unknown")>>)
      \/ /\ robot[s] = "running" /\ robot' = robot
         /\ Answer(s, <<Ack("rejected")>>)
      \/ /\ robot[s] = "running" /\ robot' = [robot EXCEPT ![s] = "cancelled"]
         /\ Answer(s, <<Ack("accepted"), ReplyMsg("outcome", s, "cancelled")>>)
  BY DEF RobotCancellation
<1> HIDE DEF s
<1>4. RobotEvolves /\ \A q \in Steps : robot[q] = "none" => robot'[q] = "none"
  <2>1. CASE robot' = robot
    BY <2>1, RobotUnchanged
  <2>2. CASE robot[s] = "running" /\ robot' = [robot EXCEPT ![s] = "cancelled"]
    BY <1>2, <2>2 DEF IInv, TypeOK, SentInv, RobotEvolves, RobotStatuses, KnownTerminal
  <2>3. QED BY <1>3, <2>1, <2>2
<1>5. \A q \in again' : robot'[q] # "none"
  BY <1>1, <1>4 DEF IInv, TypeOK, RepliesInv, RobotEvolves
<1>6. ASSUME NEW st \in {"already_terminal", "unknown", "rejected", "accepted"},
             robot'[s] # "none"
      PROVE  Ack(st) \in Replies /\ TrueOf(robot', Ack(st))
  <2>1. /\ Ack(st) \in Replies /\ Ack(st).kind = "cancellation_ack" /\ Ack(st).id = s
    BY <1>2, ReplyType DEF KnownTerminal
  <2> HIDE DEF Ack
  <2>2. QED BY <1>6, <2>1 DEF TrueOf
<1>7. ASSUME NEW st \in KnownTerminal \cup {"unknown"}, robot'[s] = st
      PROVE  /\ ReplyMsg("outcome", s, st) \in Replies
             /\ TrueOf(robot', ReplyMsg("outcome", s, st))
  <2> DEFINE m == ReplyMsg("outcome", s, st)
  <2>1. m \in Replies /\ m.kind = "outcome" /\ m.id = s /\ m.status = st
    BY <1>2, ReplyType DEF KnownTerminal
  <2> HIDE DEF m
  <2>2. TrueOf(robot', m)
    BY <1>7, <2>1 DEF TrueOf, KnownTerminal
  <2>3. QED BY <2>1, <2>2 DEF m
<1> HIDE DEF Ack
<1>8. ASSUME NEW st \in {"unknown", "rejected"}, robot'[s] # "none", Answer(s, <<Ack(st)>>)
      PROVE  RepliesGrow /\ RepliesInv'
  <2>1. Ack(st) \in Replies /\ TrueOf(robot', Ack(st))
    BY <1>6, <1>8
  <2>2. /\ <<Ack(st)>> \in Seq(Replies)
        /\ \A j \in DOMAIN <<Ack(st)>> : TrueOf(robot', <<Ack(st)>>[j])
    BY <2>1, OneAnswer
  <2>3. QED BY <1>2, <1>4, <1>5, <1>8, <2>2, AnswerKeeps
<1>9. ASSUME NEW st \in {"already_terminal", "accepted"},
             NEW o \in KnownTerminal \cup {"unknown"}, robot'[s] = o,
             Answer(s, <<Ack(st), ReplyMsg("outcome", s, o)>>)
      PROVE  RepliesGrow /\ RepliesInv'
  <2> DEFINE m == Ack(st)
             n == ReplyMsg("outcome", s, o)
  <2>1. m \in Replies /\ TrueOf(robot', m) /\ n \in Replies /\ TrueOf(robot', n)
    BY <1>6, <1>7, <1>9 DEF KnownTerminal
  <2> HIDE DEF m, n
  <2>2. <<m, n>> \in Seq(Replies) /\ \A j \in DOMAIN <<m, n>> : TrueOf(robot', <<m, n>>[j])
    BY <2>1, TwoAnswers
  <2>3. QED BY <1>2, <1>4, <1>5, <1>9, <2>2, AnswerKeeps DEF m, n
<1>10. RepliesGrow /\ RepliesInv'
  <2>1. CASE robot' = robot /\ replies' = replies
    BY <1>4, <1>5, <2>1, SilentKeeps
  <2>2. CASE /\ HasOutcome(s) /\ robot' = robot
             /\ Answer(s, <<Ack("already_terminal"), ReplyMsg("outcome", s, robot[s])>>)
    BY <1>9, <2>2 DEF HasOutcome, KnownTerminal
  <2>3. CASE /\ robot[s] = "interrupted" /\ robot' = robot
             /\ Answer(s, <<Ack("unknown")>>)
    BY <1>8, <2>3
  <2>4. CASE /\ robot[s] = "running" /\ robot' = robot
             /\ Answer(s, <<Ack("rejected")>>)
    BY <1>8, <2>4
  <2>5. CASE /\ robot[s] = "running" /\ robot' = [robot EXCEPT ![s] = "cancelled"]
             /\ Answer(s, <<Ack("accepted"), ReplyMsg("outcome", s, "cancelled")>>)
    <3>1. robot'[s] = "cancelled"
      BY <1>2, <2>5 DEF IInv, TypeOK
    <3>2. QED BY <1>9, <2>5, <3>1 DEF KnownTerminal
  <2>6. QED BY <1>3, <2>1, <2>2, <2>3, <2>4, <2>5
<1>11. RequestsInv' /\ requests' \in [Links -> Seq(Requests)]
  BY <1>1, <1>4, HandlesKeeps DEF journalVars
<1>12. epoch' \in [Robots -> 0..MaxRobotStops] /\ again' \in SUBSET Steps
  BY <1>1 DEF IInv, TypeOK
<1>13. QED BY <1>1, <1>4, <1>10, <1>11, <1>12, RobotStepKeeps

(* A robot restarts: what ran is interrupted or finished.                  *)
LEMMA RobotRestartKeeps ==
    ASSUME IInv, NEW r \in Robots, NEW i \in SUBSET Steps, NEW h \in SUBSET Steps,
           RobotRestart(r, i, h)
    PROVE  IInv'
<1> DEFINE working == {s \in Steps : RobotOf[s] = r /\ robot[s] = "running"}
<1>1. /\ epoch[r] < MaxRobotStops /\ epoch' = [epoch EXCEPT ![r] = @ + 1]
      /\ h \subseteq working /\ again' = again \cup h
      /\ UNCHANGED <<journalVars, proc, session, threadVars, requests, replies, sent,
                     commands>>
  BY DEF RobotRestart
<1>2. PICK o \in NativeStatuses :
         robot' = [s \in Steps |-> IF s \notin working THEN robot[s]
                                   ELSE IF s \in i THEN "interrupted" ELSE o]
  BY DEF RobotRestart
<1>3. o \in KnownTerminal \cup {"unknown"}
  BY CoordinatorAssumption
<1>4. RobotEvolves /\ \A q \in Steps : robot[q] = "none" => robot'[q] = "none"
  BY <1>2, <1>3 DEF IInv, TypeOK, SentInv, RobotEvolves, RobotStatuses, KnownTerminal
<1>5. \A q \in again' : robot'[q] # "none"
  <2>1. \A q \in again' : q \in Steps /\ robot[q] # "none"
    BY <1>1 DEF IInv, TypeOK, RepliesInv
  <2>2. QED BY <1>4, <2>1 DEF RobotEvolves
<1>6. RepliesGrow /\ RepliesInv'
  BY <1>1, <1>4, <1>5, SilentKeeps
<1>7. RequestsInv' /\ requests' \in [Links -> Seq(Requests)]
  BY <1>1, <1>4, RequestsSame DEF journalVars
<1>8. epoch' \in [Robots -> 0..MaxRobotStops]
  <2>1. epoch[r] \in Nat /\ epoch[r] + 1 \in 0..MaxRobotStops
    BY <1>1, CoordinatorAssumption DEF IInv, TypeOK
  <2>2. QED BY <1>1, <2>1 DEF IInv, TypeOK
<1>9. again' \in SUBSET Steps
  BY <1>1 DEF IInv, TypeOK
<1>10. QED BY <1>1, <1>4, <1>6, <1>7, <1>8, <1>9, RobotStepKeeps

(* A robot handles an interrupted request again.                           *)
LEMMA RobotAgainKeeps ==
    ASSUME IInv, NEW s \in Steps, RobotAgain(s)
    PROVE  IInv'
<1> DEFINE st == IF HasOutcome(s) THEN robot[s] ELSE "unknown"
           m  == ReplyMsg("assignment_ack", s, st)
           n  == ReplyMsg("outcome", s, st)
<1>1. /\ s \in again /\ again' = again \ {s}
      /\ Answer(s, <<m, n>>) \/ Answer(s, Refused(s))
      /\ UNCHANGED <<journalVars, proc, session, threadVars, requests, robot, epoch, sent,
                     commands>>
  BY DEF RobotAgain
<1>2. robot[s] # "none" /\ robot' = robot
  BY <1>1 DEF IInv, RepliesInv
<1>3. /\ st \in KnownTerminal \cup {"unknown"}
      /\ st # "unknown" => st = robot[s]
  BY DEF HasOutcome, KnownTerminal
<1> HIDE DEF st
<1>4. /\ m \in Replies /\ m.kind = "assignment_ack" /\ m.id = s /\ m.status = st
      /\ n \in Replies /\ n.kind = "outcome" /\ n.id = s /\ n.status = st
  BY <1>3, ReplyType DEF KnownTerminal
<1> HIDE DEF m, n
<1>5. TrueOf(robot', m) /\ TrueOf(robot', n)
  BY <1>2, <1>3, <1>4 DEF TrueOf, KnownTerminal
<1>6. RobotEvolves
  BY <1>2, RobotUnchanged
<1>7. \A q \in again' : robot'[q] # "none"
  BY <1>1, <1>2 DEF IInv, RepliesInv
<1>8. RepliesGrow /\ RepliesInv'
  <2>1. CASE Answer(s, <<m, n>>)
    <3>1. /\ <<m, n>> \in Seq(Replies)
          /\ \A j \in DOMAIN <<m, n>> : TrueOf(robot', <<m, n>>[j])
      BY <1>4, <1>5, TwoAnswers
    <3>2. QED BY <1>6, <1>7, <2>1, <3>1, AnswerKeeps
  <2>2. CASE Answer(s, Refused(s))
    BY <1>2, <1>6, <1>7, <2>2, RefusedTrue, AnswerKeeps
  <2>3. QED BY <1>1, <2>1, <2>2
<1>9. RequestsInv' /\ requests' \in [Links -> Seq(Requests)]
  BY <1>1, RequestsSame DEF journalVars
<1>10. epoch' \in [Robots -> 0..MaxRobotStops] /\ again' \in SUBSET Steps
  BY <1>1 DEF IInv, TypeOK
<1>11. QED BY <1>1, <1>6, <1>8, <1>9, <1>10, RobotStepKeeps

(* An operator resolves a robot's interrupted work.                        *)
LEMMA RobotResolveKeeps ==
    ASSUME IInv, NEW s \in Steps, NEW o \in Resolutions, RobotResolve(s, o)
    PROVE  IInv'
<1>1. /\ robot[s] = "interrupted" /\ robot' = [robot EXCEPT ![s] = o]
      /\ UNCHANGED <<journalVars, proc, session, threadVars, requests, replies, epoch, again,
                     sent, commands>>
  BY DEF RobotResolve
<1>2. o \in KnownTerminal
  BY CoordinatorAssumption
<1>3. RobotEvolves /\ \A q \in Steps : robot[q] = "none" => robot'[q] = "none"
  BY <1>1, <1>2 DEF IInv, TypeOK, SentInv, RobotEvolves, RobotStatuses, KnownTerminal
<1>4. \A q \in again' : robot'[q] # "none"
  BY <1>1, <1>3 DEF IInv, TypeOK, RepliesInv, RobotEvolves
<1>5. RepliesGrow /\ RepliesInv'
  BY <1>1, <1>3, <1>4, SilentKeeps
<1>6. RequestsInv' /\ requests' \in [Links -> Seq(Requests)]
  BY <1>1, <1>3, RequestsSame DEF journalVars
<1>7. epoch' \in [Robots -> 0..MaxRobotStops] /\ again' \in SUBSET Steps
  BY <1>1 DEF IInv, TypeOK
<1>8. QED BY <1>1, <1>3, <1>5, <1>6, <1>7, RobotStepKeeps

-----------------------------------------------------------------------------
(* The invariant.                                                          *)

(* Nothing is there at first.                                              *)
LEMMA InitInv == Init => IInv
<1> SUFFICES ASSUME Init PROVE IInv
  OBVIOUS
<1>1. TypeOK
  BY CoordinatorAssumption DEF Init, TypeOK, StepStatus
<1>2. ThreadsInv /\ TodoInv /\ PublishInv
  BY UserApart DEF Init, ThreadsInv, TodoInv, PublishInv, Publishing, Threads
<1>3. RowsInv /\ SentInv /\ RunMatchesSteps /\ SettledAgrees
  BY CoordinatorAssumption
  DEF Init, RowsInv, SentInv, RunMatchesSteps, SettledAgrees
<1>4. RequestsInv
  BY DEF Init, RequestsInv, Waits
<1>5. RepliesInv
  BY DEF Init, RepliesInv
<1>6. QED
  BY <1>1, <1>2, <1>3, <1>4, <1>5 DEF IInv

(* Whatever a robot does.                                                  *)
LEMMA RobotKeeps == ASSUME IInv, Robot PROVE IInv'
<1>1. CASE \E k \in Links : RobotAssignment(k) \/ RobotQuery(k) \/ RobotCancellation(k)
  BY <1>1, RobotAssignmentKeeps, RobotQueryKeeps, RobotCancellationKeeps
<1>2. CASE \E s \in Steps, o \in NativeStatuses : RobotOutcome(s, o)
  BY <1>2, RobotOutcomeKeeps
<1>3. CASE \E s \in Steps : RobotAgain(s)
  BY <1>3, RobotAgainKeeps
<1>4. CASE \E r \in Robots, i, h \in SUBSET Steps : RobotRestart(r, i, h)
  BY <1>4, RobotRestartKeeps
<1>5. CASE \E s \in Steps, o \in Resolutions : RobotResolve(s, o)
  BY <1>5, RobotResolveKeeps
<1>6. QED
  BY <1>1, <1>2, <1>3, <1>4, <1>5 DEF Robot

(* A step that changes nothing.                                            *)
LEMMA StutterKeeps == ASSUME IInv, UNCHANGED vars PROVE IInv'
<1>1. TypeOK' /\ ThreadsInv' /\ TodoInv'
  BY DEF IInv, vars, journalVars, threadVars, robotVars, TypeOK, ThreadsInv, TodoInv, Begun,
         Reply
<1>2. \A t \in Threads, s \in Steps : Publishing(t, s)' => Publishing(t, s)
  BY DEF vars, threadVars, Publishing, Next1
<1>3. UNCHANGED <<requests, robotVars, sent>> /\ UNCHANGED journalVars /\ replies' = replies
  BY DEF vars, journalVars, robotVars
<1>4. QED
  BY <1>1, <1>2, <1>3, QuietStepKeeps, RepliesSame, SameJournal

(* Every step of the system preserves the invariant.                       *)
LEMMA NextKeeps == IInv /\ [Next]_vars => IInv'
<1> SUFFICES ASSUME IInv, [Next]_vars PROVE IInv'
  OBVIOUS
<1>1. CASE \E t \in Threads : Dispatch(t)
  BY <1>1, DispatchKeeps
<1>2. CASE \E t \in Channels : Handler(t)
  BY <1>2, HandlerKeeps
<1>3. CASE Continue
  BY <1>3, ContinueKeeps
<1>4. CASE Commands
  BY <1>4, CommandsKeep
<1>5. CASE \/ Stop \/ Start \/ \E t \in Channels : ProcessUnsubscribed(t)
           \/ \E mode \in {"up", "cancel"} : OpenStore(mode)
  BY <1>5, ProcessKeeps
<1>6. CASE Robot
  BY <1>6, RobotKeeps
<1>7. CASE UNCHANGED vars
  BY <1>7, StutterKeeps
<1>8. QED
  BY <1>1, <1>2, <1>3, <1>4, <1>5, <1>6, <1>7 DEF Next

(* The inductive invariant holds throughout.                               *)
THEOREM Invariance == Spec => []IInv
<1>1. QED
  BY InitInv, NextKeeps, PTL DEF Spec

-----------------------------------------------------------------------------
(* What follows.                                                           *)

(* Journal, threads, queues and robots stay within their types.            *)
THEOREM TypeCorrect == Spec => []TypeOK
<1>1. IInv => TypeOK
  BY DEF IInv
<1>2. QED
  BY <1>1, Invariance, PTL

(* mark_dispatched lets one thread publish an assignment, once, however    *)
(* many threads found its step ready and whatever restarts come between.   *)
THEOREM PublishesOnce == Spec => []PublishedOnce
<1>1. IInv => PublishedOnce
  BY DEF IInv, SentInv, PublishedOnce
<1>2. QED
  BY <1>1, Invariance, PTL

(* A finished step is what its robot recorded, and cancelled without the   *)
(* robot's word only if the assignment was never published.                *)
THEOREM JournalAgrees == Spec => []SettledAgrees
<1>1. IInv => SettledAgrees
  BY DEF IInv
<1>2. QED
  BY <1>1, Invariance, PTL

(* No robot knows of a step before the robots of its dependencies          *)
(* recorded success: the step was published, so the journal had its        *)
(* dependencies succeeded, and the journal agrees with the robots.         *)
THEOREM DependenciesFirst == Spec => []DependenciesDone
<1>1. IInv => DependenciesDone
  <2> SUFFICES ASSUME IInv, NEW s \in Steps, robot[s] # "none", NEW d \in Deps[s]
               PROVE  robot[d] = "succeeded"
    BY DEF DependenciesDone
  <2>1. d \in Steps
    BY CoordinatorAssumption
  <2>2. step[d] = "succeeded"
    BY DEF IInv, SentInv
  <2>3. QED
    BY <2>1, <2>2 DEF IInv, SettledAgrees
<1>2. QED
  BY <1>1, Invariance, PTL

(* Every transaction leaves the stored run status the one its steps give.  *)
THEOREM RunsMatch == Spec => []RunMatchesSteps
<1>1. IInv => RunMatchesSteps
  BY DEF IInv
<1>2. QED
  BY <1>1, Invariance, PTL

-----------------------------------------------------------------------------
(* Results are final.                                                      *)

(* What no step may do to a known terminal status.                         *)
Final == \A s \in Steps : step[s] \in KnownTerminal => step'[s] = step[s]

(* A transaction that writes one step keeps the result it may have.        *)
LEMMA SetStepFinal ==
    ASSUME TypeOK, NEW s \in Steps, NEW v, SetStep(s, v),
           step[s] \in KnownTerminal => v = step[s]
    PROVE  Final
BY DEF TypeOK, SetStep, Write, Final

(* Handlers: late or repeated outcomes and acknowledgements.               *)
LEMMA HandlerFinal ==
    ASSUME IInv, NEW t \in Channels, Handler(t)
    PROVE  Final
<1> DEFINE s == Reply(t).id
<1>1. TypeOK /\ t \in Threads
  BY UserApart DEF IInv
<1>2. ASSUME replies[t] # <<>> PROVE s \in Steps
  BY <1>2, HeadReply
<1>3. UNCHANGED journalVars => Final
  BY DEF journalVars, Final
<1>4. ASSUME Reconciles(t), replies[t] # <<>> PROVE Final
  BY <1>1, <1>2, <1>3, <1>4, SetStepFinal DEF Reconciles, KnownTerminal
<1>5. CASE ReadOutcome(t)
  BY <1>3, <1>5 DEF ReadOutcome
<1>6. CASE RecordOutcome(t)
  <2>1. replies[t] # <<>>
    BY <1>1, <1>6, AtWork DEF RecordOutcome
  <2>2. CASE TakesOutcome(s, Reply(t).status)
    <3>1. step[s] \in KnownTerminal => Reply(t).status = step[s]
      BY <2>2 DEF TakesOutcome, InFlight, KnownTerminal
    <3>2. SetStep(s, Reply(t).status)
      BY <1>6, <2>2 DEF RecordOutcome
    <3>3. QED BY <1>1, <1>2, <2>1, <3>1, <3>2, SetStepFinal
  <2>3. CASE ~TakesOutcome(s, Reply(t).status)
    BY <1>3, <1>6, <2>3 DEF RecordOutcome
  <2>4. QED BY <2>2, <2>3
<1>7. CASE ReconcileOutcome(t)
  BY <1>1, <1>4, <1>7, AtWork DEF ReconcileOutcome
<1>8. CASE TakeSnapshot(t)
  BY <1>4, <1>8 DEF TakeSnapshot, Takes
<1>9. CASE TakeAcknowledgement(t)
  <2>1. replies[t] # <<>>
    BY <1>9 DEF TakeAcknowledgement, Takes
  <2>2. CASE TakesAck(s) /\ SetStep(s, Reply(t).status)
    <3>1. step[s] \notin KnownTerminal
      BY <2>2 DEF TakesAck, KnownTerminal
    <3>2. QED BY <1>1, <1>2, <2>1, <2>2, <3>1, SetStepFinal
  <2>3. QED BY <1>3, <1>9, <2>2 DEF TakeAcknowledgement
<1>10. CASE TakeCancellationAck(t)
  <2>1. replies[t] # <<>>
    BY <1>10 DEF TakeCancellationAck, Takes
  <2>2. PICK v : SetStep(s, v) /\ (step[s] # "cancellation_requested" => v = step[s])
    BY <1>10 DEF TakeCancellationAck
  <2>3. step[s] \in KnownTerminal => v = step[s]
    BY <2>2 DEF KnownTerminal
  <2>4. QED BY <1>1, <1>2, <2>1, <2>2, <2>3, SetStepFinal
<1>11. QED
  BY <1>5, <1>6, <1>7, <1>8, <1>9, <1>10 DEF Handler

(* Every step of the system.                                               *)
LEMMA NextFinal == IInv /\ [Next]_vars => Final
<1> SUFFICES ASSUME IInv, [Next]_vars PROVE Final
  OBVIOUS
<1>1. TypeOK /\ JournalInv
  BY JournalPart DEF IInv
<1>2. step' = step => Final
  BY DEF Final
<1>3. Advances => Final
  BY DEF Advances, Final
<1>4. ASSUME NEW t \in Threads, Dispatch(t) PROVE Final
  <2>1. CASE MarkDispatched(t)
    <3>1. \/ step' = step
          \/ /\ step[Next1(t)] = "pending" /\ step' = [step EXCEPT ![Next1(t)] = "dispatched"]
      BY <2>1 DEF MarkDispatched, MayDispatch
    <3>2. QED BY <1>1, <3>1 DEF Final, TypeOK, KnownTerminal
  <2>2. QED
    BY <1>2, <1>4, <2>1
    DEF Dispatch, ReadReady, PublishAssignment, PublishFails, journalVars
<1>5. CASE \E t \in Channels : Handler(t)
  BY <1>5, HandlerFinal
<1>6. CASE Continue
  <2>1. CASE CreateRun
    <3> DEFINE new == {p \in plans[User] : run[p] = "absent"}
               q   == FirstOf(new)
    <3>1. CASE new = {}
      BY <1>2, <2>1, <3>1 DEF CreateRun, journalVars
    <3>2. CASE new # {}
      <4>1. q \in new
        BY <3>2, FirstIn
      <4>2. q \in Plans /\ run[q] = "absent"
        BY <1>1, <4>1, UserApart DEF TypeOK
      <4>3. /\ step' = [s \in Steps |-> IF PlanOf[s] = q THEN "pending" ELSE step[s]]
            /\ run' = [run EXCEPT ![q] = "active"]
        BY <2>1, <3>2 DEF CreateRun
      <4>4. QED BY <1>1, <1>3, <4>2, <4>3, CreateAdvances
    <3>3. QED BY <3>1, <3>2
  <2>2. QED
    BY <1>2, <1>6, <2>1 DEF Continue, PublishCancellation, PublishQuery, journalVars
<1>7. CASE Commands
  <2>1. ASSUME NEW p \in Plans, Cancel(p) PROVE Final
    BY <1>1, <1>3, <2>1, CancelAdvances DEF Cancel
  <2>2. QED
    BY <1>2, <1>7, <2>1 DEF Commands, Submit, Replan, Creates, Reconcile, journalVars
<1>8. CASE \/ Stop \/ Start \/ \E t \in Channels : ProcessUnsubscribed(t)
  BY <1>2, <1>8 DEF Stop, Start, ProcessUnsubscribed, journalVars
<1>9. CASE \E mode \in {"up", "cancel"} : OpenStore(mode)
  BY <1>1, <1>2, <1>3, <1>9, RecoverAdvances DEF OpenStore, journalVars
<1>10. CASE Robot
  BY <1>2, <1>10
  DEF Robot, RobotAssignment, RobotQuery, RobotCancellation, RobotOutcome, RobotAgain,
      RobotRestart, RobotResolve, journalVars
<1>11. CASE UNCHANGED vars
  BY <1>2, <1>11 DEF vars, journalVars
<1>12. QED
  BY <1>4, <1>5, <1>6, <1>7, <1>8, <1>9, <1>10, <1>11 DEF Next

(* A known terminal step status is never replaced, whatever answers come   *)
(* late, twice or against each other, and whatever is cancelled, resumed   *)
(* or recovered.                                                           *)
THEOREM ResultsAreFinal == Spec => ResultsFinal
<1>1. IInv /\ [Next]_vars =>
        [\A s \in Steps : step[s] \in KnownTerminal => step'[s] = step[s]]_vars
  BY NextFinal DEF Final
<1>2. QED
  BY <1>1, Invariance, PTL DEF Spec, ResultsFinal
=============================================================================
