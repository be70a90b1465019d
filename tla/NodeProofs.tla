----------------------------- MODULE NodeProofs -----------------------------
(***************************************************************************)
(* The node, proved for any leases, certificates, assignments and bounds.  *)
(* A step of the node is a step of the authority store or leaves it alone, *)
(* so what AuthorityProofs shows of the store holds in the running system; *)
(* and native work is authorized, with the strengthening that a request in *)
(* the inbox is noted as allowed while its lease holds.                    *)
(***************************************************************************)
EXTENDS Node, AuthorityProofs, CredentialsProofs, TLAPS

LEMMA BoundsAreNumbers ==
    /\ MaxTime \in Nat
    /\ MaxRevision \in Nat
    /\ 1..MaxRevision \subseteq Nat \ {0}
<1>1. MaxTime \in Nat /\ MaxRevision \in Nat
  BY NodeAssumption
<1> QED
  BY <1>1

LEMMA StoreStep ==
    ASSUME [Next]_vars
    PROVE  [AuthorityNext]_authorityVars
<1>1. CASE Authority
  BY <1>1, BoundsAreNumbers DEF Authority, AuthorityNext
<1>2. CASE Tick \/ Credential \/ Enroll \/ Process \/ UNCHANGED vars
  BY <1>2 DEF Tick, Credential, Enroll, Process, Start, HealthCheck, Signal, CloseStores,
              CloseBus, Crash, vars
<1>3. ASSUME NEW a \in Assignments, Handler(a)
      PROVE  UNCHANGED authorityVars
  BY <1>3 DEF Handler, Handshake, Receive, Authorize, Claim, Submit
<1>4. ASSUME NEW a \in Assignments, Work(a) \/ Finish(a) \/ CancelWork(a) \/ Action(a)
      PROVE  UNCHANGED authorityVars
  BY <1>4 DEF Work, Finish, CancelWork, Action
<1> QED
  BY <1>1, <1>2, <1>3, <1>4 DEF Next

(* The authority store of a running node behaves like the store alone: the *)
(* node only reads it, and its operators' commands are grants and          *)
(* revocations.                                                            *)
THEOREM NodeUsesAuthority == Spec => AuthoritySpec
<1>1. Init => AuthorityInit
  BY DEF Init
<1>2. [Next]_vars => [AuthorityNext]_authorityVars
  BY StoreStep
<1> QED
  BY <1>1, <1>2, PTL DEF Spec, AuthoritySpec

(* What ump-authority events prints explains the rows the node enforces.   *)
THEOREM NodeAudit == Spec => []AuditExplainsLeases
BY NodeUsesAuthority, AuditCorrect, PTL

(* A revoked lease stays revoked under the running node, and no lease      *)
(* changes its issuer.                                                     *)
THEOREM NodeLeasesAdvance == Spec => LeasesOnlyAdvance
BY NodeUsesAuthority, LeasesAdvance, PTL

-----------------------------------------------------------------------------
(* Authorized work.                                                        *)

WorkStates == {"none", "connected", "received", "authorized", "claimed", "queued",
               "executing", "done", "rejected", "dead", "lost"}
Started    == {"authorized", "claimed", "queued", "executing", "done"}

NodeTypes ==
    /\ now \in 0..MaxTime
    /\ phase \in {"down", "up", "closing", "closed"}
    /\ work \in [Assignments -> WorkStates]
    /\ allowed \subseteq Assignments

(* While its lease holds, a request in the inbox is noted as allowed.      *)
AllowedWhileHolding ==
    \A a \in Assignments : work[a] = "received" /\ LeaseHolds(a, now) => a \in allowed

AuthorizationInv == NodeTypes /\ WorkIsAuthorized /\ AllowedWhileHolding

(* What authorize checks implies what a lease promises: the uncertainty is *)
(* counted on both sides of the window.                                    *)
LEMMA AuthorizesHolds ==
    ASSUME AuthorityTypeOK, NEW a \in Assignments, NEW at \in Nat,
           Authorizes(Request[a].lease, Request[a].issuer, Request[a].capability, at)
    PROVE  LeaseHolds(a, at)
<1> DEFINE l == Request[a].lease
           t == lease[l].terms
<1>1. l \in Leases
  BY NodeAssumption
<1>2. lease[l] # NoLease /\ lease[l] \in Rows
  BY <1>1 DEF AuthorityTypeOK, Authorizes
<1>3. t \in Terms
  BY <1>2 DEF Rows
<1>4. t.issued \in Nat /\ t.expires \in Nat /\ t.uncertainty \in Nat
  BY <1>3, AuthorityAssumption
<1>5. /\ lease[l].status = "active" /\ t.issuer = Request[a].issuer
      /\ Request[a].capability \in t.capabilities
      /\ at >= t.issued + t.uncertainty /\ at + t.uncertainty < t.expires
  BY DEF Authorizes
<1> HIDE DEF t, l
<1>6. \A d \in 0..t.uncertainty : t.issued + d <= at /\ at + d < t.expires
  BY <1>4, <1>5
<1> QED
  BY <1>2, <1>5, <1>6 DEF LeaseHolds, t, l

(* Only the lease and the clock matter to what a lease promises.           *)
LEMMA HoldsUnchanged ==
    ASSUME UNCHANGED <<lease, now>>, NEW a \in Assignments
    PROVE  LeaseHolds(a, now)' <=> LeaseHolds(a, now)
BY DEF LeaseHolds

(* A step that changes neither the lease nor the clock and takes requests  *)
(* only onwards keeps the invariant.                                       *)
LEMMA QuietStep ==
    ASSUME AuthorizationInv, UNCHANGED <<lease, now>>,
           phase' \in {"down", "up", "closing", "closed"},
           work' \in [Assignments -> WorkStates], allowed' = allowed,
           \A a \in Assignments : work'[a] \in Started => work[a] \in Started,
           \A a \in Assignments :
              work'[a] = "received" => work[a] \in {"received"} \cup Started
    PROVE  AuthorizationInv'
<1>1. NodeTypes'
  BY DEF AuthorizationInv, NodeTypes
<1>2. \A a \in Assignments : work[a] \in Started => a \in allowed
  BY DEF AuthorizationInv, WorkIsAuthorized, Started
<1>3. WorkIsAuthorized'
  BY <1>2 DEF WorkIsAuthorized, Started
<1>4. AllowedWhileHolding'
  BY <1>2, HoldsUnchanged DEF AuthorizationInv, AllowedWhileHolding
<1> QED
  BY <1>1, <1>3, <1>4 DEF AuthorizationInv

LEMMA AuthorizationStep ==
    ASSUME AuthorizationInv, AuthorityTypeOK, [Next]_vars
    PROVE  AuthorizationInv'
<1> USE DEF WorkStates, Started
<1>1. /\ now \in 0..MaxTime /\ MaxTime \in Nat
      /\ phase \in {"down", "up", "closing", "closed"}
      /\ work \in [Assignments -> WorkStates] /\ allowed \subseteq Assignments
  BY BoundsAreNumbers DEF AuthorizationInv, NodeTypes
<1>2. \A a \in Assignments : work[a] \in Started => a \in allowed
  BY DEF AuthorizationInv, WorkIsAuthorized
<1>3. \A a \in Assignments : work[a] = "received" /\ LeaseHolds(a, now) => a \in allowed
  BY DEF AuthorizationInv, AllowedWhileHolding
<1>4. CASE Tick
  <2>1. /\ now' = now + 1 /\ now < MaxTime /\ UNCHANGED <<lease, phase, work>>
        /\ allowed' = allowed \cup {a \in Assignments :
              work[a] = "received" /\ LeaseHolds(a, now + 1)}
    BY <1>4 DEF Tick, authorityVars
  <2>2. NodeTypes'
    BY <1>1, <2>1 DEF NodeTypes
  <2>3. WorkIsAuthorized'
    BY <1>2, <2>1 DEF WorkIsAuthorized
  <2>4. \A a \in Assignments : LeaseHolds(a, now)' <=> LeaseHolds(a, now + 1)
    BY <2>1 DEF LeaseHolds
  <2>5. AllowedWhileHolding'
    BY <2>1, <2>4 DEF AllowedWhileHolding
  <2> QED
    BY <2>2, <2>3, <2>5 DEF AuthorizationInv
<1>5. CASE Authority
  <2>1. /\ UNCHANGED <<now, phase, work>>
        /\ allowed' = allowed \cup {a \in Assignments :
              work[a] = "received" /\ LeaseHolds(a, now)'}
    BY <1>5 DEF Authority
  <2>2. NodeTypes'
    BY <1>1, <2>1 DEF NodeTypes
  <2>3. WorkIsAuthorized'
    BY <1>2, <2>1 DEF WorkIsAuthorized
  <2>4. AllowedWhileHolding'
    BY <2>1 DEF AllowedWhileHolding
  <2> QED
    BY <2>2, <2>3, <2>4 DEF AuthorizationInv
<1>6. CASE Credential \/ Enroll \/ UNCHANGED vars
  <2>1. UNCHANGED <<lease, now, phase, work, allowed>>
    BY <1>6 DEF Credential, Enroll, vars, nodeVars, authorityVars
  <2> QED
    BY <1>1, <2>1, QuietStep
<1>7. CASE (\E g \in Generations : Start(g)) \/ HealthCheck \/ Signal \/ CloseStores
  <2>1. /\ UNCHANGED <<lease, now, work, allowed>>
        /\ phase' \in {"down", "up", "closing", "closed"}
    BY <1>7 DEF Start, HealthCheck, Signal, CloseStores, authorityVars
  <2> QED
    BY <1>1, <2>1, QuietStep
<1>8. CASE CloseBus \/ Crash
  <2>1. /\ UNCHANGED <<lease, now, allowed>> /\ phase' = "down"
        /\ work' = [a \in Assignments |-> Left(work[a])]
    BY <1>8 DEF CloseBus, Crash, authorityVars
  <2>2. \A a \in Assignments :
           /\ work'[a] = Left(work[a]) /\ work'[a] \in WorkStates
           /\ work'[a] \in Started => work[a] \in Started
           /\ work'[a] = "received" => work[a] \in {"received"} \cup Started
    BY <1>1, <2>1 DEF Left
  <2>3. work' \in [Assignments -> WorkStates]
    BY <2>1, <2>2
  <2> QED
    BY <1>1, <2>1, <2>2, <2>3, QuietStep
<1>9. ASSUME NEW a \in Assignments, Receive(a)
      PROVE  AuthorizationInv'
  <2>1. /\ UNCHANGED <<lease, now, phase>> /\ work[a] = "connected"
        /\ work' = [work EXCEPT ![a] = "received"]
        /\ allowed' = IF LeaseHolds(a, now) THEN allowed \cup {a} ELSE allowed
    BY <1>9 DEF Receive, Moves, authorityVars
  <2>2. NodeTypes'
    BY <1>1, <2>1 DEF NodeTypes
  <2>3. WorkIsAuthorized'
    BY <1>1, <1>2, <2>1 DEF WorkIsAuthorized
  <2>4. AllowedWhileHolding'
    BY <1>1, <1>3, <2>1, HoldsUnchanged DEF AllowedWhileHolding
  <2> QED
    BY <2>2, <2>3, <2>4 DEF AuthorizationInv
<1>10. ASSUME NEW a \in Assignments, Authorize(a)
       PROVE  AuthorizationInv'
  <2>1. /\ UNCHANGED <<lease, now, phase, allowed>> /\ work[a] = "received"
        /\ \/ work' = [work EXCEPT ![a] = "dead"] \/ work' = [work EXCEPT ![a] = "rejected"]
           \/ /\ work' = [work EXCEPT ![a] = "authorized"]
              /\ Authorizes(Request[a].lease, Request[a].issuer, Request[a].capability, now)
    BY <1>10 DEF Authorize, Moves, authorityVars
  <2>2. CASE work' = [work EXCEPT ![a] = "authorized"] /\ LeaseHolds(a, now)
    <3>1. NodeTypes'
      BY <1>1, <2>1, <2>2 DEF NodeTypes
    <3>2. a \in allowed
      BY <1>3, <2>1, <2>2
    <3>3. WorkIsAuthorized'
      BY <1>1, <1>2, <2>1, <2>2, <3>2 DEF WorkIsAuthorized
    <3>4. AllowedWhileHolding'
      BY <1>1, <1>3, <2>1, <2>2, HoldsUnchanged DEF AllowedWhileHolding
    <3> QED
      BY <3>1, <3>3, <3>4 DEF AuthorizationInv
  <2>3. CASE \/ work' = [work EXCEPT ![a] = "dead"] \/ work' = [work EXCEPT ![a] = "rejected"]
    <3>1. /\ work' \in [Assignments -> WorkStates]
          /\ \A b \in Assignments : work'[b] \in Started => work[b] \in Started
          /\ \A b \in Assignments :
                work'[b] = "received" => work[b] \in {"received"} \cup Started
      BY <1>1, <2>3
    <3> QED
      BY <1>1, <2>1, <3>1, QuietStep
  <2>4. now \in Nat
    BY <1>1
  <2> QED
    BY <2>1, <2>2, <2>3, <2>4, AuthorizesHolds
<1>11. ASSUME NEW a \in Assignments,
              Handshake(a) \/ Claim(a) \/ Submit(a) \/ Work(a) \/ Finish(a)
       PROVE  AuthorizationInv'
  <2>1. /\ UNCHANGED <<lease, now, phase, allowed>>
        /\ \/ work[a] = "none" /\ work' = [work EXCEPT ![a] = "connected"]
           \/ /\ work[a] \in Started
              /\ \E w \in {"claimed", "queued", "executing", "done", "dead", "lost"} :
                    work' = [work EXCEPT ![a] = w]
    BY <1>11 DEF Handshake, Claim, Submit, Work, Finish, Moves, authorityVars
  <2>2. /\ work' \in [Assignments -> WorkStates]
        /\ \A b \in Assignments : work'[b] \in Started => work[b] \in Started
        /\ \A b \in Assignments :
              work'[b] = "received" => work[b] \in {"received"} \cup Started
    BY <1>1, <2>1
  <2> QED
    BY <1>1, <2>1, <2>2, QuietStep
<1>12. ASSUME NEW a \in Assignments, CancelWork(a) \/ Action(a)
       PROVE  AuthorizationInv'
  <2>1. UNCHANGED <<lease, now, phase, work, allowed>>
    BY <1>12 DEF CancelWork, Action, nodeVars, authorityVars
  <2> QED
    BY <1>1, <2>1, QuietStep
<1> QED
  BY <1>4, <1>5, <1>6, <1>7, <1>8, <1>9, <1>10, <1>11, <1>12 DEF Next, Process, Handler

LEMMA NodeAuthorizationInv == Spec => []AuthorizationInv
<1>1. Init => AuthorizationInv
  <2>1. SUFFICES ASSUME Init
                 PROVE  AuthorizationInv
    OBVIOUS
  <2>2. /\ now = 0 /\ phase = "down" /\ allowed = {}
        /\ work = [a \in Assignments |-> "none"]
    BY <2>1 DEF Init
  <2>3. NodeTypes
    BY <2>2, BoundsAreNumbers DEF NodeTypes, WorkStates
  <2> QED
    BY <2>2, <2>3 DEF AuthorizationInv, WorkIsAuthorized, AllowedWhileHolding
<1>2. AuthorizationInv /\ AuthorityTypeOK /\ [Next]_vars => AuthorizationInv'
  BY AuthorizationStep
<1> QED
  BY <1>1, <1>2, NodeUsesAuthority, AuthorityTypeCorrect, PTL DEF Spec

(* Native work starts only for assignments whose lease authorized their    *)
(* issuer after they were received, for any leases, clocks, restarts and   *)
(* orders of the handler's steps with the operators' commands.             *)
THEOREM WorkAuthorized == Spec => []WorkIsAuthorized
<1>1. AuthorizationInv => WorkIsAuthorized
  BY DEF AuthorizationInv
<1> QED
  BY <1>1, NodeAuthorizationInv, PTL

-----------------------------------------------------------------------------
(* The ROS 2 action backend: the facts about one assignment that make the  *)
(* statuses it returns and the cancellations it reports true, and that     *)
(* every step of the client and the server keeps.                          *)

AcceptedGoal == {"executing", "canceling"} \cup Over

(* How the client, the server's goal and what was returned fit together.   *)
GoalInv(a) ==
    /\ client[a] = "idle" => goal[a] = "none"
    /\ client[a] \in {"waiting", "stopping"} => goal[a] \in AcceptedGoal
    /\ client[a] # "returned" => returned[a] = "none"
    /\ returned[a] \in Known =>
          \/ goal[a] \in Over /\ answer[a] = returned[a]
          \/ goal[a] \in {"none", "refused"} /\ returned[a] = "rejected"
    /\ cancelling[a] = "accepted" => goal[a] \in {"canceling", "stopped"}
    /\ a \in active <=> client[a] \in {"waiting", "stopping"}

RosInv == RosTypeOK /\ \A a \in Assignments : GoalInv(a)

(* A step of execute, of cancel or of the server, for one assignment.      *)
RosStep(a) == Execute(a) \/ Cancel(a) \/ RosServer(a) \/ RosClient(a)

LEMMA RosInitInv == ASSUME RosInit PROVE RosInv
BY DEF RosInit, RosInv, RosTypeOK, GoalInv, Known, ResultStatus

LEMMA RosTypeStep ==
    ASSUME RosTypeOK, NEW a \in Assignments, RosStep(a)
    PROVE  RosTypeOK'
<1> USE DEF RosTypeOK, ResultStatus, Known
<1>1. CASE Execute(a) \/ Cancel(a)
  BY <1>1 DEF Execute, Cancel, Returns, serverVars
<1>2. CASE RosServer(a)
  BY <1>2, RosAssumption DEF RosServer, ServerAccepts, ServerCancels, ServerFinishes
<1>3. CASE GoalResponse(a) \/ GoalTimesOut(a)
  BY <1>3 DEF GoalResponse, GoalTimesOut, GoalTimeoutStatus, Returns, serverVars
<1>4. CASE ResultArrives(a)
  <2>1. ReadResult(answer[a]) \in ResultStatus \cup {"none", "raised"}
    BY DEF ReadResult
  <2> QED
    BY <1>4, <2>1 DEF ResultArrives, Returns, serverVars
<1>5. CASE ResultTimesOut(a) \/ StopWaiting(a) \/ CancelReturns(a)
  BY <1>5 DEF ResultTimesOut, StopWaiting, ResultTimeoutStatus, ForgetGoal, CancelReturns,
              Returns, serverVars
<1> QED
  BY <1>1, <1>2, <1>3, <1>4, <1>5 DEF RosStep, RosClient

(* Steps for one assignment leave the others as they are.                  *)
LEMMA RosOthers ==
    ASSUME RosTypeOK, NEW a \in Assignments, RosStep(a),
           NEW b \in Assignments, b # a, GoalInv(b)
    PROVE  GoalInv(b)'
<1>1. /\ client'[b] = client[b] /\ returned'[b] = returned[b]
      /\ cancelling'[b] = cancelling[b] /\ goal'[b] = goal[b] /\ answer'[b] = answer[b]
      /\ b \in active' <=> b \in active
  BY DEF RosTypeOK, RosStep, RosServer, RosClient, Execute, Cancel, Returns, serverVars,
         ServerAccepts, ServerCancels, ServerFinishes, GoalResponse, GoalTimesOut,
         ResultArrives, ResultTimesOut, StopWaiting, ForgetGoal, CancelReturns
<1> QED
  BY <1>1 DEF GoalInv

LEMMA RosOwn ==
    ASSUME RosTypeOK, NEW a \in Assignments, RosStep(a), GoalInv(a)
    PROVE  GoalInv(a)'
<1> USE DEF GoalInv, AcceptedGoal, Over
<1>1. /\ client \in [Assignments -> {"idle", "sending", "waiting", "stopping", "returned"}]
      /\ returned \in [Assignments -> ResultStatus \cup {"none", "raised"}]
      /\ cancelling \in [Assignments -> {"none", "sent", "accepted", "refused"}]
      /\ goal \in [Assignments -> {"none", "pending", "executing", "canceling", "refused",
                                   "done", "stopped"}]
      /\ answer \in [Assignments -> ResultStatus \cup {"none"}]
  BY DEF RosTypeOK
<1>2. "none" \notin Known /\ "raised" \notin Known /\ "unknown" \notin Known
  BY DEF Known
<1>3. CASE Execute(a)
  BY <1>1, <1>2, <1>3 DEF Execute, Returns
<1>4. CASE Cancel(a)
  BY <1>1, <1>4 DEF Cancel, serverVars
<1>5. CASE RosServer(a)
  BY <1>1, <1>5 DEF RosServer, ServerAccepts, ServerCancels, ServerFinishes
<1>6. CASE GoalResponse(a)
  BY <1>1, <1>2, <1>6 DEF GoalResponse, Returns, serverVars
<1>7. CASE GoalTimesOut(a)
  BY <1>1, <1>2, <1>7 DEF GoalTimesOut, GoalTimeoutStatus, Returns, serverVars
<1>8. CASE ResultArrives(a)
  <2>1. ReadResult(answer[a]) \in Known => ReadResult(answer[a]) = answer[a]
    BY <1>2 DEF ReadResult
  <2> QED
    BY <1>1, <1>2, <1>8, <2>1 DEF ResultArrives, Returns, serverVars
<1>9. CASE ResultTimesOut(a)
  BY <1>1, <1>9 DEF ResultTimesOut, serverVars
<1>10. CASE StopWaiting(a)
  BY <1>1, <1>2, <1>10 DEF StopWaiting, ResultTimeoutStatus, ForgetGoal, Returns, serverVars
<1>11. CASE CancelReturns(a)
  BY <1>1, <1>11 DEF CancelReturns, CancelAccepted, serverVars
<1> QED
  BY <1>3, <1>4, <1>5, <1>6, <1>7, <1>8, <1>9, <1>10, <1>11 DEF RosStep, RosClient

LEMMA RosInvStep ==
    ASSUME RosInv, NEW a \in Assignments, RosStep(a)
    PROVE  RosInv'
<1>1. RosTypeOK'
  BY RosTypeStep DEF RosInv
<1>2. ASSUME NEW b \in Assignments
      PROVE  GoalInv(b)'
  BY <1>2, RosOthers, RosOwn DEF RosInv
<1> QED
  BY <1>1, <1>2 DEF RosInv

(* A step that leaves all the backend's variables alone.                   *)
LEMMA RosStutter == ASSUME RosInv, UNCHANGED rosVars PROVE RosInv'
BY DEF RosInv, RosTypeOK, GoalInv, rosVars

(* The invariant says what the runs check.                                 *)
LEMMA RosInvMeans == ASSUME RosInv PROVE KnownMeansSettled /\ CancellationIsTrue
<1>1. KnownMeansSettled
  BY DEF RosInv, GoalInv, KnownMeansSettled
<1>2. active = {a \in Assignments : client[a] \in {"waiting", "stopping"}}
  BY DEF RosInv, RosTypeOK, GoalInv
<1> QED
  BY <1>1, <1>2 DEF RosInv, GoalInv, CancellationIsTrue

-----------------------------------------------------------------------------
(* The ROS 2 adapter under the node.                                       *)

(* A crash ends the threads that wait for the server, as exceptions that   *)
(* nobody records, and the server goes on.                                 *)
LEMMA CrashKeepsRosInv == ASSUME RosInv, Crash PROVE RosInv'
<1> DEFINE dead == {a \in Assignments : client[a] \in {"sending", "waiting", "stopping"}}
<1>1. /\ active' = {} /\ UNCHANGED <<asked, goal, answer>>
      /\ client' = [a \in Assignments |-> IF a \in dead THEN "returned" ELSE client[a]]
      /\ returned' = [a \in Assignments |-> IF a \in dead THEN "raised" ELSE returned[a]]
      /\ cancelling' = [a \in Assignments |-> IF cancelling[a] = "sent" THEN "refused"
                                              ELSE cancelling[a]]
  BY DEF Crash, serverVars
<1>2. RosTypeOK'
  BY <1>1 DEF RosInv, RosTypeOK
<1>3. ASSUME NEW a \in Assignments
      PROVE  GoalInv(a)'
  <2>1. GoalInv(a) /\ client[a] \in {"idle", "sending", "waiting", "stopping", "returned"}
    BY DEF RosInv, RosTypeOK
  <2>2. /\ client'[a] = IF a \in dead THEN "returned" ELSE client[a]
        /\ returned'[a] = IF a \in dead THEN "raised" ELSE returned[a]
        /\ cancelling'[a] = "accepted" => cancelling[a] = "accepted"
        /\ goal'[a] = goal[a] /\ answer'[a] = answer[a] /\ a \notin active'
    BY <1>1
  <2>3. "raised" \notin Known
    BY DEF Known
  <2> QED
    BY <2>1, <2>2, <2>3 DEF GoalInv
<1> QED
  BY <1>2, <1>3 DEF RosInv

LEMMA NodeRosStep == ASSUME RosInv, [Next]_vars PROVE RosInv'
<1>1. CASE Tick \/ Authority \/ Credential \/ Enroll \/ UNCHANGED vars
  <2>1. UNCHANGED rosVars
    BY <1>1 DEF Tick, Authority, Credential, Enroll, vars
  <2> QED
    BY <2>1, RosStutter
<1>2. CASE Process
  <2>1. UNCHANGED rosVars \/ Crash
    BY <1>2 DEF Process, Start, HealthCheck, Signal, CloseStores, CloseBus
  <2> QED
    BY <2>1, RosStutter, CrashKeepsRosInv
<1>3. ASSUME NEW a \in Assignments,
             Handler(a) \/ Work(a) \/ Finish(a) \/ CancelWork(a) \/ Action(a)
      PROVE  RosInv'
  <2>1. UNCHANGED rosVars \/ RosStep(a)
    BY <1>3 DEF Handler, Handshake, Receive, Authorize, Claim, Submit, Work, Finish,
                CancelWork, Action, RosStep
  <2> QED
    BY <2>1, RosStutter, RosInvStep
<1> QED
  BY <1>1, <1>2, <1>3 DEF Next

LEMMA NodeRosInv == Spec => []RosInv
<1>1. Init => RosInv
  BY RosInitInv DEF Init
<1>2. RosInv /\ [Next]_vars => RosInv'
  BY NodeRosStep
<1> QED
  BY <1>1, <1>2, PTL DEF Spec

(* A known status that RclpyActionBackend.execute returns is what happened *)
(* to the goal, whichever wait timed out and whenever the node crashed.    *)
THEOREM KnownIsSettled == Spec => []KnownMeansSettled
<1>1. RosInv => KnownMeansSettled
  BY RosInvMeans
<1> QED
  BY <1>1, NodeRosInv, PTL

(* RclpyActionBackend.cancel reaches the goals execute waits for, and one  *)
(* it reports as cancelled is stopping or over.                            *)
THEOREM CancellationsAreTrue == Spec => []CancellationIsTrue
<1>1. RosInv => CancellationIsTrue
  BY RosInvMeans
<1> QED
  BY <1>1, NodeRosInv, PTL

-----------------------------------------------------------------------------
(* The credential store under the node.                                    *)

LEMMA CredentialStoreStep ==
    ASSUME AuthorizationInv, [Next]_vars
    PROVE  [CredentialsNext]_credentialVars
<1>1. now \in Nat
  BY BoundsAreNumbers DEF AuthorizationInv, NodeTypes
<1>2. CASE Credential
  <2>1. CASE \E c \in Certificates : RevokeCertificate(c)
    BY <2>1 DEF CredentialsNext
  <2>2. CASE \E c \in Own : EnrollBegin(c, now)
    BY <1>1, <2>2, NodeAssumption DEF CredentialsNext
  <2>3. CASE \E g \in Generations : Activate(g, now)
    BY <1>1, <2>3 DEF CredentialsNext
  <2> QED
    BY <1>2, <2>1, <2>2, <2>3 DEF Credential
<1>3. CASE Enroll
  BY <1>3 DEF Enroll, CredentialsNext
<1>4. CASE Tick \/ Authority \/ Process \/ UNCHANGED vars
  BY <1>4 DEF Tick, Authority, Process, Start, HealthCheck, Signal, CloseStores, CloseBus,
              Crash, vars
<1>5. ASSUME NEW a \in Assignments,
             Handler(a) \/ Work(a) \/ Finish(a) \/ CancelWork(a) \/ Action(a)
      PROVE  UNCHANGED credentialVars
  BY <1>5 DEF Handler, Handshake, Receive, Authorize, Claim, Submit, Work, Finish,
              CancelWork, Action
<1> QED
  BY <1>2, <1>3, <1>4, <1>5 DEF Next

(* A robot is handed over with one enrolled and active generation.         *)
LEMMA HandedOver == ASSUME Init PROVE CredInv
<1>1. PICK c \in Own : cert = [g \in Generations |-> IF g = 1 THEN c ELSE NoCertificate]
                       /\ dirs = cert
  BY DEF Init
<1>2. /\ status = [g \in Generations |-> IF g = 1 THEN "active" ELSE "absent"]
      /\ revoked = {} /\ step = "none" /\ enrolling = NoCertificate
      /\ trail = <<[type |-> "enrolled", subject |-> 1],
                   [type |-> "activated", subject |-> 1]>>
  BY DEF Init
<1>3. c \in Certificates /\ MaxGenerations \in Nat /\ 1 \in Generations
  BY <1>1, NodeAssumption, CredentialsAssumption DEF Generations
<1>4. CredentialsTypeOK
  BY <1>1, <1>2, <1>3 DEF CredentialsTypeOK, Statuses
<1>5. trail \in Seq(CredentialEvents)
  BY <1>2, <1>3 DEF CredentialEvents
<1>6. Stored = {1}
  BY <1>2, <1>3 DEF Stored
<1>7. Contiguous
  <2>1. 1 \in 0..MaxGenerations /\ 1..1 = {1}
    BY <1>3 DEF Generations
  <2> QED
    BY <1>6, <2>1 DEF Contiguous
<1>8. EnrollInv /\ BundlesComplete
  BY <1>1, <1>2 DEF EnrollInv, BundlesComplete
<1>9. Activations = {2} /\ trail[2].subject = 1
  <2>1. Len(trail) = 2 /\ trail[1].type = "enrolled" /\ trail[2].type = "activated"
        /\ trail[2].subject = 1
    BY <1>2
  <2>2. \A i : i \in 1..Len(trail) <=> i = 1 \/ i = 2
    BY <2>1
  <2>3. \A i : i \in Activations <=> i = 2
    BY <2>1, <2>2 DEF Activations
  <2> QED
    BY <2>1, <2>3
<1>10. AuditInv
  <2>1. \A g \in Generations : status[g] = "active" <=> g = 1
    BY <1>2
  <2>2. \A g \in Generations : status[g] = "absent" => cert[g] = NoCertificate
    BY <1>1, <1>2
  <2>3. AuditExplainsCredentials
    BY <1>2, <1>9, <2>1 DEF AuditExplainsCredentials
  <2> QED
    BY <1>6, <1>9, <2>2, <2>3 DEF AuditInv
<1> QED
  BY <1>4, <1>5, <1>7, <1>8, <1>10 DEF CredInv

LEMMA NodeCredInv == Spec => []CredInv
<1>1. Init => CredInv
  BY HandedOver
<1>2. CredInv /\ AuthorizationInv /\ [Next]_vars => CredInv'
  BY CredentialStoreStep, CredentialsStep
<1> QED
  BY <1>1, <1>2, NodeAuthorizationInv, PTL DEF Spec

(* Every generation the node can be started with has its own certificate   *)
(* and key on disk, wherever enrolments crashed or failed.                 *)
THEOREM NodeBundles == Spec => []BundlesComplete
<1>1. CredInv => BundlesComplete
  BY DEF CredInv
<1> QED
  BY <1>1, NodeCredInv, PTL

(* The credential events explain which generation the node requires.       *)
THEOREM NodeCredentialAudit == Spec => []AuditExplainsCredentials
<1>1. CredInv => AuditExplainsCredentials
  BY DEF CredInv, AuditInv
<1> QED
  BY <1>1, NodeCredInv, PTL

(* Whatever operators and an enrolment that crashes do under the running   *)
(* node: one generation is active at most, and its certificate is not      *)
(* revoked.                                                                *)
THEOREM NodeOneActive == Spec => []OneActive
<1>1. CredInv => OneActive
  BY InvMeansOneActive
<1> QED
  BY <1>1, NodeCredInv, PTL

(* The types of the composed system.                                       *)
THEOREM NodeTypeCorrect == Spec => []TypeOK
<1>1. Init => bundle \in Generations
  <2>1. 1 \in Generations
    BY NodeAssumption, CredentialsAssumption DEF Generations
  <2> QED
    BY <2>1 DEF Init
<1>2. bundle \in Generations /\ [Next]_vars => (bundle \in Generations)'
  BY DEF Next, Tick, Authority, Credential, Enroll, Process, Start, HealthCheck, Signal,
         CloseStores, CloseBus, Crash, Handler, Handshake, Receive, Authorize, Claim, Submit,
         Work, Finish, CancelWork, Action, nodeVars, vars
<1>3. AuthorizationInv /\ AuthorityTypeOK /\ CredInv /\ RosInv /\ bundle \in Generations
         => TypeOK
  BY DEF AuthorizationInv, NodeTypes, WorkStates, CredInv, RosInv, TypeOK
<1> QED
  BY <1>1, <1>2, <1>3, NodeAuthorizationInv, NodeUsesAuthority, AuthorityTypeCorrect,
     NodeCredInv, NodeRosInv, PTL DEF Spec

-----------------------------------------------------------------------------
(* What the tools show.                                                    *)

(* The newest event of a list cut to its last events is the list's last.   *)
LEMMA NewestOf ==
    ASSUME NEW T, NEW q \in Seq(T), Len(q) # 0, NEW limit \in Nat \ {0}
    PROVE  LET n == Len(q)
               e == SubSeq(q, IF limit < n THEN n - limit + 1 ELSE 1, n)
           IN  e[Len(e)] = q[n]
<1> DEFINE n == Len(q)
           a == IF limit < n THEN n - limit + 1 ELSE 1
           e == SubSeq(q, a, n)
<1>1. n \in Nat /\ n # 0
  OBVIOUS
<1>2. a \in 1..n
  BY <1>1
<1> HIDE DEF a
<1>3. Len(e) = n - a + 1 /\ Len(e) \in 1..Len(e)
  BY <1>1, <1>2
<1>4. e[Len(e)] = q[n]
  BY <1>1, <1>2, <1>3
<1> QED
  BY <1>4 DEF a

(* ump-authority against the assignment handler.                           *)
LeasesShown ==
    \A l \in Leases : lease[l] # NoLease =>
       LET shown == EffectiveLeaseStatus(l, now)
       IN  /\ Selected(l, shown, now)
           /\ Selected(l, "active", now) <=> shown = "active"
           /\ \A c \in lease[l].terms.capabilities :
                 Authorizes(l, lease[l].terms.issuer, c, now) <=> shown = "active"
           /\ \A limit \in 1..MaxRevision :
                 LET events == AuthorityEvents(l, limit)
                     newest == events[Len(events)]
                 IN  /\ newest.revision = lease[l].revision
                     /\ newest.type = "revoke" <=> shown = "revoked"

(* The three readings of a row agree because the store's types leave no    *)
(* case out, and the events because the audit explains the rows.           *)
LEMMA LeasesAreShown ==
    ASSUME AuthorityTypeOK, AuditExplainsLeases, now \in Nat
    PROVE  LeasesShown
<1> SUFFICES ASSUME NEW l \in Leases, lease[l] # NoLease
             PROVE  LET shown == EffectiveLeaseStatus(l, now)
                    IN  /\ Selected(l, shown, now)
                        /\ Selected(l, "active", now) <=> shown = "active"
                        /\ \A c \in lease[l].terms.capabilities :
                              Authorizes(l, lease[l].terms.issuer, c, now)
                                 <=> shown = "active"
                        /\ \A limit \in 1..MaxRevision :
                              LET events == AuthorityEvents(l, limit)
                                  newest == events[Len(events)]
                              IN  /\ newest.revision = lease[l].revision
                                  /\ newest.type = "revoke" <=> shown = "revoked"
  BY DEF LeasesShown
<1> DEFINE t == lease[l].terms
           shown == EffectiveLeaseStatus(l, now)
<1>1. lease[l] \in Rows
  BY DEF AuthorityTypeOK
<1>2. t \in Terms /\ lease[l].status \in {"active", "revoked"}
  BY <1>1 DEF Rows
<1>3. t.issued \in Nat /\ t.expires \in Nat /\ t.uncertainty \in Nat
  BY <1>2, AuthorityAssumption
<1>4. /\ shown = "revoked" <=> lease[l].status = "revoked"
      /\ shown = "not_yet_valid" <=>
            lease[l].status = "active" /\ now < t.issued + t.uncertainty
      /\ shown = "expired" <=>
            /\ lease[l].status = "active" /\ now >= t.issued + t.uncertainty
            /\ now + t.uncertainty >= t.expires
      /\ shown = "active" <=>
            /\ lease[l].status = "active" /\ now >= t.issued + t.uncertainty
            /\ now + t.uncertainty < t.expires
      /\ shown \in {"revoked", "not_yet_valid", "expired", "active"}
  BY <1>2, <1>3 DEF EffectiveLeaseStatus
<1> HIDE DEF shown
<1>5. Selected(l, shown, now) /\ (Selected(l, "active", now) <=> shown = "active")
  BY <1>4 DEF Selected
<1>6. ASSUME NEW c \in t.capabilities
      PROVE  Authorizes(l, t.issuer, c, now) <=> shown = "active"
  BY <1>4 DEF Authorizes
<1>7. ASSUME NEW limit \in 1..MaxRevision
      PROVE  LET events == AuthorityEvents(l, limit)
                 newest == events[Len(events)]
             IN  /\ newest.revision = lease[l].revision
                 /\ newest.type = "revoke" <=> shown = "revoked"
  <2> DEFINE events == AuthorityEvents(l, limit)
  <2>1. audit[l] \in Seq(Events) /\ audit[l] # <<>>
    BY DEF AuthorityTypeOK, AuditExplainsLeases
  <2>2. Len(audit[l]) # 0 /\ limit \in Nat \ {0}
    BY <2>1, BoundsAreNumbers
  <2>3. events[Len(events)] = audit[l][Len(audit[l])]
    BY <2>1, <2>2, NewestOf DEF AuthorityEvents
  <2>4. /\ lease[l].revision = audit[l][Len(audit[l])].revision
        /\ lease[l].status = "revoked" <=> audit[l][Len(audit[l])].type = "revoke"
    BY DEF AuditExplainsLeases
  <2> QED
    BY <1>4, <2>3, <2>4
<1> QED
  BY <1>5, <1>6, <1>7 DEF shown

(* Rows of the inventory name certificates, and the newest event is about  *)
(* the inventory as it is: what was activated last is active until the     *)
(* next event, what was revoked last is retired.                           *)
RowsNamed == \A g \in Stored : cert[g] \in Certificates
NewestIsTrue ==
    /\ trail # <<>>
    /\ LET newest == trail[Len(trail)]
       IN  /\ newest.type = "activated" => status[newest.subject] = "active"
           /\ newest.type = "revoked" =>
                 \A g \in Stored : cert[g] = newest.subject => status[g] = "retired"
ShownInv == RowsNamed /\ NewestIsTrue

(* One transaction, one event.                                             *)
LEMMA ShownStep ==
    ASSUME CredInv, ShownInv, [CredentialsNext]_credentialVars
    PROVE  ShownInv'
<1>1. /\ cert \in [Generations -> Certificates \cup {NoCertificate}]
      /\ status \in [Generations -> Statuses] /\ trail \in Seq(CredentialEvents)
  BY DEF CredInv, CredentialsTypeOK
<1>2. CASE UNCHANGED <<cert, status, trail>>
  BY <1>2 DEF ShownInv, RowsNamed, NewestIsTrue, Stored
<1>3. ASSUME NEW e \in CredentialEvents, trail' = Append(trail, e)
      PROVE  trail' # <<>> /\ trail'[Len(trail')] = e
  BY <1>1, <1>3
<1>4. CASE EnrollCommit
  <2> DEFINE n == NextFree
             e == [type |-> "enrolled", subject |-> n]
  <2>1. n \in Generations /\ enrolling \in Certificates
    BY <1>4 DEF CredInv, EnrollInv, EnrollCommit, ReadyToCommit
  <2>2. /\ cert' = [cert EXCEPT ![n] = enrolling] /\ status' = [status EXCEPT ![n] = "staged"]
        /\ trail' = Append(trail, e)
    BY <1>4 DEF EnrollCommit, Log
  <2>3. e \in CredentialEvents /\ e.type = "enrolled"
    BY <2>1 DEF CredentialEvents
  <2>4. trail' # <<>> /\ trail'[Len(trail')] = e
    BY <1>3, <2>2, <2>3
  <2> HIDE DEF n, e
  <2>5. RowsNamed'
    BY <1>1, <2>1, <2>2 DEF ShownInv, RowsNamed, Stored
  <2>6. NewestIsTrue'
    BY <2>3, <2>4 DEF NewestIsTrue
  <2> QED
    BY <2>5, <2>6 DEF ShownInv
<1>5. ASSUME NEW g \in Generations, NEW at \in Nat, Activate(g, at)
      PROVE  ShownInv'
  <2> DEFINE e == [type |-> "activated", subject |-> g]
  <2>1. /\ g \in Stored /\ status' = [Retire EXCEPT ![g] = "active"] /\ cert' = cert
        /\ trail' = Append(trail, e)
    BY <1>5 DEF Activate, Log
  <2>2. e \in CredentialEvents /\ e.type = "activated" /\ e.subject = g
    BY DEF CredentialEvents
  <2>3. trail' # <<>> /\ trail'[Len(trail')] = e
    BY <1>3, <2>1, <2>2
  <2> HIDE DEF e
  <2>4. status'[g] = "active" /\ Stored' = Stored
    BY <1>1, <2>1 DEF Retire, Stored
  <2>5. RowsNamed'
    BY <2>1, <2>4 DEF ShownInv, RowsNamed
  <2>6. NewestIsTrue'
    BY <2>2, <2>3, <2>4 DEF NewestIsTrue
  <2> QED
    BY <2>5, <2>6 DEF ShownInv
<1>6. ASSUME NEW c \in Certificates, RevokeCertificate(c)
      PROVE  ShownInv'
  <2> DEFINE e == [type |-> "revoked", subject |-> c]
  <2>1. status' = RetireCertificate(c) /\ cert' = cert /\ trail' = Append(trail, e)
    BY <1>6 DEF RevokeCertificate, Log
  <2>2. e \in CredentialEvents /\ e.type = "revoked" /\ e.subject = c
    BY DEF CredentialEvents
  <2>3. trail' # <<>> /\ trail'[Len(trail')] = e
    BY <1>3, <2>1, <2>2
  <2> HIDE DEF e
  <2>4. /\ Stored' = Stored
        /\ \A g \in Stored : cert'[g] = c => status'[g] = "retired"
    BY <1>1, <2>1 DEF RetireCertificate, Stored
  <2>5. RowsNamed'
    BY <2>1, <2>4 DEF ShownInv, RowsNamed
  <2>6. NewestIsTrue'
    BY <2>2, <2>3, <2>4 DEF NewestIsTrue
  <2> QED
    BY <2>5, <2>6 DEF ShownInv
<1> QED
  BY <1>2, <1>4, <1>5, <1>6
  DEF CredentialsNext, Enrollment, EnrollDirectory, EnrollWrite, EnrollFails, EnrollCrashes,
      EnrollBegin, credentialVars

(* The robot is handed over with its first generation activated last.      *)
LEMMA ShownAtFirst == ASSUME Init PROVE ShownInv
<1>1. PICK c \in Own : cert = [g \in Generations |-> IF g = 1 THEN c ELSE NoCertificate]
  BY DEF Init
<1>2. /\ status = [g \in Generations |-> IF g = 1 THEN "active" ELSE "absent"]
      /\ trail = <<[type |-> "enrolled", subject |-> 1],
                   [type |-> "activated", subject |-> 1]>>
  BY DEF Init
<1>3. c \in Certificates /\ 1 \in Generations
  BY <1>1, NodeAssumption, CredentialsAssumption DEF Generations
<1>4. RowsNamed
  BY <1>1, <1>2, <1>3 DEF RowsNamed, Stored
<1>5. /\ trail # <<>> /\ Len(trail) = 2 /\ trail[2].type = "activated"
      /\ trail[2].subject = 1
  BY <1>2
<1>6. NewestIsTrue
  BY <1>2, <1>3, <1>5 DEF NewestIsTrue
<1> QED
  BY <1>4, <1>6 DEF ShownInv

(* ump-credentials against the preflight and the start.                    *)
LEMMA GenerationsAreShown ==
    ASSUME CredInv, RowsNamed, now \in Nat, NEW g \in Generations
    PROVE  /\ ShowGeneration(g, now) = "active" <=> RequireActive(g, now)
           /\ ShowGeneration(g, now) = "active" <=> Preflight(g)
<1> DEFINE enforced == /\ status[g] = "active" /\ cert[g] \notin revoked
                       /\ Valid(cert[g], now)
<1>1. RequireActive(g, now) <=> enforced
  BY DEF RequireActive, RequireGeneration
<1>2. status[g] = "active" => g \in Stored /\ dirs[g] = cert[g]
  BY DEF Stored, CredInv, BundlesComplete
<1>3. Preflight(g) <=> enforced
  BY <1>2 DEF Preflight, ReadActive, RequireGeneration
<1>4. ShowGeneration(g, now) = "active" <=> enforced
  <2>1. CASE g \notin Stored
    BY <1>2, <2>1 DEF ShowGeneration
  <2>2. CASE g \in Stored
    <3>1. cert[g] \in Certificates
      BY <2>2 DEF RowsNamed
    <3>2. ValidFrom[cert[g]] \in Nat /\ ValidUntil[cert[g]] \in Nat
      BY <3>1, CredentialsAssumption
    <3>3. status[g] \in {"absent", "staged", "active", "retired"}
      BY DEF CredInv, CredentialsTypeOK, Statuses
    <3> QED
      BY <2>2, <3>2, <3>3 DEF ShowGeneration, EffectiveStatus, Valid
  <2> QED
    BY <2>1, <2>2
<1> QED
  BY <1>1, <1>3, <1>4

(* What ump-authority and ump-credentials show, and what their filters     *)
(* select, is what the running node enforces, at any time and for any      *)
(* leases and certificates.                                                *)
THEOREM ShownEnforced == Spec => []ShownIsEnforced
<1>1. CredInv /\ AuthorizationInv /\ ShownInv /\ [Next]_vars => ShownInv'
  BY CredentialStoreStep, ShownStep
<1>2. Init => ShownInv
  BY ShownAtFirst
<1>3. ASSUME AuthorityTypeOK, AuditExplainsLeases, CredInv, AuthorizationInv, ShownInv
      PROVE  ShownIsEnforced
  <2>1. now \in Nat
    BY <1>3, BoundsAreNumbers DEF AuthorizationInv, NodeTypes
  <2>2. LeasesShown
    BY <1>3, <2>1, LeasesAreShown
  <2>3. \A g \in Generations :
           /\ ShowGeneration(g, now) = "active" <=> RequireActive(g, now)
           /\ ShowGeneration(g, now) = "active" <=> Preflight(g)
    BY <1>3, <2>1, GenerationsAreShown DEF ShownInv
  <2>4. ASSUME NEW limit \in 1..MaxRevision
        PROVE  LET events == EventsRead(limit)
                   newest == events[Len(events)]
               IN  /\ newest.type = "activated" => status[newest.subject] = "active"
                   /\ newest.type = "revoked" =>
                         \A g \in Stored : cert[g] = newest.subject => status[g] = "retired"
    <3> DEFINE events == EventsRead(limit)
    <3>1. trail \in Seq(CredentialEvents) /\ trail # <<>>
      BY <1>3 DEF CredInv, ShownInv, NewestIsTrue
    <3>2. Len(trail) # 0 /\ limit \in Nat \ {0}
      BY <3>1, BoundsAreNumbers
    <3>3. events[Len(events)] = trail[Len(trail)]
      BY <3>1, <3>2, NewestOf DEF EventsRead
    <3> QED
      BY <1>3, <3>3 DEF ShownInv, NewestIsTrue
  <2> QED
    BY <2>2, <2>3, <2>4 DEF ShownIsEnforced, LeasesShown
<1> QED
  BY <1>1, <1>2, <1>3, NodeAudit, NodeUsesAuthority, AuthorityTypeCorrect, NodeCredInv,
     NodeAuthorizationInv, PTL DEF Spec
=============================================================================
