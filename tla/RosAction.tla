------------------------------ MODULE RosAction ------------------------------
(***************************************************************************)
(* The ROS 2 adapter's action backend (ump.ros2): execute and cancel run   *)
(* in threads of the participant and talk to an action server that answers *)
(* when it likes.  The server is external; the client library gives up     *)
(* waiting after a timeout, and what the server was asked for may still    *)
(* happen after that.                                                      *)
(***************************************************************************)
EXTENDS Naturals, FiniteSets

CONSTANTS
    Assignments,    \* assignments, one goal each
    Answers,        \* statuses the server's results carry in this instance
    ResultTimeout   \* TRUE: RosActionBinding.result_timeout_s is set

Known        == {"succeeded", "failed", "rejected", "cancelled"}
ResultStatus == Known \cup {"unknown", "invalid"}

ASSUME RosAssumption == ResultTimeout \in BOOLEAN /\ Answers \subseteq ResultStatus

VARIABLES
    client,      \* how far RclpyActionBackend.execute is
    returned,    \* the status of its NativeActionResult, "raised" for an exception
    active,      \* _active_goals
    cancelling,  \* what cancel has done for the assignment
    asked,       \* goals the server has been asked to cancel
    goal,        \* external: the state of the goal in the server
    answer       \* external: the status in the server's result

rosVars    == <<client, returned, active, cancelling, asked, goal, answer>>
serverVars == <<goal, answer>>

(* A goal is over as executing or, after a cancellation, as canceling.     *)
Over == {"done", "stopped"}

RosInit ==
    /\ client     = [a \in Assignments |-> "idle"]
    /\ returned   = [a \in Assignments |-> "none"]
    /\ active     = {}
    /\ cancelling = [a \in Assignments |-> "none"]
    /\ asked      = {}
    /\ goal       = [a \in Assignments |-> "none"]
    /\ answer     = [a \in Assignments |-> "none"]

-----------------------------------------------------------------------------
(* The action server (external).                                           *)

ServerAccepts(a) ==
    /\ goal[a] = "pending"
    /\ \/ goal' = [goal EXCEPT ![a] = "executing"] /\ UNCHANGED answer
       \/ goal' = [goal EXCEPT ![a] = "refused"] /\ UNCHANGED answer
    /\ UNCHANGED <<client, returned, active, cancelling, asked>>

ServerFinishes(a, s) ==
    /\ goal[a] \in {"executing", "canceling"}
    /\ goal' = [goal EXCEPT ![a] = IF @ = "canceling" THEN "stopped" ELSE "done"]
    /\ answer' = [answer EXCEPT ![a] = s]
    /\ UNCHANGED <<client, returned, active, cancelling, asked>>

(* It follows a request to cancel, whoever still waits for the response.   *)
ServerCancels(a) ==
    /\ a \in asked /\ goal[a] = "executing"
    /\ goal' = [goal EXCEPT ![a] = "canceling"]
    /\ UNCHANGED <<client, returned, active, cancelling, asked, answer>>

-----------------------------------------------------------------------------
(* execute.                                                                *)

Returns(a, s) ==
    /\ client' = [client EXCEPT ![a] = "returned"]
    /\ returned' = [returned EXCEPT ![a] = s]

(* accept and execute: a capability without a binding or a server that is  *)
(* not available is a rejection, a goal that cannot be built is an         *)
(* exception; nothing was sent.                                            *)
Execute(a) ==
    /\ client[a] = "idle"
    /\ \/ \E s \in {"rejected", "raised"} : Returns(a, s) /\ UNCHANGED goal
       \/ /\ client' = [client EXCEPT ![a] = "sending"]
          /\ goal' = [goal EXCEPT ![a] = "pending"]
          /\ UNCHANGED returned
    /\ UNCHANGED <<active, cancelling, asked, answer>>

(* The goal response arrives in time.                                      *)
GoalResponse(a) ==
    /\ client[a] = "sending"
    /\ \/ /\ goal[a] = "refused"
          /\ Returns(a, "rejected")
          /\ UNCHANGED active
       \/ /\ goal[a] \in {"executing", "canceling"} \cup Over
          /\ client' = [client EXCEPT ![a] = "waiting"]
          /\ active' = active \cup {a}
          /\ UNCHANGED returned
    /\ UNCHANGED <<cancelling, asked, serverVars>>

(* Mutant: a goal that is not answered in time is reported as rejected.    *)
GoalTimeoutStatusRejected == "rejected"

(* Mutant: the timeout is reported with a status of its own.               *)
GoalTimeoutStatusNew == "timed_out"

(* The TimeoutError of send_goal_async leaves execute as an exception.     *)
GoalTimeoutStatus == "raised"

GoalTimesOut(a) ==
    /\ client[a] = "sending"
    /\ Returns(a, GoalTimeoutStatus)
    /\ UNCHANGED <<active, cancelling, asked, serverVars>>

(* result_reader raises for a result it cannot interpret.                  *)
ReadResult(s) == IF s = "invalid" THEN "unknown" ELSE s

ResultArrives(a) ==
    /\ client[a] = "waiting"
    /\ goal[a] \in Over
    /\ Returns(a, ReadResult(answer[a]))
    /\ active' = active \ {a}
    /\ UNCHANGED <<cancelling, asked, serverVars>>

(* The result timeout asks the server to cancel and waits for the response *)
(* for a while.                                                            *)
ResultTimesOut(a) ==
    /\ ResultTimeout
    /\ client[a] = "waiting"
    /\ client' = [client EXCEPT ![a] = "stopping"]
    /\ asked' = asked \cup {a}
    /\ UNCHANGED <<returned, active, cancelling, serverVars>>

ResultTimeoutStatus == "unknown"

(* Mutant: the handle stays registered when the result did not come.       *)
ForgetGoalKept(a) == active

(* The finally clause.                                                     *)
ForgetGoal(a) == active \ {a}

StopWaiting(a) ==
    /\ client[a] = "stopping"
    /\ Returns(a, ResultTimeoutStatus)
    /\ active' = ForgetGoal(a)
    /\ UNCHANGED <<cancelling, asked, serverVars>>

-----------------------------------------------------------------------------
(* cancel, called by the cancellation handler.                             *)

Cancel(a) ==
    /\ cancelling[a] = "none"
    /\ IF a \in active
       THEN /\ cancelling' = [cancelling EXCEPT ![a] = "sent"]
            /\ asked' = asked \cup {a}
       ELSE /\ cancelling' = [cancelling EXCEPT ![a] = "refused"]
            /\ UNCHANGED asked
    /\ UNCHANGED <<client, returned, active, serverVars>>

(* The response lists the goal in goals_canceling.                         *)
CancelAccepted(a) == goal[a] \in {"canceling", "stopped"}

(* The response, or the timeout of 5 seconds, which counts as refused.     *)
CancelReturns(a) ==
    /\ cancelling[a] = "sent"
    /\ \/ /\ CancelAccepted(a)
          /\ cancelling' = [cancelling EXCEPT ![a] = "accepted"]
       \/ cancelling' = [cancelling EXCEPT ![a] = "refused"]
    /\ UNCHANGED <<client, returned, active, asked, serverVars>>

RosServer(a) ==
    \/ ServerAccepts(a) \/ ServerCancels(a)
    \/ \E s \in Answers : ServerFinishes(a, s)

RosClient(a) ==
    \/ GoalResponse(a) \/ GoalTimesOut(a)
    \/ ResultArrives(a) \/ ResultTimesOut(a) \/ StopWaiting(a)
    \/ CancelReturns(a)

-----------------------------------------------------------------------------
RosTypeOK ==
    /\ client \in [Assignments -> {"idle", "sending", "waiting", "stopping", "returned"}]
    /\ returned \in [Assignments -> ResultStatus \cup {"none", "raised"}]
    /\ active \subseteq Assignments /\ asked \subseteq Assignments
    /\ cancelling \in [Assignments -> {"none", "sent", "accepted", "refused"}]
    /\ goal \in [Assignments -> {"none", "pending", "executing", "canceling", "refused",
                                 "done", "stopped"}]
    /\ answer \in [Assignments -> ResultStatus \cup {"none"}]

(* A status that the participant may record as known is what happened: no  *)
(* goal of the assignment is pending or executing in the server any more,  *)
(* whichever of the waits timed out.                                       *)
KnownMeansSettled ==
    \A a \in Assignments :
        returned[a] \in Known =>
            \/ goal[a] \in Over /\ answer[a] = returned[a]
            \/ goal[a] \in {"none", "refused"} /\ returned[a] = "rejected"

(* Cancellation reaches exactly the goals execute waits for, and what it   *)
(* reports as accepted is stopping or over.                                *)
CancellationIsTrue ==
    /\ active = {a \in Assignments : client[a] \in {"waiting", "stopping"}}
    /\ \A a \in Assignments :
          cancelling[a] = "accepted" => goal[a] \in {"canceling", "stopped"}
=============================================================================
