---------------------------- MODULE PlanValidation ----------------------------
(***************************************************************************)
(* validate_plan and _prepare of ump.collaboration: an untrusted planner   *)
(* proposes the steps of a plan, the coordinator checks them, and a plan   *)
(* that passes is dispatched step by step, each step when those it depends *)
(* on have succeeded.  The check for cycles is the depth-first search of   *)
(* the code, one step per call and return of visit; what it has to         *)
(* guarantee is said by running the plan.                                  *)
(***************************************************************************)
EXTENDS Naturals, Sequences, SequencesExt

CONSTANTS
    Proposals,     \* sequences of steps that planners propose
    Participants,  \* SharedGoal.participant_ids
    FreshPeers,    \* peers in the registry with a manifest and a fresh state
    Offered,       \* Offered[r]: the capabilities r's manifest says are available
    Leased,        \* robots an authority lease was given for
    GoalDeadline,  \* SharedGoal.deadline_ms
    PlanTime,      \* now_ms of the submission
    MaxSteps,      \* 256: the greatest number of steps
    NoDeadline,    \* no deadline
    NoStep         \* the loop over the graph is not the visit of a step

ASSUME PlanAssumption ==
    /\ \A p \in Proposals : /\ p \in Seq(ToSet(p))
                            /\ \A i \in DOMAIN p : p[i].deps \in Seq(ToSet(p[i].deps))
    /\ FreshPeers \subseteq DOMAIN Offered
    /\ {PlanTime, MaxSteps} \subseteq Nat
    /\ GoalDeadline \in Nat \cup {NoDeadline}
    /\ NoDeadline \notin Nat

VARIABLES
    plan,      \* the steps proposed: id, robot, capability, deps, deadline
    verdict,   \* "none", "searching", "accepted", "cycle" or "refused"
    calls,     \* the loop over the graph and the calls of visit inside it: the
               \* step of each and the steps it has still to visit
    visiting,  \* the two sets of the search
    visited,
    done       \* the steps that have succeeded

planVars == <<plan, verdict, calls, visiting, visited, done>>

StepIds(p) == {p[i].id : i \in DOMAIN p}

(* graph[step_id], for a plan whose identifiers are unique.                *)
DependsOn(p, s) == p[CHOOSE i \in DOMAIN p : p[i].id = s].deps

(* The checks before the graph is searched, of the plan and of each step.  *)
StepsAreUnique(p) == \A i, j \in DOMAIN p : p[i].id = p[j].id => i = j

StepIsValid(p, x) ==
    /\ x.robot \in Participants \cap FreshPeers
    /\ x.capability \in Offered[x.robot]
    /\ x.deadline # NoDeadline =>
          /\ GoalDeadline # NoDeadline => x.deadline <= GoalDeadline
          /\ PlanTime <= x.deadline
    /\ ToSet(x.deps) \subseteq StepIds(p)

StepsAreValid(p) ==
    /\ Len(p) \in 1..MaxSteps
    /\ StepsAreUnique(p)
    /\ \A i \in DOMAIN p : StepIsValid(p, p[i])

(* _prepare: every assigned robot needs an authority lease.                *)
HasLeases(p) == \A i \in DOMAIN p : p[i].robot \in Leased

PlanInit ==
    /\ plan = <<>>
    /\ verdict = "none"
    /\ calls = <<>> /\ visiting = {} /\ visited = {}
    /\ done = {}

(* A proposal passes the checks, and the loop over the graph begins.       *)
Prepare ==
    /\ verdict = "none"
    /\ plan' \in Proposals
    /\ IF StepsAreValid(plan')
       THEN /\ verdict' = "searching"
            /\ calls' = <<[id |-> NoStep, todo |-> [i \in DOMAIN plan' |-> plan'[i].id]]>>
       ELSE verdict' = "refused" /\ UNCHANGED calls
    /\ UNCHANGED <<visiting, visited, done>>

-----------------------------------------------------------------------------
(* The depth-first search.                                                 *)

Top == calls[Len(calls)]

(* The step visit is called with next, and the caller after that call.     *)
Callee == Head(Top.todo)
Advanced == [calls EXCEPT ![Len(calls)].todo = Tail(@)]

(* The search ends and leaves nothing behind.                              *)
Ends(result) ==
    /\ verdict' = result
    /\ calls' = <<>> /\ visiting' = {} /\ visited' = {}
    /\ UNCHANGED <<plan, done>>

Calling == verdict = "searching" /\ Top.todo # <<>>

VisitRaises ==
    /\ Calling
    /\ Callee \in visiting
    /\ Ends("cycle")

VisitSkips ==
    /\ Calling
    /\ Callee \notin visiting /\ Callee \in visited
    /\ calls' = Advanced
    /\ UNCHANGED <<plan, verdict, visiting, visited, done>>

(* Mutant: a step is taken as visited as soon as the search enters it.     *)
MarksVisited(s) == visited' = visited \cup {s} /\ UNCHANGED visiting

(* visiting.add.                                                           *)
Marks(s) == visiting' = visiting \cup {s} /\ UNCHANGED visited

VisitEnters ==
    /\ Calling
    /\ Callee \notin visiting \cup visited
    /\ calls' = Append(Advanced, [id |-> Callee, todo |-> DependsOn(plan, Callee)])
    /\ Marks(Callee)
    /\ UNCHANGED <<plan, verdict, done>>

VisitReturns ==
    /\ verdict = "searching" /\ Top.todo = <<>> /\ Len(calls) > 1
    /\ calls' = Front(calls)
    /\ visiting' = visiting \ {Top.id}
    /\ visited' = visited \cup {Top.id}
    /\ UNCHANGED <<plan, verdict, done>>

(* validate_plan returns to _prepare.                                      *)
SearchReturns ==
    /\ verdict = "searching" /\ Top.todo = <<>> /\ Len(calls) = 1
    /\ Ends(IF HasLeases(plan) THEN "accepted" ELSE "refused")

Search == VisitRaises \/ VisitSkips \/ VisitEnters \/ VisitReturns \/ SearchReturns

-----------------------------------------------------------------------------
(* ready_assignments: pending, and all it depends on has succeeded.        *)
ReadyStep(i) == plan[i].id \notin done /\ ToSet(plan[i].deps) \subseteq done

(* A step is dispatched and succeeds.  A plan with a cycle is run too, to  *)
(* see what the refusal keeps out.                                         *)
StepSucceeds ==
    /\ verdict \in {"accepted", "cycle"}
    /\ \E i \in DOMAIN plan : ReadyStep(i) /\ done' = done \cup {plan[i].id}
    /\ UNCHANGED <<plan, verdict, calls, visiting, visited>>

PlanNext == Prepare \/ Search \/ StepSucceeds

PlanSpec == PlanInit /\ [][PlanNext]_planVars

-----------------------------------------------------------------------------
(* The search accepts exactly the plans that can be carried out: while an  *)
(* accepted plan is not complete some step is ready, whichever succeeded   *)
(* before, and one refused for a cycle never completes.                    *)
AcceptedPlansComplete ==
    /\ verdict = "accepted" => done = StepIds(plan) \/ \E i \in DOMAIN plan : ReadyStep(i)
    /\ verdict = "cycle" => done # StepIds(plan)
=============================================================================
