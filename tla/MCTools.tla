------------------------------- MODULE MCTools -------------------------------
(***************************************************************************)
(* Plan validation, the standards mappings and the backup tool share       *)
(* nothing: a behaviour of this module is one of one of them.              *)
(***************************************************************************)
EXTENDS PlanValidation, Integrations, Backup

CONSTANTS s1, s2, s3, sx, r1, r2, cap, p1, p2

VARIABLE subject  \* the component this behaviour is about

(* All plans of three steps with up to two dependencies each, one of them  *)
(* unknown; and plans of two steps with every assignment of identifiers,   *)
(* robots and deadlines.                                                   *)
Dependencies == SeqOf({s1, s2, s3, sx}, 2)
Step(id, robot, deps, deadline) ==
    [id |-> id, robot |-> robot, capability |-> cap, deps |-> deps, deadline |-> deadline]
MCProposals ==
    {<<Step(s1, r1, d[1], NoDeadline), Step(s2, r1, d[2], NoDeadline),
       Step(s3, r1, d[3], NoDeadline)>> : d \in [1..3 -> Dependencies]}
    \cup
    {<<Step(s1, r[1], <<>>, t[1]), Step(i, r[2], <<s1>>, t[2])>> :
        i \in {s1, s2}, r \in [1..2 -> {r1, r2}], t \in [1..2 -> {NoDeadline, 0, 1, 2}]}

MCOffered == [r \in {r1, r2} |-> {cap}]
MCRoles   == <<"assignment", "authority">>

Init ==
    /\ subject \in {"plan", "relay", "backup"}
    /\ PlanInit
    /\ BackupInit
    /\ IF subject = "relay" THEN IntegrationsInit
       ELSE /\ shown = [mode |-> "idle", safety |-> "unknown", health |-> "unknown"]
            /\ source = shown /\ passed = {} /\ hops = 0

Next ==
    \/ subject = "plan" /\ PlanNext /\ UNCHANGED <<subject, integrationVars, backupVars>>
    \/ subject = "relay" /\ IntegrationsNext /\ UNCHANGED <<subject, planVars, backupVars>>
    \/ subject = "backup" /\ BackupNext /\ UNCHANGED <<subject, planVars, integrationVars>>

vars == <<subject, planVars, integrationVars, backupVars>>
Spec == Init /\ [][Next]_vars
=============================================================================
