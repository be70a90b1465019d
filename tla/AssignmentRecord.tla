--------------------------- MODULE AssignmentRecord ---------------------------
(***************************************************************************)
(* What a robot promises about an assignment, however its requests are     *)
(* repeated, its threads interleave, its process stops and operators work  *)
(* on its journal: one record, which goes from its acceptance to one end;  *)
(* one execution at most, of an accepted assignment only; and answers that *)
(* say what was recorded before, so that they stay true.  What is said of  *)
(* a refusal, of running or of interrupted work binds nobody.              *)
(***************************************************************************)
EXTENDS Naturals

CONSTANT Assignments

Completed == {"succeeded", "failed", "cancelled"}
Ends      == Completed \cup {"rejected", "unknown"}

VARIABLES record,      \* "absent", "accepted", "interrupted" or an end
          executions,  \* how often native code was started
          told         \* what was said, as pairs of an assignment and a fact

Init ==
    /\ record     = [a \in Assignments |-> "absent"]
    /\ executions = [a \in Assignments |-> 0]
    /\ told       = {}

(* What may be said of an assignment whose record is s.                    *)
Facts(s) ==
    {f \in Completed \cup {"accepted", "ended"} :
        \/ f = s
        \/ f = "accepted" /\ s # "absent"
        \/ f = "ended" /\ s \in Ends}

Accept(a) ==
    /\ record[a] = "absent"
    /\ record' = [record EXCEPT ![a] = "accepted"]
    /\ UNCHANGED <<executions, told>>

Begin(a) ==
    /\ record[a] # "absent"
    /\ executions[a] = 0
    /\ executions' = [executions EXCEPT ![a] = 1]
    /\ UNCHANGED <<record, told>>

(* A process finds what another left without an end.                       *)
Interrupt ==
    /\ record' = [a \in Assignments |->
                     IF record[a] = "accepted" THEN "interrupted" ELSE record[a]]
    /\ UNCHANGED <<executions, told>>

End(a, s) ==
    /\ record[a] \in {"accepted", "interrupted"}
    /\ record' = [record EXCEPT ![a] = s]
    /\ UNCHANGED <<executions, told>>

Tell(a, f) ==
    /\ f \in Facts(record[a])
    /\ told' = told \cup {<<a, f>>}
    /\ UNCHANGED <<record, executions>>

Next ==
    \/ Interrupt
    \/ \E a \in Assignments :
          \/ Accept(a) \/ Begin(a)
          \/ \E s \in Ends : End(a, s)
          \/ \E f \in Facts(record[a]) : Tell(a, f)

Spec == Init /\ [][Next]_<<record, executions, told>>
=============================================================================
