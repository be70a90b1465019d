---------------------------- MODULE Participant ----------------------------
(***************************************************************************)
(* One robot's participant process: the assignment, query and cancellation *)
(* handlers of ump.runtime.Participant, the durable assignment journal     *)
(* behind them (ump.journal), the native execution they start inline or in *)
(* a worker pool, process crash, restart and orderly close, and the        *)
(* operator's ump-reconcile tool working on the same journal.              *)
(*                                                                         *)
(* Requests arrive in the durable inbox, one queue per authenticated       *)
(* source session; an inbox row leaves its queue only when its handler has *)
(* returned or raised, so a crash in the middle of a handler hands the     *)
(* same request out again after the restart.  Every read or transaction of *)
(* the journal is one step, and threads interleave between any two steps.  *)
(*                                                                         *)
(* Abstracted data: an assignment's payload is a member of Contents (what  *)
(* the fingerprint tells apart), an outcome is its status and the place    *)
(* that wrote its description, and the verdict of the checks made before   *)
(* the journal is consulted (execution window, deadline, authority lease,  *)
(* advertised capability, input schema) is the set admits, which the       *)
(* environment changes at any time: clocks advance, leases are revoked or  *)
(* renewed, adapters change their manifests.                               *)
(***************************************************************************)
EXTENDS Naturals, Sequences, FiniteSets

CONSTANTS
    Assignments,       \* assignment identifiers
    Issuers,           \* authenticated coordinator identities
    Contents,          \* distinguishable assignment payloads
    Resources,         \* robot-local resource identifiers
    Needs,             \* Needs[c]: the resources payload c reserves
    Sessions,          \* source sessions the inbox tells apart
    IssuerOf,          \* IssuerOf[l]: the identity behind session l
    NoOwner,           \* a resource nobody holds
    InboxWorkers,      \* SqliteInbox worker_count
    ExecutionWorkers,  \* Participant execution_workers, 0 = inline
    NativeStatuses,    \* statuses native outcomes carry in this instance
    Resolutions,       \* statuses operators determine in this instance
    LiveTool,          \* may ump-reconcile run beside a live participant?
    OutboxMayFill,     \* may a publication fail because the outbox is full?
    MaxRequests,       \* bound: requests received over a behaviour
    MaxStops           \* bound: crashes and closes over a behaviour

KnownTerminal == {"succeeded", "failed", "rejected", "cancelled"}
OutcomeStatus == KnownTerminal \cup {"unknown"}

ASSUME ParticipantAssumption ==
    /\ Needs \in [Contents -> SUBSET Resources]
    /\ IssuerOf \in [Sessions -> Issuers]
    /\ Issuers # {} /\ Contents # {}
    /\ NoOwner \notin Assignments
    /\ InboxWorkers \in Nat \ {0}
    /\ ExecutionWorkers \in Nat
    /\ NativeStatuses \subseteq OutcomeStatus
    /\ Resolutions \subseteq KnownTerminal
    /\ LiveTool \in BOOLEAN
    /\ OutboxMayFill \in BOOLEAN
    /\ MaxRequests \in Nat
    /\ MaxStops \in Nat

VARIABLES
    status,     \* journal: status of each assignment, "absent" without a row
    outcome,    \* journal: its terminal outcome, NoOutcome when NULL
    binding,    \* journal: the issuer and payload its identifier is bound to
    reserved,   \* journal: the assignment that holds each resource
    inbox,      \* durable inbox: the requests of each session, oldest first
    phase,      \* the process: "down", "starting", "up" or "closing"
    pc,         \* the handler that works on the head of each session's queue
    out,        \* what that handler still has to publish, in order
    exec,       \* the thread running _execute_assignment for an assignment
    result,     \* the outcome that thread holds
    admits,     \* assignments the checks before the journal let through now
    tool,       \* TRUE while ump-reconcile has the journal open
    started,    \* history: calls of adapter.accept per assignment
    published,  \* history: every message published
    received,   \* history: requests received, for the bound
    stops       \* history: crashes and closes, for the bound

journalVars == <<status, outcome, binding, reserved>>
threadVars  == <<pc, out, exec, result>>
boundVars   == <<received, stops>>
vars == <<journalVars, inbox, phase, threadVars, admits, tool, started,
          published, boundVars>>

(* Who wrote an outcome's description: two outcomes with the same status   *)
(* from different origins are different JSON.                              *)
Origins == {"none", "native", "cancellation", "operator", "refused",
            "interrupted"}
Outcomes  == [status : OutcomeStatus, origin : Origins]
NoOutcome == [status |-> "none", origin |-> "none"]

Bindings == [issuer : Issuers, content : Contents]

Requests ==
         [kind : {"assignment"}, id : Assignments, content : Contents]
    \cup [kind : {"query", "cancel"}, id : Assignments]

MessageKinds  == {"assignment_ack", "outcome", "cancellation_ack",
                  "assignment_snapshot"}
MessageStatus == OutcomeStatus
                 \cup {"absent", "none", "accepted", "already_terminal"}
Messages == [kind : MessageKinds, id : Assignments, status : MessageStatus,
             outcome : Outcomes \cup {NoOutcome}]

Message(k, a, s, o) ==
    [kind |-> k, id |-> a, status |-> s, outcome |-> o]
AckMsg(a, s)     == Message("assignment_ack", a, s, NoOutcome)
OutcomeMsg(a, o) == Message("outcome", a, o.status, o)
CancelAck(a, s)  == Message("cancellation_ack", a, s, NoOutcome)
Snapshot(a)      == Message("assignment_snapshot", a, status[a], outcome[a])

Refusal     == [status |-> "rejected", origin |-> "refused"]
Interrupted == [status |-> "unknown", origin |-> "interrupted"]
Cancelled   == [status |-> "cancelled", origin |-> "cancellation"]

Init ==
    /\ status    = [a \in Assignments |-> "absent"]
    /\ outcome   = [a \in Assignments |-> NoOutcome]
    /\ binding   = [a \in Assignments |-> CHOOSE b \in Bindings : TRUE]
    /\ reserved  = [r \in Resources |-> NoOwner]
    /\ inbox     = [l \in Sessions |-> <<>>]
    /\ phase     = "up"
    /\ pc        = [l \in Sessions |-> "idle"]
    /\ out       = [l \in Sessions |-> <<>>]
    /\ exec      = [a \in Assignments |-> "none"]
    /\ result    = [a \in Assignments |-> NoOutcome]
    /\ admits    = Assignments
    /\ tool      = FALSE
    /\ started   = [a \in Assignments |-> 0]
    /\ published = {}
    /\ received  = 0
    /\ stops     = 0

-----------------------------------------------------------------------------
(* The journal's transactions.                                             *)

(* Mutant: a row interrupted by a restart is executed again.               *)
ClaimKindRetriesInterrupted(a, b) ==
    IF status[a] \in {"absent", "unknown"}
    THEN IF \E r \in Needs[b.content] : reserved[r] \notin {NoOwner, a}
         THEN "resource_conflict"
         ELSE "new"
    ELSE IF binding[a] # b THEN "conflict"
    ELSE IF outcome[a] # NoOutcome THEN "replay"
    ELSE "uncertain"

(* SqliteAssignmentJournal.claim: what the transaction finds.              *)
ClaimKind(a, b) ==
    IF status[a] = "absent"
    THEN IF \E r \in Needs[b.content] : reserved[r] \notin {NoOwner, a}
         THEN "resource_conflict"
         ELSE "new"
    ELSE IF binding[a] # b THEN "conflict"
    ELSE IF outcome[a] # NoOutcome THEN "replay"
    ELSE "uncertain"

(* Mutant: the transaction that reserves forgets the assignment's row.     *)
RecordAcceptanceLost(a, b) ==
    /\ binding'  = [binding EXCEPT ![a] = b]
    /\ reserved' = [r \in Resources |->
                        IF r \in Needs[b.content] THEN a ELSE reserved[r]]
    /\ UNCHANGED <<status, outcome>>

(* Mutant: the assignment is accepted without its reservations.            *)
RecordAcceptanceUnreserved(a, b) ==
    /\ status'   = [status EXCEPT ![a] = "accepted"]
    /\ binding'  = [binding EXCEPT ![a] = b]
    /\ UNCHANGED <<outcome, reserved>>

(* The rows claim inserts for a new assignment, reservations included.     *)
RecordAcceptance(a, b) ==
    /\ status'   = [status EXCEPT ![a] = "accepted"]
    /\ binding'  = [binding EXCEPT ![a] = b]
    /\ reserved' = [r \in Resources |->
                        IF r \in Needs[b.content] THEN a ELSE reserved[r]]
    /\ UNCHANGED outcome

(* Mutant: an unknown outcome releases too.                                *)
ReservedAfterAny(a, o) ==
    [r \in Resources |-> IF reserved[r] = a THEN NoOwner ELSE reserved[r]]

(* Reservations left after assignment a settles with outcome o.            *)
ReservedAfter(a, o) ==
    [r \in Resources |->
        IF reserved[r] = a /\ o.status # "unknown" THEN NoOwner
        ELSE reserved[r]]

(* Mutant: the last writer wins.                                           *)
MayCompleteAlways(a, o) == TRUE

(* complete refuses an outcome that differs from the stored one.           *)
MayComplete(a, o) == outcome[a] \in {NoOutcome, o}

RecordOutcome(a, o) ==
    /\ status'   = [status EXCEPT ![a] = o.status]
    /\ outcome'  = [outcome EXCEPT ![a] = o]
    /\ reserved' = ReservedAfter(a, o)
    /\ UNCHANGED binding

(* Mutant: opening the journal recovers nothing.                           *)
StatusOnOpenUnchanged == status

(* Opening the journal marks accepted rows without an outcome as unknown.  *)
StatusOnOpen ==
    [a \in Assignments |->
        IF status[a] = "accepted" /\ outcome[a] = NoOutcome THEN "unknown"
        ELSE status[a]]

OpenJournal == status' = StatusOnOpen /\ UNCHANGED <<outcome, binding, reserved>>

-----------------------------------------------------------------------------
(* The inbox and the handlers it runs.                                     *)

Current(l) == Head(inbox[l])

(* A request becomes an active row of the durable inbox (Delivery models   *)
(* how it gets there).  The server listens from the subscription on, and   *)
(* until bus.stop, after the journal is closed.                            *)
Receive(l, q) ==
    /\ phase \in {"up", "closing"}
    /\ received < MaxRequests
    /\ inbox' = [inbox EXCEPT ![l] = Append(@, q)]
    /\ received' = received + 1
    /\ UNCHANGED <<journalVars, phase, threadVars, admits, tool, started,
                   published, stops>>

(* A worker takes the oldest row of a session no other worker is on.       *)
Takes(l, k) ==
    /\ phase = "up"
    /\ pc[l] = "idle"
    /\ inbox[l] # <<>>
    /\ Current(l).kind = k
    /\ Cardinality({m \in Sessions : pc[m] # "idle"}) < InboxWorkers

(* Mutant: the row stays received after its handler returned.              *)
LeaveInboxKeepsRow(l) ==
    /\ pc'    = [pc EXCEPT ![l] = "idle"]
    /\ out'   = [out EXCEPT ![l] = <<>>]
    /\ UNCHANGED inbox

(* The handler returned or raised: the row is processed or a dead letter.  *)
LeaveInbox(l) ==
    /\ inbox' = [inbox EXCEPT ![l] = Tail(@)]
    /\ pc'    = [pc EXCEPT ![l] = "idle"]
    /\ out'   = [out EXCEPT ![l] = <<>>]

(* The rest of the handler only publishes these messages.                  *)
Reply(l, messages) ==
    /\ pc'  = [pc EXCEPT ![l] = "replying"]
    /\ out' = [out EXCEPT ![l] = messages]
    /\ UNCHANGED inbox

Publish(l) ==
    /\ out[l] # <<>>
    /\ published' = published \cup {Head(out[l])}
    /\ out' = [out EXCEPT ![l] = Tail(@)]
    /\ UNCHANGED <<journalVars, inbox, phase, pc, exec, result, admits, tool,
                   started, boundVars>>

FinishReply(l) ==
    /\ pc[l] = "replying"
    /\ out[l] = <<>>
    /\ LeaveInbox(l)
    /\ UNCHANGED <<journalVars, phase, exec, result, admits, tool, started,
                   published, boundVars>>

(* _assignment up to the journal: every failed check answers with a        *)
(* rejected acknowledgement and outcome and leaves the journal alone.      *)
Admit(l) ==
    LET a == Current(l).id IN
    /\ Takes(l, "assignment")
    /\ IF a \in admits
       THEN /\ pc' = [pc EXCEPT ![l] = "admitted"]
            /\ UNCHANGED <<out, inbox>>
       ELSE Reply(l, <<AckMsg(a, "rejected"), OutcomeMsg(a, Refusal)>>)
    /\ UNCHANGED <<journalVars, phase, exec, result, admits, tool, started,
                   published, boundVars>>

(* _assignment from journal.claim on.                                      *)
Claim(l) ==
    LET a == Current(l).id
        b == [issuer |-> IssuerOf[l], content |-> Current(l).content]
        k == ClaimKind(a, b) IN
    /\ phase = "up"
    /\ pc[l] = "admitted"
    /\ \/ /\ k = "new"
          /\ RecordAcceptance(a, b)
          /\ pc'  = [pc EXCEPT ![l] = "accepted"]
          /\ out' = [out EXCEPT ![l] = <<AckMsg(a, "accepted")>>]
          /\ UNCHANGED inbox
       \/ /\ k = "replay"
          /\ Reply(l, <<AckMsg(a, outcome[a].status), OutcomeMsg(a, outcome[a])>>)
          /\ UNCHANGED journalVars
       \/ /\ k \in {"conflict", "resource_conflict"}
          /\ Reply(l, <<AckMsg(a, "rejected"), OutcomeMsg(a, Refusal)>>)
          /\ UNCHANGED journalVars
       \/ /\ k = "uncertain"
          /\ Reply(l, <<AckMsg(a, "unknown"), OutcomeMsg(a, Interrupted)>>)
          /\ UNCHANGED journalVars
    /\ UNCHANGED <<phase, exec, result, admits, tool, started, published,
                   boundVars>>

(* The acknowledgement is out: hand the assignment to the pool, or go on   *)
(* in this thread.                                                         *)
StartExecution(l) ==
    /\ phase = "up" \/ ExecutionWorkers = 0
    /\ pc[l] = "accepted"
    /\ out[l] = <<>>
    /\ exec' = [exec EXCEPT ![Current(l).id] = "queued"]
    /\ IF ExecutionWorkers = 0
       THEN pc' = [pc EXCEPT ![l] = "executing"] /\ UNCHANGED <<inbox, out>>
       ELSE LeaveInbox(l)
    /\ UNCHANGED <<journalVars, phase, result, admits, tool, started,
                   published, boundVars>>

FinishInline(l) ==
    /\ pc[l] = "executing"
    /\ exec[Current(l).id] = "ended"
    /\ LeaveInbox(l)
    /\ UNCHANGED <<journalVars, phase, exec, result, admits, tool, started,
                   published, boundVars>>

(* Queries and cancellations are dropped silently without a row that this  *)
(* session's issuer owns.                                                  *)
Foreign(l, a) == status[a] = "absent" \/ binding[a].issuer # IssuerOf[l]

(* _assignment_query.                                                      *)
Query(l) ==
    LET a == Current(l).id IN
    /\ Takes(l, "query")
    /\ IF Foreign(l, a)
       THEN LeaveInbox(l)
       ELSE Reply(l, <<Snapshot(a)>>)
    /\ UNCHANGED <<journalVars, phase, exec, result, admits, tool, started,
                   published, boundVars>>

(* _cancellation_request up to the native decision.                        *)
Cancel(l) ==
    LET a == Current(l).id IN
    /\ Takes(l, "cancel")
    /\ IF Foreign(l, a)
       THEN LeaveInbox(l)
       ELSE IF outcome[a] # NoOutcome
       THEN Reply(l, <<CancelAck(a, "already_terminal"),
                       OutcomeMsg(a, outcome[a])>>)
       ELSE IF status[a] = "unknown"
       THEN Reply(l, <<CancelAck(a, "unknown")>>)
       ELSE /\ pc' = [pc EXCEPT ![l] = "cancelling"]
            /\ UNCHANGED <<inbox, out>>
    /\ UNCHANGED <<journalVars, phase, exec, result, admits, tool, started,
                   published, boundVars>>

(* adapter.cancel.  The adapter's decision is its own; the ones here that  *)
(* ever accept (lab.py, ros2.py) do so only for the work they have active, *)
(* and that is assumed of every adapter.                                   *)
CancelNative(l) ==
    LET a == Current(l).id IN
    /\ pc[l] = "cancelling"
    /\ \/ /\ exec[a] = "running"
          /\ pc' = [pc EXCEPT ![l] = "cancelled"]
          /\ UNCHANGED <<inbox, out>>
       \/ Reply(l, <<CancelAck(a, "rejected")>>)
    /\ UNCHANGED <<journalVars, phase, exec, result, admits, tool, started,
                   published, boundVars>>

(* journal.complete of the cancellation: it raises when the execution      *)
(* thread recorded its own outcome since the handler looked.               *)
CompleteCancel(l) ==
    LET a == Current(l).id IN
    /\ phase = "up"
    /\ pc[l] = "cancelled"
    /\ IF MayComplete(a, Cancelled)
       THEN /\ RecordOutcome(a, Cancelled)
            /\ Reply(l, <<CancelAck(a, "accepted"), OutcomeMsg(a, Cancelled)>>)
       ELSE /\ LeaveInbox(l)
            /\ UNCHANGED journalVars
    /\ UNCHANGED <<phase, exec, result, admits, tool, started, published,
                   boundVars>>

(* A handler raises: the adapter's cancel failed, the outbox has no room   *)
(* for what it publishes, or the process is closing and the journal is     *)
(* closed or the pool shut down already.  The row is a dead letter, and    *)
(* what the handler had still to do is not done.                           *)
HandlerRaises(l) ==
    /\ inbox[l] # <<>>
    /\ \/ pc[l] = "cancelling"
       \/ OutboxMayFill /\ out[l] # <<>>
       \/ phase = "closing" /\ pc[l] \in {"idle", "admitted", "cancelled"}
       \/ /\ phase = "closing" /\ ExecutionWorkers # 0
          /\ pc[l] = "accepted" /\ out[l] = <<>>
    /\ LeaveInbox(l)
    /\ UNCHANGED <<journalVars, phase, exec, result, admits, tool, started,
                   published, boundVars>>

-----------------------------------------------------------------------------
(* _execute_assignment, in the pool or in the handler's thread.            *)

Executing == {a \in Assignments : exec[a] \in
                 {"running", "returned", "completing", "publishing"}}

NativeAccept(a) ==
    /\ exec[a] = "queued"
    /\ ExecutionWorkers = 0 \/ Cardinality(Executing) < ExecutionWorkers
    /\ exec'    = [exec EXCEPT ![a] = "running"]
    /\ started' = [started EXCEPT ![a] = @ + 1]
    /\ UNCHANGED <<journalVars, inbox, phase, pc, out, result, admits, tool,
                   published, boundVars>>

(* Mutant: an outcome that is not terminal is let through.                 *)
NativeReturnAccepted(a, s) ==
    /\ exec[a] = "running"
    /\ exec'   = [exec EXCEPT ![a] = "returned"]
    /\ result' = [result EXCEPT ![a] = [status |-> "accepted", origin |-> "native"]]
    /\ UNCHANGED <<journalVars, inbox, phase, pc, out, admits, tool, started,
                   published, boundVars>>

(* accept returns any terminal outcome; an exception, a foreign identity   *)
(* or outputs outside the schema give unknown.                             *)
NativeReturn(a, s) ==
    /\ exec[a] = "running"
    /\ exec'   = [exec EXCEPT ![a] = "returned"]
    /\ result' = [result EXCEPT ![a] = [status |-> s, origin |-> "native"]]
    /\ UNCHANGED <<journalVars, inbox, phase, pc, out, admits, tool, started,
                   published, boundVars>>

(* journal.lookup after the native call: a stored outcome wins.            *)
LookupOutcome(a) ==
    /\ phase # "closing"
    /\ exec[a] = "returned"
    /\ IF outcome[a] # NoOutcome
       THEN /\ exec'   = [exec EXCEPT ![a] = "publishing"]
            /\ result' = [result EXCEPT ![a] = outcome[a]]
       ELSE /\ exec' = [exec EXCEPT ![a] = "completing"]
            /\ UNCHANGED result
    /\ UNCHANGED <<journalVars, inbox, phase, pc, out, admits, tool, started,
                   published, boundVars>>

(* journal.complete, in a transaction of its own: it raises, and nothing   *)
(* is published, when another outcome got in between.                      *)
CompleteExecution(a) ==
    /\ phase # "closing"
    /\ exec[a] = "completing"
    /\ IF MayComplete(a, result[a])
       THEN /\ RecordOutcome(a, result[a])
            /\ exec' = [exec EXCEPT ![a] = "publishing"]
       ELSE /\ exec' = [exec EXCEPT ![a] = "ended"]
            /\ UNCHANGED journalVars
    /\ UNCHANGED <<inbox, phase, pc, out, result, admits, tool, started,
                   published, boundVars>>

(* The outcome is published; the state message that follows is not part of *)
(* this model.                                                             *)
PublishOutcome(a) ==
    /\ exec[a] = "publishing"
    /\ exec' = [exec EXCEPT ![a] = "ended"]
    /\ published' = published \cup {OutcomeMsg(a, result[a])}
    /\ UNCHANGED <<journalVars, inbox, phase, pc, out, result, admits, tool,
                   started, boundVars>>

(* An inline execution that finds the journal closed raises, and so does   *)
(* any whose outcome the outbox cannot take.                               *)
ExecutionRaises(a) ==
    /\ \/ phase = "closing" /\ exec[a] \in {"returned", "completing"}
       \/ OutboxMayFill /\ exec[a] = "publishing"
    /\ exec' = [exec EXCEPT ![a] = "ended"]
    /\ UNCHANGED <<journalVars, inbox, phase, pc, out, result, admits, tool,
                   started, published, boundVars>>

-----------------------------------------------------------------------------
(* The process, the environment and the operator.                          *)

Halt ==
    /\ phase' = "down"
    /\ pc'    = [l \in Sessions |-> "idle"]
    /\ out'   = [l \in Sessions |-> <<>>]
    /\ exec'  = [a \in Assignments |-> "none"]
    /\ result' = [a \in Assignments |-> NoOutcome]
    /\ UNCHANGED <<journalVars, inbox, admits, tool, started, published,
                   received>>

Crash == phase # "down" /\ stops < MaxStops /\ Halt /\ stops' = stops + 1

(* Participant.close waits for the pool, then closes the journal while the *)
(* inbox workers are still running.                                        *)
Close ==
    /\ phase = "up"
    /\ stops < MaxStops
    /\ ExecutionWorkers # 0 => \A a \in Assignments : exec[a] \in {"none", "ended"}
    /\ phase' = "closing"
    /\ stops' = stops + 1
    /\ UNCHANGED <<journalVars, inbox, threadVars, admits, tool, started,
                   published, received>>

(* bus.stop joins the inbox workers.                                       *)
Stopped ==
    /\ phase = "closing"
    /\ \A l \in Sessions : pc[l] = "idle"
    /\ Halt
    /\ UNCHANGED stops

(* The journal is opened, then the bus, whose inbox starts its workers.    *)
Start ==
    /\ phase = "down"
    /\ phase' = "starting"
    /\ OpenJournal
    /\ UNCHANGED <<inbox, threadVars, admits, tool, started, published,
                   boundVars>>

(* A row taken before the participant subscribed has no handler: the local *)
(* bus delivers it to nobody and the worker marks it processed.            *)
ProcessUnsubscribed(l) ==
    /\ phase = "starting"
    /\ inbox[l] # <<>>
    /\ LeaveInbox(l)
    /\ UNCHANGED <<journalVars, phase, exec, result, admits, tool, started,
                   published, boundVars>>

Subscribe ==
    /\ phase = "starting"
    /\ phase' = "up"
    /\ UNCHANGED <<journalVars, inbox, threadVars, admits, tool, started,
                   published, boundVars>>

(* Time passes, leases lapse or are renewed, manifests change.             *)
ChangeConditions(a) ==
    /\ admits' = IF a \in admits THEN admits \ {a} ELSE admits \cup {a}
    /\ UNCHANGED <<journalVars, inbox, phase, threadVars, tool, started,
                   published, boundVars>>

(* ump-reconcile opens the journal like the participant does.              *)
ToolOpen ==
    /\ ~tool
    /\ LiveTool \/ phase = "down"
    /\ tool' = TRUE
    /\ OpenJournal
    /\ UNCHANGED <<inbox, phase, threadVars, admits, started, published,
                   boundVars>>

(* resolve_unknown needs an unknown row without an outcome.                *)
Resolvable(a) == status[a] = "unknown" /\ outcome[a] = NoOutcome

ToolResolve(a, s) ==
    /\ tool
    /\ LiveTool \/ phase = "down"
    /\ Resolvable(a)
    /\ RecordOutcome(a, [status |-> s, origin |-> "operator"])
    /\ tool' = FALSE
    /\ UNCHANGED <<inbox, phase, threadVars, admits, started, published,
                   boundVars>>

ToolFails ==
    /\ tool
    /\ tool' = FALSE
    /\ UNCHANGED <<journalVars, inbox, phase, threadVars, admits, started,
                   published, boundVars>>

-----------------------------------------------------------------------------
Handler(l) ==
    \/ Publish(l) \/ FinishReply(l) \/ Admit(l) \/ Claim(l)
    \/ StartExecution(l) \/ FinishInline(l) \/ Query(l) \/ Cancel(l)
    \/ CancelNative(l) \/ CompleteCancel(l) \/ HandlerRaises(l)

Execution(a) ==
    \/ NativeAccept(a)
    \/ \E s \in NativeStatuses : NativeReturn(a, s)
    \/ LookupOutcome(a) \/ CompleteExecution(a) \/ PublishOutcome(a)
    \/ ExecutionRaises(a)

Next ==
    \/ \E l \in Sessions, q \in Requests : Receive(l, q)
    \/ \E l \in Sessions : Handler(l) \/ ProcessUnsubscribed(l)
    \/ \E a \in Assignments : Execution(a) \/ ChangeConditions(a)
    \/ Crash \/ Close \/ Stopped \/ Start \/ Subscribe
    \/ ToolOpen \/ ToolFails
    \/ \E a \in Assignments, s \in Resolutions : ToolResolve(a, s)

Spec == Init /\ [][Next]_vars

(* Threads are scheduled, native calls return, a stopped service is        *)
(* started again (it runs under systemd with Restart=on-failure).          *)
Fairness ==
    /\ \A l \in Sessions : WF_vars(Handler(l))
    /\ \A a \in Assignments : WF_vars(Execution(a))
    /\ WF_vars(Stopped) /\ WF_vars(Start) /\ WF_vars(Subscribe)

FairSpec == Spec /\ Fairness

-----------------------------------------------------------------------------
(* What must hold.                                                         *)

TypeOK ==
    /\ status   \in [Assignments -> OutcomeStatus \cup {"absent", "accepted"}]
    /\ outcome  \in [Assignments -> Outcomes \cup {NoOutcome}]
    /\ binding  \in [Assignments -> Bindings]
    /\ reserved \in [Resources -> Assignments \cup {NoOwner}]
    /\ inbox    \in [Sessions -> Seq(Requests)]
    /\ phase    \in {"down", "starting", "up", "closing"}
    /\ pc       \in [Sessions -> {"idle", "admitted", "accepted", "executing",
                                  "cancelling", "cancelled", "replying"}]
    /\ out      \in [Sessions -> Seq(Messages)]
    /\ exec     \in [Assignments -> {"none", "queued", "running", "returned",
                                     "completing", "publishing", "ended"}]
    /\ result   \in [Assignments -> Outcomes \cup {NoOutcome}]
    /\ admits   \in SUBSET Assignments
    /\ tool     \in BOOLEAN
    /\ started  \in [Assignments -> Nat]
    /\ published \in SUBSET Messages
    /\ received \in Nat
    /\ stops    \in Nat

(* The adapter's accept is called at most once for an assignment           *)
(* identifier, whatever is redelivered, reordered between sessions or      *)
(* interrupted by crashes (docs/PROTOCOL.md, "Assignment boundary").       *)
NativeAtMostOnce == \A a \in Assignments : started[a] <= 1

(* Recorded outcomes are the ones a terminal record carries; refusals and  *)
(* interruption notices are not recorded.                                  *)
RecordedOrigins == {"native", "cancellation", "operator"}

(* Every outcome published as the assignment's result, by the execution    *)
(* thread, by a cancellation, by a replay or in a snapshot, is the one the *)
(* journal holds: recorded before publication, never replaced, and the     *)
(* same for all who ask, although lookup and complete are two steps and a  *)
(* cancellation may complete the assignment between them.                  *)
PublishedIsRecorded ==
    \A m \in published :
        m.outcome.origin \in RecordedOrigins => outcome[m.id] = m.outcome

(* Native code that runs and was not cancelled holds every resource it     *)
(* needs, so two such assignments never share one: not after a redelivery, *)
(* a crash or an operator's resolution of other work.                      *)
Unstopped(a) == exec[a] = "running" /\ outcome[a].origin # "cancellation"

NativeWorkExclusive ==
    \A a \in Assignments : Unstopped(a) =>
        \A r \in Needs[binding[a].content] : reserved[r] = a

(* What the journal holds of an assignment with this status and outcome,   *)
(* and what a coordinator reads in a message about it.                     *)
RecordOf(st, o) == IF o # NoOutcome THEN o.status
                   ELSE IF st = "unknown" THEN "interrupted" ELSE st

Says(m) ==
    IF m.kind = "cancellation_ack"
    THEN CASE m.status = "accepted" -> "cancelled"
           [] m.status = "already_terminal" -> "ended"
           [] OTHER -> "nothing"
    ELSE IF m.status \in {"accepted", "succeeded", "failed", "cancelled"}
    THEN m.status ELSE "nothing"

Promise == INSTANCE AssignmentRecord WITH
              record     <- [a \in Assignments |-> RecordOf(status[a], outcome[a])],
              executions <- started,
              told       <- {<<m.id, Says(m)>> : m \in {n \in published : Says(n) # "nothing"}}

(* The robot keeps the promise of AssignmentRecord: nothing is executed    *)
(* that is not in the journal or was executed before, and acceptances,     *)
(* results and cancellations are in the journal before any handler or      *)
(* execution answers with them, so that every answer stays true.           *)
KeepsRecord == Promise!Spec

(* A reservation ends only in the step that records a known terminal       *)
(* outcome of its owner; unknown work keeps its resources over restarts.   *)
ReleasedOnlyWhenSettled ==
    [][\A r \in Resources :
          reserved[r] # NoOwner /\ reserved'[r] # reserved[r] =>
              /\ reserved'[r] = NoOwner
              /\ outcome'[reserved[r]].status \in KnownTerminal]_vars

(* An accepted assignment does not stay accepted: its execution records an *)
(* outcome, or the process stops and the restart finds it unknown.         *)
AcceptedSettles ==
    \A a \in Assignments : status[a] = "accepted" ~> status[a] # "accepted"

(* No row stays in the inbox: its handler returns or raises, and its       *)
(* session goes on with the next one; or a worker takes it before the      *)
(* participant has subscribed and there is no handler (RemovedByHandler    *)
(* below is about those).                                                  *)
InboxDrains ==
    \A l \in Sessions : inbox[l] # <<>> ~> inbox[l] = <<>>

-----------------------------------------------------------------------------
(* What the documents and comments say, and the code does not do.          *)

(* docs/PROTOCOL.md on redelivery: an assignment that was accepted is not  *)
(* answered with a rejection when the same issuer's same payload comes     *)
(* again.  _assignment checks deadline, lease and manifest first.          *)
RedeliveryNotRefused ==
    [][\A l \in Sessions :
          pc[l] = "idle" /\ pc'[l] = "replying" /\ Current(l).kind = "assignment" =>
              ~ /\ status[Current(l).id] # "absent"
                /\ binding[Current(l).id] =
                      [issuer |-> IssuerOf[l], content |-> Current(l).content]]_vars

(* docs/RECONCILIATION.md: unknown work, an action-result timeout          *)
(* included, can be resolved from evidence.  complete records an unknown   *)
(* outcome and resolve_unknown refuses a row that has one.                 *)
UnknownIsResolvable ==
    \A a \in Assignments : status[a] = "unknown" => Resolvable(a)

(* ump.delivery calls the inbox a durable receiver queue: a row is removed *)
(* from it by its handler only.                                            *)
RemovedByHandler ==
    [][\A l \in Sessions : inbox'[l] # inbox[l] => phase # "starting"]_vars
=============================================================================
