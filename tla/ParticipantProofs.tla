------------------------- MODULE ParticipantProofs -------------------------
(***************************************************************************)
(* Theorems about Participant for every set of assignments, issuers,       *)
(* payloads, resources and sessions, any number of workers, and whatever   *)
(* the bounds are.                                                         *)
(***************************************************************************)
EXTENDS Participant, TLAPS

(* A message built from typed parts is a message.                          *)
LEMMA MessageType ==
    ASSUME NEW k \in MessageKinds, NEW a \in Assignments,
           NEW s \in MessageStatus, NEW o \in Outcomes \cup {NoOutcome}
    PROVE  Message(k, a, s, o) \in Messages
BY DEF Message, Messages

(* The messages handlers build are messages.                               *)
LEMMA BuiltMessages ==
    ASSUME NEW a \in Assignments
    PROVE  /\ \A s \in MessageStatus : AckMsg(a, s) \in Messages
           /\ \A s \in MessageStatus : CancelAck(a, s) \in Messages
           /\ \A o \in Outcomes \cup {NoOutcome} : OutcomeMsg(a, o) \in Messages
           /\ TypeOK => Snapshot(a) \in Messages
           /\ Refusal \in Outcomes /\ Interrupted \in Outcomes
           /\ Cancelled \in Outcomes
<1>1. \A s \in MessageStatus : AckMsg(a, s) \in Messages
  BY MessageType DEF AckMsg, MessageKinds
<1>2. \A s \in MessageStatus : CancelAck(a, s) \in Messages
  BY MessageType DEF CancelAck, MessageKinds
<1>3. \A o \in Outcomes \cup {NoOutcome} : o.status \in MessageStatus
  BY DEF Outcomes, NoOutcome, MessageStatus
<1>4. \A o \in Outcomes \cup {NoOutcome} : OutcomeMsg(a, o) \in Messages
  BY <1>3, MessageType DEF OutcomeMsg, MessageKinds
<1>5. TypeOK => Snapshot(a) \in Messages
  BY MessageType DEF Snapshot, MessageKinds, TypeOK, MessageStatus
<1>6. Refusal \in Outcomes /\ Interrupted \in Outcomes /\ Cancelled \in Outcomes
  BY DEF Refusal, Interrupted, Cancelled, Outcomes, OutcomeStatus,
         KnownTerminal, Origins
<1>7. QED BY <1>1, <1>2, <1>4, <1>5, <1>6

(* The request a handler works on is a request.                            *)
LEMMA CurrentType ==
    ASSUME TypeOK, NEW l \in Sessions, inbox[l] # <<>>
    PROVE  /\ Current(l) \in Requests
           /\ Current(l).id \in Assignments
           /\ Current(l).kind = "assignment" => Current(l).content \in Contents
BY DEF TypeOK, Current, Requests

-----------------------------------------------------------------------------
(* Type correctness.  TypeOK is not inductive: a handler reads its request *)
(* from the head of its queue, so the queue of a busy handler must hold a  *)
(* row, and the row of an assignment handler must be an assignment; and an *)
(* execution that completes must hold an outcome.                          *)

HandlerHasRow ==
    \A l \in Sessions : pc[l] # "idle" =>
        /\ inbox[l] # <<>>
        /\ pc[l] \in {"admitted", "accepted", "executing"} =>
               Current(l).kind = "assignment"

ResultHeld ==
    \A a \in Assignments :
        exec[a] \in {"returned", "completing", "publishing"} => result[a] \in Outcomes

TypeInv == TypeOK /\ HandlerHasRow /\ ResultHeld

(* Sequences that handlers publish are typed.                              *)
LEMMA OutTypes ==
    ASSUME NEW m \in Messages, NEW n \in Messages
    PROVE  /\ <<>> \in Seq(Messages)
           /\ <<m>> \in Seq(Messages)
           /\ <<m, n>> \in Seq(Messages)
OBVIOUS

(* Leaving the inbox keeps the queue and thread types.                     *)
LEMMA LeaveInboxType ==
    ASSUME TypeInv, NEW l \in Sessions, inbox[l] # <<>>, LeaveInbox(l)
    PROVE  /\ inbox' \in [Sessions -> Seq(Requests)]
           /\ pc' = [pc EXCEPT ![l] = "idle"]
           /\ out' \in [Sessions -> Seq(Messages)]
           /\ HandlerHasRow'
<1>1. inbox' \in [Sessions -> Seq(Requests)]
  BY DEF TypeInv, TypeOK, LeaveInbox
<1>2. out' \in [Sessions -> Seq(Messages)]
  BY DEF TypeInv, TypeOK, LeaveInbox
<1>3. HandlerHasRow'
  BY DEF TypeInv, TypeOK, HandlerHasRow, LeaveInbox, Current
<1>4. QED BY <1>1, <1>2, <1>3 DEF LeaveInbox

(* So does starting a reply.                                               *)
LEMMA ReplyType ==
    ASSUME TypeInv, NEW l \in Sessions, inbox[l] # <<>>,
           NEW ms \in Seq(Messages), Reply(l, ms)
    PROVE  /\ inbox' \in [Sessions -> Seq(Requests)]
           /\ pc' = [pc EXCEPT ![l] = "replying"]
           /\ out' \in [Sessions -> Seq(Messages)]
           /\ HandlerHasRow'
<1>1. HandlerHasRow'
  BY DEF TypeInv, TypeOK, HandlerHasRow, Reply, Current
<1>2. QED BY <1>1 DEF TypeInv, TypeOK, Reply

(* Recording an outcome keeps the journal's types.                         *)
LEMMA RecordOutcomeType ==
    ASSUME TypeOK, NEW a \in Assignments, NEW o \in Outcomes, RecordOutcome(a, o)
    PROVE  /\ status'   \in [Assignments -> OutcomeStatus \cup {"absent", "accepted"}]
           /\ outcome'  \in [Assignments -> Outcomes \cup {NoOutcome}]
           /\ binding'  \in [Assignments -> Bindings]
           /\ reserved' \in [Resources -> Assignments \cup {NoOwner}]
BY DEF TypeOK, RecordOutcome, ReservedAfter, Outcomes

(* Opening the journal keeps its types.                                    *)
LEMMA OpenJournalType ==
    ASSUME TypeOK, OpenJournal
    PROVE  /\ status'   \in [Assignments -> OutcomeStatus \cup {"absent", "accepted"}]
           /\ outcome'  \in [Assignments -> Outcomes \cup {NoOutcome}]
           /\ binding'  \in [Assignments -> Bindings]
           /\ reserved' \in [Resources -> Assignments \cup {NoOwner}]
BY DEF TypeOK, OpenJournal, StatusOnOpen, OutcomeStatus

(* The initial state is typed and no handler is busy.                      *)
LEMMA TypeInit == Init => TypeInv
<1> SUFFICES ASSUME Init PROVE TypeInv
  OBVIOUS
<1>1. Bindings # {}
  <2>1. PICK i \in Issuers, c \in Contents : TRUE
    BY ParticipantAssumption
  <2>2. [issuer |-> i, content |-> c] \in Bindings
    BY DEF Bindings
  <2> QED BY <2>2
<1>2. binding \in [Assignments -> Bindings]
  BY <1>1 DEF Init
<1>3. /\ inbox \in [Sessions -> Seq(Requests)]
      /\ out \in [Sessions -> Seq(Messages)]
  BY DEF Init
<1>4. TypeOK
  BY <1>2, <1>3 DEF Init, TypeOK
<1>5. HandlerHasRow
  BY DEF Init, HandlerHasRow
<1>6. ResultHeld
  BY DEF Init, ResultHeld
<1>7. QED BY <1>4, <1>5, <1>6 DEF TypeInv

(* Every step of a request handler keeps the type invariant.               *)
LEMMA TypeHandler ==
    ASSUME TypeInv, NEW l \in Sessions, Handler(l)
    PROVE  TypeInv'
<1> DEFINE a == Current(l).id
<1> USE DEF TypeInv
<1>1. ASSUME inbox[l] # <<>>
      PROVE  /\ a \in Assignments
             /\ Refusal \in Outcomes /\ Interrupted \in Outcomes /\ Cancelled \in Outcomes
             /\ AckMsg(a, "rejected") \in Messages /\ AckMsg(a, "accepted") \in Messages
             /\ AckMsg(a, "unknown") \in Messages
             /\ \A s \in MessageStatus : CancelAck(a, s) \in Messages
             /\ \A o \in Outcomes \cup {NoOutcome} :
                    OutcomeMsg(a, o) \in Messages /\ AckMsg(a, o.status) \in Messages
             /\ Snapshot(a) \in Messages
             /\ outcome[a] \in Outcomes \cup {NoOutcome}
  <2>1. a \in Assignments
    BY <1>1, CurrentType
  <2>2. {"rejected", "accepted", "unknown"} \subseteq MessageStatus
    BY DEF MessageStatus, OutcomeStatus, KnownTerminal
  <2>3. \A o \in Outcomes \cup {NoOutcome} : o.status \in MessageStatus
    BY DEF Outcomes, NoOutcome, MessageStatus
  <2>4. outcome[a] \in Outcomes \cup {NoOutcome}
    BY <2>1 DEF TypeOK
  <2>5. QED BY <2>1, <2>2, <2>3, <2>4, BuiltMessages
<1>0. ResultHeld'
  BY DEF ResultHeld, Handler, Publish, FinishReply, Admit, Claim, StartExecution,
         FinishInline, Query, Cancel, CancelNative, CompleteCancel, HandlerRaises, TypeOK
<1> SUFFICES TypeOK' /\ HandlerHasRow'
  BY <1>0
<1>2. CASE Publish(l)
  <2>1. Head(out[l]) \in Messages /\ Tail(out[l]) \in Seq(Messages)
    BY <1>2 DEF Publish, TypeOK
  <2>2. TypeOK'
    BY <1>2, <2>1 DEF Publish, TypeOK, journalVars, boundVars
  <2>3. HandlerHasRow'
    BY <1>2 DEF Publish, HandlerHasRow, Current
  <2>4. QED BY <2>2, <2>3
<1>3. CASE FinishReply(l)
  <2>1. inbox[l] # <<>> /\ LeaveInbox(l)
    BY <1>3 DEF FinishReply, HandlerHasRow
  <2>2. QED
    BY <1>3, <2>1, LeaveInboxType DEF FinishReply, TypeOK, journalVars, boundVars
<1>4. CASE Admit(l)
  <2>1. inbox[l] # <<>> /\ Current(l).kind = "assignment"
    BY <1>4 DEF Admit, Takes
  <2>2. CASE a \in admits
    <3>1. /\ pc' = [pc EXCEPT ![l] = "admitted"] /\ UNCHANGED <<out, inbox>>
      BY <1>4, <2>2 DEF Admit
    <3>2. HandlerHasRow'
      BY <2>1, <3>1 DEF HandlerHasRow, Current, TypeOK
    <3>3. QED BY <1>4, <3>1, <3>2 DEF Admit, TypeOK, journalVars, boundVars
  <2>3. CASE a \notin admits
    <3>1. <<AckMsg(a, "rejected"), OutcomeMsg(a, Refusal)>> \in Seq(Messages)
      BY <1>1, <2>1, OutTypes
    <3>2. Reply(l, <<AckMsg(a, "rejected"), OutcomeMsg(a, Refusal)>>)
      BY <1>4, <2>3 DEF Admit
    <3>3. QED
      BY <1>4, <2>1, <3>1, <3>2, ReplyType DEF Admit, TypeOK, journalVars, boundVars
  <2>4. QED BY <2>2, <2>3
<1>5. CASE Claim(l)
  <2> DEFINE b == [issuer |-> IssuerOf[l], content |-> Current(l).content]
  <2>1. inbox[l] # <<>> /\ Current(l).kind = "assignment" /\ pc[l] = "admitted"
    BY <1>5 DEF Claim, HandlerHasRow
  <2>2. b \in Bindings
    BY <2>1, CurrentType, ParticipantAssumption DEF Bindings
  <2>3. CASE /\ RecordAcceptance(a, b)
             /\ pc'  = [pc EXCEPT ![l] = "accepted"]
             /\ out' = [out EXCEPT ![l] = <<AckMsg(a, "accepted")>>]
             /\ UNCHANGED inbox
    <3>1. HandlerHasRow'
      BY <2>1, <2>3 DEF HandlerHasRow, Current, TypeOK
    <3>2. out' \in [Sessions -> Seq(Messages)]
      BY <1>1, <2>1, <2>3, OutTypes DEF TypeOK
    <3>3. /\ status' \in [Assignments -> OutcomeStatus \cup {"absent", "accepted"}]
          /\ outcome' = outcome
          /\ binding' \in [Assignments -> Bindings]
          /\ reserved' \in [Resources -> Assignments \cup {NoOwner}]
      BY <1>1, <2>1, <2>2, <2>3 DEF RecordAcceptance, TypeOK
    <3>4. QED BY <1>5, <2>3, <3>1, <3>2, <3>3 DEF Claim, TypeOK, boundVars
  <2>4. CASE \E m \in Messages, n \in Messages :
                 Reply(l, <<m, n>>) /\ UNCHANGED journalVars
    <3>1. PICK m \in Messages, n \in Messages :
                 Reply(l, <<m, n>>) /\ UNCHANGED journalVars
      BY <2>4
    <3>2. <<m, n>> \in Seq(Messages)
      BY OutTypes
    <3>3. QED
      BY <1>5, <2>1, <3>1, <3>2, ReplyType DEF Claim, TypeOK, journalVars, boundVars
  <2>5. QED
    BY <1>1, <1>5, <2>1, <2>3, <2>4 DEF Claim
<1>6. CASE StartExecution(l)
  <2>1. inbox[l] # <<>> /\ pc[l] = "accepted" /\ a \in Assignments
    BY <1>1, <1>6 DEF StartExecution, HandlerHasRow
  <2>2. exec' \in [Assignments -> {"none", "queued", "running", "returned",
                                   "completing", "publishing", "ended"}]
    BY <1>6, <2>1 DEF StartExecution, TypeOK
  <2>3. CASE ExecutionWorkers = 0
    <3>1. pc' = [pc EXCEPT ![l] = "executing"] /\ UNCHANGED <<inbox, out>>
      BY <1>6, <2>3 DEF StartExecution
    <3>2. HandlerHasRow'
      BY <2>1, <3>1 DEF HandlerHasRow, Current, TypeOK
    <3>3. QED
      BY <1>6, <2>2, <3>1, <3>2 DEF StartExecution, TypeOK, journalVars, boundVars
  <2>4. CASE ExecutionWorkers # 0
    <3>1. LeaveInbox(l)
      BY <1>6, <2>4 DEF StartExecution
    <3>2. /\ inbox' \in [Sessions -> Seq(Requests)]
          /\ pc' = [pc EXCEPT ![l] = "idle"]
          /\ out' \in [Sessions -> Seq(Messages)]
          /\ HandlerHasRow'
      BY <2>1, <3>1, LeaveInboxType
    <3>3. QED
      BY <1>6, <2>2, <3>2 DEF StartExecution, TypeOK, journalVars, boundVars
  <2>5. QED BY <2>3, <2>4
<1>7. CASE FinishInline(l)
  <2>1. inbox[l] # <<>> /\ LeaveInbox(l)
    BY <1>7 DEF FinishInline, HandlerHasRow
  <2>2. QED
    BY <1>7, <2>1, LeaveInboxType DEF FinishInline, TypeOK, journalVars, boundVars
<1>8. CASE Query(l)
  <2>1. inbox[l] # <<>>
    BY <1>8 DEF Query, Takes
  <2>2. CASE LeaveInbox(l)
    BY <1>8, <2>1, <2>2, LeaveInboxType DEF Query, TypeOK, journalVars, boundVars
  <2>3. CASE Reply(l, <<Snapshot(a)>>)
    <3>1. <<Snapshot(a)>> \in Seq(Messages)
      BY <1>1, <2>1, OutTypes
    <3>2. QED
      BY <1>8, <2>1, <2>3, <3>1, ReplyType DEF Query, TypeOK, journalVars, boundVars
  <2>4. QED BY <1>8, <2>2, <2>3 DEF Query
<1>9. CASE Cancel(l)
  <2>1. inbox[l] # <<>>
    BY <1>9 DEF Cancel, Takes
  <2>2. {"already_terminal", "unknown"} \subseteq MessageStatus
    BY DEF MessageStatus, OutcomeStatus
  <2>3. CASE LeaveInbox(l)
    BY <1>9, <2>1, <2>3, LeaveInboxType DEF Cancel, TypeOK, journalVars, boundVars
  <2>4. CASE \E ms \in Seq(Messages) : Reply(l, ms)
    BY <1>9, <2>1, <2>4, ReplyType DEF Cancel, TypeOK, journalVars, boundVars
  <2>5. CASE pc' = [pc EXCEPT ![l] = "cancelling"] /\ UNCHANGED <<inbox, out>>
    <3>1. HandlerHasRow'
      BY <2>1, <2>5 DEF HandlerHasRow, Current, TypeOK
    <3>2. QED BY <1>9, <2>5, <3>1 DEF Cancel, TypeOK, journalVars, boundVars
  <2>6. /\ <<CancelAck(a, "already_terminal"), OutcomeMsg(a, outcome[a])>> \in Seq(Messages)
        /\ <<CancelAck(a, "unknown")>> \in Seq(Messages)
    BY <1>1, <2>1, <2>2, OutTypes
  <2>7. QED BY <1>9, <2>3, <2>4, <2>5, <2>6 DEF Cancel
<1>10. CASE CancelNative(l)
  <2>1. inbox[l] # <<>>
    BY <1>10 DEF CancelNative, HandlerHasRow
  <2>2. CASE pc' = [pc EXCEPT ![l] = "cancelled"] /\ UNCHANGED <<inbox, out>>
    <3>1. HandlerHasRow'
      BY <2>1, <2>2 DEF HandlerHasRow, Current, TypeOK
    <3>2. QED BY <1>10, <2>2, <3>1 DEF CancelNative, TypeOK, journalVars, boundVars
  <2>3. CASE Reply(l, <<CancelAck(a, "rejected")>>)
    <3>1. "rejected" \in MessageStatus
      BY DEF MessageStatus, OutcomeStatus, KnownTerminal
    <3>2. <<CancelAck(a, "rejected")>> \in Seq(Messages)
      BY <1>1, <2>1, <3>1, OutTypes
    <3>3. QED
      BY <1>10, <2>1, <2>3, <3>2, ReplyType DEF CancelNative, TypeOK, journalVars, boundVars
  <2>4. QED BY <1>10, <2>2, <2>3 DEF CancelNative
<1>11. CASE CompleteCancel(l)
  <2>1. inbox[l] # <<>>
    BY <1>11 DEF CompleteCancel, HandlerHasRow
  <2>2. CASE MayComplete(a, Cancelled)
    <3>1. "accepted" \in MessageStatus
      BY DEF MessageStatus
    <3>2. <<CancelAck(a, "accepted"), OutcomeMsg(a, Cancelled)>> \in Seq(Messages)
      BY <1>1, <2>1, <3>1, OutTypes
    <3>3. /\ RecordOutcome(a, Cancelled)
          /\ Reply(l, <<CancelAck(a, "accepted"), OutcomeMsg(a, Cancelled)>>)
      BY <1>11, <2>2 DEF CompleteCancel
    <3>4. a \in Assignments /\ Cancelled \in Outcomes
      BY <1>1, <2>1
    <3>5. QED
      BY <1>11, <2>1, <3>2, <3>3, <3>4, ReplyType, RecordOutcomeType
         DEF CompleteCancel, TypeOK, boundVars
  <2>3. CASE ~MayComplete(a, Cancelled)
    <3>1. LeaveInbox(l) /\ UNCHANGED journalVars
      BY <1>11, <2>3 DEF CompleteCancel
    <3>2. QED
      BY <1>11, <2>1, <3>1, LeaveInboxType DEF CompleteCancel, TypeOK, journalVars, boundVars
  <2>4. QED BY <2>2, <2>3
<1>12. CASE HandlerRaises(l)
  BY <1>12, LeaveInboxType DEF HandlerRaises, TypeOK, journalVars, boundVars
<1>13. QED
  BY <1>2, <1>3, <1>4, <1>5, <1>6, <1>7, <1>8, <1>9, <1>10, <1>11, <1>12 DEF Handler

(* Every step of an execution thread keeps the type invariant.             *)
LEMMA TypeExecution ==
    ASSUME TypeInv, NEW a \in Assignments, Execution(a)
    PROVE  TypeInv'
<1> USE DEF TypeInv
<1>1. UNCHANGED <<inbox, pc>> => HandlerHasRow'
  BY DEF HandlerHasRow, Current
<1>2. CASE NativeAccept(a)
  BY <1>1, <1>2 DEF NativeAccept, TypeOK, ResultHeld, journalVars, boundVars
<1>3. ASSUME NEW s \in NativeStatuses, NativeReturn(a, s)
      PROVE  TypeInv'
  <2>1. [status |-> s, origin |-> "native"] \in Outcomes
    BY <1>3, ParticipantAssumption DEF Outcomes, Origins
  <2>2. QED BY <1>1, <1>3, <2>1 DEF NativeReturn, TypeOK, ResultHeld, journalVars, boundVars
<1>4. CASE LookupOutcome(a)
  BY <1>1, <1>4 DEF LookupOutcome, TypeOK, ResultHeld, journalVars, boundVars
<1>5. CASE CompleteExecution(a)
  <2>1. result[a] \in Outcomes
    BY <1>5 DEF CompleteExecution, ResultHeld
  <2>2. ResultHeld'
    BY <1>5, <2>1 DEF CompleteExecution, ResultHeld, TypeOK
  <2>3. CASE RecordOutcome(a, result[a])
    BY <1>1, <1>5, <2>1, <2>2, <2>3, RecordOutcomeType
       DEF CompleteExecution, TypeOK, boundVars
  <2>4. CASE UNCHANGED journalVars
    BY <1>1, <1>5, <2>2, <2>4 DEF CompleteExecution, TypeOK, journalVars, boundVars
  <2>5. QED BY <1>5, <2>3, <2>4 DEF CompleteExecution
<1>6. CASE PublishOutcome(a)
  <2>1. OutcomeMsg(a, result[a]) \in Messages
    BY BuiltMessages DEF TypeOK
  <2>2. QED BY <1>1, <1>6, <2>1 DEF PublishOutcome, TypeOK, ResultHeld, journalVars, boundVars
<1>7. CASE ExecutionRaises(a)
  BY <1>1, <1>7 DEF ExecutionRaises, TypeOK, ResultHeld, journalVars, boundVars
<1>8. QED
  BY <1>2, <1>3, <1>4, <1>5, <1>6, <1>7 DEF Execution

(* So does every step of the process, its environment and the operator.    *)
LEMMA TypeEnvironment ==
    ASSUME TypeInv,
           \/ \E l \in Sessions, q \in Requests : Receive(l, q)
           \/ \E l \in Sessions : ProcessUnsubscribed(l)
           \/ \E a \in Assignments : ChangeConditions(a)
           \/ Crash \/ Close \/ Stopped \/ Start \/ Subscribe
           \/ ToolOpen \/ ToolFails
           \/ \E a \in Assignments, s \in Resolutions : ToolResolve(a, s)
    PROVE  TypeInv'
<1> USE DEF TypeInv
<1>1. UNCHANGED <<inbox, pc>> => HandlerHasRow'
  BY DEF HandlerHasRow, Current
<1>2. UNCHANGED <<exec, result>> => ResultHeld'
  BY DEF ResultHeld
<1>3. ASSUME NEW l \in Sessions, NEW q \in Requests, Receive(l, q)
      PROVE  TypeInv'
  <2>1. HandlerHasRow'
    <3> SUFFICES ASSUME NEW m \in Sessions, pc[m] # "idle"
                 PROVE  inbox'[m] # <<>> /\ Current(m)' = Current(m)
      BY <1>3 DEF Receive, HandlerHasRow, threadVars
    <3>1. inbox[m] \in Seq(Requests) /\ inbox[m] # <<>>
      BY DEF TypeOK, HandlerHasRow
    <3>2. inbox'[m] = IF m = l THEN Append(inbox[m], q) ELSE inbox[m]
      BY <1>3 DEF Receive, TypeOK
    <3>3. QED BY <3>1, <3>2 DEF Current
  <2>2. QED
    BY <1>2, <1>3, <2>1 DEF Receive, TypeOK, journalVars, threadVars
<1>4. ASSUME NEW l \in Sessions, ProcessUnsubscribed(l)
      PROVE  TypeInv'
  BY <1>2, <1>4, LeaveInboxType DEF ProcessUnsubscribed, TypeOK, journalVars, boundVars
<1>5. ASSUME NEW a \in Assignments, ChangeConditions(a)
      PROVE  TypeInv'
  BY <1>1, <1>2, <1>5 DEF ChangeConditions, TypeOK, journalVars, threadVars, boundVars
<1>6. Halt => /\ HandlerHasRow' /\ ResultHeld'
              /\ (stops' \in Nat => TypeOK')
  <2> SUFFICES ASSUME Halt
               PROVE  HandlerHasRow' /\ ResultHeld' /\ (stops' \in Nat => TypeOK')
    OBVIOUS
  <2>1. out' \in [Sessions -> Seq(Messages)]
    BY DEF Halt
  <2>2. QED BY <2>1 DEF Halt, HandlerHasRow, ResultHeld, TypeOK, journalVars
<1>7. CASE Crash
  BY <1>6, <1>7 DEF Crash, TypeOK
<1>8. CASE Close
  BY <1>1, <1>2, <1>8 DEF Close, TypeOK, journalVars, threadVars
<1>9. CASE Stopped
  BY <1>6, <1>9 DEF Stopped, TypeOK
<1>10. CASE Start
  BY <1>1, <1>2, <1>10, OpenJournalType DEF Start, TypeOK, threadVars, boundVars
<1>11. CASE Subscribe
  BY <1>1, <1>2, <1>11 DEF Subscribe, TypeOK, journalVars, threadVars, boundVars
<1>12. CASE ToolOpen
  BY <1>1, <1>2, <1>12, OpenJournalType DEF ToolOpen, TypeOK, threadVars, boundVars
<1>13. CASE ToolFails
  BY <1>1, <1>2, <1>13 DEF ToolFails, TypeOK, journalVars, threadVars, boundVars
<1>14. ASSUME NEW a \in Assignments, NEW s \in Resolutions, ToolResolve(a, s)
       PROVE  TypeInv'
  <2>1. [status |-> s, origin |-> "operator"] \in Outcomes
    BY ParticipantAssumption DEF Outcomes, Origins, OutcomeStatus
  <2>2. QED
    BY <1>1, <1>2, <1>14, <2>1, RecordOutcomeType
       DEF ToolResolve, TypeOK, threadVars, boundVars
<1>15. QED
  BY <1>3, <1>4, <1>5, <1>7, <1>8, <1>9, <1>10, <1>11, <1>12, <1>13, <1>14

(* Every step of the specification keeps the type invariant.               *)
LEMMA TypeStep == TypeInv /\ [Next]_vars => TypeInv'
<1> SUFFICES ASSUME TypeInv, [Next]_vars PROVE TypeInv'
  OBVIOUS
<1>1. CASE UNCHANGED vars
  BY <1>1 DEF TypeInv, TypeOK, HandlerHasRow, ResultHeld, Current, vars,
              journalVars, threadVars, boundVars
<1>2. CASE Next
  BY <1>2, TypeHandler, TypeExecution, TypeEnvironment DEF Next
<1>3. QED BY <1>1, <1>2

(* The participant's journal, queues and threads stay within their types:  *)
(* in particular every recorded status is one the journal's readers know   *)
(* and every handler that reads its request finds one.                     *)
THEOREM TypeCorrect == Spec => []TypeOK
<1>1. TypeInv => TypeOK
  BY DEF TypeInv
<1>2. QED BY <1>1, TypeInit, TypeStep, PTL DEF Spec

-----------------------------------------------------------------------------
(* Native execution at most once.  Between the claim of a new assignment   *)
(* and the native call there are the handler's acknowledgement and the     *)
(* executor's queue; the invariant says that in all of these places the    *)
(* assignment is fresh and that only one handler holds it.                 *)

Fresh(a) == exec[a] = "none" /\ started[a] = 0

OnceInv ==
    /\ \A a \in Assignments : status[a] = "absent" => Fresh(a)
    /\ \A l \in Sessions : pc[l] = "accepted" =>
           status[Current(l).id] # "absent" /\ Fresh(Current(l).id)
    /\ \A l, m \in Sessions :
           pc[l] = "accepted" /\ pc[m] = "accepted" /\ Current(l).id = Current(m).id
               => l = m
    /\ \A a \in Assignments : exec[a] = "queued" => started[a] = 0
    /\ NativeAtMostOnce

(* A row of the journal never disappears: claim inserts, complete and      *)
(* resolve_unknown update, opening updates.                                *)
LEMMA RowsStay ==
    ASSUME TypeInv, [Next]_vars
    PROVE  \A a \in Assignments : status'[a] = "absent" => status[a] = "absent"
<1> USE DEF TypeInv
<1>1. ASSUME NEW a \in Assignments, NEW o \in Outcomes, RecordOutcome(a, o)
      PROVE  \A b \in Assignments : status'[b] = "absent" => status[b] = "absent"
  BY <1>1 DEF RecordOutcome, Outcomes, OutcomeStatus, KnownTerminal, TypeOK
<1>2. OpenJournal => \A b \in Assignments : status'[b] = "absent" => status[b] = "absent"
  BY DEF OpenJournal, StatusOnOpen, TypeOK
<1>3. CASE \E l \in Sessions : Claim(l)
  BY <1>3 DEF Claim, RecordAcceptance, journalVars, TypeOK
<1>4. CASE \E l \in Sessions : CompleteCancel(l)
  <2>1. PICK l \in Sessions : CompleteCancel(l)
    BY <1>4
  <2>2. Current(l).id \in Assignments
    BY <2>1, CurrentType DEF CompleteCancel, HandlerHasRow
  <2>3. Cancelled \in Outcomes
    BY <2>2, BuiltMessages
  <2>4. QED BY <1>1, <2>1, <2>2, <2>3 DEF CompleteCancel, journalVars
<1>5. CASE \E a \in Assignments : CompleteExecution(a)
  BY <1>1, <1>5 DEF CompleteExecution, ResultHeld, journalVars
<1>6. CASE \E a \in Assignments, s \in Resolutions : ToolResolve(a, s)
  <2>1. PICK a \in Assignments, s \in Resolutions : ToolResolve(a, s)
    BY <1>6
  <2>2. [status |-> s, origin |-> "operator"] \in Outcomes
    BY ParticipantAssumption DEF Outcomes, Origins, OutcomeStatus
  <2>3. QED BY <1>1, <2>1, <2>2 DEF ToolResolve
<1>7. CASE Start \/ ToolOpen
  BY <1>2, <1>7 DEF Start, ToolOpen
<1>8. CASE UNCHANGED status
  BY <1>8
<1>9. QED
  BY <1>3, <1>4, <1>5, <1>6, <1>7, <1>8
     DEF Next, Handler, Execution, vars, journalVars, Receive, ProcessUnsubscribed,
         ChangeConditions, Crash, Halt, Close, Stopped, Subscribe, ToolFails,
         Publish, FinishReply, Admit, StartExecution, FinishInline, Query, Cancel,
         CancelNative, HandlerRaises, NativeAccept, NativeReturn, LookupOutcome,
         PublishOutcome, ExecutionRaises

(* Steps that neither enter nor leave these places keep the invariant.     *)
LEMMA OnceFrame ==
    ASSUME TypeInv, OnceInv,
           \A a \in Assignments : status'[a] = "absent" => status[a] = "absent",
           \A l \in Sessions : pc'[l] = "accepted" =>
               pc[l] = "accepted" /\ Head(inbox'[l]) = Head(inbox[l]),
           \A a \in Assignments :
               /\ started'[a] = started[a]
               /\ \/ exec'[a] = exec[a]
                  \/ exec'[a] = "none"
                  \/ exec'[a] # "queued" /\ exec[a] # "none"
    PROVE  OnceInv'
<1>1. \A l \in Sessions : pc[l] = "accepted" => Current(l).id \in Assignments
  BY CurrentType DEF TypeInv, HandlerHasRow
<1>2. QED BY <1>1 DEF OnceInv, Fresh, NativeAtMostOnce, Current

(* Initially nothing has started.                                          *)
LEMMA OnceInit == Init => OnceInv
BY DEF Init, OnceInv, Fresh, NativeAtMostOnce

(* Every step keeps the invariant.                                         *)
LEMMA OnceStep == TypeInv /\ OnceInv /\ [Next]_vars => OnceInv'
<1> SUFFICES ASSUME TypeInv, OnceInv, [Next]_vars PROVE OnceInv'
  OBVIOUS
<1>1. \A a \in Assignments : status'[a] = "absent" => status[a] = "absent"
  BY RowsStay
<1>2. ASSUME UNCHANGED <<exec, started, pc, inbox>>
      PROVE  OnceInv'
  BY <1>1, <1>2, OnceFrame
<1>3. ASSUME NEW l \in Sessions, UNCHANGED <<exec, started>>, UNCHANGED inbox,
             NEW k \in {"admitted", "replying", "cancelling", "cancelled"},
             pc' = [pc EXCEPT ![l] = k]
      PROVE  OnceInv'
  BY <1>1, <1>3, OnceFrame DEF TypeInv, TypeOK
<1>4. ASSUME NEW l \in Sessions, UNCHANGED <<exec, started>>, LeaveInbox(l)
      PROVE  OnceInv'
  BY <1>1, <1>4, OnceFrame DEF TypeInv, TypeOK, LeaveInbox
<1>5. ASSUME NEW l \in Sessions, Handler(l)
      PROVE  OnceInv'
  <2>1. CASE Publish(l)
    BY <1>2, <2>1 DEF Publish
  <2>2. CASE FinishReply(l) \/ FinishInline(l) \/ HandlerRaises(l)
    BY <1>4, <2>2 DEF FinishReply, FinishInline, HandlerRaises
  <2>3. CASE Admit(l)
    BY <1>3, <2>3 DEF Admit, Reply
  <2>4. CASE Claim(l)
    <3>1. CASE \E ms : Reply(l, ms)
      BY <1>3, <2>4, <3>1 DEF Claim, Reply
    <3>2. CASE ~ \E ms : Reply(l, ms)
      <4> DEFINE a == Current(l).id
                 b == [issuer |-> IssuerOf[l], content |-> Current(l).content]
      <4>1. /\ ClaimKind(a, b) = "new"
            /\ status' = [status EXCEPT ![a] = "accepted"]
            /\ pc' = [pc EXCEPT ![l] = "accepted"]
            /\ UNCHANGED <<inbox, exec, started>>
        BY <2>4, <3>2 DEF Claim, RecordAcceptance
      <4>2. status[a] = "absent"
        BY <4>1 DEF ClaimKind
      <4>3. a \in Assignments
        BY <2>4, CurrentType DEF Claim, TypeInv, HandlerHasRow
      <4>4. \A m \in Sessions : pc[m] = "accepted" =>
                Current(m).id \in Assignments /\ Current(m).id # a
        BY <4>2, CurrentType DEF OnceInv, TypeInv, HandlerHasRow
      <4>5. QED
        BY <4>1, <4>2, <4>3, <4>4
           DEF OnceInv, Fresh, NativeAtMostOnce, Current, TypeInv, TypeOK
    <3>3. QED BY <3>1, <3>2
  <2>5. CASE StartExecution(l)
    <3> DEFINE a == Current(l).id
    <3>1. pc[l] = "accepted" /\ a \in Assignments
      BY <2>5, CurrentType DEF StartExecution, TypeInv, HandlerHasRow
    <3>2. Fresh(a) /\ status[a] # "absent"
      BY <3>1 DEF OnceInv
    <3>3. \A m \in Sessions : m # l /\ pc[m] = "accepted" =>
              Current(m).id \in Assignments /\ Current(m).id # a
      BY <3>1, CurrentType DEF OnceInv, TypeInv, HandlerHasRow
    <3>4. /\ exec' = [exec EXCEPT ![a] = "queued"]
          /\ UNCHANGED <<status, started>>
          /\ \A m \in Sessions : pc'[m] = "accepted" =>
                 m # l /\ pc[m] = "accepted" /\ inbox'[m] = inbox[m]
      BY <2>5, <3>1 DEF StartExecution, LeaveInbox, journalVars, TypeInv, TypeOK
    <3>5. QED
      BY <3>1, <3>2, <3>3, <3>4
         DEF OnceInv, Fresh, NativeAtMostOnce, Current, TypeInv, TypeOK
  <2>6. CASE Query(l)
    BY <1>3, <1>4, <2>6 DEF Query, Reply
  <2>7. CASE Cancel(l)
    BY <1>3, <1>4, <2>7 DEF Cancel, Reply
  <2>8. CASE CancelNative(l)
    BY <1>3, <2>8 DEF CancelNative, Reply
  <2>9. CASE CompleteCancel(l)
    BY <1>3, <1>4, <2>9 DEF CompleteCancel, Reply
  <2>10. QED
    BY <1>5, <2>1, <2>2, <2>3, <2>4, <2>5, <2>6, <2>7, <2>8, <2>9 DEF Handler
<1>6. ASSUME NEW a \in Assignments, Execution(a)
      PROVE  OnceInv'
  <2>1. CASE NativeAccept(a)
    <3>1. started[a] = 0 /\ status[a] # "absent" /\ exec[a] = "queued"
      BY <2>1 DEF NativeAccept, OnceInv, Fresh
    <3>2. \A l \in Sessions : pc[l] = "accepted" =>
              Current(l).id # a /\ Current(l).id \in Assignments
      BY <3>1, CurrentType DEF OnceInv, Fresh, TypeInv, HandlerHasRow
    <3>3. /\ exec' = [exec EXCEPT ![a] = "running"]
          /\ started' = [started EXCEPT ![a] = @ + 1]
          /\ UNCHANGED <<status, pc, inbox>>
      BY <2>1 DEF NativeAccept, journalVars
    <3>4. QED
      BY <3>1, <3>2, <3>3
         DEF OnceInv, Fresh, NativeAtMostOnce, Current, TypeInv, TypeOK
  <2>2. CASE ~NativeAccept(a)
    <3>1. /\ UNCHANGED <<started, pc, inbox>>
          /\ \A b \in Assignments : \/ exec'[b] = exec[b]
                                    \/ exec'[b] # "queued" /\ exec[b] # "none"
      BY <1>6, <2>2 DEF Execution, NativeReturn, LookupOutcome, CompleteExecution,
           PublishOutcome, ExecutionRaises, TypeInv, TypeOK
    <3>2. QED BY <1>1, <3>1, OnceFrame
  <2>3. QED BY <2>1, <2>2
<1>7. ASSUME NEW l \in Sessions, NEW q \in Requests, Receive(l, q)
      PROVE  OnceInv'
  <2>1. \A m \in Sessions : pc'[m] = "accepted" =>
            pc[m] = "accepted" /\ Head(inbox'[m]) = Head(inbox[m])
    <3> SUFFICES ASSUME NEW m \in Sessions, pc'[m] = "accepted"
                 PROVE  pc[m] = "accepted" /\ Head(inbox'[m]) = Head(inbox[m])
      OBVIOUS
    <3>1. pc[m] = "accepted"
      BY <1>7 DEF Receive, threadVars
    <3>2. inbox[m] \in Seq(Requests) /\ inbox[m] # <<>>
      BY <3>1 DEF TypeInv, TypeOK, HandlerHasRow
    <3>3. inbox'[m] = IF m = l THEN Append(inbox[m], q) ELSE inbox[m]
      BY <1>7 DEF Receive, TypeInv, TypeOK
    <3>4. QED BY <3>1, <3>2, <3>3
  <2>2. QED BY <1>1, <1>7, <2>1, OnceFrame DEF Receive, threadVars
<1>8. ASSUME NEW l \in Sessions, ProcessUnsubscribed(l)
      PROVE  OnceInv'
  BY <1>4, <1>8 DEF ProcessUnsubscribed
<1>9. CASE Crash \/ Stopped
  <2>1. Halt
    BY <1>9 DEF Crash, Stopped
  <2>2. QED BY <1>1, <2>1, OnceFrame DEF Halt
<1>10. QED
  BY <1>2, <1>5, <1>6, <1>7, <1>8, <1>9
     DEF Next, vars, threadVars, ChangeConditions, Close, Start, Subscribe,
         ToolOpen, ToolFails, ToolResolve

(* The adapter's accept is called at most once for an assignment           *)
(* identifier, for any number of redeliveries, sessions, issuers, crashes  *)
(* and restarts, and also when ump-reconcile works beside the participant. *)
THEOREM AtMostOnce == Spec => []NativeAtMostOnce
<1>1. Spec => []TypeInv
  BY TypeInit, TypeStep, PTL DEF Spec
<1>2. OnceInv => NativeAtMostOnce
  BY DEF OnceInv
<1>3. QED BY <1>1, <1>2, OnceInit, OnceStep, PTL DEF Spec

-----------------------------------------------------------------------------
(* The journal as a record per assignment.  Status and outcome are two     *)
(* columns that tell one story, and a cancellation works on a row.         *)

RowInv ==
    /\ \A a \in Assignments :
          IF outcome[a] = NoOutcome THEN status[a] \in {"absent", "accepted", "unknown"}
                                    ELSE status[a] = outcome[a].status
    /\ \A l \in Sessions : pc[l] \in {"cancelling", "cancelled"} =>
          status[Current(l).id] # "absent"

JournalInv == OnceInv /\ RowInv

(* What a transaction of the journal does to the two columns.              *)
Accepts(a) ==
    /\ status[a] = "absent"
    /\ status' = [status EXCEPT ![a] = "accepted"]
    /\ UNCHANGED outcome
Completes(a, o) ==
    /\ status[a] # "absent" /\ MayComplete(a, o)
    /\ status'  = [status EXCEPT ![a] = o.status]
    /\ outcome' = [outcome EXCEPT ![a] = o]
JournalStep ==
    /\ \/ \E a \in Assignments : Accepts(a) \/ \E o \in Outcomes : Completes(a, o)
       \/ OpenJournal
    /\ UNCHANGED <<started, published>>

(* Every step is such a transaction or leaves both columns alone.          *)
LEMMA JournalSteps ==
    ASSUME TypeInv, JournalInv, [Next]_vars
    PROVE  JournalStep \/ UNCHANGED <<status, outcome>>
<1> USE DEF TypeInv, JournalInv
<1>1. ASSUME NEW l \in Sessions, Claim(l)
      PROVE  JournalStep \/ UNCHANGED <<status, outcome>>
  <2>1. Current(l).id \in Assignments
    BY <1>1, CurrentType DEF Claim, HandlerHasRow
  <2>2. UNCHANGED <<started, published>>
    BY <1>1 DEF Claim
  <2>3. Accepts(Current(l).id) \/ UNCHANGED <<status, outcome>>
    BY <1>1 DEF Claim, ClaimKind, RecordAcceptance, Accepts, journalVars
  <2> QED BY <2>1, <2>2, <2>3 DEF JournalStep
<1>2. ASSUME NEW l \in Sessions, CompleteCancel(l)
      PROVE  JournalStep \/ UNCHANGED <<status, outcome>>
  <2>1. Current(l).id \in Assignments
    BY <1>2, CurrentType DEF CompleteCancel, HandlerHasRow
  <2>2. UNCHANGED <<started, published>> /\ status[Current(l).id] # "absent"
    BY <1>2 DEF CompleteCancel, RowInv
  <2>3. Cancelled \in Outcomes
    BY <2>1, BuiltMessages
  <2>4. Completes(Current(l).id, Cancelled) \/ UNCHANGED <<status, outcome>>
    BY <1>2, <2>2 DEF CompleteCancel, RecordOutcome, Completes, journalVars
  <2> QED BY <2>1, <2>2, <2>3, <2>4 DEF JournalStep
<1>3. ASSUME NEW a \in Assignments, CompleteExecution(a)
      PROVE  JournalStep \/ UNCHANGED <<status, outcome>>
  <2>1. UNCHANGED <<started, published>> /\ status[a] # "absent" /\ result[a] \in Outcomes
    BY <1>3 DEF CompleteExecution, OnceInv, Fresh, ResultHeld
  <2>2. Completes(a, result[a]) \/ UNCHANGED <<status, outcome>>
    BY <1>3, <2>1 DEF CompleteExecution, RecordOutcome, Completes, journalVars
  <2> QED BY <2>1, <2>2 DEF JournalStep
<1>4. ASSUME NEW a \in Assignments, NEW s \in Resolutions, ToolResolve(a, s)
      PROVE  JournalStep
  <2> DEFINE o == [status |-> s, origin |-> "operator"]
  <2>1. o \in Outcomes
    BY ParticipantAssumption DEF Outcomes, Origins, OutcomeStatus
  <2>2. Completes(a, o) /\ UNCHANGED <<started, published>>
    BY <1>4 DEF ToolResolve, Resolvable, RecordOutcome, Completes, MayComplete
  <2> QED BY <2>1, <2>2 DEF JournalStep
<1>5. CASE Start \/ ToolOpen
  BY <1>5 DEF Start, ToolOpen, JournalStep
<1> QED
  BY <1>1, <1>2, <1>3, <1>4, <1>5
     DEF Next, Handler, Execution, vars, journalVars, Receive, ProcessUnsubscribed,
         ChangeConditions, Crash, Halt, Close, Stopped, Subscribe, ToolFails,
         Publish, FinishReply, Admit, StartExecution, FinishInline, Query, Cancel,
         CancelNative, HandlerRaises, NativeAccept, NativeReturn, LookupOutcome,
         PublishOutcome, ExecutionRaises

(* The record of an assignment, and what each transaction makes of it.     *)
Held(a) == RecordOf(status[a], outcome[a])

LEMMA OutcomeIsNone ==
    /\ NoOutcome \notin Outcomes
    /\ \A o \in Outcomes : o.status \in OutcomeStatus
BY DEF NoOutcome, Outcomes, OutcomeStatus, KnownTerminal

LEMMA HeldIs ==
    ASSUME TypeOK, RowInv, NEW a \in Assignments
    PROVE  /\ Held(a) \in {"absent", "accepted", "interrupted"} \cup OutcomeStatus
           /\ Held(a) = "absent" <=> status[a] = "absent"
           /\ outcome[a] # NoOutcome => Held(a) = outcome[a].status
           /\ Held(a) \in OutcomeStatus <=> outcome[a] # NoOutcome
           /\ status[a] \in KnownTerminal => Held(a) = status[a]
BY OutcomeIsNone DEF TypeOK, RowInv, Held, RecordOf, OutcomeStatus, KnownTerminal

LEMMA RecordMoves ==
    ASSUME TypeOK, RowInv, JournalStep \/ UNCHANGED <<status, outcome>>
    PROVE  /\ \A a \in Assignments :
                 IF outcome'[a] = NoOutcome
                 THEN status'[a] \in {"absent", "accepted", "unknown"}
                 ELSE status'[a] = outcome'[a].status
           /\ \A a \in Assignments :
                 /\ Held(a) # "absent" => Held(a)' # "absent"
                 /\ Held(a) \in OutcomeStatus => Held(a)' = Held(a)
<1>1. CASE UNCHANGED <<status, outcome>>
  BY <1>1 DEF RowInv, Held
<1>2. ASSUME NEW a \in Assignments, Accepts(a)
      PROVE  /\ status' \in [Assignments -> OutcomeStatus \cup {"absent", "accepted"}]
             /\ \A b \in Assignments : status'[b] = (IF b = a THEN "accepted" ELSE status[b])
             /\ outcome' = outcome /\ outcome[a] = NoOutcome
  BY <1>2, OutcomeIsNone DEF Accepts, TypeOK, RowInv, OutcomeStatus, KnownTerminal
<1>3. ASSUME NEW a \in Assignments, Accepts(a)
      PROVE  /\ \A b \in Assignments :
                   IF outcome'[b] = NoOutcome
                   THEN status'[b] \in {"absent", "accepted", "unknown"}
                   ELSE status'[b] = outcome'[b].status
             /\ \A b \in Assignments :
                   /\ Held(b) # "absent" => Held(b)' # "absent"
                   /\ Held(b) \in OutcomeStatus => Held(b)' = Held(b)
  BY <1>2, <1>3 DEF RowInv, Held, RecordOf, Accepts, OutcomeStatus, KnownTerminal
<1>4. ASSUME NEW a \in Assignments, NEW o \in Outcomes, Completes(a, o)
      PROVE  /\ \A b \in Assignments :
                   IF outcome'[b] = NoOutcome
                   THEN status'[b] \in {"absent", "accepted", "unknown"}
                   ELSE status'[b] = outcome'[b].status
             /\ \A b \in Assignments :
                   /\ Held(b) # "absent" => Held(b)' # "absent"
                   /\ Held(b) \in OutcomeStatus => Held(b)' = Held(b)
  <2>1. \A b \in Assignments :
           /\ status'[b] = (IF b = a THEN o.status ELSE status[b])
           /\ outcome'[b] = (IF b = a THEN o ELSE outcome[b])
    BY <1>4 DEF Completes, TypeOK
  <2>2. o # NoOutcome /\ o.status \in OutcomeStatus /\ outcome[a] \in {NoOutcome, o}
    BY <1>4, OutcomeIsNone DEF Completes, MayComplete
  <2>3. Held(a)' = o.status /\ (outcome[a] # NoOutcome => Held(a) = o.status)
    BY <2>1, <2>2 DEF Held, RecordOf
  <2>4. \A b \in Assignments : b # a => Held(b)' = Held(b)
    BY <2>1 DEF Held
  <2>5. Held(a) \in OutcomeStatus => outcome[a] # NoOutcome
    BY HeldIs
  <2> QED BY <2>1, <2>2, <2>3, <2>4, <2>5 DEF RowInv, OutcomeStatus, KnownTerminal
<1>5. CASE OpenJournal
  <2>1. \A b \in Assignments :
           /\ status'[b] = (IF status[b] = "accepted" /\ outcome[b] = NoOutcome THEN "unknown"
                            ELSE status[b])
           /\ outcome'[b] = outcome[b]
    BY <1>5 DEF OpenJournal, StatusOnOpen
  <2> QED BY <2>1 DEF RowInv, Held, RecordOf, OutcomeStatus, KnownTerminal
<1> QED BY <1>1, <1>3, <1>4, <1>5 DEF JournalStep

(* Every step keeps the two columns together.                              *)
LEMMA RowStep == TypeInv /\ JournalInv /\ [Next]_vars => RowInv'
<1> SUFFICES ASSUME TypeInv, JournalInv, [Next]_vars PROVE RowInv'
  OBVIOUS
<1>1. \A a \in Assignments :
         IF outcome'[a] = NoOutcome THEN status'[a] \in {"absent", "accepted", "unknown"}
                                    ELSE status'[a] = outcome'[a].status
  BY JournalSteps, RecordMoves DEF TypeInv, JournalInv
<1>2. \A l \in Sessions : pc[l] # "idle" => Current(l).id \in Assignments /\ inbox[l] # <<>>
  BY CurrentType DEF TypeInv, HandlerHasRow
<1>3. ASSUME NEW l \in Sessions, pc'[l] \in {"cancelling", "cancelled"}
      PROVE  status'[Current(l)'.id] # "absent"
  <2>1. CASE pc[l] \in {"cancelling", "cancelled"} /\ Head(inbox'[l]) = Head(inbox[l])
    BY <1>2, <2>1, RowsStay DEF JournalInv, RowInv, Current
  <2>2. CASE Cancel(l)
    <3>1. /\ status[Current(l).id] # "absent"
          /\ UNCHANGED <<inbox, status>>
      BY <1>3, <2>2
         DEF Cancel, Foreign, LeaveInbox, Reply, journalVars, TypeInv, TypeOK
    <3> QED BY <3>1 DEF Current
  <2>3. ASSUME NEW k \in Sessions, NEW q \in Requests, Receive(k, q)
        PROVE  pc[l] \in {"cancelling", "cancelled"} /\ Head(inbox'[l]) = Head(inbox[l])
    <3>1. pc[l] \in {"cancelling", "cancelled"}
      BY <1>3, <2>3 DEF Receive, threadVars
    <3>2. inbox[l] \in Seq(Requests) /\ inbox[l] # <<>>
      BY <1>2, <3>1 DEF TypeInv, TypeOK
    <3>3. inbox'[l] = IF l = k THEN Append(inbox[l], q) ELSE inbox[l]
      BY <2>3 DEF Receive, TypeInv, TypeOK
    <3> QED BY <3>1, <3>2, <3>3
  <2>4. ASSUME NEW k \in Sessions, Handler(k) \/ ProcessUnsubscribed(k), ~Cancel(l)
        PROVE  pc[l] \in {"cancelling", "cancelled"} /\ inbox'[l] = inbox[l]
    <3>1. CASE k # l
      BY <1>3, <2>4, <3>1
         DEF Handler, ProcessUnsubscribed, Publish, FinishReply, Admit, Claim, StartExecution,
             FinishInline, Query, Cancel, CancelNative, CompleteCancel, HandlerRaises,
             LeaveInbox, Reply, TypeInv, TypeOK
    <3>2. CASE k = l
      BY <1>3, <2>4, <3>2
         DEF Handler, ProcessUnsubscribed, Publish, FinishReply, Admit, Claim, StartExecution,
             FinishInline, Query, Cancel, CancelNative, CompleteCancel, HandlerRaises,
             LeaveInbox, Reply, TypeInv, TypeOK
    <3> QED BY <3>1, <3>2
  <2>5. CASE UNCHANGED <<pc, inbox>>
    BY <1>3, <2>1, <2>5
  <2>6. CASE Crash \/ Stopped
    BY <1>3, <2>6 DEF Crash, Stopped, Halt
  <2> QED
    BY <2>1, <2>2, <2>3, <2>4, <2>5, <2>6
       DEF Next, vars, threadVars, Execution, NativeAccept, NativeReturn, LookupOutcome,
           CompleteExecution, PublishOutcome, ExecutionRaises, ChangeConditions, Close,
           Start, Subscribe, ToolOpen, ToolFails, ToolResolve
<1> QED BY <1>1, <1>3 DEF RowInv

(* So the journal's invariants hold in every state.                        *)
LEMMA JournalInvariant == Spec => []TypeInv /\ []JournalInv
<1>1. Init => JournalInv
  BY OnceInit DEF JournalInv, Init, RowInv
<1>2. TypeInv /\ JournalInv /\ [Next]_vars => JournalInv'
  BY OnceStep, RowStep DEF JournalInv
<1>3. Spec => []TypeInv
  BY TypeInit, TypeStep, PTL DEF Spec
<1> QED BY <1>1, <1>2, <1>3, PTL DEF Spec

-----------------------------------------------------------------------------
(* What is published.  A message is published some steps after its content *)
(* was read or written; the invariant says that what a handler still owes  *)
(* and what an execution is about to publish is covered by the journal:    *)
(* the outcome it carries is the recorded one, and what it says is true.   *)

True(f, record) ==
    /\ f = "accepted" => record # "absent"
    /\ f = "ended" => record \in OutcomeStatus
    /\ f \in {"succeeded", "failed", "cancelled"} => record = f

Covered(m, st, oc) ==
    /\ m.outcome.origin \in RecordedOrigins => oc[m.id] = m.outcome
    /\ True(Says(m), RecordOf(st[m.id], oc[m.id]))

MessageInv ==
    /\ \A m \in published : Covered(m, status, outcome)
    /\ \A l \in Sessions : \A i \in 1..Len(out[l]) : Covered(out[l][i], status, outcome)
    /\ \A a \in Assignments : exec[a] = "publishing" => result[a] = outcome[a]

(* A recorded outcome is never replaced.                                   *)
LEMMA OutcomeStays ==
    ASSUME TypeInv, [Next]_vars
    PROVE  \A a \in Assignments : outcome[a] \in {NoOutcome, outcome'[a]}
<1> USE DEF TypeInv
<1>1. ASSUME NEW a \in Assignments, NEW o, RecordOutcome(a, o), MayComplete(a, o)
      PROVE  \A b \in Assignments : outcome[b] \in {NoOutcome, outcome'[b]}
  BY <1>1 DEF RecordOutcome, MayComplete, TypeOK
<1>2. CASE \E l \in Sessions : Claim(l)
  BY <1>2 DEF Claim, RecordAcceptance, journalVars
<1>3. CASE \E l \in Sessions : CompleteCancel(l)
  <2>1. PICK l \in Sessions : CompleteCancel(l)
    BY <1>3
  <2>2. Current(l).id \in Assignments
    BY <2>1, CurrentType DEF CompleteCancel, HandlerHasRow
  <2>3. QED BY <1>1, <2>1, <2>2 DEF CompleteCancel, journalVars
<1>4. CASE \E a \in Assignments : CompleteExecution(a)
  BY <1>1, <1>4 DEF CompleteExecution, journalVars
<1>5. CASE \E a \in Assignments, s \in Resolutions : ToolResolve(a, s)
  BY <1>1, <1>5 DEF ToolResolve, Resolvable, MayComplete
<1>6. CASE UNCHANGED outcome
  BY <1>6
<1>7. QED
  BY <1>2, <1>3, <1>4, <1>5, <1>6
     DEF Next, Handler, Execution, vars, journalVars, Receive, ProcessUnsubscribed,
         ChangeConditions, Crash, Halt, Close, Stopped, Start, Subscribe, OpenJournal,
         ToolOpen, ToolFails, Publish, FinishReply, Admit, StartExecution,
         FinishInline, Query, Cancel, CancelNative, HandlerRaises, NativeAccept,
         NativeReturn, LookupOutcome, PublishOutcome, ExecutionRaises

(* What the journal covers, it covers from then on.                        *)
LEMMA CoveredStays ==
    ASSUME TypeInv, JournalInv, [Next]_vars
    PROVE  \A m \in Messages :
               Covered(m, status, outcome) => Covered(m, status', outcome')
<1>1. \A m \in Messages : m.id \in Assignments
  BY DEF Messages
<1>2. \A m \in Messages : m.outcome.origin \in RecordedOrigins => m.outcome # NoOutcome
  BY DEF RecordedOrigins, NoOutcome
<1>3. \A a \in Assignments :
         /\ Held(a) # "absent" => Held(a)' # "absent"
         /\ Held(a) \in OutcomeStatus => Held(a)' = Held(a)
  BY JournalSteps, RecordMoves DEF TypeInv, JournalInv
<1>4. \A f, a : a \in Assignments /\ True(f, Held(a)) => True(f, Held(a)')
  BY <1>3 DEF True, OutcomeStatus, KnownTerminal
<1>5. QED BY <1>1, <1>2, <1>4, OutcomeStays DEF Covered, Held

(* When the built messages are covered.                                    *)
LEMMA CoveredBuilt ==
    ASSUME NEW a \in Assignments, NEW st, NEW oc
    PROVE  /\ \A s \in {"rejected", "unknown"} : Covered(AckMsg(a, s), st, oc)
           /\ RecordOf(st[a], oc[a]) # "absent" => Covered(AckMsg(a, "accepted"), st, oc)
           /\ \A s \in OutcomeStatus :
                 RecordOf(st[a], oc[a]) = s => Covered(AckMsg(a, s), st, oc)
           /\ \A s \in {"rejected", "unknown"} : Covered(CancelAck(a, s), st, oc)
           /\ RecordOf(st[a], oc[a]) = "cancelled" => Covered(CancelAck(a, "accepted"), st, oc)
           /\ RecordOf(st[a], oc[a]) \in OutcomeStatus =>
                 Covered(CancelAck(a, "already_terminal"), st, oc)
           /\ \A o \in Outcomes : o = oc[a] => Covered(OutcomeMsg(a, o), st, oc)
           /\ Covered(OutcomeMsg(a, Refusal), st, oc)
           /\ Covered(OutcomeMsg(a, Interrupted), st, oc)
<1> USE DEF Covered, True, Says, Message, RecordedOrigins
<1>1. \A s \in {"rejected", "unknown"} : Covered(AckMsg(a, s), st, oc)
  BY DEF AckMsg, NoOutcome
<1>2. RecordOf(st[a], oc[a]) # "absent" => Covered(AckMsg(a, "accepted"), st, oc)
  BY DEF AckMsg, NoOutcome
<1>3. \A s \in OutcomeStatus : RecordOf(st[a], oc[a]) = s => Covered(AckMsg(a, s), st, oc)
  BY DEF AckMsg, NoOutcome, OutcomeStatus, KnownTerminal
<1>4. \A s \in {"rejected", "unknown"} : Covered(CancelAck(a, s), st, oc)
  BY DEF CancelAck, NoOutcome
<1>5. RecordOf(st[a], oc[a]) = "cancelled" => Covered(CancelAck(a, "accepted"), st, oc)
  BY DEF CancelAck, NoOutcome
<1>6. RecordOf(st[a], oc[a]) \in OutcomeStatus => Covered(CancelAck(a, "already_terminal"), st, oc)
  BY DEF CancelAck, NoOutcome
<1>7. ASSUME NEW o \in Outcomes, o = oc[a]
      PROVE  Covered(OutcomeMsg(a, o), st, oc)
  <2>1. RecordOf(st[a], oc[a]) = o.status /\ o.status # "accepted" /\ o.status # "ended"
    BY <1>7, OutcomeIsNone DEF RecordOf, OutcomeStatus, KnownTerminal
  <2> QED BY <1>7, <2>1 DEF OutcomeMsg
<1>8. Covered(OutcomeMsg(a, Refusal), st, oc) /\ Covered(OutcomeMsg(a, Interrupted), st, oc)
  BY DEF OutcomeMsg, Refusal, Interrupted
<1> QED BY <1>1, <1>2, <1>3, <1>4, <1>5, <1>6, <1>7, <1>8

(* A snapshot is covered by the journal it shows.                          *)
LEMMA SnapshotCovered ==
    ASSUME TypeOK, RowInv, NEW a \in Assignments, UNCHANGED <<status, outcome>>
    PROVE  Covered(Snapshot(a), status', outcome')
<1>1. /\ Snapshot(a).id = a /\ Snapshot(a).outcome = outcome[a]
      /\ Snapshot(a).kind # "cancellation_ack" /\ Snapshot(a).status = status[a]
  BY DEF Snapshot, Message
<1>2. True(Says(Snapshot(a)), Held(a))
  BY <1>1, HeldIs DEF True, Says, KnownTerminal
<1> QED BY <1>1, <1>2 DEF Covered, Held

(* A step that changes what one handler owes, and publishes nothing.       *)
LEMMA MessageFrame ==
    ASSUME TypeInv, JournalInv, MessageInv, [Next]_vars, UNCHANGED published,
           NEW l \in Sessions, NEW ms \in Seq(Messages),
           out' = [out EXCEPT ![l] = ms],
           \A i \in 1..Len(ms) : Covered(ms[i], status', outcome'),
           \A a \in Assignments : exec'[a] = "publishing" =>
               exec[a] = "publishing" /\ result'[a] = result[a]
    PROVE  MessageInv'
<1>1. \A m \in published' : Covered(m, status', outcome')
  BY CoveredStays DEF MessageInv, TypeInv, TypeOK
<1>2. ASSUME NEW k \in Sessions, NEW i \in 1..Len(out'[k])
      PROVE  Covered(out'[k][i], status', outcome')
  <2>1. CASE k = l
    BY <1>2, <2>1 DEF TypeInv, TypeOK
  <2>2. CASE k # l
    <3>1. out'[k] = out[k] /\ out[k] \in Seq(Messages)
      BY <2>2 DEF TypeInv, TypeOK
    <3>2. out[k][i] \in Messages /\ Covered(out[k][i], status, outcome)
      BY <1>2, <3>1 DEF MessageInv
    <3>3. QED BY <3>1, <3>2, CoveredStays
  <2>3. QED BY <2>1, <2>2
<1>3. \A a \in Assignments : exec'[a] = "publishing" => result'[a] = outcome'[a]
  <2>1. NoOutcome \notin Outcomes
    BY DEF NoOutcome, Outcomes, OutcomeStatus, KnownTerminal
  <2>2. QED BY <2>1, OutcomeStays DEF MessageInv, TypeInv, ResultHeld
<1>4. QED BY <1>1, <1>2, <1>3 DEF MessageInv

(* The same when nothing is owed anew.                                     *)
LEMMA MessageQuiet ==
    ASSUME TypeInv, JournalInv, MessageInv, [Next]_vars, UNCHANGED published,
           \A l \in Sessions : out'[l] = out[l] \/ out'[l] = <<>>,
           \A a \in Assignments : exec'[a] = "publishing" =>
               exec[a] = "publishing" /\ result'[a] = result[a]
    PROVE  MessageInv'
<1>1. \A m \in published' : Covered(m, status', outcome')
  BY CoveredStays DEF MessageInv, TypeInv, TypeOK
<1>2. ASSUME NEW k \in Sessions, NEW i \in 1..Len(out'[k])
      PROVE  Covered(out'[k][i], status', outcome')
  <2>1. out'[k] = out[k] /\ out[k] \in Seq(Messages)
    BY <1>2 DEF TypeInv, TypeOK
  <2>2. out[k][i] \in Messages /\ Covered(out[k][i], status, outcome)
    BY <1>2, <2>1 DEF MessageInv
  <2>3. QED BY <2>1, <2>2, CoveredStays
<1>3. \A a \in Assignments : exec'[a] = "publishing" => result'[a] = outcome'[a]
  <2>1. NoOutcome \notin Outcomes
    BY DEF NoOutcome, Outcomes, OutcomeStatus, KnownTerminal
  <2>2. QED BY <2>1, OutcomeStays DEF MessageInv, TypeInv, ResultHeld
<1>4. QED BY <1>1, <1>2, <1>3 DEF MessageInv

(* Initially nothing is said.                                              *)
LEMMA MessageInit == Init => MessageInv
BY DEF Init, MessageInv

(* Every step of a request handler keeps the invariant.                    *)
LEMMA MessageHandler ==
    ASSUME TypeInv, JournalInv, MessageInv, NEW l \in Sessions, Handler(l), [Next]_vars
    PROVE  MessageInv'
<1> DEFINE a == Current(l).id
<1>1. ASSUME inbox[l] # <<>>
      PROVE  /\ a \in Assignments
             /\ \A s \in MessageStatus : AckMsg(a, s) \in Messages /\ CancelAck(a, s) \in Messages
             /\ \A o \in Outcomes \cup {NoOutcome} : OutcomeMsg(a, o) \in Messages
             /\ Snapshot(a) \in Messages
             /\ Refusal \in Outcomes /\ Interrupted \in Outcomes /\ Cancelled \in Outcomes
             /\ outcome[a] \in Outcomes \cup {NoOutcome}
             /\ {"rejected", "accepted", "unknown", "already_terminal"} \subseteq MessageStatus
             /\ \A o \in Outcomes \cup {NoOutcome} :
                    o.status \in MessageStatus /\ o.status # "accepted"
  <2>1. a \in Assignments
    BY <1>1, CurrentType DEF TypeInv
  <2>2. /\ {"rejected", "accepted", "unknown", "already_terminal"} \subseteq MessageStatus
        /\ \A o \in Outcomes \cup {NoOutcome} :
               o.status \in MessageStatus /\ o.status # "accepted"
    BY DEF MessageStatus, OutcomeStatus, KnownTerminal, Outcomes, NoOutcome
  <2>3. QED BY <2>1, <2>2, BuiltMessages DEF TypeInv, TypeOK
<1>2. ASSUME NEW m \in Messages, NEW n \in Messages, UNCHANGED <<published, exec, result>>,
             Covered(m, status', outcome'), Covered(n, status', outcome'),
             Reply(l, <<m, n>>) \/ Reply(l, <<m>>)
      PROVE  MessageInv'
  <2>1. PICK ms \in {<<m, n>>, <<m>>} : out' = [out EXCEPT ![l] = ms]
    BY <1>2 DEF Reply
  <2>2. ms \in Seq(Messages)
    BY OutTypes
  <2>3. \A i \in 1..Len(ms) : Covered(ms[i], status', outcome')
    <3>1. \A i \in 1..Len(ms) : ms[i] \in {m, n}
      OBVIOUS
    <3>2. QED BY <1>2, <3>1
  <2>4. QED BY <1>2, <2>1, <2>2, <2>3, MessageFrame
<1>3. ASSUME UNCHANGED <<published, exec, result>>, LeaveInbox(l) \/ UNCHANGED out
      PROVE  MessageInv'
  BY <1>3, MessageQuiet DEF LeaveInbox, TypeInv, TypeOK
<1>4. CASE Publish(l)
  <2>1. Head(out[l]) = out[l][1] /\ 1 \in 1..Len(out[l]) /\ out[l] \in Seq(Messages)
    BY <1>4 DEF Publish, TypeInv, TypeOK
  <2>2. Covered(Head(out[l]), status', outcome')
    BY <2>1, CoveredStays DEF MessageInv
  <2>3. \A m \in published' : Covered(m, status', outcome')
    BY <1>4, <2>2, CoveredStays DEF Publish, MessageInv, TypeInv, TypeOK
  <2>4. ASSUME NEW k \in Sessions, NEW i \in 1..Len(out'[k])
        PROVE  Covered(out'[k][i], status, outcome)
    <3>1. CASE k = l
      <4>1. out'[k] = Tail(out[l])
        BY <1>4, <3>1 DEF Publish, TypeInv, TypeOK
      <4>2. i + 1 \in 1..Len(out[l]) /\ out'[k][i] = out[l][i + 1]
        BY <2>1, <2>4, <4>1
      <4>3. QED BY <4>2 DEF MessageInv
    <3>2. CASE k # l
      BY <1>4, <2>4, <3>2 DEF Publish, MessageInv, TypeInv, TypeOK
    <3>3. QED BY <3>1, <3>2
  <2>5. UNCHANGED <<status, outcome, exec, result>>
    BY <1>4 DEF Publish, journalVars
  <2>6. QED BY <2>3, <2>4, <2>5 DEF MessageInv
<1>5. CASE FinishReply(l) \/ FinishInline(l) \/ HandlerRaises(l)
  BY <1>3, <1>5 DEF FinishReply, FinishInline, HandlerRaises
<1>6. CASE Admit(l)
  <2>1. inbox[l] # <<>>
    BY <1>6 DEF Admit, Takes
  <2>2. /\ Covered(AckMsg(a, "rejected"), status', outcome')
        /\ Covered(OutcomeMsg(a, Refusal), status', outcome')
    BY <1>1, <2>1, CoveredBuilt
  <2>3. AckMsg(a, "rejected") \in Messages /\ OutcomeMsg(a, Refusal) \in Messages
    BY <1>1, <2>1
  <2>4. QED BY <1>2, <1>3, <1>6, <2>2, <2>3 DEF Admit
<1>7. CASE Claim(l)
  <2> DEFINE b == [issuer |-> IssuerOf[l], content |-> Current(l).content]
  <2>1. inbox[l] # <<>> /\ pc[l] = "admitted" /\ UNCHANGED <<published, exec, result>>
    BY <1>7 DEF Claim, TypeInv, HandlerHasRow
  <2>2. CASE /\ RecordAcceptance(a, b)
             /\ out' = [out EXCEPT ![l] = <<AckMsg(a, "accepted")>>]
    <3>1. status'[a] # "absent"
      BY <1>1, <2>1, <2>2 DEF RecordAcceptance, TypeInv, TypeOK
    <3>2. Covered(AckMsg(a, "accepted"), status', outcome')
      <4>1. outcome'[a] \in Outcomes \cup {NoOutcome}
        BY <1>1, <2>1, <2>2 DEF RecordAcceptance
      <4>2. RecordOf(status'[a], outcome'[a]) # "absent"
        BY <3>1, <4>1, OutcomeIsNone DEF RecordOf, OutcomeStatus, KnownTerminal
      <4> QED BY <1>1, <2>1, <4>2, CoveredBuilt
    <3>3. AckMsg(a, "accepted") \in Messages
      BY <1>1, <2>1
    <3>4. <<AckMsg(a, "accepted")>> \in Seq(Messages)
      BY <3>3
    <3>5. \A i \in 1..Len(<<AckMsg(a, "accepted")>>) :
              Covered(<<AckMsg(a, "accepted")>>[i], status', outcome')
      BY <3>2
    <3>6. QED BY <2>1, <2>2, <3>4, <3>5, MessageFrame
  <2>3. CASE Reply(l, <<AckMsg(a, outcome[a].status), OutcomeMsg(a, outcome[a])>>)
             /\ outcome[a] # NoOutcome /\ UNCHANGED journalVars
    <3>1. /\ AckMsg(a, outcome[a].status) \in Messages
          /\ OutcomeMsg(a, outcome[a]) \in Messages
          /\ outcome[a] \in Outcomes /\ a \in Assignments
      BY <1>1, <2>1, <2>3
    <3>2. /\ Covered(AckMsg(a, outcome[a].status), status', outcome')
          /\ Covered(OutcomeMsg(a, outcome[a]), status', outcome')
      <4>1. outcome' = outcome /\ outcome[a].status \in OutcomeStatus
        BY <2>3, <3>1, OutcomeIsNone DEF journalVars
      <4>2. RecordOf(status'[a], outcome'[a]) = outcome[a].status
        BY <2>3, <4>1 DEF RecordOf
      <4> QED BY <3>1, <4>1, <4>2, CoveredBuilt
    <3>3. QED BY <1>2, <2>1, <2>3, <3>1, <3>2
  <2>4. CASE Reply(l, <<AckMsg(a, "rejected"), OutcomeMsg(a, Refusal)>>)
    <3>1. AckMsg(a, "rejected") \in Messages /\ OutcomeMsg(a, Refusal) \in Messages
      BY <1>1, <2>1
    <3>2. /\ Covered(AckMsg(a, "rejected"), status', outcome')
          /\ Covered(OutcomeMsg(a, Refusal), status', outcome')
      BY <1>1, <2>1, CoveredBuilt
    <3>3. QED BY <1>2, <2>1, <2>4, <3>1, <3>2
  <2>5. CASE Reply(l, <<AckMsg(a, "unknown"), OutcomeMsg(a, Interrupted)>>)
    <3>1. AckMsg(a, "unknown") \in Messages /\ OutcomeMsg(a, Interrupted) \in Messages
      BY <1>1, <2>1
    <3>2. /\ Covered(AckMsg(a, "unknown"), status', outcome')
          /\ Covered(OutcomeMsg(a, Interrupted), status', outcome')
      BY <1>1, <2>1, CoveredBuilt
    <3>3. QED BY <1>2, <2>1, <2>5, <3>1, <3>2
  <2>6. QED BY <1>7, <2>2, <2>3, <2>4, <2>5 DEF Claim, ClaimKind
<1>8. CASE StartExecution(l)
  <2>1. a \in Assignments
    BY <1>1, <1>8 DEF StartExecution, TypeInv, HandlerHasRow
  <2>2. /\ \A k \in Sessions : out'[k] = out[k] \/ out'[k] = <<>>
        /\ exec' = [exec EXCEPT ![a] = "queued"]
        /\ UNCHANGED <<published, result>>
    BY <1>8 DEF StartExecution, LeaveInbox, TypeInv, TypeOK
  <2>3. \A c \in Assignments : exec'[c] = "publishing" =>
            exec[c] = "publishing" /\ result'[c] = result[c]
    BY <2>1, <2>2 DEF TypeInv, TypeOK
  <2>4. QED BY <2>2, <2>3, MessageQuiet
<1>9. CASE Query(l)
  <2>1. inbox[l] # <<>> /\ UNCHANGED <<published, exec, result, outcome>>
    BY <1>9 DEF Query, Takes, journalVars
  <2>2. Snapshot(a) \in Messages /\ Covered(Snapshot(a), status', outcome')
    <3>1. UNCHANGED <<status, outcome>>
      BY <1>9 DEF Query, journalVars
    <3> QED BY <1>1, <2>1, <3>1, SnapshotCovered DEF TypeInv, JournalInv
  <2>3. QED BY <1>2, <1>3, <1>9, <2>1, <2>2 DEF Query
<1>10. CASE Cancel(l)
  <2>1. inbox[l] # <<>> /\ UNCHANGED <<published, exec, result, outcome>>
    BY <1>10 DEF Cancel, Takes, journalVars
  <2>2. /\ CancelAck(a, "already_terminal") \in Messages
        /\ CancelAck(a, "unknown") \in Messages
        /\ OutcomeMsg(a, outcome[a]) \in Messages
    BY <1>1, <2>1
  <2>3. /\ Covered(CancelAck(a, "unknown"), status', outcome')
        /\ outcome[a] # NoOutcome =>
              /\ Covered(CancelAck(a, "already_terminal"), status', outcome')
              /\ Covered(OutcomeMsg(a, outcome[a]), status', outcome')
    <3>1. Covered(CancelAck(a, "unknown"), status', outcome')
      BY <1>1, <2>1, CoveredBuilt
    <3>2. ASSUME outcome[a] # NoOutcome
          PROVE  RecordOf(status'[a], outcome'[a]) \in OutcomeStatus /\ outcome[a] \in Outcomes
      BY <1>1, <2>1, <3>2, OutcomeIsNone DEF RecordOf
    <3> QED BY <1>1, <2>1, <3>1, <3>2, CoveredBuilt
  <2>4. QED BY <1>2, <1>3, <1>10, <2>1, <2>2, <2>3 DEF Cancel
<1>11. CASE CancelNative(l)
  <2>1. inbox[l] # <<>> /\ UNCHANGED <<published, exec, result>>
    BY <1>11 DEF CancelNative, TypeInv, HandlerHasRow
  <2>2. CancelAck(a, "rejected") \in Messages /\ Covered(CancelAck(a, "rejected"), status', outcome')
    BY <1>1, <2>1, CoveredBuilt
  <2>3. QED BY <1>2, <1>3, <1>11, <2>1, <2>2 DEF CancelNative
<1>12. CASE CompleteCancel(l)
  <2>1. inbox[l] # <<>> /\ UNCHANGED <<published, exec, result>>
    BY <1>12 DEF CompleteCancel, TypeInv, HandlerHasRow
  <2>2. CancelAck(a, "accepted") \in Messages /\ OutcomeMsg(a, Cancelled) \in Messages
        /\ a \in Assignments
    BY <1>1, <2>1
  <2>3. CASE LeaveInbox(l)
    BY <1>3, <2>1, <2>3
  <2>4. CASE /\ RecordOutcome(a, Cancelled)
             /\ Reply(l, <<CancelAck(a, "accepted"), OutcomeMsg(a, Cancelled)>>)
    <3>1. outcome'[a] = Cancelled
      BY <2>2, <2>4 DEF RecordOutcome, TypeInv, TypeOK
    <3>2. /\ Covered(CancelAck(a, "accepted"), status', outcome')
          /\ Covered(OutcomeMsg(a, Cancelled), status', outcome')
      <4>1. Cancelled \in Outcomes /\ RecordOf(status'[a], outcome'[a]) = "cancelled"
        BY <1>1, <2>1, <3>1, OutcomeIsNone DEF RecordOf, Cancelled
      <4> QED BY <2>2, <3>1, <4>1, CoveredBuilt
    <3>3. QED BY <1>2, <2>1, <2>2, <2>4, <3>2
  <2>5. QED BY <1>12, <2>3, <2>4 DEF CompleteCancel
<1>13. QED
  BY <1>4, <1>5, <1>6, <1>7, <1>8, <1>9, <1>10, <1>11, <1>12 DEF Handler

(* Every step keeps the invariant.                                         *)
LEMMA MessageStep == TypeInv /\ JournalInv /\ MessageInv /\ [Next]_vars => MessageInv'
<1> SUFFICES ASSUME TypeInv, JournalInv, MessageInv, [Next]_vars PROVE MessageInv'
  OBVIOUS
<1>1. ASSUME UNCHANGED <<published, out, exec, result>>
      PROVE  MessageInv'
  BY <1>1, MessageQuiet
<1>2. ASSUME NEW a \in Assignments, Execution(a)
      PROVE  MessageInv'
  <2>1. CASE NativeAccept(a) \/ (\E s \in NativeStatuses : NativeReturn(a, s))
             \/ ExecutionRaises(a)
    <3>1. /\ UNCHANGED <<published, out>>
          /\ \A c \in Assignments : exec'[c] = "publishing" =>
                 exec[c] = "publishing" /\ result'[c] = result[c]
      BY <2>1 DEF NativeAccept, NativeReturn, ExecutionRaises, TypeInv, TypeOK
    <3>2. QED BY <3>1, MessageQuiet
  <2>2. CASE LookupOutcome(a)
    <3>1. UNCHANGED <<published, out, status, outcome>>
      BY <2>2 DEF LookupOutcome, journalVars
    <3>2. \A c \in Assignments : exec'[c] = "publishing" => result'[c] = outcome'[c]
      BY <2>2, <3>1 DEF LookupOutcome, MessageInv, TypeInv, TypeOK
    <3>3. QED BY <3>1, <3>2 DEF MessageInv
  <2>3. CASE CompleteExecution(a)
    <3>1. UNCHANGED <<published, out, result>>
      BY <2>3 DEF CompleteExecution
    <3>2. CASE ~MayComplete(a, result[a])
      <4>1. \A c \in Assignments : exec'[c] = "publishing" => exec[c] = "publishing"
        BY <2>3, <3>2 DEF CompleteExecution, TypeInv, TypeOK
      <4>2. QED BY <3>1, <4>1, MessageQuiet
    <3>3. CASE MayComplete(a, result[a])
      <4>1. /\ exec' = [exec EXCEPT ![a] = "publishing"]
            /\ outcome' = [outcome EXCEPT ![a] = result[a]]
        BY <2>3, <3>3 DEF CompleteExecution, RecordOutcome
      <4>2. \A c \in Assignments : exec'[c] = "publishing" => result'[c] = outcome'[c]
        BY <3>1, <4>1 DEF MessageInv, TypeInv, TypeOK
      <4>3. \A m \in published' : Covered(m, status', outcome')
        BY <3>1, CoveredStays DEF MessageInv, TypeInv, TypeOK
      <4>4. ASSUME NEW k \in Sessions, NEW i \in 1..Len(out'[k])
            PROVE  Covered(out'[k][i], status', outcome')
        <5>1. out[k][i] \in Messages /\ Covered(out[k][i], status, outcome)
          BY <3>1, <4>4 DEF MessageInv, TypeInv, TypeOK
        <5>2. QED BY <3>1, <5>1, CoveredStays
      <4>5. QED BY <4>2, <4>3, <4>4 DEF MessageInv
    <3>4. QED BY <3>2, <3>3
  <2>4. CASE PublishOutcome(a)
    <3>1. /\ UNCHANGED <<out, status, outcome, result>>
          /\ exec' = [exec EXCEPT ![a] = "ended"]
          /\ published' = published \cup {OutcomeMsg(a, result[a])}
          /\ result[a] = outcome[a]
      BY <2>4 DEF PublishOutcome, journalVars, MessageInv
    <3>2. Covered(OutcomeMsg(a, result[a]), status, outcome)
      <4>1. result[a] \in Outcomes
        BY <2>4 DEF PublishOutcome, TypeInv, ResultHeld
      <4> QED BY <3>1, <4>1, CoveredBuilt
    <3>3. QED BY <3>1, <3>2 DEF MessageInv, TypeInv, TypeOK
  <2>5. QED BY <1>2, <2>1, <2>2, <2>3, <2>4 DEF Execution
<1>3. ASSUME NEW l \in Sessions, ProcessUnsubscribed(l)
      PROVE  MessageInv'
  BY <1>3, MessageQuiet DEF ProcessUnsubscribed, LeaveInbox, TypeInv, TypeOK
<1>4. CASE Crash \/ Stopped
  BY <1>4, MessageQuiet DEF Crash, Stopped, Halt
<1>5. QED
  BY <1>1, <1>2, <1>3, <1>4, MessageHandler
     DEF Next, vars, threadVars, Receive, ChangeConditions, Close, Start, Subscribe,
         ToolOpen, ToolFails, ToolResolve

(* Whatever is published as an assignment's result is what the journal     *)
(* holds for it, then and ever after, although lookup and complete are two *)
(* transactions and cancellations and the operator record outcomes too.    *)
THEOREM OutcomesRecorded == Spec => []PublishedIsRecorded
<1>1. MessageInv => PublishedIsRecorded
  BY DEF MessageInv, Covered, PublishedIsRecorded
<1>2. QED BY <1>1, JournalInvariant, MessageInit, MessageStep, PTL DEF Spec

(* What may be told of a record.                                           *)
LEMMA FactsAre ==
    ASSUME NEW f \in {"accepted", "ended", "succeeded", "failed", "cancelled"}, NEW s, True(f, s)
    PROVE  f \in Promise!Facts(s)
BY DEF True, Promise!Facts, Promise!Completed, Promise!Ends, OutcomeStatus, KnownTerminal

(* The three histories the promise speaks of.                              *)
Record == [a \in Assignments |-> Held(a)]
Told == {<<m.id, Says(m)>> : m \in {n \in published : Says(n) # "nothing"}}
Promised == <<Record, started, Told>>

LEMMA RecordSame ==
    /\ (\A a \in Assignments : Held(a)' = Held(a)) => UNCHANGED Record
    /\ UNCHANGED <<status, outcome>> => UNCHANGED Record
    /\ UNCHANGED published => UNCHANGED Told
BY DEF Record, Told, Held

(* A transaction of the journal is one step of the record: an acceptance,  *)
(* an interruption or an end.                                              *)
LEMMA TransactionKeeps ==
    ASSUME TypeOK, RowInv, JournalStep
    PROVE  [Promise!Next]_Promised
<1>1. UNCHANGED <<started, published>>
  BY DEF JournalStep
<1>2. UNCHANGED Told
  BY <1>1, RecordSame
<1>3. ASSUME NEW a \in Assignments, Accepts(a)
      PROVE  Promise!Accept(a)
  <2>1. Held(a) = "absent" /\ outcome' = outcome /\ outcome[a] = NoOutcome
    BY <1>3, HeldIs, OutcomeIsNone DEF Accepts, RowInv, TypeOK, OutcomeStatus, KnownTerminal
  <2>2. \A b \in Assignments : status'[b] = (IF b = a THEN "accepted" ELSE status[b])
    BY <1>3 DEF Accepts, TypeOK
  <2>3. \A b \in Assignments : Held(b)' = (IF b = a THEN "accepted" ELSE Held(b))
    BY <2>1, <2>2 DEF Held, RecordOf
  <2>4. Record' = [Record EXCEPT ![a] = "accepted"] /\ Record[a] = "absent"
    BY <2>1, <2>3 DEF Record
  <2> QED BY <1>1, <1>2, <2>4 DEF Promise!Accept, Record, Told, Held
<1>4. ASSUME NEW a \in Assignments, NEW o \in Outcomes, Completes(a, o)
      PROVE  (\E s \in Promise!Ends : Promise!End(a, s)) \/ UNCHANGED Record
  <2>1. \A b \in Assignments :
           /\ status'[b] = (IF b = a THEN o.status ELSE status[b])
           /\ outcome'[b] = (IF b = a THEN o ELSE outcome[b])
    BY <1>4 DEF Completes, TypeOK
  <2>2. o # NoOutcome /\ o.status \in OutcomeStatus /\ outcome[a] \in {NoOutcome, o}
    BY <1>4, OutcomeIsNone DEF Completes, MayComplete
  <2>3. \A b \in Assignments : Held(b)' = (IF b = a THEN o.status ELSE Held(b))
    BY <2>1, <2>2 DEF Held, RecordOf
  <2>4. CASE outcome[a] = o
    <3>1. Held(a) = o.status
      BY <2>2, <2>4 DEF Held, RecordOf
    <3> QED BY <2>3, <3>1, RecordSame
  <2>5. CASE outcome[a] = NoOutcome
    <3>1. Held(a) \in {"accepted", "interrupted"}
      BY <1>4, <2>5 DEF Completes, RowInv, Held, RecordOf
    <3>2. Record' = [Record EXCEPT ![a] = o.status] /\ Record[a] \in {"accepted", "interrupted"}
      BY <2>3, <3>1 DEF Record
    <3>3. Promise!End(a, o.status)
      BY <1>1, <1>2, <3>2 DEF Promise!End, Record, Told, Held
    <3>4. o.status \in Promise!Ends
      BY <2>2 DEF Promise!Ends, Promise!Completed, OutcomeStatus, KnownTerminal
    <3> QED BY <3>3, <3>4
  <2> QED BY <2>2, <2>4, <2>5
<1>5. ASSUME OpenJournal PROVE Promise!Interrupt
  <2>1. \A b \in Assignments :
           /\ status'[b] = (IF status[b] = "accepted" /\ outcome[b] = NoOutcome THEN "unknown"
                            ELSE status[b])
           /\ outcome'[b] = outcome[b]
    BY <1>5 DEF OpenJournal, StatusOnOpen
  <2>2. \A b \in Assignments : Held(b) = "accepted" <=> status[b] = "accepted" /\ outcome[b] = NoOutcome
    BY HeldIs DEF RowInv, Held, RecordOf, OutcomeStatus, KnownTerminal
  <2>3. \A b \in Assignments : Held(b)' = (IF Held(b) = "accepted" THEN "interrupted" ELSE Held(b))
    BY <2>1, <2>2 DEF Held, RecordOf
  <2>4. Record' = [b \in Assignments |-> IF Record[b] = "accepted" THEN "interrupted" ELSE Record[b]]
    BY <2>3 DEF Record
  <2> QED BY <1>1, <1>2, <2>4 DEF Promise!Interrupt, Record, Told, Held
<1> QED BY <1>1, <1>2, <1>3, <1>4, <1>5 DEF JournalStep, Promise!Next, Promised

(* The native call of a new execution.                                     *)
LEMMA BeginKeeps ==
    ASSUME TypeInv, JournalInv, NEW a \in Assignments, NativeAccept(a)
    PROVE  Promise!Begin(a)
<1>1. started[a] = 0 /\ status[a] # "absent"
  BY DEF NativeAccept, JournalInv, OnceInv, Fresh
<1>2. Record[a] # "absent"
  BY <1>1, HeldIs DEF Record, TypeInv, JournalInv
<1>3. started' = [started EXCEPT ![a] = 1]
  BY <1>1 DEF NativeAccept
<1>4. UNCHANGED <<Record, Told>>
  BY RecordSame DEF NativeAccept, journalVars
<1> QED BY <1>1, <1>2, <1>3, <1>4 DEF Promise!Begin, Record, Told, Held

(* A message whose content the journal covers says a fact, or nothing.     *)
LEMMA TellKeeps ==
    ASSUME NEW m \in Messages, Covered(m, status, outcome),
           published' = published \cup {m}, UNCHANGED <<status, outcome, started>>
    PROVE  [Promise!Next]_Promised
<1>1. m.id \in Assignments
  BY DEF Messages
<1>2. UNCHANGED Record
  BY RecordSame
<1>3. CASE Says(m) = "nothing"
  <2>1. UNCHANGED Told
    BY <1>3 DEF Told
  <2> QED BY <1>2, <2>1 DEF Promised
<1>4. CASE Says(m) # "nothing"
  <2>1. Told' = Told \cup {<<m.id, Says(m)>>}
    BY <1>4 DEF Told
  <2>2. Says(m) \in {"accepted", "ended", "succeeded", "failed", "cancelled"}
    BY <1>4 DEF Says
  <2>3. True(Says(m), Record[m.id])
    BY <1>1 DEF Covered, Record, Held
  <2>4. Says(m) \in Promise!Facts(Record[m.id])
    BY <2>2, <2>3, FactsAre
  <2>5. Promise!Tell(m.id, Says(m))
    BY <1>2, <2>1, <2>4 DEF Promise!Tell, Record, Told, Held
  <2> QED BY <1>1, <2>4, <2>5 DEF Promise!Next, Record, Held
<1> QED BY <1>3, <1>4

(* Every step of the participant is a step of the promise, or none.        *)
LEMMA PromiseStep ==
    TypeInv /\ JournalInv /\ MessageInv /\ [Next]_vars => [Promise!Next]_Promised
<1> SUFFICES ASSUME TypeInv, JournalInv, MessageInv, [Next]_vars PROVE [Promise!Next]_Promised
  OBVIOUS
<1>1. CASE JournalStep
  BY <1>1, TransactionKeeps DEF TypeInv, JournalInv
<1>2. ASSUME NEW a \in Assignments, NativeAccept(a) PROVE Promise!Next
  BY <1>2, BeginKeeps DEF Promise!Next
<1>3. ASSUME NEW l \in Sessions, Publish(l) PROVE [Promise!Next]_Promised
  <2>1. /\ out[l] \in Seq(Messages) /\ out[l] # <<>>
        /\ published' = published \cup {Head(out[l])}
        /\ UNCHANGED <<status, outcome, started>>
    BY <1>3 DEF Publish, journalVars, TypeInv, TypeOK
  <2>2. Head(out[l]) \in Messages /\ Covered(Head(out[l]), status, outcome)
    BY <2>1 DEF MessageInv
  <2> QED BY <2>1, <2>2, TellKeeps
<1>4. ASSUME NEW a \in Assignments, PublishOutcome(a) PROVE [Promise!Next]_Promised
  <2>1. /\ result[a] \in Outcomes /\ result[a] = outcome[a]
        /\ published' = published \cup {OutcomeMsg(a, result[a])}
        /\ UNCHANGED <<status, outcome, started>>
    BY <1>4 DEF PublishOutcome, journalVars, TypeInv, ResultHeld, MessageInv
  <2>2. OutcomeMsg(a, result[a]) \in Messages /\ Covered(OutcomeMsg(a, result[a]), status, outcome)
    BY <2>1, BuiltMessages, CoveredBuilt
  <2> QED BY <2>1, <2>2, TellKeeps
<1>5. CASE UNCHANGED <<status, outcome, started, published>>
  BY <1>5, RecordSame DEF Promised
<1>6. UNCHANGED <<status, outcome>> \/ JournalStep
  BY JournalSteps
<1>7. \/ UNCHANGED <<started, published>>
      \/ \E l \in Sessions : Publish(l)
      \/ \E a \in Assignments : PublishOutcome(a) \/ NativeAccept(a)
  BY DEF Next, Handler, Execution, vars, Receive, ProcessUnsubscribed, ChangeConditions,
         Crash, Halt, Close, Stopped, Start, Subscribe, ToolOpen, ToolFails, ToolResolve,
         FinishReply, Admit, Claim, StartExecution, FinishInline, Query, Cancel, CancelNative,
         CompleteCancel, HandlerRaises, NativeReturn, LookupOutcome, CompleteExecution,
         ExecutionRaises
<1> QED BY <1>1, <1>2, <1>3, <1>4, <1>5, <1>6, <1>7

(* The participant keeps the promise of AssignmentRecord, for any requests *)
(* in any sessions, stops, races between execution and cancellation, and   *)
(* operators, also beside a live process: each step refines one of its.    *)
THEOREM RecordKept == Spec => KeepsRecord
<1>1. Init => Promise!Init
  BY DEF Init, Promise!Init, RecordOf, NoOutcome
<1>2. TypeInv /\ JournalInv /\ MessageInv /\ [Next]_vars =>
          [Promise!Next]_<<[a \in Assignments |-> RecordOf(status[a], outcome[a])], started,
                           {<<m.id, Says(m)>> : m \in {n \in published : Says(n) # "nothing"}}>>
  BY PromiseStep DEF Promised, Record, Told, Held
<1> QED BY <1>1, <1>2, JournalInvariant, MessageInit, MessageStep, PTL
        DEF Spec, KeepsRecord, Promise!Spec

-----------------------------------------------------------------------------
(* What a step may do to reservations, as ReleasedOnlyWhenSettled says it. *)
Settles ==
    \A r \in Resources :
        reserved[r] # NoOwner /\ reserved'[r] # reserved[r] =>
            /\ reserved'[r] = NoOwner
            /\ outcome'[reserved[r]].status \in KnownTerminal

(* Recording an outcome releases only what its assignment held, and only   *)
(* when the outcome is known.                                              *)
LEMMA RecordSettles ==
    ASSUME TypeOK, NEW a \in Assignments, NEW o \in Outcomes, RecordOutcome(a, o)
    PROVE  Settles
<1>1. outcome'[a] = o
  BY DEF RecordOutcome, TypeOK
<1>2. o.status # "unknown" => o.status \in KnownTerminal
  BY DEF Outcomes, OutcomeStatus
<1>3. \A r \in Resources : reserved'[r] # reserved[r] =>
          reserved'[r] = NoOwner /\ reserved[r] = a /\ o.status # "unknown"
  BY DEF RecordOutcome, ReservedAfter, TypeOK
<1>4. QED BY <1>1, <1>2, <1>3 DEF Settles

(* Every step treats reservations so.                                      *)
LEMMA SettlesStep == TypeInv /\ [Next]_vars => Settles
<1> SUFFICES ASSUME TypeInv, [Next]_vars PROVE Settles
  OBVIOUS
<1> USE DEF TypeInv
<1>1. CASE UNCHANGED reserved
  BY <1>1 DEF Settles
<1>2. CASE \E l \in Sessions : Claim(l)
  <2>1. PICK l \in Sessions : Claim(l)
    BY <1>2
  <2> DEFINE a == Current(l).id
             b == [issuer |-> IssuerOf[l], content |-> Current(l).content]
  <2>2. CASE ClaimKind(a, b) = "new" /\ RecordAcceptance(a, b)
    <3>1. \A r \in Needs[b.content] : reserved[r] \in {NoOwner, a}
      BY <2>2 DEF ClaimKind
    <3>2. \A r \in Resources : reserved'[r] = reserved[r] \/ reserved[r] = NoOwner
      BY <2>2, <3>1 DEF RecordAcceptance, TypeOK
    <3>3. QED BY <3>2 DEF Settles
  <2>3. QED BY <1>1, <2>1, <2>2 DEF Claim, journalVars
<1>3. CASE \E l \in Sessions : CompleteCancel(l)
  <2>1. PICK l \in Sessions : CompleteCancel(l)
    BY <1>3
  <2>2. Current(l).id \in Assignments
    BY <2>1, CurrentType DEF CompleteCancel, HandlerHasRow
  <2>3. Cancelled \in Outcomes
    BY <2>2, BuiltMessages
  <2>4. QED BY <1>1, <2>1, <2>2, <2>3, RecordSettles DEF CompleteCancel, journalVars
<1>4. CASE \E a \in Assignments : CompleteExecution(a)
  BY <1>1, <1>4, RecordSettles DEF CompleteExecution, ResultHeld, journalVars
<1>5. CASE \E a \in Assignments, s \in Resolutions : ToolResolve(a, s)
  <2>1. PICK a \in Assignments, s \in Resolutions : ToolResolve(a, s)
    BY <1>5
  <2>2. [status |-> s, origin |-> "operator"] \in Outcomes
    BY ParticipantAssumption DEF Outcomes, Origins, OutcomeStatus
  <2>3. QED BY <2>1, <2>2, RecordSettles DEF ToolResolve
<1>6. QED
  BY <1>1, <1>2, <1>3, <1>4, <1>5
     DEF Next, Handler, Execution, vars, journalVars, Receive, ProcessUnsubscribed,
         ChangeConditions, Crash, Halt, Close, Stopped, Start, Subscribe, OpenJournal,
         ToolOpen, ToolFails, Publish, FinishReply, Admit, StartExecution,
         FinishInline, Query, Cancel, CancelNative, HandlerRaises, NativeAccept,
         NativeReturn, LookupOutcome, PublishOutcome, ExecutionRaises

(* A reservation of the journal ends only in the transaction that records  *)
(* a known terminal outcome of the assignment that held it.                *)
THEOREM ReservationsHeld == Spec => ReleasedOnlyWhenSettled
<1>1. Spec => []TypeInv
  BY TypeInit, TypeStep, PTL DEF Spec
<1>2. TypeInv /\ [Next]_vars => [Settles]_vars
  BY SettlesStep
<1>3. Spec => [][Settles]_vars
  BY <1>1, <1>2, PTL DEF Spec
<1>4. QED BY <1>3 DEF ReleasedOnlyWhenSettled, Settles
-----------------------------------------------------------------------------
(* Exclusive native work, when ump-reconcile runs only while the process   *)
(* is down.  Work is under way from the claim to the return of the native  *)
(* call, and holds its resources all along: a claim takes none that is     *)
(* held, an outcome releases only what its own assignment held, and the    *)
(* only outcome recorded while work is under way is a cancellation's.      *)

AtWork(a) ==
    \/ exec[a] \in {"queued", "running"}
    \/ \E l \in Sessions : pc[l] = "accepted" /\ Current(l).id = a

Holds(a) == \A r \in Needs[binding[a].content] : reserved[r] = a

HoldInv ==
    \A a \in Assignments :
        AtWork(a) => outcome[a].origin = "cancellation" \/ Holds(a)

(* No thread survives the process.                                         *)
QuietInv ==
    phase \in {"down", "starting"} =>
        /\ \A l \in Sessions : pc[l] = "idle"
        /\ \A a \in Assignments : exec[a] = "none"

(* Threads start only in the running process.                              *)
LEMMA QuietStep == TypeInv /\ QuietInv /\ [Next]_vars => QuietInv'
<1> SUFFICES ASSUME TypeInv, QuietInv, [Next]_vars PROVE QuietInv'
  OBVIOUS
<1>1. CASE UNCHANGED <<phase, pc, exec>>
  BY <1>1 DEF QuietInv
<1>2. CASE phase' \in {"up", "closing"}
  BY <1>2 DEF QuietInv
<1>3. CASE Crash \/ Stopped
  BY <1>3 DEF Crash, Stopped, Halt, QuietInv
<1>4. CASE Start
  BY <1>4 DEF Start, QuietInv, threadVars
<1>5. ASSUME NEW l \in Sessions, Handler(l) PROVE QuietInv'
  <2>1. CASE phase \in {"up", "closing"}
    BY <1>2, <1>5, <2>1
       DEF Handler, Publish, FinishReply, Admit, Claim, StartExecution,
           FinishInline, Query, Cancel, CancelNative, CompleteCancel, HandlerRaises
  <2>2. CASE pc[l] = "idle" /\ phase \notin {"up", "closing"}
    <3>1. Publish(l) \/ HandlerRaises(l)
      BY <1>5, <2>2
         DEF Handler, FinishReply, Admit, Claim, StartExecution, FinishInline,
             Query, Cancel, CancelNative, CompleteCancel, Takes
    <3>2. UNCHANGED <<phase, exec>> /\ (UNCHANGED pc \/ pc' = [pc EXCEPT ![l] = "idle"])
      BY <3>1 DEF Publish, HandlerRaises, LeaveInbox
    <3> QED BY <3>2 DEF QuietInv, TypeInv, TypeOK
  <2> QED BY <2>1, <2>2 DEF QuietInv, TypeInv, TypeOK
<1>6. ASSUME NEW a \in Assignments, Execution(a) PROVE QuietInv'
  <2>1. UNCHANGED phase /\ exec[a] # "none"
    BY <1>6 DEF Execution, NativeAccept, NativeReturn, LookupOutcome, CompleteExecution,
                PublishOutcome, ExecutionRaises
  <2> QED BY <2>1 DEF QuietInv
<1>7. ASSUME NEW l \in Sessions, ProcessUnsubscribed(l) PROVE QuietInv'
  BY <1>7 DEF ProcessUnsubscribed, LeaveInbox, QuietInv, TypeInv, TypeOK
<1> QED
  BY <1>1, <1>2, <1>3, <1>4, <1>5, <1>6, <1>7
     DEF Next, vars, threadVars, Receive, ChangeConditions, Close, Subscribe,
         ToolOpen, ToolFails, ToolResolve

(* Work begins with a new claim.                                           *)
NewClaim(l, a, b) ==
    /\ a \in Assignments /\ a = Current(l).id
    /\ ClaimKind(a, b) = "new" /\ RecordAcceptance(a, b)

LEMMA WorkBegins ==
    ASSUME TypeInv, [Next]_vars, NEW a \in Assignments, AtWork(a)'
    PROVE  AtWork(a) \/ \E l \in Sessions : \E b \in Bindings : NewClaim(l, a, b)
<1>1. ASSUME exec'[a] \in {"queued", "running"} => exec[a] \in {"queued", "running"},
             \A l \in Sessions : pc'[l] = "accepted" =>
                 pc[l] = "accepted" /\ Head(inbox'[l]) = Head(inbox[l])
      PROVE  AtWork(a)
  BY <1>1 DEF AtWork, Current
<1>2. ASSUME UNCHANGED <<exec, pc, inbox>> PROVE AtWork(a)
  BY <1>1, <1>2
<1>3. ASSUME NEW l \in Sessions, UNCHANGED <<exec, inbox>>,
             NEW k \in {"admitted", "replying", "cancelling", "cancelled"},
             pc' = [pc EXCEPT ![l] = k]
      PROVE  AtWork(a)
  BY <1>1, <1>3 DEF TypeInv, TypeOK
<1>4. ASSUME NEW l \in Sessions, UNCHANGED exec, LeaveInbox(l) PROVE AtWork(a)
  BY <1>1, <1>4 DEF TypeInv, TypeOK, LeaveInbox
<1>5. ASSUME NEW l \in Sessions, Claim(l)
      PROVE  AtWork(a) \/ \E b \in Bindings : NewClaim(l, a, b)
  <2>1. CASE \E ms : Reply(l, ms)
    BY <1>3, <1>5, <2>1 DEF Claim, Reply
  <2>2. CASE ~ \E ms : Reply(l, ms)
    <3> DEFINE b == [issuer |-> IssuerOf[l], content |-> Current(l).content]
    <3>1. /\ ClaimKind(Current(l).id, b) = "new" /\ RecordAcceptance(Current(l).id, b)
          /\ pc' = [pc EXCEPT ![l] = "accepted"]
          /\ UNCHANGED <<inbox, exec>>
      BY <1>5, <2>2 DEF Claim
    <3>2. b \in Bindings
      BY <1>5, CurrentType, ParticipantAssumption DEF Claim, TypeInv, HandlerHasRow, Bindings
    <3>3. CASE Current(l).id = a
      BY <3>1, <3>2, <3>3 DEF NewClaim
    <3>4. CASE Current(l).id # a
      BY <3>1, <3>4 DEF AtWork, Current, TypeInv, TypeOK
    <3> QED BY <3>3, <3>4
  <2> QED BY <2>1, <2>2
<1>6. ASSUME NEW l \in Sessions, StartExecution(l) PROVE AtWork(a)
  <2>1. pc[l] = "accepted" /\ Current(l).id \in Assignments
    BY <1>6, CurrentType DEF StartExecution, TypeInv, HandlerHasRow
  <2>2. CASE Current(l).id = a
    BY <2>1, <2>2 DEF AtWork
  <2>3. CASE Current(l).id # a
    <3>1. exec'[a] = exec[a]
      BY <1>6, <2>1, <2>3 DEF StartExecution, TypeInv, TypeOK
    <3>2. \A m \in Sessions : pc'[m] = "accepted" => pc[m] = "accepted" /\ inbox'[m] = inbox[m]
      BY <1>6, <2>1 DEF StartExecution, LeaveInbox, TypeInv, TypeOK
    <3> QED BY <1>1, <3>1, <3>2
  <2> QED BY <2>2, <2>3
<1>7. ASSUME NEW l \in Sessions, Handler(l)
      PROVE  AtWork(a) \/ \E b \in Bindings : NewClaim(l, a, b)
  <2>1. CASE Publish(l)
    BY <1>2, <2>1 DEF Publish
  <2>2. CASE FinishReply(l) \/ FinishInline(l) \/ HandlerRaises(l)
    BY <1>4, <2>2 DEF FinishReply, FinishInline, HandlerRaises
  <2>3. CASE Admit(l)
    BY <1>3, <2>3 DEF Admit, Reply
  <2>4. CASE Query(l)
    BY <1>3, <1>4, <2>4 DEF Query, Reply
  <2>5. CASE Cancel(l)
    BY <1>3, <1>4, <2>5 DEF Cancel, Reply
  <2>6. CASE CancelNative(l)
    BY <1>3, <2>6 DEF CancelNative, Reply
  <2>7. CASE CompleteCancel(l)
    BY <1>3, <1>4, <2>7 DEF CompleteCancel, Reply
  <2> QED BY <1>5, <1>6, <1>7, <2>1, <2>2, <2>3, <2>4, <2>5, <2>6, <2>7 DEF Handler
<1>8. ASSUME NEW c \in Assignments, Execution(c) PROVE AtWork(a)
  <2>1. /\ UNCHANGED <<pc, inbox>>
        /\ exec'[a] \in {"queued", "running"} => exec[a] \in {"queued", "running"}
    BY <1>8 DEF Execution, NativeAccept, NativeReturn, LookupOutcome, CompleteExecution,
                PublishOutcome, ExecutionRaises, TypeInv, TypeOK
  <2> QED BY <1>1, <2>1
<1>9. ASSUME NEW l \in Sessions, NEW q \in Requests, Receive(l, q) PROVE AtWork(a)
  <2>1. ASSUME NEW m \in Sessions, pc'[m] = "accepted"
        PROVE  pc[m] = "accepted" /\ Head(inbox'[m]) = Head(inbox[m])
    <3>1. pc[m] = "accepted"
      BY <1>9, <2>1 DEF Receive, threadVars
    <3>2. inbox[m] \in Seq(Requests) /\ inbox[m] # <<>>
      BY <3>1 DEF TypeInv, TypeOK, HandlerHasRow
    <3>3. inbox'[m] = IF m = l THEN Append(inbox[m], q) ELSE inbox[m]
      BY <1>9 DEF Receive, TypeInv, TypeOK
    <3> QED BY <3>1, <3>2, <3>3
  <2> QED BY <1>1, <1>9, <2>1 DEF Receive, threadVars
<1>10. ASSUME NEW l \in Sessions, ProcessUnsubscribed(l) PROVE AtWork(a)
  BY <1>4, <1>10 DEF ProcessUnsubscribed
<1>11. CASE Crash \/ Stopped
  BY <1>1, <1>11 DEF Crash, Stopped, Halt
<1> QED
  BY <1>2, <1>7, <1>8, <1>9, <1>10, <1>11
     DEF Next, vars, threadVars, ChangeConditions, Close, Start, Subscribe,
         ToolOpen, ToolFails, ToolResolve

(* An outcome of one assignment releases nothing another holds.            *)
LEMMA OthersHold ==
    ASSUME TypeOK, NEW a \in Assignments, NEW c \in Assignments, a # c, NEW o,
           RecordOutcome(c, o), Holds(a)
    PROVE  Holds(a)'
<1>1. binding[a].content \in Contents
  BY DEF TypeOK, Bindings
<1>2. Needs[binding[a].content] \subseteq Resources
  BY <1>1, ParticipantAssumption
<1> QED BY <1>2 DEF Holds, RecordOutcome, ReservedAfter

(* Work under way keeps its resources, or is cancelled.                    *)
LEMMA HoldKept ==
    ASSUME ~LiveTool, TypeInv, OnceInv, QuietInv, [Next]_vars,
           NEW a \in Assignments, AtWork(a),
           outcome[a].origin = "cancellation" \/ Holds(a)
    PROVE  outcome'[a].origin = "cancellation" \/ Holds(a)'
<1>0. binding[a].content \in Contents /\ Needs[binding[a].content] \subseteq Resources
  BY ParticipantAssumption DEF TypeInv, TypeOK, Bindings
<1>1. CASE outcome[a].origin = "cancellation"
  <2>1. outcome[a] # NoOutcome
    BY <1>1 DEF NoOutcome
  <2> QED BY <1>1, <2>1, OutcomeStays
<1> SUFFICES ASSUME Holds(a) PROVE outcome'[a].origin = "cancellation" \/ Holds(a)'
  BY <1>1
<1>2. ASSUME UNCHANGED <<binding, reserved>> PROVE Holds(a)'
  BY <1>2 DEF Holds
<1>3. ASSUME NEW l \in Sessions, Claim(l) PROVE Holds(a)'
  <2> DEFINE c == Current(l).id
             b == [issuer |-> IssuerOf[l], content |-> Current(l).content]
  <2>1. CASE ClaimKind(c, b) = "new" /\ RecordAcceptance(c, b)
    <3>1. status[c] = "absent" /\ \A r \in Needs[b.content] : reserved[r] \in {NoOwner, c}
      BY <2>1 DEF ClaimKind
    <3>2. a # c
      BY <3>1 DEF OnceInv, Fresh, AtWork
    <3>3. \A r \in Needs[binding[a].content] : r \notin Needs[b.content]
      BY <3>1, <3>2, ParticipantAssumption DEF Holds
    <3>4. binding'[a] = binding[a]
      BY <2>1, <3>2 DEF RecordAcceptance, TypeInv, TypeOK
    <3> QED BY <1>0, <2>1, <3>3, <3>4 DEF Holds, RecordAcceptance
  <2> QED BY <1>2, <1>3, <2>1 DEF Claim, journalVars
<1>4. ASSUME NEW l \in Sessions, CompleteCancel(l)
      PROVE  outcome'[a].origin = "cancellation" \/ Holds(a)'
  <2>1. Current(l).id \in Assignments
    BY <1>4, CurrentType DEF CompleteCancel, TypeInv, HandlerHasRow
  <2>2. CASE RecordOutcome(Current(l).id, Cancelled)
    <3>1. CASE Current(l).id = a
      BY <2>2, <3>1 DEF RecordOutcome, Cancelled, TypeInv, TypeOK
    <3>2. CASE Current(l).id # a
      BY <2>1, <2>2, <3>2, OthersHold DEF TypeInv
    <3> QED BY <3>1, <3>2
  <2> QED BY <1>2, <1>4, <2>2 DEF CompleteCancel, journalVars
<1>5. ASSUME NEW c \in Assignments, CompleteExecution(c) PROVE Holds(a)'
  <2>1. a # c
    BY <1>5 DEF CompleteExecution, AtWork, OnceInv, Fresh
  <2> QED BY <1>2, <1>5, <2>1, OthersHold DEF CompleteExecution, journalVars, TypeInv
<1>6. ASSUME NEW c \in Assignments, NEW s \in Resolutions, ToolResolve(c, s) PROVE FALSE
  BY <1>6 DEF ToolResolve, QuietInv, AtWork
<1> QED
  BY <1>2, <1>3, <1>4, <1>5, <1>6
     DEF Next, Handler, Execution, vars, journalVars, Receive, ProcessUnsubscribed,
         ChangeConditions, Crash, Halt, Close, Stopped, Start, Subscribe, OpenJournal,
         ToolOpen, ToolFails, Publish, FinishReply, Admit, StartExecution,
         FinishInline, Query, Cancel, CancelNative, HandlerRaises, NativeAccept,
         NativeReturn, LookupOutcome, PublishOutcome, ExecutionRaises

(* A new claim reserves all it needs.                                      *)
LEMMA ClaimHolds ==
    ASSUME TypeInv, NEW l \in Sessions, NEW a \in Assignments, NEW b \in Bindings,
           NewClaim(l, a, b)
    PROVE  Holds(a)'
<1>1. Needs[b.content] \subseteq Resources
  BY ParticipantAssumption DEF Bindings
<1>2. binding'[a] = b
  BY DEF NewClaim, RecordAcceptance, TypeInv, TypeOK
<1> QED BY <1>1, <1>2 DEF NewClaim, RecordAcceptance, Holds

(* Native code that runs and was not cancelled holds every resource it     *)
(* needs, for any assignments, resources, sessions, redeliveries, crashes  *)
(* and resolutions, provided that ump-reconcile is used as the journal's   *)
(* recovery presumes: while no participant has the journal open.           *)
THEOREM WorkExclusive ==
    ASSUME ~LiveTool
    PROVE  Spec => []NativeWorkExclusive
<1>1. Init => HoldInv /\ QuietInv
  BY DEF Init, HoldInv, QuietInv, AtWork
<1>2. TypeInv /\ OnceInv /\ QuietInv /\ HoldInv /\ [Next]_vars => HoldInv'
  <2> SUFFICES ASSUME TypeInv, OnceInv, QuietInv, HoldInv, [Next]_vars,
                      NEW a \in Assignments, AtWork(a)'
               PROVE  outcome'[a].origin = "cancellation" \/ Holds(a)'
    BY DEF HoldInv
  <2>1. CASE AtWork(a)
    BY <2>1, HoldKept DEF HoldInv
  <2>2. CASE \E l \in Sessions : \E b \in Bindings : NewClaim(l, a, b)
    BY <2>2, ClaimHolds
  <2> QED BY <2>1, <2>2, WorkBegins
<1>3. HoldInv => NativeWorkExclusive
  BY DEF HoldInv, NativeWorkExclusive, Unstopped, AtWork, Holds
<1>4. Spec => [](TypeInv /\ OnceInv)
  BY TypeInit, TypeStep, OnceInit, OnceStep, PTL DEF Spec
<1> QED BY <1>1, <1>2, <1>3, <1>4, QuietStep, PTL DEF Spec
=============================================================================
