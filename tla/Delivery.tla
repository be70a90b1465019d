------------------------------ MODULE Delivery ------------------------------
(***************************************************************************)
(* Durable delivery of envelopes from one process to its peers: the        *)
(* numbering and publication of an envelope (Participant._send,            *)
(* Coordinator._publish, TlsNetworkBus.publish), the sender's SQLite       *)
(* outbox, flush and the retry thread, one TLS connection per attempt, the *)
(* receiver's connection threads with the replay floor and the staged      *)
(* inbox row, and the inbox workers.                                       *)
(*                                                                         *)
(* Every SQLite statement or transaction is one step.  A client that times *)
(* out leaves the server's thread running; MaxConnections says how many    *)
(* such threads of one peer and stream may be alive at a time.  Clocks are *)
(* abstracted: a row in backoff becomes due again at some later time.      *)
(***************************************************************************)
EXTENDS Naturals, Sequences, SequencesExt

CONSTANTS
    Peers,           \* configured peers of the sender
    Disclosures,     \* the peer sets one publication may be disclosed to
    Publishers,      \* sender threads that publish
    PublishLocked,   \* TRUE: Participant._send, FALSE: Coordinator._publish
    MaxPending,      \* SqliteOutbox maximum_pending
    SafetyReserve,   \* SqliteOutbox safety_reserve
    InboxWorkers,    \* SqliteInbox worker_count
    MaxConnections,  \* connection threads of a peer and stream at a time
    MaxRows,         \* bound: outbox rows over a behaviour
    MaxSequence,     \* bound: publications per session and stream
    MaxFaults,       \* bound: lost connections and timeouts
    MaxSessions,     \* bound: process lifetimes of the sender
    MaxStops,        \* bound: restarts of the peers
    MaxRestarts      \* bound: restarts of the sender and of the peers

Streams == {"operational", "safety"}

ASSUME DeliveryAssumption ==
    /\ IsFiniteSet(Peers) /\ Disclosures \subseteq SUBSET Peers
    /\ PublishLocked \in BOOLEAN
    /\ MaxPending \in Nat \ {0}
    /\ SafetyReserve \in 0 .. MaxPending - 1
    /\ InboxWorkers \in Nat \ {0}
    /\ MaxConnections \in Nat \ {0}
    /\ MaxRows \in Nat /\ MaxSequence \in Nat
    /\ MaxFaults \in Nat /\ MaxStops \in Nat
    /\ MaxSessions \in Nat \ {0} /\ MaxRestarts \in Nat

VARIABLES
    session,    \* the sender's process lifetime, its session_id
    sequence,   \* sequence[st]: the last number given out in this session
    task,       \* task[t]: what publisher thread t is doing
    outbox,     \* sender's durable rows in queue_order
    send,       \* send[st]: the attempt under stream st's send lock
    conn,       \* conn[p][st][k]: the peer's connection threads
    floor,      \* floor[p][n][st]: the peer's durable replay floor
    inbox,      \* inbox[p]: the peer's durable rows in inbox_order
    queued,     \* history: messages published, per link
    subscribed, \* subscribed[p]: the peer's handlers are on its local bus
    taken,      \* history: messages the peer's workers took, per link
    unheard,    \* history: positions in taken[l] that met no handler
    faults,     \* history: lost connections and timeouts, for the bound
    stops       \* history: restarts of the peers, for the bound

senderVars   == <<session, sequence, task>>
receiverVars == <<floor, inbox, subscribed, taken, unheard>>
boundVars    == <<faults, stops>>
vars == <<senderVars, outbox, queued, send, conn, receiverVars, boundVars>>

Sessions    == 1 .. MaxSessions
Connections == 1 .. MaxConnections
Envelopes   == [session : Sessions, stream : Streams,
                sequence : 1 .. MaxSequence]
Links       == Peers \X Sessions \X Streams
LinkOf(p, m) == <<p, m.session, m.stream>>

Idle     == [at |-> "idle", stream |-> "operational", sequence |-> 0,
             to |-> {}]
NoSend   == [at |-> "none"]
NoThread == [at |-> "none"]

(* "due" and "backoff" are the status 'pending' with next_attempt_ms       *)
(* reached or not; "done" is the inbox status 'processed' or 'failed'.     *)
OutboxStatus == {"due", "backoff", "delivered"}
InboxStatus  == {"staged", "received", "processing", "done"}
Pending(r)   == r.status # "delivered"

TypeOK ==
    /\ session \in Sessions
    /\ sequence \in [Streams -> 0 .. MaxSequence]
    /\ task \in [Publishers ->
                   [at : {"idle", "numbered", "made", "flush"},
                    stream : Streams, sequence : 0 .. MaxSequence,
                    to : SUBSET Peers]]
    /\ outbox \in Seq([peer : Peers, envelope : Envelopes,
                       status : OutboxStatus])
    /\ send \in [Streams -> {NoSend} \cup
                   [at : {"open"}, row : Nat, slot : Connections]]
    /\ conn \in [Peers -> [Streams -> [Connections -> {NoThread} \cup
                   [at : {"read", "staged", "refused", "kept", "ack"},
                    envelope : Envelopes, new : BOOLEAN]]]]
    /\ floor \in [Peers -> [Sessions -> [Streams -> 0 .. MaxSequence]]]
    /\ inbox \in [Peers -> Seq([envelope : Envelopes,
                                status : InboxStatus])]
    /\ queued \in [Links -> Seq(Envelopes)]
    /\ subscribed \in [Peers -> BOOLEAN]
    /\ taken \in [Links -> Seq(Envelopes)]
    /\ unheard \in [Links -> SUBSET Nat]
    /\ faults \in 0 .. MaxFaults
    /\ stops \in 0 .. MaxStops

Init ==
    /\ session  = 1
    /\ sequence = [st \in Streams |-> 0]
    /\ task     = [t \in Publishers |-> Idle]
    /\ outbox   = <<>>
    /\ send     = [st \in Streams |-> NoSend]
    /\ conn     = [p \in Peers |-> [st \in Streams |->
                     [k \in Connections |-> NoThread]]]
    /\ floor    = [p \in Peers |-> [n \in Sessions |->
                     [st \in Streams |-> 0]]]
    /\ inbox    = [p \in Peers |-> <<>>]
    /\ queued   = [l \in Links |-> <<>>]
    /\ subscribed = [p \in Peers |-> TRUE]
    /\ taken    = [l \in Links |-> <<>>]
    /\ unheard  = [l \in Links |-> {}]
    /\ faults   = 0
    /\ stops    = 0

-----------------------------------------------------------------------------
(* Publication.                                                            *)

(* Mutant: the publication lock is not taken.                              *)
MayPublishAnyway(t) == task[t].at = "idle"

(* The lock a publisher holds from the numbering to the end of its flush.  *)
MayPublish(t) ==
    PublishLocked => \A u \in Publishers : task[u].at = "idle"

(* A publisher takes the lock and increments the stream's counter ...      *)
Number(t, st, S) ==
    /\ task[t].at = "idle"
    /\ MayPublish(t)
    /\ sequence[st] < MaxSequence
    /\ Len(outbox) < MaxRows
    /\ sequence' = [sequence EXCEPT ![st] = @ + 1]
    /\ task' = [task EXCEPT ![t] = [at |-> "numbered", stream |-> st,
                                    sequence |-> 0, to |-> S]]
    /\ UNCHANGED <<session, outbox, queued, send, conn, receiverVars, boundVars>>

(* ... reads it again for the envelope ...                                 *)
MakeEnvelope(t) ==
    /\ task[t].at = "numbered"
    /\ task' = [task EXCEPT ![t] = [@ EXCEPT !.at = "made",
                                           !.sequence = sequence[task[t].stream]]]
    /\ UNCHANGED <<session, sequence, outbox, queued, send, conn, receiverVars,
                   boundVars>>

(* Mutant: the counter's value before the increment.                       *)
EnvelopeStale(t) == [session |-> session, stream |-> task[t].stream,
                     sequence |-> task[t].sequence - 1]

Envelope(t) == [session |-> session, stream |-> task[t].stream,
                sequence |-> task[t].sequence]

PendingOn(Sts) ==
    Cardinality({i \in DOMAIN outbox : Pending(outbox[i])
                                       /\ outbox[i].envelope.stream \in Sts})

(* Mutant: operational rows may use the safety reserve.                    *)
FitsWithoutReserve(st, n) == PendingOn(Streams) + n <= MaxPending

(* Does a publication of n rows on stream st fit into the outbox?          *)
Fits(st, n) ==
    /\ PendingOn(Streams) + n <= MaxPending
    /\ PendingOn({"operational"}) + (IF st = "operational" THEN n ELSE 0)
          <= MaxPending - SafetyReserve

(* UNIQUE(peer_id, session_id, stream, sequence).                          *)
Clashes(t) ==
    \E i \in DOMAIN outbox : /\ outbox[i].peer \in task[t].to
                             /\ outbox[i].envelope = Envelope(t)

RowsOf(t) ==
    [i \in 1 .. Cardinality(task[t].to) |->
        [peer |-> SetToSeq(task[t].to)[i], envelope |-> Envelope(t),
         status |-> "due"]]

(* ... and stores one row per peer, all of them or none: a full outbox or  *)
(* a number already used raises to the publisher's caller.                 *)
Enqueue(t) ==
    /\ task[t].at = "made"
    /\ IF Fits(task[t].stream, Cardinality(task[t].to)) /\ ~Clashes(t)
       THEN /\ outbox' = outbox \o RowsOf(t)
            /\ queued' = [l \in Links |->
                   IF \E p \in task[t].to : l = LinkOf(p, Envelope(t))
                   THEN Append(queued[l], Envelope(t)) ELSE queued[l]]
            /\ task' = [task EXCEPT ![t].at = "flush"]
       ELSE /\ task' = [task EXCEPT ![t] = Idle]
            /\ UNCHANGED <<outbox, queued>>
    /\ UNCHANGED <<session, sequence, send, conn, receiverVars, boundVars>>

-----------------------------------------------------------------------------
(* Sending: flush, by a publisher or by the retry thread.                  *)

(* The rows ready returns for a stream: per peer its oldest pending row,   *)
(* if its time has come.                                                   *)
Ready(st) ==
    {i \in DOMAIN outbox :
        /\ outbox[i].status = "due"
        /\ outbox[i].envelope.stream = st
        /\ \A j \in 1 .. i - 1 :
              ~ /\ Pending(outbox[j])
                /\ outbox[j].peer = outbox[i].peer
                /\ outbox[j].envelope.stream = st}

(* The client connects and its frame arrives: a connection thread starts.  *)
Connect(st, i, k) ==
    LET p == outbox[i].peer IN
    /\ send[st] = NoSend
    /\ i \in Ready(st)
    /\ subscribed[p]
    /\ conn[p][st][k] = NoThread
    /\ send' = [send EXCEPT ![st] = [at |-> "open", row |-> i, slot |-> k]]
    /\ conn' = [conn EXCEPT ![p][st][k] =
                   [at |-> "read", envelope |-> outbox[i].envelope,
                    new |-> FALSE]]
    /\ UNCHANGED <<senderVars, outbox, queued, receiverVars, boundVars>>

(* Mutant: a failed attempt gives the message up.                          *)
FailedGivesUp(i) == outbox' = [outbox EXCEPT ![i].status = "delivered"]

(* What failed writes: another attempt later.                              *)
Failed(i) == outbox' = [outbox EXCEPT ![i].status = "backoff"]

(* The peer cannot be reached; it may be starting.                         *)
ConnectFails(st, i) ==
    /\ send[st] = NoSend
    /\ i \in Ready(st)
    /\ faults < MaxFaults
    /\ faults' = faults + 1
    /\ Failed(i)
    /\ UNCHANGED <<senderVars, queued, send, conn, receiverVars, stops>>

(* The server thread that serves the attempt of stream st, if it is alive. *)
Serves(p, st, k) ==
    /\ send[st] # NoSend
    /\ send[st].slot = k
    /\ outbox[send[st].row].peer = p
    /\ conn[p][st][k] # NoThread
    /\ conn[p][st][k].envelope = outbox[send[st].row].envelope

(* The client's timeout, or its connection breaks, before the              *)
(* acknowledgement: the server's thread goes on.                           *)
SendTimesOut(st) ==
    /\ send[st] # NoSend
    /\ faults < MaxFaults
    /\ faults' = faults + 1
    /\ Failed(send[st].row)
    /\ send' = [send EXCEPT ![st] = NoSend]
    /\ UNCHANGED <<senderVars, queued, conn, receiverVars, stops>>

(* The server's thread has ended without an acknowledgement.               *)
SendFails(st) ==
    /\ send[st] # NoSend
    /\ \A p \in Peers, k \in Connections : ~Serves(p, st, k)
    /\ Failed(send[st].row)
    /\ send' = [send EXCEPT ![st] = NoSend]
    /\ UNCHANGED <<senderVars, queued, conn, receiverVars, boundVars>>

BackoffElapses(i) ==
    /\ outbox[i].status = "backoff"
    /\ outbox' = [outbox EXCEPT ![i].status = "due"]
    /\ UNCHANGED <<senderVars, queued, send, conn, receiverVars, boundVars>>

(* A publisher's flush finds nothing ready and the publisher returns.      *)
FlushEnds(t) ==
    /\ task[t].at = "flush"
    /\ send[task[t].stream] = NoSend
    /\ Ready(task[t].stream) = {}
    /\ task' = [task EXCEPT ![t] = Idle]
    /\ UNCHANGED <<session, sequence, outbox, queued, send, conn, receiverVars,
                   boundVars>>

-----------------------------------------------------------------------------
(* Receiving: one thread per connection.                                   *)

RowOf(p, m) == {i \in DOMAIN inbox[p] : inbox[p][i].envelope = m}

(* inbox.enqueue(ready=False).                                             *)
Stage(p, st, k) ==
    LET m == conn[p][st][k].envelope
        isNew == RowOf(p, m) = {}
    IN
    /\ conn[p][st][k].at = "read"
    /\ inbox' = [inbox EXCEPT ![p] =
                    IF isNew THEN Append(@, [envelope |-> m,
                                             status |-> "staged"])
                             ELSE @]
    /\ conn' = [conn EXCEPT ![p][st][k] = [@ EXCEPT !.at = "staged", !.new = isNew]]
    /\ UNCHANGED <<senderVars, outbox, queued, send, floor, subscribed,
                   taken, unheard, boundVars>>

(* replay.accept.                                                          *)
AcceptSequence(p, st, k) ==
    LET m == conn[p][st][k].envelope
        accepted == m.sequence > floor[p][m.session][st]
    IN
    /\ conn[p][st][k].at = "staged"
    /\ floor' = [floor EXCEPT ![p][m.session][st] =
                    IF accepted THEN m.sequence ELSE @]
    /\ conn' = [conn EXCEPT ![p][st][k].at =
                   IF accepted THEN "kept" ELSE "refused"]
    /\ UNCHANGED <<senderVars, outbox, queued, send, inbox, subscribed,
                   taken, unheard, boundVars>>

(* The rows discard_staged leaves; a message has one row at most.          *)
WithoutStaged(p, m) ==
    LET rows == {i \in RowOf(p, m) : inbox[p][i].status = "staged"}
    IN  IF rows = {} THEN inbox[p] ELSE RemoveAt(inbox[p], CHOOSE i \in rows : TRUE)

(* Mutant: a replay is refused even if the inbox has the message.          *)
IsDuplicateNever(p, c) == FALSE

(* Is a replayed message one the inbox already has?                        *)
IsDuplicate(p, c) == ~c.new /\ RowOf(p, c.envelope) # {}

(* ReplayError: a message the inbox already had is acknowledged as a       *)
(* duplicate; a row this thread staged is removed and the connection       *)
(* closed.                                                                 *)
HandleReplay(p, st, k) ==
    LET c == conn[p][st][k] IN
    /\ c.at = "refused"
    /\ IF IsDuplicate(p, c)
       THEN /\ conn' = [conn EXCEPT ![p][st][k].at = "kept"]
            /\ UNCHANGED inbox
       ELSE /\ inbox' = [inbox EXCEPT ![p] =
                            IF c.new THEN WithoutStaged(p, c.envelope)
                                     ELSE @]
            /\ conn' = [conn EXCEPT ![p][st][k] = NoThread]
    /\ UNCHANGED <<senderVars, outbox, queued, send, floor, subscribed,
                   taken, unheard, boundVars>>

(* Mutant: a finished row is made available again.                         *)
ActivatedAgain(row, m) ==
    IF row.envelope = m THEN [row EXCEPT !.status = "received"] ELSE row

Activated(row, m) ==
    IF row.envelope = m /\ row.status = "staged"
    THEN [row EXCEPT !.status = "received"] ELSE row

(* inbox.activate.                                                         *)
Activate(p, st, k) ==
    LET m == conn[p][st][k].envelope IN
    /\ conn[p][st][k].at = "kept"
    /\ inbox' = [inbox EXCEPT ![p] =
                    [i \in DOMAIN @ |-> Activated(@[i], m)]]
    /\ conn' = [conn EXCEPT ![p][st][k].at = "ack"]
    /\ UNCHANGED <<senderVars, outbox, queued, send, floor, subscribed,
                   taken, unheard, boundVars>>

(* The acknowledgement reaches a client that still waits for it, which     *)
(* marks its row delivered, or nobody.                                     *)
Acknowledge(p, st, k) ==
    /\ conn[p][st][k].at = "ack"
    /\ conn' = [conn EXCEPT ![p][st][k] = NoThread]
    /\ IF Serves(p, st, k)
       THEN /\ outbox' = [outbox EXCEPT ![send[st].row].status = "delivered"]
            /\ send' = [send EXCEPT ![st] = NoSend]
       ELSE UNCHANGED <<outbox, send>>
    /\ UNCHANGED <<senderVars, queued, receiverVars, boundVars>>

-----------------------------------------------------------------------------
(* The inbox workers.                                                      *)

(* Mutant: workers take the rows of a link in any order, in parallel.      *)
ClaimableOutOfOrder(p) ==
    {i \in DOMAIN inbox[p] : inbox[p][i].status = "received"}

(* Rows no earlier row of the same source session and stream holds back.   *)
Claimable(p) ==
    {i \in DOMAIN inbox[p] :
        /\ inbox[p][i].status = "received"
        /\ \A j \in 1 .. i - 1 :
              LinkOf(p, inbox[p][j].envelope) = LinkOf(p, inbox[p][i].envelope)
                 => inbox[p][j].status \notin {"received", "processing"}}

IsSafety(p, i) == inbox[p][i].envelope.stream = "safety"

(* _claim takes safety rows first, then the oldest, and the worker calls   *)
(* the handlers that are subscribed: before the subscription there are     *)
(* none, and the row is marked processed all the same.                     *)
ClaimRow(p, i) ==
    /\ Cardinality({j \in DOMAIN inbox[p] : inbox[p][j].status = "processing"})
          < InboxWorkers
    /\ i \in Claimable(p)
    /\ \A j \in Claimable(p) :
          \/ IsSafety(p, i) /\ ~IsSafety(p, j)
          \/ IsSafety(p, i) = IsSafety(p, j) /\ i <= j
    /\ inbox' = [inbox EXCEPT ![p][i].status = "processing"]
    /\ taken' = [taken EXCEPT ![LinkOf(p, inbox[p][i].envelope)] =
                      Append(@, inbox[p][i].envelope)]
    /\ unheard' = IF subscribed[p] THEN unheard
                  ELSE [unheard EXCEPT ![LinkOf(p, inbox[p][i].envelope)] =
                           @ \cup {Len(taken[LinkOf(p, inbox[p][i].envelope)]) + 1}]
    /\ UNCHANGED <<senderVars, outbox, queued, send, conn, floor, subscribed,
                   boundVars>>

(* The handler has returned or raised.                                     *)
FinishRow(p, i) ==
    /\ inbox[p][i].status = "processing"
    /\ inbox' = [inbox EXCEPT ![p][i].status = "done"]
    /\ UNCHANGED <<senderVars, outbox, queued, send, conn, floor, subscribed,
                   taken, unheard, boundVars>>

-----------------------------------------------------------------------------
(* Restarts: the databases survive, threads and connections do not.        *)

(* The bound on all restarts; the sender's are one less than its session.  *)
MayRestart == session + stops <= MaxRestarts

SenderRestarts ==
    /\ session < MaxSessions
    /\ MayRestart
    /\ session' = session + 1
    /\ sequence' = [st \in Streams |-> 0]
    /\ task' = [t \in Publishers |-> Idle]
    /\ send' = [st \in Streams |-> NoSend]
    /\ UNCHANGED <<outbox, queued, conn, receiverVars, boundVars>>

(* SqliteInbox.__init__ hands interrupted rows out again and starts its    *)
(* workers.  Nobody has subscribed yet, and the server does not listen.    *)
StatusOnOpen(s) == IF s = "processing" THEN "received" ELSE s

PeerRestarts(p) ==
    /\ stops < MaxStops
    /\ MayRestart
    /\ stops' = stops + 1
    /\ conn' = [conn EXCEPT ![p] = [st \in Streams |->
                   [k \in Connections |-> NoThread]]]
    /\ inbox' = [inbox EXCEPT ![p] = [i \in DOMAIN @ |->
                    [@[i] EXCEPT !.status = StatusOnOpen(inbox[p][i].status)]]]
    /\ subscribed' = [subscribed EXCEPT ![p] = FALSE]
    /\ UNCHANGED <<senderVars, outbox, queued, send, floor, taken, unheard, faults>>

(* The participant or coordinator and its registry have subscribed their   *)
(* handlers; only then the server is started.                              *)
Subscribe(p) ==
    /\ ~subscribed[p]
    /\ subscribed' = [subscribed EXCEPT ![p] = TRUE]
    /\ UNCHANGED <<senderVars, outbox, queued, send, conn, floor, inbox, taken,
                   unheard, boundVars>>

-----------------------------------------------------------------------------
Publish(t) ==
    \/ \E st \in Streams, S \in Disclosures : Number(t, st, S)
    \/ MakeEnvelope(t) \/ Enqueue(t) \/ FlushEnds(t)

Transmit(st) ==
    \/ \E i \in DOMAIN outbox, k \in Connections : Connect(st, i, k)
    \/ \E i \in DOMAIN outbox : ConnectFails(st, i)
    \/ SendTimesOut(st) \/ SendFails(st)

Serve(p, st, k) ==
    \/ Stage(p, st, k) \/ AcceptSequence(p, st, k) \/ HandleReplay(p, st, k)
    \/ Activate(p, st, k) \/ Acknowledge(p, st, k)

Work(p) ==
    \E i \in DOMAIN inbox[p] : ClaimRow(p, i) \/ FinishRow(p, i)

Next ==
    \/ \E t \in Publishers : Publish(t)
    \/ \E st \in Streams : Transmit(st)
    \/ \E i \in DOMAIN outbox : BackoffElapses(i)
    \/ \E p \in Peers, st \in Streams, k \in Connections : Serve(p, st, k)
    \/ \E p \in Peers : Work(p) \/ PeerRestarts(p) \/ Subscribe(p)
    \/ SenderRestarts

Spec == Init /\ [][Next]_vars

(* Threads run, clocks advance and a process that starts gets to its       *)
(* subscription.  The retry thread attempts a due row as long as the       *)
(* process is up, and MaxFaults bounds how often the network refuses;      *)
(* nothing makes anyone publish, lose a connection or restart.             *)
FairSpec ==
    /\ Spec
    /\ \A st \in Streams :
          /\ WF_vars(Transmit(st))
          /\ \A p \in Peers, k \in Connections : WF_vars(Serve(p, st, k))
    /\ WF_vars(\E i \in DOMAIN outbox : BackoffElapses(i))
    /\ \A p \in Peers : WF_vars(Work(p)) /\ WF_vars(Subscribe(p))

-----------------------------------------------------------------------------
(* A row is marked delivered only on an acknowledgement, and an            *)
(* acknowledgement is sent only for a message whose inbox row is durable   *)
(* and available to the workers: no message is dropped on both sides.      *)
AckedIsDurable ==
    \A i \in DOMAIN outbox :
        outbox[i].status = "delivered" =>
            \E j \in RowOf(outbox[i].peer, outbox[i].envelope) :
                inbox[outbox[i].peer][j].status # "staged"

(* Within a session and stream the rows for a peer are queued in the order *)
(* of their sequence numbers; the replay floor would refuse a later number *)
(* that is smaller for good and block the stream behind it.                *)
SequencesIncrease ==
    \A i, j \in DOMAIN outbox :
        /\ i < j
        /\ LinkOf(outbox[i].peer, outbox[i].envelope)
              = LinkOf(outbox[j].peer, outbox[j].envelope)
        => outbox[i].envelope.sequence < outbox[j].envelope.sequence

(* Operational backlog never keeps a safety publication out: while the     *)
(* safety rows leave room in the reserve, enqueue_many takes it.           *)
SafetyReserved ==
    \A S \in Disclosures :
        PendingOn({"safety"}) + Cardinality(S) <= SafetyReserve
            => Fits("safety", Cardinality(S))

(* A worker takes a message a second time only after a restart of the      *)
(* receiver: neither a retried send, nor the acknowledgement of a          *)
(* duplicate, nor a restart of the sender hands it out again.              *)
HandledAgainOnlyAfterRestart ==
    \A l \in Links :
        Len(taken[l]) <= Cardinality(Range(taken[l])) + stops

(* Delivery implements one queue per peer, source session and stream, from *)
(* the outbox rows to the workers that take them, and to the handlers as   *)
(* long as these are subscribed.                                           *)
Channel == INSTANCE FifoChannel WITH
              Messages  <- Envelopes,
              put       <- queued,
              taken     <- taken,
              unheard   <- unheard,
              listening <- {l \in Links : subscribed[l[1]]}

ImplementsFifo == Channel!Spec

(* Did message m of link l reach a handler, or a worker that found none?   *)
Heard(l, m)  == \E k \in DOMAIN taken[l] \ unheard[l] : taken[l][k] = m
Missed(l, m) == \E k \in unheard[l] : taken[l][k] = m

(* A published message reaches the peer's handler whatever happens to the  *)
(* connections and processes in between, on two conditions: a timed-out    *)
(* attempt is over at the peer before the retry begins (MaxConnections is  *)
(* 1, and DeliveryTimeout.cfg shows the loss without it); and no restarted *)
(* process of the peer takes the row before it has subscribed (Missed).    *)
PublishedIsHandled ==
    \A i \in 1 .. MaxRows :
        Len(outbox) >= i ~>
            \E l \in Links : /\ Len(outbox) >= i
                             /\ l = LinkOf(outbox[i].peer, outbox[i].envelope)
                             /\ \/ Heard(l, outbox[i].envelope)
                                \/ stops > 0 /\ Missed(l, outbox[i].envelope)

-----------------------------------------------------------------------------
(* What the documents say, and the code does not do.                       *)

(* docs/NETWORK_PROFILE.md: staging, floor and activation close the crash  *)
(* windows on both sides, so what was received reaches the application.    *)
(* SqliteInbox.__init__ starts its workers before anyone has subscribed.   *)
TakenIsHeard == \A l \in Links : \A m \in Range(taken[l]) : Heard(l, m)
=============================================================================
