--------------------------- MODULE DeliveryProofs ---------------------------
(***************************************************************************)
(* Theorems about Delivery for any peers, publishers, capacities, numbers  *)
(* of faults and of restarts.  Types and the safety reserve hold whatever  *)
(* the constants.  The order of the rows needs the publication lock of     *)
(* Participant._send, which Coordinator._publish does not take; that what  *)
(* is acknowledged is durable needs that no two connection threads of a    *)
(* peer and stream overlap; the queue needs both.  The runs                *)
(* delivery_race and delivery_timeout show what happens without them.      *)
(***************************************************************************)
EXTENDS Delivery, FiniteSetTheorems, TLAPS

OutboxRows == [peer : Peers, envelope : Envelopes, status : OutboxStatus]
InboxRows  == [envelope : Envelopes, status : InboxStatus]
Serving    == [at : {"read", "staged", "refused", "kept", "ack"},
               envelope : Envelopes, new : BOOLEAN]

(* Types, with what the numbering needs: a number for every envelope, a    *)
(* due row of its stream for every attempt; and a connection thread serves *)
(* messages of its stream.                                                 *)
ConnTypes == [Peers -> [Streams -> [Connections -> {NoThread} \cup Serving]]]
TaskTypes == [Publishers -> [at : {"idle", "numbered", "made", "flush"},
                             stream : Streams, sequence : 0 .. MaxSequence,
                             to : SUBSET Peers]]
SendTypes == [Streams -> {NoSend} \cup [at : {"open"}, row : Nat, slot : Connections]]

SendInv ==
    \A st \in Streams : send[st] # NoSend =>
       /\ send[st].row \in DOMAIN outbox
       /\ outbox[send[st].row].status = "due"
       /\ outbox[send[st].row].envelope.stream = st
StreamInv ==
    \A p \in Peers, st \in Streams, k \in Connections :
       conn[p][st][k] # NoThread => conn[p][st][k].envelope.stream = st
TaskInv ==
    \A t \in Publishers :
       /\ task[t].at = "numbered" => sequence[task[t].stream] # 0
       /\ task[t].at = "made" => task[t].sequence # 0
HearTypes ==
    subscribed \in [Peers -> BOOLEAN] /\ unheard \in [Links -> SUBSET Nat]
TypeInv ==
    /\ session \in Sessions
    /\ sequence \in [Streams -> 0 .. MaxSequence] /\ task \in TaskTypes /\ TaskInv
    /\ outbox \in Seq(OutboxRows) /\ send \in SendTypes /\ SendInv
    /\ conn \in ConnTypes /\ StreamInv
    /\ floor \in [Peers -> [Sessions -> [Streams -> 0 .. MaxSequence]]]
    /\ inbox \in [Peers -> Seq(InboxRows)]
    /\ queued \in [Links -> Seq(Envelopes)] /\ taken \in [Links -> Seq(Envelopes)]
    /\ HearTypes
    /\ faults \in 0 .. MaxFaults /\ stops \in 0 .. MaxStops

(* Operational rows leave the safety reserve free.                         *)
ReserveInv == PendingOn({"operational"}) <= MaxPending - SafetyReserve

(* Numbering under the publication lock: one publisher is at work, the     *)
(* counter is the highest number of its session and stream, and until its  *)
(* publisher has stored its rows it is higher than all of them.            *)
LatestOf(i, st) == /\ outbox[i].envelope.session = session
                   /\ outbox[i].envelope.stream = st
OneAtWork ==
    \A t, u \in Publishers : task[t].at # "idle" /\ task[u].at # "idle" => t = u
CounterIsLatest ==
    \A i \in DOMAIN outbox :
       /\ outbox[i].envelope.session <= session
       /\ \A st \in Streams : LatestOf(i, st) =>
             outbox[i].envelope.sequence <= sequence[st]
NumberIsNew ==
    \A t \in Publishers : task[t].at \in {"numbered", "made"} =>
       \A i \in DOMAIN outbox : LatestOf(i, task[t].stream) =>
          outbox[i].envelope.sequence < sequence[task[t].stream]
EnvelopeIsNumber ==
    \A t \in Publishers : task[t].at = "made" =>
       task[t].sequence = sequence[task[t].stream]
NumberInv == OneAtWork /\ CounterIsLatest /\ NumberIsNew /\ EnvelopeIsNumber
OrderInv == NumberInv /\ SequencesIncrease

(* Durability with one thread per peer and stream: the row a thread staged *)
(* or found is there until it acknowledges or discards it, and available   *)
(* before it acknowledges.                                                 *)
Available(p, m) == \E j \in RowOf(p, m) : inbox[p][j].status # "staged"
ThreadInv ==
    \A p \in Peers, st \in Streams, k \in Connections :
       /\ conn[p][st][k].at \in {"staged", "refused", "kept"} =>
             RowOf(p, conn[p][st][k].envelope) # {}
       /\ conn[p][st][k].at = "ack" => Available(p, conn[p][st][k].envelope)
DurableInv == ThreadInv /\ AckedIsDurable

(* The order of delivery.  What a peer has or is being sent was stored in  *)
(* the outbox and everything before it on its link is delivered.           *)
Follows(p, m) ==
    /\ \E i \in DOMAIN outbox : outbox[i].peer = p /\ outbox[i].envelope = m
    /\ \A j \in DOMAIN outbox :
          /\ LinkOf(outbox[j].peer, outbox[j].envelope) = LinkOf(p, m)
          /\ outbox[j].envelope.sequence < m.sequence
          => outbox[j].status = "delivered"
ArrivalInv ==
    /\ \A p \in Peers, st \in Streams, k \in Connections :
          conn[p][st][k] # NoThread => Follows(p, conn[p][st][k].envelope)
    /\ \A p \in Peers : \A i \in DOMAIN inbox[p] : Follows(p, inbox[p][i].envelope)

(* Rows i and j of an inbox are on the same link.                          *)
SameLink(p, i, j) ==
    LinkOf(p, inbox[p][i].envelope) = LinkOf(p, inbox[p][j].envelope)
InboxInv ==
    \A p \in Peers : \A i, j \in DOMAIN inbox[p] :
       i < j /\ SameLink(p, i, j) =>
          inbox[p][i].envelope.sequence < inbox[p][j].envelope.sequence

(* What the workers took: rows that are processed or under way, or         *)
(* came back with a restart, nothing before the rows ahead of it were      *)
(* processed, and the highest number last.                                 *)
Given(l, m) == \E i \in DOMAIN taken[l] : taken[l][i] = m
UnderWayIsGiven ==
    \A p \in Peers : \A i \in DOMAIN inbox[p] :
       inbox[p][i].status \in {"processing", "done"} =>
          Given(LinkOf(p, inbox[p][i].envelope), inbox[p][i].envelope)
GivenIsAvailable ==
    \A l \in Links : \A i \in DOMAIN taken[l] :
       /\ LinkOf(l[1], taken[l][i]) = l
       /\ Available(l[1], taken[l][i])
       /\ taken[l][i].sequence <= taken[l][Len(taken[l])].sequence
DoneBeforeNext ==
    \A p \in Peers : \A i, j \in DOMAIN inbox[p] :
       /\ i < j /\ SameLink(p, i, j)
       /\ Given(LinkOf(p, inbox[p][j].envelope), inbox[p][j].envelope)
       => inbox[p][i].status = "done"
HandledInv == UnderWayIsGiven /\ GivenIsAvailable /\ DoneBeforeNext

(* The history of publications is the outbox, link by link.                *)
QueueInv ==
    /\ \A l \in Links : \A i \in DOMAIN queued[l] :
          /\ LinkOf(l[1], queued[l][i]) = l
          /\ \E j \in DOMAIN outbox :
                outbox[j].peer = l[1] /\ outbox[j].envelope = queued[l][i]
    /\ \A i \in DOMAIN outbox :
          LET l == LinkOf(outbox[i].peer, outbox[i].envelope)
          IN  \E j \in DOMAIN queued[l] : queued[l][j] = outbox[i].envelope
    /\ \A l \in Links : \A i, j \in DOMAIN queued[l] :
          i < j => queued[l][i].sequence < queued[l][j].sequence

(* A row that was taken waits to be taken again.                           *)
Returned(l) ==
    \E i \in DOMAIN inbox[l[1]] :
       /\ inbox[l[1]][i].status = "received"
       /\ LinkOf(l[1], inbox[l[1]][i].envelope) = l
       /\ Given(l, inbox[l[1]][i].envelope)

(* Every repetition was preceded by a restart of a receiver of its own,    *)
(* and so is the one a returned row is about to make.                      *)
RepeatInv ==
    \A l \in Links :
       /\ Len(taken[l]) <= Cardinality(Range(taken[l])) + stops
       /\ Returned(l) => Len(taken[l]) + 1 <= Cardinality(Range(taken[l])) + stops

FifoInv ==
    /\ TypeInv /\ OrderInv /\ DurableInv /\ ArrivalInv /\ InboxInv /\ HandledInv
    /\ QueueInv

-----------------------------------------------------------------------------
(* Operators the model is built from.                                      *)

(* A finite set is enumerated without repetition.                          *)
LEMMA Enumerated ==
    ASSUME NEW S, IsFiniteSet(S)
    PROVE  /\ Cardinality(S) \in Nat
           /\ SetToSeq(S) \in [1..Cardinality(S) -> S]
           /\ \A i, j \in 1..Cardinality(S) : SetToSeq(S)[i] = SetToSeq(S)[j] => i = j
           /\ \A x \in S : \E i \in 1..Cardinality(S) : SetToSeq(S)[i] = x
<1>1. Cardinality(S) \in Nat /\ ExistsBijection(1..Cardinality(S), S)
  BY FS_CardinalityType
<1>2. PICK f \in Bijection(1..Cardinality(S), S) : TRUE
  BY <1>1 DEF ExistsBijection
<1>3. f \in [1..Cardinality(S) -> S] /\ IsInjective(f)
  BY <1>2 DEF Bijection, Injection, IsInjective
<1>4. SetToSeq(S) \in [1..Cardinality(S) -> S] /\ IsInjective(SetToSeq(S))
  BY <1>3 DEF SetToSeq
<1>5. \A i, j \in 1..Cardinality(S) : SetToSeq(S)[i] = SetToSeq(S)[j] => i = j
  BY <1>4 DEF IsInjective
<1> DEFINE g == SetToSeq(S)
<1>6. g \in Injection(1..Cardinality(S), S)
  BY <1>4, <1>5 DEF Injection, IsInjective
<1>7. Cardinality(1..Cardinality(S)) = Cardinality(S)
  BY <1>1, FS_Interval
<1>8. g \in Surjection(1..Cardinality(S), S)
  BY <1>6, <1>7, FS_Injection
<1>9. \A x \in S : \E i \in 1..Cardinality(S) : g[i] = x
  BY <1>8 DEF Surjection
<1> QED
  BY <1>1, <1>4, <1>5, <1>9

(* The types TLC checks are part of it.                                    *)
LEMMA TypeParts == TypeInv => TypeOK
BY DEF TypeInv, HearTypes, TypeOK, TaskTypes, OutboxRows, SendTypes, ConnTypes, Serving, InboxRows

(* All connection threads but one stay as they are.                        *)
OthersStay(p, st, k) ==
    /\ conn' \in ConnTypes
    /\ \A q \in Peers, r \in Streams, j \in Connections :
          q # p \/ r # st \/ j # k => conn'[q][r][j] = conn[q][r][j]

(* One thread goes on with its message, or ends.                           *)
Turns(p, st, k, a) ==
    /\ OthersStay(p, st, k)
    /\ conn[p][st][k] \in Serving /\ conn'[p][st][k] \in Serving
    /\ conn'[p][st][k].at = a
    /\ conn'[p][st][k].envelope = conn[p][st][k].envelope
Ends(p, st, k) == OthersStay(p, st, k) /\ conn'[p][st][k] = NoThread

(* A thread that is somewhere serves a message.                            *)
LEMMA IsServing ==
    ASSUME TypeOK, NEW p \in Peers, NEW st \in Streams, NEW k \in Connections
    PROVE  /\ conn \in ConnTypes
           /\ conn[p][st][k] \in {NoThread} \cup Serving
           /\ conn[p][st][k].at # "none" => conn[p][st][k] \in Serving
           /\ conn[p][st][k] = NoThread <=> conn[p][st][k].at = "none"
<1>1. conn \in ConnTypes
  BY DEF TypeOK, ConnTypes, Serving
<1>2. conn[p][st][k] \in {NoThread} \cup Serving
  BY <1>1 DEF ConnTypes
<1>3. NoThread.at = "none" /\ \A c \in Serving : c.at # "none"
  BY DEF NoThread, Serving
<1> QED
  BY <1>1, <1>2, <1>3

(* One thread is replaced.                                                 *)
Becomes(p, st, k, c) == conn' = [conn EXCEPT ![p][st][k] = c]
LEMMA ConnSet ==
    ASSUME TypeOK, NEW p \in Peers, NEW st \in Streams, NEW k \in Connections,
           NEW c \in {NoThread} \cup Serving, Becomes(p, st, k, c)
    PROVE  OthersStay(p, st, k) /\ conn'[p][st][k] = c
<1>1. conn \in ConnTypes
  BY IsServing
<1>2. conn' \in ConnTypes
  BY <1>1 DEF ConnTypes, Becomes
<1>3. conn'[p][st][k] = c
  BY <1>1 DEF ConnTypes, Becomes
<1>4. \A q \in Peers, r \in Streams, j \in Connections :
         q # p \/ r # st \/ j # k => conn'[q][r][j] = conn[q][r][j]
  BY <1>1 DEF ConnTypes, Becomes
<1> QED
  BY <1>2, <1>3, <1>4 DEF OthersStay

(* A thread goes on.                                                       *)
LEMMA ConnAt ==
    ASSUME TypeOK, NEW p \in Peers, NEW st \in Streams, NEW k \in Connections,
           NEW a \in {"read", "staged", "refused", "kept", "ack"},
           conn[p][st][k].at # "none", conn' = [conn EXCEPT ![p][st][k].at = a]
    PROVE  Turns(p, st, k, a)
<1> DEFINE c == [conn[p][st][k] EXCEPT !.at = a]
<1>1. conn[p][st][k] \in Serving
  BY IsServing
<1>2. c \in Serving /\ c.at = a /\ c.envelope = conn[p][st][k].envelope
  BY <1>1 DEF Serving
<1>3. conn' = [conn EXCEPT ![p][st][k] = c]
  OBVIOUS
<1>4. PICK d \in Serving : d = c
  BY <1>2
<1>5. Becomes(p, st, k, d)
  BY <1>3, <1>4 DEF Becomes
<1> HIDE DEF c
<1>6. OthersStay(p, st, k) /\ conn'[p][st][k] = d
  BY <1>5, ConnSet
<1> QED
  BY <1>1, <1>2, <1>4, <1>6 DEF Turns

(* Stage also notes whether the row is new.                                *)
LEMMA ConnStaged ==
    ASSUME TypeOK, NEW p \in Peers, NEW st \in Streams, NEW k \in Connections,
           NEW b \in BOOLEAN, conn[p][st][k].at # "none",
           conn' = [conn EXCEPT ![p][st][k] = [@ EXCEPT !.at = "staged", !.new = b]]
    PROVE  Turns(p, st, k, "staged")
<1> DEFINE c == [conn[p][st][k] EXCEPT !.at = "staged", !.new = b]
<1>1. conn[p][st][k] \in Serving
  BY IsServing
<1>2. c \in Serving /\ c.at = "staged" /\ c.envelope = conn[p][st][k].envelope
  BY <1>1 DEF Serving
<1>3. conn' = [conn EXCEPT ![p][st][k] = c]
  OBVIOUS
<1>4. PICK d \in Serving : d = c
  BY <1>2
<1>5. Becomes(p, st, k, d)
  BY <1>3, <1>4 DEF Becomes
<1> HIDE DEF c
<1>6. OthersStay(p, st, k) /\ conn'[p][st][k] = d
  BY <1>5, ConnSet
<1> QED
  BY <1>1, <1>2, <1>4, <1>6 DEF Turns

(* Rows keep their place, peer and envelope, and a delivered one stays so. *)
Kept ==
    /\ outbox' \in Seq(OutboxRows)
    /\ \A i \in DOMAIN outbox :
          /\ i \in DOMAIN outbox'
          /\ outbox'[i].peer = outbox[i].peer
          /\ outbox'[i].envelope = outbox[i].envelope
          /\ outbox[i].status = "delivered" => outbox'[i].status = "delivered"

(* ... and no row is added.                                                *)
SameRows == Kept /\ DOMAIN outbox' = DOMAIN outbox

(* ... and a due row stays due.                                            *)
DueStays == \A i \in DOMAIN outbox : outbox[i].status = "due" => outbox'[i].status = "due"

(* One row changes its status.                                             *)
LEMMA StatusSet ==
    ASSUME TypeOK, NEW i \in DOMAIN outbox, NEW x \in OutboxStatus,
           outbox[i].status # "delivered" \/ x = "delivered",
           outbox' = [outbox EXCEPT ![i].status = x]
    PROVE  /\ SameRows
           /\ \A j \in DOMAIN outbox :
                 outbox'[j].status = IF j = i THEN x ELSE outbox[j].status
<1>1. outbox \in Seq(OutboxRows)
  BY DEF TypeOK, OutboxRows
<1> DEFINE r == [outbox[i] EXCEPT !.status = x]
<1>i. outbox[i] \in OutboxRows
  BY <1>1
<1>r. r \in OutboxRows
  BY <1>i DEF OutboxRows
<1>e. outbox' = [outbox EXCEPT ![i] = r]
  OBVIOUS
<1> HIDE DEF r
<1>2. DOMAIN outbox' = DOMAIN outbox /\ outbox' \in Seq(OutboxRows)
  BY <1>1, <1>r, <1>e
<1>3. \A j \in DOMAIN outbox :
         /\ outbox'[j].peer = outbox[j].peer /\ outbox'[j].envelope = outbox[j].envelope
         /\ outbox'[j].status = IF j = i THEN x ELSE outbox[j].status
  <2>1. outbox[i] \in OutboxRows /\ outbox'[i] = [outbox[i] EXCEPT !.status = x]
    BY <1>1, <1>e DEF r
  <2>2. /\ outbox'[i].peer = outbox[i].peer /\ outbox'[i].envelope = outbox[i].envelope
        /\ outbox'[i].status = x
    BY <2>1 DEF OutboxRows
  <2>3. \A j \in DOMAIN outbox : j # i => outbox'[j] = outbox[j]
    BY <1>1, <1>e
  <2> QED BY <2>2, <2>3
<1> QED
  BY <1>2, <1>3 DEF SameRows, Kept

(* An unchanged outbox.                                                    *)
LEMMA OutboxSame ==
    ASSUME TypeOK, outbox' = outbox
    PROVE  SameRows /\ Kept /\ DueStays
BY DEF TypeOK, SameRows, Kept, DueStays, OutboxRows

(* The envelope of a publication that has its number.                      *)
LEMMA EnvelopeType ==
    ASSUME TypeInv, NEW t \in Publishers, task[t].at = "made"
    PROVE  /\ Envelope(t) \in Envelopes /\ Envelope(t).session = session
           /\ Envelope(t).stream = task[t].stream
           /\ Envelope(t).sequence = task[t].sequence
           /\ task[t].to \in SUBSET Peers /\ IsFiniteSet(task[t].to)
<1>1. /\ task[t].stream \in Streams /\ task[t].sequence \in 0..MaxSequence
      /\ task[t].to \in SUBSET Peers /\ session \in Sessions
  BY DEF TypeInv, TaskTypes
<1>2. task[t].sequence \in 1..MaxSequence
  BY <1>1 DEF TypeInv, TaskInv
<1>3. IsFiniteSet(task[t].to)
  BY <1>1, FS_Subset, DeliveryAssumption
<1> QED
  BY <1>1, <1>2, <1>3 DEF Envelope, Envelopes

(* What a publication adds to the outbox: one due row per peer.            *)
LEMMA Published ==
    ASSUME TypeInv, NEW t \in Publishers, task[t].at = "made",
           outbox' = outbox \o RowsOf(t)
    PROVE  LET n == Cardinality(task[t].to) IN
           /\ n \in Nat /\ Kept /\ DueStays
           /\ DOMAIN outbox' = 1..Len(outbox) + n
           /\ \A i \in DOMAIN outbox : outbox'[i] = outbox[i]
           /\ \A i \in DOMAIN outbox' \ DOMAIN outbox :
                 /\ i > Len(outbox)
                 /\ outbox'[i].peer \in task[t].to
                 /\ outbox'[i].envelope = Envelope(t) /\ outbox'[i].status = "due"
           /\ \A i, j \in DOMAIN outbox' \ DOMAIN outbox :
                 outbox'[i].peer = outbox'[j].peer => i = j
           /\ \A q \in task[t].to : \E i \in DOMAIN outbox' \ DOMAIN outbox :
                 outbox'[i].peer = q
<1> DEFINE S == task[t].to
           n == Cardinality(S)
           f == SetToSeq(S)
           m == Envelope(t)
           rows == RowsOf(t)
           old  == Len(outbox)
<1>1. m \in Envelopes /\ S \in SUBSET Peers /\ IsFiniteSet(S)
  BY EnvelopeType
<1>2. /\ n \in Nat /\ f \in [1..n -> S]
      /\ \A i, j \in 1..n : f[i] = f[j] => i = j
      /\ \A x \in S : \E i \in 1..n : f[i] = x
  BY <1>1, Enumerated
<1>3. rows = [i \in 1..n |-> [peer |-> f[i], envelope |-> m, status |-> "due"]]
  BY DEF RowsOf
<1> HIDE DEF f, m, n, S, rows
<1>4. \A i \in 1..n : /\ rows[i] \in OutboxRows /\ rows[i].peer = f[i]
                       /\ rows[i].envelope = m /\ rows[i].status = "due"
  BY <1>1, <1>2, <1>3 DEF OutboxRows, OutboxStatus
<1>5. rows \in Seq(OutboxRows) /\ Len(rows) = n
  BY <1>2, <1>3, <1>4
<1>6. outbox \in Seq(OutboxRows) /\ old \in Nat /\ DOMAIN outbox = 1..old
  BY DEF TypeInv
<1>7. outbox' = outbox \o rows
  BY DEF rows
<1> HIDE DEF old
<1>8. /\ outbox' \in Seq(OutboxRows) /\ DOMAIN outbox' = 1..old + n
      /\ \A i \in 1..old : outbox'[i] = outbox[i]
      /\ \A i \in 1..old + n : i > old => outbox'[i] = rows[i - old]
  <2>0. outbox \o rows \in Seq(OutboxRows) /\ Len(outbox \o rows) = Len(outbox) + Len(rows)
    BY <1>5, <1>6
  <2>1. outbox' \in Seq(OutboxRows) /\ Len(outbox') = old + n /\ DOMAIN outbox' = 1..old + n
    BY <1>5, <1>7, <2>0 DEF old
  <2>2. \A i \in 1..old : outbox'[i] = outbox[i]
    BY <1>2, <1>5, <1>6, <1>7 DEF old
  <2>3. \A i \in 1..old + n : i > old => outbox'[i] = rows[i - old]
    BY <1>2, <1>5, <1>6, <1>7 DEF old
  <2> QED BY <2>1, <2>2, <2>3
<1>9. Kept /\ DueStays
  BY <1>2, <1>6, <1>8 DEF Kept, DueStays
<1>10. \A i \in DOMAIN outbox' \ DOMAIN outbox : i > old /\ i \in Nat /\ i - old \in 1..n
  BY <1>2, <1>6, <1>8
<1>11. \A i \in DOMAIN outbox' \ DOMAIN outbox :
          /\ outbox'[i].peer = f[i - old] /\ outbox'[i].peer \in S
          /\ outbox'[i].envelope = m /\ outbox'[i].status = "due"
  <2> SUFFICES ASSUME NEW i \in DOMAIN outbox' \ DOMAIN outbox
               PROVE  /\ outbox'[i].peer = f[i - old] /\ outbox'[i].peer \in S
                      /\ outbox'[i].envelope = m /\ outbox'[i].status = "due"
    OBVIOUS
  <2>1. i > old /\ i \in 1..old + n /\ i - old \in 1..n
    BY <1>8, <1>10
  <2>2. outbox'[i] = rows[i - old]
    BY <1>8, <2>1
  <2> QED BY <1>2, <1>4, <2>1, <2>2
<1>12. \A i, j \in DOMAIN outbox' \ DOMAIN outbox :
          outbox'[i].peer = outbox'[j].peer => i = j
  BY <1>2, <1>6, <1>10, <1>11
<1>13. \A q \in S : \E i \in DOMAIN outbox' \ DOMAIN outbox : outbox'[i].peer = q
  <2> SUFFICES ASSUME NEW q \in S
               PROVE  \E i \in DOMAIN outbox' \ DOMAIN outbox : outbox'[i].peer = q
    OBVIOUS
  <2>1. PICK i \in 1..n : f[i] = q
    BY <1>2
  <2>2. old + i \in DOMAIN outbox' \ DOMAIN outbox /\ (old + i) - old = i
    BY <1>2, <1>6, <1>8
  <2> QED BY <1>11, <2>1, <2>2
<1> QED
  BY <1>2, <1>6, <1>8, <1>9, <1>10, <1>11, <1>12, <1>13 DEF n, S, m, old

-----------------------------------------------------------------------------
(* Types.                                                                  *)

(* Threads and attempts that stay.                                         *)
LEMMA SendStays ==
    ASSUME TypeInv, Kept, DueStays, send' = send
    PROVE  send' \in SendTypes /\ SendInv'
<1>1. send' \in SendTypes
  BY DEF TypeInv
<1>2. ASSUME NEW st \in Streams, send[st] # NoSend
      PROVE  /\ send[st].row \in DOMAIN outbox' /\ outbox'[send[st].row].status = "due"
             /\ outbox'[send[st].row].envelope.stream = st
  <2>1. PICK i \in DOMAIN outbox : /\ i = send[st].row /\ outbox[i].status = "due"
                                   /\ outbox[i].envelope.stream = st
    BY <1>2 DEF TypeInv, SendInv
  <2>2. i \in DOMAIN outbox' /\ outbox'[i].status = "due" /\ outbox'[i].envelope.stream = st
    BY <2>1 DEF Kept, DueStays
  <2> QED BY <2>1, <2>2
<1> QED BY <1>1, <1>2 DEF SendInv

(* An attempt that ends, with the status of its stream's rows.             *)
LEMMA SendEnds ==
    ASSUME TypeInv, SameRows, NEW st \in Streams,
           send' \in SendTypes, send'[st] = NoSend,
           \A r \in Streams : r # st => send'[r] = send[r],
           \A j \in DOMAIN outbox :
              outbox[j].envelope.stream # st => outbox'[j].status = outbox[j].status
    PROVE  SendInv'
<1> SUFFICES ASSUME NEW r \in Streams, send'[r] # NoSend
             PROVE  /\ send'[r].row \in DOMAIN outbox'
                    /\ outbox'[send'[r].row].status = "due"
                    /\ outbox'[send'[r].row].envelope.stream = r
  BY DEF SendInv
<1>1. r # st /\ send'[r] = send[r]
  OBVIOUS
<1>2. /\ send[r].row \in DOMAIN outbox /\ outbox[send[r].row].status = "due"
      /\ outbox[send[r].row].envelope.stream = r
  BY <1>1 DEF TypeInv, SendInv
<1> QED BY <1>1, <1>2 DEF SameRows, Kept

LEMMA ConnStays ==
    ASSUME TypeInv, conn' = conn
    PROVE  conn' \in ConnTypes /\ StreamInv'
BY DEF TypeInv, StreamInv

LEMMA TaskStays ==
    ASSUME TypeInv, UNCHANGED <<task, sequence>>
    PROVE  /\ task' \in TaskTypes /\ TaskInv'
           /\ sequence' \in [Streams -> 0 .. MaxSequence]
BY DEF TypeInv, TaskInv

(* Threads that go on keep their stream's messages, and new ones start     *)
(* with one.                                                               *)
LEMMA TurnsStream ==
    ASSUME TypeInv, NEW p \in Peers, NEW st \in Streams, NEW k \in Connections,
           OthersStay(p, st, k),
           conn'[p][st][k] # NoThread => conn'[p][st][k].envelope.stream = st
    PROVE  conn' \in ConnTypes /\ StreamInv'
<1>1. ASSUME NEW q \in Peers, NEW r \in Streams, NEW j \in Connections,
             conn'[q][r][j] # NoThread
      PROVE  conn'[q][r][j].envelope.stream = r
  <2>1. CASE q = p /\ r = st /\ j = k
    BY <1>1, <2>1
  <2>2. CASE q # p \/ r # st \/ j # k
    <3>1. conn'[q][r][j] = conn[q][r][j]
      BY <2>2 DEF OthersStay
    <3> QED BY <1>1, <3>1 DEF TypeInv, StreamInv
  <2> QED BY <2>1, <2>2
<1> QED BY <1>1 DEF OthersStay, StreamInv

(* A publisher's step.                                                     *)
TaskBecomes(t, a, st, n, S) ==
    task' = [task EXCEPT ![t] = [at |-> a, stream |-> st, sequence |-> n, to |-> S]]
LEMMA TaskSet ==
    ASSUME TypeInv, NEW t \in Publishers,
           NEW a \in {"idle", "numbered", "made", "flush"}, NEW st \in Streams,
           NEW n \in 0..MaxSequence, NEW S \in SUBSET Peers,
           sequence' \in [Streams -> 0 .. MaxSequence],
           \A r \in Streams : sequence[r] # 0 => sequence'[r] # 0,
           TaskBecomes(t, a, st, n, S),
           a = "numbered" => sequence'[st] # 0, a = "made" => n # 0
    PROVE  task' \in TaskTypes /\ TaskInv'
<1> DEFINE e == [at |-> a, stream |-> st, sequence |-> n, to |-> S]
<1>1. e \in [at : {"idle", "numbered", "made", "flush"}, stream : Streams,
              sequence : 0 .. MaxSequence, to : SUBSET Peers]
  OBVIOUS
<1>2. e.at = a /\ e.stream = st /\ e.sequence = n
  OBVIOUS
<1>3. task \in TaskTypes /\ TaskInv /\ task' = [task EXCEPT ![t] = e]
  BY DEF TypeInv, TaskBecomes
<1> HIDE DEF e
<1>4. task' \in TaskTypes
  BY <1>1, <1>3 DEF TaskTypes
<1>5. \A u \in Publishers : task'[u] = IF u = t THEN e ELSE task[u]
  BY <1>3 DEF TaskTypes
<1>6. \A u \in Publishers : task[u].stream \in Streams
  BY <1>3 DEF TaskTypes
<1>7. TaskInv'
  BY <1>2, <1>3, <1>5, <1>6 DEF TaskInv
<1> QED BY <1>4, <1>7

(* What a publisher is.                                                    *)
LEMMA TaskIs ==
    ASSUME TypeInv, NEW t \in Publishers
    PROVE  /\ task[t].stream \in Streams /\ task[t].sequence \in 0..MaxSequence
           /\ task[t].to \in SUBSET Peers
           /\ task[t].at \in {"idle", "numbered", "made", "flush"}
BY DEF TypeInv, TaskTypes

(* A publisher that goes on with its publication.                          *)
LEMMA TaskAt ==
    ASSUME TypeInv, NEW t \in Publishers, NEW n
    PROVE  /\ [task[t] EXCEPT !.at = "made", !.sequence = n]
                 = [at |-> "made", stream |-> task[t].stream, sequence |-> n,
                    to |-> task[t].to]
           /\ [task[t] EXCEPT !.at = "flush"]
                 = [at |-> "flush", stream |-> task[t].stream,
                    sequence |-> task[t].sequence, to |-> task[t].to]
<1>1. PICK c : c = task[t]
  OBVIOUS
<1>2. c \in [at : {"idle", "numbered", "made", "flush"}, stream : Streams,
             sequence : 0 .. MaxSequence, to : SUBSET Peers]
  BY <1>1 DEF TypeInv, TaskTypes
<1>3. [c EXCEPT !.at = "made", !.sequence = n]
        = [at |-> "made", stream |-> c.stream, sequence |-> n, to |-> c.to]
  <2>1. c = [at |-> c.at, stream |-> c.stream, sequence |-> c.sequence, to |-> c.to]
    BY <1>2
  <2>2. DOMAIN c = {"at", "stream", "sequence", "to"}
    BY <1>2
  <2>3. [c EXCEPT !.at = "made", !.sequence = n]
          = [x \in DOMAIN c |-> IF x = "sequence" THEN n
                                ELSE IF x = "at" THEN "made" ELSE c[x]]
    OBVIOUS
  <2> QED BY <2>1, <2>2, <2>3
<1>4. [c EXCEPT !.at = "flush"]
        = [at |-> "flush", stream |-> c.stream, sequence |-> c.sequence, to |-> c.to]
  BY <1>2
<1> QED BY <1>1, <1>3, <1>4

(* Publishers keep the types.                                              *)
LEMMA PublishTypes ==
    ASSUME TypeInv, NEW t \in Publishers, Publish(t)
    PROVE  TypeInv'
<1> DEFINE S == task[t].to
           m == Envelope(t)
<1>1. /\ task[t].stream \in Streams /\ task[t].sequence \in 0..MaxSequence /\ S \in SUBSET Peers
      /\ sequence \in [Streams -> 0..MaxSequence] /\ MaxSequence \in Nat
  BY TaskIs, DeliveryAssumption DEF TypeInv
<1>2. TypeOK
  BY TypeParts
<1>i. Idle = [at |-> "idle", stream |-> "operational", sequence |-> 0, to |-> {}]
      /\ "operational" \in Streams /\ 0 \in 0..MaxSequence
  BY <1>1 DEF Idle, Streams
<1>3. ASSUME NEW st \in Streams, NEW D \in Disclosures, Number(t, st, D)
      PROVE  TypeInv'
  <2>1. /\ sequence[st] < MaxSequence /\ sequence' = [sequence EXCEPT ![st] = @ + 1]
        /\ TaskBecomes(t, "numbered", st, 0, D)
        /\ UNCHANGED <<session, outbox, queued, send, conn, receiverVars, boundVars>>
    BY <1>3 DEF Number, TaskBecomes
  <2>2. /\ sequence' \in [Streams -> 0..MaxSequence] /\ sequence'[st] # 0
        /\ \A r \in Streams : sequence[r] # 0 => sequence'[r] # 0
    BY <1>1, <2>1
  <2>3. D \in SUBSET Peers
    BY DeliveryAssumption
  <2>4. task' \in TaskTypes /\ TaskInv'
    BY <1>i, <2>1, <2>2, <2>3, TaskSet
  <2>5. send' \in SendTypes /\ SendInv' /\ conn' \in ConnTypes /\ StreamInv'
    BY <1>2, <2>1, OutboxSame, SendStays, ConnStays DEF SameRows
  <2> QED BY <2>1, <2>2, <2>4, <2>5 DEF TypeInv, HearTypes, receiverVars, boundVars
<1>4. CASE MakeEnvelope(t)
  <2> DEFINE n == sequence[task[t].stream]
  <2>1. /\ task[t].at = "numbered"
        /\ task' = [task EXCEPT ![t] = [@ EXCEPT !.at = "made", !.sequence = n]]
        /\ UNCHANGED <<session, sequence, outbox, queued, send, conn, receiverVars, boundVars>>
    BY <1>4 DEF MakeEnvelope
  <2>2. n \in 0..MaxSequence /\ n # 0
    BY <1>1, <2>1 DEF TypeInv, TaskInv
  <2>3. TaskBecomes(t, "made", task[t].stream, n, S)
    BY <2>1, TaskAt DEF TaskBecomes
  <2>4. task' \in TaskTypes /\ TaskInv'
    <3> HIDE DEF n, S
    <3> QED BY <1>1, <2>1, <2>2, <2>3, TaskSet
  <2>5. send' \in SendTypes /\ SendInv' /\ conn' \in ConnTypes /\ StreamInv'
    BY <1>2, <2>1, OutboxSame, SendStays, ConnStays DEF SameRows
  <2> QED BY <1>1, <2>1, <2>4, <2>5 DEF TypeInv, HearTypes, receiverVars, boundVars
<1>5. CASE Enqueue(t)
  <2>1. /\ task[t].at = "made"
        /\ UNCHANGED <<session, sequence, send, conn, receiverVars, boundVars>>
        /\ \/ /\ outbox' = outbox \o RowsOf(t)
              /\ queued' = [l \in Links |-> IF \E p \in S : l = LinkOf(p, m)
                                             THEN Append(queued[l], m) ELSE queued[l]]
              /\ task' = [task EXCEPT ![t].at = "flush"]
           \/ task' = [task EXCEPT ![t] = Idle] /\ UNCHANGED <<outbox, queued>>
    BY <1>5 DEF Enqueue
  <2>2. m \in Envelopes
    BY <2>1, EnvelopeType
  <2>3. outbox' \in Seq(OutboxRows) /\ Kept /\ DueStays
    BY <1>2, <2>1, Published, OutboxSame DEF Kept
  <2> HIDE DEF m
  <2>4. queued' \in [Links -> Seq(Envelopes)]
    <3>1. queued \in [Links -> Seq(Envelopes)]
      BY DEF TypeInv
    <3>2. \A l \in Links : Append(queued[l], m) \in Seq(Envelopes)
      BY <2>2, <3>1
    <3> QED BY <2>1, <3>1, <3>2
  <2>5. PICK a \in {"idle", "flush"}, r \in Streams, n \in 0..MaxSequence, T \in SUBSET Peers :
           TaskBecomes(t, a, r, n, T)
    <3>1. [task[t] EXCEPT !.at = "flush"]
            = [at |-> "flush", stream |-> task[t].stream, sequence |-> task[t].sequence,
               to |-> S]
      BY TaskAt
    <3>2. CASE task' = [task EXCEPT ![t].at = "flush"]
      BY <1>1, <3>1, <3>2 DEF TaskBecomes
    <3>3. CASE task' = [task EXCEPT ![t] = Idle]
      BY <1>1, <1>i, <3>3 DEF TaskBecomes
    <3> QED BY <2>1, <3>2, <3>3
  <2>6. task' \in TaskTypes /\ TaskInv'
    BY <1>1, <2>1, <2>5, TaskSet
  <2>7. send' \in SendTypes /\ SendInv' /\ conn' \in ConnTypes /\ StreamInv'
    BY <2>1, <2>3, SendStays, ConnStays
  <2> QED BY <1>1, <2>1, <2>3, <2>4, <2>6, <2>7 DEF TypeInv, HearTypes, receiverVars, boundVars
<1>6. CASE FlushEnds(t)
  <2>1. /\ task' = [task EXCEPT ![t] = Idle]
        /\ UNCHANGED <<session, sequence, outbox, queued, send, conn, receiverVars, boundVars>>
    BY <1>6 DEF FlushEnds
  <2>2. TaskBecomes(t, "idle", "operational", 0, {})
    BY <1>i, <2>1 DEF TaskBecomes
  <2>4. task' \in TaskTypes /\ TaskInv'
    <3>1. PICK T \in SUBSET Peers : TaskBecomes(t, "idle", "operational", 0, T)
      BY <2>2
    <3>2. PICK r \in Streams : TaskBecomes(t, "idle", r, 0, T)
      BY <1>i, <3>1
    <3>3. /\ sequence' \in [Streams -> 0 .. MaxSequence]
          /\ \A u \in Streams : sequence[u] # 0 => sequence'[u] # 0
      BY <1>1, <2>1
    <3> QED BY <1>i, <3>2, <3>3, TaskSet
  <2>3. send' \in SendTypes /\ SendInv' /\ conn' \in ConnTypes /\ StreamInv'
    BY <1>2, <2>1, OutboxSame, SendStays, ConnStays DEF SameRows
  <2> QED BY <1>1, <2>1, <2>3, <2>4 DEF TypeInv, HearTypes, receiverVars, boundVars
<1> QED BY <1>3, <1>4, <1>5, <1>6 DEF Publish

(* What an attempt that ends without acknowledgement does.                 *)
LEMMA FailedStep ==
    ASSUME TypeInv, NEW i \in DOMAIN outbox, outbox[i].status # "delivered", Failed(i)
    PROVE  /\ SameRows /\ Kept
           /\ \A j \in DOMAIN outbox : outbox'[j].status = IF j = i THEN "backoff" ELSE outbox[j].status
BY TypeParts, StatusSet DEF Failed, OutboxStatus, SameRows

(* Attempts keep the types.                                                *)
LEMMA TransmitTypes ==
    ASSUME TypeInv, NEW st \in Streams, Transmit(st)
    PROVE  TypeInv' /\ SameRows
<1>1. TypeOK /\ send \in SendTypes /\ outbox \in Seq(OutboxRows) /\ MaxFaults \in Nat
  BY TypeParts, DeliveryAssumption DEF TypeInv
<1>2. \A i \in DOMAIN outbox : outbox[i].peer \in Peers /\ outbox[i].envelope \in Envelopes
  <2>1. \A i \in DOMAIN outbox : outbox[i] \in OutboxRows
    BY <1>1
  <2> QED BY <2>1 DEF OutboxRows
<1>3. ASSUME NEW i \in DOMAIN outbox, NEW k \in Connections, Connect(st, i, k)
      PROVE  TypeInv' /\ SameRows
  <2>1. PICK p \in Peers : p = outbox[i].peer
    BY <1>2
  <2>2. PICK e \in Envelopes : e = outbox[i].envelope
    BY <1>2
  <2>3. PICK c : c = [at |-> "read", envelope |-> e, new |-> FALSE]
    OBVIOUS
  <2>4. c \in Serving /\ c.envelope = e
    BY <2>3 DEF Serving
  <2>5. /\ outbox[i].status = "due" /\ e.stream = st
        /\ send' = [send EXCEPT ![st] = [at |-> "open", row |-> i, slot |-> k]]
        /\ Becomes(p, st, k, c)
        /\ UNCHANGED <<senderVars, outbox, queued, receiverVars, boundVars>>
    BY <1>3, <2>1, <2>2, <2>3 DEF Connect, Ready, Becomes
  <2>6. OthersStay(p, st, k) /\ conn'[p][st][k] = c
    BY <1>1, <2>4, <2>5, ConnSet
  <2>7. conn' \in ConnTypes /\ StreamInv'
    BY <2>4, <2>5, <2>6, TurnsStream
  <2>8. send' \in SendTypes /\ SendInv'
    <3>1. i \in Nat
      BY <1>1
    <3>2. PICK r : r = [at |-> "open", row |-> i, slot |-> k]
      OBVIOUS
    <3>3. r \in [at : {"open"}, row : Nat, slot : Connections] /\ r.row = i
      BY <3>1, <3>2
    <3>4. send' \in SendTypes /\ send'[st] = r /\ \A u \in Streams : u # st => send'[u] = send[u]
      BY <1>1, <2>5, <3>2, <3>3 DEF SendTypes
    <3> QED BY <2>2, <2>5, <3>3, <3>4 DEF SendInv, TypeInv
  <2>9. SameRows
    BY <1>1, <2>5, OutboxSame
  <2> QED BY <2>5, <2>7, <2>8, <2>9 DEF TypeInv, HearTypes, senderVars, receiverVars, boundVars, TaskInv
<1>4. ASSUME NEW i \in DOMAIN outbox, ConnectFails(st, i)
      PROVE  TypeInv' /\ SameRows
  <2>1. /\ send[st] = NoSend /\ outbox[i].status = "due" /\ outbox[i].envelope.stream = st
        /\ faults < MaxFaults /\ faults' = faults + 1 /\ Failed(i)
        /\ UNCHANGED <<senderVars, queued, send, conn, receiverVars, stops>>
    BY <1>4 DEF ConnectFails, Ready
  <2>2. /\ SameRows /\ Kept
        /\ \A j \in DOMAIN outbox : outbox'[j].status = IF j = i THEN "backoff" ELSE outbox[j].status
    BY <2>1, FailedStep
  <2>3. send' \in SendTypes /\ SendInv'
    BY <1>1, <2>1, <2>2, SendEnds
  <2>4. conn' \in ConnTypes /\ StreamInv'
    BY <2>1, ConnStays
  <2>5. faults' \in 0..MaxFaults
    BY <1>1, <2>1 DEF TypeInv
  <2> QED BY <2>1, <2>2, <2>3, <2>4, <2>5 DEF TypeInv, HearTypes, senderVars, receiverVars, Kept, TaskInv
<1>5. CASE SendTimesOut(st) \/ SendFails(st)
  <2>1. /\ send[st] # NoSend /\ Failed(send[st].row)
        /\ send' = [send EXCEPT ![st] = NoSend]
        /\ UNCHANGED <<senderVars, queued, conn, receiverVars, stops>>
        /\ faults' = faults \/ (faults < MaxFaults /\ faults' = faults + 1)
    BY <1>5 DEF SendTimesOut, SendFails, boundVars
  <2>2. PICK i \in DOMAIN outbox : i = send[st].row
    BY <2>1 DEF TypeInv, SendInv
  <2>3. outbox[i].status = "due" /\ outbox[i].envelope.stream = st /\ Failed(i)
    BY <2>1, <2>2 DEF TypeInv, SendInv
  <2>4. /\ SameRows /\ Kept
        /\ \A j \in DOMAIN outbox : outbox'[j].status = IF j = i THEN "backoff" ELSE outbox[j].status
    BY <2>3, FailedStep
  <2>5. send' \in SendTypes /\ send'[st] = NoSend /\ \A u \in Streams : u # st => send'[u] = send[u]
    BY <1>1, <2>1 DEF SendTypes
  <2>6. SendInv'
    BY <2>3, <2>4, <2>5, SendEnds
  <2>7. conn' \in ConnTypes /\ StreamInv'
    BY <2>1, ConnStays
  <2>8. faults' \in 0..MaxFaults
    BY <1>1, <2>1 DEF TypeInv
  <2> QED BY <2>1, <2>4, <2>5, <2>6, <2>7, <2>8 DEF TypeInv, HearTypes, senderVars, receiverVars, Kept, TaskInv
<1> QED BY <1>3, <1>4, <1>5 DEF Transmit

LEMMA BackoffTypes ==
    ASSUME TypeInv, NEW i \in DOMAIN outbox, BackoffElapses(i)
    PROVE  TypeInv' /\ SameRows
<1>1. /\ outbox[i].status = "backoff" /\ outbox' = [outbox EXCEPT ![i].status = "due"]
      /\ UNCHANGED <<senderVars, queued, send, conn, receiverVars, boundVars>>
  BY DEF BackoffElapses
<1>2. /\ SameRows /\ Kept
      /\ \A j \in DOMAIN outbox : outbox'[j].status = IF j = i THEN "due" ELSE outbox[j].status
  BY <1>1, TypeParts, StatusSet DEF OutboxStatus, SameRows
<1>3. DueStays
  BY <1>2 DEF DueStays
<1>4. send' \in SendTypes /\ SendInv' /\ conn' \in ConnTypes /\ StreamInv'
  BY <1>1, <1>2, <1>3, SendStays, ConnStays
<1> QED BY <1>1, <1>2, <1>4 DEF TypeInv, HearTypes, senderVars, receiverVars, boundVars, Kept, TaskInv

-----------------------------------------------------------------------------
(* What the receiver's steps do to its inbox.                              *)

(* The other peers' rows stay.                                             *)
InboxOthers(p) ==
    /\ inbox' \in [Peers -> Seq(InboxRows)]
    /\ \A q \in Peers : q # p => inbox'[q] = inbox[q]

(* A staged row is added at the end.                                       *)
Grows(p, m) ==
    /\ InboxOthers(p)
    /\ DOMAIN inbox[p] = 1..Len(inbox[p]) /\ Len(inbox[p]) \in Nat
    /\ DOMAIN inbox'[p] = 1..Len(inbox[p]) + 1
    /\ \A i \in DOMAIN inbox[p] : inbox'[p][i] = inbox[p][i]
    /\ inbox'[p][Len(inbox[p]) + 1] = [envelope |-> m, status |-> "staged"]

(* At most a staged row of m is removed; the others keep their order.      *)
Drops(p, m) ==
    /\ InboxOthers(p)
    /\ \E f \in [DOMAIN inbox'[p] -> DOMAIN inbox[p]] :
          /\ \A a, b \in DOMAIN inbox'[p] : a < b => f[a] < f[b]
          /\ \A a \in DOMAIN inbox'[p] : inbox'[p][a] = inbox[p][f[a]]
          /\ \A i \in DOMAIN inbox[p] :
                inbox[p][i].status # "staged" \/ inbox[p][i].envelope # m =>
                   \E a \in DOMAIN inbox'[p] : f[a] = i

(* Rows change only their status.                                          *)
Marks(p) ==
    /\ InboxOthers(p)
    /\ DOMAIN inbox'[p] = DOMAIN inbox[p]
    /\ \A i \in DOMAIN inbox[p] : inbox'[p][i].envelope = inbox[p][i].envelope

InboxBecomes(p, s) == inbox' = [inbox EXCEPT ![p] = s]
LEMMA InboxSet ==
    ASSUME TypeInv, NEW p \in Peers, NEW s \in Seq(InboxRows), InboxBecomes(p, s)
    PROVE  InboxOthers(p) /\ inbox'[p] = s
BY DEF TypeInv, InboxBecomes, InboxOthers

(* What the rows of an inbox are.                                          *)
LEMMA InboxIs ==
    ASSUME TypeInv, NEW p \in Peers
    PROVE  /\ inbox[p] \in Seq(InboxRows) /\ Len(inbox[p]) \in Nat
           /\ DOMAIN inbox[p] = 1..Len(inbox[p])
           /\ \A i \in DOMAIN inbox[p] :
                 /\ inbox[p][i] \in InboxRows
                 /\ inbox[p][i].envelope \in Envelopes /\ inbox[p][i].status \in InboxStatus
<1>1. inbox[p] \in Seq(InboxRows)
  BY DEF TypeInv
<1>2. Len(inbox[p]) \in Nat /\ DOMAIN inbox[p] = 1..Len(inbox[p])
  BY <1>1
<1>3. \A i \in DOMAIN inbox[p] : inbox[p][i] \in InboxRows
  BY <1>1
<1> QED BY <1>1, <1>2, <1>3 DEF InboxRows

(* Rows whose statuses are computed one by one.                            *)
LEMMA InboxMap ==
    ASSUME TypeInv, NEW p \in Peers, NEW s,
           DOMAIN s = DOMAIN inbox[p], s = [i \in DOMAIN s |-> s[i]],
           \A i \in DOMAIN inbox[p] : /\ s[i] \in InboxRows
                                     /\ s[i].envelope = inbox[p][i].envelope,
           InboxBecomes(p, s)
    PROVE  Marks(p) /\ inbox'[p] = s
<1>1. s \in Seq(InboxRows)
  BY InboxIs
<1>2. InboxOthers(p) /\ inbox'[p] = s
  BY <1>1, InboxSet
<1> QED BY <1>2 DEF Marks

(* One row changes its status.                                             *)
LEMMA InboxStatusSet ==
    ASSUME TypeInv, NEW p \in Peers, NEW i \in DOMAIN inbox[p], NEW x \in InboxStatus,
           inbox' = [inbox EXCEPT ![p][i].status = x]
    PROVE  /\ Marks(p) /\ inbox'[p][i].status = x
           /\ \A j \in DOMAIN inbox[p] : j # i => inbox'[p][j] = inbox[p][j]
<1>1. PICK s : s = [inbox[p] EXCEPT ![i].status = x]
  OBVIOUS
<1>2. InboxBecomes(p, s)
  BY <1>1 DEF InboxBecomes
<1>3. PICK r : r = [inbox[p][i] EXCEPT !.status = x]
  OBVIOUS
<1>4. r \in InboxRows /\ r.envelope = inbox[p][i].envelope /\ r.status = x
  <2>1. inbox[p][i] \in InboxRows
    BY InboxIs
  <2> QED BY <1>3, <2>1 DEF InboxRows
<1>5. /\ DOMAIN s = DOMAIN inbox[p] /\ s = [j \in DOMAIN s |-> s[j]] /\ s[i] = r
      /\ \A j \in DOMAIN inbox[p] : j # i => s[j] = inbox[p][j]
  BY <1>1, <1>3
<1>6. \A j \in DOMAIN inbox[p] : s[j] \in InboxRows /\ s[j].envelope = inbox[p][j].envelope
  BY <1>4, <1>5, InboxIs
<1>7. Marks(p) /\ inbox'[p] = s
  BY <1>2, <1>5, <1>6, InboxMap
<1> QED BY <1>4, <1>5, <1>7

(* No row is removed.                                                      *)
LEMMA DropsNone ==
    ASSUME TypeInv, NEW p \in Peers, NEW m, inbox' = inbox
    PROVE  Drops(p, m)
<1>1. PICK f : f = [a \in DOMAIN inbox[p] |-> a]
  OBVIOUS
<1>2. f \in [DOMAIN inbox'[p] -> DOMAIN inbox[p]] /\ \A a \in DOMAIN inbox[p] : f[a] = a
  BY <1>1
<1> QED BY <1>2 DEF Drops, InboxOthers, TypeInv

(* discard_staged.                                                         *)
LEMMA Discarded ==
    ASSUME TypeInv, NEW p \in Peers, NEW m,
           inbox' = [inbox EXCEPT ![p] = WithoutStaged(p, m)]
    PROVE  Drops(p, m)
<1>1. /\ inbox[p] \in Seq(InboxRows) /\ Len(inbox[p]) \in Nat
      /\ DOMAIN inbox[p] = 1..Len(inbox[p])
  BY InboxIs
<1> DEFINE rows == {i \in RowOf(p, m) : inbox[p][i].status = "staged"}
<1>2. CASE rows = {}
  <2>1. inbox' = inbox
    BY <1>2 DEF WithoutStaged, TypeInv
  <2> QED BY <2>1, DropsNone
<1>3. CASE rows # {}
  <2>1. PICK i : i = CHOOSE j \in rows : TRUE
    OBVIOUS
  <2>2. /\ i \in 1..Len(inbox[p]) /\ inbox[p][i].status = "staged"
        /\ inbox[p][i].envelope = m
    BY <1>1, <1>3, <2>1 DEF RowOf
  <2>3. PICK s : s = RemoveAt(inbox[p], i)
    OBVIOUS
  <2>4. InboxBecomes(p, s)
    BY <1>3, <2>1, <2>3 DEF WithoutStaged, InboxBecomes
  <2>5. PICK n \in Nat : n = Len(inbox[p])
    BY <1>1
  <2>6. /\ s \in Seq(InboxRows) /\ Len(s) = n - 1
        /\ \A j \in 1..n - 1 : s[j] = inbox[p][IF j < i THEN j ELSE j + 1]
    <3>1. PICK x, y : x = SubSeq(inbox[p], 1, i - 1) /\ y = SubSeq(inbox[p], i + 1, n)
      OBVIOUS
    <3>2. /\ x \in Seq(InboxRows) /\ Len(x) = i - 1
          /\ \A j \in 1..i - 1 : x[j] = inbox[p][j]
      BY <1>1, <2>2, <2>5, <3>1
    <3>3. /\ y \in Seq(InboxRows) /\ Len(y) = n - i
          /\ \A j \in 1..n - i : y[j] = inbox[p][i + j]
      BY <1>1, <2>2, <2>5, <3>1
    <3>4. s = x \o y
      BY <2>3, <2>5, <3>1 DEF RemoveAt
    <3>5. /\ s \in Seq(InboxRows) /\ Len(s) = n - 1
          /\ \A j \in 1..n - 1 : s[j] = IF j <= i - 1 THEN x[j] ELSE y[j - (i - 1)]
      <4>0. x \in Seq(InboxRows) /\ y \in Seq(InboxRows)
        BY <3>2, <3>3
      <4>1. s \in Seq(InboxRows) /\ Len(s) = Len(x) + Len(y)
        BY <4>0, <3>4
      <4>2. (i - 1) + (n - i) = n - 1
        BY <2>2, <2>5
      <4>3. \A j \in 1..Len(x) + Len(y) : s[j] = IF j <= Len(x) THEN x[j] ELSE y[j - Len(x)]
        BY <3>2, <3>3, <3>4
      <4> QED BY <3>2, <3>3, <4>1, <4>2, <4>3
    <3> QED
      <4> SUFFICES ASSUME NEW j \in 1..n - 1
                   PROVE  s[j] = inbox[p][IF j < i THEN j ELSE j + 1]
        BY <3>5
      <4>1. CASE j < i
        BY <2>2, <2>5, <3>2, <3>5, <4>1
      <4>2. CASE ~(j < i)
        <5>1. j - (i - 1) \in 1..n - i /\ i + (j - (i - 1)) = j + 1
          BY <2>2, <2>5, <4>2
        <5> QED BY <2>2, <2>5, <3>3, <3>5, <4>2, <5>1
      <4> QED BY <4>1, <4>2
  <2>7. InboxOthers(p) /\ inbox'[p] = s
    BY <2>4, <2>6, InboxSet
  <2>8. DOMAIN s = 1..n - 1
    BY <2>6
  <2>9. PICK f : f = [a \in 1..n - 1 |-> IF a < i THEN a ELSE a + 1]
    OBVIOUS
  <2>10. /\ f \in [1..n - 1 -> 1..n]
         /\ \A a, b \in 1..n - 1 : a < b => f[a] < f[b]
         /\ \A a \in 1..n - 1 : s[a] = inbox[p][f[a]]
         /\ \A j \in 1..n : j # i => \E a \in 1..n - 1 : f[a] = j
    <3>1. \A a \in 1..n - 1 : f[a] \in 1..n /\ f[a] = IF a < i THEN a ELSE a + 1
      BY <2>2, <2>5, <2>9
    <3>2. ASSUME NEW j \in 1..n, j # i PROVE \E a \in 1..n - 1 : f[a] = j
      <4>1. CASE j < i
        BY <2>2, <2>5, <3>1, <4>1
      <4>2. CASE j > i
        <5>1. j - 1 \in 1..n - 1 /\ ~(j - 1 < i) /\ (j - 1) + 1 = j
          BY <2>2, <2>5, <4>2
        <5> QED BY <3>1, <5>1
      <4> QED BY <2>2, <2>5, <3>2, <4>1, <4>2
    <3>3. f \in [1..n - 1 -> 1..n]
      BY <2>9, <3>1
    <3>4. \A a, b \in 1..n - 1 : a < b => f[a] < f[b]
      BY <2>2, <2>5, <3>1
    <3>5. \A a \in 1..n - 1 : s[a] = inbox[p][f[a]]
      BY <2>6, <3>1
    <3> QED BY <3>2, <3>3, <3>4, <3>5
  <2>11. DOMAIN inbox'[p] = 1..n - 1 /\ DOMAIN inbox[p] = 1..n
    BY <1>1, <2>5, <2>7, <2>8
  <2>12. /\ f \in [DOMAIN inbox'[p] -> DOMAIN inbox[p]]
         /\ \A a, b \in DOMAIN inbox'[p] : a < b => f[a] < f[b]
         /\ \A a \in DOMAIN inbox'[p] : inbox'[p][a] = inbox[p][f[a]]
    BY <2>7, <2>10, <2>11
  <2>13. \A j \in DOMAIN inbox[p] :
            inbox[p][j].status # "staged" \/ inbox[p][j].envelope # m =>
               \E a \in DOMAIN inbox'[p] : f[a] = j
    BY <2>2, <2>10, <2>11
  <2> QED BY <2>7, <2>12, <2>13 DEF Drops
<1> QED BY <1>2, <1>3

(* inbox.enqueue.                                                          *)
LEMMA Staged ==
    ASSUME TypeInv, NEW p \in Peers, NEW m \in Envelopes,
           inbox' = [inbox EXCEPT ![p] = Append(@, [envelope |-> m, status |-> "staged"])]
    PROVE  Grows(p, m)
<1>1. PICK r : r = [envelope |-> m, status |-> "staged"]
  OBVIOUS
<1>2. r \in InboxRows
  BY <1>1 DEF InboxRows, InboxStatus
<1>3. PICK s : s = Append(inbox[p], r)
  OBVIOUS
<1>4. InboxBecomes(p, s)
  BY <1>1, <1>3 DEF InboxBecomes
<1>5. inbox[p] \in Seq(InboxRows) /\ Len(inbox[p]) \in Nat /\ DOMAIN inbox[p] = 1..Len(inbox[p])
  BY InboxIs
<1>6. /\ s \in Seq(InboxRows) /\ DOMAIN s = 1..Len(inbox[p]) + 1
      /\ \A i \in DOMAIN inbox[p] : s[i] = inbox[p][i]
      /\ s[Len(inbox[p]) + 1] = r
  BY <1>2, <1>3, <1>5
<1>7. InboxOthers(p) /\ inbox'[p] = s
  BY <1>4, <1>6, InboxSet
<1> QED BY <1>1, <1>5, <1>6, <1>7 DEF Grows

-----------------------------------------------------------------------------
(* What the steps of a connection thread do.                               *)

LEMMA StageStep ==
    ASSUME TypeInv, NEW p \in Peers, NEW st \in Streams, NEW k \in Connections,
           Stage(p, st, k)
    PROVE  /\ conn[p][st][k] \in Serving /\ Turns(p, st, k, "staged")
           /\ \/ RowOf(p, conn[p][st][k].envelope) # {} /\ inbox' = inbox
              \/ /\ RowOf(p, conn[p][st][k].envelope) = {}
                 /\ Grows(p, conn[p][st][k].envelope)
           /\ UNCHANGED <<senderVars, outbox, queued, send, floor, subscribed, taken, unheard, boundVars>>
<1>0. PICK m : m = conn[p][st][k].envelope
  OBVIOUS
<1>1. PICK b \in BOOLEAN : b = (RowOf(p, m) = {})
  OBVIOUS
<1>2. conn[p][st][k].at # "none" /\ TypeOK
  BY TypeParts DEF Stage
<1>3. conn' = [conn EXCEPT ![p][st][k] = [@ EXCEPT !.at = "staged", !.new = b]]
  BY <1>0, <1>1 DEF Stage
<1>4. Turns(p, st, k, "staged")
  BY <1>2, <1>3, ConnStaged
<1>5. conn[p][st][k] \in Serving /\ m \in Envelopes
  BY <1>0, <1>2, IsServing DEF Serving
<1>6. CASE RowOf(p, m) # {}
  <2>1. inbox' = [inbox EXCEPT ![p] = @]
    BY <1>0, <1>6 DEF Stage
  <2> QED BY <1>0, <1>4, <1>5, <1>6, <2>1 DEF Stage, TypeInv
<1>7. CASE RowOf(p, m) = {}
  <2>1. inbox' = [inbox EXCEPT ![p] = Append(@, [envelope |-> m, status |-> "staged"])]
    BY <1>0, <1>7 DEF Stage
  <2>2. Grows(p, m)
    BY <1>5, <2>1, Staged
  <2> QED BY <1>0, <1>4, <1>5, <1>7, <2>2 DEF Stage
<1> QED BY <1>6, <1>7

LEMMA AcceptStep ==
    ASSUME TypeInv, NEW p \in Peers, NEW st \in Streams, NEW k \in Connections,
           AcceptSequence(p, st, k)
    PROVE  /\ conn[p][st][k].at = "staged"
           /\ Turns(p, st, k, "kept") \/ Turns(p, st, k, "refused")
           /\ floor' \in [Peers -> [Sessions -> [Streams -> 0 .. MaxSequence]]]
           /\ UNCHANGED <<senderVars, outbox, queued, send, inbox, subscribed, taken, unheard, boundVars>>
<1>0. PICK m : m = conn[p][st][k].envelope
  OBVIOUS
<1>2. conn[p][st][k].at = "staged" /\ TypeOK
  BY TypeParts DEF AcceptSequence
<1>3. PICK a \in {"kept", "refused"} :
         a = IF m.sequence > floor[p][m.session][st] THEN "kept" ELSE "refused"
  OBVIOUS
<1>4. conn' = [conn EXCEPT ![p][st][k].at = a]
  BY <1>0, <1>3 DEF AcceptSequence
<1>5. Turns(p, st, k, a)
  BY <1>2, <1>4, ConnAt
<1>6. m \in Envelopes
  BY <1>0, <1>2, IsServing DEF Serving
<1>7. floor \in [Peers -> [Sessions -> [Streams -> 0 .. MaxSequence]]]
  BY DEF TypeInv
<1>8. m.session \in Sessions /\ m.sequence \in 0..MaxSequence
  BY <1>6 DEF Envelopes
<1>9. PICK x \in 0..MaxSequence : floor' = [floor EXCEPT ![p][m.session][st] = x]
  <2>1. floor[p][m.session][st] \in 0..MaxSequence
    BY <1>7, <1>8
  <2>2. floor' = [floor EXCEPT ![p][m.session][st] =
                     IF m.sequence > floor[p][m.session][st] THEN m.sequence ELSE @]
    BY <1>0 DEF AcceptSequence
  <2>3. CASE m.sequence > floor[p][m.session][st]
    BY <1>8, <2>2, <2>3
  <2>4. CASE ~(m.sequence > floor[p][m.session][st])
    BY <2>1, <2>2, <2>4
  <2> QED BY <2>3, <2>4
<1>10. floor' \in [Peers -> [Sessions -> [Streams -> 0 .. MaxSequence]]]
  BY <1>7, <1>8, <1>9
<1> QED BY <1>2, <1>3, <1>5, <1>10 DEF AcceptSequence

LEMMA ReplayStep ==
    ASSUME TypeInv, NEW p \in Peers, NEW st \in Streams, NEW k \in Connections,
           HandleReplay(p, st, k)
    PROVE  /\ conn[p][st][k].at = "refused"
           /\ \/ Turns(p, st, k, "kept") /\ inbox' = inbox
              \/ Ends(p, st, k) /\ Drops(p, conn[p][st][k].envelope)
           /\ UNCHANGED <<senderVars, outbox, queued, send, floor, subscribed, taken, unheard, boundVars>>
<1>0. PICK c, m : c = conn[p][st][k] /\ m = conn[p][st][k].envelope
  OBVIOUS
<1>1. /\ conn[p][st][k].at = "refused" /\ TypeOK
      /\ UNCHANGED <<senderVars, outbox, queued, send, floor, subscribed, taken, unheard, boundVars>>
  BY TypeParts DEF HandleReplay
<1>2. CASE IsDuplicate(p, c)
  <2>1. conn' = [conn EXCEPT ![p][st][k].at = "kept"] /\ inbox' = inbox
    BY <1>0, <1>2 DEF HandleReplay
  <2>2. Turns(p, st, k, "kept")
    BY <1>1, <2>1, ConnAt
  <2> QED BY <1>1, <2>1, <2>2
<1>3. CASE ~IsDuplicate(p, c)
  <2>1. /\ inbox' = [inbox EXCEPT ![p] = IF c.new THEN WithoutStaged(p, m) ELSE @]
        /\ Becomes(p, st, k, NoThread)
    BY <1>0, <1>3 DEF HandleReplay, Becomes
  <2>2. Ends(p, st, k)
    BY <1>1, <2>1, ConnSet DEF Ends
  <2>3. Drops(p, m)
    <3>1. CASE c.new
      <4>1. inbox' = [inbox EXCEPT ![p] = WithoutStaged(p, m)]
        BY <2>1, <3>1
      <4> QED BY <4>1, Discarded
    <3>2. CASE ~c.new
      <4>1. inbox' = inbox
        BY <2>1, <3>2 DEF TypeInv
      <4> QED BY <4>1, DropsNone
    <3> QED BY <3>1, <3>2
  <2> QED BY <1>0, <1>1, <2>2, <2>3
<1> QED BY <1>2, <1>3

LEMMA ActivateStep ==
    ASSUME TypeInv, NEW p \in Peers, NEW st \in Streams, NEW k \in Connections,
           Activate(p, st, k)
    PROVE  /\ conn[p][st][k].at = "kept" /\ Turns(p, st, k, "ack") /\ Marks(p)
           /\ \A i \in DOMAIN inbox[p] :
                 inbox'[p][i].status =
                    IF /\ inbox[p][i].envelope = conn[p][st][k].envelope
                       /\ inbox[p][i].status = "staged"
                    THEN "received" ELSE inbox[p][i].status
           /\ UNCHANGED <<senderVars, outbox, queued, send, floor, subscribed, taken, unheard, boundVars>>
<1>0. PICK m : m = conn[p][st][k].envelope
  OBVIOUS
<1>1. /\ conn[p][st][k].at = "kept" /\ TypeOK
      /\ conn' = [conn EXCEPT ![p][st][k].at = "ack"]
      /\ UNCHANGED <<senderVars, outbox, queued, send, floor, subscribed, taken, unheard, boundVars>>
  BY TypeParts DEF Activate
<1>2. Turns(p, st, k, "ack")
  BY <1>1, ConnAt
<1>3. PICK s : s = [i \in DOMAIN inbox[p] |-> Activated(inbox[p][i], m)]
  OBVIOUS
<1>4. InboxBecomes(p, s)
  BY <1>0, <1>3 DEF Activate, InboxBecomes
<1>5. \A r \in InboxRows :
         /\ Activated(r, m) \in InboxRows /\ Activated(r, m).envelope = r.envelope
         /\ Activated(r, m).status = IF r.envelope = m /\ r.status = "staged"
                                      THEN "received" ELSE r.status
  BY DEF Activated, InboxRows, InboxStatus
<1>6. \A i \in DOMAIN inbox[p] : inbox[p][i] \in InboxRows /\ s[i] = Activated(inbox[p][i], m)
  BY <1>3, InboxIs
<1>7. DOMAIN s = DOMAIN inbox[p] /\ s = [i \in DOMAIN s |-> s[i]]
  BY <1>3
<1>8. Marks(p) /\ inbox'[p] = s
  BY <1>4, <1>5, <1>6, <1>7, InboxMap
<1> QED BY <1>0, <1>1, <1>2, <1>5, <1>6, <1>8

LEMMA AcknowledgeStep ==
    ASSUME TypeInv, NEW p \in Peers, NEW st \in Streams, NEW k \in Connections,
           Acknowledge(p, st, k)
    PROVE  /\ conn[p][st][k].at = "ack" /\ Ends(p, st, k) /\ SameRows
           /\ \A i \in DOMAIN outbox :
                 \/ outbox'[i].status = outbox[i].status
                 \/ /\ outbox'[i].status = "delivered" /\ outbox[i].peer = p
                    /\ outbox[i].envelope = conn[p][st][k].envelope
           /\ send' \in SendTypes /\ SendInv'
           /\ UNCHANGED <<senderVars, queued, receiverVars, boundVars>>
<1>1. /\ conn[p][st][k].at = "ack" /\ TypeOK /\ Becomes(p, st, k, NoThread)
      /\ UNCHANGED <<senderVars, queued, receiverVars, boundVars>>
  BY TypeParts DEF Acknowledge, Becomes
<1>2. Ends(p, st, k)
  BY <1>1, ConnSet DEF Ends
<1>3. CASE Serves(p, st, k)
  <2>1. PICK i : i = send[st].row
    OBVIOUS
  <2>2. /\ i \in DOMAIN outbox /\ outbox[i].status = "due"
        /\ outbox[i].envelope.stream = st /\ outbox[i].peer = p
        /\ outbox[i].envelope = conn[p][st][k].envelope
    BY <1>3, <2>1 DEF Serves, TypeInv, SendInv
  <2>3. /\ outbox' = [outbox EXCEPT ![i].status = "delivered"]
        /\ send' = [send EXCEPT ![st] = NoSend]
    BY <1>3, <2>1 DEF Acknowledge
  <2>4. /\ SameRows
        /\ \A j \in DOMAIN outbox :
              outbox'[j].status = IF j = i THEN "delivered" ELSE outbox[j].status
    BY <1>1, <2>2, <2>3, StatusSet DEF OutboxStatus
  <2>5. send' \in SendTypes /\ send'[st] = NoSend /\ \A u \in Streams : u # st => send'[u] = send[u]
    BY <2>3 DEF SendTypes, TypeInv
  <2>6. SendInv'
    BY <2>2, <2>4, <2>5, SendEnds
  <2> QED BY <1>1, <1>2, <2>2, <2>4, <2>5, <2>6
<1>4. CASE ~Serves(p, st, k)
  <2>1. outbox' = outbox /\ send' = send
    BY <1>4 DEF Acknowledge
  <2>2. SameRows /\ Kept /\ DueStays
    BY <1>1, <2>1, OutboxSame
  <2>3. send' \in SendTypes /\ SendInv'
    BY <2>1, <2>2, SendStays
  <2> QED BY <1>1, <1>2, <2>1, <2>2, <2>3
<1> QED BY <1>3, <1>4

-----------------------------------------------------------------------------
(* What the workers and a restart of the peer do.                          *)

LEMMA ClaimStep ==
    ASSUME TypeInv, NEW p \in Peers, NEW i \in DOMAIN inbox[p], ClaimRow(p, i)
    PROVE  /\ Marks(p) /\ inbox[p][i].status = "received" /\ inbox'[p][i].status = "processing"
           /\ \A j \in DOMAIN inbox[p] : j # i => inbox'[p][j] = inbox[p][j]
           /\ \A j \in 1 .. i - 1 : SameLink(p, j, i) =>
                 inbox[p][j].status \notin {"received", "processing"}
           /\ LinkOf(p, inbox[p][i].envelope) \in Links
           /\ taken' \in [Links -> Seq(Envelopes)]
           /\ \A l \in Links :
                 taken'[l] = IF l = LinkOf(p, inbox[p][i].envelope)
                               THEN Append(taken[l], inbox[p][i].envelope) ELSE taken[l]
           /\ HearTypes'
           /\ UNCHANGED <<senderVars, outbox, queued, send, conn, floor, boundVars>>
<1>1. PICK m, l : m = inbox[p][i].envelope /\ l = LinkOf(p, m)
  OBVIOUS
<1>2. /\ inbox' = [inbox EXCEPT ![p][i].status = "processing"]
      /\ taken' = [taken EXCEPT ![l] = Append(@, m)]
      /\ i \in Claimable(p)
      /\ UNCHANGED <<senderVars, outbox, queued, send, conn, floor, boundVars>>
  BY <1>1 DEF ClaimRow
<1>3. /\ inbox[p][i].status = "received"
      /\ \A j \in 1 .. i - 1 : SameLink(p, j, i) =>
            inbox[p][j].status \notin {"received", "processing"}
  BY <1>2 DEF Claimable, SameLink
<1>4. /\ Marks(p) /\ inbox'[p][i].status = "processing"
      /\ \A j \in DOMAIN inbox[p] : j # i => inbox'[p][j] = inbox[p][j]
  BY <1>2, InboxStatusSet DEF InboxStatus
<1>5. m \in Envelopes
  BY <1>1, InboxIs
<1>6. l \in Links
  BY <1>1, <1>5 DEF LinkOf, Links, Envelopes
<1>7. taken \in [Links -> Seq(Envelopes)]
  BY DEF TypeInv
<1>8. Append(taken[l], m) \in Seq(Envelopes)
  BY <1>5, <1>6, <1>7
<1>9. /\ taken' \in [Links -> Seq(Envelopes)]
      /\ \A u \in Links : taken'[u] = IF u = l THEN Append(taken[u], m) ELSE taken[u]
  BY <1>2, <1>6, <1>7, <1>8
<1>10. Len(taken[l]) + 1 \in Nat
  BY <1>6, <1>7
<1>11. HearTypes'
  <2>1. /\ subscribed' = subscribed
        /\ \/ unheard' = unheard
           \/ unheard' = [unheard EXCEPT ![l] = @ \cup {Len(taken[l]) + 1}]
    BY <1>1 DEF ClaimRow
  <2> QED BY <1>6, <1>10, <2>1 DEF TypeInv, HearTypes
<1> QED BY <1>1, <1>2, <1>3, <1>4, <1>6, <1>9, <1>11

LEMMA FinishStep ==
    ASSUME TypeInv, NEW p \in Peers, NEW i \in DOMAIN inbox[p], FinishRow(p, i)
    PROVE  /\ Marks(p) /\ inbox[p][i].status = "processing" /\ inbox'[p][i].status = "done"
           /\ \A j \in DOMAIN inbox[p] : j # i => inbox'[p][j] = inbox[p][j]
           /\ UNCHANGED <<senderVars, outbox, queued, send, conn, floor, subscribed, taken, unheard, boundVars>>
<1>1. /\ inbox[p][i].status = "processing" /\ inbox' = [inbox EXCEPT ![p][i].status = "done"]
      /\ UNCHANGED <<senderVars, outbox, queued, send, conn, floor, subscribed, taken, unheard, boundVars>>
  BY DEF FinishRow
<1>2. /\ Marks(p) /\ inbox'[p][i].status = "done"
      /\ \A j \in DOMAIN inbox[p] : j # i => inbox'[p][j] = inbox[p][j]
  <2>1. "done" \in InboxStatus /\ inbox' = [inbox EXCEPT ![p][i].status = "done"]
    BY <1>1 DEF InboxStatus
  <2> QED BY <2>1, InboxStatusSet
<1> QED BY <1>1, <1>2

LEMMA PeerRestartStep ==
    ASSUME TypeInv, NEW p \in Peers, PeerRestarts(p)
    PROVE  /\ Marks(p) /\ conn' \in ConnTypes
           /\ \A q \in Peers, st \in Streams, k \in Connections :
                 conn'[q][st][k] = IF q = p THEN NoThread ELSE conn[q][st][k]
           /\ \A i \in DOMAIN inbox[p] :
                 inbox'[p][i].status = StatusOnOpen(inbox[p][i].status)
           /\ stops < MaxStops /\ stops' = stops + 1 /\ HearTypes'
           /\ UNCHANGED <<senderVars, outbox, queued, send, floor, taken, unheard, faults>>
<1>1. PICK s : s = [i \in DOMAIN inbox[p] |->
                      [inbox[p][i] EXCEPT !.status = StatusOnOpen(inbox[p][i].status)]]
  OBVIOUS
<1>2. /\ InboxBecomes(p, s)
      /\ conn' = [conn EXCEPT ![p] = [st \in Streams |-> [k \in Connections |-> NoThread]]]
      /\ stops < MaxStops /\ stops' = stops + 1
      /\ UNCHANGED <<senderVars, outbox, queued, send, floor, taken, unheard, faults>>
  <2>1. inbox' = [inbox EXCEPT ![p] = [i \in DOMAIN inbox[p] |->
                     [inbox[p][i] EXCEPT !.status = StatusOnOpen(inbox[p][i].status)]]]
    BY DEF PeerRestarts
  <2>2. InboxBecomes(p, s)
    BY <1>1, <2>1 DEF InboxBecomes
  <2> QED BY <2>2 DEF PeerRestarts
<1>3. \A r \in InboxRows :
         /\ [r EXCEPT !.status = StatusOnOpen(r.status)] \in InboxRows
         /\ [r EXCEPT !.status = StatusOnOpen(r.status)].envelope = r.envelope
         /\ [r EXCEPT !.status = StatusOnOpen(r.status)].status = StatusOnOpen(r.status)
  BY DEF InboxRows, InboxStatus, StatusOnOpen
<1>4. \A i \in DOMAIN inbox[p] :
         /\ inbox[p][i] \in InboxRows
         /\ s[i] = [inbox[p][i] EXCEPT !.status = StatusOnOpen(inbox[p][i].status)]
  BY <1>1, InboxIs
<1>5. DOMAIN s = DOMAIN inbox[p] /\ s = [i \in DOMAIN s |-> s[i]]
  BY <1>1
<1>6. \A i \in DOMAIN inbox[p] : /\ s[i] \in InboxRows
                               /\ s[i].envelope = inbox[p][i].envelope
                               /\ s[i].status = StatusOnOpen(inbox[p][i].status)
  BY <1>3, <1>4
<1>7. Marks(p) /\ inbox'[p] = s
  BY <1>2, <1>5, <1>6, InboxMap
<1>8. conn' \in ConnTypes
  BY <1>2 DEF ConnTypes, TypeInv
<1>9. \A q \in Peers, st \in Streams, k \in Connections :
         conn'[q][st][k] = IF q = p THEN NoThread ELSE conn[q][st][k]
  BY <1>2 DEF ConnTypes, TypeInv
<1>10. HearTypes'
  BY DEF PeerRestarts, TypeInv, HearTypes
<1> QED BY <1>2, <1>6, <1>7, <1>8, <1>9, <1>10

-----------------------------------------------------------------------------
(* Types of the receiver and of restarts.                                  *)

(* A thread that goes on or ends keeps the types of the threads.           *)
LEMMA ThreadTypes ==
    ASSUME TypeInv, NEW p \in Peers, NEW st \in Streams, NEW k \in Connections,
           Ends(p, st, k) \/ \E a \in {"staged", "refused", "kept", "ack"} : Turns(p, st, k, a)
    PROVE  conn' \in ConnTypes /\ StreamInv'
<1>1. CASE Ends(p, st, k)
  BY <1>1, TurnsStream DEF Ends
<1>2. ASSUME NEW a \in {"staged", "refused", "kept", "ack"}, Turns(p, st, k, a)
      PROVE  conn' \in ConnTypes /\ StreamInv'
  <2>1. /\ OthersStay(p, st, k) /\ conn[p][st][k] \in Serving
        /\ conn'[p][st][k].envelope = conn[p][st][k].envelope
    BY <1>2 DEF Turns
  <2>2. conn[p][st][k] # NoThread
    BY <2>1 DEF Serving, NoThread
  <2>3. conn[p][st][k].envelope.stream = st
    BY <2>2 DEF TypeInv, StreamInv
  <2> QED BY <2>1, <2>3, TurnsStream
<1> QED BY <1>1, <1>2

LEMMA ServeTypes ==
    ASSUME TypeInv, NEW p \in Peers, NEW st \in Streams, NEW k \in Connections,
           Serve(p, st, k)
    PROVE  TypeInv' /\ SameRows
<1>0. TypeOK /\ inbox \in [Peers -> Seq(InboxRows)]
  BY TypeParts DEF TypeInv
<1> DEFINE ThreadStep ==
       Ends(p, st, k) \/ \E a \in {"staged", "refused", "kept", "ack"} : Turns(p, st, k, a)
<1>1. CASE Stage(p, st, k)
  <2>1. ThreadStep /\ inbox' \in [Peers -> Seq(InboxRows)]
        /\ UNCHANGED <<senderVars, outbox, queued, send, floor, subscribed, taken, unheard, boundVars>>
    BY <1>0, <1>1, StageStep DEF Grows, InboxOthers
  <2>2. SameRows /\ Kept /\ DueStays /\ conn' \in ConnTypes /\ StreamInv'
    BY <1>0, <2>1, OutboxSame, ThreadTypes
  <2>3. send' \in SendTypes /\ SendInv'
    BY <2>1, <2>2, SendStays
  <2> QED BY <2>1, <2>2, <2>3 DEF TypeInv, HearTypes, senderVars, boundVars, TaskInv
<1>2. CASE AcceptSequence(p, st, k)
  <2>1. ThreadStep /\ floor' \in [Peers -> [Sessions -> [Streams -> 0 .. MaxSequence]]]
        /\ UNCHANGED <<senderVars, outbox, queued, send, inbox, subscribed, taken, unheard, boundVars>>
    BY <1>2, AcceptStep
  <2>2. SameRows /\ Kept /\ DueStays /\ conn' \in ConnTypes /\ StreamInv'
    BY <1>0, <2>1, OutboxSame, ThreadTypes
  <2>3. send' \in SendTypes /\ SendInv'
    BY <2>1, <2>2, SendStays
  <2> QED BY <2>1, <2>2, <2>3 DEF TypeInv, HearTypes, senderVars, boundVars, TaskInv
<1>3. CASE HandleReplay(p, st, k)
  <2>1. ThreadStep /\ inbox' \in [Peers -> Seq(InboxRows)]
        /\ UNCHANGED <<senderVars, outbox, queued, send, floor, subscribed, taken, unheard, boundVars>>
    BY <1>0, <1>3, ReplayStep DEF Drops, InboxOthers
  <2>2. SameRows /\ Kept /\ DueStays /\ conn' \in ConnTypes /\ StreamInv'
    BY <1>0, <2>1, OutboxSame, ThreadTypes
  <2>3. send' \in SendTypes /\ SendInv'
    BY <2>1, <2>2, SendStays
  <2> QED BY <2>1, <2>2, <2>3 DEF TypeInv, HearTypes, senderVars, boundVars, TaskInv
<1>4. CASE Activate(p, st, k)
  <2>1. ThreadStep /\ inbox' \in [Peers -> Seq(InboxRows)]
        /\ UNCHANGED <<senderVars, outbox, queued, send, floor, subscribed, taken, unheard, boundVars>>
    BY <1>4, ActivateStep DEF Marks, InboxOthers
  <2>2. SameRows /\ Kept /\ DueStays /\ conn' \in ConnTypes /\ StreamInv'
    BY <1>0, <2>1, OutboxSame, ThreadTypes
  <2>3. send' \in SendTypes /\ SendInv'
    BY <2>1, <2>2, SendStays
  <2> QED BY <2>1, <2>2, <2>3 DEF TypeInv, HearTypes, senderVars, boundVars, TaskInv
<1>5. CASE Acknowledge(p, st, k)
  <2>1. /\ ThreadStep /\ SameRows /\ send' \in SendTypes /\ SendInv'
        /\ UNCHANGED <<senderVars, queued, receiverVars, boundVars>>
    BY <1>5, AcknowledgeStep
  <2>2. conn' \in ConnTypes /\ StreamInv'
    BY <2>1, ThreadTypes
  <2> QED BY <2>1, <2>2 DEF TypeInv, HearTypes, senderVars, receiverVars, boundVars, TaskInv, SameRows, Kept
<1> QED BY <1>1, <1>2, <1>3, <1>4, <1>5 DEF Serve

LEMMA WorkTypes ==
    ASSUME TypeInv, NEW p \in Peers, Work(p)
    PROVE  TypeInv' /\ SameRows
<1>0. TypeOK
  BY TypeParts
<1>1. PICK i \in DOMAIN inbox[p] : ClaimRow(p, i) \/ FinishRow(p, i)
  BY DEF Work
<1>2. /\ inbox' \in [Peers -> Seq(InboxRows)] /\ taken' \in [Links -> Seq(Envelopes)]
      /\ HearTypes'
      /\ UNCHANGED <<senderVars, outbox, queued, send, conn, floor, boundVars>>
  <2>1. CASE ClaimRow(p, i)
    BY <2>1, ClaimStep DEF Marks, InboxOthers
  <2>2. CASE FinishRow(p, i)
    BY <2>2, FinishStep DEF Marks, InboxOthers, TypeInv, HearTypes
  <2> QED BY <1>1, <2>1, <2>2
<1>3. SameRows /\ Kept /\ DueStays /\ conn' \in ConnTypes /\ StreamInv'
  BY <1>0, <1>2, OutboxSame, ConnStays
<1>4. send' \in SendTypes /\ SendInv'
  BY <1>2, <1>3, SendStays
<1> QED BY <1>2, <1>3, <1>4 DEF TypeInv, senderVars, boundVars, TaskInv

LEMMA PeerRestartTypes ==
    ASSUME TypeInv, NEW p \in Peers, PeerRestarts(p)
    PROVE  TypeInv' /\ SameRows
<1>1. /\ Marks(p) /\ conn' \in ConnTypes
      /\ \A q \in Peers, st \in Streams, k \in Connections :
            conn'[q][st][k] = IF q = p THEN NoThread ELSE conn[q][st][k]
      /\ stops < MaxStops /\ stops' = stops + 1 /\ HearTypes'
      /\ UNCHANGED <<senderVars, outbox, queued, send, floor, taken, unheard, faults>>
  BY PeerRestartStep
<1>2. StreamInv'
  <2>1. ASSUME NEW q \in Peers, NEW st \in Streams, NEW k \in Connections,
               conn'[q][st][k] # NoThread
        PROVE  conn'[q][st][k].envelope.stream = st
    <3>1. conn'[q][st][k] = conn[q][st][k]
      BY <1>1, <2>1
    <3> QED BY <2>1, <3>1 DEF TypeInv, StreamInv
  <2> QED BY <2>1 DEF StreamInv
<1>3. SameRows /\ Kept /\ DueStays
  BY <1>1, TypeParts, OutboxSame
<1>4. send' \in SendTypes /\ SendInv'
  BY <1>1, <1>3, SendStays
<1>5. stops' \in 0..MaxStops
  BY <1>1, DeliveryAssumption DEF TypeInv
<1>6. inbox' \in [Peers -> Seq(InboxRows)]
  BY <1>1 DEF Marks, InboxOthers
<1> QED BY <1>1, <1>2, <1>3, <1>4, <1>5, <1>6 DEF TypeInv, senderVars, TaskInv

LEMMA SenderRestartTypes ==
    ASSUME TypeInv, SenderRestarts
    PROVE  TypeInv' /\ SameRows
<1>1. /\ session < MaxSessions /\ session' = session + 1
      /\ sequence' = [st \in Streams |-> 0]
      /\ task' = [t \in Publishers |-> Idle] /\ send' = [st \in Streams |-> NoSend]
      /\ UNCHANGED <<outbox, queued, conn, receiverVars, boundVars>>
  BY DEF SenderRestarts
<1>2. session' \in Sessions
  BY <1>1, DeliveryAssumption DEF TypeInv, Sessions
<1>3. sequence' \in [Streams -> 0 .. MaxSequence]
  BY <1>1, DeliveryAssumption
<1>4. Idle \in [at : {"idle", "numbered", "made", "flush"}, stream : Streams,
                sequence : 0 .. MaxSequence, to : SUBSET Peers] /\ Idle.at = "idle"
  BY DeliveryAssumption DEF Idle, Streams
<1>5. task' \in TaskTypes /\ TaskInv'
  BY <1>1, <1>4 DEF TaskTypes, TaskInv
<1>6. send' \in SendTypes /\ SendInv'
  BY <1>1 DEF SendTypes, SendInv
<1>7. SameRows /\ conn' \in ConnTypes /\ StreamInv'
  BY <1>1, TypeParts, OutboxSame, ConnStays
<1> QED BY <1>1, <1>2, <1>3, <1>5, <1>6, <1>7 DEF TypeInv, HearTypes, receiverVars, boundVars

LEMMA SubscribeTypes ==
    ASSUME TypeInv, NEW p \in Peers, Subscribe(p)
    PROVE  TypeInv' /\ SameRows
<1>1. /\ subscribed' = [subscribed EXCEPT ![p] = TRUE]
      /\ UNCHANGED <<senderVars, outbox, queued, send, conn, floor, inbox, taken, unheard,
                     boundVars>>
  BY DEF Subscribe
<1>2. HearTypes'
  BY <1>1 DEF TypeInv, HearTypes
<1>3. SameRows /\ Kept /\ DueStays /\ conn' \in ConnTypes /\ StreamInv'
  BY <1>1, TypeParts, OutboxSame, ConnStays
<1>4. send' \in SendTypes /\ SendInv'
  BY <1>1, <1>3, SendStays
<1> QED BY <1>1, <1>2, <1>3, <1>4 DEF TypeInv, senderVars, boundVars, TaskInv

LEMMA TypesAtFirst == Init => TypeInv
<1> SUFFICES ASSUME Init PROVE TypeInv
  OBVIOUS
<1>1. 0 \in 0..MaxSequence /\ 0 \in 0..MaxFaults /\ 0 \in 0..MaxStops /\ 1 \in Sessions
  BY DeliveryAssumption DEF Sessions
<1>2. Idle \in [at : {"idle", "numbered", "made", "flush"}, stream : Streams,
                sequence : 0 .. MaxSequence, to : SUBSET Peers] /\ Idle.at = "idle"
  BY <1>1 DEF Idle, Streams
<1>3. task \in TaskTypes /\ TaskInv
  BY <1>2 DEF Init, TaskTypes, TaskInv
<1>4. send \in SendTypes /\ SendInv
  BY DEF Init, SendTypes, SendInv
<1>5. conn \in ConnTypes /\ StreamInv
  BY DEF Init, ConnTypes, StreamInv
<1>6. /\ floor \in [Peers -> [Sessions -> [Streams -> 0 .. MaxSequence]]]
      /\ sequence \in [Streams -> 0 .. MaxSequence]
  BY <1>1 DEF Init
<1>7. /\ inbox \in [Peers -> Seq(InboxRows)] /\ outbox \in Seq(OutboxRows)
      /\ queued \in [Links -> Seq(Envelopes)] /\ taken \in [Links -> Seq(Envelopes)]
  BY DEF Init
<1>8. HearTypes
  BY DEF Init, HearTypes
<1> QED BY <1>1, <1>3, <1>4, <1>5, <1>6, <1>7, <1>8 DEF Init, TypeInv

(* Every step keeps the types and, unless it stores a publication, the     *)
(* rows of the outbox.                                                     *)
LEMMA TypesStep == TypeInv /\ [Next]_vars => TypeInv'
<1> SUFFICES ASSUME TypeInv, [Next]_vars PROVE TypeInv'
  OBVIOUS
<1>1. CASE UNCHANGED vars
  BY <1>1 DEF TypeInv, HearTypes, TaskInv, SendInv, StreamInv, vars, senderVars, receiverVars, boundVars
<1>2. CASE Next
  BY <1>2, PublishTypes, TransmitTypes, BackoffTypes, ServeTypes, WorkTypes,
     PeerRestartTypes, SubscribeTypes, SenderRestartTypes DEF Next
<1> QED BY <1>1, <1>2

(* Types, for any constants: numbers, sessions, rows and threads stay in   *)
(* their ranges whatever is lost, retried or restarted.                    *)
THEOREM TypeCorrect == Spec => []TypeOK
<1>1. Spec => []TypeInv
  BY TypesAtFirst, TypesStep, PTL DEF Spec
<1> QED BY <1>1, TypeParts, PTL

-----------------------------------------------------------------------------
(* The outbox and its safety reserve.                                      *)

(* A publication stores its rows.                                          *)
Stores(t) ==
    /\ task[t].at = "made" /\ Fits(task[t].stream, Cardinality(task[t].to)) /\ ~Clashes(t)
    /\ outbox' = outbox \o RowsOf(t)
    /\ queued' = [l \in Links |->
                    IF \E p \in task[t].to : l = LinkOf(p, Envelope(t))
                    THEN Append(queued[l], Envelope(t)) ELSE queued[l]]
    /\ task' = [task EXCEPT ![t].at = "flush"]
    /\ UNCHANGED <<session, sequence, send, conn, receiverVars, boundVars>>

(* Only a publication adds rows.                                           *)
LEMMA OutboxStep ==
    ASSUME TypeInv, [Next]_vars
    PROVE  \/ SameRows /\ queued' = queued
           \/ \E t \in Publishers : Stores(t)
<1>0. TypeOK
  BY TypeParts
<1>1. CASE UNCHANGED vars
  BY <1>0, <1>1, OutboxSame DEF vars
<1>2. ASSUME NEW t \in Publishers, Publish(t)
      PROVE  (SameRows /\ queued' = queued) \/ Stores(t)
  <2>1. CASE Enqueue(t)
    <3>1. Stores(t) \/ (outbox' = outbox /\ queued' = queued)
      BY <2>1 DEF Enqueue, Stores
    <3> QED BY <1>0, <3>1, OutboxSame
  <2>2. CASE ~Enqueue(t)
    <3>1. outbox' = outbox /\ queued' = queued
      BY <1>2, <2>2 DEF Publish, Number, MakeEnvelope, FlushEnds
    <3> QED BY <1>0, <3>1, OutboxSame
  <2> QED BY <2>1, <2>2
<1>3. ASSUME NEW st \in Streams, Transmit(st)
      PROVE  SameRows /\ queued' = queued
  BY <1>3, TransmitTypes DEF Transmit, Connect, ConnectFails, SendTimesOut, SendFails
<1>4. ASSUME NEW i \in DOMAIN outbox, BackoffElapses(i)
      PROVE  SameRows /\ queued' = queued
  BY <1>4, BackoffTypes DEF BackoffElapses
<1>5. ASSUME NEW p \in Peers, NEW st \in Streams, NEW k \in Connections, Serve(p, st, k)
      PROVE  SameRows /\ queued' = queued
  BY <1>5, ServeTypes DEF Serve, Stage, AcceptSequence, HandleReplay, Activate, Acknowledge
<1>6. ASSUME NEW p \in Peers, Work(p)
      PROVE  SameRows /\ queued' = queued
  BY <1>6, WorkTypes DEF Work, ClaimRow, FinishRow
<1>7. ASSUME NEW p \in Peers, PeerRestarts(p)
      PROVE  SameRows /\ queued' = queued
  BY <1>7, PeerRestartTypes DEF PeerRestarts
<1>8. CASE SenderRestarts
  BY <1>8, SenderRestartTypes DEF SenderRestarts
<1>9. ASSUME NEW p \in Peers, Subscribe(p)
      PROVE  SameRows /\ queued' = queued
  BY <1>9, SubscribeTypes DEF Subscribe
<1> QED BY <1>1, <1>2, <1>3, <1>4, <1>5, <1>6, <1>7, <1>8, <1>9 DEF Next

(* The pending rows of some streams, by their places in the outbox.        *)
PendingRows(Sts) ==
    {i \in DOMAIN outbox : Pending(outbox[i]) /\ outbox[i].envelope.stream \in Sts}

LEMMA PendingFinite ==
    ASSUME TypeInv, NEW Sts
    PROVE  /\ IsFiniteSet(PendingRows(Sts)) /\ PendingOn(Sts) = Cardinality(PendingRows(Sts))
           /\ PendingOn(Sts) \in Nat
<1>1. Len(outbox) \in Nat /\ DOMAIN outbox = 1..Len(outbox)
  BY DEF TypeInv
<1>2. IsFiniteSet(DOMAIN outbox)
  BY <1>1, FS_Interval
<1>3. PendingRows(Sts) \subseteq DOMAIN outbox
  BY DEF PendingRows
<1>4. IsFiniteSet(PendingRows(Sts))
  BY <1>2, <1>3, FS_Subset
<1> QED BY <1>4, FS_CardinalityType DEF PendingOn, PendingRows

LEMMA ReserveStep == TypeInv /\ TypeInv' /\ ReserveInv /\ [Next]_vars => ReserveInv'
<1> SUFFICES ASSUME TypeInv, TypeInv', ReserveInv, [Next]_vars PROVE ReserveInv'
  OBVIOUS
<1>1. PICK A, B : A = PendingRows({"operational"}) /\ B = PendingRows({"operational"})'
  OBVIOUS
<1>2. /\ IsFiniteSet(A) /\ PendingOn({"operational"}) = Cardinality(A) /\ Cardinality(A) \in Nat
  BY <1>1, PendingFinite
<1>3. PendingOn({"operational"})' = Cardinality(B)
  BY <1>1 DEF PendingOn, PendingRows
<1>4. MaxPending \in Nat /\ SafetyReserve \in Nat
  BY DeliveryAssumption
<1>5. CASE SameRows
  <2>1. B \subseteq A
    BY <1>1, <1>5 DEF PendingRows, Pending, SameRows, Kept
  <2>2. Cardinality(B) \in Nat /\ Cardinality(B) <= Cardinality(A)
    BY <1>2, <2>1, FS_Subset, FS_CardinalityType
  <2> QED BY <1>2, <1>3, <1>4, <2>2 DEF ReserveInv
<1>6. ASSUME NEW t \in Publishers, Stores(t)
      PROVE  ReserveInv'
  <2>1. PICK n, st : n = Cardinality(task[t].to) /\ st = task[t].stream
    OBVIOUS
  <2>2. /\ n \in Nat /\ Len(outbox) \in Nat /\ DOMAIN outbox = 1..Len(outbox)
        /\ DOMAIN outbox' = 1..Len(outbox) + n
        /\ \A i \in DOMAIN outbox : outbox'[i] = outbox[i]
        /\ \A i \in DOMAIN outbox' \ DOMAIN outbox : outbox'[i].envelope = Envelope(t)
    <3>1. task[t].at = "made" /\ outbox' = outbox \o RowsOf(t)
      BY <1>6 DEF Stores
    <3>2. Len(outbox) \in Nat /\ DOMAIN outbox = 1..Len(outbox)
      BY DEF TypeInv
    <3> QED BY <2>1, <3>1, <3>2, Published
  <2>3. Cardinality(A) + (IF st = "operational" THEN n ELSE 0) <= MaxPending - SafetyReserve
    BY <1>2, <1>6, <2>1 DEF Stores, Fits
  <2>4. Envelope(t).stream = st
    BY <2>1 DEF Envelope
  <2>5. CASE st = "operational"
    <3>1. PICK N : N = Len(outbox) + 1..Len(outbox) + n
      OBVIOUS
    <3>2. IsFiniteSet(N) /\ Cardinality(N) = n
      BY <2>2, <3>1, FS_Interval
    <3>3. B \subseteq A \cup N
      <4>1. \A i \in B : i \in DOMAIN outbox' /\ (i \in DOMAIN outbox => i \in A)
        BY <1>1, <2>2 DEF PendingRows
      <4>2. \A i \in DOMAIN outbox' : i \notin DOMAIN outbox => i \in N
        BY <2>2, <3>1
      <4> QED BY <4>1, <4>2
    <3>4. /\ IsFiniteSet(A \cup N) /\ Cardinality(A \cup N) <= Cardinality(A) + n
          /\ Cardinality(A \cup N) \in Nat
      <4>1. IsFiniteSet(A \cap N) /\ Cardinality(A \cap N) \in Nat
        BY <1>2, FS_Intersection, FS_CardinalityType
      <4>2. /\ IsFiniteSet(A \cup N)
            /\ Cardinality(A \cup N) = Cardinality(A) + Cardinality(N) - Cardinality(A \cap N)
        BY <1>2, <3>2, FS_Union
      <4> QED BY <1>2, <2>2, <3>2, <4>1, <4>2, FS_CardinalityType
    <3>5. Cardinality(B) \in Nat /\ Cardinality(B) <= Cardinality(A \cup N)
      BY <3>3, <3>4, FS_Subset, FS_CardinalityType
    <3> QED BY <1>2, <1>3, <1>4, <2>2, <2>3, <2>5, <3>4, <3>5 DEF ReserveInv
  <2>6. CASE st # "operational"
    <3>1. B \subseteq A
      BY <1>1, <2>2, <2>4, <2>6 DEF PendingRows
    <3>2. Cardinality(B) \in Nat /\ Cardinality(B) <= Cardinality(A)
      BY <1>2, <3>1, FS_Subset, FS_CardinalityType
    <3> QED BY <1>2, <1>3, <1>4, <2>3, <2>6, <3>2 DEF ReserveInv
  <2> QED BY <2>5, <2>6
<1> QED BY <1>5, <1>6, OutboxStep

(* What is left to the safety stream.                                      *)
LEMMA ReserveLeft == TypeInv /\ ReserveInv => SafetyReserved
<1> SUFFICES ASSUME TypeInv, ReserveInv, NEW S \in Disclosures,
                    PendingOn({"safety"}) + Cardinality(S) <= SafetyReserve
             PROVE  Fits("safety", Cardinality(S))
  BY DEF SafetyReserved
<1>1. PICK A, B, C : /\ A = PendingRows({"operational"}) /\ B = PendingRows({"safety"})
                     /\ C = PendingRows(Streams)
  OBVIOUS
<1>2. /\ IsFiniteSet(A) /\ PendingOn({"operational"}) = Cardinality(A) /\ Cardinality(A) \in Nat
      /\ IsFiniteSet(B) /\ PendingOn({"safety"}) = Cardinality(B) /\ Cardinality(B) \in Nat
      /\ IsFiniteSet(C) /\ PendingOn(Streams) = Cardinality(C) /\ Cardinality(C) \in Nat
  BY <1>1, PendingFinite
<1>3. C = A \cup B /\ A \cap B = {}
  BY <1>1 DEF PendingRows, Streams
<1>4. Cardinality(C) = Cardinality(A) + Cardinality(B)
  <2>1. Cardinality(A \cup B) = Cardinality(A) + Cardinality(B) - Cardinality(A \cap B)
    BY <1>2, FS_Union
  <2>2. Cardinality(A \cap B) = 0
    BY <1>3, FS_EmptySet
  <2> QED BY <1>2, <1>3, <2>1, <2>2
<1>5. Cardinality(S) \in Nat
  BY DeliveryAssumption, FS_Subset, FS_CardinalityType
<1>6. MaxPending \in Nat /\ SafetyReserve \in Nat
  BY DeliveryAssumption
<1> QED BY <1>2, <1>4, <1>5, <1>6 DEF Fits, ReserveInv

(* The safety reserve: however long the operational backlog, enqueue_many  *)
(* takes a safety publication while safety rows leave room in the reserve. *)
THEOREM ReserveKept == Spec => []SafetyReserved
<1>1. Init => TypeInv /\ ReserveInv
  <2> SUFFICES ASSUME Init PROVE ReserveInv
    BY TypesAtFirst
  <2>1. PendingRows({"operational"}) = {}
    BY DEF Init, PendingRows
  <2>2. PendingOn({"operational"}) = 0
    BY <2>1, FS_EmptySet DEF PendingOn, PendingRows
  <2> QED BY <2>2, DeliveryAssumption DEF ReserveInv
<1>2. TypeInv /\ ReserveInv /\ [Next]_vars => (TypeInv /\ ReserveInv)'
  BY TypesStep, ReserveStep
<1>3. TypeInv /\ ReserveInv => SafetyReserved
  BY ReserveLeft
<1> QED BY <1>1, <1>2, <1>3, PTL DEF Spec

-----------------------------------------------------------------------------
(* The order of the rows under the publication lock.                       *)

(* What the rows of the outbox are.                                        *)
LEMMA OutboxIs ==
    ASSUME TypeInv
    PROVE  /\ Len(outbox) \in Nat /\ DOMAIN outbox = 1..Len(outbox)
           /\ \A i \in DOMAIN outbox :
                 /\ outbox[i].peer \in Peers /\ outbox[i].envelope \in Envelopes
                 /\ outbox[i].envelope.session \in Nat
                 /\ outbox[i].envelope.sequence \in Nat
                 /\ outbox[i].envelope.stream \in Streams
<1>1. outbox \in Seq(OutboxRows)
  BY DEF TypeInv
<1>2. Len(outbox) \in Nat /\ DOMAIN outbox = 1..Len(outbox)
  BY <1>1
<1>3. \A i \in DOMAIN outbox : outbox[i] \in OutboxRows
  BY <1>1
<1>4. \A e \in Envelopes : e.session \in Nat /\ e.sequence \in Nat /\ e.stream \in Streams
  BY DeliveryAssumption DEF Envelopes, Sessions
<1> QED BY <1>2, <1>3, <1>4 DEF OutboxRows

(* One publisher's step, seen from all of them.                            *)
LEMMA TaskTo ==
    ASSUME TypeInv, NEW t \in Publishers, NEW a, NEW st, NEW n, NEW S,
           TaskBecomes(t, a, st, n, S)
    PROVE  /\ \A u \in Publishers : u # t => task'[u] = task[u]
           /\ task'[t].at = a /\ task'[t].stream = st /\ task'[t].sequence = n
<1>1. PICK e : e = [at |-> a, stream |-> st, sequence |-> n, to |-> S]
  OBVIOUS
<1>2. e.at = a /\ e.stream = st /\ e.sequence = n
  BY <1>1
<1>3. task \in TaskTypes /\ task' = [task EXCEPT ![t] = e]
  BY <1>1 DEF TypeInv, TaskBecomes
<1>4. \A u \in Publishers : task'[u] = IF u = t THEN e ELSE task[u]
  BY <1>3 DEF TaskTypes
<1> QED BY <1>2, <1>4

(* Steps of nobody who publishes.                                          *)
LEMMA OrderQuiet ==
    ASSUME OrderInv, SameRows, UNCHANGED senderVars
    PROVE  OrderInv'
<1>1. /\ DOMAIN outbox' = DOMAIN outbox
      /\ \A i \in DOMAIN outbox : /\ outbox'[i].peer = outbox[i].peer
                                  /\ outbox'[i].envelope = outbox[i].envelope
  BY DEF SameRows, Kept
<1>2. session' = session /\ sequence' = sequence /\ task' = task
  BY DEF senderVars
<1>3. OneAtWork' /\ EnvelopeIsNumber'
  BY <1>2 DEF OneAtWork, EnvelopeIsNumber, OrderInv, NumberInv
<1>4. CounterIsLatest'
  BY <1>1, <1>2 DEF CounterIsLatest, LatestOf, OrderInv, NumberInv
<1>5. NumberIsNew'
  BY <1>1, <1>2 DEF NumberIsNew, LatestOf, OrderInv, NumberInv
<1>6. SequencesIncrease'
  BY <1>1 DEF SequencesIncrease, LinkOf, OrderInv
<1> QED BY <1>3, <1>4, <1>5, <1>6 DEF OrderInv, NumberInv

(* A new number is higher than all the rows of its session and stream.     *)
LEMMA OrderNumber ==
    ASSUME PublishLocked, TypeInv, OrderInv, NEW t \in Publishers, NEW st \in Streams,
           NEW D \in Disclosures, Number(t, st, D)
    PROVE  OrderInv'
<1>1. /\ \A u \in Publishers : task[u].at = "idle"
      /\ sequence' = [sequence EXCEPT ![st] = @ + 1]
      /\ TaskBecomes(t, "numbered", st, 0, D)
      /\ session' = session /\ outbox' = outbox
  BY DEF Number, MayPublish, TaskBecomes
<1>2. /\ \A u \in Publishers : u # t => task'[u] = task[u]
      /\ task'[t].at = "numbered" /\ task'[t].stream = st
  BY <1>1, TaskTo
<1>3. /\ sequence \in [Streams -> 0..MaxSequence] /\ MaxSequence \in Nat
      /\ \A r \in Streams : sequence[r] \in Nat
  BY DeliveryAssumption DEF TypeInv
<1>4. /\ sequence'[st] = sequence[st] + 1
      /\ \A r \in Streams : r # st => sequence'[r] = sequence[r]
  BY <1>1, <1>3
<1>5. OneAtWork' /\ EnvelopeIsNumber'
  BY <1>1, <1>2 DEF OneAtWork, EnvelopeIsNumber
<1>6. ASSUME NEW i \in DOMAIN outbox
      PROVE  /\ outbox[i].envelope.session <= session
             /\ \A r \in Streams : LatestOf(i, r) =>
                   /\ outbox[i].envelope.sequence \in Nat
                   /\ outbox[i].envelope.sequence <= sequence[r]
  BY OutboxIs DEF OrderInv, NumberInv, CounterIsLatest
<1>7. CounterIsLatest'
  BY <1>1, <1>3, <1>4, <1>6 DEF CounterIsLatest, LatestOf
<1>8. NumberIsNew'
  <2> SUFFICES ASSUME NEW u \in Publishers, task'[u].at \in {"numbered", "made"},
                      NEW i \in DOMAIN outbox, LatestOf(i, task'[u].stream)
               PROVE  outbox[i].envelope.sequence < sequence'[task'[u].stream]
    BY <1>1 DEF NumberIsNew, LatestOf
  <2>1. u = t
    BY <1>1, <1>2
  <2> QED BY <1>2, <1>3, <1>4, <1>6, <2>1
<1>9. SequencesIncrease'
  BY <1>1 DEF OrderInv, SequencesIncrease
<1> QED BY <1>5, <1>7, <1>8, <1>9 DEF OrderInv, NumberInv

LEMMA OrderMake ==
    ASSUME TypeInv, OrderInv, NEW t \in Publishers, MakeEnvelope(t)
    PROVE  OrderInv'
<1>1. PICK n, r, S : n = sequence[task[t].stream] /\ r = task[t].stream /\ S = task[t].to
  OBVIOUS
<1>2. /\ task[t].at = "numbered" /\ TaskBecomes(t, "made", r, n, S)
      /\ session' = session /\ sequence' = sequence /\ outbox' = outbox
  BY <1>1, TaskAt DEF MakeEnvelope, TaskBecomes
<1>3. /\ \A u \in Publishers : u # t => task'[u] = task[u]
      /\ task'[t].at = "made" /\ task'[t].stream = r /\ task'[t].sequence = n
  BY <1>2, TaskTo
<1>4. OneAtWork' /\ EnvelopeIsNumber'
  BY <1>1, <1>2, <1>3 DEF OneAtWork, EnvelopeIsNumber, OrderInv, NumberInv
<1>5. CounterIsLatest' /\ SequencesIncrease'
  BY <1>2 DEF CounterIsLatest, LatestOf, SequencesIncrease, OrderInv, NumberInv
<1>6. NumberIsNew'
  <2> SUFFICES ASSUME NEW u \in Publishers, task'[u].at \in {"numbered", "made"},
                      NEW i \in DOMAIN outbox, LatestOf(i, task'[u].stream)
               PROVE  outbox[i].envelope.sequence < sequence[task'[u].stream]
    BY <1>2 DEF NumberIsNew, LatestOf
  <2>1. task[u].at \in {"numbered", "made"} /\ task'[u].stream = task[u].stream
    BY <1>1, <1>2, <1>3
  <2> QED BY <2>1 DEF OrderInv, NumberInv, NumberIsNew
<1> QED BY <1>4, <1>5, <1>6 DEF OrderInv, NumberInv

(* A publisher that is at work no more.                                    *)
LEMMA OrderIdle ==
    ASSUME TypeInv, OrderInv, NEW t \in Publishers, outbox' = outbox,
           task' = [task EXCEPT ![t] = Idle], session' = session, sequence' = sequence
    PROVE  OrderInv'
<1>1. TaskBecomes(t, "idle", "operational", 0, {})
  BY DEF Idle, TaskBecomes
<1>2. (\A u \in Publishers : u # t => task'[u] = task[u]) /\ task'[t].at = "idle"
  BY <1>1, TaskTo
<1>3. OneAtWork' /\ EnvelopeIsNumber'
  BY <1>2 DEF OneAtWork, EnvelopeIsNumber, OrderInv, NumberInv
<1>4. CounterIsLatest' /\ SequencesIncrease'
  BY DEF CounterIsLatest, LatestOf, SequencesIncrease, OrderInv, NumberInv
<1>5. NumberIsNew'
  BY <1>2 DEF NumberIsNew, LatestOf, OrderInv, NumberInv
<1> QED BY <1>3, <1>4, <1>5 DEF OrderInv, NumberInv

(* A publication is behind everything on its links.                        *)
LEMMA StoresBehind ==
    ASSUME TypeInv, OrderInv, NEW t \in Publishers, Stores(t),
           NEW i \in DOMAIN outbox, LatestOf(i, task[t].stream)
    PROVE  outbox[i].envelope.sequence < Envelope(t).sequence
<1>1. task[t].at = "made"
  BY DEF Stores
<1>2. /\ outbox[i].envelope.sequence < sequence[task[t].stream]
      /\ task[t].sequence = sequence[task[t].stream]
  BY <1>1 DEF OrderInv, NumberInv, NumberIsNew, EnvelopeIsNumber
<1> QED BY <1>2 DEF Envelope

LEMMA OrderStores ==
    ASSUME TypeInv, OrderInv, NEW t \in Publishers, Stores(t)
    PROVE  OrderInv'
<1>1. PICK m, n : m = Envelope(t) /\ n = task[t].sequence
  OBVIOUS
<1>2. /\ task[t].at = "made" /\ outbox' = outbox \o RowsOf(t)
      /\ task' = [task EXCEPT ![t].at = "flush"]
      /\ session' = session /\ sequence' = sequence
  BY DEF Stores
<1>3. /\ m.session = session /\ m.stream = task[t].stream /\ m.sequence = n
      /\ n = sequence[task[t].stream] /\ task[t].stream \in Streams
      /\ session \in Nat /\ \A r \in Streams : sequence[r] \in Nat
  BY <1>1, <1>2, TaskIs, DeliveryAssumption
     DEF Envelope, TypeInv, OrderInv, NumberInv, EnvelopeIsNumber, Sessions
<1>4. \A i \in DOMAIN outbox : LatestOf(i, task[t].stream) => outbox[i].envelope.sequence < n
  BY <1>1, <1>3, StoresBehind
<1>5. /\ \A i \in DOMAIN outbox : i \in DOMAIN outbox' /\ outbox'[i] = outbox[i]
      /\ \A i \in DOMAIN outbox' : i \notin DOMAIN outbox =>
            i > Len(outbox) /\ outbox'[i].envelope = m
      /\ \A i, j \in DOMAIN outbox' : i \notin DOMAIN outbox /\ j \notin DOMAIN outbox =>
            (outbox'[i].peer = outbox'[j].peer => i = j)
      /\ \A i \in DOMAIN outbox' : i \in Nat
  BY <1>1, <1>2, Published, OutboxIs DEF Kept
<1>6. /\ \A u \in Publishers : u # t => task'[u] = task[u]
      /\ task'[t].at = "flush"
  <2>1. PICK r, S : r = task[t].stream /\ S = task[t].to
    OBVIOUS
  <2>2. TaskBecomes(t, "flush", r, n, S)
    BY <1>1, <1>2, <2>1, TaskAt DEF TaskBecomes
  <2> QED BY <2>2, TaskTo
<1>7. \A u \in Publishers : u # t => task'[u].at = "idle"
  BY <1>2, <1>6 DEF OrderInv, NumberInv, OneAtWork
<1>8. OneAtWork' /\ EnvelopeIsNumber' /\ NumberIsNew'
  BY <1>6, <1>7 DEF OneAtWork, EnvelopeIsNumber, NumberIsNew
<1>9. CounterIsLatest'
  <2> SUFFICES ASSUME NEW i \in DOMAIN outbox'
               PROVE  /\ outbox'[i].envelope.session <= session
                      /\ \A st \in Streams :
                            /\ outbox'[i].envelope.session = session
                            /\ outbox'[i].envelope.stream = st
                            => outbox'[i].envelope.sequence <= sequence[st]
    BY <1>2 DEF CounterIsLatest, LatestOf
  <2>1. CASE i \in DOMAIN outbox
    BY <1>5, <2>1 DEF OrderInv, NumberInv, CounterIsLatest, LatestOf
  <2>2. CASE i \notin DOMAIN outbox
    BY <1>3, <1>5, <2>2
  <2> QED BY <2>1, <2>2
<1>10. SequencesIncrease'
  <2> SUFFICES ASSUME NEW i \in DOMAIN outbox', NEW j \in DOMAIN outbox', i < j,
                      LinkOf(outbox'[i].peer, outbox'[i].envelope)
                         = LinkOf(outbox'[j].peer, outbox'[j].envelope)
               PROVE  outbox'[i].envelope.sequence < outbox'[j].envelope.sequence
    BY DEF SequencesIncrease
  <2>1. /\ outbox'[i].peer = outbox'[j].peer
        /\ outbox'[i].envelope.session = outbox'[j].envelope.session
        /\ outbox'[i].envelope.stream = outbox'[j].envelope.stream
    BY DEF LinkOf
  <2>2. CASE j \in DOMAIN outbox
    <3>1. i \in DOMAIN outbox
      BY <1>5, <2>2, OutboxIs
    <3> QED BY <1>5, <2>2, <3>1 DEF OrderInv, SequencesIncrease
  <2>3. CASE j \notin DOMAIN outbox
    <3>1. i \in DOMAIN outbox
      BY <1>5, <2>1, <2>3
    <3>2. LatestOf(i, task[t].stream)
      BY <1>3, <1>5, <2>1, <2>3, <3>1 DEF LatestOf
    <3> QED BY <1>3, <1>4, <1>5, <2>3, <3>1, <3>2
  <2> QED BY <2>2, <2>3
<1> QED BY <1>8, <1>9, <1>10 DEF OrderInv, NumberInv

LEMMA OrderRestart ==
    ASSUME TypeInv, OrderInv, SenderRestarts
    PROVE  OrderInv'
<1>1. /\ session' = session + 1 /\ outbox' = outbox /\ task' = [t \in Publishers |-> Idle]
      /\ session \in Nat
  BY DeliveryAssumption DEF SenderRestarts, TypeInv, Sessions
<1>2. \A t \in Publishers : task'[t].at = "idle"
  BY <1>1 DEF Idle
<1>3. OneAtWork' /\ EnvelopeIsNumber' /\ NumberIsNew'
  BY <1>2 DEF OneAtWork, EnvelopeIsNumber, NumberIsNew
<1>4. \A i \in DOMAIN outbox : /\ outbox[i].envelope.session \in Nat
                              /\ outbox[i].envelope.session <= session
  BY OutboxIs DEF OrderInv, NumberInv, CounterIsLatest
<1>5. CounterIsLatest'
  BY <1>1, <1>4 DEF CounterIsLatest, LatestOf
<1>6. SequencesIncrease'
  BY <1>1 DEF OrderInv, SequencesIncrease
<1> QED BY <1>3, <1>5, <1>6 DEF OrderInv, NumberInv

LEMMA OrderStep ==
    ASSUME PublishLocked, TypeInv, OrderInv, [Next]_vars
    PROVE  OrderInv'
<1>1. ASSUME NEW t \in Publishers, Publish(t) PROVE OrderInv'
  <2>1. CASE \E st \in Streams, D \in Disclosures : Number(t, st, D)
    BY <2>1, OrderNumber
  <2>2. CASE MakeEnvelope(t)
    BY <2>2, OrderMake
  <2>3. CASE Enqueue(t)
    <3>1. \/ Stores(t)
          \/ /\ outbox' = outbox /\ task' = [task EXCEPT ![t] = Idle]
             /\ session' = session /\ sequence' = sequence
      BY <2>3 DEF Enqueue, Stores
    <3> QED BY <3>1, OrderStores, OrderIdle
  <2>4. CASE FlushEnds(t)
    <3>1. /\ outbox' = outbox /\ task' = [task EXCEPT ![t] = Idle]
          /\ session' = session /\ sequence' = sequence
      BY <2>4 DEF FlushEnds
    <3> QED BY <3>1, OrderIdle
  <2> QED BY <1>1, <2>1, <2>2, <2>3, <2>4 DEF Publish
<1>2. CASE SenderRestarts
  BY <1>2, OrderRestart
<1>3. CASE ~SenderRestarts /\ ~(\E t \in Publishers : Publish(t))
  <2>1. UNCHANGED senderVars
    <3>1. CASE UNCHANGED vars
      BY <3>1 DEF vars
    <3>2. ASSUME NEW st \in Streams, Transmit(st) PROVE UNCHANGED senderVars
      BY <3>2 DEF Transmit, Connect, ConnectFails, SendTimesOut, SendFails
    <3>3. ASSUME NEW i \in DOMAIN outbox, BackoffElapses(i) PROVE UNCHANGED senderVars
      BY <3>3 DEF BackoffElapses
    <3>4. ASSUME NEW p \in Peers, NEW st \in Streams, NEW k \in Connections, Serve(p, st, k)
          PROVE  UNCHANGED senderVars
      BY <3>4 DEF Serve, Stage, AcceptSequence, HandleReplay, Activate, Acknowledge
    <3>5. ASSUME NEW p \in Peers, Work(p) \/ PeerRestarts(p) \/ Subscribe(p)
          PROVE  UNCHANGED senderVars
      BY <3>5 DEF Work, ClaimRow, FinishRow, PeerRestarts, Subscribe
    <3> QED BY <1>3, <3>1, <3>2, <3>3, <3>4, <3>5 DEF Next
  <2>2. CASE \E t \in Publishers : Stores(t)
    <3>1. PICK t \in Publishers : Stores(t)
      BY <2>2
    <3> QED BY <3>1, OrderStores
  <2> QED BY <2>1, <2>2, OutboxStep, OrderQuiet
<1> QED BY <1>1, <1>2, <1>3

LEMMA OrderAtFirst == Init => OrderInv
<1> SUFFICES ASSUME Init PROVE OrderInv
  OBVIOUS
<1>1. \A t \in Publishers : task[t].at = "idle"
  BY DEF Init, Idle
<1>2. DOMAIN outbox = {}
  BY DEF Init
<1> QED
  BY <1>1, <1>2 DEF OrderInv, NumberInv, OneAtWork, CounterIsLatest, NumberIsNew,
     EnvelopeIsNumber, SequencesIncrease

LEMMA OrderHolds ==
    ASSUME PublishLocked
    PROVE  Spec => [](TypeInv /\ OrderInv)
<1>1. Init => TypeInv /\ OrderInv
  BY TypesAtFirst, OrderAtFirst
<1>2. TypeInv /\ OrderInv /\ [Next]_vars => (TypeInv /\ OrderInv)'
  BY TypesStep, OrderStep
<1> QED BY <1>1, <1>2, PTL DEF Spec

(* With the publication lock of Participant._send, from the numbering to   *)
(* the end of the flush, the rows for a peer are in the order of their     *)
(* numbers in every session and stream.                                    *)
THEOREM LockedPublicationOrdered ==
    ASSUME PublishLocked
    PROVE  Spec => []SequencesIncrease
<1>1. OrderInv => SequencesIncrease
  BY DEF OrderInv
<1> QED BY <1>1, OrderHolds, PTL

-----------------------------------------------------------------------------
(* Durability with one connection thread per peer and stream.              *)

(* Row i of peer q, or one like it, is there after the step.               *)
Lasting(q, i) ==
    \E j \in DOMAIN inbox'[q] :
       /\ inbox'[q][j].envelope = inbox[q][i].envelope
       /\ inbox[q][i].status # "staged" => inbox'[q][j].status # "staged"
AllLast == \A q \in Peers : \A i \in DOMAIN inbox[q] : Lasting(q, i)
LastBut(p, m) ==
    \A q \in Peers : \A i \in DOMAIN inbox[q] :
       \/ Lasting(q, i)
       \/ q = p /\ inbox[q][i].status = "staged" /\ inbox[q][i].envelope = m
HasNext(q, m) == \E j \in DOMAIN inbox'[q] : inbox'[q][j].envelope = m
AvailableNext(q, m) ==
    \E j \in DOMAIN inbox'[q] : inbox'[q][j].envelope = m /\ inbox'[q][j].status # "staged"

LEMMA LastSame ==
    ASSUME inbox' = inbox
    PROVE  AllLast
BY DEF AllLast, Lasting

LEMMA LastGrows ==
    ASSUME NEW p \in Peers, NEW m, Grows(p, m)
    PROVE  AllLast /\ HasNext(p, m)
<1>1. ASSUME NEW q \in Peers, NEW i \in DOMAIN inbox[q] PROVE Lasting(q, i)
  <2>1. CASE q = p
    <3>1. i \in DOMAIN inbox'[p] /\ inbox'[p][i] = inbox[p][i]
      BY <1>1, <2>1 DEF Grows
    <3> QED BY <2>1, <3>1 DEF Lasting
  <2>2. CASE q # p
    BY <2>2 DEF Grows, InboxOthers, Lasting
  <2> QED BY <2>1, <2>2
<1>2. HasNext(p, m)
  <2>1. PICK n : n = Len(inbox[p]) + 1
    OBVIOUS
  <2>2. /\ n \in DOMAIN inbox'[p] /\ inbox'[p][n] = [envelope |-> m, status |-> "staged"]
    BY <2>1 DEF Grows
  <2> QED BY <2>2 DEF HasNext
<1> QED BY <1>1, <1>2 DEF AllLast

LEMMA LastMarks ==
    ASSUME NEW p \in Peers, Marks(p),
           \A i \in DOMAIN inbox[p] : inbox[p][i].status # "staged" => inbox'[p][i].status # "staged"
    PROVE  AllLast
<1>1. ASSUME NEW q \in Peers, NEW i \in DOMAIN inbox[q] PROVE Lasting(q, i)
  <2>1. CASE q = p
    BY <1>1, <2>1 DEF Marks, Lasting
  <2>2. CASE q # p
    BY <2>2 DEF Marks, InboxOthers, Lasting
  <2> QED BY <2>1, <2>2
<1> QED BY <1>1 DEF AllLast

LEMMA LastDrops ==
    ASSUME NEW p \in Peers, NEW m, Drops(p, m)
    PROVE  LastBut(p, m)
<1>1. ASSUME NEW q \in Peers, NEW i \in DOMAIN inbox[q],
             ~(q = p /\ inbox[q][i].status = "staged" /\ inbox[q][i].envelope = m)
      PROVE  Lasting(q, i)
  <2>1. CASE q = p
    <3>1. PICK a \in DOMAIN inbox'[p] : inbox'[p][a] = inbox[p][i]
      BY <1>1, <2>1 DEF Drops
    <3> QED BY <2>1, <3>1 DEF Lasting
  <2>2. CASE q # p
    BY <2>2 DEF Drops, InboxOthers, Lasting
  <2> QED BY <2>1, <2>2
<1> QED BY <1>1 DEF LastBut

(* Rows that are there, and available, stay so.                            *)
LEMMA RowStays ==
    ASSUME NEW q \in Peers, NEW m, RowOf(q, m) # {},
           \A i \in DOMAIN inbox[q] : Lasting(q, i) \/ inbox[q][i].envelope # m
    PROVE  HasNext(q, m)
BY DEF RowOf, Lasting, HasNext

LEMMA AvailableStays ==
    ASSUME NEW q \in Peers, NEW m, Available(q, m),
           \A i \in DOMAIN inbox[q] : Lasting(q, i) \/ inbox[q][i].status = "staged"
    PROVE  AvailableNext(q, m)
BY DEF Available, RowOf, Lasting, AvailableNext

(* The thread of peer q holds what it must after the step.                 *)
HoldsNext(q, c) ==
    /\ c.at \in {"staged", "refused", "kept"} => HasNext(q, c.envelope)
    /\ c.at = "ack" => AvailableNext(q, c.envelope)

LEMMA ThreadsHold ==
    ASSUME \A q \in Peers, r \in Streams, j \in Connections : HoldsNext(q, conn'[q][r][j])
    PROVE  ThreadInv'
BY DEF ThreadInv, HoldsNext, HasNext, AvailableNext, Available, RowOf

(* What is acknowledged is available after the step.                       *)
LEMMA AckedHold ==
    ASSUME \A i \in DOMAIN outbox' : outbox'[i].status = "delivered" =>
              AvailableNext(outbox'[i].peer, outbox'[i].envelope)
    PROVE  AckedIsDurable'
BY DEF AckedIsDurable, AvailableNext, RowOf

(* No row is newly acknowledged.                                           *)
NoneDelivered ==
    \A i \in DOMAIN outbox' : outbox'[i].status = "delivered" =>
       /\ i \in DOMAIN outbox /\ outbox[i].status = "delivered"
       /\ outbox'[i].peer = outbox[i].peer /\ outbox'[i].envelope = outbox[i].envelope

LEMMA AckedStays ==
    ASSUME TypeInv, AckedIsDurable, NoneDelivered, NEW p, NEW m, LastBut(p, m)
    PROVE  AckedIsDurable'
<1> SUFFICES ASSUME NEW i \in DOMAIN outbox', outbox'[i].status = "delivered"
             PROVE  AvailableNext(outbox'[i].peer, outbox'[i].envelope)
  BY AckedHold
<1>1. PICK q, x : q = outbox[i].peer /\ x = outbox[i].envelope
  OBVIOUS
<1>2. /\ i \in DOMAIN outbox /\ outbox[i].status = "delivered"
      /\ outbox'[i].peer = q /\ outbox'[i].envelope = x
  BY <1>1 DEF NoneDelivered
<1>3. q \in Peers
  BY <1>1, <1>2, OutboxIs
<1>4. Available(q, x)
  BY <1>1, <1>2 DEF AckedIsDurable, Available
<1>5. AvailableNext(q, x)
  BY <1>3, <1>4, AvailableStays DEF LastBut
<1> QED BY <1>2, <1>5

(* A step of one thread, whose own condition holds afterwards.             *)
LEMMA ThreadsStay ==
    ASSUME MaxConnections = 1, TypeInv, ThreadInv,
           NEW p \in Peers, NEW st \in Streams, NEW k \in Connections, NEW m,
           OthersStay(p, st, k), HoldsNext(p, conn'[p][st][k]),
           LastBut(p, m), AllLast \/ m.stream = st
    PROVE  ThreadInv'
<1> SUFFICES ASSUME NEW q \in Peers, NEW r \in Streams, NEW j \in Connections
             PROVE  HoldsNext(q, conn'[q][r][j])
  BY ThreadsHold
<1>0. j = k
  BY DEF Connections
<1>1. CASE q = p /\ r = st
  BY <1>0, <1>1
<1>2. CASE ~(q = p /\ r = st)
  <2>1. PICK c : c = conn[q][r][j]
    OBVIOUS
  <2>2. conn'[q][r][j] = c
    BY <1>2, <2>1 DEF OthersStay
  <2>3. /\ c.at \in {"staged", "refused", "kept"} => RowOf(q, c.envelope) # {}
        /\ c.at = "ack" => Available(q, c.envelope)
        /\ c # NoThread => c.envelope.stream = r
    BY <2>1 DEF ThreadInv, TypeInv, StreamInv
  <2>4. NoThread.at = "none"
    BY DEF NoThread
  <2>5. ASSUME c.at \in {"staged", "refused", "kept"} PROVE HasNext(q, c.envelope)
    <3>1. c.envelope.stream = r /\ RowOf(q, c.envelope) # {}
      BY <2>3, <2>4, <2>5
    <3>2. \A i \in DOMAIN inbox[q] : Lasting(q, i) \/ inbox[q][i].envelope # c.envelope
      <4>1. CASE AllLast
        BY <4>1 DEF AllLast
      <4>2. CASE m.stream = st
        BY <1>2, <3>1, <4>2 DEF LastBut
      <4> QED BY <4>1, <4>2
    <3> QED BY <3>1, <3>2, RowStays
  <2>6. ASSUME c.at = "ack" PROVE AvailableNext(q, c.envelope)
    <3>1. Available(q, c.envelope)
      BY <2>3, <2>6
    <3>2. \A i \in DOMAIN inbox[q] : Lasting(q, i) \/ inbox[q][i].status = "staged"
      BY DEF LastBut
    <3> QED BY <3>1, <3>2, AvailableStays
  <2> QED BY <2>2, <2>5, <2>6 DEF HoldsNext
<1> QED BY <1>1, <1>2

(* Steps that touch no thread and lose no row.                             *)
LEMMA DurableQuiet ==
    ASSUME TypeInv, DurableInv, conn' = conn, AllLast, NoneDelivered
    PROVE  DurableInv'
<1>1. AckedIsDurable'
  <2>1. LastBut(0, 0)
    BY DEF AllLast, LastBut
  <2> QED BY <2>1, AckedStays DEF DurableInv
<1>2. ASSUME NEW q \in Peers, NEW r \in Streams, NEW j \in Connections
      PROVE  HoldsNext(q, conn[q][r][j])
  <2>1. PICK c : c = conn[q][r][j]
    OBVIOUS
  <2>2. /\ c.at \in {"staged", "refused", "kept"} => RowOf(q, c.envelope) # {}
        /\ c.at = "ack" => Available(q, c.envelope)
    BY <2>1 DEF DurableInv, ThreadInv
  <2>3. \A i \in DOMAIN inbox[q] : Lasting(q, i)
    BY DEF AllLast
  <2>4. HoldsNext(q, c)
    BY <2>2, <2>3, RowStays, AvailableStays DEF HoldsNext
  <2> QED BY <2>1, <2>4
<1>3. ThreadInv'
  BY <1>2, ThreadsHold
<1> QED BY <1>1, <1>3 DEF DurableInv

LEMMA NoneSame ==
    ASSUME outbox' = outbox
    PROVE  NoneDelivered
BY DEF NoneDelivered

LEMMA NoneStores ==
    ASSUME TypeInv, NEW t \in Publishers, Stores(t)
    PROVE  NoneDelivered
<1>1. task[t].at = "made" /\ outbox' = outbox \o RowsOf(t)
  BY DEF Stores
<1>2. /\ \A i \in DOMAIN outbox : outbox'[i] = outbox[i]
      /\ \A i \in DOMAIN outbox' \ DOMAIN outbox : outbox'[i].status = "due"
  BY <1>1, Published
<1> QED BY <1>2 DEF NoneDelivered

(* Attempts and backoffs acknowledge nothing.                              *)
LEMMA NoneTransmit ==
    ASSUME TypeInv, NEW st \in Streams, Transmit(st)
    PROVE  NoneDelivered
<1>1. ASSUME NEW i \in DOMAIN outbox, outbox[i].status = "due", Failed(i)
      PROVE  NoneDelivered
  BY <1>1, FailedStep DEF NoneDelivered, SameRows, Kept
<1>2. ASSUME NEW i \in DOMAIN outbox, NEW k \in Connections, Connect(st, i, k)
      PROVE  NoneDelivered
  BY <1>2, NoneSame DEF Connect
<1>3. ASSUME NEW i \in DOMAIN outbox, ConnectFails(st, i)
      PROVE  NoneDelivered
  BY <1>1, <1>3 DEF ConnectFails, Ready
<1>4. CASE SendTimesOut(st) \/ SendFails(st)
  <2>1. PICK i : i = send[st].row
    OBVIOUS
  <2>2. send[st] # NoSend /\ Failed(i)
    BY <1>4, <2>1 DEF SendTimesOut, SendFails
  <2>3. i \in DOMAIN outbox /\ outbox[i].status = "due"
    BY <2>1, <2>2 DEF TypeInv, SendInv
  <2> QED BY <1>1, <2>2, <2>3
<1> QED BY <1>2, <1>3, <1>4 DEF Transmit

LEMMA NoneBackoff ==
    ASSUME TypeInv, NEW i \in DOMAIN outbox, BackoffElapses(i)
    PROVE  NoneDelivered
<1>1. outbox[i].status = "backoff" /\ outbox' = [outbox EXCEPT ![i].status = "due"]
  BY DEF BackoffElapses
<1>2. /\ SameRows
      /\ \A j \in DOMAIN outbox : outbox'[j].status = IF j = i THEN "due" ELSE outbox[j].status
  BY <1>1, TypeParts, StatusSet DEF OutboxStatus
<1> QED BY <1>2 DEF NoneDelivered, SameRows, Kept

LEMMA DurablePublish ==
    ASSUME TypeInv, DurableInv, NEW t \in Publishers, Publish(t)
    PROVE  DurableInv'
<1>1. conn' = conn /\ inbox' = inbox /\ (outbox' = outbox \/ Stores(t))
  BY DEF Publish, Number, MakeEnvelope, Enqueue, FlushEnds, Stores, receiverVars
<1> QED BY <1>1, NoneSame, NoneStores, LastSame, DurableQuiet

LEMMA DurableTransmit ==
    ASSUME MaxConnections = 1, TypeInv, DurableInv, NEW st \in Streams, Transmit(st)
    PROVE  DurableInv'
<1>1. NoneDelivered
  BY NoneTransmit
<1>2. inbox' = inbox /\ AllLast
  BY LastSame DEF Transmit, Connect, ConnectFails, SendTimesOut, SendFails, receiverVars
<1>3. CASE conn' = conn
  BY <1>1, <1>2, <1>3, DurableQuiet
<1>4. ASSUME NEW i \in DOMAIN outbox, NEW k \in Connections, Connect(st, i, k)
      PROVE  DurableInv'
  <2>1. PICK p, e : p = outbox[i].peer /\ e = outbox[i].envelope
    OBVIOUS
  <2>2. PICK c : c = [at |-> "read", envelope |-> e, new |-> FALSE]
    OBVIOUS
  <2>3. p \in Peers /\ e \in Envelopes
    BY <2>1, OutboxIs
  <2>4. c \in Serving /\ c.at = "read"
    BY <2>2, <2>3 DEF Serving
  <2>5. Becomes(p, st, k, c)
    BY <1>4, <2>1, <2>2 DEF Connect, Becomes
  <2>6. OthersStay(p, st, k) /\ conn'[p][st][k] = c
    BY <2>3, <2>4, <2>5, TypeParts, ConnSet
  <2>7. HoldsNext(p, conn'[p][st][k])
    BY <2>4, <2>6 DEF HoldsNext
  <2>8. LastBut(p, e)
    BY <1>2 DEF AllLast, LastBut
  <2>9. ThreadInv'
    BY <1>2, <2>3, <2>6, <2>7, <2>8, ThreadsStay DEF DurableInv
  <2>10. AckedIsDurable'
    BY <1>1, <2>8, AckedStays DEF DurableInv
  <2> QED BY <2>9, <2>10 DEF DurableInv
<1> QED BY <1>3, <1>4 DEF Transmit, ConnectFails, SendTimesOut, SendFails

(* A thread goes on, its own condition shown.                              *)
LEMMA DurableTurn ==
    ASSUME MaxConnections = 1, TypeInv, DurableInv,
           NEW p \in Peers, NEW st \in Streams, NEW k \in Connections,
           NEW a \in {"staged", "refused", "kept", "ack"}, Turns(p, st, k, a),
           AllLast, outbox' = outbox,
           IF a = "ack" THEN AvailableNext(p, conn[p][st][k].envelope)
                        ELSE HasNext(p, conn[p][st][k].envelope)
    PROVE  DurableInv'
<1>1. PICK c, e : c = conn'[p][st][k] /\ e = conn[p][st][k].envelope
  OBVIOUS
<1>2. c.at = a /\ c.envelope = e /\ OthersStay(p, st, k)
  BY <1>1 DEF Turns
<1>3. HoldsNext(p, c)
  BY <1>1, <1>2 DEF HoldsNext
<1>4. LastBut(p, e) /\ NoneDelivered
  BY NoneSame DEF AllLast, LastBut
<1>5. ThreadInv'
  BY <1>1, <1>2, <1>3, <1>4, ThreadsStay DEF DurableInv
<1>6. AckedIsDurable'
  BY <1>4, AckedStays DEF DurableInv
<1> QED BY <1>5, <1>6 DEF DurableInv

LEMMA DurableServe ==
    ASSUME MaxConnections = 1, TypeInv, DurableInv,
           NEW p \in Peers, NEW st \in Streams, NEW k \in Connections, Serve(p, st, k)
    PROVE  DurableInv'
<1>0. PICK m : m = conn[p][st][k].envelope
  OBVIOUS
<1>h. /\ conn[p][st][k].at \in {"staged", "refused", "kept"} => RowOf(p, m) # {}
      /\ conn[p][st][k].at = "ack" => Available(p, m)
  BY <1>0 DEF DurableInv, ThreadInv
<1>r. AllLast /\ RowOf(p, m) # {} => HasNext(p, m)
  BY RowStays DEF AllLast
<1>1. CASE Stage(p, st, k)
  <2>1. /\ Turns(p, st, k, "staged") /\ outbox' = outbox
        /\ (RowOf(p, m) # {} /\ inbox' = inbox) \/ Grows(p, m)
    BY <1>0, <1>1, StageStep
  <2>2. AllLast /\ HasNext(p, m)
    BY <1>r, <2>1, LastSame, LastGrows
  <2> QED BY <1>0, <2>1, <2>2, DurableTurn
<1>2. CASE AcceptSequence(p, st, k)
  <2>1. /\ conn[p][st][k].at = "staged" /\ outbox' = outbox /\ inbox' = inbox
        /\ Turns(p, st, k, "kept") \/ Turns(p, st, k, "refused")
    BY <1>2, AcceptStep
  <2>2. AllLast /\ HasNext(p, m)
    BY <1>h, <1>r, <2>1, LastSame
  <2> QED BY <1>0, <2>1, <2>2, DurableTurn
<1>3. CASE HandleReplay(p, st, k)
  <2>1. /\ conn[p][st][k].at = "refused" /\ outbox' = outbox
        /\ \/ Turns(p, st, k, "kept") /\ inbox' = inbox
           \/ Ends(p, st, k) /\ Drops(p, m)
    BY <1>0, <1>3, ReplayStep
  <2>2. CASE Turns(p, st, k, "kept") /\ inbox' = inbox
    <3>1. AllLast /\ HasNext(p, m)
      BY <1>h, <1>r, <2>1, <2>2, LastSame
    <3> QED BY <1>0, <2>1, <2>2, <3>1, DurableTurn
  <2>3. CASE Ends(p, st, k) /\ Drops(p, m)
    <3>1. LastBut(p, m) /\ NoneDelivered
      BY <2>1, <2>3, LastDrops, NoneSame
    <3>2. m.stream = st
      <4>1. conn[p][st][k] # NoThread
        BY <2>1 DEF NoThread
      <4> QED BY <1>0, <4>1 DEF TypeInv, StreamInv
    <3>3. HoldsNext(p, conn'[p][st][k]) /\ OthersStay(p, st, k)
      BY <2>3 DEF Ends, HoldsNext, NoThread
    <3>4. ThreadInv'
      BY <3>1, <3>2, <3>3, ThreadsStay DEF DurableInv
    <3>5. AckedIsDurable'
      BY <3>1, AckedStays DEF DurableInv
    <3> QED BY <3>4, <3>5 DEF DurableInv
  <2> QED BY <2>1, <2>2, <2>3
<1>4. CASE Activate(p, st, k)
  <2>1. /\ conn[p][st][k].at = "kept" /\ Turns(p, st, k, "ack") /\ Marks(p) /\ outbox' = outbox
        /\ \A i \in DOMAIN inbox[p] :
              inbox'[p][i].status =
                 IF inbox[p][i].envelope = m /\ inbox[p][i].status = "staged"
                 THEN "received" ELSE inbox[p][i].status
    BY <1>0, <1>4, ActivateStep
  <2>2. AllLast
    BY <2>1, LastMarks
  <2>3. AvailableNext(p, m)
    <3>1. PICK i \in DOMAIN inbox[p] : inbox[p][i].envelope = m
      BY <1>h, <2>1 DEF RowOf
    <3>2. /\ i \in DOMAIN inbox'[p] /\ inbox'[p][i].envelope = m
          /\ inbox'[p][i].status # "staged"
      BY <2>1, <3>1 DEF Marks
    <3> QED BY <3>2 DEF AvailableNext
  <2> QED BY <1>0, <2>1, <2>2, <2>3, DurableTurn
<1>5. CASE Acknowledge(p, st, k)
  <2>1. /\ conn[p][st][k].at = "ack" /\ Ends(p, st, k) /\ SameRows /\ inbox' = inbox
        /\ \A i \in DOMAIN outbox :
              \/ outbox'[i].status = outbox[i].status
              \/ /\ outbox'[i].status = "delivered" /\ outbox[i].peer = p
                 /\ outbox[i].envelope = m
    BY <1>0, <1>5, AcknowledgeStep DEF receiverVars
  <2>2. AllLast /\ LastBut(p, m)
    BY <2>1, LastSame DEF AllLast, LastBut
  <2>3. ThreadInv'
    <3>1. HoldsNext(p, conn'[p][st][k]) /\ OthersStay(p, st, k)
      BY <2>1 DEF Ends, HoldsNext, NoThread
    <3> QED BY <2>2, <3>1, ThreadsStay DEF DurableInv
  <2>4. \A q \in Peers : \A x : Available(q, x) => AvailableNext(q, x)
    BY <2>2, AvailableStays DEF AllLast
  <2>5. ASSUME NEW i \in DOMAIN outbox', outbox'[i].status = "delivered"
        PROVE  AvailableNext(outbox'[i].peer, outbox'[i].envelope)
    <3>1. PICK q, x : q = outbox[i].peer /\ x = outbox[i].envelope
      OBVIOUS
    <3>2. i \in DOMAIN outbox /\ outbox'[i].peer = q /\ outbox'[i].envelope = x
      BY <2>1, <3>1 DEF SameRows, Kept
    <3>3. q \in Peers
      BY <3>1, <3>2, OutboxIs
    <3>4. Available(q, x)
      <4>1. CASE outbox[i].status = "delivered"
        BY <3>1, <3>2, <4>1 DEF DurableInv, AckedIsDurable, Available
      <4>2. CASE q = p /\ x = m
        BY <1>h, <2>1, <4>2
      <4> QED BY <2>1, <2>5, <3>1, <3>2, <4>1, <4>2
    <3> QED BY <2>4, <3>2, <3>3, <3>4
  <2>6. AckedIsDurable'
    BY <2>5, AckedHold
  <2> QED BY <2>3, <2>6 DEF DurableInv
<1> QED BY <1>1, <1>2, <1>3, <1>4, <1>5 DEF Serve

LEMMA DurableWork ==
    ASSUME TypeInv, DurableInv, NEW p \in Peers, Work(p)
    PROVE  DurableInv'
<1>1. PICK i \in DOMAIN inbox[p] : ClaimRow(p, i) \/ FinishRow(p, i)
  BY DEF Work
<1>2. /\ conn' = conn /\ outbox' = outbox /\ Marks(p) /\ inbox'[p][i].status # "staged"
      /\ \A j \in DOMAIN inbox[p] : j # i => inbox'[p][j] = inbox[p][j]
  <2>1. CASE ClaimRow(p, i)
    BY <2>1, ClaimStep
  <2>2. CASE FinishRow(p, i)
    BY <2>2, FinishStep
  <2> QED BY <1>1, <2>1, <2>2
<1>3. AllLast
  BY <1>2, LastMarks
<1> QED BY <1>2, <1>3, NoneSame, DurableQuiet

LEMMA DurablePeerRestart ==
    ASSUME TypeInv, DurableInv, NEW p \in Peers, PeerRestarts(p)
    PROVE  DurableInv'
<1>1. /\ Marks(p) /\ outbox' = outbox
      /\ \A q \in Peers, st \in Streams, k \in Connections :
            conn'[q][st][k] = IF q = p THEN NoThread ELSE conn[q][st][k]
      /\ \A i \in DOMAIN inbox[p] : inbox'[p][i].status = StatusOnOpen(inbox[p][i].status)
  BY PeerRestartStep
<1>2. AllLast
  BY <1>1, LastMarks DEF StatusOnOpen
<1>3. LastBut(p, 0) /\ NoneDelivered
  BY <1>1, <1>2, NoneSame DEF AllLast, LastBut
<1>4. AckedIsDurable'
  BY <1>3, AckedStays DEF DurableInv
<1>5. ASSUME NEW q \in Peers, NEW r \in Streams, NEW j \in Connections
      PROVE  HoldsNext(q, conn'[q][r][j])
  <2>1. CASE q = p
    BY <1>1, <2>1 DEF HoldsNext, NoThread
  <2>2. CASE q # p
    <3>1. PICK c : c = conn[q][r][j]
      OBVIOUS
    <3>2. /\ c.at \in {"staged", "refused", "kept"} => RowOf(q, c.envelope) # {}
          /\ c.at = "ack" => Available(q, c.envelope)
      BY <3>1 DEF DurableInv, ThreadInv
    <3>3. \A i \in DOMAIN inbox[q] : Lasting(q, i)
      BY <1>2 DEF AllLast
    <3>4. HoldsNext(q, c)
      BY <3>2, <3>3, RowStays, AvailableStays DEF HoldsNext
    <3> QED BY <1>1, <2>2, <3>1, <3>4
  <2> QED BY <2>1, <2>2
<1>6. ThreadInv'
  BY <1>5, ThreadsHold
<1> QED BY <1>4, <1>6 DEF DurableInv

LEMMA DurableStep ==
    ASSUME MaxConnections = 1, TypeInv, DurableInv, [Next]_vars
    PROVE  DurableInv'
<1>1. CASE UNCHANGED vars
  <2>1. conn' = conn /\ outbox' = outbox /\ inbox' = inbox
    BY <1>1 DEF vars, receiverVars
  <2> QED BY <2>1, LastSame, NoneSame, DurableQuiet
<1>2. ASSUME NEW i \in DOMAIN outbox, BackoffElapses(i) PROVE DurableInv'
  <2>1. conn' = conn /\ inbox' = inbox
    BY <1>2 DEF BackoffElapses, receiverVars
  <2> QED BY <1>2, <2>1, LastSame, NoneBackoff, DurableQuiet
<1>3. CASE SenderRestarts
  <2>1. conn' = conn /\ outbox' = outbox /\ inbox' = inbox
    BY <1>3 DEF SenderRestarts, receiverVars
  <2> QED BY <2>1, LastSame, NoneSame, DurableQuiet
<1>4. ASSUME NEW p \in Peers, Subscribe(p) PROVE DurableInv'
  <2>1. conn' = conn /\ outbox' = outbox /\ inbox' = inbox
    BY <1>4 DEF Subscribe
  <2> QED BY <2>1, LastSame, NoneSame, DurableQuiet
<1> QED BY <1>1, <1>2, <1>3, <1>4, DurablePublish, DurableTransmit, DurableServe, DurableWork,
           DurablePeerRestart DEF Next

LEMMA DurableAtFirst == Init => DurableInv
<1> SUFFICES ASSUME Init PROVE DurableInv
  OBVIOUS
<1>1. DOMAIN outbox = {}
  BY DEF Init
<1>2. \A p \in Peers, st \in Streams, k \in Connections : conn[p][st][k].at = "none"
  BY DEF Init, NoThread
<1> QED BY <1>1, <1>2 DEF DurableInv, ThreadInv, AckedIsDurable

(* With one connection thread per peer and stream at a time, a row is      *)
(* marked delivered only when the peer's inbox durably has the message and *)
(* its workers may take it: no message is lost between the two databases.  *)
THEOREM AcknowledgedIsKept ==
    ASSUME MaxConnections = 1
    PROVE  Spec => []AckedIsDurable
<1>1. Init => TypeInv /\ DurableInv
  BY TypesAtFirst, DurableAtFirst
<1>2. TypeInv /\ DurableInv /\ [Next]_vars => (TypeInv /\ DurableInv)'
  BY TypesStep, DurableStep
<1>3. DurableInv => AckedIsDurable
  BY DEF DurableInv
<1> QED BY <1>1, <1>2, <1>3, PTL DEF Spec

-----------------------------------------------------------------------------
(* What any step does to the threads and to the inboxes.                   *)

(* A thread is of one that was there, or serves a row that is ready.       *)
ServesKnown(q, r, j) ==
    \/ conn'[q][r][j] = NoThread
    \/ /\ conn[q][r][j] \in Serving
       /\ conn'[q][r][j].envelope = conn[q][r][j].envelope
    \/ \E i \in Ready(r) : /\ outbox' = outbox /\ outbox[i].peer = q
                            /\ conn'[q][r][j].envelope = outbox[i].envelope

LEMMA ConnKept ==
    ASSUME TypeInv, NEW q \in Peers, NEW r \in Streams, NEW j \in Connections,
           conn'[q][r][j] = conn[q][r][j]
    PROVE  ServesKnown(q, r, j)
BY TypeParts, IsServing DEF ServesKnown

LEMMA ConnTurned ==
    ASSUME TypeInv, NEW p \in Peers, NEW st \in Streams, NEW k \in Connections,
           Ends(p, st, k) \/ \E a \in {"staged", "refused", "kept", "ack"} : Turns(p, st, k, a),
           NEW q \in Peers, NEW r \in Streams, NEW j \in Connections
    PROVE  ServesKnown(q, r, j)
<1>1. CASE q = p /\ r = st /\ j = k
  BY <1>1 DEF ServesKnown, Ends, Turns
<1>2. CASE ~(q = p /\ r = st /\ j = k)
  <2>1. conn'[q][r][j] = conn[q][r][j]
    BY <1>2 DEF Ends, Turns, OthersStay
  <2> QED BY <2>1, ConnKept
<1> QED BY <1>1, <1>2

LEMMA ConnStep ==
    ASSUME TypeInv, [Next]_vars, NEW q \in Peers, NEW r \in Streams, NEW j \in Connections
    PROVE  ServesKnown(q, r, j)
<1>0. TypeOK
  BY TypeParts
<1>1. CASE conn' = conn
  BY <1>1, ConnKept
<1>2. ASSUME NEW st \in Streams, NEW i \in DOMAIN outbox, NEW k \in Connections,
             Connect(st, i, k)
      PROVE  ServesKnown(q, r, j)
  <2>1. PICK p, e : p = outbox[i].peer /\ e = outbox[i].envelope
    OBVIOUS
  <2>2. PICK c : c = [at |-> "read", envelope |-> e, new |-> FALSE]
    OBVIOUS
  <2>3. p \in Peers /\ e \in Envelopes
    BY <2>1, OutboxIs
  <2>4. c \in Serving /\ c.envelope = e
    BY <2>2, <2>3 DEF Serving
  <2>5. Becomes(p, st, k, c) /\ i \in Ready(st) /\ outbox' = outbox
    BY <1>2, <2>1, <2>2 DEF Connect, Becomes
  <2>6. OthersStay(p, st, k) /\ conn'[p][st][k] = c
    BY <1>0, <2>3, <2>4, <2>5, ConnSet
  <2>7. CASE q = p /\ r = st /\ j = k
    BY <2>1, <2>4, <2>5, <2>6, <2>7 DEF ServesKnown
  <2>8. CASE ~(q = p /\ r = st /\ j = k)
    <3>1. conn'[q][r][j] = conn[q][r][j]
      BY <2>6, <2>8 DEF OthersStay
    <3> QED BY <3>1, ConnKept
  <2> QED BY <2>7, <2>8
<1>3. ASSUME NEW st \in Streams, Transmit(st) PROVE ServesKnown(q, r, j)
  <2>1. \/ conn' = conn
        \/ \E i \in DOMAIN outbox, k \in Connections : Connect(st, i, k)
    BY <1>3 DEF Transmit, ConnectFails, SendTimesOut, SendFails
  <2> QED BY <1>1, <1>2, <2>1
<1>4. ASSUME NEW p \in Peers, NEW st \in Streams, NEW k \in Connections, Serve(p, st, k)
      PROVE  ServesKnown(q, r, j)
  <2>1. Ends(p, st, k) \/ \E a \in {"staged", "refused", "kept", "ack"} : Turns(p, st, k, a)
    BY <1>4, StageStep, AcceptStep, ReplayStep, ActivateStep, AcknowledgeStep DEF Serve
  <2> QED BY <2>1, ConnTurned
<1>5. ASSUME NEW p \in Peers, PeerRestarts(p) PROVE ServesKnown(q, r, j)
  <2>1. conn'[q][r][j] = IF q = p THEN NoThread ELSE conn[q][r][j]
    BY <1>5, PeerRestartStep
  <2> QED BY <2>1, ConnKept DEF ServesKnown
<1>6. ASSUME NEW t \in Publishers, Publish(t) PROVE conn' = conn
  BY <1>6 DEF Publish, Number, MakeEnvelope, Enqueue, FlushEnds
<1>7. ASSUME NEW p \in Peers, Work(p) \/ Subscribe(p) PROVE conn' = conn
  BY <1>7 DEF Work, ClaimRow, FinishRow, Subscribe
<1>8. ASSUME NEW i \in DOMAIN outbox, BackoffElapses(i) PROVE conn' = conn
  BY <1>8 DEF BackoffElapses
<1>9. CASE SenderRestarts \/ UNCHANGED vars
  BY <1>1, <1>9 DEF SenderRestarts, vars
<1> QED BY <1>1, <1>3, <1>4, <1>5, <1>6, <1>7, <1>8, <1>9 DEF Next

(* Statuses that go on without a claim.                                    *)
Forward(p) ==
    /\ Marks(p)
    /\ \A i \in DOMAIN inbox[p] :
          /\ inbox[p][i].status = "done" => inbox'[p][i].status = "done"
          /\ inbox'[p][i].status \in {"processing", "done"} =>
                inbox[p][i].status \in {"processing", "done"}
          /\ inbox[p][i].status # "staged" => inbox'[p][i].status # "staged"
          /\ inbox'[p][i].status = "received" =>
                inbox[p][i].status \in {"received", "staged"} \/ stops' = stops + 1

(* The kinds of steps the inboxes see.                                     *)
Adds(p, m) ==
    /\ \E st \in Streams, k \in Connections :
          conn[p][st][k] \in Serving /\ conn[p][st][k].envelope = m
    /\ m \in Envelopes /\ RowOf(p, m) = {} /\ Grows(p, m)

LEMMA InboxStep ==
    ASSUME TypeInv, [Next]_vars
    PROVE  \/ inbox' = inbox /\ taken' = taken
           \/ \E p \in Peers : Forward(p) /\ taken' = taken
           \/ \E p \in Peers, m \in Envelopes : Drops(p, m) /\ taken' = taken
           \/ \E p \in Peers, m \in Envelopes : Adds(p, m) /\ taken' = taken
           \/ \E p \in Peers : \E i \in DOMAIN inbox[p] : ClaimRow(p, i)
<1>0. TypeOK
  BY TypeParts
<1>1. ASSUME NEW p \in Peers, NEW st \in Streams, NEW k \in Connections, Serve(p, st, k)
      PROVE  /\ taken' = taken
             /\ \/ inbox' = inbox
                \/ Forward(p)
                \/ \E m \in Envelopes : Drops(p, m) \/ Adds(p, m)
  <2>0. PICK m : m = conn[p][st][k].envelope
    OBVIOUS
  <2>e. conn[p][st][k].at # "none" => conn[p][st][k] \in Serving /\ m \in Envelopes
    BY <1>0, <2>0, IsServing DEF Serving
  <2>1. CASE Stage(p, st, k)
    BY <2>0, <2>1, <2>e, StageStep DEF Adds, Serving
  <2>2. CASE AcceptSequence(p, st, k)
    BY <2>2, AcceptStep
  <2>3. CASE HandleReplay(p, st, k)
    BY <2>0, <2>3, <2>e, ReplayStep
  <2>4. CASE Activate(p, st, k)
    BY <2>4, ActivateStep DEF Forward
  <2>5. CASE Acknowledge(p, st, k)
    BY <2>5, AcknowledgeStep DEF receiverVars
  <2> QED BY <1>1, <2>1, <2>2, <2>3, <2>4, <2>5 DEF Serve
<1>2. ASSUME NEW p \in Peers, Work(p)
      PROVE  \/ Forward(p) /\ taken' = taken
             \/ \E i \in DOMAIN inbox[p] : ClaimRow(p, i)
  <2>1. PICK i \in DOMAIN inbox[p] : ClaimRow(p, i) \/ FinishRow(p, i)
    BY <1>2 DEF Work
  <2>2. CASE FinishRow(p, i)
    BY <2>2, FinishStep DEF Forward
  <2> QED BY <2>1, <2>2
<1>3. ASSUME NEW p \in Peers, PeerRestarts(p)
      PROVE  Forward(p) /\ taken' = taken
  BY <1>3, PeerRestartStep DEF Forward, StatusOnOpen
<1>4. ASSUME NEW t \in Publishers, Publish(t) PROVE inbox' = inbox /\ taken' = taken
  BY <1>4 DEF Publish, Number, MakeEnvelope, Enqueue, FlushEnds, receiverVars
<1>5. ASSUME NEW st \in Streams, Transmit(st) PROVE inbox' = inbox /\ taken' = taken
  BY <1>5 DEF Transmit, Connect, ConnectFails, SendTimesOut, SendFails, receiverVars
<1>6. ASSUME NEW i \in DOMAIN outbox, BackoffElapses(i) PROVE inbox' = inbox /\ taken' = taken
  BY <1>6 DEF BackoffElapses, receiverVars
<1>7. CASE SenderRestarts \/ UNCHANGED vars
  BY <1>7 DEF SenderRestarts, vars, receiverVars
<1>8. ASSUME NEW p \in Peers, Subscribe(p) PROVE inbox' = inbox /\ taken' = taken
  BY <1>8 DEF Subscribe
<1> QED BY <1>1, <1>2, <1>3, <1>4, <1>5, <1>6, <1>7, <1>8 DEF Next

-----------------------------------------------------------------------------
(* The order of arrival.                                                   *)

(* Follows, after the step.                                                *)
FollowsNext(p, m) ==
    /\ \E i \in DOMAIN outbox' : outbox'[i].peer = p /\ outbox'[i].envelope = m
    /\ \A j \in DOMAIN outbox' :
          /\ LinkOf(outbox'[j].peer, outbox'[j].envelope) = LinkOf(p, m)
          /\ outbox'[j].envelope.sequence < m.sequence
          => outbox'[j].status = "delivered"

LEMMA FollowsStays ==
    ASSUME TypeInv, OrderInv, [Next]_vars, NEW p \in Peers, NEW m \in Envelopes, Follows(p, m)
    PROVE  FollowsNext(p, m)
<1>1. PICK i \in DOMAIN outbox : outbox[i].peer = p /\ outbox[i].envelope = m
  BY DEF Follows
<1>2. CASE SameRows
  BY <1>1, <1>2 DEF Follows, FollowsNext, SameRows, Kept
<1>3. ASSUME NEW t \in Publishers, Stores(t)
      PROVE  FollowsNext(p, m)
  <2>1. PICK e : e = Envelope(t)
    OBVIOUS
  <2>2. task[t].at = "made" /\ outbox' = outbox \o RowsOf(t)
    BY <1>3 DEF Stores
  <2>3. /\ \A j \in DOMAIN outbox : j \in DOMAIN outbox' /\ outbox'[j] = outbox[j]
        /\ \A j \in DOMAIN outbox' \ DOMAIN outbox : outbox'[j].envelope = e
    BY <2>1, <2>2, Published DEF Kept
  <2>4. e \in Envelopes /\ e.session = session /\ e.stream = task[t].stream
    BY <2>1, <2>2, EnvelopeType DEF Envelope
  <2>5. m.sequence \in Nat /\ e.sequence \in Nat
    BY <2>4, DeliveryAssumption DEF Envelopes
  <2>6. ASSUME NEW j \in DOMAIN outbox',
               LinkOf(outbox'[j].peer, outbox'[j].envelope) = LinkOf(p, m),
               outbox'[j].envelope.sequence < m.sequence
        PROVE  outbox'[j].status = "delivered"
    <3>1. CASE j \in DOMAIN outbox
      BY <2>3, <2>6, <3>1 DEF Follows
    <3>2. CASE j \notin DOMAIN outbox
      <4>1. outbox'[j].envelope = e
        BY <2>3, <3>2
      <4>2. m.session = e.session /\ m.stream = e.stream
        BY <2>6, <4>1 DEF LinkOf
      <4>3. LatestOf(i, task[t].stream)
        BY <1>1, <2>4, <4>2 DEF LatestOf
      <4>4. m.sequence < e.sequence
        BY <1>1, <1>3, <2>1, <4>3, StoresBehind
      <4> QED BY <2>5, <2>6, <4>1, <4>4
    <3> QED BY <3>1, <3>2
  <2> QED BY <1>1, <2>3, <2>6 DEF FollowsNext
<1> QED BY <1>2, <1>3, OutboxStep

(* Only the oldest pending row of a link is sent.                          *)
LEMMA ReadyFollows ==
    ASSUME TypeInv, OrderInv, NEW st \in Streams, NEW i \in Ready(st)
    PROVE  Follows(outbox[i].peer, outbox[i].envelope)
<1>1. /\ i \in DOMAIN outbox /\ outbox[i].envelope.stream = st
      /\ \A j \in 1 .. i - 1 : ~ /\ Pending(outbox[j]) /\ outbox[j].peer = outbox[i].peer
                                 /\ outbox[j].envelope.stream = st
  BY DEF Ready
<1>2. ASSUME NEW j \in DOMAIN outbox,
             LinkOf(outbox[j].peer, outbox[j].envelope)
                = LinkOf(outbox[i].peer, outbox[i].envelope),
             outbox[j].envelope.sequence < outbox[i].envelope.sequence
      PROVE  outbox[j].status = "delivered"
  <2>1. /\ outbox[j].peer = outbox[i].peer
        /\ outbox[j].envelope.stream = outbox[i].envelope.stream
    BY <1>2 DEF LinkOf
  <2>2. i \in Nat /\ j \in Nat /\ i >= 1 /\ j >= 1
        /\ outbox[j].envelope.sequence \in Nat /\ outbox[i].envelope.sequence \in Nat
    BY <1>1, OutboxIs
  <2>3. ~(i < j) /\ i # j
    BY <1>1, <1>2, <2>2 DEF OrderInv, SequencesIncrease
  <2>4. j \in 1 .. i - 1
    BY <2>2, <2>3
  <2> QED BY <1>1, <2>1, <2>4 DEF Pending
<1> QED BY <1>1, <1>2 DEF Follows

(* The envelope of a row after the step is one of a row or of a thread.    *)
LEMMA RowsKnown ==
    ASSUME TypeInv, ArrivalInv, [Next]_vars, NEW q \in Peers, NEW i \in DOMAIN inbox'[q]
    PROVE  inbox'[q][i].envelope \in Envelopes /\ Follows(q, inbox'[q][i].envelope)
<1>0. \A j \in DOMAIN inbox[q] : inbox[q][j].envelope \in Envelopes /\ Follows(q, inbox[q][j].envelope)
  BY InboxIs DEF ArrivalInv
<1>1. CASE inbox'[q] = inbox[q]
  BY <1>0, <1>1
<1>2. CASE Forward(q)
  BY <1>0, <1>2 DEF Forward, Marks
<1>3. ASSUME NEW m \in Envelopes, Drops(q, m)
      PROVE  inbox'[q][i].envelope \in Envelopes /\ Follows(q, inbox'[q][i].envelope)
  BY <1>0, <1>3 DEF Drops
<1>4. ASSUME NEW m \in Envelopes, Adds(q, m)
      PROVE  inbox'[q][i].envelope \in Envelopes /\ Follows(q, inbox'[q][i].envelope)
  <2>1. PICK st \in Streams, k \in Connections :
           conn[q][st][k] \in Serving /\ conn[q][st][k].envelope = m
    BY <1>4 DEF Adds
  <2>2. conn[q][st][k] # NoThread
    BY <2>1 DEF Serving, NoThread
  <2>3. Follows(q, m)
    BY <2>1, <2>2 DEF ArrivalInv
  <2>4. CASE i \in DOMAIN inbox[q]
    BY <1>0, <1>4, <2>4 DEF Adds, Grows
  <2>5. CASE i \notin DOMAIN inbox[q]
    <3>1. i = Len(inbox[q]) + 1
      BY <1>4, <2>5 DEF Adds, Grows
    <3>2. inbox'[q][i] = [envelope |-> m, status |-> "staged"]
      BY <1>4, <3>1 DEF Adds, Grows
    <3>3. inbox'[q][i].envelope = m
      BY <3>2
    <3> QED BY <2>3, <3>3
  <2> QED BY <2>4, <2>5
<1>5. ASSUME NEW j \in DOMAIN inbox[q], ClaimRow(q, j)
      PROVE  inbox'[q][i].envelope \in Envelopes /\ Follows(q, inbox'[q][i].envelope)
  BY <1>0, <1>5, ClaimStep DEF Marks
<1>6. ASSUME NEW p \in Peers, p # q,
             \/ Forward(p)
             \/ \E m \in Envelopes : Drops(p, m) \/ Adds(p, m)
             \/ \E j \in DOMAIN inbox[p] : ClaimRow(p, j)
      PROVE  inbox'[q] = inbox[q]
  <2>1. InboxOthers(p)
    BY <1>6, ClaimStep DEF Forward, Marks, Drops, Adds, Grows
  <2> QED BY <1>6, <2>1 DEF InboxOthers
<1> QED BY <1>1, <1>2, <1>3, <1>4, <1>5, <1>6, InboxStep

LEMMA ArrivalStep ==
    ASSUME TypeInv, OrderInv, ArrivalInv, [Next]_vars
    PROVE  ArrivalInv'
<1>1. ASSUME NEW q \in Peers, NEW r \in Streams, NEW j \in Connections,
             conn'[q][r][j] # NoThread
      PROVE  FollowsNext(q, conn'[q][r][j].envelope)
  <2>0. PICK e : e = conn'[q][r][j].envelope
    OBVIOUS
  <2>1. CASE conn[q][r][j] \in Serving /\ e = conn[q][r][j].envelope
    <3>1. conn[q][r][j] # NoThread /\ e \in Envelopes
      BY <2>1 DEF Serving, NoThread
    <3>2. Follows(q, e)
      BY <2>1, <3>1 DEF ArrivalInv
    <3> QED BY <2>0, <3>1, <3>2, FollowsStays
  <2>2. ASSUME NEW i \in Ready(r), outbox[i].peer = q, e = outbox[i].envelope
        PROVE  FollowsNext(q, e)
    <3>1. i \in DOMAIN outbox /\ e \in Envelopes
      BY <2>2, OutboxIs DEF Ready
    <3>2. Follows(q, e)
      BY <2>2, ReadyFollows
    <3> QED BY <3>1, <3>2, FollowsStays
  <2> QED BY <1>1, <2>0, <2>1, <2>2, ConnStep DEF ServesKnown
<1>2. ASSUME NEW q \in Peers, NEW i \in DOMAIN inbox'[q]
      PROVE  FollowsNext(q, inbox'[q][i].envelope)
  <2>0. PICK e : e = inbox'[q][i].envelope
    OBVIOUS
  <2>1. e \in Envelopes /\ Follows(q, e)
    BY <2>0, RowsKnown
  <2> QED BY <2>0, <2>1, FollowsStays
<1> QED BY <1>1, <1>2 DEF ArrivalInv, Follows, FollowsNext

(* A message is on one place of its link.                                  *)
LEMMA SameMessage ==
    ASSUME NEW p, NEW a \in Envelopes, NEW b \in Envelopes,
           LinkOf(p, a) = LinkOf(p, b), a.sequence = b.sequence
    PROVE  a = b
BY DEF LinkOf, Envelopes

LEMMA OneRow ==
    ASSUME TypeInv, InboxInv, NEW p \in Peers, NEW i \in DOMAIN inbox[p],
           NEW j \in DOMAIN inbox[p], inbox[p][i].envelope = inbox[p][j].envelope
    PROVE  i = j
<1>1. i \in Nat /\ j \in Nat /\ inbox[p][i].envelope.sequence \in Nat
  BY InboxIs, DeliveryAssumption DEF Envelopes
<1>2. SameLink(p, i, j) /\ SameLink(p, j, i)
  BY DEF SameLink
<1> QED BY <1>1, <1>2 DEF InboxInv

(* What is staged as new is behind every row of its link.                  *)
LEMMA NewIsBehind ==
    ASSUME TypeInv, DurableInv, ArrivalInv, NEW p \in Peers, NEW m \in Envelopes,
           Adds(p, m), NEW i \in DOMAIN inbox[p],
           LinkOf(p, inbox[p][i].envelope) = LinkOf(p, m)
    PROVE  inbox[p][i].envelope.sequence < m.sequence
<1>1. PICK e \in Envelopes : e = inbox[p][i].envelope
  BY InboxIs
<1>2. e.sequence \in Nat /\ m.sequence \in Nat
  BY DeliveryAssumption DEF Envelopes
<1>3. PICK st \in Streams, k \in Connections :
         conn[p][st][k] \in Serving /\ conn[p][st][k].envelope = m
  BY DEF Adds
<1>4. Follows(p, m)
  BY <1>3 DEF ArrivalInv, Serving, NoThread
<1>5. PICK a \in DOMAIN outbox : outbox[a].peer = p /\ outbox[a].envelope = m
  BY <1>4 DEF Follows
<1>6. e # m
  BY <1>1 DEF Adds, RowOf
<1>7. e.sequence # m.sequence
  BY <1>1, <1>6, SameMessage
<1>8. ~(m.sequence < e.sequence)
  <2> SUFFICES ASSUME m.sequence < e.sequence PROVE FALSE
    OBVIOUS
  <2>1. Follows(p, e)
    BY <1>1 DEF ArrivalInv
  <2>2. outbox[a].status = "delivered"
    BY <1>1, <1>5, <2>1 DEF Follows
  <2>3. RowOf(p, m) # {}
    BY <1>5, <2>2 DEF DurableInv, AckedIsDurable
  <2> QED BY <2>3 DEF Adds
<1> QED BY <1>1, <1>2, <1>7, <1>8

LEMMA InboxOrderStep ==
    ASSUME TypeInv, DurableInv, ArrivalInv, InboxInv, [Next]_vars
    PROVE  InboxInv'
<1> SUFFICES ASSUME NEW q \in Peers, NEW i \in DOMAIN inbox'[q], NEW j \in DOMAIN inbox'[q],
                    i < j, LinkOf(q, inbox'[q][i].envelope) = LinkOf(q, inbox'[q][j].envelope)
             PROVE  inbox'[q][i].envelope.sequence < inbox'[q][j].envelope.sequence
  BY DEF InboxInv, SameLink
<1>0. \A a, b \in DOMAIN inbox[q] :
         /\ a < b /\ LinkOf(q, inbox[q][a].envelope) = LinkOf(q, inbox[q][b].envelope)
         => inbox[q][a].envelope.sequence < inbox[q][b].envelope.sequence
  BY DEF InboxInv, SameLink
<1>1. CASE inbox'[q] = inbox[q]
  BY <1>0, <1>1
<1>2. CASE Marks(q)
  BY <1>0, <1>2 DEF Marks
<1>3. ASSUME NEW m \in Envelopes, Drops(q, m)
      PROVE  inbox'[q][i].envelope.sequence < inbox'[q][j].envelope.sequence
  <2>1. PICK f \in [DOMAIN inbox'[q] -> DOMAIN inbox[q]] :
           /\ \A a, b \in DOMAIN inbox'[q] : a < b => f[a] < f[b]
           /\ \A a \in DOMAIN inbox'[q] : inbox'[q][a] = inbox[q][f[a]]
    BY <1>3 DEF Drops
  <2> QED BY <1>0, <2>1
<1>4. ASSUME NEW m \in Envelopes, Adds(q, m)
      PROVE  inbox'[q][i].envelope.sequence < inbox'[q][j].envelope.sequence
  <2>1. PICK n \in Nat : n = Len(inbox[q])
    BY InboxIs
  <2>2. /\ DOMAIN inbox[q] = 1..n /\ DOMAIN inbox'[q] = 1..n + 1
        /\ \A a \in 1..n : inbox'[q][a] = inbox[q][a]
        /\ inbox'[q][n + 1].envelope = m
    BY <1>4, <2>1 DEF Adds, Grows
  <2>3. i \in 1..n
    BY <2>1, <2>2
  <2>4. CASE j \in 1..n
    BY <1>0, <2>2, <2>3, <2>4
  <2>5. CASE j = n + 1
    BY <1>4, <2>2, <2>3, <2>5, NewIsBehind
  <2> QED BY <2>1, <2>2, <2>4, <2>5
<1>5. ASSUME NEW p \in Peers, p # q,
             \/ Forward(p)
             \/ \E m \in Envelopes : Drops(p, m) \/ Adds(p, m)
             \/ \E a \in DOMAIN inbox[p] : ClaimRow(p, a)
      PROVE  inbox'[q] = inbox[q]
  <2>1. InboxOthers(p)
    BY <1>5, ClaimStep DEF Forward, Marks, Drops, Adds, Grows
  <2> QED BY <1>5, <2>1 DEF InboxOthers
<1>6. ASSUME NEW a \in DOMAIN inbox[q], ClaimRow(q, a) PROVE Marks(q)
  BY <1>6, ClaimStep
<1> QED BY <1>1, <1>2, <1>3, <1>4, <1>5, <1>6, InboxStep DEF Forward

-----------------------------------------------------------------------------
(* What the workers took.                                                  *)

(* What the history of a link is.                                          *)
LEMMA HandledIs ==
    ASSUME TypeInv, NEW l \in Links
    PROVE  /\ taken[l] \in Seq(Envelopes) /\ Len(taken[l]) \in Nat
           /\ DOMAIN taken[l] = 1..Len(taken[l]) /\ l[1] \in Peers
           /\ \A i \in DOMAIN taken[l] :
                 taken[l][i] \in Envelopes /\ taken[l][i].sequence \in Nat
<1>1. taken[l] \in Seq(Envelopes)
  BY DEF TypeInv
<1>2. \A e \in Envelopes : e.sequence \in Nat
  BY DeliveryAssumption DEF Envelopes
<1>3. \A i \in DOMAIN taken[l] : taken[l][i] \in Envelopes
  BY <1>1
<1>4. l[1] \in Peers
  BY DEF Links
<1> QED BY <1>1, <1>2, <1>3, <1>4

LEMMA LinkIs ==
    ASSUME NEW p \in Peers, NEW m \in Envelopes
    PROVE  LinkOf(p, m) \in Links /\ LinkOf(p, m)[1] = p
BY DEF LinkOf, Links, Envelopes

(* Rows ahead of another one of their link are available.                  *)
LEMMA AheadIsAvailable ==
    ASSUME TypeInv, DurableInv, ArrivalInv, InboxInv, NEW p \in Peers,
           NEW i \in DOMAIN inbox[p], NEW j \in DOMAIN inbox[p], i < j, SameLink(p, i, j)
    PROVE  inbox[p][i].status # "staged"
<1>1. PICK a, b : a = inbox[p][i].envelope /\ b = inbox[p][j].envelope
  OBVIOUS
<1>2. LinkOf(p, a) = LinkOf(p, b) /\ a.sequence < b.sequence
  BY <1>1 DEF SameLink, InboxInv
<1>3. Follows(p, a) /\ Follows(p, b)
  BY <1>1 DEF ArrivalInv
<1>4. PICK x \in DOMAIN outbox : outbox[x].peer = p /\ outbox[x].envelope = a
  BY <1>3 DEF Follows
<1>5. outbox[x].status = "delivered"
  BY <1>2, <1>3, <1>4 DEF Follows
<1>6. PICK y \in DOMAIN inbox[p] : inbox[p][y].envelope = a /\ inbox[p][y].status # "staged"
  BY <1>4, <1>5 DEF DurableInv, AckedIsDurable, RowOf
<1>7. y = i
  BY <1>1, <1>6, OneRow
<1> QED BY <1>6, <1>7

(* Nothing behind a row that is not processed was taken.                   *)
LEMMA NothingBehind ==
    ASSUME TypeInv, InboxInv, HandledInv, NEW p \in Peers, NEW i \in DOMAIN inbox[p],
           inbox[p][i].status # "done", NEW l, l = LinkOf(p, inbox[p][i].envelope),
           NEW a \in DOMAIN taken[l]
    PROVE  /\ l \in Links /\ taken[l][a].sequence <= inbox[p][i].envelope.sequence
           /\ LinkOf(p, taken[l][a]) = l /\ Available(p, taken[l][a])
<1>1. PICK m \in Envelopes : m = inbox[p][i].envelope
  BY InboxIs
<1>2. l \in Links /\ l[1] = p
  BY <1>1, LinkIs
<1>3. PICK e : e = taken[l][a]
  OBVIOUS
<1>4. e \in Envelopes /\ e.sequence \in Nat /\ m.sequence \in Nat
  BY <1>2, <1>3, HandledIs, DeliveryAssumption DEF Envelopes
<1>5. LinkOf(p, e) = l /\ Available(p, e) /\ Given(l, e)
  BY <1>2, <1>3 DEF HandledInv, GivenIsAvailable, Given
<1>6. PICK j \in DOMAIN inbox[p] : inbox[p][j].envelope = e
  BY <1>5 DEF Available, RowOf
<1>7. ~(m.sequence < e.sequence)
  <2> SUFFICES ASSUME m.sequence < e.sequence PROVE FALSE
    OBVIOUS
  <2>1. SameLink(p, i, j) /\ SameLink(p, j, i)
    BY <1>1, <1>5, <1>6 DEF SameLink
  <2>2. i \in Nat /\ j \in Nat
    BY InboxIs
  <2>3. i < j
    <3>1. ~(j < i)
      BY <1>1, <1>4, <1>6, <2>1 DEF InboxInv
    <3>2. i # j
      BY <1>1, <1>4, <1>6
    <3> QED BY <2>2, <3>1, <3>2
  <2>4. inbox[p][i].status = "done"
    BY <1>5, <1>6, <2>1, <2>3 DEF HandledInv, DoneBeforeNext
  <2> QED BY <2>4
<1> QED BY <1>1, <1>2, <1>3, <1>4, <1>5, <1>7

(* Available messages stay available.                                      *)
LEMMA GivenStays ==
    ASSUME TypeInv, HandledInv, taken' = taken,
           \A q \in Peers : \A i \in DOMAIN inbox[q] :
              Lasting(q, i) \/ inbox[q][i].status = "staged"
    PROVE  GivenIsAvailable'
<1>1. ASSUME NEW l \in Links, NEW i \in DOMAIN taken[l]
      PROVE  /\ LinkOf(l[1], taken[l][i]) = l
             /\ AvailableNext(l[1], taken[l][i])
             /\ taken[l][i].sequence <= taken[l][Len(taken[l])].sequence
  <2>1. PICK q, e : q = l[1] /\ e = taken[l][i]
    OBVIOUS
  <2>2. q \in Peers /\ Available(q, e)
    BY <2>1, HandledIs DEF HandledInv, GivenIsAvailable
  <2>3. AvailableNext(q, e)
    BY <2>2, AvailableStays
  <2> QED BY <2>1, <2>3 DEF HandledInv, GivenIsAvailable
<1> QED BY <1>1 DEF GivenIsAvailable, Available, AvailableNext, RowOf

(* The two conditions on one peer's rows, after a step.                    *)
HandledRows(q) ==
    /\ \A i \in DOMAIN inbox'[q] :
          inbox'[q][i].status \in {"processing", "done"} =>
             Given(LinkOf(q, inbox'[q][i].envelope), inbox'[q][i].envelope)
    /\ \A i, j \in DOMAIN inbox'[q] :
          /\ i < j /\ LinkOf(q, inbox'[q][i].envelope) = LinkOf(q, inbox'[q][j].envelope)
          /\ Given(LinkOf(q, inbox'[q][j].envelope), inbox'[q][j].envelope)
          => inbox'[q][i].status = "done"

LEMMA RowsHandled ==
    ASSUME taken' = taken, \A q \in Peers : HandledRows(q)
    PROVE  UnderWayIsGiven' /\ DoneBeforeNext'
<1>1. UnderWayIsGiven'
  BY DEF UnderWayIsGiven, HandledRows, Given
<1>2. DoneBeforeNext'
  BY DEF DoneBeforeNext, HandledRows, Given, SameLink
<1> QED BY <1>1, <1>2

LEMMA HandledSame ==
    ASSUME HandledInv, NEW q \in Peers, inbox'[q] = inbox[q]
    PROVE  HandledRows(q)
BY DEF HandledInv, UnderWayIsGiven, DoneBeforeNext, SameLink, HandledRows

LEMMA HandledForward ==
    ASSUME HandledInv, NEW q \in Peers, Forward(q)
    PROVE  HandledRows(q)
<1>1. /\ DOMAIN inbox'[q] = DOMAIN inbox[q]
      /\ \A i \in DOMAIN inbox[q] :
            /\ inbox'[q][i].envelope = inbox[q][i].envelope
            /\ inbox[q][i].status = "done" => inbox'[q][i].status = "done"
            /\ inbox'[q][i].status \in {"processing", "done"} =>
                  inbox[q][i].status \in {"processing", "done"}
  BY DEF Forward, Marks
<1> QED BY <1>1 DEF HandledInv, UnderWayIsGiven, DoneBeforeNext, SameLink, HandledRows

LEMMA HandledDrops ==
    ASSUME HandledInv, NEW q \in Peers, NEW m, Drops(q, m)
    PROVE  HandledRows(q)
<1>1. PICK f \in [DOMAIN inbox'[q] -> DOMAIN inbox[q]] :
         /\ \A a, b \in DOMAIN inbox'[q] : a < b => f[a] < f[b]
         /\ \A a \in DOMAIN inbox'[q] : inbox'[q][a] = inbox[q][f[a]]
  BY DEF Drops
<1> QED BY <1>1 DEF HandledInv, UnderWayIsGiven, DoneBeforeNext, SameLink, HandledRows

LEMMA HandledAdds ==
    ASSUME TypeInv, HandledInv, NEW q \in Peers, NEW m \in Envelopes, Adds(q, m)
    PROVE  HandledRows(q)
<1>1. PICK n \in Nat : n = Len(inbox[q])
  BY InboxIs
<1>2. /\ DOMAIN inbox[q] = 1..n /\ DOMAIN inbox'[q] = 1..n + 1
      /\ \A a \in 1..n : inbox'[q][a] = inbox[q][a]
      /\ inbox'[q][n + 1].envelope = m /\ inbox'[q][n + 1].status = "staged"
  BY <1>1 DEF Adds, Grows
<1>3. ~Given(LinkOf(q, m), m)
  <2> SUFFICES ASSUME Given(LinkOf(q, m), m) PROVE FALSE
    OBVIOUS
  <2>1. PICK l : l = LinkOf(q, m)
    OBVIOUS
  <2>2. l \in Links /\ l[1] = q
    BY <2>1, LinkIs
  <2>3. PICK i \in DOMAIN taken[l] : taken[l][i] = m
    BY <2>1 DEF Given
  <2>4. Available(q, m)
    BY <2>2, <2>3 DEF HandledInv, GivenIsAvailable
  <2> QED BY <2>4 DEF Adds, Available
<1>4. ASSUME NEW i \in 1..n + 1, inbox'[q][i].status \in {"processing", "done"}
      PROVE  Given(LinkOf(q, inbox'[q][i].envelope), inbox'[q][i].envelope)
  <2>1. i \in 1..n
    BY <1>1, <1>2, <1>4
  <2> QED BY <1>2, <1>4, <2>1 DEF HandledInv, UnderWayIsGiven
<1>5. ASSUME NEW i \in 1..n + 1, NEW j \in 1..n + 1, i < j,
             LinkOf(q, inbox'[q][i].envelope) = LinkOf(q, inbox'[q][j].envelope),
             Given(LinkOf(q, inbox'[q][j].envelope), inbox'[q][j].envelope)
      PROVE  inbox'[q][i].status = "done"
  <2>1. j # n + 1
    BY <1>2, <1>3, <1>5
  <2>2. i \in 1..n /\ j \in 1..n
    BY <1>1, <1>5, <2>1
  <2> QED BY <1>2, <1>5, <2>2 DEF HandledInv, DoneBeforeNext, SameLink
<1> QED BY <1>2, <1>4, <1>5 DEF HandledRows

(* Steps that take no message.                                             *)
LEMMA HandledQuiet ==
    ASSUME TypeInv, HandledInv, taken' = taken, NEW p \in Peers,
           \/ inbox' = inbox
           \/ Forward(p)
           \/ \E m \in Envelopes : Drops(p, m) \/ Adds(p, m)
    PROVE  HandledInv'
<1>1. ASSUME NEW q \in Peers PROVE HandledRows(q)
  <2>1. CASE inbox'[q] = inbox[q]
    BY <2>1, HandledSame
  <2>2. CASE q = p
    BY <2>1, <2>2, HandledForward, HandledDrops, HandledAdds
  <2>3. CASE q # p
    <3>1. inbox'[q] = inbox[q]
      BY <2>3 DEF Forward, Marks, Drops, Adds, Grows, InboxOthers
    <3> QED BY <2>1, <3>1
  <2> QED BY <2>2, <2>3
<1>2. UnderWayIsGiven' /\ DoneBeforeNext'
  BY <1>1, RowsHandled
<1>3. \A q \in Peers : \A i \in DOMAIN inbox[q] : Lasting(q, i) \/ inbox[q][i].status = "staged"
  <2>1. CASE inbox' = inbox
    BY <2>1, LastSame DEF AllLast
  <2>2. CASE Forward(p)
    BY <2>2, LastMarks DEF AllLast, Forward
  <2>3. ASSUME NEW m \in Envelopes, Drops(p, m)
        PROVE  \A q \in Peers : \A i \in DOMAIN inbox[q] :
                  Lasting(q, i) \/ inbox[q][i].status = "staged"
    BY <2>3, LastDrops DEF LastBut
  <2>4. ASSUME NEW m \in Envelopes, Adds(p, m) PROVE AllLast
    BY <2>4, LastGrows DEF Adds
  <2> QED BY <2>1, <2>2, <2>3, <2>4 DEF AllLast
<1>4. GivenIsAvailable'
  BY <1>3, GivenStays
<1> QED BY <1>2, <1>4 DEF HandledInv

(* A row that a worker may take: all the rows ahead of it are processed.   *)
LEMMA AheadIsDone ==
    ASSUME TypeInv, DurableInv, ArrivalInv, InboxInv, NEW p \in Peers,
           NEW i \in DOMAIN inbox[p], ClaimRow(p, i), NEW a \in DOMAIN inbox[p],
           a < i, SameLink(p, a, i)
    PROVE  inbox[p][a].status = "done"
<1>1. a \in 1 .. i - 1 /\ inbox[p][a].status \in InboxStatus
  BY InboxIs
<1>2. inbox[p][a].status \notin {"received", "processing"}
  BY <1>1, ClaimStep
<1>3. inbox[p][a].status # "staged"
  BY AheadIsAvailable
<1> QED BY <1>1, <1>2, <1>3 DEF InboxStatus

(* A message is taken.                                                     *)
LEMMA HandledClaim ==
    ASSUME TypeInv, DurableInv, ArrivalInv, InboxInv, HandledInv,
           NEW p \in Peers, NEW i \in DOMAIN inbox[p], ClaimRow(p, i)
    PROVE  HandledInv'
<1>0. PICK m \in Envelopes : m = inbox[p][i].envelope
  BY InboxIs
<1>l. PICK L : L = LinkOf(p, m)
  OBVIOUS
<1>1. /\ Marks(p) /\ inbox[p][i].status = "received" /\ inbox'[p][i].status = "processing"
      /\ \A j \in DOMAIN inbox[p] : j # i => inbox'[p][j] = inbox[p][j]
      /\ \A l \in Links : taken'[l] = IF l = L THEN Append(taken[l], m) ELSE taken[l]
  BY <1>0, <1>l, ClaimStep
<1>2. L \in Links /\ L[1] = p /\ m.sequence \in Nat
  BY <1>l, LinkIs, DeliveryAssumption DEF Envelopes
<1>3. PICK n \in Nat : n = Len(taken[L])
  BY <1>2, HandledIs
<1>4. /\ DOMAIN taken[L] = 1..n /\ DOMAIN taken'[L] = 1..n + 1 /\ Len(taken'[L]) = n + 1
      /\ \A a \in 1..n : taken'[L][a] = taken[L][a]
      /\ taken'[L][n + 1] = m
  <2>1. taken[L] \in Seq(Envelopes) /\ taken'[L] = Append(taken[L], m)
    BY <1>1, <1>2, HandledIs
  <2> QED BY <1>3, <2>1
<1> DEFINE GivenNext(l, e) == \E a \in DOMAIN taken'[l] : taken'[l][a] = e
<1>5. \A l \in Links : \A e : GivenNext(l, e) <=> (Given(l, e) \/ (l = L /\ e = m))
  <2> SUFFICES ASSUME NEW l \in Links, NEW e
               PROVE  GivenNext(l, e) <=> (Given(l, e) \/ (l = L /\ e = m))
    OBVIOUS
  <2>1. CASE l = L
    <3>1. GivenNext(L, e) => Given(L, e) \/ e = m
      <4>1. \A a \in 1..n + 1 : a \in 1..n \/ a = n + 1
        BY <1>3
      <4> QED BY <1>4, <4>1 DEF Given
    <3>2. Given(L, e) => GivenNext(L, e)
      BY <1>3, <1>4 DEF Given
    <3>3. GivenNext(L, m)
      <4>1. n + 1 \in DOMAIN taken'[L]
        BY <1>3, <1>4
      <4> QED BY <1>4, <4>1
    <3> QED BY <2>1, <3>1, <3>2, <3>3
  <2>2. CASE l # L
    BY <1>1, <2>2 DEF Given
  <2> QED BY <2>1, <2>2
<1>6. \A q \in Peers : q # p => inbox'[q] = inbox[q]
  BY <1>1 DEF Marks, InboxOthers
<1>7. /\ DOMAIN inbox'[p] = DOMAIN inbox[p]
      /\ \A j \in DOMAIN inbox[p] : inbox'[p][j].envelope = inbox[p][j].envelope
  BY <1>1 DEF Marks
<1>8. \A q \in Peers : \A j \in DOMAIN inbox'[q] :
         /\ inbox'[q][j].envelope \in Envelopes
         /\ LinkOf(q, inbox'[q][j].envelope) \in Links
  BY <1>6, <1>7, InboxIs, LinkIs
<1> HIDE DEF GivenNext
<1>9. UnderWayIsGiven'
  <2>1. ASSUME NEW q \in Peers, NEW j \in DOMAIN inbox'[q],
               inbox'[q][j].status \in {"processing", "done"}
        PROVE  GivenNext(LinkOf(q, inbox'[q][j].envelope), inbox'[q][j].envelope)
    <3>1. CASE q = p /\ j = i
      BY <1>0, <1>l, <1>2, <1>5, <1>7, <3>1
    <3>2. CASE ~(q = p /\ j = i)
      <4>1. j \in DOMAIN inbox[q] /\ inbox'[q][j] = inbox[q][j]
        BY <1>1, <1>6, <1>7, <2>1, <3>2
      <4>2. Given(LinkOf(q, inbox[q][j].envelope), inbox[q][j].envelope)
        BY <2>1, <4>1 DEF HandledInv, UnderWayIsGiven
      <4> QED BY <1>5, <1>8, <2>1, <4>1, <4>2
    <3> QED BY <3>1, <3>2
  <2> QED BY <2>1 DEF UnderWayIsGiven, Given, GivenNext
<1>10. DoneBeforeNext'
  <2>1. ASSUME NEW q \in Peers, NEW a \in DOMAIN inbox'[q], NEW b \in DOMAIN inbox'[q],
               a < b, LinkOf(q, inbox'[q][a].envelope) = LinkOf(q, inbox'[q][b].envelope),
               GivenNext(LinkOf(q, inbox'[q][b].envelope), inbox'[q][b].envelope)
        PROVE  inbox'[q][a].status = "done"
    <3>1. /\ a \in DOMAIN inbox[q] /\ b \in DOMAIN inbox[q] /\ SameLink(q, a, b)
          /\ inbox'[q][a].envelope = inbox[q][a].envelope
          /\ inbox'[q][b].envelope = inbox[q][b].envelope
      BY <1>6, <1>7, <2>1 DEF SameLink
    <3>2. inbox[q][a].status = "done"
      <4>1. CASE Given(LinkOf(q, inbox[q][b].envelope), inbox[q][b].envelope)
        BY <2>1, <3>1, <4>1 DEF HandledInv, DoneBeforeNext
      <4>2. CASE LinkOf(q, inbox[q][b].envelope) = L /\ inbox[q][b].envelope = m
        <5>1. q = p
          BY <1>l, <4>2 DEF LinkOf
        <5>2. b = i
          BY <1>0, <3>1, <4>2, <5>1, OneRow
        <5> QED BY <2>1, <3>1, <5>1, <5>2, AheadIsDone
      <4> QED BY <1>5, <1>8, <2>1, <3>1, <4>1, <4>2
    <3>3. ~(q = p /\ a = i)
      BY <1>1, <3>2
    <3>4. inbox'[q][a] = inbox[q][a]
      BY <1>1, <1>6, <3>1, <3>3
    <3> QED BY <3>2, <3>4
  <2> QED BY <2>1 DEF DoneBeforeNext, SameLink, Given, GivenNext
<1>11. GivenIsAvailable'
  <2>1. AllLast
    BY <1>1, LastMarks
  <2>2. \A q \in Peers : \A e : Available(q, e) => AvailableNext(q, e)
    BY <2>1, AvailableStays DEF AllLast
  <2>3. ASSUME NEW l \in Links, NEW a \in DOMAIN taken'[l]
        PROVE  /\ LinkOf(l[1], taken'[l][a]) = l
               /\ AvailableNext(l[1], taken'[l][a])
               /\ taken'[l][a].sequence <= taken'[l][Len(taken'[l])].sequence
    <3>0. l[1] \in Peers
      BY HandledIs
    <3>1. CASE l # L
      <4>1. taken'[l] = taken[l]
        BY <1>1, <3>1
      <4>2. /\ LinkOf(l[1], taken[l][a]) = l /\ Available(l[1], taken[l][a])
            /\ taken[l][a].sequence <= taken[l][Len(taken[l])].sequence
        BY <2>3, <4>1 DEF HandledInv, GivenIsAvailable
      <4> QED BY <2>2, <3>0, <4>1, <4>2
    <3>2. CASE l = L /\ a \in 1..n
      <4>1. /\ taken[L][a].sequence <= m.sequence
            /\ LinkOf(p, taken[L][a]) = L /\ Available(p, taken[L][a])
        <5>1. a \in DOMAIN taken[L] /\ inbox[p][i].status # "done"
              /\ L = LinkOf(p, inbox[p][i].envelope)
          BY <1>0, <1>l, <1>1, <1>4, <3>2
        <5> QED BY <1>0, <5>1, NothingBehind
      <4> QED BY <1>2, <1>4, <2>2, <3>2, <4>1
    <3>3. CASE l = L /\ a = n + 1
      <4>1. AvailableNext(p, m)
        BY <1>0, <1>1, <1>7 DEF AvailableNext
      <4> QED BY <1>l, <1>2, <1>4, <3>3, <4>1
    <3> QED BY <1>3, <1>4, <2>3, <3>1, <3>2, <3>3
  <2> QED BY <2>3 DEF GivenIsAvailable, Available, AvailableNext, RowOf
<1> QED BY <1>9, <1>10, <1>11 DEF HandledInv

LEMMA HandledStep ==
    ASSUME TypeInv, DurableInv, ArrivalInv, InboxInv, HandledInv, [Next]_vars
    PROVE  HandledInv'
<1>1. CASE \E p \in Peers : \E i \in DOMAIN inbox[p] : ClaimRow(p, i)
  BY <1>1, HandledClaim
<1>2. CASE inbox' = inbox /\ taken' = taken
  <2>1. CASE Peers = {}
    <3>1. UnderWayIsGiven' /\ DoneBeforeNext'
      BY <2>1 DEF UnderWayIsGiven, DoneBeforeNext
    <3>2. GivenIsAvailable'
      BY <2>1 DEF GivenIsAvailable, Links
    <3> QED BY <3>1, <3>2 DEF HandledInv
  <2>2. CASE Peers # {}
    BY <1>2, <2>2, HandledQuiet
  <2> QED BY <2>1, <2>2
<1>3. ASSUME NEW p \in Peers, taken' = taken,
             Forward(p) \/ \E m \in Envelopes : Drops(p, m) \/ Adds(p, m)
      PROVE  HandledInv'
  BY <1>3, HandledQuiet
<1> QED BY <1>1, <1>2, <1>3, InboxStep

-----------------------------------------------------------------------------
(* The history of publications.                                            *)

LEMMA QueueStep ==
    ASSUME TypeInv, OrderInv, QueueInv, [Next]_vars
    PROVE  QueueInv'
<1>q. \A l \in Links : /\ queued[l] \in Seq(Envelopes) /\ Len(queued[l]) \in Nat
                      /\ DOMAIN queued[l] = 1..Len(queued[l])
  BY DEF TypeInv
<1>1. CASE SameRows /\ queued' = queued
  <2>1. /\ DOMAIN outbox' = DOMAIN outbox
        /\ \A i \in DOMAIN outbox : /\ outbox'[i].peer = outbox[i].peer
                                    /\ outbox'[i].envelope = outbox[i].envelope
    BY <1>1 DEF SameRows, Kept
  <2> QED BY <1>1, <2>1 DEF QueueInv
<1>2. ASSUME NEW t \in Publishers, Stores(t)
      PROVE  QueueInv'
  <2>0. PICK e, S : e = Envelope(t) /\ S = task[t].to
    OBVIOUS
  <2>1. task[t].at = "made" /\ outbox' = outbox \o RowsOf(t)
        /\ queued' = [l \in Links |-> IF \E p \in S : l = LinkOf(p, e)
                                       THEN Append(queued[l], e) ELSE queued[l]]
    BY <1>2, <2>0 DEF Stores
  <2>2. /\ \A i \in DOMAIN outbox : i \in DOMAIN outbox' /\ outbox'[i] = outbox[i]
        /\ \A i \in DOMAIN outbox' \ DOMAIN outbox :
              outbox'[i].peer \in S /\ outbox'[i].envelope = e
        /\ \A q \in S : \E i \in DOMAIN outbox' \ DOMAIN outbox : outbox'[i].peer = q
    BY <2>0, <2>1, Published DEF Kept
  <2>3. /\ e \in Envelopes /\ e.session = session /\ e.stream = task[t].stream
        /\ S \in SUBSET Peers
    BY <2>0, <2>1, EnvelopeType DEF Envelope
  <2>4. ASSUME NEW l \in Links
        PROVE  \/ queued'[l] = queued[l] /\ ~(\E p \in S : l = LinkOf(p, e))
               \/ /\ l[1] \in S /\ l = LinkOf(l[1], e)
                  /\ DOMAIN queued'[l] = 1..Len(queued[l]) + 1
                  /\ \A i \in DOMAIN queued[l] : queued'[l][i] = queued[l][i]
                  /\ queued'[l][Len(queued[l]) + 1] = e
    <3>1. CASE \E p \in S : l = LinkOf(p, e)
      <4>1. l[1] \in S /\ l = LinkOf(l[1], e)
        BY <3>1 DEF LinkOf
      <4>2. queued'[l] = Append(queued[l], e) /\ queued[l] \in Seq(Envelopes)
        BY <1>q, <2>1, <3>1
      <4>3. /\ DOMAIN queued'[l] = 1..Len(queued[l]) + 1
            /\ \A i \in DOMAIN queued[l] : queued'[l][i] = queued[l][i]
            /\ queued'[l][Len(queued[l]) + 1] = e
        BY <2>3, <4>2
      <4> QED BY <4>1, <4>3
    <3>2. CASE ~(\E p \in S : l = LinkOf(p, e))
      BY <2>1, <3>2
    <3> QED BY <3>1, <3>2
  <2>5. ASSUME NEW l \in Links, NEW i \in DOMAIN queued'[l]
        PROVE  /\ LinkOf(l[1], queued'[l][i]) = l
               /\ \E j \in DOMAIN outbox' :
                     outbox'[j].peer = l[1] /\ outbox'[j].envelope = queued'[l][i]
    <3>1. CASE i \in DOMAIN queued[l] /\ queued'[l][i] = queued[l][i]
      BY <2>2, <3>1 DEF QueueInv
    <3>2. CASE l[1] \in S /\ l = LinkOf(l[1], e) /\ queued'[l][i] = e
      BY <2>2, <3>2
    <3>3. \A a \in 1..Len(queued[l]) + 1 : a \in DOMAIN queued[l] \/ a = Len(queued[l]) + 1
      BY <1>q
    <3> QED BY <2>4, <2>5, <3>1, <3>2, <3>3
  <2>6. ASSUME NEW i \in DOMAIN outbox'
        PROVE  LET l == LinkOf(outbox'[i].peer, outbox'[i].envelope)
               IN  \E j \in DOMAIN queued'[l] : queued'[l][j] = outbox'[i].envelope
    <3>1. PICK q, x, l : q = outbox'[i].peer /\ x = outbox'[i].envelope /\ l = LinkOf(q, x)
      OBVIOUS
    <3>2. CASE i \in DOMAIN outbox
      <4>1. q = outbox[i].peer /\ x = outbox[i].envelope /\ q \in Peers /\ x \in Envelopes
        BY <2>2, <3>1, <3>2, OutboxIs
      <4>2. l \in Links
        BY <3>1, <4>1, LinkIs
      <4>3. PICK j \in DOMAIN queued[l] : queued[l][j] = x
        BY <3>1, <3>2, <4>1 DEF QueueInv
      <4>4. j \in DOMAIN queued'[l] /\ queued'[l][j] = x
        BY <1>q, <2>4, <4>2, <4>3
      <4> QED BY <3>1, <4>4
    <3>3. CASE i \notin DOMAIN outbox
      <4>1. q \in S /\ x = e
        BY <2>2, <2>6, <3>1, <3>3
      <4>2. l \in Links
        BY <2>3, <3>1, <4>1, LinkIs
      <4>3. Len(queued[l]) + 1 \in DOMAIN queued'[l] /\ queued'[l][Len(queued[l]) + 1] = x
        BY <1>q, <2>4, <3>1, <4>1, <4>2
      <4> QED BY <3>1, <4>3
    <3> QED BY <3>2, <3>3
  <2>7. ASSUME NEW l \in Links, NEW i \in DOMAIN queued'[l], NEW j \in DOMAIN queued'[l], i < j
        PROVE  queued'[l][i].sequence < queued'[l][j].sequence
    <3>1. PICK n \in Nat : n = Len(queued[l])
      BY <1>q
    <3>2. CASE queued'[l] = queued[l]
      BY <2>7, <3>2 DEF QueueInv
    <3>3. CASE /\ l[1] \in S /\ l = LinkOf(l[1], e) /\ DOMAIN queued'[l] = 1..n + 1
               /\ \A a \in DOMAIN queued[l] : queued'[l][a] = queued[l][a]
               /\ queued'[l][n + 1] = e
      <4>1. i \in 1..n /\ (j \in 1..n \/ j = n + 1) /\ DOMAIN queued[l] = 1..n
        BY <1>q, <2>7, <3>1, <3>3
      <4>2. CASE j \in 1..n
        BY <2>7, <3>3, <4>1, <4>2 DEF QueueInv
      <4>3. CASE j = n + 1
        <5>1. PICK x : x = queued[l][i]
          OBVIOUS
        <5>2. PICK a \in DOMAIN outbox : outbox[a].peer = l[1] /\ outbox[a].envelope = x
          BY <4>1, <5>1 DEF QueueInv
        <5>3. LinkOf(l[1], x) = LinkOf(l[1], e)
          BY <3>3, <4>1, <5>1 DEF QueueInv
        <5>4. LatestOf(a, task[t].stream)
          BY <2>3, <5>2, <5>3 DEF LinkOf, LatestOf
        <5>5. x.sequence < e.sequence
          BY <1>2, <2>0, <5>2, <5>4, StoresBehind
        <5> QED BY <3>3, <4>1, <4>3, <5>1, <5>5
      <4> QED BY <4>1, <4>2, <4>3
    <3> QED BY <2>4, <3>1, <3>2, <3>3
  <2> QED BY <2>5, <2>6, <2>7 DEF QueueInv
<1> QED BY <1>1, <1>2, OutboxStep

-----------------------------------------------------------------------------
(* The reliable queue.                                                     *)

LEMMA FifoAtFirst == Init => FifoInv
<1> SUFFICES ASSUME Init PROVE FifoInv
  OBVIOUS
<1>1. TypeInv /\ OrderInv /\ DurableInv
  BY TypesAtFirst, OrderAtFirst, DurableAtFirst
<1>2. DOMAIN outbox = {}
  BY DEF Init
<1>3. \A p \in Peers : DOMAIN inbox[p] = {}
  BY DEF Init
<1>4. \A l \in Links : DOMAIN queued[l] = {} /\ DOMAIN taken[l] = {}
  BY DEF Init
<1>5. \A p \in Peers, st \in Streams, k \in Connections : conn[p][st][k] = NoThread
  BY DEF Init
<1>6. ArrivalInv /\ InboxInv
  BY <1>3, <1>5 DEF ArrivalInv, InboxInv
<1>7. HandledInv
  BY <1>3, <1>4 DEF HandledInv, UnderWayIsGiven, GivenIsAvailable, DoneBeforeNext
<1>8. QueueInv
  BY <1>2, <1>4 DEF QueueInv
<1> QED BY <1>1, <1>6, <1>7, <1>8 DEF FifoInv

LEMMA FifoStep ==
    ASSUME PublishLocked, MaxConnections = 1, FifoInv, [Next]_vars
    PROVE  FifoInv'
BY TypesStep, OrderStep, DurableStep, ArrivalStep, InboxOrderStep, HandledStep, QueueStep
   DEF FifoInv

(* A row that was taken before and is taken again was taken last.          *)
LEMMA AgainIsLast ==
    ASSUME FifoInv, NEW p \in Peers, NEW i \in DOMAIN inbox[p], ClaimRow(p, i),
           NEW m, m = inbox[p][i].envelope, NEW l, l = LinkOf(p, m), Given(l, m)
    PROVE  taken[l] # <<>> /\ taken[l][Len(taken[l])] = m
<1>1. /\ TypeInv /\ InboxInv /\ HandledInv /\ m \in Envelopes
      /\ inbox[p][i].status # "done"
  BY ClaimStep, InboxIs DEF FifoInv
<1>2. l \in Links /\ l[1] = p
  BY <1>1, LinkIs
<1>3. PICK n \in Nat : n = Len(taken[l])
  BY <1>1, <1>2, HandledIs
<1>4. DOMAIN taken[l] = 1..n
  BY <1>1, <1>2, <1>3, HandledIs
<1>5. PICK a \in DOMAIN taken[l] : taken[l][a] = m
  BY DEF Given
<1>6. n \in DOMAIN taken[l]
  BY <1>4, <1>5
<1>7. PICK x \in Envelopes : x = taken[l][n]
  BY <1>1, <1>2, <1>6, HandledIs
<1>8. m.sequence <= x.sequence
  BY <1>1, <1>2, <1>3, <1>5, <1>7 DEF HandledInv, GivenIsAvailable
<1>9. x.sequence <= m.sequence /\ LinkOf(p, x) = l
  BY <1>1, <1>6, <1>7, NothingBehind
<1>10. x = m
  <2>1. x.sequence \in Nat /\ m.sequence \in Nat
    BY <1>1, DeliveryAssumption DEF Envelopes
  <2>2. x.sequence = m.sequence
    BY <1>8, <1>9, <2>1
  <2> QED BY <1>1, <1>9, <2>2, SameMessage
<1>11. taken[l] # <<>>
  BY <1>5
<1> QED BY <1>3, <1>7, <1>10, <1>11

(* What was taken from a link, and what is ahead of its message k.         *)
TakenOf(l)  == {taken[l][a] : a \in DOMAIN taken[l]}
Ahead(l, k) == {queued[l][b] : b \in 1..k - 1}

(* What is ahead of a message on its link has been taken, and nothing      *)
(* else.                                                                   *)
LEMMA TakenSoFar ==
    ASSUME FifoInv, NEW p \in Peers, NEW i \in DOMAIN inbox[p], ClaimRow(p, i),
           NEW m, m = inbox[p][i].envelope, NEW l, l = LinkOf(p, m), ~Given(l, m)
    PROVE  \E k \in DOMAIN queued[l] : queued[l][k] = m /\ TakenOf(l) = Ahead(l, k)
<1>1. /\ TypeInv /\ InboxInv /\ HandledInv /\ DurableInv /\ ArrivalInv /\ QueueInv
      /\ m \in Envelopes /\ inbox[p][i].status # "done"
  BY ClaimStep, InboxIs DEF FifoInv
<1>2. l \in Links /\ l[1] = p
  BY <1>1, LinkIs
<1>3. /\ queued[l] \in Seq(Envelopes) /\ Len(queued[l]) \in Nat
      /\ DOMAIN queued[l] = 1..Len(queued[l])
      /\ \A b \in DOMAIN queued[l] : queued[l][b] \in Envelopes
  <2>1. queued[l] \in Seq(Envelopes)
    BY <1>1, <1>2 DEF TypeInv
  <2> QED BY <2>1
<1>n. \A e \in Envelopes : e.sequence \in Nat
  BY DeliveryAssumption DEF Envelopes
<1>f. Follows(p, m)
  BY <1>1 DEF ArrivalInv
<1>4. PICK k \in DOMAIN queued[l] : queued[l][k] = m
  <2>1. PICK j \in DOMAIN outbox : outbox[j].peer = p /\ outbox[j].envelope = m
    BY <1>f DEF Follows
  <2> QED BY <1>1, <2>1 DEF QueueInv
<1>5. ASSUME NEW a \in DOMAIN taken[l]
      PROVE  \E b \in 1..k - 1 : queued[l][b] = taken[l][a]
  <2>1. PICK x \in Envelopes : x = taken[l][a]
    BY <1>1, <1>2, HandledIs
  <2>2. x.sequence <= m.sequence /\ LinkOf(p, x) = l /\ Available(p, x)
    BY <1>1, <2>1, NothingBehind
  <2>3. x # m
    BY <2>1 DEF Given
  <2>4. x.sequence < m.sequence
    <3>1. x.sequence # m.sequence
      BY <1>1, <2>2, <2>3, SameMessage
    <3> QED BY <1>1, <1>n, <2>2, <3>1
  <2>5. PICK j \in DOMAIN outbox : outbox[j].peer = p /\ outbox[j].envelope = x
    <3>1. PICK r \in DOMAIN inbox[p] : inbox[p][r].envelope = x
      BY <2>2 DEF Available, RowOf
    <3>2. Follows(p, x)
      BY <1>1, <3>1 DEF ArrivalInv
    <3> QED BY <3>2 DEF Follows
  <2>6. PICK b \in DOMAIN queued[l] : queued[l][b] = x
    BY <1>1, <2>2, <2>5 DEF QueueInv
  <2>7. ~(k < b) /\ k # b
    BY <1>1, <1>2, <1>4, <1>n, <2>4, <2>6 DEF QueueInv
  <2>8. b \in 1..k - 1
    BY <1>3, <2>7
  <2> QED BY <2>1, <2>6, <2>8
<1>6. ASSUME NEW b \in 1..k - 1
      PROVE  \E a \in DOMAIN taken[l] : taken[l][a] = queued[l][b]
  <2>1. b \in DOMAIN queued[l] /\ b < k
    BY <1>3
  <2>2. PICK x \in Envelopes : x = queued[l][b]
    BY <1>3, <2>1
  <2>3. x.sequence < m.sequence /\ LinkOf(p, x) = l
    BY <1>1, <1>2, <1>4, <2>1, <2>2 DEF QueueInv
  <2>4. PICK j \in DOMAIN outbox : outbox[j].peer = p /\ outbox[j].envelope = x
    BY <1>1, <1>2, <2>1, <2>2 DEF QueueInv
  <2>5. outbox[j].status = "delivered"
    BY <1>f, <2>3, <2>4 DEF Follows
  <2>6. PICK r \in DOMAIN inbox[p] : inbox[p][r].envelope = x
    BY <1>1, <2>4, <2>5 DEF DurableInv, AckedIsDurable, RowOf
  <2>7. SameLink(p, r, i) /\ SameLink(p, i, r)
    BY <2>3, <2>6 DEF SameLink
  <2>8. r < i
    <3>1. r \in Nat /\ i \in Nat
      BY <1>1, InboxIs
    <3>2. ~(i < r) /\ r # i
      BY <1>1, <1>n, <2>3, <2>6, <2>7 DEF InboxInv
    <3> QED BY <3>1, <3>2
  <2>9. inbox[p][r].status = "done"
    BY <1>1, <2>7, <2>8, AheadIsDone
  <2>10. Given(l, x)
    BY <1>1, <2>3, <2>6, <2>9 DEF HandledInv, UnderWayIsGiven
  <2> QED BY <2>2, <2>10 DEF Given
<1>7. TakenOf(l) = Ahead(l, k)
  BY <1>5, <1>6 DEF TakenOf, Ahead
<1> QED BY <1>4, <1>7

LEMMA PutStep ==
    ASSUME TypeInv, NEW t \in Publishers, Stores(t)
    PROVE  Channel!Put
<1>1. PICK e : e = Envelope(t)
  OBVIOUS
<1>2. e \in Envelopes
  BY <1>1, EnvelopeType DEF Stores
<1>3. queued' = [l \in Links |-> IF \E p \in task[t].to : l = LinkOf(p, e)
                                 THEN Append(queued[l], e) ELSE queued[l]]
  BY <1>1 DEF Stores
<1>4. \A l \in Links : queued'[l] = queued[l] \/ queued'[l] = Append(queued[l], e)
  BY <1>3
<1>5. queued' = [l \in Links |-> queued'[l]]
  BY <1>3
<1>6. UNCHANGED <<taken, unheard, subscribed>>
  BY DEF Stores, receiverVars
<1> QED BY <1>2, <1>4, <1>5, <1>6 DEF Channel!Put

LEMMA TakeStep ==
    ASSUME FifoInv, queued' = queued, NEW p \in Peers, NEW i \in DOMAIN inbox[p], ClaimRow(p, i)
    PROVE  \E l \in Links : Channel!TakeNext(l) \/ Channel!TakeLastAgain(l)
<1>1. PICK m, l : m = inbox[p][i].envelope /\ l = LinkOf(p, m)
  OBVIOUS
<1>3. TypeInv /\ QueueInv /\ l \in Links /\ l[1] = p
  BY <1>1, InboxIs, LinkIs DEF FifoInv
<1>2. Channel!Take(l, m)
  <2>1. /\ taken' = [taken EXCEPT ![l] = Append(@, m)] /\ subscribed' = subscribed
        /\ unheard' = IF subscribed[p] THEN unheard
                      ELSE [unheard EXCEPT ![l] = @ \cup {Len(taken[l]) + 1}]
    BY <1>1 DEF ClaimRow
  <2>2. l \in {u \in Links : subscribed[u[1]]} <=> subscribed[p]
    BY <1>3
  <2> QED BY <2>1, <2>2 DEF Channel!Take
<1>4. CASE Given(l, m)
  <2>1. taken[l] # <<>> /\ taken[l][Len(taken[l])] = m
    BY <1>1, <1>4, AgainIsLast
  <2>2. Channel!TakeLastAgain(l)
    BY <1>2, <2>1 DEF Channel!TakeLastAgain
  <2> QED BY <1>3, <2>2
<1>5. CASE ~Given(l, m)
  <2>1. PICK k \in DOMAIN queued[l] : queued[l][k] = m /\ TakenOf(l) = Ahead(l, k)
    BY <1>1, <1>5, TakenSoFar
  <2>2. Channel!Taken(l) = {queued[l][b] : b \in 1 .. k - 1}
    BY <2>1 DEF Channel!Taken, TakenOf, Ahead
  <2>5. Channel!TakeNext(l)
    BY <1>2, <2>1, <2>2 DEF Channel!TakeNext
  <2> QED BY <1>3, <2>5
<1> QED BY <1>4, <1>5

(* Only a claim takes a message, and only a restart or a subscription      *)
(* changes who listens.                                                    *)
LEMMA HearStep ==
    ASSUME [Next]_vars
    PROVE  \/ UNCHANGED <<taken, unheard, subscribed>>
           \/ \E p \in Peers : \E i \in DOMAIN inbox[p] : ClaimRow(p, i)
           \/ \E p \in Peers : PeerRestarts(p) \/ Subscribe(p)
<1>1. ASSUME NEW t \in Publishers, Publish(t) PROVE UNCHANGED <<taken, unheard, subscribed>>
  BY <1>1 DEF Publish, Number, MakeEnvelope, Enqueue, FlushEnds, receiverVars
<1>2. ASSUME NEW st \in Streams, Transmit(st) PROVE UNCHANGED <<taken, unheard, subscribed>>
  BY <1>2 DEF Transmit, Connect, ConnectFails, SendTimesOut, SendFails, receiverVars
<1>3. ASSUME NEW i \in DOMAIN outbox, BackoffElapses(i)
      PROVE  UNCHANGED <<taken, unheard, subscribed>>
  BY <1>3 DEF BackoffElapses, receiverVars
<1>4. ASSUME NEW p \in Peers, NEW st \in Streams, NEW k \in Connections, Serve(p, st, k)
      PROVE  UNCHANGED <<taken, unheard, subscribed>>
  BY <1>4 DEF Serve, Stage, AcceptSequence, HandleReplay, Activate, Acknowledge, receiverVars
<1>5. ASSUME NEW p \in Peers, Work(p)
      PROVE  \/ UNCHANGED <<taken, unheard, subscribed>>
             \/ \E i \in DOMAIN inbox[p] : ClaimRow(p, i)
  BY <1>5 DEF Work, FinishRow
<1>6. CASE SenderRestarts \/ UNCHANGED vars
  BY <1>6 DEF SenderRestarts, vars, receiverVars
<1> QED BY <1>1, <1>2, <1>3, <1>4, <1>5, <1>6 DEF Next

LEMMA ChannelStep ==
    ASSUME FifoInv, [Next]_vars
    PROVE  [Channel!Next]_<<queued, taken, unheard, {l \in Links : subscribed[l[1]]}>>
<1>1. TypeInv
  BY DEF FifoInv
<1>2. ASSUME NEW t \in Publishers, Stores(t) PROVE Channel!Next
  BY <1>1, <1>2, PutStep DEF Channel!Next
<1>3. CASE queued' = queued
  <2>1. CASE UNCHANGED <<taken, unheard, subscribed>>
    BY <1>3, <2>1
  <2>2. ASSUME NEW p \in Peers, NEW i \in DOMAIN inbox[p], ClaimRow(p, i)
        PROVE  Channel!Next
    BY <1>3, <2>2, TakeStep DEF Channel!Next
  <2>3. ASSUME NEW p \in Peers, PeerRestarts(p) \/ Subscribe(p) PROVE Channel!Next
    <3>1. UNCHANGED <<queued, taken, unheard>>
      BY <2>3 DEF PeerRestarts, Subscribe
    <3>2. {l \in Links : subscribed'[l[1]]} \in SUBSET Links
      OBVIOUS
    <3>3. Channel!Turn
      BY <3>1, <3>2 DEF Channel!Turn
    <3> QED BY <3>3 DEF Channel!Next
  <2> QED BY <2>1, <2>2, <2>3, HearStep
<1> QED BY <1>1, <1>2, <1>3, OutboxStep

(* Durable delivery implements one queue per peer, session and stream:     *)
(* with the publication lock, and with no two connection threads of a peer *)
(* and stream at a time, the workers take the messages in the order of     *)
(* publication, without gaps, whatever connections are lost and processes  *)
(* restarted, after a restart at most the last one again; and what they    *)
(* take while the handlers are subscribed the handlers hear.               *)
THEOREM DeliveryImplementsFifo ==
    ASSUME PublishLocked, MaxConnections = 1
    PROVE  Spec => ImplementsFifo
<1>1. Init => FifoInv
  BY FifoAtFirst
<1>2. FifoInv /\ [Next]_vars => FifoInv'
  BY FifoStep
<1>3. Init => Channel!Init
  <2> SUFFICES ASSUME Init PROVE Channel!Init
    OBVIOUS
  <2>1. \A l \in Links : l[1] \in Peers
    BY DEF Links
  <2>2. {l \in Links : subscribed[l[1]]} = Links
    BY <2>1 DEF Init
  <2> QED BY <2>2 DEF Init, Channel!Init
<1>4. FifoInv /\ [Next]_vars => [Channel!Next]_<<queued, taken, unheard, {l \in Links : subscribed[l[1]]}>>
  BY ChannelStep
<1> QED BY <1>1, <1>2, <1>3, <1>4, PTL DEF Spec, ImplementsFifo, Channel!Spec

-----------------------------------------------------------------------------
(* Messages that are taken again.                                          *)

(* Restarts are counted.                                                   *)
LEMMA StopsStep ==
    ASSUME TypeInv, [Next]_vars
    PROVE  stops \in Nat /\ (stops' = stops \/ stops' = stops + 1)
<1>0. stops \in Nat
  BY DeliveryAssumption DEF TypeInv
<1>1. ASSUME NEW t \in Publishers, Publish(t) PROVE stops' = stops
  BY <1>1 DEF Publish, Number, MakeEnvelope, Enqueue, FlushEnds, boundVars
<1>2. ASSUME NEW st \in Streams, Transmit(st) PROVE stops' = stops
  BY <1>2 DEF Transmit, Connect, ConnectFails, SendTimesOut, SendFails, boundVars
<1>3. ASSUME NEW i \in DOMAIN outbox, BackoffElapses(i) PROVE stops' = stops
  BY <1>3 DEF BackoffElapses, boundVars
<1>4. ASSUME NEW p \in Peers, NEW st \in Streams, NEW k \in Connections, Serve(p, st, k)
      PROVE  stops' = stops
  BY <1>4 DEF Serve, Stage, AcceptSequence, HandleReplay, Activate, Acknowledge, boundVars
<1>5. ASSUME NEW p \in Peers, Work(p) PROVE stops' = stops
  BY <1>5 DEF Work, ClaimRow, FinishRow, boundVars
<1>6. ASSUME NEW p \in Peers, PeerRestarts(p) PROVE stops' = stops + 1
  BY <1>6 DEF PeerRestarts
<1>7. ASSUME SenderRestarts \/ \E p \in Peers : Subscribe(p) PROVE stops' = stops
  BY <1>7 DEF SenderRestarts, Subscribe, boundVars
<1>8. CASE UNCHANGED vars
  BY <1>0, <1>8 DEF vars, boundVars
<1> QED BY <1>0, <1>1, <1>2, <1>3, <1>4, <1>5, <1>6, <1>7, <1>8 DEF Next

(* Returned, after a step that takes no message.                           *)
ReturnedNext(l) ==
    \E i \in DOMAIN inbox'[l[1]] :
       /\ inbox'[l[1]][i].status = "received"
       /\ LinkOf(l[1], inbox'[l[1]][i].envelope) = l
       /\ Given(l, inbox'[l[1]][i].envelope)

(* Only a restart brings a row back.                                       *)
LEMMA ReturnedBefore ==
    ASSUME FifoInv, [Next]_vars, taken' = taken, NEW l \in Links, ReturnedNext(l)
    PROVE  Returned(l) \/ stops' = stops + 1
<1>0. TypeInv /\ InboxInv /\ HandledInv
  BY DEF FifoInv
<1>1. PICK q \in Peers : q = l[1]
  BY <1>0, HandledIs
<1>2. PICK i \in DOMAIN inbox'[q] : /\ inbox'[q][i].status = "received"
                                  /\ LinkOf(q, inbox'[q][i].envelope) = l
                                  /\ Given(l, inbox'[q][i].envelope)
  BY <1>1 DEF ReturnedNext
<1>3. ASSUME NEW j \in DOMAIN inbox[q], inbox[q][j].status = "received",
             inbox[q][j].envelope = inbox'[q][i].envelope
      PROVE  Returned(l)
  BY <1>1, <1>2, <1>3 DEF Returned
<1>4. CASE inbox'[q] = inbox[q]
  BY <1>2, <1>3, <1>4
<1>5. CASE Forward(q)
  <2>1. /\ i \in DOMAIN inbox[q] /\ inbox'[q][i].envelope = inbox[q][i].envelope
        /\ inbox[q][i].status \in {"received", "staged"} \/ stops' = stops + 1
    BY <1>2, <1>5 DEF Forward, Marks
  <2>2. inbox[q][i].status # "staged"
    <3>1. PICK e : e = inbox[q][i].envelope
      OBVIOUS
    <3>2. PICK a \in DOMAIN taken[l] : taken[l][a] = e
      BY <1>2, <2>1, <3>1 DEF Given
    <3>3. Available(q, e)
      BY <1>0, <1>1, <3>2 DEF HandledInv, GivenIsAvailable
    <3>4. PICK j \in DOMAIN inbox[q] : inbox[q][j].envelope = e /\ inbox[q][j].status # "staged"
      BY <3>3 DEF Available, RowOf
    <3>5. j = i
      BY <1>0, <2>1, <3>1, <3>4, OneRow
    <3> QED BY <3>4, <3>5
  <2> QED BY <1>3, <2>1, <2>2
<1>6. ASSUME NEW m \in Envelopes, Drops(q, m) PROVE Returned(l)
  BY <1>2, <1>3, <1>6 DEF Drops
<1>7. ASSUME NEW m \in Envelopes, Adds(q, m) PROVE Returned(l)
  <2>1. PICK n \in Nat : n = Len(inbox[q])
    BY <1>0, InboxIs
  <2>2. /\ DOMAIN inbox[q] = 1..n /\ DOMAIN inbox'[q] = 1..n + 1
        /\ \A a \in 1..n : inbox'[q][a] = inbox[q][a]
        /\ inbox'[q][n + 1].status = "staged"
    BY <1>7, <2>1 DEF Adds, Grows
  <2>3. i \in 1..n
    BY <1>2, <2>1, <2>2
  <2> QED BY <1>2, <1>3, <2>2, <2>3
<1>8. ASSUME NEW p \in Peers, p # q,
             \/ Forward(p)
             \/ \E m \in Envelopes : Drops(p, m) \/ Adds(p, m)
      PROVE  inbox'[q] = inbox[q]
  BY <1>8 DEF Forward, Marks, Drops, Adds, Grows, InboxOthers
<1>9. ~(\E p \in Peers : \E j \in DOMAIN inbox[p] : ClaimRow(p, j))
  <2> SUFFICES ASSUME NEW p \in Peers, NEW j \in DOMAIN inbox[p], ClaimRow(p, j)
               PROVE  FALSE
    OBVIOUS
  <2>1. PICK m, u : m = inbox[p][j].envelope /\ u = LinkOf(p, m)
    OBVIOUS
  <2>2. u \in Links /\ taken'[u] = Append(taken[u], m)
    BY <1>0, <2>1, ClaimStep
  <2>3. taken[u] \in Seq(Envelopes) /\ m \in Envelopes
    BY <1>0, <2>1, <2>2, HandledIs, InboxIs
  <2>4. Len(Append(taken[u], m)) = Len(taken[u]) + 1 /\ Len(taken[u]) \in Nat
    BY <2>3
  <2> QED BY <2>2, <2>4
<1> QED BY <1>0, <1>4, <1>5, <1>6, <1>7, <1>8, <1>9, InboxStep

(* The messages taken from a link are finitely many.                       *)
LEMMA TakenFinite ==
    ASSUME TypeInv, NEW l \in Links
    PROVE  /\ IsFiniteSet(TakenOf(l)) /\ Cardinality(TakenOf(l)) \in Nat
           /\ Range(taken[l]) = TakenOf(l)
<1>1. PICK n, f : n \in Nat /\ n = Len(taken[l]) /\ f = taken[l]
  BY HandledIs
<1>2. f \in Seq(Envelopes) /\ DOMAIN f = 1..n
  BY <1>1, HandledIs
<1>3. PICK T : T = TakenOf(l)
  OBVIOUS
<1>4. f \in [1..n -> T] /\ \A t \in T : \E a \in 1..n : f[a] = t
  BY <1>1, <1>2, <1>3 DEF TakenOf
<1>5. f \in Surjection(1..n, T)
  BY <1>4 DEF Surjection
<1>6. IsFiniteSet(1..n)
  BY <1>1, FS_Interval
<1>7. IsFiniteSet(T)
  BY <1>5, <1>6, FS_Surjection
<1> QED BY <1>3, <1>7, FS_CardinalityType DEF TakenOf, Range

(* A claim that repeats a message uses up the row a restart returned, and  *)
(* no other row of its link is back with it.                               *)
LEMMA RepeatStep ==
    ASSUME FifoInv, RepeatInv, [Next]_vars
    PROVE  RepeatInv'
<1>0. TypeInv /\ InboxInv /\ HandledInv
  BY DEF FifoInv
<1>s. stops \in Nat /\ (stops' = stops \/ stops' = stops + 1)
  BY <1>0, StopsStep
<1>b. ASSUME NEW l \in Links
      PROVE  /\ Len(taken[l]) \in Nat /\ Cardinality(TakenOf(l)) \in Nat
             /\ Len(taken[l]) <= Cardinality(TakenOf(l)) + stops
             /\ Returned(l) => Len(taken[l]) + 1 <= Cardinality(TakenOf(l)) + stops
  BY <1>0, HandledIs, TakenFinite DEF RepeatInv
<1>1. CASE taken' = taken
  <2>1. ASSUME NEW l \in Links
        PROVE  /\ Len(taken[l]) <= Cardinality(TakenOf(l)) + stops'
               /\ ReturnedNext(l) => Len(taken[l]) + 1 <= Cardinality(TakenOf(l)) + stops'
    <3>1. ReturnedNext(l) => Returned(l) \/ stops' = stops + 1
      BY <1>1, ReturnedBefore
    <3>2. PICK n \in Nat, c \in Nat : n = Len(taken[l]) /\ c = Cardinality(TakenOf(l))
      BY <1>b
    <3>3. n <= c + stops /\ (Returned(l) => n + 1 <= c + stops)
      BY <1>b, <3>2
    <3>4. n <= c + stops'
      BY <1>s, <3>3
    <3>5. ASSUME ReturnedNext(l) PROVE n + 1 <= c + stops'
      <4>1. CASE Returned(l)
        <5>1. n + 1 <= c + stops
          BY <3>3, <4>1
        <5> QED BY <1>s, <5>1
      <4>2. CASE stops' = stops + 1
        BY <1>s, <3>3, <4>2
      <4> QED BY <3>1, <3>5, <4>1, <4>2
    <3> QED BY <3>2, <3>4, <3>5
  <2>2. ASSUME NEW l \in Links
        PROVE  /\ ReturnedNext(l) <=> Returned(l)'
               /\ Range(taken'[l]) = TakenOf(l)
    BY <1>0, <1>1, TakenFinite DEF ReturnedNext, Returned, Given
  <2> QED BY <1>1, <2>1, <2>2 DEF RepeatInv
<1>2. ASSUME NEW p \in Peers, NEW i \in DOMAIN inbox[p], ClaimRow(p, i)
      PROVE  RepeatInv'
  <2>0. PICK m \in Envelopes : m = inbox[p][i].envelope
    BY <1>0, InboxIs
  <2>l. PICK L \in Links : L = LinkOf(p, m) /\ L[1] = p
    BY LinkIs
  <2>1. /\ Marks(p) /\ inbox[p][i].status = "received" /\ inbox'[p][i].status = "processing"
        /\ \A j \in DOMAIN inbox[p] : j # i => inbox'[p][j] = inbox[p][j]
        /\ \A j \in 1 .. i - 1 : SameLink(p, j, i) =>
              inbox[p][j].status \notin {"received", "processing"}
        /\ \A l \in Links : taken'[l] = IF l = L THEN Append(taken[l], m) ELSE taken[l]
        /\ stops' = stops
    BY <1>0, <1>2, <2>0, <2>l, ClaimStep DEF boundVars
  <2>2. PICK n \in Nat : n = Len(taken[L])
    BY <1>0, HandledIs
  <2>3. /\ DOMAIN taken[L] = 1..n /\ DOMAIN taken'[L] = 1..n + 1 /\ Len(taken'[L]) = n + 1
        /\ \A a \in 1..n : taken'[L][a] = taken[L][a]
        /\ taken'[L][n + 1] = m
    <3>1. taken[L] \in Seq(Envelopes) /\ taken'[L] = Append(taken[L], m)
      BY <1>0, <2>1, HandledIs
    <3> QED BY <2>2, <3>1
  <2>4. Range(taken'[L]) = TakenOf(L) \cup {m}
    <3>1. \A a \in 1..n + 1 : a \in 1..n \/ a = n + 1
      BY <2>2
    <3>2. n + 1 \in 1..n + 1 /\ \A a \in 1..n : a \in 1..n + 1
      BY <2>2
    <3> QED BY <2>3, <3>1, <3>2 DEF Range, TakenOf
  <2>5. m \in TakenOf(L) <=> Given(L, m)
    BY DEF TakenOf, Given
  <2>6. Cardinality(TakenOf(L) \cup {m}) = IF Given(L, m) THEN Cardinality(TakenOf(L))
                                         ELSE Cardinality(TakenOf(L)) + 1
    BY <1>0, <2>5, TakenFinite, FS_AddElement
  (* A row of the link that is back and not the one taken now.             *)
  <2>7. ASSUME NEW j \in DOMAIN inbox'[p], inbox'[p][j].status = "received",
               LinkOf(p, inbox'[p][j].envelope) = L,
               \E a \in DOMAIN taken'[L] : taken'[L][a] = inbox'[p][j].envelope
        PROVE  /\ j \in DOMAIN inbox[p] /\ j # i /\ inbox[p][j].status = "received"
               /\ LinkOf(p, inbox[p][j].envelope) = L /\ Given(L, inbox[p][j].envelope)
    <3>1. j # i /\ j \in DOMAIN inbox[p] /\ inbox'[p][j] = inbox[p][j]
      BY <2>1, <2>7 DEF Marks
    <3>2. inbox[p][j].envelope # m
      BY <1>0, <2>0, <3>1, OneRow
    <3>3. \E a \in 1..n : taken[L][a] = inbox[p][j].envelope
      <4>1. PICK a \in 1..n + 1 : taken'[L][a] = inbox[p][j].envelope
        BY <2>3, <2>7, <3>1
      <4>2. a \in 1..n
        BY <2>2, <2>3, <3>2, <4>1
      <4> QED BY <2>3, <4>1, <4>2
    <3> QED BY <2>3, <2>7, <3>1, <3>3 DEF Given
  <2>8. Returned(L)' => Returned(L)
    <3> SUFFICES ASSUME Returned(L)' PROVE Returned(L)
      OBVIOUS
    <3>1. PICK j \in DOMAIN inbox'[p] :
             /\ inbox'[p][j].status = "received" /\ LinkOf(p, inbox'[p][j].envelope) = L
             /\ \E a \in DOMAIN taken'[L] : taken'[L][a] = inbox'[p][j].envelope
      BY <2>l DEF Returned, Given
    <3>2. /\ j \in DOMAIN inbox[p] /\ inbox[p][j].status = "received"
          /\ LinkOf(p, inbox[p][j].envelope) = L /\ Given(L, inbox[p][j].envelope)
      BY <2>7, <3>1
    <3> QED BY <2>l, <3>2 DEF Returned
  <2>9. Given(L, m) => Returned(L) /\ ~Returned(L)'
    <3> SUFFICES ASSUME Given(L, m) PROVE Returned(L) /\ ~Returned(L)'
      OBVIOUS
    <3>1. Returned(L)
      BY <2>0, <2>l, <2>1 DEF Returned
    <3>2. ASSUME Returned(L)' PROVE FALSE
      <4>1. PICK j \in DOMAIN inbox'[p] :
               /\ inbox'[p][j].status = "received" /\ LinkOf(p, inbox'[p][j].envelope) = L
               /\ \E a \in DOMAIN taken'[L] : taken'[L][a] = inbox'[p][j].envelope
        BY <2>l, <3>2 DEF Returned, Given
      <4>2. /\ j \in DOMAIN inbox[p] /\ j # i /\ inbox[p][j].status = "received"
            /\ LinkOf(p, inbox[p][j].envelope) = L /\ Given(L, inbox[p][j].envelope)
        BY <2>7, <4>1
      <4>3. i \in Nat /\ j \in Nat /\ j >= 1
        BY <1>0, <4>2, InboxIs
      <4>4. SameLink(p, i, j) /\ SameLink(p, j, i)
        BY <2>0, <2>l, <4>2 DEF SameLink
      <4>5. CASE j < i
        <5>1. j \in 1 .. i - 1
          BY <4>3, <4>5
        <5> QED BY <2>1, <4>2, <4>4, <5>1
      <4>6. CASE i < j
        <5>1. inbox[p][i].status = "done"
          BY <1>0, <4>2, <4>4, <4>6 DEF HandledInv, DoneBeforeNext
        <5> QED BY <2>1, <5>1
      <4> QED BY <4>2, <4>3, <4>5, <4>6
    <3> QED BY <3>1, <3>2
  <2>10. /\ Len(taken'[L]) <= Cardinality(Range(taken'[L])) + stops'
         /\ Returned(L)' => Len(taken'[L]) + 1 <= Cardinality(Range(taken'[L])) + stops'
    <3>0. PICK c, d : /\ c \in Nat /\ c = Cardinality(TakenOf(L))
                     /\ d = Cardinality(Range(taken'[L]))
      BY <1>b
    <3>b. n <= c + stops /\ (Returned(L) => n + 1 <= c + stops)
      BY <1>b, <2>2, <3>0
    <3>1. CASE Given(L, m)
      <4>1. d = c
        BY <2>4, <2>6, <3>0, <3>1
      <4>2. n + 1 <= c + stops
        BY <2>9, <3>1, <3>b
      <4> QED BY <2>1, <2>3, <2>9, <3>0, <3>1, <4>1, <4>2
    <3>2. CASE ~Given(L, m)
      <4>1. d = c + 1
        BY <2>4, <2>6, <3>0, <3>2
      <4>2. n + 1 <= d + stops'
        BY <1>s, <2>1, <3>0, <3>b, <4>1
      <4>3. ASSUME Returned(L)' PROVE (n + 1) + 1 <= d + stops'
        <5>1. n + 1 <= c + stops
          BY <2>8, <3>b, <4>3
        <5> QED BY <1>s, <2>1, <3>0, <4>1, <5>1
      <4> QED BY <2>3, <3>0, <4>2, <4>3
    <3> QED BY <3>1, <3>2
  <2>11. ASSUME NEW l \in Links, l # L
         PROVE  /\ Len(taken'[l]) <= Cardinality(Range(taken'[l])) + stops'
                /\ Returned(l)' =>
                      Len(taken'[l]) + 1 <= Cardinality(Range(taken'[l])) + stops'
    <3>1. taken'[l] = taken[l] /\ Range(taken'[l]) = TakenOf(l)
      BY <1>0, <2>1, <2>11, TakenFinite
    <3>2. Returned(l)' => Returned(l)
      <4> SUFFICES ASSUME Returned(l)' PROVE Returned(l)
        OBVIOUS
      <4>1. PICK q \in Peers : q = l[1]
        BY <1>0, HandledIs
      <4>2. PICK j \in DOMAIN inbox'[q] :
               /\ inbox'[q][j].status = "received" /\ LinkOf(q, inbox'[q][j].envelope) = l
               /\ \E a \in DOMAIN taken[l] : taken[l][a] = inbox'[q][j].envelope
        BY <3>1, <4>1 DEF Returned, Given
      <4>3. j \in DOMAIN inbox[q] /\ inbox'[q][j] = inbox[q][j]
        <5>1. CASE q # p
          BY <2>1, <4>2, <5>1 DEF Marks, InboxOthers
        <5>2. CASE q = p
          BY <2>1, <4>2, <5>2 DEF Marks
        <5> QED BY <5>1, <5>2
      <4> QED BY <4>1, <4>2, <4>3 DEF Returned, Given
    <3> QED BY <1>b, <2>1, <3>1, <3>2
  <2> QED BY <2>10, <2>11 DEF RepeatInv
<1> QED BY <1>0, <1>1, <1>2, InboxStep

(* A worker takes a message a second time only after a restart of the      *)
(* receiver: neither a retried send, nor the acknowledgement of a          *)
(* duplicate, nor a restart of the sender hands it out again, and every    *)
(* restart of the receiver repeats one message of a link at most.          *)
THEOREM RepeatsNeedRestart ==
    ASSUME PublishLocked, MaxConnections = 1
    PROVE  Spec => []HandledAgainOnlyAfterRestart
<1>1. Init => FifoInv /\ RepeatInv
  <2> SUFFICES ASSUME Init PROVE RepeatInv
    BY FifoAtFirst
  <2>1. \A l \in Links : taken[l] = <<>>
    BY DEF Init
  <2>2. \A l \in Links : ~Returned(l)
    BY <2>1 DEF Returned, Given
  <2>3. ASSUME NEW l \in Links PROVE Cardinality(Range(taken[l])) = 0
    <3>1. Range(taken[l]) = {}
      BY <2>1 DEF Range
    <3> QED BY <3>1, FS_EmptySet
  <2> QED BY <2>1, <2>2, <2>3 DEF Init, RepeatInv
<1>2. FifoInv /\ RepeatInv /\ [Next]_vars => (FifoInv /\ RepeatInv)'
  BY FifoStep, RepeatStep
<1>3. FifoInv /\ RepeatInv => HandledAgainOnlyAfterRestart
  <2> SUFFICES ASSUME FifoInv, RepeatInv, NEW l \in Links
               PROVE  Len(taken[l]) <= Cardinality(Range(taken[l])) + stops
    BY DEF HandledAgainOnlyAfterRestart
  <2>1. TypeInv /\ stops \in Nat
    BY DeliveryAssumption DEF FifoInv, TypeInv
  <2>2. Len(taken[l]) \in Nat /\ Cardinality(Range(taken[l])) \in Nat
    BY <2>1, HandledIs, TakenFinite
  <2> QED BY <2>1, <2>2 DEF RepeatInv
<1> QED BY <1>1, <1>2, <1>3, PTL DEF Spec
=============================================================================
