-------------------------- MODULE CredentialsProofs --------------------------
(***************************************************************************)
(* The credential store, proved for any certificates and any number of     *)
(* generations.  The inventory is never ahead of the directories: an       *)
(* enrolment works on the first generation without a row, so whatever it   *)
(* leaves behind is not the bundle of a generation in the inventory; and   *)
(* the events explain which generation is active.                          *)
(***************************************************************************)
EXTENDS Credentials, FiniteSetTheorems, TLAPS

CredentialEvents == [type : {"enrolled", "activated", "revoked"},
                     subject : Generations \cup Certificates]

(* AUTOINCREMENT without a deletion: the rows are the first generations.   *)
Contiguous == \E k \in 0..MaxGenerations : Stored = 1..k

(* Where an enrolment is.                                                  *)
EnrollInv ==
    /\ step # "none" => NextFree \in Generations /\ enrolling \in Certificates
    /\ step = "written" => dirs[NextFree] = enrolling

(* What the rows and the events have to do with each other.                *)
AuditInv ==
    /\ \A g \in Generations : status[g] = "absent" => cert[g] = NoCertificate
    /\ \A i \in Activations : trail[i].subject \in Stored
    /\ AuditExplainsCredentials

CredInv ==
    /\ CredentialsTypeOK
    /\ trail \in Seq(CredentialEvents)
    /\ Contiguous
    /\ EnrollInv
    /\ BundlesComplete
    /\ AuditInv

(* The next generation is the first one without a row.                     *)
LEMMA NextFreeIs ==
    ASSUME NEW k \in 0..MaxGenerations, Stored = 1..k
    PROVE  NextFree = k + 1 /\ NextFree \notin Stored
<1>1. MaxGenerations \in Nat /\ k \in Nat
  BY CredentialsAssumption
<1>2. Cardinality(1..k) = k
  BY <1>1, FS_Interval
<1> QED
  BY <1>1, <1>2 DEF NextFree

(* A step that changes no row and no event.                                *)
LEMMA SameInventory ==
    ASSUME CredInv, UNCHANGED <<cert, status, revoked, trail>>,
           dirs' \in [Generations -> Certificates \cup {NoCertificate, "partial"}],
           \A g \in Stored : dirs'[g] = dirs[g],
           enrolling' \in Certificates \cup {NoCertificate},
           step' \in {"none", "inserted", "writing", "written"},
           step' # "none" => NextFree \in Generations /\ enrolling' \in Certificates,
           step' = "written" => dirs'[NextFree] = enrolling'
    PROVE  CredInv'
<1>1. Stored' = Stored /\ NextFree' = NextFree /\ Activations' = Activations
  BY DEF Stored, NextFree, Activations
<1>2. CredentialsTypeOK' /\ trail' \in Seq(CredentialEvents)
  BY DEF CredInv, CredentialsTypeOK
<1>3. Contiguous'
  BY <1>1 DEF CredInv, Contiguous
<1>4. EnrollInv'
  BY <1>1 DEF EnrollInv
<1>5. BundlesComplete'
  BY DEF CredInv, BundlesComplete, Stored
<1>6. AuditInv'
  BY <1>1 DEF CredInv, AuditInv, AuditExplainsCredentials
<1> QED
  BY <1>2, <1>3, <1>4, <1>5, <1>6 DEF CredInv

LEMMA EnrollmentKeepsInv ==
    ASSUME CredInv,
           EnrollDirectory \/ EnrollWrite \/ EnrollFails \/ EnrollCrashes
              \/ \E c \in Certificates, at \in Nat : EnrollBegin(c, at)
    PROVE  CredInv'
<1>1. PICK k \in 0..MaxGenerations : Stored = 1..k
  BY DEF CredInv, Contiguous
<1>2. NextFree \notin Stored
  BY <1>1, NextFreeIs
<1>3. /\ dirs \in [Generations -> Certificates \cup {NoCertificate, "partial"}]
      /\ enrolling \in Certificates \cup {NoCertificate}
      /\ step \in {"none", "inserted", "writing", "written"}
      /\ step # "none" => NextFree \in Generations /\ enrolling \in Certificates
      /\ step = "written" => dirs[NextFree] = enrolling
  BY DEF CredInv, CredentialsTypeOK, EnrollInv
<1>4. CASE \E c \in Certificates, at \in Nat : EnrollBegin(c, at)
  BY <1>3, <1>4, SameInventory DEF EnrollBegin
<1>5. CASE EnrollDirectory
  <2>1. /\ UNCHANGED <<cert, status, revoked, trail>>
        /\ \E x \in {NoCertificate, "partial"} : dirs' = [dirs EXCEPT ![NextFree] = x]
        /\ step' \in {"none", "writing"}
        /\ enrolling' \in {enrolling, NoCertificate}
        /\ step' # "none" => enrolling' = enrolling /\ step # "none"
    BY <1>5 DEF EnrollDirectory, EnrollEnds
  <2>2. \A g \in Stored : dirs'[g] = dirs[g]
    BY <1>2, <1>3, <2>1 DEF Stored
  <2>3. dirs' \in [Generations -> Certificates \cup {NoCertificate, "partial"}]
    BY <1>3, <2>1
  <2> QED
    BY <1>3, <2>1, <2>2, <2>3, SameInventory
<1>6. CASE EnrollWrite
  BY <1>2, <1>3, <1>6, SameInventory DEF EnrollWrite
<1>7. CASE EnrollFails
  BY <1>2, <1>3, <1>7, SameInventory DEF EnrollFails, EnrollEnds
<1>8. CASE EnrollCrashes
  BY <1>3, <1>8, SameInventory DEF EnrollCrashes, EnrollEnds
<1> QED
  BY <1>4, <1>5, <1>6, <1>7, <1>8

(* An event is appended.                                                   *)
LEMMA Appended ==
    ASSUME trail \in Seq(CredentialEvents), NEW e \in CredentialEvents,
           trail' = Append(trail, e)
    PROVE  /\ trail' \in Seq(CredentialEvents)
           /\ Len(trail) \in Nat
           /\ trail'[Len(trail) + 1] = e
           /\ \A i \in 1..Len(trail) : trail'[i] = trail[i]
           /\ Activations' = IF e.type = "activated" THEN Activations \cup {Len(trail) + 1}
                                                     ELSE Activations
           /\ \A i \in Activations : i \in 1..Len(trail) /\ trail'[i] = trail[i]
<1>1. /\ trail' \in Seq(CredentialEvents) /\ Len(trail) \in Nat
      /\ Len(trail') = Len(trail) + 1 /\ trail'[Len(trail) + 1] = e
      /\ \A i \in 1..Len(trail) : trail'[i] = trail[i]
  OBVIOUS
<1>2. \A i : i \in 1..Len(trail') <=> i \in 1..Len(trail) \/ i = Len(trail) + 1
  BY <1>1
<1>3. Activations' = {i \in 1..Len(trail') : trail'[i].type = "activated"}
  BY DEF Activations
<1>4. Activations = {i \in 1..Len(trail) : trail[i].type = "activated"}
  BY DEF Activations
<1>5. \A i : i \in Activations' <=> i \in Activations \/ (i = Len(trail) + 1 /\ e.type = "activated")
  BY <1>1, <1>2, <1>3, <1>4
<1> QED
  BY <1>1, <1>4, <1>5

(* The new row has its directory, and no activation names it yet.          *)
LEMMA CommitKeepsInv ==
    ASSUME CredInv, EnrollCommit
    PROVE  CredInv'
<1>1. PICK k \in 0..MaxGenerations : Stored = 1..k
  BY DEF CredInv, Contiguous
<1>2. NextFree = k + 1 /\ NextFree \notin Stored
  BY <1>1, NextFreeIs
<1> DEFINE n == NextFree
           e == [type |-> "enrolled", subject |-> n]
<1>3. /\ step = "written" /\ n \in Generations /\ enrolling \in Certificates
      /\ dirs[n] = enrolling
  BY DEF CredInv, EnrollInv, EnrollCommit, ReadyToCommit
<1>4. /\ cert' = [cert EXCEPT ![n] = enrolling] /\ status' = [status EXCEPT ![n] = "staged"]
      /\ trail' = Append(trail, e) /\ enrolling' = NoCertificate /\ step' = "none"
      /\ UNCHANGED <<revoked, dirs>>
  BY DEF EnrollCommit, Log, EnrollEnds
<1>5. e \in CredentialEvents /\ trail \in Seq(CredentialEvents) /\ e.type # "activated"
  BY <1>3 DEF CredentialEvents, CredInv
<1>6. /\ trail' \in Seq(CredentialEvents) /\ Activations' = Activations
      /\ \A i \in Activations : trail'[i] = trail[i]
  BY <1>4, <1>5, Appended
<1>7. /\ cert \in [Generations -> Certificates \cup {NoCertificate}]
      /\ status \in [Generations -> Statuses]
  BY DEF CredInv, CredentialsTypeOK
<1> HIDE DEF n, e
<1>8. CredentialsTypeOK'
  BY <1>3, <1>4, <1>7 DEF CredInv, CredentialsTypeOK, Statuses
<1>9. Stored' = Stored \cup {n}
  BY <1>3, <1>4, <1>7 DEF Stored
<1>10. Contiguous'
  <2>1. k + 1 \in 0..MaxGenerations
    BY <1>2, <1>3, CredentialsAssumption DEF Generations, n
  <2>2. (1..k) \cup {k + 1} = 1..(k + 1)
    BY <2>1, CredentialsAssumption
  <2> QED
    BY <1>1, <1>2, <1>9, <2>1, <2>2 DEF Contiguous, n
<1>11. EnrollInv'
  BY <1>4 DEF EnrollInv
<1>12. BundlesComplete'
  BY <1>3, <1>4, <1>7 DEF CredInv, BundlesComplete
<1>13. AuditInv'
  <2>1. \A g \in Generations : status'[g] = "absent" => cert'[g] = NoCertificate
    BY <1>3, <1>4, <1>7 DEF CredInv, AuditInv
  <2>2. \A i \in Activations' : trail'[i].subject \in Stored'
    BY <1>6, <1>9 DEF CredInv, AuditInv
  <2>3. ASSUME NEW g \in Generations
        PROVE  status'[g] = "active" <=>
                  /\ cert'[g] \notin revoked'
                  /\ \E i \in Activations' : /\ trail'[i].subject = g
                                             /\ \A j \in Activations' : j <= i
    <3>1. CASE g = n
      <4>1. status'[g] # "active"
        BY <1>3, <1>4, <1>7, <3>1
      <4>2. \A i \in Activations : trail[i].subject # g
        BY <1>2, <3>1 DEF CredInv, AuditInv, n
      <4> QED
        BY <1>6, <4>1, <4>2
    <3>2. CASE g # n
      <4>1. status'[g] = status[g] /\ cert'[g] = cert[g] /\ revoked' = revoked
        BY <1>4, <1>7, <3>2
      <4> QED
        BY <1>6, <4>1 DEF CredInv, AuditInv, AuditExplainsCredentials
    <3> QED
      BY <3>1, <3>2
  <2> QED
    BY <2>1, <2>2, <2>3 DEF AuditInv, AuditExplainsCredentials
<1> QED
  BY <1>6, <1>8, <1>10, <1>11, <1>12, <1>13 DEF CredInv

(* The generation that becomes active is named by the last activation.     *)
LEMMA ActivateKeepsInv ==
    ASSUME CredInv, NEW g \in Generations, NEW at \in Nat, Activate(g, at)
    PROVE  CredInv'
<1> DEFINE e == [type |-> "activated", subject |-> g]
           m == Len(trail) + 1
<1>1. /\ step = "none" /\ g \in Stored /\ cert[g] \notin revoked
      /\ status' = [Retire EXCEPT ![g] = "active"] /\ trail' = Append(trail, e)
      /\ UNCHANGED <<cert, revoked, dirs, enrolling, step>>
  BY DEF Activate, Log
<1>2. e \in CredentialEvents /\ trail \in Seq(CredentialEvents) /\ e.type = "activated"
  BY DEF CredentialEvents, CredInv
<1>3. /\ trail' \in Seq(CredentialEvents) /\ Activations' = Activations \cup {m}
      /\ \A i \in Activations : i \in 1..Len(trail) /\ trail'[i] = trail[i]
      /\ trail'[m] = e /\ Len(trail) \in Nat
  BY <1>1, <1>2, Appended
<1>4. /\ cert \in [Generations -> Certificates \cup {NoCertificate}]
      /\ status \in [Generations -> Statuses]
  BY DEF CredInv, CredentialsTypeOK
<1>5. \A h \in Generations :
         status'[h] = IF h = g THEN "active"
                      ELSE IF status[h] = "active" THEN "retired" ELSE status[h]
  BY <1>1 DEF Retire
<1>6. status' \in [Generations -> Statuses]
  BY <1>1, <1>4 DEF Retire, Statuses
<1>7. status[g] # "absent"
  BY <1>1 DEF Stored
<1>8. \A h \in Generations : status'[h] = "absent" <=> status[h] = "absent"
  BY <1>5, <1>7
<1>9. Stored' = Stored
  BY <1>8 DEF Stored
<1> HIDE DEF e
<1>10. CredentialsTypeOK'
  BY <1>1, <1>6 DEF CredInv, CredentialsTypeOK
<1>11. Contiguous' /\ EnrollInv'
  BY <1>1, <1>9 DEF CredInv, Contiguous, EnrollInv
<1>12. BundlesComplete'
  BY <1>1, <1>8 DEF CredInv, BundlesComplete
<1>13. AuditInv'
  <2>1. \A h \in Generations : status'[h] = "absent" => cert'[h] = NoCertificate
    BY <1>1, <1>8 DEF CredInv, AuditInv
  <2>2. trail'[m].subject = g
    BY <1>3 DEF e
  <2>3. \A i \in Activations' : trail'[i].subject \in Stored'
    BY <1>1, <1>3, <1>9, <2>2 DEF CredInv, AuditInv
  <2>4. \A i \in Activations' : (\A j \in Activations' : j <= i) <=> i = m
    <3>1. \A i \in Activations : i < m /\ i <= m /\ ~(m <= i)
      BY <1>3
    <3>2. m <= m
      BY <1>3
    <3> HIDE DEF m
    <3> QED
      BY <1>3, <3>1, <3>2
  <2>5. m \in Activations'
    BY <1>3
  <2>6. \A h \in Generations : status'[h] = "active" <=> h = g
    BY <1>5
  <2> HIDE DEF m
  <2>7. AuditExplainsCredentials'
    BY <1>1, <2>2, <2>4, <2>5, <2>6 DEF AuditExplainsCredentials
  <2> QED
    BY <2>1, <2>3, <2>7 DEF AuditInv
<1> QED
  BY <1>3, <1>10, <1>11, <1>12, <1>13 DEF CredInv

(* A revoked certificate's generation is retired with it.                  *)
LEMMA RevokeKeepsInv ==
    ASSUME CredInv, NEW c \in Certificates, RevokeCertificate(c)
    PROVE  CredInv'
<1> DEFINE e == [type |-> "revoked", subject |-> c]
<1>1. /\ revoked' = revoked \cup {c} /\ status' = RetireCertificate(c)
      /\ trail' = Append(trail, e) /\ UNCHANGED <<cert, dirs, enrolling, step>>
      /\ step = "none"
  BY DEF RevokeCertificate, Log
<1>2. e \in CredentialEvents /\ trail \in Seq(CredentialEvents) /\ e.type # "activated"
  BY DEF CredentialEvents, CredInv
<1>3. /\ trail' \in Seq(CredentialEvents) /\ Activations' = Activations
      /\ \A i \in Activations : trail'[i] = trail[i]
  BY <1>1, <1>2, Appended
<1>4. /\ cert \in [Generations -> Certificates \cup {NoCertificate}]
      /\ status \in [Generations -> Statuses]
  BY DEF CredInv, CredentialsTypeOK
<1>5. \A g \in Generations :
         status'[g] = IF status[g] # "absent" /\ cert[g] = c THEN "retired" ELSE status[g]
  BY <1>1 DEF RetireCertificate, Stored
<1>6. status' \in [Generations -> Statuses]
  BY <1>1, <1>4 DEF RetireCertificate, Statuses
<1>7. \A g \in Generations : status'[g] = "absent" <=> status[g] = "absent"
  BY <1>5
<1>8. Stored' = Stored
  BY <1>7 DEF Stored
<1> HIDE DEF e
<1>9. CredentialsTypeOK'
  BY <1>1, <1>6 DEF CredInv, CredentialsTypeOK
<1>10. Contiguous' /\ EnrollInv'
  BY <1>1, <1>8 DEF CredInv, Contiguous, EnrollInv
<1>11. BundlesComplete'
  BY <1>1, <1>7 DEF CredInv, BundlesComplete
<1>12. AuditInv'
  <2>1. \A g \in Generations : status[g] = "absent" => cert[g] # c
    BY CredentialsAssumption DEF CredInv, AuditInv
  <2>2. \A g \in Generations : status'[g] = "absent" => cert'[g] = NoCertificate
    BY <1>1, <1>7 DEF CredInv, AuditInv
  <2>3. \A i \in Activations' : trail'[i].subject \in Stored'
    BY <1>3, <1>8 DEF CredInv, AuditInv
  <2>4. ASSUME NEW g \in Generations
        PROVE  status'[g] = "active" <=>
                  /\ cert'[g] \notin revoked'
                  /\ \E i \in Activations' : /\ trail'[i].subject = g
                                             /\ \A j \in Activations' : j <= i
    <3>1. CASE cert[g] = c
      <4>1. status'[g] # "active" /\ cert'[g] \in revoked'
        BY <1>1, <1>5, <2>1, <3>1
      <4> QED
        BY <4>1
    <3>2. CASE cert[g] # c
      <4>1. /\ status'[g] = status[g]
            /\ cert'[g] \notin revoked' <=> cert[g] \notin revoked
        BY <1>1, <1>5, <3>2
      <4> QED
        BY <1>3, <4>1 DEF CredInv, AuditInv, AuditExplainsCredentials
    <3> QED
      BY <3>1, <3>2
  <2> QED
    BY <2>2, <2>3, <2>4 DEF AuditInv, AuditExplainsCredentials
<1> QED
  BY <1>3, <1>9, <1>10, <1>11, <1>12 DEF CredInv

LEMMA CredentialsStep ==
    ASSUME CredInv, [CredentialsNext]_credentialVars
    PROVE  CredInv'
<1>1. CASE UNCHANGED credentialVars
  <2>1. /\ dirs \in [Generations -> Certificates \cup {NoCertificate, "partial"}]
        /\ enrolling \in Certificates \cup {NoCertificate}
        /\ step \in {"none", "inserted", "writing", "written"}
        /\ step # "none" => NextFree \in Generations /\ enrolling \in Certificates
        /\ step = "written" => dirs[NextFree] = enrolling
    BY DEF CredInv, CredentialsTypeOK, EnrollInv
  <2>2. UNCHANGED <<cert, status, revoked, trail>> /\ dirs' = dirs /\ enrolling' = enrolling
        /\ step' = step
    BY <1>1 DEF credentialVars
  <2> QED
    BY <2>1, <2>2, SameInventory
<1>2. CASE CredentialsNext
  BY <1>2, EnrollmentKeepsInv, CommitKeepsInv, ActivateKeepsInv, RevokeKeepsInv
     DEF CredentialsNext, Enrollment
<1> QED
  BY <1>1, <1>2

LEMMA CredentialsInitInv == ASSUME CredentialsInit PROVE CredInv
<1>1. Stored = {} /\ trail = <<>> /\ Activations = {} /\ step = "none"
  BY DEF CredentialsInit, Stored, Activations
<1>2. Contiguous
  <2>1. 0 \in 0..MaxGenerations /\ 1..0 = {}
    BY CredentialsAssumption
  <2> QED
    BY <1>1, <2>1 DEF Contiguous
<1>3. CredentialsTypeOK /\ trail \in Seq(CredentialEvents)
  BY <1>1 DEF CredentialsInit, CredentialsTypeOK, Statuses
<1>4. EnrollInv /\ BundlesComplete
  BY <1>1 DEF EnrollInv, BundlesComplete, CredentialsInit
<1>5. AuditInv
  BY <1>1 DEF AuditInv, AuditExplainsCredentials, CredentialsInit
<1> QED
  BY <1>1, <1>2, <1>3, <1>4, <1>5 DEF CredInv

LEMMA CredentialsInvariant == CredentialsSpec => []CredInv
<1>1. CredentialsInit => CredInv
  BY CredentialsInitInv
<1>2. CredInv /\ [CredentialsNext]_credentialVars => CredInv'
  BY CredentialsStep
<1> QED
  BY <1>1, <1>2, PTL DEF CredentialsSpec

-----------------------------------------------------------------------------
(* The invariant of the store allows one active generation: the subject of *)
(* the last activation.                                                    *)
LEMMA InvMeansOneActive == CredInv => OneActive
<1>1. SUFFICES ASSUME CredInv
               PROVE  OneActive
  OBVIOUS
<1>2. \A g \in Generations : status[g] = "active" =>
         /\ cert[g] \notin revoked
         /\ \E i \in Activations : /\ trail[i].subject = g
                                   /\ \A j \in Activations : j <= i
  BY <1>1 DEF CredInv, AuditInv, AuditExplainsCredentials
<1>3. Activations \subseteq Int
  BY DEF Activations
<1>4. ASSUME NEW g \in Generations, NEW h \in Generations,
             status[g] = "active", status[h] = "active"
      PROVE  g = h
  <2>1. PICK i \in Activations : trail[i].subject = g /\ \A j \in Activations : j <= i
    BY <1>2, <1>4
  <2>2. PICK j \in Activations : trail[j].subject = h /\ \A o \in Activations : o <= j
    BY <1>2, <1>4
  <2>3. i = j
    BY <1>3, <2>1, <2>2
  <2> QED
    BY <2>1, <2>2, <2>3
<1> QED
  BY <1>2, <1>4 DEF OneActive

(* SqliteCredentialStore never has two active generations, and never an    *)
(* active one whose certificate is revoked.                                *)
THEOREM AtMostOneActive == CredentialsSpec => []OneActive
BY InvMeansOneActive, CredentialsInvariant, PTL
=============================================================================
