----------------------------- MODULE Credentials -----------------------------
(***************************************************************************)
(* The robot-local credential store (ump.credentials): the inventory in    *)
(* SQLite, the directory of each generation beside it, and the commands of *)
(* ump-credentials.  Activation and revocation are one transaction each.   *)
(* An enrolment is a transaction that also creates a directory and writes  *)
(* files, which no rollback undoes: it is modelled step by step, with a    *)
(* crash or a failing write between any two.  No other writer gets in      *)
(* between, since it holds SQLite's write lock; readers see the inventory  *)
(* as it was before.                                                       *)
(***************************************************************************)
EXTENDS Naturals, Sequences, FiniteSets

CONSTANTS
    Certificates,    \* issued certificates, told apart by their fingerprint
    ValidFrom,       \* ValidFrom[c]: not_before_ms
    ValidUntil,      \* ValidUntil[c]: not_after_ms
    MaxGenerations,  \* bound: generations in the inventory
    NoCertificate    \* no row, no transaction, no directory

ASSUME CredentialsAssumption ==
    /\ ValidFrom \in [Certificates -> Nat]
    /\ ValidUntil \in [Certificates -> Nat]
    /\ MaxGenerations \in Nat
    /\ NoCertificate \notin Certificates
    /\ "partial" \notin Certificates \cup {NoCertificate}

Generations == 1..MaxGenerations

VARIABLES
    cert,       \* credential_generations: the certificate of each generation
    status,     \* credential_generations: its status, "absent" without a row
    revoked,    \* revoked_certificates
    trail,      \* credential_events
    dirs,       \* the files in the directory of each generation
    enrolling,  \* the certificate of the enrolment under way
    step        \* and how far it is

credentialVars == <<cert, status, revoked, trail, dirs, enrolling, step>>

Statuses == {"absent", "staged", "active", "retired"}

CredentialsInit ==
    /\ cert      = [g \in Generations |-> NoCertificate]
    /\ status    = [g \in Generations |-> "absent"]
    /\ revoked   = {}
    /\ trail     = <<>>
    /\ dirs      = [g \in Generations |-> NoCertificate]
    /\ enrolling = NoCertificate
    /\ step      = "none"

(* The generation the next INSERT gets: AUTOINCREMENT counts committed     *)
(* rows, since a rollback takes the counter back too.                      *)
Stored   == {g \in Generations : status[g] # "absent"}
NextFree == Cardinality(Stored) + 1

Valid(c, at) == ValidFrom[c] <= at /\ at < ValidUntil[c]

Log(type, x) == trail' = Append(trail, [type |-> type, subject |-> x])

(* enroll validates the bundle, begins and inserts the row.  A certificate *)
(* that has a row violates UNIQUE and leaves everything as it was.         *)
EnrollBegin(c, at) ==
    /\ step = "none"
    /\ NextFree \in Generations
    /\ Valid(c, at)
    /\ \A g \in Stored : cert[g] # c
    /\ enrolling' = c
    /\ step' = "inserted"
    /\ UNCHANGED <<cert, status, revoked, trail, dirs>>

(* ROLLBACK.                                                               *)
EnrollEnds == enrolling' = NoCertificate /\ step' = "none"

(* mkdir.  A directory that a crashed enrolment left behind makes it raise *)
(* and is removed, with the transaction rolled back.                       *)
EnrollDirectory ==
    /\ step = "inserted"
    /\ \/ /\ dirs[NextFree] = NoCertificate
          /\ dirs' = [dirs EXCEPT ![NextFree] = "partial"]
          /\ step' = "writing"
          /\ UNCHANGED enrolling
       \/ /\ dirs[NextFree] # NoCertificate
          /\ dirs' = [dirs EXCEPT ![NextFree] = NoCertificate]
          /\ EnrollEnds
    /\ UNCHANGED <<cert, status, revoked, trail>>

(* The three files, then their paths in the row.                           *)
EnrollWrite ==
    /\ step = "writing"
    /\ dirs' = [dirs EXCEPT ![NextFree] = enrolling]
    /\ step' = "written"
    /\ UNCHANGED <<cert, status, revoked, trail, enrolling>>

(* Mutant: the row is committed as soon as it is inserted.                 *)
ReadyToCommitEarly == step \in {"writing", "written"}

ReadyToCommit == step = "written"

(* COMMIT.  The files are written, not synchronized: of the ends a process *)
(* may meet, EnrollCrashes is its own death, not a loss of power.          *)
EnrollCommit ==
    /\ ReadyToCommit
    /\ cert'   = [cert EXCEPT ![NextFree] = enrolling]
    /\ status' = [status EXCEPT ![NextFree] = "staged"]
    /\ Log("enrolled", NextFree)
    /\ EnrollEnds
    /\ UNCHANGED <<revoked, dirs>>

(* A write, or the commit, raises: the transaction is rolled back and the  *)
(* directory removed.                                                      *)
EnrollFails ==
    /\ step \in {"writing", "written"}
    /\ dirs' = [dirs EXCEPT ![NextFree] = NoCertificate]
    /\ EnrollEnds
    /\ UNCHANGED <<cert, status, revoked, trail>>

(* The process dies: SQLite rolls back, the directory stays.               *)
EnrollCrashes ==
    /\ step # "none"
    /\ EnrollEnds
    /\ UNCHANGED <<cert, status, revoked, trail, dirs>>

(* Mutant: the generation that was active stays so.                        *)
RetireNone == status

(* UPDATE ... SET status = 'retired' of the active generation.             *)
Retire == [g \in Generations |-> IF status[g] = "active" THEN "retired" ELSE status[g]]

Activate(g, at) ==
    /\ step = "none"
    /\ g \in Stored
    /\ Valid(cert[g], at)
    /\ cert[g] \notin revoked
    /\ status' = [Retire EXCEPT ![g] = "active"]
    /\ Log("activated", g)
    /\ UNCHANGED <<cert, revoked, dirs, enrolling, step>>

(* UPDATE ... SET status = 'retired' of the generation with a fingerprint. *)
RetireCertificate(c) ==
    [g \in Generations |-> IF g \in Stored /\ cert[g] = c THEN "retired" ELSE status[g]]

(* Any fingerprint can be revoked once, a peer's too.                      *)
RevokeCertificate(c) ==
    /\ step = "none"
    /\ c \notin revoked
    /\ revoked' = revoked \cup {c}
    /\ status' = RetireCertificate(c)
    /\ Log("revoked", c)
    /\ UNCHANGED <<cert, dirs, enrolling, step>>

Enrollment == EnrollDirectory \/ EnrollWrite \/ EnrollCommit \/ EnrollFails \/ EnrollCrashes

CredentialsNext ==
    \/ Enrollment
    \/ \E c \in Certificates : RevokeCertificate(c) \/ \E at \in Nat : EnrollBegin(c, at)
    \/ \E g \in Generations, at \in Nat : Activate(g, at)

CredentialsSpec == CredentialsInit /\ [][CredentialsNext]_credentialVars

-----------------------------------------------------------------------------
(* _require_generation: the configured files are those of generation g,    *)
(* which is not revoked and valid now.                                     *)
RequireGeneration(configured, g, at) ==
    /\ configured = g
    /\ cert[g] \notin revoked
    /\ Valid(cert[g], at)

(* require_active_bundle.                                                  *)
RequireActive(configured, at) ==
    \E g \in Generations : status[g] = "active" /\ RequireGeneration(configured, g, at)

(* effective_status of the inventory query.                                *)
EffectiveStatus(g, at) ==
    CASE cert[g] \in revoked -> "revoked"
      [] cert[g] \notin revoked /\ ValidFrom[cert[g]] > at -> "not_yet_valid"
      [] cert[g] \notin revoked /\ ValidFrom[cert[g]] <= at
            /\ ValidUntil[cert[g]] <= at -> "expired"
      [] OTHER -> status[g]

(* read_credential_generation: the row of ump-credentials show, if any.    *)
ShowGeneration(g, at) == IF g \in Stored THEN EffectiveStatus(g, at) ELSE "absent"

(* read_credential_events: the newest events up to the limit.              *)
EventsRead(limit) ==
    LET n == Len(trail)
    IN  SubSeq(trail, IF limit < n THEN n - limit + 1 ELSE 1, n)

(* read_active_credential: the check of require_active_bundle through a    *)
(* read-only connection, which creates no table and changes no row.        *)
ReadActive(configured, at) ==
    LET rows == {g \in Stored : status[g] = "active"}
    IN  rows # {} /\ \E g \in rows : RequireGeneration(configured, g, at)

-----------------------------------------------------------------------------
CredentialsTypeOK ==
    /\ cert \in [Generations -> Certificates \cup {NoCertificate}]
    /\ status \in [Generations -> Statuses]
    /\ revoked \subseteq Certificates
    /\ dirs \in [Generations -> Certificates \cup {NoCertificate, "partial"}]
    /\ enrolling \in Certificates \cup {NoCertificate}
    /\ step \in {"none", "inserted", "writing", "written"}

(* At most one generation is active, and a revoked one never is.           *)
OneActive ==
    /\ \A g, h \in Generations : status[g] = "active" /\ status[h] = "active" => g = h
    /\ \A g \in Generations : status[g] = "active" => cert[g] \notin revoked

(* Every generation in the inventory has its own certificate and key in    *)
(* its directory, wherever an enrolment, this one or an earlier one,       *)
(* crashed or failed.                                                      *)
BundlesComplete ==
    \A g \in Generations : status[g] # "absent" => dirs[g] = cert[g]

(* The audit explains the inventory: the active generation is the one the  *)
(* last activation names, unless it has been revoked since.                *)
Activations == {i \in 1..Len(trail) : trail[i].type = "activated"}
AuditExplainsCredentials ==
    \A g \in Generations :
        status[g] = "active" <=>
            /\ cert[g] \notin revoked
            /\ \E i \in Activations : /\ trail[i].subject = g
                                      /\ \A j \in Activations : j <= i
=============================================================================
