-------------------------------- MODULE Node --------------------------------
(***************************************************************************)
(* ump-node: one robot's participant process over its local stores.  It    *)
(* composes the authority store, the credential store and the ROS 2        *)
(* adapter with the process that uses them: the start, which requires the  *)
(* configured TLS files to be the active generation; the health check that *)
(* requires it again in every period; the handshake that refuses revoked   *)
(* peers; the assignment handler, which asks the authority store and then  *)
(* claims and submits; and the close, which waits for native work while    *)
(* the bus still receives.  Operators work on both stores meanwhile.       *)
(*                                                                         *)
(* What Participant and Delivery model in detail is one step here: the     *)
(* journal's claim, the inbox, the acknowledgements.                       *)
(***************************************************************************)
EXTENDS Authority, Credentials, RosAction

CONSTANTS
    Own,          \* the certificates issued to this robot; the others are peers'
    Request,      \* Request[a]: issuer, lease, capability of assignment a and
                  \* the certificate its sender connects with
    Workers,      \* execution_workers
    MaxTime,      \* bound of the clock
    MaxCommands,  \* bound on the operators' commands
    MaxRevision,  \* bound on the revisions operators pass
    MaxStops      \* bound on signals and crashes

ASSUME NodeAssumption ==
    /\ Own \subseteq Certificates /\ MaxGenerations # 0
    /\ Request \in [Assignments -> [issuer : Issuers, lease : Leases,
                                    capability : Capabilities, cert : Certificates]]
    /\ {Workers, MaxTime, MaxCommands, MaxRevision, MaxStops} \subseteq Nat

VARIABLES
    now,       \* the clock, which the stores and the node share
    phase,     \* the process: "down", "up", "closing" or "closed"
    bundle,    \* the generation whose files are configured
    work,      \* how far each assignment is
    allowed,   \* history: assignments whose lease authorized them at a time
               \* between their receipt and their claim
    commands,  \* history: the operators' commands, for the bound
    stops      \* history: signals and crashes, for the bound

nodeVars == <<phase, bundle, work, allowed>>
boundVars == <<commands, stops>>
vars == <<authorityVars, credentialVars, rosVars, now, nodeVars, boundVars>>

(* A robot as it is handed over: its first certificate enrolled and active *)
(* and no lease granted.                                                   *)
Init ==
    /\ AuthorityInit
    /\ RosInit
    /\ \E c \in Own :
          /\ Valid(c, 0)
          /\ cert = [g \in Generations |-> IF g = 1 THEN c ELSE NoCertificate]
          /\ dirs = cert
    /\ status = [g \in Generations |-> IF g = 1 THEN "active" ELSE "absent"]
    /\ revoked = {}
    /\ trail = <<[type |-> "enrolled", subject |-> 1], [type |-> "activated", subject |-> 1]>>
    /\ enrolling = NoCertificate
    /\ step = "none"
    /\ now = 0
    /\ phase = "down"
    /\ bundle = 1
    /\ work = [a \in Assignments |-> "none"]
    /\ allowed = {}
    /\ commands = 0
    /\ stops = 0

(* What a lease promises: the issuer of assignment a holds it for the      *)
(* capability, and its window has begun and not ended at every true time   *)
(* that a clock with its uncertainty may show as at.                       *)
LeaseHolds(a, at) ==
    LET r == Request[a]
    IN  /\ lease[r.lease] # NoLease
        /\ lease[r.lease].status = "active"
        /\ lease[r.lease].terms.issuer = r.issuer
        /\ r.capability \in lease[r.lease].terms.capabilities
        /\ \A d \in 0..lease[r.lease].terms.uncertainty :
              /\ lease[r.lease].terms.issued + d <= at
              /\ at + d < lease[r.lease].terms.expires

-----------------------------------------------------------------------------
(* The operators' commands.                                                *)

Authority ==
    /\ commands < MaxCommands
    /\ \E l \in Leases, n \in 1..MaxRevision :
          \/ Revoke(l, n)
          \/ \E t \in Terms : Grant(l, t, n)
    /\ commands' = commands + 1
    /\ UNCHANGED <<credentialVars, rosVars, now, phase, bundle, work, stops>>
    /\ allowed' = allowed \cup {a \in Assignments :
          /\ work[a] = "received"
          /\ LeaseHolds(a, now)'}

Credential ==
    /\ commands < MaxCommands
    /\ \/ \E c \in Certificates : RevokeCertificate(c)
       \/ \E c \in Own : EnrollBegin(c, now)
       \/ \E g \in Generations : Activate(g, now)
    /\ commands' = commands + 1
    /\ UNCHANGED <<authorityVars, rosVars, now, nodeVars, stops>>

Enroll == Enrollment /\ UNCHANGED <<authorityVars, rosVars, now, nodeVars, boundVars>>

-----------------------------------------------------------------------------
(* The process.                                                            *)

(* node_main with the files of generation g configured, up to ready: the   *)
(* files are the active generation's and the TLS contexts can load them.   *)
Start(g) ==
    /\ phase = "down"
    /\ RequireActive(g, now)
    /\ dirs[g] = cert[g]
    /\ phase' = "up"
    /\ bundle' = g
    /\ UNCHANGED <<authorityVars, credentialVars, rosVars, now, work, allowed, boundVars>>

(* node_main --preflight: the same requirements of the configured files,   *)
(* asked without opening a store for writing or starting anything.         *)
Preflight(g) == ReadActive(g, now) /\ dirs[g] = cert[g]

(* Mutant: the check at the start is the only one.                         *)
HealthyAlways == TRUE

Healthy == RequireActive(bundle, now)

(* require_runtime_health raises out of the run loop, and service.close    *)
(* begins: the executor takes no more work.                                *)
HealthCheck ==
    /\ phase = "up"
    /\ ~Healthy
    /\ phase' = "closing"
    /\ UNCHANGED <<authorityVars, credentialVars, rosVars, now, bundle, work, allowed,
                   boundVars>>

(* SIGINT or SIGTERM ends the run loop the same way.                       *)
Signal ==
    /\ phase = "up"
    /\ stops < MaxStops
    /\ stops' = stops + 1
    /\ phase' = "closing"
    /\ UNCHANGED <<authorityVars, credentialVars, rosVars, now, bundle, work, allowed,
                   commands>>

(* executor.shutdown has waited for submitted work; the journal and the    *)
(* authority store are closed.                                             *)
CloseStores ==
    /\ phase = "closing"
    /\ \A a \in Assignments : work[a] \notin {"queued", "executing"}
    /\ phase' = "closed"
    /\ UNCHANGED <<authorityVars, credentialVars, rosVars, now, bundle, work, allowed,
                   boundVars>>

(* What a process that ends leaves of an assignment: a request in the      *)
(* inbox is handed out again, one that was claimed is not executed again.  *)
Left(w) == CASE w = "connected"  -> "none"
             [] w = "authorized" -> "received"
             [] w \in {"claimed", "queued", "executing"} -> "lost"
             [] OTHER -> w

(* bus.stop, the end of the close.                                         *)
CloseBus ==
    /\ phase = "closed"
    /\ phase' = "down"
    /\ work' = [a \in Assignments |-> Left(work[a])]
    /\ UNCHANGED <<authorityVars, credentialVars, rosVars, now, bundle, allowed, boundVars>>

(* The threads that wait for the action server die with the process; the   *)
(* server goes on.                                                         *)
Crash ==
    /\ phase # "down"
    /\ stops < MaxStops
    /\ stops' = stops + 1
    /\ phase' = "down"
    /\ work' = [a \in Assignments |-> Left(work[a])]
    /\ active' = {}
    /\ LET dead == {a \in Assignments : client[a] \in {"sending", "waiting", "stopping"}}
       IN  /\ client' = [a \in Assignments |-> IF a \in dead THEN "returned" ELSE client[a]]
           /\ returned' = [a \in Assignments |-> IF a \in dead THEN "raised" ELSE returned[a]]
    /\ cancelling' = [a \in Assignments |-> IF cancelling[a] = "sent" THEN "refused"
                                            ELSE cancelling[a]]
    /\ UNCHANGED <<authorityVars, credentialVars, asked, serverVars, now, bundle, allowed,
                   commands>>

-----------------------------------------------------------------------------
(* An assignment on its way through the process.                           *)

Moves(a, from, to) ==
    /\ work[a] = from
    /\ work' = [work EXCEPT ![a] = to]

(* A peer connects: its certificate chain is valid and not revoked here.   *)
(* The bus listens until the end of the close.                             *)
Handshake(a) ==
    /\ phase # "down"
    /\ Moves(a, "none", "connected")
    /\ Valid(Request[a].cert, now)
    /\ Request[a].cert \notin revoked
    /\ UNCHANGED <<authorityVars, credentialVars, rosVars, now, phase, bundle, allowed,
                   boundVars>>

(* Its frame is in the inbox.                                              *)
Receive(a) ==
    /\ phase # "down"
    /\ Moves(a, "connected", "received")
    /\ allowed' = IF LeaseHolds(a, now) THEN allowed \cup {a} ELSE allowed
    /\ UNCHANGED <<authorityVars, credentialVars, rosVars, now, phase, bundle, boundVars>>

(* The handler asks the authority store.  A closed store raises and the    *)
(* request is a dead letter.  The handler reads the clock before the store *)
(* reads the lease; both are one step here, at one time.                   *)
Authorize(a) ==
    /\ phase # "down"
    /\ LET r == Request[a]
       IN  Moves(a, "received",
                 IF phase = "closed" THEN "dead"
                 ELSE IF Authorizes(r.lease, r.issuer, r.capability, now)
                      THEN "authorized" ELSE "rejected")
    /\ UNCHANGED <<authorityVars, credentialVars, rosVars, now, phase, bundle, allowed,
                   boundVars>>

(* journal.claim, with the acknowledgement published.                      *)
Claim(a) ==
    /\ phase # "down"
    /\ Moves(a, "authorized", IF phase = "closed" THEN "dead" ELSE "claimed")
    /\ UNCHANGED <<authorityVars, credentialVars, rosVars, now, phase, bundle, allowed,
                   boundVars>>

(* executor.submit raises once the shutdown has begun: the claim stays in  *)
(* the journal and nothing runs.                                           *)
Submit(a) ==
    /\ phase # "down"
    /\ Moves(a, "claimed", IF phase = "up" THEN "queued" ELSE "lost")
    /\ UNCHANGED <<authorityVars, credentialVars, rosVars, now, phase, bundle, allowed,
                   boundVars>>

(* A free worker runs _execute_assignment.                                 *)
Work(a) ==
    /\ phase \in {"up", "closing"}
    /\ Cardinality({b \in Assignments : work[b] = "executing"}) < Workers
    /\ Moves(a, "queued", "executing")
    /\ Execute(a)
    /\ UNCHANGED <<authorityVars, credentialVars, now, phase, bundle, allowed, boundVars>>

Finish(a) ==
    /\ client[a] = "returned"
    /\ Moves(a, "executing", "done")
    /\ UNCHANGED <<authorityVars, credentialVars, rosVars, now, phase, bundle, allowed,
                   boundVars>>

(* The cancellation handler found the claim in the journal.                *)
CancelWork(a) ==
    /\ phase \in {"up", "closing"}
    /\ work[a] \in {"claimed", "queued", "executing"}
    /\ Cancel(a)
    /\ UNCHANGED <<authorityVars, credentialVars, now, nodeVars, boundVars>>

Action(a) ==
    /\ RosServer(a) \/ RosClient(a)
    /\ UNCHANGED <<authorityVars, credentialVars, now, nodeVars, boundVars>>

Tick ==
    /\ now < MaxTime
    /\ now' = now + 1
    /\ allowed' = allowed \cup {a \in Assignments :
          /\ work[a] = "received"
          /\ LeaseHolds(a, now + 1)}
    /\ UNCHANGED <<authorityVars, credentialVars, rosVars, phase, bundle, work, boundVars>>

Handler(a) == Handshake(a) \/ Receive(a) \/ Authorize(a) \/ Claim(a) \/ Submit(a)

Process ==
    \/ \E g \in Generations : Start(g)
    \/ HealthCheck \/ Signal \/ CloseStores \/ CloseBus \/ Crash

Next ==
    \/ Tick \/ Authority \/ Credential \/ Enroll \/ Process
    \/ \E a \in Assignments :
          Handler(a) \/ Work(a) \/ Finish(a) \/ CancelWork(a) \/ Action(a)

Spec == Init /\ [][Next]_vars

(* The run loop and the close go on, worker threads run, and the waits of  *)
(* the client library end.  Nothing is assumed of the action server.       *)
FairSpec ==
    /\ Spec
    /\ WF_vars(HealthCheck) /\ WF_vars(CloseStores) /\ WF_vars(CloseBus)
    /\ \A a \in Assignments :
          /\ WF_vars(Work(a)) /\ WF_vars(Finish(a))
          /\ WF_vars(RosClient(a) /\ UNCHANGED <<authorityVars, credentialVars, now,
                                                 nodeVars, boundVars>>)

-----------------------------------------------------------------------------
TypeOK ==
    /\ AuthorityTypeOK /\ CredentialsTypeOK /\ RosTypeOK
    /\ now \in 0..MaxTime
    /\ phase \in {"down", "up", "closing", "closed"}
    /\ bundle \in Generations
    /\ work \in [Assignments -> {"none", "connected", "received", "authorized", "claimed",
                                 "queued", "executing", "done", "rejected", "dead", "lost"}]
    /\ allowed \subseteq Assignments

(* Native work only starts for an assignment whose lease authorized its    *)
(* issuer at some time after it was received: a lease that was revoked or  *)
(* had expired before that starts nothing, although the request waits in   *)
(* the inbox over restarts and the lease may change before the claim.      *)
WorkIsAuthorized ==
    \A a \in Assignments :
        work[a] \in {"authorized", "claimed", "queued", "executing", "done"} => a \in allowed

(* What the tools show is what the process enforces: a lease that          *)
(* ump-authority lists as active authorizes its issuer now, one it lists   *)
(* otherwise does not, and a filter selects a lease under the status shown *)
(* for it; the newest event listed, at any limit, explains the row; the    *)
(* generation ump-credentials shows as active is exactly the one that      *)
(* passes the preflight and that a node starts with.                       *)
ShownIsEnforced ==
    /\ \A l \in Leases : lease[l] # NoLease =>
          LET shown == EffectiveLeaseStatus(l, now)
          IN  /\ Selected(l, shown, now)
              /\ Selected(l, "active", now) <=> shown = "active"
              /\ \A c \in lease[l].terms.capabilities :
                    Authorizes(l, lease[l].terms.issuer, c, now) <=> shown = "active"
              /\ \A limit \in 1..MaxRevision :
                    LET events == AuthorityEvents(l, limit)
                        newest == events[Len(events)]
                    IN  /\ newest.revision = lease[l].revision
                        /\ newest.type = "revoke" <=> shown = "revoked"
    /\ \A g \in Generations :
          LET shown == ShowGeneration(g, now)
          IN  /\ shown = "active" <=> RequireActive(g, now)
              /\ shown = "active" <=> Preflight(g)
    /\ \A limit \in 1..MaxRevision :
          LET events == EventsRead(limit)
              newest == events[Len(events)]
          IN  /\ newest.type = "activated" => status[newest.subject] = "active"
              /\ newest.type = "revoked" =>
                    \A g \in Stored : cert[g] = newest.subject => status[g] = "retired"

(* docs/CREDENTIALS.md 35: a generation that expires, is retired or is     *)
(* revoked makes the node stop, although its close waits for native work   *)
(* and messages still arrive.                                              *)
CredentialFaultStops ==
    phase = "up" /\ ~RequireActive(bundle, now)
        ~> phase = "down" \/ RequireActive(bundle, now)
=============================================================================
