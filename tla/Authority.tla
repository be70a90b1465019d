------------------------------ MODULE Authority ------------------------------
(***************************************************************************)
(* The robot-local store of authority leases (ump.authority) and the       *)
(* commands of ump-authority.  Several operators and the running node have *)
(* the database open; every grant and revocation is one transaction that   *)
(* starts with BEGIN IMMEDIATE, so it is one step, and the revision that   *)
(* an operator passes may be out of date by then.                          *)
(***************************************************************************)
EXTENDS Naturals, Sequences

CONSTANTS
    Leases,        \* lease identifiers
    Issuers,       \* authenticated coordinator identities
    Capabilities,  \* capability names
    Terms,         \* what operators grant: issuer, scope and time window
    NoLease        \* no row

ASSUME AuthorityAssumption ==
    /\ Terms \subseteq [issuer : Issuers, capabilities : SUBSET Capabilities,
                        issued : Nat, expires : Nat, uncertainty : Nat]
    /\ \A t \in Terms : t.issued < t.expires /\ t.capabilities # {}
    /\ NoLease \notin [terms : Terms, revision : Nat, status : {"active", "revoked"}]

VARIABLES
    lease,  \* authority_leases: the row of each lease
    audit   \* authority_events: the events of each lease, oldest first

authorityVars == <<lease, audit>>

Rows   == [terms : Terms, revision : Nat, status : {"active", "revoked"}]
Events == [type : {"grant", "revoke"}, revision : Nat]

AuthorityInit ==
    /\ lease = [l \in Leases |-> NoLease]
    /\ audit = [l \in Leases |-> <<>>]

(* Mutant: a revoked lease is renewed like any other.                      *)
GrantableAgain(l, t, n) ==
    \/ lease[l] = NoLease
    \/ /\ lease[l] # NoLease
       /\ lease[l].terms.issuer = t.issuer
       /\ n = lease[l].revision + 1

(* Mutant: an operator's revision only has to be newer than the row's.     *)
GrantableLater(l, t, n) ==
    \/ lease[l] = NoLease
    \/ /\ lease[l] # NoLease
       /\ lease[l].terms.issuer = t.issuer
       /\ lease[l].status # "revoked"
       /\ n > lease[l].revision

(* The refusals of grant: a lease is new, or the renewal keeps its issuer, *)
(* is not of a revoked lease and has the next revision.                    *)
Grantable(l, t, n) ==
    \/ lease[l] = NoLease
    \/ /\ lease[l] # NoLease
       /\ lease[l].terms.issuer = t.issuer
       /\ lease[l].status # "revoked"
       /\ n = lease[l].revision + 1

(* _append_event_locked, in the transaction of the change.                 *)
AppendEvent(l, type, n) ==
    audit' = [audit EXCEPT ![l] = Append(@, [type |-> type, revision |-> n])]

Grant(l, t, n) ==
    /\ Grantable(l, t, n)
    /\ lease' = [lease EXCEPT ![l] = [terms |-> t, revision |-> n, status |-> "active"]]
    /\ AppendEvent(l, "grant", n)

Revoke(l, n) ==
    /\ lease[l] # NoLease
    /\ lease[l].revision = n
    /\ lease[l].status = "active"
    /\ lease' = [lease EXCEPT ![l] = [terms |-> lease[l].terms, revision |-> n + 1,
                                      status |-> "revoked"]]
    /\ AppendEvent(l, "revoke", n + 1)

AuthorityNext ==
    \E l \in Leases, n \in Nat \ {0} :
        Revoke(l, n) \/ \E t \in Terms : Grant(l, t, n)

AuthoritySpec == AuthorityInit /\ [][AuthorityNext]_authorityVars

-----------------------------------------------------------------------------
(* Mutant: the uncertainty of the clock is counted on one side only.       *)
AuthorizesLate(l, issuer, capability, at) ==
    /\ lease[l] # NoLease
    /\ lease[l].status = "active"
    /\ lease[l].terms.issuer = issuer
    /\ capability \in lease[l].terms.capabilities
    /\ at >= lease[l].terms.issued + lease[l].terms.uncertainty
    /\ at < lease[l].terms.expires

(* authorize: what the assignment handler asks of the store.               *)
Authorizes(l, issuer, capability, at) ==
    /\ lease[l] # NoLease
    /\ lease[l].status = "active"
    /\ lease[l].terms.issuer = issuer
    /\ capability \in lease[l].terms.capabilities
    /\ at >= lease[l].terms.issued + lease[l].terms.uncertainty
    /\ at + lease[l].terms.uncertainty < lease[l].terms.expires

EffectiveStatuses == {"active", "not_yet_valid", "expired", "revoked"}

(* _effective_status: what ump-authority list and show print for a row.    *)
EffectiveLeaseStatus(l, at) ==
    LET t == lease[l].terms
    IN  CASE lease[l].status = "revoked" -> "revoked"
          [] lease[l].status = "active" /\ at < t.issued + t.uncertainty -> "not_yet_valid"
          [] lease[l].status = "active" /\ at >= t.issued + t.uncertainty
                /\ at + t.uncertainty >= t.expires -> "expired"
          [] OTHER -> "active"

(* Mutant: the filter forgets that the window ends before it is over.      *)
SelectedLate(l, filter, at) ==
    LET t == lease[l].terms
    IN  \/ filter = "active" /\ lease[l].status = "active"
             /\ at >= t.issued + t.uncertainty /\ at < t.expires
        \/ filter = "not_yet_valid" /\ lease[l].status = "active"
             /\ at < t.issued + t.uncertainty
        \/ filter = "expired" /\ lease[l].status = "active" /\ at + t.uncertainty >= t.expires
        \/ filter = "revoked" /\ lease[l].status = "revoked"

(* The WHERE clause read_authority_leases makes of a filter.               *)
Selected(l, filter, at) ==
    LET t == lease[l].terms
    IN  \/ filter = "active" /\ lease[l].status = "active"
             /\ at >= t.issued + t.uncertainty /\ at + t.uncertainty < t.expires
        \/ filter = "not_yet_valid" /\ lease[l].status = "active"
             /\ at < t.issued + t.uncertainty
        \/ filter = "expired" /\ lease[l].status = "active" /\ at + t.uncertainty >= t.expires
        \/ filter = "revoked" /\ lease[l].status = "revoked"

(* read_authority_events of a lease that exists: its newest events up to   *)
(* the limit, oldest first.                                                *)
AuthorityEvents(l, limit) ==
    LET n == Len(audit[l])
    IN  SubSeq(audit[l], IF limit < n THEN n - limit + 1 ELSE 1, n)

-----------------------------------------------------------------------------
AuthorityTypeOK ==
    /\ lease \in [Leases -> Rows \cup {NoLease}]
    /\ audit \in [Leases -> Seq(Events)]

(* The audit explains the rows: the events of a lease have consecutive     *)
(* revisions, only the last can be a revocation, and the row has the       *)
(* revision and the status of the last event, whichever operators renewed  *)
(* and revoked it in whatever order.                                       *)
AuditExplainsLeases ==
    \A l \in Leases :
        /\ lease[l] = NoLease <=> audit[l] = <<>>
        /\ \A i \in 2..Len(audit[l]) : audit[l][i].revision = audit[l][i-1].revision + 1
        /\ \A i \in 1..Len(audit[l]) : audit[l][i].type = "revoke" => i = Len(audit[l])
        /\ lease[l] # NoLease =>
              /\ lease[l].revision = audit[l][Len(audit[l])].revision
              /\ lease[l].status = "revoked" <=> audit[l][Len(audit[l])].type = "revoke"

(* docs/AUTHORITY.md: revocation is terminal for a lease ID, also against  *)
(* a renewal that another operator has under way; and a lease never        *)
(* changes its issuer.                                                     *)
LeasesOnlyAdvance ==
    [][\A l \in Leases : lease[l] # NoLease =>
          /\ lease'[l] # NoLease
          /\ lease'[l].terms.issuer = lease[l].terms.issuer
          /\ lease[l].status = "revoked" => lease'[l] = lease[l]]_lease
=============================================================================
