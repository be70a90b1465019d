--------------------------- MODULE AuthorityProofs ---------------------------
(***************************************************************************)
(* The authority store, proved for any leases, issuers, terms and number   *)
(* of operators: what its audit says is what its rows hold, and a lease    *)
(* only advances.  A specification whose steps are steps of the store or   *)
(* leave it alone inherits both (see NodeProofs).                          *)
(***************************************************************************)
EXTENDS Authority, TLAPS

(* A command that passes the store's checks is a grant or a revocation of  *)
(* one lease with a positive revision.                                     *)
LEMMA AuthorityStep ==
    ASSUME AuthorityNext
    PROVE  \E l \in Leases, n \in Nat \ {0} :
              Revoke(l, n) \/ \E t \in Terms : Grant(l, t, n)
BY DEF AuthorityNext

(* Rows are never mistaken for the absence of one.                         *)
LEMMA RowIsNoLease ==
    ASSUME NEW t \in Terms, NEW n \in Nat, NEW s \in {"active", "revoked"}
    PROVE  /\ [terms |-> t, revision |-> n, status |-> s] \in Rows
           /\ [terms |-> t, revision |-> n, status |-> s] # NoLease
<1>1. [terms |-> t, revision |-> n, status |-> s]
         \in [terms : Terms, revision : Nat, status : {"active", "revoked"}]
  OBVIOUS
<1> QED
  BY <1>1, AuthorityAssumption DEF Rows

(* A revocation leaves a row with the same terms.                          *)
LEMMA RevokedRow ==
    ASSUME AuthorityTypeOK, NEW l \in Leases, NEW n \in Nat, Revoke(l, n)
    PROVE  /\ lease[l] \in Rows
           /\ lease'[l] \in Rows /\ lease'[l] # NoLease
           /\ lease'[l] = [terms |-> lease[l].terms, revision |-> n + 1,
                           status |-> "revoked"]
           /\ lease' = [lease EXCEPT ![l] = lease'[l]]
<1>1. lease \in [Leases -> Rows \cup {NoLease}] /\ lease[l] # NoLease
  BY DEF AuthorityTypeOK, Revoke
<1>2. lease[l] \in [terms : Terms, revision : Nat, status : {"active", "revoked"}]
  BY <1>1 DEF Rows
<1>3. /\ lease'[l] = [terms |-> lease[l].terms, revision |-> n + 1, status |-> "revoked"]
      /\ lease' = [lease EXCEPT ![l] = lease'[l]]
  BY <1>1 DEF Revoke
<1>4. lease[l].terms \in Terms /\ n + 1 \in Nat
  BY <1>2
<1>5. lease'[l] \in Rows /\ lease'[l] # NoLease
  BY <1>3, <1>4, RowIsNoLease
<1> QED
  BY <1>1, <1>3, <1>5

LEMMA TypeStep ==
    ASSUME AuthorityTypeOK, AuthorityNext
    PROVE  AuthorityTypeOK'
<1>1. PICK l \in Leases, n \in Nat \ {0} :
         Revoke(l, n) \/ \E t \in Terms : Grant(l, t, n)
  BY AuthorityStep
<1>2. CASE Revoke(l, n)
  <2>1. lease'[l] \in Rows /\ lease' = [lease EXCEPT ![l] = lease'[l]]
    BY <1>2, RevokedRow
  <2>2. [type |-> "revoke", revision |-> n + 1] \in Events
    BY DEF Events
  <2> QED
    BY <1>2, <2>1, <2>2 DEF AuthorityTypeOK, Revoke, AppendEvent
<1>3. CASE \E t \in Terms : Grant(l, t, n)
  <2>1. PICK t \in Terms : Grant(l, t, n)
    BY <1>3
  <2>2. [terms |-> t, revision |-> n, status |-> "active"] \in Rows
    BY RowIsNoLease
  <2>3. [type |-> "grant", revision |-> n] \in Events
    BY DEF Events
  <2> QED
    BY <2>1, <2>2, <2>3 DEF AuthorityTypeOK, Grant, AppendEvent
<1> QED
  BY <1>1, <1>2, <1>3

LEMMA TypeStutter ==
    ASSUME AuthorityTypeOK, UNCHANGED authorityVars
    PROVE  AuthorityTypeOK'
BY DEF AuthorityTypeOK, authorityVars

(* The audit of one lease.                                                 *)
Explained(l) ==
    /\ lease[l] = NoLease <=> audit[l] = <<>>
    /\ \A i \in 2..Len(audit[l]) : audit[l][i].revision = audit[l][i-1].revision + 1
    /\ \A i \in 1..Len(audit[l]) : audit[l][i].type = "revoke" => i = Len(audit[l])
    /\ lease[l] # NoLease =>
          /\ lease[l].revision = audit[l][Len(audit[l])].revision
          /\ lease[l].status = "revoked" <=> audit[l][Len(audit[l])].type = "revoke"

LEMMA AuditStep ==
    ASSUME AuthorityTypeOK, AuditExplainsLeases, AuthorityNext
    PROVE  AuditExplainsLeases'
<1>1. PICK l \in Leases, n \in Nat \ {0} :
         Revoke(l, n) \/ \E t \in Terms : Grant(l, t, n)
  BY AuthorityStep
<1>2. \A k \in Leases : Explained(k)
  BY DEF AuditExplainsLeases, Explained
<1>3. lease \in [Leases -> Rows \cup {NoLease}] /\ audit \in [Leases -> Seq(Events)]
  BY DEF AuthorityTypeOK
<1>4. SUFFICES ASSUME NEW k \in Leases
               PROVE  Explained(k)'
  BY DEF AuditExplainsLeases, Explained
<1>5. CASE k # l
  <2>1. lease'[k] = lease[k] /\ audit'[k] = audit[k]
    BY <1>1, <1>3, <1>5 DEF Revoke, Grant, AppendEvent
  <2> QED
    BY <1>2, <2>1 DEF Explained
<1>6. CASE k = l /\ Revoke(l, n)
  <2> DEFINE e == [type |-> "revoke", revision |-> n + 1]
             s == audit[l]
  <2>1. s \in Seq(Events) /\ e \in Events /\ audit'[l] = Append(s, e)
    BY <1>3, <1>6 DEF Revoke, AppendEvent, Events
  <2>2. /\ lease'[l] = [terms |-> lease[l].terms, revision |-> n + 1, status |-> "revoked"]
        /\ lease[l] \in Rows /\ lease[l].revision = n /\ lease[l].status = "active"
        /\ lease[l] # NoLease
    BY <1>6, RevokedRow DEF Revoke
  <2>4. lease'[l] # NoLease
    BY <1>6, RevokedRow
  <2>5. s # <<>> /\ s[Len(s)].revision = n /\ s[Len(s)].type # "revoke"
    BY <1>2, <2>2 DEF Explained
  <2>6. Len(s) \in Nat /\ Len(s) # 0
    BY <2>1, <2>5
  <2> DEFINE u == Append(s, e)
  <2>7. /\ Len(u) = Len(s) + 1 /\ u[Len(s) + 1] = e
        /\ \A i \in 1..Len(s) : u[i] = s[i]
        /\ u # <<>>
    BY <2>1
  <2>8. \A i \in 1..Len(s) : s[i].type = "revoke" => i = Len(s)
    BY <1>2 DEF Explained
  <2>9. \A i \in 2..Len(s) : s[i].revision = s[i-1].revision + 1
    BY <1>2 DEF Explained
  <2> HIDE DEF s, u, e
  <2>10. \A i \in 2..Len(u) : u[i].revision = u[i-1].revision + 1
    <3>1. SUFFICES ASSUME NEW i \in 2..Len(u)
                   PROVE  u[i].revision = u[i-1].revision + 1
      OBVIOUS
    <3>2. CASE i = Len(s) + 1
      BY <3>2, <2>5, <2>6, <2>7 DEF e
    <3>3. CASE i \in 2..Len(s)
      BY <3>3, <2>6, <2>7, <2>9
    <3> QED
      BY <3>2, <3>3, <2>6, <2>7
  <2>11. \A i \in 1..Len(u) : u[i].type = "revoke" => i = Len(u)
    <3>1. SUFFICES ASSUME NEW i \in 1..Len(s), u[i].type = "revoke"
                   PROVE  FALSE
      BY <2>6, <2>7
    <3> QED
      BY <3>1, <2>5, <2>7, <2>8
  <2>12. u[Len(u)] = e
    BY <2>6, <2>7
  <2> QED
    BY <1>6, <2>1, <2>2, <2>4, <2>7, <2>10, <2>11, <2>12 DEF Explained, u, e, s
<1>7. CASE k = l /\ \E t \in Terms : Grant(l, t, n)
  <2>1. PICK t \in Terms : Grant(l, t, n)
    BY <1>7
  <2> DEFINE e == [type |-> "grant", revision |-> n]
             s == audit[l]
             u == Append(s, e)
  <2>2. s \in Seq(Events) /\ e \in Events /\ audit'[l] = u
    BY <1>3, <2>1 DEF Grant, AppendEvent, Events
  <2>3. lease'[l] = [terms |-> t, revision |-> n, status |-> "active"] /\ lease'[l] # NoLease
    BY <1>3, <2>1, RowIsNoLease DEF Grant
  <2>4. Len(s) \in Nat
    BY <2>2
  <2>5. /\ Len(u) = Len(s) + 1 /\ u[Len(s) + 1] = e
        /\ \A i \in 1..Len(s) : u[i] = s[i]
        /\ u # <<>>
    BY <2>2
  <2>6. \/ s = <<>>
        \/ s # <<>> /\ s[Len(s)].type # "revoke" /\ n = s[Len(s)].revision + 1
    BY <1>2, <2>1 DEF Explained, Grant, Grantable
  <2>7. \A i \in 1..Len(s) : s[i].type = "revoke" => i = Len(s)
    BY <1>2 DEF Explained
  <2>8. \A i \in 2..Len(s) : s[i].revision = s[i-1].revision + 1
    BY <1>2 DEF Explained
  <2>9. s = <<>> => Len(s) = 0
    OBVIOUS
  <2>10. e.revision = n /\ e.type = "grant"
    OBVIOUS
  <2> HIDE DEF s, u, e
  <2>11. \A i \in 2..Len(u) : u[i].revision = u[i-1].revision + 1
    <3>1. SUFFICES ASSUME NEW i \in 2..Len(u)
                   PROVE  u[i].revision = u[i-1].revision + 1
      OBVIOUS
    <3>2. CASE i = Len(s) + 1
      BY <3>2, <2>4, <2>5, <2>6, <2>9, <2>10
    <3>3. CASE i \in 2..Len(s)
      BY <3>3, <2>4, <2>5, <2>8
    <3> QED
      BY <3>2, <3>3, <2>4, <2>5
  <2>12. \A i \in 1..Len(u) : u[i].type = "revoke" => i = Len(u)
    <3>1. SUFFICES ASSUME NEW i \in 1..Len(s), u[i].type = "revoke"
                   PROVE  FALSE
      BY <2>4, <2>5
    <3> QED
      BY <3>1, <2>4, <2>5, <2>6, <2>7, <2>9
  <2>13. u[Len(u)] = e
    BY <2>4, <2>5
  <2> QED
    BY <1>7, <2>2, <2>3, <2>5, <2>10, <2>11, <2>12, <2>13 DEF Explained
<1> QED
  BY <1>1, <1>5, <1>6, <1>7

LEMMA AuditStutter ==
    ASSUME AuditExplainsLeases, UNCHANGED authorityVars
    PROVE  AuditExplainsLeases'
BY DEF AuditExplainsLeases, authorityVars

(* One command on one lease.                                               *)
Advances ==
    \A l \in Leases : lease[l] # NoLease =>
        /\ lease'[l] # NoLease
        /\ lease'[l].terms.issuer = lease[l].terms.issuer
        /\ lease[l].status = "revoked" => lease'[l] = lease[l]

LEMMA AdvanceStep ==
    ASSUME AuthorityTypeOK, AuthorityNext
    PROVE  Advances
<1>1. PICK l \in Leases, n \in Nat \ {0} :
         Revoke(l, n) \/ \E t \in Terms : Grant(l, t, n)
  BY AuthorityStep
<1>2. lease \in [Leases -> Rows \cup {NoLease}]
  BY DEF AuthorityTypeOK
<1>3. SUFFICES ASSUME NEW k \in Leases, lease[k] # NoLease
               PROVE  /\ lease'[k] # NoLease
                      /\ lease'[k].terms.issuer = lease[k].terms.issuer
                      /\ lease[k].status = "revoked" => lease'[k] = lease[k]
  BY DEF Advances
<1>4. CASE k # l
  BY <1>1, <1>2, <1>3, <1>4 DEF Revoke, Grant
<1>5. CASE k = l /\ Revoke(l, n)
  <2>1. /\ lease'[l] = [terms |-> lease[l].terms, revision |-> n + 1, status |-> "revoked"]
        /\ lease[l] \in Rows /\ lease[l].status = "active"
    BY <1>5, RevokedRow DEF Revoke
  <2>2. lease'[l] # NoLease
    BY <1>5, RevokedRow
  <2> QED
    BY <1>5, <2>1, <2>2
<1>6. CASE k = l /\ \E t \in Terms : Grant(l, t, n)
  <2>1. PICK t \in Terms : Grant(l, t, n)
    BY <1>6
  <2>2. lease[l].terms.issuer = t.issuer /\ lease[l].status # "revoked"
    BY <1>3, <1>6, <2>1 DEF Grant, Grantable
  <2>3. lease'[l] = [terms |-> t, revision |-> n, status |-> "active"]
    BY <1>2, <2>1 DEF Grant
  <2>4. lease'[l] # NoLease
    BY <2>3, RowIsNoLease
  <2> QED
    BY <1>6, <2>2, <2>3, <2>4
<1> QED
  BY <1>1, <1>4, <1>5, <1>6

-----------------------------------------------------------------------------
(* The rows and events of the authority store keep their form.             *)
THEOREM AuthorityTypeCorrect == AuthoritySpec => []AuthorityTypeOK
<1>1. AuthorityInit => AuthorityTypeOK
  BY DEF AuthorityInit, AuthorityTypeOK
<1>2. AuthorityTypeOK /\ [AuthorityNext]_authorityVars => AuthorityTypeOK'
  BY TypeStep, TypeStutter
<1> QED
  BY <1>1, <1>2, PTL DEF AuthoritySpec

(* The events of SqliteAuthorityStore explain its rows, whatever revisions *)
(* the operators pass to grant and revoke.                                 *)
THEOREM AuditCorrect == AuthoritySpec => []AuditExplainsLeases
<1>1. AuthorityInit => AuditExplainsLeases
  <2>1. SUFFICES ASSUME AuthorityInit, NEW l \in Leases
                 PROVE  Explained(l)
    BY DEF AuditExplainsLeases, Explained
  <2>2. lease[l] = NoLease /\ audit[l] = <<>> /\ Len(audit[l]) = 0
    BY <2>1 DEF AuthorityInit
  <2> QED
    BY <2>2 DEF Explained
<1>2. AuthorityTypeOK /\ AuditExplainsLeases /\ [AuthorityNext]_authorityVars
         => AuditExplainsLeases'
  BY AuditStep, AuditStutter
<1> QED
  BY <1>1, <1>2, AuthorityTypeCorrect, PTL DEF AuthoritySpec

(* grant and revoke keep a lease's issuer and never touch a revoked lease. *)
THEOREM LeasesAdvance == AuthoritySpec => LeasesOnlyAdvance
<1>1. AuthorityTypeOK /\ [AuthorityNext]_authorityVars => [Advances]_lease
  BY AdvanceStep DEF authorityVars
<1>2. [][Advances]_lease => LeasesOnlyAdvance
  BY DEF LeasesOnlyAdvance, Advances
<1> QED
  BY <1>1, <1>2, AuthorityTypeCorrect, PTL DEF AuthoritySpec
=============================================================================
