-------------------------- MODULE LeaseStoreProofs --------------------------
(***************************************************************************)
(* Proofs about LeaseStore, for every set of leases, secrets, scopes, TTLs *)
(* and use counts: the store is well typed, no lease is ever overspent, no *)
(* delegation ever widens, and a lease only disappears once it is dead.    *)
(***************************************************************************)
EXTENDS LeaseStore, TLAPS

\* Nothing but its use counter ever changes in a stored record.
RecordsImmutable ==
  \A l \in Lease : Known(l) =>
    /\ Issued(l)
    /\ leases[l].secret = issued[l].secret
    /\ leases[l].scope = issued[l].scope
    /\ leases[l].expiresAt = issued[l].expiresAt

\* An id that was never issued has no history.
FreshHasNoHistory ==
  \A l \in Lease : ~Issued(l) => spent[l] = 0 /\ line[l] = {}

\* A destination an ancestor was bound to is still bound to the same value.
\* (NeverWiden does not imply it: a scope that permits nothing is Within any.)
BindingsKept ==
  \A l \in Lease : \A a \in line[l] : \A f \in BindField :
    issued[a].scope.bind[f] \in {Unset, issued[l].scope.bind[f]}

\* The strengthening that makes the properties inductive.
StoreInv ==
  /\ TypeOK
  /\ RecordsImmutable
  /\ FreshHasNoHistory
  /\ UsesConserved
  /\ NeverWiden
  /\ BindingsKept
  /\ OnlyDeadLeasesVanish

-----------------------------------------------------------------------------
(* Attenuation.                                                            *)

\* A child scope the code accepts permits only what the parent permits.
THEOREM NarrowIsWithin ==
  ASSUME NEW p \in Scope, NEW r \in Scope, ScopeAccepted(p, r)
  PROVE  Within(Narrow(p, r), p)
<1> SUFFICES ASSUME NEW u \in Use, Permits(Narrow(p, r), u)
             PROVE  Permits(p, u)
    BY DEF Within
<1>1. ASSUME NEW f \in BindField
      PROVE  p.bind[f] \in {Unset, u.dest[f]}
  BY <1>1 DEF Permits, Narrow, narrowBinding, ScopeAccepted, BindingAccepted
<1>2. ASSUME NEW f \in CeilField
      PROVE  p.ceil[f] = 0 \/ u.load[f] <= p.ceil[f]
  <2>1. p.ceil[f] \in Nat /\ r.ceil[f] \in Nat /\ u.load[f] \in Nat
    BY <1>2, LoadAssumption DEF Scope, Use
  <2>2. narrowCeil(p.ceil[f], r.ceil[f]) = 0
          \/ u.load[f] <= narrowCeil(p.ceil[f], r.ceil[f])
    BY <1>2 DEF Permits, Narrow
  <2>3. CeilAccepted(p.ceil[f], r.ceil[f])
    BY <1>2 DEF ScopeAccepted
  <2> QED BY <2>1, <2>2, <2>3 DEF CeilAccepted, narrowCeil
<1>3. p.paths = {} \/ \E g \in p.paths : u.endpoint \in g
  BY DEF Permits, Narrow, narrowPaths, ScopeAccepted, PathsAccepted,
         pathsSubsumed, globSubsumes
<1> QED BY <1>1, <1>2, <1>3 DEF Permits

LEMMA WithinIsTransitive ==
  ASSUME NEW a, NEW b, NEW c, Within(a, b), Within(b, c)
  PROVE  Within(a, c)
BY DEF Within

LEMMA NarrowIsScope ==
  ASSUME NEW p \in Scope, NEW r \in Scope
  PROVE  Narrow(p, r) \in Scope
BY DEF Scope, Narrow, narrowBinding, narrowCeil, narrowPaths

-----------------------------------------------------------------------------
(* The steps.  Mint and Attenuate share Store: what both must establish    *)
(* about the new record is the hypothesis of StorePreserves.               *)

LEMMA InitInv == Init => StoreInv
BY NoneAssumption DEF Init, StoreInv, TypeOK, SecretState, RecordsImmutable,
   FreshHasNoHistory, UsesConserved, NeverWiden, BindingsKept,
   OnlyDeadLeasesVanish, Known, Issued

\* What a record minted under line `anc` may be.
Mintable(rec, anc) ==
  /\ rec \in Record
  /\ rec.usesLeft > 0
  /\ anc \subseteq Lease
  /\ \A a \in anc :
       /\ Issued(a)
       /\ Within(rec.scope, issued[a].scope)
       /\ rec.expiresAt <= issued[a].expiresAt
       /\ rec.usesLeft <= issued[a].usesLeft
       /\ rec.secret = issued[a].secret
       /\ \A f \in BindField :
            issued[a].scope.bind[f] \in {Unset, rec.scope.bind[f]}

LEMMA StorePreserves ==
  ASSUME StoreInv, NEW l \in Lease, ~Issued(l), NEW rec, NEW anc,
         Mintable(rec, anc), Store(l, rec, anc)
  PROVE  StoreInv'
<1> USE NoneAssumption, UseUnitAssumption DEF StoreInv
<1>1. rec \in Record /\ rec # None
  BY DEF Mintable
<1>2. \A k \in Lease :
        /\ issued'[k] = IF k = l THEN rec ELSE issued[k]
        /\ line'[k] = IF k = l THEN anc ELSE line[k]
        /\ leases'[k] = IF k = l THEN rec
                        ELSE IF Known(k) /\ Expired(k) THEN None ELSE leases[k]
  BY DEF Store, Pruned, TypeOK
<1>3. now' = now /\ vault' = vault /\ spent' = spent /\ revoked' = revoked
  BY DEF Store
<1>4. TypeOK'
  BY <1>1, <1>3 DEF TypeOK, Store, Pruned, Mintable
<1>5. RecordsImmutable'
  BY <1>1, <1>2 DEF RecordsImmutable, Known, Issued
<1>6. FreshHasNoHistory'
  BY <1>1, <1>2, <1>3 DEF FreshHasNoHistory, Issued
<1>7. UsesConserved'
  <2> SUFFICES ASSUME NEW k \in Lease, Issued(k)'
               PROVE  /\ Known(k)' => spent'[k] + leases'[k].usesLeft = issued'[k].usesLeft
                      /\ spent'[k] < issued'[k].usesLeft + UseUnit
    BY DEF UsesConserved
  <2>1. CASE k = l
    <3>1. spent'[l] = 0 /\ issued'[l] = rec /\ leases'[l] = rec
      BY <1>2, <1>3 DEF FreshHasNoHistory
    <3>2. rec.usesLeft \in Int /\ rec.usesLeft > 0
      BY <1>1 DEF Record, Mintable
    <3> QED BY <2>1, <3>1, <3>2
  <2>2. CASE k # l
    <3>1. spent'[k] = spent[k] /\ issued'[k] = issued[k] /\ Issued(k)
      BY <2>2, <1>2, <1>3 DEF Issued
    <3>2. Known(k)' => Known(k) /\ leases'[k] = leases[k]
      BY <2>2, <1>2 DEF Known
    <3> QED BY <3>1, <3>2 DEF UsesConserved
  <2> QED BY <2>1, <2>2
<1>8. NeverWiden'
  <2> SUFFICES ASSUME NEW k \in Lease, NEW a \in line'[k]
               PROVE  /\ Issued(k)' /\ Issued(a)'
                      /\ Within(issued'[k].scope, issued'[a].scope)
                      /\ issued'[k].expiresAt <= issued'[a].expiresAt
                      /\ issued'[k].usesLeft <= issued'[a].usesLeft
                      /\ issued'[k].secret = issued'[a].secret
    BY DEF NeverWiden, Within, Permits
  <2>1. CASE k = l
    <3>1. a \in anc /\ a \in Lease /\ Issued(a) /\ a # l
      BY <2>1, <1>2 DEF Mintable
    <3>2. issued'[a] = issued[a] /\ issued'[k] = rec
      BY <2>1, <3>1, <1>2
    <3> QED BY <1>1, <3>1, <3>2, <2>1 DEF Mintable, Issued
  <2>2. CASE k # l
    <3>1. a \in line[k] /\ a \in Lease /\ Issued(a) /\ a # l
      BY <2>2, <1>2 DEF NeverWiden, TypeOK
    <3>2. issued'[a] = issued[a] /\ issued'[k] = issued[k]
      BY <2>2, <3>1, <1>2
    <3> QED BY <3>1, <3>2 DEF NeverWiden, Issued
  <2> QED BY <2>1, <2>2
<1>9. OnlyDeadLeasesVanish'
  BY <1>1, <1>2, <1>3
     DEF OnlyDeadLeasesVanish, RecordsImmutable, Known, Issued, Expired
<1>10. BindingsKept'
  <2> SUFFICES ASSUME NEW k \in Lease, NEW a \in line'[k], NEW f \in BindField
               PROVE  issued'[a].scope.bind[f] \in {Unset, issued'[k].scope.bind[f]}
    BY DEF BindingsKept
  <2>1. CASE k = l
    BY <2>1, <1>2 DEF Mintable
  <2>2. CASE k # l
    BY <2>2, <1>2 DEF BindingsKept, NeverWiden, TypeOK
  <2> QED BY <2>1, <2>2
<1> QED BY <1>4, <1>5, <1>6, <1>7, <1>8, <1>9, <1>10

LEMMA MintPreserves ==
  ASSUME StoreInv, Mint
  PROVE  StoreInv'
<1>1. PICK l \in Lease, s \in Secret, r \in Requests, ttl \in TTLs,
           uses \in UseCounts, c \in Ceilings : mintLease(l, s, r, ttl, uses, c)
  BY DEF Mint
<1> DEFINE rec == [secret |-> s, scope |-> r, expiresAt |-> now + ttl,
                   usesLeft |-> uses, parent |-> None]
<1>2. r \in Scope /\ now + ttl \in Nat /\ uses \in Int /\ uses > 0
  BY RequestAssumption DEF StoreInv, TypeOK
<1>3. Mintable(rec, {})
  BY <1>2 DEF Mintable, Record
<1>4. ~Issued(l) /\ Store(l, rec, {})
  BY <1>1 DEF mintLease, Issued
<1> HIDE DEF rec
<1> QED BY <1>3, <1>4, StorePreserves

LEMMA AttenuatePreserves ==
  ASSUME StoreInv, Attenuate
  PROVE  StoreInv'
<1> USE DEF StoreInv
<1>1. PICK l \in Lease, p \in Lease, r \in Requests, c \in Ceilings :
        /\ Spendable(p)
        /\ \E ttl \in ChildTTLs(p), uses \in ChildUses(p) :
             attenuateLease(l, p, r, ttl, uses, c)
  BY DEF Attenuate
<1>2. PICK ttl \in ChildTTLs(p), uses \in ChildUses(p) :
        attenuateLease(l, p, r, ttl, uses, c)
  BY <1>1
<1> DEFINE rec == [secret |-> leases[p].secret,
                   scope |-> Narrow(leases[p].scope, r),
                   expiresAt |-> now + ttl, usesLeft |-> uses, parent |-> p]
           anc == line[p] \cup {p}
<1>3. /\ leases[p] \in Record /\ now \in Nat /\ Issued(p)
      /\ leases[p].expiresAt \in Nat /\ now <= leases[p].expiresAt
      /\ leases[p].usesLeft \in Int /\ leases[p].usesLeft > 0
      /\ leases[p].scope \in Scope
  <2>1. leases[p] \in Record /\ now \in Nat /\ Issued(p)
    BY <1>1 DEF Spendable, Known, TypeOK, RecordsImmutable
  <2>2. /\ leases[p].expiresAt \in Nat /\ leases[p].usesLeft \in Int
        /\ leases[p].scope \in Scope
    BY <2>1 DEF Record
  <2> QED BY <1>1, <2>1, <2>2 DEF Spendable, Expired, Exhausted
<1>4. ttl \in Nat /\ now + ttl <= leases[p].expiresAt
  <2>1. RemainingTTL(p) \in Nat /\ now + RemainingTTL(p) = leases[p].expiresAt
    BY <1>3 DEF RemainingTTL
  <2> HIDE DEF RemainingTTL
  <2>2. ttl \in Nat /\ ttl <= RemainingTTL(p)
    <3>1. ttl = RemainingTTL(p) \/ (ttl \in TTLs /\ ttl <= RemainingTTL(p))
      BY DEF ChildTTLs
    <3>2. ttl \in TTLs => ttl \in Nat
      BY RequestAssumption
    <3> QED BY <2>1, <3>1, <3>2
  <2> QED BY <1>3, <2>1, <2>2
<1>5. uses \in Int /\ uses > 0 /\ uses <= leases[p].usesLeft
  <2>1. uses = leases[p].usesLeft \/ (uses \in UseCounts /\ uses <= leases[p].usesLeft)
    BY DEF ChildUses
  <2>2. uses \in UseCounts => uses \in Nat /\ uses > 0
    BY RequestAssumption
  <2> QED BY <1>3, <2>1, <2>2
<1>6. r \in Scope /\ ScopeAccepted(leases[p].scope, r)
  BY <1>2, RequestAssumption DEF attenuateLease
<1>7. rec \in Record
  BY <1>3, <1>4, <1>5, <1>6, NarrowIsScope DEF Record
<1>8. Within(rec.scope, leases[p].scope)
  BY <1>3, <1>6, NarrowIsWithin
<1>9. \A f \in BindField : leases[p].scope.bind[f] \in {Unset, rec.scope.bind[f]}
  BY <1>6 DEF Narrow, narrowBinding, ScopeAccepted, BindingAccepted
<1>10. /\ leases[p].scope = issued[p].scope /\ leases[p].secret = issued[p].secret
      /\ leases[p].expiresAt = issued[p].expiresAt
      /\ leases[p].usesLeft <= issued[p].usesLeft
  <2>1. spent[p] \in Nat /\ spent[p] + leases[p].usesLeft = issued[p].usesLeft
    BY <1>1, <1>3 DEF TypeOK, UsesConserved, Spendable
  <2>2. issued[p].usesLeft \in Int
    BY <1>3 DEF TypeOK, Issued, Record
  <2>3. leases[p].usesLeft <= issued[p].usesLeft
    BY <1>3, <2>1, <2>2
  <2> QED BY <1>1, <2>3 DEF RecordsImmutable, Spendable
<1>11. Mintable(rec, anc)
  <2> SUFFICES ASSUME NEW a \in anc
               PROVE  /\ a \in Lease /\ Issued(a)
                      /\ Within(rec.scope, issued[a].scope)
                      /\ rec.expiresAt <= issued[a].expiresAt
                      /\ rec.usesLeft <= issued[a].usesLeft
                      /\ rec.secret = issued[a].secret
                      /\ \A f \in BindField :
                           issued[a].scope.bind[f] \in {Unset, rec.scope.bind[f]}
    BY <1>5, <1>7 DEF Mintable
  <2>1. CASE a = p
    <3>1. rec.expiresAt <= leases[p].expiresAt /\ rec.usesLeft <= leases[p].usesLeft
      BY <1>4, <1>5
    <3>2. rec.expiresAt <= issued[p].expiresAt
      BY <3>1, <1>10
    <3>3. rec.usesLeft <= issued[p].usesLeft
      <4>1. issued[p].usesLeft \in Int
        BY <1>3 DEF TypeOK, Issued, Record
      <4> QED BY <3>1, <4>1, <1>3, <1>5, <1>10
    <3>4. Within(rec.scope, issued[p].scope) /\ rec.secret = issued[p].secret
      BY <1>8, <1>10
    <3>5. \A f \in BindField : issued[p].scope.bind[f] \in {Unset, rec.scope.bind[f]}
      BY <1>10, <1>9
    <3> QED BY <2>1, <1>3, <3>2, <3>3, <3>4, <3>5
  <2>2. CASE a \in line[p]
    <3>1. /\ a \in Lease /\ Issued(a)
          /\ Within(issued[p].scope, issued[a].scope)
          /\ issued[p].expiresAt <= issued[a].expiresAt
          /\ issued[p].usesLeft <= issued[a].usesLeft
          /\ issued[p].secret = issued[a].secret
      BY <2>2 DEF NeverWiden, TypeOK
    <3>2. issued[a] \in Record /\ issued[p] \in Record
      BY <1>3, <3>1 DEF TypeOK, Issued
    <3>3. /\ issued[a].expiresAt \in Nat /\ issued[p].expiresAt \in Nat
          /\ issued[a].usesLeft \in Int /\ issued[p].usesLeft \in Int
      BY <3>2 DEF Record
    <3>4. Within(rec.scope, issued[a].scope)
      BY <1>8, <1>10, <3>1, WithinIsTransitive
    <3>5. \A f \in BindField : issued[a].scope.bind[f] \in {Unset, rec.scope.bind[f]}
      BY <2>2, <1>10, <1>9 DEF BindingsKept
    <3>6. rec.expiresAt <= issued[a].expiresAt
      BY <1>3, <1>4, <1>10, <3>1, <3>3
    <3>7. rec.usesLeft <= issued[a].usesLeft
      BY <1>3, <1>5, <1>10, <3>1, <3>3
    <3> QED BY <1>10, <3>1, <3>4, <3>5, <3>6, <3>7
  <2> QED BY <2>1, <2>2
<1>12. ~Issued(l) /\ Store(l, rec, anc)
  BY <1>2 DEF attenuateLease, Issued
<1> HIDE DEF rec, anc
<1> QED BY <1>11, <1>12, StorePreserves

LEMMA RedeemPreserves ==
  ASSUME StoreInv, NEW l \in Lease, NEW host \in Host, redeemLease(l, host)
  PROVE  StoreInv'
<1> USE NoneAssumption, UseUnitAssumption DEF StoreInv
<1>1. Known(l) /\ Issued(l) /\ leases[l] \in Record /\ leases[l].usesLeft > 0
  BY DEF redeemLease, evalLease, Spendable, Known, TypeOK, RecordsImmutable, Exhausted, Record
<1> DEFINE rec == [leases[l] EXCEPT !.usesLeft = @ - UseUnit]
<1>2. /\ rec \in Record /\ rec # None
      /\ rec.secret = leases[l].secret /\ rec.scope = leases[l].scope
      /\ rec.expiresAt = leases[l].expiresAt
      /\ rec.usesLeft = leases[l].usesLeft - UseUnit
  BY <1>1 DEF Record
<1>3. \A k \in Lease : /\ leases'[k] = IF k = l THEN rec ELSE leases[k]
                       /\ spent'[k] = IF k = l THEN spent[l] + UseUnit ELSE spent[k]
  BY DEF redeemLease, TypeOK
<1>4. UNCHANGED <<now, vault, issued, line, revoked>>
  BY DEF redeemLease
<1> HIDE DEF rec
<1>5. TypeOK'
  <2>1. leases' = [leases EXCEPT ![l] = rec]
    BY DEF redeemLease, rec
  <2>2. spent' \in [Lease -> Nat]
    BY DEF redeemLease, TypeOK
  <2> QED BY <1>2, <1>4, <2>1, <2>2 DEF TypeOK
<1>6. RecordsImmutable'
  BY <1>1, <1>2, <1>3, <1>4 DEF RecordsImmutable, Known, Issued
<1>7. FreshHasNoHistory'
  BY <1>1, <1>3, <1>4 DEF FreshHasNoHistory, Issued
<1>8. UsesConserved'
  <2> SUFFICES ASSUME NEW k \in Lease, Issued(k)
               PROVE  /\ Known(k)' => spent'[k] + leases'[k].usesLeft = issued[k].usesLeft
                      /\ spent'[k] < issued[k].usesLeft + UseUnit
    BY <1>4 DEF UsesConserved, Issued
  <2>1. CASE k = l
    <3>1. /\ spent[l] \in Nat /\ leases[l].usesLeft \in Int /\ issued[l].usesLeft \in Int
          /\ spent[l] + leases[l].usesLeft = issued[l].usesLeft
      BY <1>1 DEF TypeOK, Record, Issued, UsesConserved
    <3>2. /\ spent'[l] = spent[l] + UseUnit
          /\ leases'[l].usesLeft = leases[l].usesLeft - UseUnit
      BY <1>2, <1>3
    <3> QED BY <1>1, <2>1, <3>1, <3>2
  <2>2. CASE k # l
    BY <2>2, <1>3 DEF UsesConserved, Known
  <2> QED BY <2>1, <2>2
<1>9. NeverWiden'
  BY <1>4 DEF NeverWiden, Issued, Within, Permits
<1>10. OnlyDeadLeasesVanish'
  BY <1>2, <1>3, <1>4 DEF OnlyDeadLeasesVanish, Known, Issued
<1>11. BindingsKept'
  BY <1>4 DEF BindingsKept
<1> QED BY <1>5, <1>6, <1>7, <1>8, <1>9, <1>10, <1>11

LEMMA RevokePreserves ==
  ASSUME StoreInv, NEW l \in Lease, revokeLease(l)
  PROVE  StoreInv'
<1> USE NoneAssumption DEF StoreInv
<1>1. /\ \A k \in Lease : leases'[k] = IF k = l THEN None ELSE leases[k]
      /\ revoked' = revoked \cup {l}
      /\ UNCHANGED <<now, vault, issued, line, spent>>
  BY DEF revokeLease, TypeOK
<1>2. TypeOK'
  BY DEF TypeOK, revokeLease
<1>3. RecordsImmutable' /\ FreshHasNoHistory' /\ UsesConserved'
  BY <1>1 DEF RecordsImmutable, FreshHasNoHistory, UsesConserved, Known, Issued
<1>4. NeverWiden' /\ BindingsKept'
  BY <1>1 DEF NeverWiden, BindingsKept, Issued, Within, Permits
<1>5. OnlyDeadLeasesVanish'
  BY <1>1 DEF OnlyDeadLeasesVanish, Known, Issued
<1> QED BY <1>2, <1>3, <1>4, <1>5

LEMMA ClockAndVaultPreserve ==
  ASSUME StoreInv, ChangeVault \/ Tick \/ UNCHANGED storeVars
  PROVE  StoreInv'
<1>1. /\ UNCHANGED <<leases, issued, line, spent, revoked>>
      /\ now \in Nat /\ now' \in Nat /\ now <= now'
      /\ vault' \in [Secret -> SecretState]
  BY DEF StoreInv, TypeOK, ChangeVault, Tick, addSecret, removeSecret, BreakSecret,
         storeVars, SecretState
<1>2. TypeOK'
  BY <1>1 DEF StoreInv, TypeOK
<1>3. RecordsImmutable' /\ FreshHasNoHistory' /\ UsesConserved'
  BY <1>1 DEF StoreInv, RecordsImmutable, FreshHasNoHistory, UsesConserved, Known, Issued
<1>4. NeverWiden' /\ BindingsKept'
  BY <1>1 DEF StoreInv, NeverWiden, BindingsKept, Issued, Within, Permits
<1>5. OnlyDeadLeasesVanish'
  <2> SUFFICES ASSUME NEW l \in Lease, Issued(l), ~Known(l), l \notin revoked
               PROVE  now' > issued[l].expiresAt
    BY <1>1 DEF OnlyDeadLeasesVanish, Known, Issued
  <2>1. now > issued[l].expiresAt /\ issued[l].expiresAt \in Nat
    BY DEF StoreInv, OnlyDeadLeasesVanish, TypeOK, Issued, Record
  <2> QED BY <1>1, <2>1
<1> QED BY <1>2, <1>3, <1>4, <1>5 DEF StoreInv

-----------------------------------------------------------------------------

LEMMA StepInv == StoreInv /\ [Next]_storeVars => StoreInv'
<1> SUFFICES ASSUME StoreInv, [Next]_storeVars
             PROVE  StoreInv'
    OBVIOUS
<1>1. CASE Mint
  BY <1>1, MintPreserves
<1>2. CASE Attenuate
  BY <1>2, AttenuatePreserves
<1>3. CASE Redeem
  BY <1>3, RedeemPreserves DEF Redeem
<1>4. CASE Revoke
  BY <1>4, RevokePreserves DEF Revoke
<1>5. CASE ChangeVault \/ Tick \/ UNCHANGED storeVars
  BY <1>5, ClockAndVaultPreserve
<1> QED BY <1>1, <1>2, <1>3, <1>4, <1>5 DEF Next

THEOREM StoreInvariant == Spec => []StoreInv
<1> QED BY InitInv, StepInv, PTL DEF Spec

\* The store is well typed.
THEOREM TypeCorrect == Spec => []TypeOK
BY StoreInvariant, PTL DEF StoreInv

\* No lease is ever overspent: what was redeemed and what is left add up to
\* the grant.
THEOREM NoOverspending == Spec => []UsesConserved
BY StoreInvariant, PTL DEF StoreInv

\* Delegation never widens, however long the chain of sub-leases.
THEOREM DelegationNarrows == Spec => []NeverWiden
BY StoreInvariant, PTL DEF StoreInv

\* A record only disappears once its lease is revoked or expired.
THEOREM LiveLeasesStay == Spec => []OnlyDeadLeasesVanish
BY StoreInvariant, PTL DEF StoreInv

\* A redemption stays within the host scope and the lifetime of every lease
\* it descends from, although only the redeemed record is looked at.
THEOREM RedemptionHonoursLine == Spec => LineHonoured
<1> DEFINE Honoured ==
      \A l \in Lease, host \in Host :
        redeemLease(l, host) => \A a \in line[l] :
          /\ now <= issued[a].expiresAt
          /\ issued[a].scope.bind["host"] \in {Unset, host}
<1>1. StoreInv => Honoured
  <2> SUFFICES ASSUME StoreInv, NEW l \in Lease, NEW host \in Host,
                      redeemLease(l, host), NEW a \in line[l]
               PROVE  /\ now <= issued[a].expiresAt
                      /\ issued[a].scope.bind["host"] \in {Unset, host}
    OBVIOUS
  <2> USE DEF StoreInv
  <2>1. /\ Known(l) /\ Issued(l) /\ Issued(a) /\ a \in Lease
        /\ leases[l].expiresAt = issued[l].expiresAt
        /\ leases[l].scope = issued[l].scope
        /\ issued[l].expiresAt <= issued[a].expiresAt
    BY DEF redeemLease, evalLease, Spendable, RecordsImmutable, NeverWiden, TypeOK
  <2>2. /\ now \in Nat /\ issued[l].expiresAt \in Nat /\ issued[a].expiresAt \in Nat
    BY <2>1 DEF TypeOK, Issued, Record
  <2>3. ~ (now > issued[l].expiresAt)
    BY <2>1 DEF redeemLease, evalLease, Spendable, Expired
  <2>4. issued[l].scope.bind["host"] \in {Unset, host}
    BY <2>1 DEF redeemLease, evalLease, HostAllowed
  <2>5. issued[a].scope.bind["host"] \in {Unset, issued[l].scope.bind["host"]}
    BY DEF BindingsKept, BindField
  <2> QED BY <2>1, <2>2, <2>3, <2>4, <2>5
<1>2. StoreInv => [Honoured]_storeVars
  BY <1>1
<1> QED BY <1>2, StoreInvariant, PTL DEF LineHonoured

=============================================================================
