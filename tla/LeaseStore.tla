----------------------------- MODULE LeaseStore -----------------------------
(***************************************************************************)
(* The lease store as its callers see it: every operation of               *)
(* src/lease.mjs as one atomic step on leases.json, together with the part *)
(* of the vault the operations consult.  This is the promise withLock is   *)
(* there to keep; LeaseProc refines it with the lock and the file.         *)
(*                                                                         *)
(* Time is a natural number; a lease is expired when now > expiresAt.      *)
(* Uses are counted in fractions of 1/UseUnit because mintLease accepts    *)
(* any finite positive number: --uses 1.5 leaves half a use after one      *)
(* redeem, and that half still passes the usesLeft <= 0 test.              *)
(***************************************************************************)
EXTENDS Attenuation, Integers, FiniteSets

CONSTANTS
  Lease,      \* lease ids (144-bit random, never repeated)
  Secret,     \* secret names
  None,       \* no record; no parent
  UseUnit,    \* how many fractions make one use
  TTLs,       \* lifetimes a caller asks for
  UseCounts,  \* numbers of uses a caller asks for, in fractions
  Requests,   \* scopes a caller asks for
  Ceilings,   \* KEEPER_MAX_TTL / KEEPER_MAX_USES of the calling process, 0 = unset
  Horizon     \* bound on the clock

ASSUME UseUnitAssumption == UseUnit \in Nat \ {0}
ASSUME RequestAssumption ==
  /\ TTLs \subseteq Nat \ {0}
  /\ UseCounts \subseteq Nat \ {0}
  /\ Requests \subseteq Scope
  /\ Ceilings \subseteq [ttl : Nat, uses : Nat]
  /\ Horizon \in Nat

VARIABLES
  now,       \* the clock
  vault,     \* [Secret -> state of its vault record]
  leases,    \* leases.json: [Lease -> record or None]
  \* history, not in the code:
  issued,    \* the record each lease was minted with
  line,      \* the leases it was delegated from, transitively
  spent,     \* fractions of uses redeemed so far
  revoked    \* leases that were revoked

storeVars == <<now, vault, leases, issued, line, spent, revoked>>

\* "broken": a record that does not decrypt under the current master key.
SecretState == {"absent", "sealed", "broken"}

Record == [secret : Secret, scope : Scope, expiresAt : Nat, usesLeft : Int,
           parent : Lease \cup {None}]

ASSUME NoneAssumption == None \notin Lease /\ None \notin Record

Host == Target \cup {Unset}

TypeOK ==
  /\ now \in Nat
  /\ vault \in [Secret -> SecretState]
  /\ leases \in [Lease -> Record \cup {None}]
  /\ issued \in [Lease -> Record \cup {None}]
  /\ line \in [Lease -> SUBSET Lease]
  /\ spent \in [Lease -> Nat]
  /\ revoked \subseteq Lease

Init ==
  /\ now = 0
  /\ vault \in [Secret -> {"absent", "sealed"}]
  /\ leases = [l \in Lease |-> None]
  /\ issued = [l \in Lease |-> None]
  /\ line = [l \in Lease |-> {}]
  /\ spent = [l \in Lease |-> 0]
  /\ revoked = {}

-----------------------------------------------------------------------------
(* evalLease, peekLease and the pruning loop of every mint.                *)

Known(l) == leases[l] # None
Expired(l) == now > leases[l].expiresAt

\* Mutant: one more redeem at zero.
Exhausted_below(l) == leases[l].usesLeft < 0

Exhausted(l) == leases[l].usesLeft <= 0

\* Mutant: a caller that names no host passes the host check.
HostAllowed_missing(l, host) ==
  host = Unset \/ leases[l].scope.bind["host"] \in {Unset, host}

HostAllowed(l, host) == leases[l].scope.bind["host"] \in {Unset, host}

Spendable(l) == Known(l) /\ ~Expired(l) /\ ~Exhausted(l)
evalLease(l, host) == Spendable(l) /\ HostAllowed(l, host)

\* Mutant: pruned one instant too early.
Pruned_early ==
  [l \in Lease |-> IF Known(l) /\ now >= leases[l].expiresAt THEN None ELSE leases[l]]

Pruned == [l \in Lease |-> IF Known(l) /\ Expired(l) THEN None ELSE leases[l]]

\* The record `rec` enters leases.json under the fresh id `l`.
Store(l, rec, ancestors) ==
  /\ leases' = [Pruned EXCEPT ![l] = rec]
  /\ issued' = [issued EXCEPT ![l] = rec]
  /\ line' = [line EXCEPT ![l] = ancestors]
  /\ UNCHANGED <<now, vault, spent, revoked>>

UnderCeiling(c, ttl, uses) ==
  /\ c.ttl = 0 \/ ttl <= c.ttl
  /\ c.uses = 0 \/ uses <= c.uses

-----------------------------------------------------------------------------
(* Operations.  A call the code rejects changes nothing and is not a step. *)
(* A removal between grant's hasSecret and its mint leaves the same state   *)
(* as a removal after the mint, so the two are one step here.              *)

\* grant: hasSecret, then mintLease.
mintLease(l, s, r, ttl, uses, c) ==
  /\ issued[l] = None
  /\ vault[s] # "absent"
  /\ UnderCeiling(c, ttl, uses)
  /\ Store(l, [secret |-> s, scope |-> r, expiresAt |-> now + ttl,
               usesLeft |-> uses, parent |-> None], {})

\* attenuateLease.  An omitted --ttl or --uses takes the parent's remainder.
RemainingTTL(p) == leases[p].expiresAt - now
ChildTTLs(p) == {t \in TTLs : t <= RemainingTTL(p)} \cup {RemainingTTL(p)}

\* Mutant: the parent's remaining uses are not a ceiling.
ChildUses_any(p) == UseCounts \cup {leases[p].usesLeft}

ChildUses(p) == {u \in UseCounts : u <= leases[p].usesLeft} \cup {leases[p].usesLeft}

attenuateLease(l, p, r, ttl, uses, c) ==
  /\ issued[l] = None
  /\ Spendable(p)
  /\ ttl \in ChildTTLs(p)
  /\ uses \in ChildUses(p)
  /\ UnderCeiling(c, ttl, uses)
  /\ ScopeAccepted(leases[p].scope, r)
  /\ Store(l, [secret |-> leases[p].secret, scope |-> Narrow(leases[p].scope, r),
               expiresAt |-> now + ttl, usesLeft |-> uses, parent |-> p],
           line[p] \cup {p})

\* redeemLease with getSecret as materialize: a secret that is gone or does
\* not decrypt yields null, and the use is not consumed.
Materializes(l) == vault[leases[l].secret] = "sealed"

\* Mutant: the record is replaced by its new count.
redeemLease_replaces(l, host) ==
  /\ evalLease(l, host)
  /\ Materializes(l)
  /\ leases' = [leases EXCEPT ![l] = [usesLeft |-> @.usesLeft - UseUnit]]
  /\ spent' = [spent EXCEPT ![l] = @ + UseUnit]
  /\ UNCHANGED <<now, vault, issued, line, revoked>>

redeemLease(l, host) ==
  /\ evalLease(l, host)
  /\ Materializes(l)
  /\ leases' = [leases EXCEPT ![l].usesLeft = @ - UseUnit]
  /\ spent' = [spent EXCEPT ![l] = @ + UseUnit]
  /\ UNCHANGED <<now, vault, issued, line, revoked>>

\* revokeLease and revokeLeaseByHash: the same deletion, by id or by its hash.
revokeLease(l) ==
  /\ Known(l)
  /\ leases' = [leases EXCEPT ![l] = None]
  /\ revoked' = revoked \cup {l}
  /\ UNCHANGED <<now, vault, issued, line, spent>>

\* addSecret replaces whatever the name held; leases name secrets, so a lease
\* minted for an earlier value redeems the new one.
addSecret(s) ==
  /\ vault' = [vault EXCEPT ![s] = "sealed"]
  /\ UNCHANGED <<now, leases, issued, line, spent, revoked>>

removeSecret(s) ==
  /\ vault' = [vault EXCEPT ![s] = "absent"]
  /\ UNCHANGED <<now, leases, issued, line, spent, revoked>>

\* The record is tampered with, or sealed under a key this process lacks.
BreakSecret(s) ==
  /\ vault[s] = "sealed"
  /\ vault' = [vault EXCEPT ![s] = "broken"]
  /\ UNCHANGED <<now, leases, issued, line, spent, revoked>>

Tick ==
  /\ now < Horizon
  /\ now' = now + 1
  /\ UNCHANGED <<vault, leases, issued, line, spent, revoked>>

Mint == \E l \in Lease, s \in Secret, r \in Requests, ttl \in TTLs,
           uses \in UseCounts, c \in Ceilings : mintLease(l, s, r, ttl, uses, c)
Attenuate == \E l, p \in Lease, r \in Requests, c \in Ceilings :
               /\ Spendable(p)
               /\ \E ttl \in ChildTTLs(p), uses \in ChildUses(p) :
                    attenuateLease(l, p, r, ttl, uses, c)
Redeem == \E l \in Lease, host \in Host : redeemLease(l, host)
Revoke == \E l \in Lease : revokeLease(l)
ChangeVault == \E s \in Secret : addSecret(s) \/ removeSecret(s) \/ BreakSecret(s)

Next == Mint \/ Attenuate \/ Redeem \/ Revoke \/ ChangeVault \/ Tick

Spec == Init /\ [][Next]_storeVars

-----------------------------------------------------------------------------
(* Properties.                                                             *)

Issued(l) == issued[l] # None

\* A lease never yields more than it was granted: while its record exists,
\* what was redeemed and what is left add up to the grant, and a lease whose
\* record is gone was never overspent either.  Only the last redeem may dip
\* below zero, by the fraction a non-integer --uses leaves.
UsesConserved ==
  \A l \in Lease : Issued(l) =>
    /\ Known(l) => spent[l] + leases[l].usesLeft = issued[l].usesLeft
    /\ spent[l] < issued[l].usesLeft + UseUnit

\* Delegation never widens, at any depth: a lease permits no egress use, no
\* later moment, no larger number of uses and no other secret than any lease
\* in its line was minted with.
NeverWiden ==
  \A l \in Lease : \A a \in line[l] :
    /\ Issued(l) /\ Issued(a)
    /\ Within(issued[l].scope, issued[a].scope)
    /\ issued[l].expiresAt <= issued[a].expiresAt
    /\ issued[l].usesLeft <= issued[a].usesLeft
    /\ issued[l].secret = issued[a].secret

\* A minted lease can only disappear from leases.json by expiring or by being
\* revoked: no mint, delegation or redeem drops somebody else's live lease.
OnlyDeadLeasesVanish ==
  \A l \in Lease : Issued(l) /\ ~Known(l) => l \in revoked \/ now > issued[l].expiresAt

\* A redemption respects the host scope and the lifetime of every lease in
\* the line, although evalLease looks at the redeemed record alone.
LineHonoured ==
  [][\A l \in Lease, host \in Host :
       redeemLease(l, host) => \A a \in line[l] :
         /\ now <= issued[a].expiresAt
         /\ issued[a].scope.bind["host"] \in {Unset, host}]_storeVars
=============================================================================
