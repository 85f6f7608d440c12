------------------------------ MODULE LeaseProc ------------------------------
(***************************************************************************)
(* The lease operations as processes run them: withLock (LeaseLock) around *)
(* a body that reads leases.json, decides, and writes the file back in     *)
(* place.  readFileSync is one step; writeFileSync is two, a truncation    *)
(* and a write, and a process may be preempted or killed between them.     *)
(* JSON.parse of a truncated file throws, and read() then returns {}.      *)
(*                                                                         *)
(* Which operation a call runs is chosen when it decides; nothing before   *)
(* depends on it.  The vault is LeaseStore's, with every secret sealed; a  *)
(* materialize that returns null is a choice of the redeem.                *)
(***************************************************************************)
EXTENDS LeaseLock, Integers

CONSTANTS Target, Unset, Endpoint, Load, Lease, Secret, None, UseUnit, TTLs,
          UseCounts, Requests, Ceilings, Horizon
CONSTANT Torn  \* leases.json truncated, not yet written

VARIABLES
  file,    \* leases.json: a table [Lease -> record or None], or Torn
  step,    \* how far each process is in the body
  work,    \* the table it read, then the table it writes
  job,     \* what it decided: the operation and the lease
  now,     \* the clock, up to Horizon
  \* history: what callers were told
  issued,  \* the record each lease was minted with
  line,    \* the leases it was delegated from
  served,  \* fractions of uses whose value a caller received
  revoked  \* leases whose revocation was confirmed

bodyVars == <<file, step, work, job, now, issued, line, served, revoked>>
procVars == <<lockVars, bodyVars>>

Sealed == [s \in Secret |-> "sealed"]
Empty == [l \in Lease |-> None]
\* read(): a file that does not parse is an empty table.
Parsed(contents) == IF contents = Torn THEN Empty ELSE contents
NoJob == [op |-> "none", lease |-> None]

\* The definitions of LeaseStore, evaluated on the table a process holds.
On(table) == INSTANCE LeaseStore
  WITH leases <- table, vault <- Sealed, spent <- served

ProcInit ==
  /\ LockInit
  /\ file = Empty
  /\ step = [p \in Proc |-> "read"]
  /\ work = [p \in Proc |-> Empty]
  /\ job = [p \in Proc |-> NoJob]
  /\ now = 0
  /\ issued = Empty
  /\ line = [l \in Lease |-> {}]
  /\ served = [l \in Lease |-> 0]
  /\ revoked = {}

-----------------------------------------------------------------------------
(* The body of the section.                                                *)

At(p, s) == pc[p] = "crit" /\ step[p] = s
GotoStep(p, s) == step' = [step EXCEPT ![p] = s]

ReadFile(p) ==
  /\ At(p, "read")
  /\ work' = [work EXCEPT ![p] = Parsed(file)]
  /\ GotoStep(p, "decide")
  /\ UNCHANGED <<lockVars, file, job, now, issued, line, served, revoked>>

\* The operation `op` on lease `l` succeeds and will write `table`.
Commit(p, op, l, table) ==
  /\ work' = [work EXCEPT ![p] = table]
  /\ job' = [job EXCEPT ![p] = [op |-> op, lease |-> l]]
  /\ GotoStep(p, "truncate")
  /\ UNCHANGED <<lockVars, file, now, served, revoked>>

\* Mutant: the mint does not prune.
StoreRecord_keepsAll(p, l, rec, ancestors) ==
  /\ issued[l] = None
  /\ Commit(p, "mint", l, [work[p] EXCEPT ![l] = rec])
  /\ issued' = [issued EXCEPT ![l] = rec]
  /\ line' = [line EXCEPT ![l] = ancestors]

StoreRecord(p, l, rec, ancestors) ==
  /\ issued[l] = None
  /\ Commit(p, "mint", l, [On(work[p])!Pruned EXCEPT ![l] = rec])
  /\ issued' = [issued EXCEPT ![l] = rec]
  /\ line' = [line EXCEPT ![l] = ancestors]

DecideMint(p) ==
  /\ At(p, "decide")
  /\ \E l \in Lease, s \in Secret, r \in Requests, ttl \in TTLs, uses \in UseCounts,
        c \in Ceilings :
       /\ On(work[p])!UnderCeiling(c, ttl, uses)
       /\ StoreRecord(p, l, [secret |-> s, scope |-> r, expiresAt |-> now + ttl,
                             usesLeft |-> uses, parent |-> None], {})

DecideAttenuate(p) ==
  /\ At(p, "decide")
  /\ \E l, parent \in Lease, r \in Requests, c \in Ceilings :
       /\ On(work[p])!Spendable(parent)
       /\ On(work[p])!ScopeAccepted(work[p][parent].scope, r)
       /\ \E ttl \in On(work[p])!ChildTTLs(parent), uses \in On(work[p])!ChildUses(parent) :
            /\ On(work[p])!UnderCeiling(c, ttl, uses)
            /\ StoreRecord(p, l,
                 [secret |-> work[p][parent].secret,
                  scope |-> On(work[p])!Narrow(work[p][parent].scope, r),
                  expiresAt |-> now + ttl, usesLeft |-> uses, parent |-> parent],
                 line[parent] \cup {parent})

\* Mutant: the use is not consumed.
DecideRedeem_free(p) ==
  /\ At(p, "decide")
  /\ \E l \in Lease, host \in Target \cup {Unset} :
       On(work[p])!evalLease(l, host) /\ Commit(p, "redeem", l, work[p])
  /\ UNCHANGED <<issued, line>>

DecideRedeem(p) ==
  /\ At(p, "decide")
  /\ \E l \in Lease, host \in Target \cup {Unset} :
       /\ On(work[p])!evalLease(l, host)
       /\ Commit(p, "redeem", l, [work[p] EXCEPT ![l].usesLeft = @ - UseUnit])
  /\ UNCHANGED <<issued, line>>

\* Mutant: the record stays.
DecideRevoke_keeps(p) ==
  /\ At(p, "decide")
  /\ \E l \in Lease :
       Commit(p, IF On(work[p])!Known(l) THEN "revoke" ELSE "rewrite", l, work[p])
  /\ UNCHANGED <<issued, line>>

\* Revoking an unknown lease answers false and rewrites the table as it was.
DecideRevoke(p) ==
  /\ At(p, "decide")
  /\ \E l \in Lease :
       Commit(p, IF On(work[p])!Known(l) THEN "revoke" ELSE "rewrite", l,
              [work[p] EXCEPT ![l] = None])
  /\ UNCHANGED <<issued, line>>

\* A denial, a failed decrypt or a rejected mint: nothing is written.
DecideDeny(p) ==
  /\ At(p, "decide")
  /\ GotoStep(p, "leave")
  /\ UNCHANGED <<lockVars, file, work, job, now, issued, line, served, revoked>>

\* writeFileSync: O_TRUNC, then the contents.
Truncate(p) ==
  /\ At(p, "truncate")
  /\ file' = Torn
  /\ GotoStep(p, "write")
  /\ UNCHANGED <<lockVars, work, job, now, issued, line, served, revoked>>

WriteFile(p) ==
  /\ At(p, "write")
  /\ file' = work[p]
  /\ GotoStep(p, "leave")
  /\ UNCHANGED <<lockVars, work, job, now, issued, line, served, revoked>>

\* A process outside its section holds nothing.
Forget(p) ==
  /\ step' = [step EXCEPT ![p] = "read"]
  /\ work' = [work EXCEPT ![p] = Empty]
  /\ job' = [job EXCEPT ![p] = NoJob]

\* The finally releases the lock and the caller gets its answer.
Leave(p) ==
  /\ At(p, "leave")
  /\ Release(p)
  /\ Forget(p)
  /\ served' = IF job[p].op = "redeem"
               THEN [served EXCEPT ![job[p].lease] = @ + UseUnit] ELSE served
  /\ revoked' = IF job[p].op = "revoke" THEN revoked \cup {job[p].lease} ELSE revoked
  /\ UNCHANGED <<file, now, issued, line>>

Die(p) ==
  /\ Crash(p)
  /\ Forget(p)
  /\ UNCHANGED <<file, now, issued, line, served, revoked>>

Wait(p) ==
  /\ Call(p) \/ Acquire(p) \/ Waiting(p)
  /\ UNCHANGED bodyVars

Body(p) ==
  \/ ReadFile(p)
  \/ DecideMint(p) \/ DecideAttenuate(p) \/ DecideRedeem(p) \/ DecideRevoke(p)
  \/ DecideDeny(p)
  \/ Truncate(p) \/ WriteFile(p) \/ Leave(p)

ProcTick ==
  /\ LockTick
  /\ now' = IF now < Horizon THEN now + 1 ELSE now
  /\ UNCHANGED <<file, step, work, job, issued, line, served, revoked>>

ProcNext ==
  \/ \E p \in Proc : Wait(p) \/ Body(p) \/ Die(p)
  \/ ProcTick

ProcSpec == ProcInit /\ [][ProcNext]_procVars

-----------------------------------------------------------------------------
(* Properties.                                                             *)

\* A decision takes effect when it is made: until its process has left, the
\* table is the one about to be written, and its answer counts as given.
Decided(p) == pc[p] = "crit" /\ step[p] \in {"truncate", "write", "leave"} /\ job[p] # NoJob
Pending(op) == {p \in Proc : Decided(p) /\ job[p].op = op}

StoreTable ==
  IF \E p \in Proc : Decided(p) THEN work[CHOOSE p \in Proc : Decided(p)] ELSE Parsed(file)
SpentSoFar ==
  [l \in Lease |->
    served[l] + UseUnit * Cardinality({p \in Pending("redeem") : job[p].lease = l})]
RevokedSoFar == revoked \cup {job[p].lease : p \in Pending("revoke")}

Store == INSTANCE LeaseStore
  WITH leases <- StoreTable, vault <- Sealed, spent <- SpentSoFar, revoked <- RevokedSoFar

\* What the body needs of its constants: those of LeaseStore are what they are
\* there, and a torn file is not a table.
ASSUME BodyAssumption ==
  /\ UseUnit \in Nat \ {0}
  /\ TTLs \subseteq Nat \ {0} /\ UseCounts \subseteq Nat \ {0}
  /\ Requests \subseteq Store!Scope
  /\ None \notin Lease /\ None \notin Store!Record
  /\ Torn \notin [Lease -> Store!Record \cup {None}]

\* Processes interleaving their system calls look like LeaseStore, where each
\* operation is one step.  A kill is the only other step: it may lose an
\* operation that was not answered yet, and with a torn file the whole table,
\* but what the processes do afterwards is again what LeaseStore allows.
ImplementsStore ==
  /\ Store!Init
  /\ [][Store!Next \/ crashes' # crashes]_(Store!storeVars)

\* No lease hands out more than it was granted, also when a process is killed
\* between any two of its steps.
NoDoubleSpend ==
  \A l \in Lease : issued[l] # None => served[l] < issued[l].usesLeft + UseUnit

\* Once a revocation was confirmed, no redeem of that lease succeeds.
RevocationSticks ==
  [][\A l \in revoked : served'[l] = served[l]]_procVars
=============================================================================
