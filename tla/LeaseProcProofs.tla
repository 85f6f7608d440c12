--------------------------- MODULE LeaseProcProofs ---------------------------
(***************************************************************************)
(* Proofs about the lease lock and about the lease store as processes run  *)
(* it under that lock, for any number of processes, tries, leases, uses    *)
(* and kills.                                                              *)
(*                                                                         *)
(* The lock: its theorems name the two assumptions it rests on, that a     *)
(* section is no longer than the staleness bound and that no holder was    *)
(* killed yet, so that no lockfile was ever reclaimed.  Types, and with    *)
(* them the bound on the tries, need neither.                              *)
(*                                                                         *)
(* The store: interleaved system calls on leases.json implement the atomic *)
(* operations of LeaseStore, and neither uses nor revocations are lost for *)
(* a caller that was answered.  The hypothesis is what the lock is there   *)
(* for, that two processes are never inside a section at once.  It holds   *)
(* until a killed holder's lockfile is reclaimed by two waiters at once,   *)
(* so kills inside a section, and the torn files they leave, are covered.  *)
(***************************************************************************)
EXTENDS LeaseProc, FiniteSetTheorems, TLAPS

-----------------------------------------------------------------------------
(* The lock.                                                               *)

\* The lockfile of a process inside its section is as old as the section.
AgeIsHold ==
  \A p \in Proc : pc[p] = "crit" /\ lock # NoFile /\ lock.by = p => lock.age = hold[p]

\* A process still in the acquire loop has tries left.
TriesLeft ==
  \A p \in Proc : pc[p] \in {"open", "stat", "unlink", "sleep"} => tries[p] < MaxTries

LoopInv == LockTypeOK /\ TriesLeft

AgeInv == LoopInv /\ AgeIsHold

\* Until a holder is killed, the lockfile and the process inside determine
\* each other, and nobody reclaims.
OwnerInv ==
  ~orphaned =>
    /\ \A p \in Proc : pc[p] = "crit" => lock # NoFile /\ lock.by = p
    /\ lock # NoFile => pc[lock.by] = "crit"
    /\ \A p \in Proc : pc[p] # "unlink"

-----------------------------------------------------------------------------

LEMMA InitAge == LockInit => AgeInv
<1> SUFFICES ASSUME LockInit
             PROVE  AgeInv
    OBVIOUS
<1>1. orphaned \in BOOLEAN
  BY DEF LockInit
<1>2. lock \in [age : Age, by : Proc] \cup {NoFile} /\ pc \in [Proc -> Stage]
  BY DEF LockInit, Stage
<1>3. tries \in [Proc -> 0 .. MaxTries] /\ hold \in [Proc -> 0 .. MaxHold]
      /\ crashes \in 0 .. MaxCrashes
  BY LockAssumption DEF LockInit
<1>4. AgeIsHold /\ TriesLeft
  BY DEF LockInit, AgeIsHold, TriesLeft
<1> QED BY <1>1, <1>2, <1>3, <1>4 DEF AgeInv, LoopInv, LockTypeOK

\* What a tick makes of the lockfile.
LEMMA TickLock ==
  ASSUME LockTypeOK, LockTick
  PROVE  /\ lock' \in [age : Age, by : Proc] \cup {NoFile}
         /\ \/ lock' = lock /\ (lock = NoFile \/ Stale)
            \/ /\ lock # NoFile /\ lock' # NoFile
               /\ lock'.age = lock.age + 1 /\ lock'.by = lock.by
<1> USE LockAssumption DEF LockTypeOK
<1>1. CASE lock = NoFile \/ Stale
  BY <1>1 DEF LockTick
<1>2. CASE lock # NoFile /\ ~Stale
  <2>1. lock \in [age : Age, by : Proc] /\ lock.age \in Age /\ ~(lock.age > StaleAfter)
    BY <1>2 DEF Stale
  <2>2. lock' = [lock EXCEPT !.age = @ + 1]
    BY <1>2 DEF LockTick
  <2>3. lock' \in [age : Age, by : Proc] /\ lock'.age = lock.age + 1 /\ lock'.by = lock.by
    BY <2>1, <2>2 DEF Age
  <2>4. lock' \in [age : Nat, by : Proc]
    BY <2>3 DEF Age
  <2> QED BY <1>2, <2>3, <2>4
<1> QED BY <1>1, <1>2

LEMMA StepLoop ==
  ASSUME LoopInv, [LockNext]_lockVars
  PROVE  LoopInv'
<1> USE LockAssumption DEF LoopInv, LockTypeOK, TriesLeft, Goto, Stage
<1>1. ASSUME NEW p \in Proc, Call(p)
      PROVE  LoopInv'
  BY <1>1 DEF Call
<1>2. ASSUME NEW p \in Proc, Acquire(p)
      PROVE  LoopInv'
  BY <1>2 DEF Acquire, Age
<1>3. ASSUME NEW p \in Proc, Busy(p) \/ Stat(p) \/ Reclaim(p)
      PROVE  LoopInv'
  BY <1>3 DEF Busy, Stat, Reclaim
<1>4. ASSUME NEW p \in Proc, Retry(p)
      PROVE  LoopInv'
  <2>1. tries[p] \in 0 .. MaxTries /\ tries[p] < MaxTries
    BY <1>4 DEF Retry
  <2>2. tries[p] + 1 \in 0 .. MaxTries
    BY <2>1
  <2> QED BY <1>4, <2>2 DEF Retry
<1>5. ASSUME NEW p \in Proc, Release(p)
      PROVE  LoopInv'
  BY <1>5 DEF Release
<1>6. ASSUME NEW p \in Proc, Crash(p)
      PROVE  LoopInv'
  <2>1. crashes' \in 0 .. MaxCrashes
    BY <1>6 DEF Crash
  <2> QED BY <1>6, <2>1 DEF Crash
<1>7. CASE LockTick
  <2>1. lock' \in [age : Age, by : Proc] \cup {NoFile}
    BY <1>7, TickLock
  <2>2. ASSUME NEW p \in Proc
        PROVE  (IF pc[p] = "crit" THEN hold[p] + 1 ELSE hold[p]) \in 0 .. MaxHold
    <3>1. hold[p] \in 0 .. MaxHold /\ (pc[p] = "crit" => hold[p] < MaxHold)
      BY <1>7, <2>2 DEF LockTick
    <3> QED BY <3>1
  <2>3. hold' \in [Proc -> 0 .. MaxHold]
    BY <1>7, <2>2 DEF LockTick
  <2> QED BY <1>7, <2>1, <2>3 DEF LockTick
<1>8. CASE UNCHANGED lockVars
  BY <1>8 DEF lockVars
<1> QED BY <1>1, <1>2, <1>3, <1>4, <1>5, <1>6, <1>7, <1>8
        DEF LockNext, LockStep, Waiting

\* The state of the lock is well typed; in particular a call makes no more
\* than MaxTries attempts and leaves the loop with its last one.
THEOREM LockIsTyped == LockSpec => []LockTypeOK
<1>1. LockInit => LoopInv
  BY InitAge DEF AgeInv
<1>2. LoopInv => LockTypeOK
  BY DEF LoopInv
<1> QED BY <1>1, <1>2, StepLoop, PTL DEF LockSpec

LEMMA TickAge ==
  ASSUME AgeInv, LockTick, MaxHold <= StaleAfter
  PROVE  AgeIsHold'
<1> USE LockAssumption DEF AgeInv, LoopInv, LockTypeOK
<1> SUFFICES ASSUME NEW p \in Proc, pc[p] = "crit", lock' # NoFile, lock'.by = p
             PROVE  lock'.age = hold'[p]
  BY DEF AgeIsHold, LockTick
<1>1. hold'[p] = hold[p] + 1 /\ hold[p] \in 0 .. MaxHold
  BY DEF LockTick
<1>2. CASE lock' = lock /\ (lock = NoFile \/ Stale)
  <2>1. lock.age = hold[p] /\ lock.age > StaleAfter
    BY <1>2 DEF AgeIsHold, Stale
  <2> QED BY <1>1, <2>1
<1>3. CASE lock # NoFile /\ lock'.age = lock.age + 1 /\ lock'.by = lock.by
  BY <1>1, <1>3 DEF AgeIsHold
<1> QED BY <1>2, <1>3, TickLock

LEMMA StepAge ==
  ASSUME MaxHold <= StaleAfter
  PROVE  AgeInv /\ [LockNext]_lockVars => AgeInv'
<1> SUFFICES ASSUME AgeInv, [LockNext]_lockVars
             PROVE  AgeIsHold'
    BY StepLoop DEF AgeInv
<1> USE LockAssumption DEF AgeInv, LoopInv, LockTypeOK, AgeIsHold, Goto
<1>1. ASSUME NEW p \in Proc, Call(p) \/ Busy(p) \/ Stat(p) \/ Reclaim(p) \/ Retry(p)
      PROVE  AgeIsHold'
  BY <1>1 DEF Call, Busy, Stat, Reclaim, Retry
<1>2. ASSUME NEW p \in Proc, Acquire(p)
      PROVE  AgeIsHold'
  BY <1>2 DEF Acquire, Age
<1>3. ASSUME NEW p \in Proc, Release(p) \/ Crash(p)
      PROVE  AgeIsHold'
  BY <1>3 DEF Release, Crash
<1>4. CASE LockTick
  BY <1>4, TickAge
<1>5. CASE UNCHANGED lockVars
  BY <1>5 DEF lockVars
<1> QED BY <1>1, <1>2, <1>3, <1>4, <1>5 DEF LockNext, LockStep, Waiting

LEMMA AgeOfStale ==
  ASSUME MaxHold <= StaleAfter, AgeInv
  PROVE  StaleIsOrphan
<1> SUFFICES ASSUME Stale, pc[lock.by] = "crit"
             PROVE  FALSE
  BY DEF StaleIsOrphan, Orphan, Stale
<1>1. lock # NoFile /\ lock.by \in Proc /\ lock.age > StaleAfter
  BY DEF Stale, AgeInv, LoopInv, LockTypeOK
<1>2. lock.age = hold[lock.by] /\ hold[lock.by] \in 0 .. MaxHold
  BY <1>1 DEF AgeInv, LoopInv, LockTypeOK, AgeIsHold
<1> QED BY <1>1, <1>2, LockAssumption

\* However many processes are killed and replaced: as long as no section
\* outlasts the staleness bound, a stale lockfile is never a live one.
THEOREM StaleLockIsOrphan ==
  ASSUME MaxHold <= StaleAfter
  PROVE  LockSpec => []StaleIsOrphan
<1>1. AgeInv => StaleIsOrphan
  BY AgeOfStale
<1> QED BY <1>1, InitAge, StepAge, PTL DEF LockSpec

-----------------------------------------------------------------------------

LEMMA InitOwner == LockInit => OwnerInv
BY DEF LockInit, OwnerInv

LEMMA StepOwner ==
  LockTypeOK /\ StaleIsOrphan /\ OwnerInv /\ [LockNext]_lockVars => OwnerInv'
<1> SUFFICES ASSUME LockTypeOK, StaleIsOrphan, OwnerInv, [LockNext]_lockVars
             PROVE  OwnerInv'
    OBVIOUS
<1> USE DEF OwnerInv, LockTypeOK, Goto
<1>1. ASSUME NEW p \in Proc, Call(p) \/ Busy(p) \/ Retry(p)
      PROVE  OwnerInv'
  BY <1>1 DEF Call, Busy, Retry
<1>2. ASSUME NEW p \in Proc, Acquire(p)
      PROVE  OwnerInv'
  <2>1. lock' # NoFile
    BY <1>2, LockAssumption DEF Acquire
  <2> QED BY <1>2, <2>1 DEF Acquire
<1>3. ASSUME NEW p \in Proc, Stat(p)
      PROVE  OwnerInv'
  BY <1>3 DEF Stat, StaleIsOrphan, Orphan, Stale
<1>4. ASSUME NEW p \in Proc, Reclaim(p)
      PROVE  OwnerInv'
  BY <1>4 DEF Reclaim
<1>5. ASSUME NEW p \in Proc, Release(p)
      PROVE  OwnerInv'
  BY <1>5 DEF Release
<1>6. ASSUME NEW p \in Proc, Crash(p)
      PROVE  OwnerInv'
  BY <1>6 DEF Crash
<1>7. CASE LockTick
  <2>1. pc' = pc /\ orphaned' = orphaned
    BY <1>7 DEF LockTick
  <2>2. (lock' = NoFile <=> lock = NoFile) /\ (lock # NoFile => lock'.by = lock.by)
    BY <1>7, TickLock
  <2> QED BY <2>1, <2>2
<1>8. CASE UNCHANGED lockVars
  BY <1>8 DEF lockVars
<1> QED BY <1>1, <1>2, <1>3, <1>4, <1>5, <1>6, <1>7, <1>8
        DEF LockNext, LockStep, Waiting

\* If no section outlasts the staleness bound, at most one process is inside a
\* section until a holder is killed.
THEOREM LockIsExclusive ==
  ASSUME MaxHold <= StaleAfter
  PROVE  LockSpec => []MutualExclusion
<1>1. OwnerInv => MutualExclusion
  BY DEF OwnerInv, MutualExclusion
<1> QED BY <1>1, LockIsTyped, InitOwner, StepOwner, StaleLockIsOrphan, PTL DEF LockSpec

-----------------------------------------------------------------------------
(* What is left after a holder was killed: sections still exclude each     *)
(* other unless a waiter unlinks the lockfile of a live holder.            *)

\* Two processes are never inside a section at once.
Exclusive == \A p, q \in Proc : pc[p] = "crit" /\ pc[q] = "crit" => p = q

\* A process inside its section owns the lockfile.
HolderOwns == \A p \in Proc : pc[p] = "crit" => lock # NoFile /\ lock.by = p

\* What is unlinked by a waiter is gone already or belongs to nobody.
ReclaimsOrphans == [][\A p \in Proc : Reclaim(p) => lock = NoFile \/ Orphan]_lockVars

LEMMA StepHolder ==
  ASSUME LoopInv, HolderOwns, LockNext,
         \A p \in Proc : Reclaim(p) => lock = NoFile \/ Orphan
  PROVE  HolderOwns'
<1> USE DEF HolderOwns, LoopInv, LockTypeOK, Goto
<1>1. ASSUME NEW p \in Proc, Call(p) \/ Busy(p) \/ Stat(p) \/ Retry(p)
      PROVE  HolderOwns'
  BY <1>1 DEF Call, Busy, Stat, Retry
<1>2. ASSUME NEW p \in Proc, Acquire(p)
      PROVE  HolderOwns'
  <2>1. lock' # NoFile
    BY <1>2, LockAssumption DEF Acquire
  <2> QED BY <1>2, <2>1 DEF Acquire
<1>3. ASSUME NEW p \in Proc, Reclaim(p)
      PROVE  HolderOwns'
  <2>1. \A q \in Proc : pc[q] # "crit"
    BY <1>3 DEF Orphan
  <2> QED BY <1>3, <2>1 DEF Reclaim
<1>4. ASSUME NEW p \in Proc, Release(p) \/ Crash(p)
      PROVE  HolderOwns'
  BY <1>4 DEF Release, Crash
<1>5. CASE LockTick
  BY <1>5, TickLock DEF LockTick
<1> QED BY <1>1, <1>2, <1>3, <1>4, <1>5 DEF LockNext, LockStep, Waiting

\* The one way two processes get inside a section at once is that a waiter,
\* having judged an orphan stale, unlinks the file of the next holder.
THEOREM OnlyReclaimsRace ==
  LockInit /\ [][LockNext]_lockVars /\ ReclaimsOrphans => []Exclusive
<1>1. LockInit => LoopInv /\ HolderOwns
  BY InitAge DEF AgeInv, LockInit, HolderOwns
<1>2. LoopInv /\ HolderOwns /\ [LockNext]_lockVars
        /\ [\A p \in Proc : Reclaim(p) => lock = NoFile \/ Orphan]_lockVars
      => LoopInv' /\ HolderOwns'
  <2>1. CASE UNCHANGED lockVars
    BY <2>1, StepLoop DEF lockVars, HolderOwns
  <2>2. CASE lockVars' # lockVars
    BY <2>2, StepLoop, StepHolder
  <2> QED BY <2>1, <2>2
<1>3. HolderOwns => Exclusive
  BY DEF HolderOwns, Exclusive
<1> QED BY <1>1, <1>2, <1>3, PTL DEF ReclaimsOrphans

-----------------------------------------------------------------------------
(* The store on disk.                                                      *)

Entry == Store!Record \cup {None}
Table == [Lease -> Entry]
BodyStep == {"read", "decide", "truncate", "write", "leave"}
Operation == {"mint", "redeem", "revoke", "rewrite"}

BodyTypeOK ==
  /\ file \in Table \cup {Torn}
  /\ step \in [Proc -> BodyStep]
  /\ work \in [Proc -> Table]
  /\ job \in [Proc -> [op : Operation, lease : Lease] \cup {NoJob}]
  /\ now \in Nat
  /\ issued \in Table
  /\ line \in [Lease -> SUBSET Lease]
  /\ served \in [Lease -> Nat]
  /\ revoked \subseteq Lease

\* Where a process is in its body, and what it then holds: a decision is taken
\* on the table the file still holds, and a process that leaves after one has
\* written the table it decided.
Control ==
  \A p \in Proc :
    /\ pc[p] # "crit" => step[p] = "read"
    /\ step[p] \in {"read", "decide"} => job[p] = NoJob
    /\ step[p] \in {"truncate", "write"} => job[p] # NoJob
    /\ step[p] = "decide" => work[p] = Parsed(file)
    /\ step[p] = "leave" /\ job[p] # NoJob => file = work[p]

\* What lease `l` has yielded once the decision of `p` is answered.
Redeems(p, l) == job[p].op = "redeem" /\ job[p].lease = l
Owed(p) == [l \in Lease |-> IF Redeems(p, l) THEN served[l] + UseUnit ELSE served[l]]

\* A table never offers more than what the grants leave after `yielded`.
Covered(table, yielded) ==
  \A l \in Lease : table[l] # None =>
    issued[l] # None /\ yielded[l] + table[l].usesLeft <= issued[l].usesLeft

\* Both the file, which a kill may bring back into force, and the table that
\* is about to replace it, are covered.
Accounts ==
  /\ \A l \in Lease : issued[l] = None => served[l] = 0
  /\ NoDoubleSpend
  /\ Covered(Parsed(file), served)
  /\ \A p \in Proc : Decided(p) =>
       /\ Covered(work[p], Owed(p))
       /\ \A l \in Lease : Redeems(p, l) =>
            issued[l] # None /\ served[l] < issued[l].usesLeft

\* A revoked lease is in no table any more, and nobody is redeeming it.
Gone(table, l) == issued[l] # None /\ table[l] = None
Revocations ==
  /\ \A l \in revoked : Gone(Parsed(file), l)
  /\ \A p \in Proc : Decided(p) =>
       /\ \A l \in revoked : Gone(work[p], l) /\ ~Redeems(p, l)
       /\ job[p].op = "revoke" => Gone(work[p], job[p].lease)

BodyInv == LoopInv /\ BodyTypeOK /\ Control /\ Accounts /\ Revocations

-----------------------------------------------------------------------------
(* Data.                                                                   *)

LEMMA JobFacts ==
  /\ NoJob.op \notin Operation
  /\ NoJob \notin [op : Operation, lease : Lease]
BY DEF NoJob, Operation

LEMMA EmptyTable == Empty \in Table /\ \A l \in Lease : Empty[l] = None
BY DEF Empty, Table, Entry

\* What a reader of the file gets.
LEMMA ParsedFacts ==
  /\ Parsed(Torn) = Empty
  /\ \A t \in Table : t # Torn /\ Parsed(t) = t
  /\ \A f \in Table \cup {Torn} : Parsed(f) \in Table
BY BodyAssumption, EmptyTable DEF Parsed, Table, Entry

LEMMA EntryFacts ==
  ASSUME NEW t \in Table, NEW l \in Lease, t[l] # None
  PROVE  /\ t[l] \in Store!Record
         /\ t[l].secret \in Secret
         /\ t[l].scope \in Store!Scope
         /\ t[l].expiresAt \in Nat
         /\ t[l].usesLeft \in Int
         /\ t[l].parent \in Lease \cup {None}
<1>1. t[l] \in Store!Record
  BY DEF Table, Entry
<1> QED BY <1>1 DEF Store!Record

-----------------------------------------------------------------------------
(* The initial state, and the steps outside the decisions.                 *)

LEMMA InitBody == ProcInit => BodyInv
<1> SUFFICES ASSUME ProcInit
             PROVE  BodyInv
    OBVIOUS
<1> USE DEF ProcInit
<1>1. LoopInv
  BY InitAge DEF AgeInv
<1>2. pc = [p \in Proc |-> "idle"]
  BY DEF LockInit
<1>3. file = Empty /\ Parsed(file) = Empty
  BY EmptyTable, ParsedFacts
<1>4. BodyTypeOK
  <2>1. file \in Table \cup {Torn} /\ work \in [Proc -> Table] /\ issued \in Table
    BY EmptyTable
  <2>2. job \in [Proc -> [op : Operation, lease : Lease] \cup {NoJob}]
    OBVIOUS
  <2> QED BY <2>1, <2>2 DEF BodyTypeOK, BodyStep
<1>5. Control
  BY <1>2 DEF Control
<1>6. Accounts
  BY <1>2, <1>3, EmptyTable DEF Accounts, NoDoubleSpend, Covered, Decided
<1>7. Revocations
  BY <1>2 DEF Revocations, Decided
<1> QED BY <1>1, <1>4, <1>5, <1>6, <1>7 DEF BodyInv

\* A step that changes neither the tables, the jobs nor the history, and under
\* which nobody becomes or ceases to be decided.
LEMMA SameBodies ==
  ASSUME Accounts, Revocations,
         \A q \in Proc : Decided(q)' => Decided(q) /\ work'[q] = work[q] /\ job'[q] = job[q],
         UNCHANGED <<file, issued, served, revoked>>
  PROVE  Accounts' /\ Revocations'
<1>1. \A q \in Proc : Decided(q)' =>
        Owed(q)' = Owed(q) /\ \A l : Redeems(q, l)' = Redeems(q, l)
  BY DEF Owed, Redeems
<1>2. Accounts'
  BY <1>1 DEF Accounts, NoDoubleSpend, Covered, Parsed
<1>3. Revocations'
  BY <1>1 DEF Revocations, Gone, Parsed
<1> QED BY <1>2, <1>3

LEMMA WaitKeeps ==
  ASSUME BodyInv, NEW p \in Proc, Wait(p)
  PROVE  BodyTypeOK' /\ Control' /\ Accounts' /\ Revocations'
<1> USE DEF BodyInv, bodyVars, LoopInv, LockTypeOK
<1>1. UNCHANGED bodyVars
  BY DEF Wait
<1>2. pc[p] # "crit" /\ \A q \in Proc : q # p => pc'[q] = pc[q]
  BY DEF Wait, Call, Acquire, Waiting, Busy, Stat, Reclaim, Retry, Goto
<1>3. BodyTypeOK'
  BY <1>1 DEF BodyTypeOK
<1>4. step[p] = "read"
  BY <1>2 DEF Control
<1>5. Control'
  BY <1>1, <1>2, <1>4 DEF Control, Parsed
<1>6. \A q \in Proc : Decided(q)' => Decided(q)
  BY <1>1, <1>2, <1>4 DEF Decided
<1> QED BY <1>1, <1>3, <1>5, <1>6, SameBodies

LEMMA TickKeeps ==
  ASSUME BodyInv, ProcTick
  PROVE  BodyTypeOK' /\ Control' /\ Accounts' /\ Revocations'
<1> USE DEF BodyInv, ProcTick
<1>1. UNCHANGED <<pc, file, step, work, job, issued, line, served, revoked>>
  BY DEF LockTick
<1>2. BodyTypeOK'
  BY <1>1 DEF BodyTypeOK
<1>3. Control'
  BY <1>1 DEF Control, Parsed
<1>4. \A q \in Proc : Decided(q)' => Decided(q)
  BY <1>1 DEF Decided
<1> QED BY <1>1, <1>2, <1>3, <1>4, SameBodies

LEMMA ReadKeeps ==
  ASSUME BodyInv, NEW p \in Proc, ReadFile(p) \/ DecideDeny(p)
  PROVE  BodyTypeOK' /\ Control' /\ Accounts' /\ Revocations'
<1> USE DEF BodyInv, At, GotoStep, lockVars
<1>1. UNCHANGED <<pc, file, job, now, issued, line, served, revoked>>
  BY DEF ReadFile, DecideDeny
<1>2. BodyTypeOK'
  BY <1>1, ParsedFacts DEF BodyTypeOK, BodyStep, ReadFile, DecideDeny
<1>3. /\ pc[p] = "crit" /\ job[p] = NoJob
      /\ \A q \in Proc : q # p => step'[q] = step[q] /\ work'[q] = work[q]
      /\ \/ step'[p] = "decide" /\ work'[p] = Parsed(file)
         \/ step'[p] = "leave"
  BY DEF ReadFile, DecideDeny, BodyTypeOK, Control
<1>4. Control'
  BY <1>1, <1>3 DEF Control, Parsed
<1>5. \A q \in Proc : Decided(q)' => Decided(q) /\ work'[q] = work[q]
  BY <1>1, <1>3 DEF Decided
<1> QED BY <1>1, <1>2, <1>4, <1>5, SameBodies

\* writeFileSync: between the truncation and the write the file is empty.
LEMMA TruncateKeeps ==
  ASSUME BodyInv, Exclusive, NEW p \in Proc, Truncate(p)
  PROVE  BodyTypeOK' /\ Control' /\ Accounts' /\ Revocations'
<1> USE DEF BodyInv, At, GotoStep, lockVars, Truncate
<1>1. UNCHANGED <<pc, work, job, now, issued, line, served, revoked>>
  OBVIOUS
<1>2. BodyTypeOK'
  BY DEF BodyTypeOK, BodyStep
<1>3. /\ pc[p] = "crit" /\ job[p] # NoJob
      /\ step'[p] = "write" /\ Parsed(file)' = Empty
      /\ \A q \in Proc : q # p => pc[q] # "crit" /\ step[q] = "read" /\ step'[q] = "read"
  BY ParsedFacts DEF BodyTypeOK, Control, Exclusive, Parsed
<1>4. Control'
  BY <1>1, <1>3 DEF Control
<1>5. \A q \in Proc : Decided(q)' => Decided(q)
  BY <1>1, <1>3 DEF Decided
<1>6. \A q \in Proc : Owed(q)' = Owed(q) /\ \A l : Redeems(q, l)' = Redeems(q, l)
  BY <1>1 DEF Owed, Redeems
<1>7. Accounts'
  BY <1>1, <1>3, <1>5, <1>6, EmptyTable DEF Accounts, NoDoubleSpend, Covered
<1>8. Revocations'
  BY <1>1, <1>3, <1>5, <1>6, EmptyTable DEF Revocations, Gone, BodyTypeOK
<1> QED BY <1>2, <1>4, <1>7, <1>8

LEMMA WriteKeeps ==
  ASSUME BodyInv, Exclusive, NEW p \in Proc, WriteFile(p)
  PROVE  BodyTypeOK' /\ Control' /\ Accounts' /\ Revocations'
<1> USE DEF BodyInv, At, GotoStep, lockVars, WriteFile
<1>1. UNCHANGED <<pc, work, job, now, issued, line, served, revoked>>
  OBVIOUS
<1>2. BodyTypeOK'
  BY DEF BodyTypeOK, BodyStep
<1>3. /\ pc[p] = "crit" /\ job[p] # NoJob /\ Decided(p)
      /\ step'[p] = "leave" /\ Parsed(file)' = work[p]
      /\ \A q \in Proc : q # p => pc[q] # "crit" /\ step[q] = "read" /\ step'[q] = "read"
  BY ParsedFacts DEF BodyTypeOK, Control, Exclusive, Parsed, Decided
<1>4. Control'
  BY <1>1, <1>3 DEF Control
<1>5. \A q \in Proc : Decided(q)' => Decided(q)
  BY <1>1, <1>3 DEF Decided
<1>6. \A q \in Proc : Owed(q)' = Owed(q) /\ \A l : Redeems(q, l)' = Redeems(q, l)
  BY <1>1 DEF Owed, Redeems
<1>7. Covered(Parsed(file), served)'
  <2> SUFFICES ASSUME NEW l \in Lease, work[p][l] # None
               PROVE  issued[l] # None /\ served[l] + work[p][l].usesLeft <= issued[l].usesLeft
    BY <1>1, <1>3 DEF Covered
  <2>1. issued[l] # None /\ Owed(p)[l] + work[p][l].usesLeft <= issued[l].usesLeft
    BY <1>3 DEF Accounts, Covered
  <2>2. served[l] \in Nat /\ work[p][l].usesLeft \in Int /\ issued[l].usesLeft \in Int
    BY <2>1, EntryFacts DEF BodyTypeOK
  <2>3. Owed(p)[l] = served[l] \/ Owed(p)[l] = served[l] + UseUnit
    BY DEF Owed
  <2> QED BY <2>1, <2>2, <2>3, BodyAssumption
<1>8. Accounts'
  BY <1>1, <1>5, <1>6, <1>7 DEF Accounts, NoDoubleSpend, Covered
<1>9. Revocations'
  BY <1>1, <1>3, <1>5, <1>6 DEF Revocations, Gone
<1> QED BY <1>2, <1>4, <1>8, <1>9

\* The release of the lock and the answer: what was owed is now served.
LEMMA LeaveKeeps ==
  ASSUME BodyInv, Exclusive, NEW p \in Proc, Leave(p)
  PROVE  BodyTypeOK' /\ Control' /\ Accounts' /\ Revocations'
<1> USE DEF BodyInv, LoopInv, At, Leave
<1>1. UNCHANGED <<file, now, issued, line>>
  OBVIOUS
<1>2. /\ pc[p] = "crit" /\ pc'[p] # "crit" /\ step'[p] = "read" /\ job'[p] = NoJob
      /\ \A q \in Proc : q # p => /\ pc[q] # "crit" /\ pc'[q] # "crit"
                                  /\ step[q] = "read" /\ step'[q] = "read"
                                  /\ job[q] = NoJob /\ job'[q] = NoJob
  BY DEF Release, Goto, Forget, LockTypeOK, BodyTypeOK, Control, Exclusive
<1>3. \A q \in Proc : ~Decided(q)'
  BY <1>2 DEF Decided
<1>4. CASE job[p] = NoJob
  <2>1. UNCHANGED <<served, revoked>>
    BY <1>4 DEF NoJob
  <2>2. BodyTypeOK'
    BY <2>1, <1>1, EmptyTable DEF BodyTypeOK, BodyStep, Forget
  <2>3. Control'
    BY <1>1, <1>2 DEF Control
  <2>4. \A q \in Proc : Decided(q)' => Decided(q) /\ work'[q] = work[q] /\ job'[q] = job[q]
    BY <1>3
  <2> QED BY <1>1, <2>1, <2>2, <2>3, <2>4, SameBodies
<1>5. CASE job[p] # NoJob
  <2>1. /\ job[p].op \in Operation /\ job[p].lease \in Lease
        /\ Decided(p) /\ file = work[p] /\ Parsed(file) = work[p]
    BY <1>5, ParsedFacts DEF BodyTypeOK, Control, Decided
  <2>2. served' = Owed(p)
    <3>1. CASE job[p].op = "redeem"
      BY <3>1 DEF Owed, Redeems, BodyTypeOK
    <3>2. CASE job[p].op # "redeem"
      BY <3>2 DEF Owed, Redeems, BodyTypeOK
    <3> QED BY <3>1, <3>2
  <2>3. Owed(p) \in [Lease -> Nat]
    BY BodyAssumption DEF Owed, BodyTypeOK
  <2>4. BodyTypeOK'
    BY <2>1, <2>2, <2>3, <1>1, EmptyTable DEF BodyTypeOK, BodyStep, Forget
  <2>5. Control'
    BY <1>1, <1>2 DEF Control
  <2>6. NoDoubleSpend'
    <3> SUFFICES ASSUME NEW l \in Lease, issued[l] # None
                 PROVE  Owed(p)[l] < issued[l].usesLeft + UseUnit
      BY <1>1, <2>2 DEF NoDoubleSpend
    <3>1. issued[l].usesLeft \in Int /\ served[l] \in Nat
      BY EntryFacts DEF BodyTypeOK
    <3>2. served[l] < issued[l].usesLeft + UseUnit
      BY DEF Accounts, NoDoubleSpend
    <3>3. Redeems(p, l) => served[l] < issued[l].usesLeft
      BY <2>1 DEF Accounts
    <3> QED BY <3>1, <3>2, <3>3, BodyAssumption DEF Owed
  <2>7. \A l \in Lease : issued[l] = None => Owed(p)[l] = 0
    BY <2>1 DEF Accounts, Owed
  <2>8. Accounts'
    BY <1>1, <1>3, <2>1, <2>2, <2>6, <2>7 DEF Accounts, Covered, Parsed
  <2>9. Revocations'
    BY <1>1, <1>3, <2>1 DEF Revocations, Gone, Parsed
  <2> QED BY <2>4, <2>5, <2>8, <2>9
<1> QED BY <1>4, <1>5

\* A kill leaves the file, torn or not, to the next process.
LEMMA DieKeeps ==
  ASSUME BodyInv, NEW p \in Proc, Die(p)
  PROVE  BodyTypeOK' /\ Control' /\ Accounts' /\ Revocations'
<1> USE DEF BodyInv, LoopInv, Die
<1>1. UNCHANGED <<file, now, issued, line, served, revoked>>
  OBVIOUS
<1>2. /\ pc'[p] # "crit" /\ step'[p] = "read" /\ job'[p] = NoJob
      /\ \A q \in Proc : q # p => /\ pc'[q] = pc[q] /\ step'[q] = step[q]
                                  /\ job'[q] = job[q] /\ work'[q] = work[q]
  BY DEF Crash, Goto, Forget, LockTypeOK, BodyTypeOK
<1>3. BodyTypeOK'
  BY <1>1, EmptyTable DEF BodyTypeOK, BodyStep, Forget
<1>4. Control'
  BY <1>1, <1>2 DEF Control, Parsed
<1>5. \A q \in Proc : Decided(q)' => Decided(q) /\ work'[q] = work[q] /\ job'[q] = job[q]
  BY <1>2 DEF Decided
<1> QED BY <1>1, <1>3, <1>4, <1>5, SameBodies

-----------------------------------------------------------------------------
(* The decisions.                                                          *)

\* What every decision that writes has in common: the decider is the only
\* process inside, and it worked on the table of the file.
Alone(p) ==
  /\ pc[p] = "crit" /\ work[p] = Parsed(file)
  /\ \A q \in Proc : ~Decided(q)

LEMMA DeciderIsAlone ==
  ASSUME BodyInv, Exclusive, NEW p \in Proc, At(p, "decide")
  PROVE  Alone(p) /\ work[p] \in Table
<1>1. pc[p] = "crit" /\ step[p] = "decide" /\ work[p] = Parsed(file)
  BY DEF At, BodyInv, Control
<1>2. \A q \in Proc : q # p => pc[q] # "crit"
  BY <1>1 DEF Exclusive
<1>3. work[p] \in Table
  BY DEF BodyInv, BodyTypeOK
<1> QED BY <1>1, <1>2, <1>3 DEF Alone, Decided

LEMMA CommitFacts ==
  ASSUME BodyInv, Exclusive, NEW p \in Proc, At(p, "decide"),
         NEW op \in Operation, NEW l \in Lease, NEW table \in Table, Commit(p, op, l, table)
  PROVE  /\ Decided(p)' /\ \A q \in Proc : Decided(q)' => q = p
         /\ work'[p] = table /\ job'[p].op = op /\ job'[p].lease = l
         /\ step' \in [Proc -> BodyStep] /\ work' \in [Proc -> Table]
         /\ job' \in [Proc -> [op : Operation, lease : Lease] \cup {NoJob}]
         /\ Control'
<1> USE DEF BodyInv, BodyTypeOK, Commit, GotoStep, lockVars
<1>1. /\ step'[p] = "truncate" /\ work'[p] = table /\ job'[p] = [op |-> op, lease |-> l]
      /\ job'[p] # NoJob /\ pc' = pc /\ file' = file
      /\ \A q \in Proc : q # p => /\ step'[q] = step[q] /\ work'[q] = work[q]
                                  /\ job'[q] = job[q]
  BY JobFacts
<1>2. pc[p] = "crit" /\ \A q \in Proc : ~Decided(q)
  BY DeciderIsAlone DEF Alone
<1>3. Decided(p)' /\ \A q \in Proc : Decided(q)' => q = p
  BY <1>1, <1>2 DEF Decided
<1>4. step' \in [Proc -> BodyStep] /\ work' \in [Proc -> Table]
      /\ job' \in [Proc -> [op : Operation, lease : Lease] \cup {NoJob}]
  BY DEF BodyStep
<1>5. Control'
  BY <1>1, <1>2 DEF Control, Parsed
<1> QED BY <1>1, <1>3, <1>4, <1>5

LEMMA StoreRecordKeeps ==
  ASSUME BodyInv, Exclusive, NEW p \in Proc, At(p, "decide"),
         NEW l \in Lease, NEW rec \in Store!Record, rec.usesLeft > 0,
         NEW anc \in SUBSET Lease, StoreRecord(p, l, rec, anc)
  PROVE  BodyTypeOK' /\ Control' /\ Accounts' /\ Revocations'
<1> DEFINE table == [On(work[p])!Pruned EXCEPT ![l] = rec]
<1>1. /\ issued[l] = None /\ Commit(p, "mint", l, table)
      /\ issued' = [issued EXCEPT ![l] = rec] /\ line' = [line EXCEPT ![l] = anc]
      /\ UNCHANGED <<file, now, served, revoked>>
  BY DEF StoreRecord, Commit
<1>2. work[p] = Parsed(file) /\ work[p] \in Table /\ \A q \in Proc : ~Decided(q)
  BY DeciderIsAlone DEF Alone
<1>3. table \in Table
  BY <1>2 DEF Table, Entry, On!Pruned
<1>4. \A k \in Lease : /\ IF k = l THEN table[k] = rec ELSE table[k] \in {None, work[p][k]}
                       /\ issued'[k] = IF k = l THEN rec ELSE issued[k]
  BY <1>1, <1>2 DEF On!Pruned, Table, BodyInv, BodyTypeOK
<1> HIDE DEF table
<1>5. "mint" \in Operation /\ rec # None /\ rec \in Entry
  BY BodyAssumption DEF Operation, Entry
<1>6. /\ Decided(p)' /\ \A q \in Proc : Decided(q)' => q = p
      /\ work'[p] = table /\ job'[p].op = "mint" /\ job'[p].lease = l
      /\ step' \in [Proc -> BodyStep] /\ work' \in [Proc -> Table]
      /\ job' \in [Proc -> [op : Operation, lease : Lease] \cup {NoJob}]
      /\ Control'
  BY <1>1, <1>3, <1>5, CommitFacts
<1>7. issued' \in Table /\ line' \in [Lease -> SUBSET Lease]
  BY <1>1, <1>5 DEF BodyInv, BodyTypeOK, Table
<1>8. BodyTypeOK'
  BY <1>1, <1>6, <1>7 DEF BodyInv, BodyTypeOK
<1>9. served[l] = 0 /\ rec.usesLeft \in Int /\ served \in [Lease -> Nat]
  BY <1>1 DEF BodyInv, BodyTypeOK, Accounts, Store!Record
<1>10. Owed(p)' = served /\ \A k : ~Redeems(p, k)'
  BY <1>1, <1>6, <1>9 DEF Owed, Redeems
<1>11. Covered(Parsed(file), served)'
  BY <1>1, <1>4, <1>5 DEF BodyInv, Accounts, Covered, Parsed
<1>12. Covered(work[p], Owed(p))'
  <2> SUFFICES ASSUME NEW k \in Lease, table[k] # None
               PROVE  issued'[k] # None /\ served[k] + table[k].usesLeft <= issued'[k].usesLeft
    BY <1>6, <1>10 DEF Covered
  <2>1. CASE k = l
    BY <2>1, <1>4, <1>5, <1>9
  <2>2. CASE k # l
    BY <2>2, <1>2, <1>4 DEF BodyInv, Accounts, Covered
  <2> QED BY <2>1, <2>2
<1>13. NoDoubleSpend'
  BY <1>1, <1>4, <1>9, BodyAssumption DEF BodyInv, Accounts, NoDoubleSpend
<1>14. Accounts'
  BY <1>1, <1>4, <1>5, <1>6, <1>10, <1>11, <1>12, <1>13 DEF BodyInv, Accounts
<1>15. Revocations'
  <2>1. \A k \in revoked : k # l /\ Gone(Parsed(file), k)
    BY <1>1 DEF BodyInv, Revocations, Gone
  <2>2. \A k \in revoked : Gone(Parsed(file), k)' /\ Gone(work[p], k)'
    BY <2>1, <1>1, <1>2, <1>4, <1>6 DEF Gone, Parsed, BodyInv, BodyTypeOK
  <2> QED BY <2>2, <1>1, <1>6, <1>10 DEF Revocations
<1> QED BY <1>6, <1>8, <1>14, <1>15

LEMMA MintDecision ==
  ASSUME BodyInv, NEW p \in Proc, DecideMint(p)
  PROVE  \E l \in Lease, rec \in Store!Record :
           rec.usesLeft > 0 /\ StoreRecord(p, l, rec, {})
<1>1. PICK l \in Lease, s \in Secret, r \in Requests, ttl \in TTLs, uses \in UseCounts :
        StoreRecord(p, l, [secret |-> s, scope |-> r, expiresAt |-> now + ttl,
                           usesLeft |-> uses, parent |-> None], {})
  BY DEF DecideMint
<1> DEFINE rec == [secret |-> s, scope |-> r, expiresAt |-> now + ttl,
                   usesLeft |-> uses, parent |-> None]
<1>2. r \in Store!Scope /\ ttl \in Nat /\ uses \in Nat /\ uses > 0 /\ now + ttl \in Nat
  BY BodyAssumption DEF BodyInv, BodyTypeOK
<1>3. rec \in Store!Record /\ rec.usesLeft > 0
  BY <1>2 DEF Store!Record
<1> QED BY <1>1, <1>3

\* What a delegation mints: a record within the parent's scope and remainder.
LEMMA ChildFacts ==
  ASSUME BodyInv, NEW p \in Proc, NEW parent \in Lease, NEW r \in Requests,
         On(work[p])!Spendable(parent),
         NEW ttl \in On(work[p])!ChildTTLs(parent), NEW uses \in On(work[p])!ChildUses(parent)
  PROVE  /\ [secret |-> work[p][parent].secret,
             scope |-> On(work[p])!Narrow(work[p][parent].scope, r),
             expiresAt |-> now + ttl, usesLeft |-> uses, parent |-> parent] \in Store!Record
         /\ uses > 0
<1>1. /\ work[p] \in Table /\ now \in Nat /\ work[p][parent] # None
      /\ now <= work[p][parent].expiresAt /\ work[p][parent].usesLeft > 0
  <2>1. work[p] \in Table /\ now \in Nat /\ work[p][parent] # None
    BY DEF On!Spendable, On!Known, BodyInv, BodyTypeOK
  <2>2. work[p][parent].expiresAt \in Nat /\ work[p][parent].usesLeft \in Int
    BY <2>1, EntryFacts
  <2> QED BY <2>1, <2>2 DEF On!Spendable, On!Expired, On!Exhausted
<1>2. /\ work[p][parent].secret \in Secret /\ work[p][parent].scope \in Store!Scope
      /\ work[p][parent].expiresAt \in Nat /\ work[p][parent].usesLeft \in Int
  BY <1>1, EntryFacts
<1>3. ttl \in Nat
  BY <1>1, <1>2, BodyAssumption DEF On!ChildTTLs, On!RemainingTTL
<1>4. uses \in Int /\ uses > 0
  BY <1>1, <1>2, BodyAssumption DEF On!ChildUses
<1>5. r \in Store!Scope
  BY BodyAssumption
<1>6. On(work[p])!Narrow(work[p][parent].scope, r) \in Store!Scope
  BY <1>2, <1>5 DEF Store!Scope, Store!BindField, Store!CeilField, Store!Glob, On!Narrow,
     On!BindField, On!CeilField, On!narrowBinding, On!narrowCeil, On!narrowPaths
<1> QED BY <1>1, <1>2, <1>3, <1>4, <1>6 DEF Store!Record

LEMMA AttenuateDecision ==
  ASSUME BodyInv, NEW p \in Proc, DecideAttenuate(p)
  PROVE  \E l \in Lease, rec \in Store!Record, anc \in SUBSET Lease :
           rec.usesLeft > 0 /\ StoreRecord(p, l, rec, anc)
<1>1. PICK l \in Lease, parent \in Lease, r \in Requests :
        /\ On(work[p])!Spendable(parent)
        /\ \E ttl \in On(work[p])!ChildTTLs(parent), uses \in On(work[p])!ChildUses(parent) :
             StoreRecord(p, l,
               [secret |-> work[p][parent].secret,
                scope |-> On(work[p])!Narrow(work[p][parent].scope, r),
                expiresAt |-> now + ttl, usesLeft |-> uses, parent |-> parent],
               line[parent] \cup {parent})
  BY DEF DecideAttenuate
<1>2. PICK ttl \in On(work[p])!ChildTTLs(parent), uses \in On(work[p])!ChildUses(parent) :
        StoreRecord(p, l,
          [secret |-> work[p][parent].secret,
           scope |-> On(work[p])!Narrow(work[p][parent].scope, r),
           expiresAt |-> now + ttl, usesLeft |-> uses, parent |-> parent],
          line[parent] \cup {parent})
  BY <1>1
<1> DEFINE rec == [secret |-> work[p][parent].secret,
                   scope |-> On(work[p])!Narrow(work[p][parent].scope, r),
                   expiresAt |-> now + ttl, usesLeft |-> uses, parent |-> parent]
<1>3. rec \in Store!Record /\ uses > 0
  BY <1>1, ChildFacts
<1>4. rec.usesLeft > 0 /\ line[parent] \cup {parent} \in SUBSET Lease
  BY <1>3 DEF BodyInv, BodyTypeOK
<1> QED BY <1>2, <1>3, <1>4

LEMMA RedeemKeeps ==
  ASSUME BodyInv, Exclusive, NEW p \in Proc, DecideRedeem(p)
  PROVE  BodyTypeOK' /\ Control' /\ Accounts' /\ Revocations'
<1>1. At(p, "decide") /\ UNCHANGED <<file, now, issued, line, served, revoked>>
  BY DEF DecideRedeem, Commit
<1> DEFINE spentOf(k) == [work[p] EXCEPT ![k].usesLeft = @ - UseUnit]
<1>2. PICK l \in Lease :
        work[p][l] # None /\ work[p][l].usesLeft > 0 /\ Commit(p, "redeem", l, spentOf(l))
  <2>1. PICK l \in Lease, host \in Target \cup {Unset} :
          On(work[p])!evalLease(l, host) /\ Commit(p, "redeem", l, spentOf(l))
    BY DEF DecideRedeem
  <2>2. work[p][l] # None /\ ~(work[p][l].usesLeft <= 0)
    BY <2>1 DEF On!evalLease, On!Spendable, On!Known, On!Exhausted
  <2>3. work[p][l].usesLeft \in Int
    BY <2>2, EntryFacts DEF BodyInv, BodyTypeOK
  <2> HIDE DEF spentOf
  <2> QED BY <2>1, <2>2, <2>3
<1> DEFINE table == spentOf(l)
<1>3. work[p] = Parsed(file) /\ work[p] \in Table /\ \A q \in Proc : ~Decided(q)
  BY <1>1, DeciderIsAlone DEF Alone
<1>4. work[p][l] \in Store!Record /\ work[p][l].usesLeft \in Int
  BY <1>2, <1>3, EntryFacts
<1>5. /\ table[l] \in Store!Record /\ table[l].usesLeft = work[p][l].usesLeft - UseUnit
      /\ \A k \in Lease : k # l => table[k] = work[p][k]
      /\ table \in Table
  <2>1. table = [work[p] EXCEPT ![l] = [work[p][l] EXCEPT !.usesLeft = @ - UseUnit]]
    BY <1>3 DEF Table
  <2> DEFINE rest == [work[p][l] EXCEPT !.usesLeft = @ - UseUnit]
  <2>2. rest \in Store!Record /\ rest.usesLeft = work[p][l].usesLeft - UseUnit
    BY <1>4, BodyAssumption DEF Store!Record
  <2>3. table = [work[p] EXCEPT ![l] = rest]
    BY <2>1
  <2> HIDE DEF rest, table
  <2> QED BY <1>3, <2>2, <2>3 DEF Table, Entry
<1>6. Commit(p, "redeem", l, table)
  BY <1>2
<1> HIDE DEF table
<1>7. /\ Decided(p)' /\ \A q \in Proc : Decided(q)' => q = p
      /\ work'[p] = table /\ job'[p].op = "redeem" /\ job'[p].lease = l
      /\ step' \in [Proc -> BodyStep] /\ work' \in [Proc -> Table]
      /\ job' \in [Proc -> [op : Operation, lease : Lease] \cup {NoJob}]
      /\ Control'
  BY <1>1, <1>5, <1>6, CommitFacts DEF Operation
<1>8. BodyTypeOK'
  BY <1>1, <1>7 DEF BodyInv, BodyTypeOK
<1>9. /\ issued[l] # None /\ issued[l].usesLeft \in Int /\ served \in [Lease -> Nat]
      /\ served[l] + work[p][l].usesLeft <= issued[l].usesLeft
  <2>1. issued[l] # None /\ served[l] + work[p][l].usesLeft <= issued[l].usesLeft
    BY <1>2, <1>3 DEF BodyInv, Accounts, Covered
  <2> QED BY <2>1, EntryFacts DEF BodyInv, BodyTypeOK
<1>10. Owed(p)' = [served EXCEPT ![l] = @ + UseUnit] /\ \A k : Redeems(p, k)' => k = l
  BY <1>1, <1>7, <1>9 DEF Owed, Redeems
<1>11. Covered(work[p], Owed(p))'
  <2> SUFFICES ASSUME NEW k \in Lease, table[k] # None
               PROVE  /\ issued[k] # None
                      /\ [served EXCEPT ![l] = @ + UseUnit][k] + table[k].usesLeft
                           <= issued[k].usesLeft
    BY <1>1, <1>7, <1>10 DEF Covered
  <2>1. CASE k = l
    BY <2>1, <1>4, <1>5, <1>9, BodyAssumption
  <2>2. CASE k # l
    BY <2>2, <1>3, <1>5, <1>9 DEF BodyInv, Accounts, Covered
  <2> QED BY <2>1, <2>2
<1>12. served[l] < issued[l].usesLeft
  BY <1>2, <1>4, <1>9
<1>13. Accounts'
  BY <1>1, <1>7, <1>9, <1>10, <1>11, <1>12
     DEF BodyInv, Accounts, NoDoubleSpend, Covered, Parsed
<1>14. Revocations'
  <2>1. l \notin revoked /\ \A k \in revoked : Gone(work[p], k) /\ k # l
    BY <1>2, <1>3 DEF BodyInv, Revocations, Gone
  <2>2. \A k \in revoked : Gone(Parsed(file), k)' /\ Gone(work[p], k)'
    BY <2>1, <1>1, <1>3, <1>5, <1>7 DEF Gone, Parsed, BodyInv, BodyTypeOK
  <2> QED BY <2>1, <2>2, <1>1, <1>7, <1>10 DEF Revocations
<1> QED BY <1>7, <1>8, <1>13, <1>14

LEMMA RevokeKeeps ==
  ASSUME BodyInv, Exclusive, NEW p \in Proc, DecideRevoke(p)
  PROVE  BodyTypeOK' /\ Control' /\ Accounts' /\ Revocations'
<1>1. At(p, "decide") /\ UNCHANGED <<file, now, issued, line, served, revoked>>
  BY DEF DecideRevoke, Commit
<1> DEFINE op(l) == IF On(work[p])!Known(l) THEN "revoke" ELSE "rewrite"
           table(l) == [work[p] EXCEPT ![l] = None]
<1>2. PICK l \in Lease : Commit(p, op(l), l, table(l))
  BY DEF DecideRevoke
<1>3. work[p] = Parsed(file) /\ work[p] \in Table /\ \A q \in Proc : ~Decided(q)
  BY <1>1, DeciderIsAlone DEF Alone
<1>4. /\ table(l) \in Table /\ table(l)[l] = None
      /\ \A k \in Lease : k # l => table(l)[k] = work[p][k]
  BY <1>3 DEF Table, Entry
<1>5. op(l) \in {"revoke", "rewrite"} /\ op(l) \in Operation
      /\ (op(l) = "revoke" => work[p][l] # None)
  BY DEF Operation, On!Known
<1> HIDE DEF op, table
<1>6. /\ Decided(p)' /\ \A q \in Proc : Decided(q)' => q = p
      /\ work'[p] = table(l) /\ job'[p].op = op(l) /\ job'[p].lease = l
      /\ step' \in [Proc -> BodyStep] /\ work' \in [Proc -> Table]
      /\ job' \in [Proc -> [op : Operation, lease : Lease] \cup {NoJob}]
      /\ Control'
  BY <1>1, <1>2, <1>4, <1>5, CommitFacts
<1>7. BodyTypeOK'
  BY <1>1, <1>6 DEF BodyInv, BodyTypeOK
<1>8. Owed(p)' = served /\ \A k : ~Redeems(p, k)'
  BY <1>1, <1>5, <1>6 DEF Owed, Redeems, BodyInv, BodyTypeOK
<1>9. Covered(work[p], Owed(p))'
  BY <1>1, <1>3, <1>4, <1>6, <1>8 DEF BodyInv, Accounts, Covered
<1>10. Accounts'
  BY <1>1, <1>6, <1>8, <1>9 DEF BodyInv, Accounts, NoDoubleSpend, Covered, Parsed
<1>11. Revocations'
  <2>1. \A k \in revoked : Gone(Parsed(file), k)' /\ Gone(work[p], k)'
    BY <1>1, <1>3, <1>4, <1>6 DEF BodyInv, BodyTypeOK, Revocations, Gone, Parsed
  <2>2. op(l) = "revoke" => Gone(work[p], l)'
    BY <1>1, <1>3, <1>4, <1>5, <1>6 DEF BodyInv, Accounts, Covered, Gone
  <2> QED BY <2>1, <2>2, <1>1, <1>6, <1>8 DEF Revocations
<1> QED BY <1>6, <1>7, <1>10, <1>11

-----------------------------------------------------------------------------

\* The locking a process does is what LeaseLock lets it do.
LEMMA LockSteps == [ProcNext]_procVars => [LockNext]_lockVars
<1> SUFFICES ASSUME [ProcNext]_procVars
             PROVE  [LockNext]_lockVars
    OBVIOUS
<1>1. ASSUME NEW p \in Proc, Wait(p) \/ Die(p)
      PROVE  LockNext
  BY <1>1 DEF Wait, Die, LockNext, LockStep
<1>2. ASSUME NEW p \in Proc, Leave(p)
      PROVE  LockNext
  BY <1>2 DEF Leave, LockNext, LockStep
<1>3. ASSUME NEW p \in Proc, ReadFile(p) \/ DecideDeny(p) \/ Truncate(p) \/ WriteFile(p)
      PROVE  UNCHANGED lockVars
  BY <1>3 DEF ReadFile, DecideDeny, Truncate, WriteFile, lockVars
<1>4. ASSUME NEW p \in Proc, DecideMint(p) \/ DecideAttenuate(p)
      PROVE  UNCHANGED lockVars
  BY <1>4 DEF DecideMint, DecideAttenuate, StoreRecord, Commit, lockVars
<1>5. ASSUME NEW p \in Proc, DecideRedeem(p) \/ DecideRevoke(p)
      PROVE  UNCHANGED lockVars
  BY <1>5 DEF DecideRedeem, DecideRevoke, Commit, lockVars
<1>6. CASE ProcTick
  BY <1>6 DEF ProcTick, LockNext
<1>7. CASE UNCHANGED procVars
  BY <1>7 DEF procVars, lockVars
<1> QED BY <1>1, <1>2, <1>3, <1>4, <1>5, <1>6, <1>7 DEF ProcNext, Body

LEMMA StepBody ==
  BodyInv /\ Exclusive /\ [ProcNext]_procVars => BodyInv'
<1> SUFFICES ASSUME BodyInv, Exclusive, [ProcNext]_procVars
             PROVE  BodyTypeOK' /\ Control' /\ Accounts' /\ Revocations'
    BY LockSteps, StepLoop DEF BodyInv
<1> DEFINE Kept == BodyTypeOK' /\ Control' /\ Accounts' /\ Revocations'
<1>1. ASSUME NEW p \in Proc, Wait(p) \/ Die(p)
      PROVE  Kept
  BY <1>1, WaitKeeps, DieKeeps
<1>2. ASSUME NEW p \in Proc, ReadFile(p) \/ DecideDeny(p)
      PROVE  Kept
  BY <1>2, ReadKeeps
<1>3. ASSUME NEW p \in Proc, DecideMint(p)
      PROVE  Kept
  BY <1>3, MintDecision, StoreRecordKeeps DEF DecideMint
<1>4. ASSUME NEW p \in Proc, DecideAttenuate(p)
      PROVE  Kept
  BY <1>4, AttenuateDecision, StoreRecordKeeps DEF DecideAttenuate
<1>5. ASSUME NEW p \in Proc, DecideRedeem(p) \/ DecideRevoke(p)
      PROVE  Kept
  BY <1>5, RedeemKeeps, RevokeKeeps
<1>6. ASSUME NEW p \in Proc, Truncate(p) \/ WriteFile(p) \/ Leave(p)
      PROVE  Kept
  BY <1>6, TruncateKeeps, WriteKeeps, LeaveKeeps
<1>7. CASE ProcTick
  BY <1>7, TickKeeps
<1>8. CASE UNCHANGED procVars
  <2>1. UNCHANGED <<file, issued, served, revoked>> /\ UNCHANGED <<pc, step, work, job, now, line>>
    BY <1>8 DEF procVars, lockVars, bodyVars
  <2>2. \A q \in Proc : Decided(q)' => Decided(q)
    BY <2>1 DEF Decided
  <2>3. BodyTypeOK' /\ Control'
    BY <2>1 DEF BodyInv, BodyTypeOK, Control, Parsed
  <2> QED BY <2>1, <2>2, <2>3, SameBodies DEF BodyInv
<1> QED BY <1>1, <1>2, <1>3, <1>4, <1>5, <1>6, <1>7, <1>8 DEF ProcNext, Body

\* The strengthened invariant holds as long as sections exclude each other.
THEOREM BodyInvariant == ProcSpec /\ []Exclusive => []BodyInv
BY InitBody, StepBody, PTL DEF ProcSpec

\* No lease hands out more than it was granted, whatever is killed where, as
\* long as no reclaim lets two processes into their sections at once.
THEOREM NoUseIsSpentTwice == ProcSpec /\ []Exclusive => []NoDoubleSpend
<1>1. BodyInv => NoDoubleSpend
  BY DEF BodyInv, Accounts
<1> QED BY <1>1, BodyInvariant, PTL

\* After its revocation was confirmed a lease yields nothing any more.
THEOREM RevokedStaysRevoked == ProcSpec /\ []Exclusive => RevocationSticks
<1>1. BodyInv /\ [ProcNext]_procVars => [\A l \in revoked : served'[l] = served[l]]_procVars
  <2> SUFFICES ASSUME BodyInv, ProcNext
               PROVE  \A l \in revoked : served'[l] = served[l]
    OBVIOUS
  <2>1. ASSUME NEW p \in Proc, Leave(p)
        PROVE  \A l \in revoked : served'[l] = served[l]
    <3>1. CASE job[p].op = "redeem"
      <4>1. Decided(p)
        BY <2>1, <3>1 DEF Leave, At, Decided, NoJob
      <4>2. \A l \in revoked : l # job[p].lease
        BY <3>1, <4>1 DEF BodyInv, Revocations, Redeems
      <4> QED BY <2>1, <3>1, <4>2 DEF Leave, BodyInv, BodyTypeOK
    <3>2. CASE job[p].op # "redeem"
      BY <2>1, <3>2 DEF Leave
    <3> QED BY <3>1, <3>2
  <2>2. ASSUME NEW p \in Proc, ~Leave(p), Wait(p) \/ Body(p) \/ Die(p)
        PROVE  served' = served
    BY <2>2 DEF Wait, bodyVars, Die, Body, ReadFile, DecideMint, DecideAttenuate, StoreRecord,
       DecideRedeem, DecideRevoke, Commit, DecideDeny, Truncate, WriteFile
  <2>3. CASE ProcTick
    BY <2>3 DEF ProcTick
  <2> QED BY <2>1, <2>2, <2>3 DEF ProcNext
<1> QED BY <1>1, BodyInvariant, PTL DEF ProcSpec, RevocationSticks

-----------------------------------------------------------------------------
(* The refinement of LeaseStore.  Its table is the file until somebody has *)
(* decided, and from then on what the decider holds.                       *)

\* The mapping while nobody has decided, and while one process has.
MappedIdle ==
  served \in [Lease -> Nat] /\ (\A q \in Proc : ~Decided(q)) =>
    StoreTable = Parsed(file) /\ SpentSoFar = served /\ RevokedSoFar = revoked

MappedDecided ==
  \A p \in Proc :
    served \in [Lease -> Nat] /\ Decided(p) /\ (\A q \in Proc : Decided(q) => q = p) =>
      /\ StoreTable = work[p]
      /\ SpentSoFar = Owed(p)
      /\ RevokedSoFar = IF job[p].op = "revoke" THEN revoked \cup {job[p].lease} ELSE revoked

LEMMA MapIdle == MappedIdle
<1> SUFFICES ASSUME served \in [Lease -> Nat], \A q \in Proc : ~Decided(q)
             PROVE  StoreTable = Parsed(file) /\ SpentSoFar = served /\ RevokedSoFar = revoked
    BY DEF MappedIdle
<1>1. \A op : Pending(op) = {}
  BY DEF Pending
<1>2. \A l \in Lease : Cardinality({p \in Pending("redeem") : job[p].lease = l}) = 0
  BY <1>1, FS_EmptySet
<1>3. SpentSoFar = served
  <2>1. \A l \in Lease : served[l] \in Nat /\ UseUnit * 0 = 0
    BY BodyAssumption
  <2> QED BY <1>2, <2>1 DEF SpentSoFar
<1> QED BY <1>1, <1>3 DEF StoreTable, RevokedSoFar

LEMMA MapDecided == MappedDecided
<1> SUFFICES ASSUME NEW p \in Proc, served \in [Lease -> Nat], Decided(p),
                    \A q \in Proc : Decided(q) => q = p
             PROVE  /\ StoreTable = work[p]
                    /\ SpentSoFar = Owed(p)
                    /\ RevokedSoFar = IF job[p].op = "revoke"
                                      THEN revoked \cup {job[p].lease} ELSE revoked
    BY DEF MappedDecided
<1>1. StoreTable = work[p]
  BY DEF StoreTable
<1>2. \A op : Pending(op) = IF job[p].op = op THEN {p} ELSE {}
  BY DEF Pending
<1>3. ASSUME NEW l \in Lease
      PROVE  SpentSoFar[l] = Owed(p)[l]
  <2> DEFINE redeemers == {q \in Pending("redeem") : job[q].lease = l}
  <2>1. redeemers = IF Redeems(p, l) THEN {p} ELSE {}
    BY <1>2 DEF Redeems
  <2>2. Cardinality(redeemers) = IF Redeems(p, l) THEN 1 ELSE 0
    BY <2>1, FS_EmptySet, FS_Singleton
  <2>3. SpentSoFar[l] = served[l] + UseUnit * Cardinality(redeemers)
    BY DEF SpentSoFar
  <2> HIDE DEF redeemers
  <2>4. served[l] \in Nat /\ UseUnit * 0 = 0 /\ UseUnit * 1 = UseUnit
    BY BodyAssumption
  <2> QED BY <2>2, <2>3, <2>4 DEF Owed
<1>4. SpentSoFar = Owed(p)
  BY <1>3 DEF SpentSoFar, Owed
<1>5. RevokedSoFar = IF job[p].op = "revoke" THEN revoked \cup {job[p].lease} ELSE revoked
  BY <1>2 DEF RevokedSoFar
<1> QED BY <1>1, <1>4, <1>5

\* In the state a step leads to, the mapping is the same.
LEMMA MapNext == MappedIdle' /\ MappedDecided'
BY MapIdle, MapDecided, PTL

LEMMA OneDecider ==
  ASSUME BodyInv, Exclusive
  PROVE  /\ \A p, q \in Proc : Decided(p) /\ Decided(q) => p = q
         /\ served \in [Lease -> Nat]
BY DEF Decided, Exclusive, BodyInv, BodyTypeOK

\* A step under which nobody decides, answers or is killed is a stutter.
LEMMA QuietRefines ==
  ASSUME BodyInv, Exclusive, BodyInv', Exclusive',
         \A q \in Proc : (Decided(q)' <=> Decided(q)) /\ job'[q] = job[q],
         \A q \in Proc : Decided(q) => work'[q] = work[q],
         (\A q \in Proc : ~Decided(q)) => Parsed(file)' = Parsed(file),
         UNCHANGED <<served, revoked>>
  PROVE  StoreTable' = StoreTable /\ SpentSoFar' = SpentSoFar /\ RevokedSoFar' = RevokedSoFar
<1>1. /\ \A p, q \in Proc : Decided(p)' /\ Decided(q)' => p = q
      /\ served \in [Lease -> Nat] /\ served' \in [Lease -> Nat]
  BY OneDecider
<1>2. CASE \A q \in Proc : ~Decided(q)
  BY <1>1, <1>2, MapIdle, MapNext DEF MappedIdle
<1>3. CASE \E p \in Proc : Decided(p)
  <2>1. PICK p \in Proc : Decided(p)
    BY <1>3
  <2>2. /\ StoreTable = work[p] /\ SpentSoFar = Owed(p)
        /\ RevokedSoFar = IF job[p].op = "revoke" THEN revoked \cup {job[p].lease} ELSE revoked
    BY <1>1, <2>1, MapDecided DEF MappedDecided
  <2>3. /\ StoreTable' = work'[p] /\ SpentSoFar' = Owed(p)'
        /\ RevokedSoFar' = IF job'[p].op = "revoke" THEN revoked' \cup {job'[p].lease}
                           ELSE revoked'
    BY <1>1, <2>1, MapNext DEF MappedDecided
  <2>4. Owed(p)' = Owed(p)
    BY DEF Owed, Redeems
  <2> QED BY <2>1, <2>2, <2>3, <2>4
<1> QED BY <1>2, <1>3

LEMMA WaitRefines ==
  ASSUME BodyInv, Exclusive, BodyInv', Exclusive', NEW p \in Proc, Wait(p)
  PROVE  UNCHANGED Store!storeVars
<1>1. UNCHANGED bodyVars
  BY DEF Wait
<1>2. pc[p] # "crit" /\ step[p] = "read" /\ \A q \in Proc : q # p => pc'[q] = pc[q]
  BY DEF Wait, Call, Acquire, Waiting, Busy, Stat, Reclaim, Retry, Goto,
     BodyInv, Control, LoopInv, LockTypeOK
<1>3. \A q \in Proc : Decided(q)' <=> Decided(q)
  BY <1>1, <1>2 DEF Decided, bodyVars
<1>4. StoreTable' = StoreTable /\ SpentSoFar' = SpentSoFar /\ RevokedSoFar' = RevokedSoFar
  BY <1>1, <1>3, QuietRefines DEF bodyVars, Parsed
<1> QED BY <1>1, <1>4 DEF bodyVars, Store!storeVars, Sealed

LEMMA TickRefines ==
  ASSUME BodyInv, Exclusive, BodyInv', Exclusive', ProcTick
  PROVE  Store!Tick \/ UNCHANGED Store!storeVars
<1>1. UNCHANGED <<pc, file, step, work, job, issued, line, served, revoked>>
  BY DEF ProcTick, LockTick
<1>2. \A q \in Proc : Decided(q)' <=> Decided(q)
  BY <1>1 DEF Decided
<1>3. StoreTable' = StoreTable /\ SpentSoFar' = SpentSoFar /\ RevokedSoFar' = RevokedSoFar
  BY <1>1, <1>2, QuietRefines DEF Parsed
<1> QED BY <1>1, <1>3 DEF ProcTick, Store!Tick, Store!storeVars, Sealed

LEMMA FileRefines ==
  ASSUME BodyInv, Exclusive, BodyInv', Exclusive', NEW p \in Proc,
         ReadFile(p) \/ DecideDeny(p) \/ Truncate(p) \/ WriteFile(p)
  PROVE  UNCHANGED Store!storeVars
<1> USE DEF ReadFile, DecideDeny, Truncate, WriteFile, At, GotoStep, lockVars
<1>1. UNCHANGED <<pc, job, now, issued, line, served, revoked>>
  OBVIOUS
<1>2. \A q \in Proc : q # p => step'[q] = step[q] /\ work'[q] = work[q]
  BY DEF BodyInv, BodyTypeOK
<1>3. CASE ReadFile(p) \/ DecideDeny(p)
  <2>1. ~Decided(p) /\ ~Decided(p)' /\ Parsed(file)' = Parsed(file)
    BY <1>1, <1>3 DEF Decided, BodyInv, Control, Parsed
  <2>2. \A q \in Proc : Decided(q)' <=> Decided(q)
    BY <1>1, <1>2, <2>1 DEF Decided
  <2>3. \A q \in Proc : Decided(q) => work'[q] = work[q]
    BY <1>2, <2>1
  <2> QED BY <1>1, <2>1, <2>2, <2>3, QuietRefines DEF Store!storeVars, Sealed
<1>4. CASE Truncate(p) \/ WriteFile(p)
  <2>1. Decided(p) /\ Decided(p)' /\ work' = work
    BY <1>1, <1>4 DEF Decided, BodyInv, BodyTypeOK, Control
  <2>2. \A q \in Proc : Decided(q)' <=> Decided(q)
    BY <1>1, <1>2, <2>1 DEF Decided
  <2> QED BY <1>1, <2>1, <2>2, QuietRefines DEF Store!storeVars, Sealed
<1> QED BY <1>3, <1>4

\* By the time the caller is answered, the file is the table decided upon.
LEMMA LeaveRefines ==
  ASSUME BodyInv, Exclusive, BodyInv', Exclusive', NEW p \in Proc, Leave(p)
  PROVE  UNCHANGED Store!storeVars
<1>1. UNCHANGED <<file, now, issued, line>>
  BY DEF Leave
<1>2. /\ pc[p] = "crit" /\ step[p] = "leave"
      /\ \A q \in Proc : ~Decided(q)' /\ (Decided(q) => q = p)
  BY DEF Leave, At, Release, Goto, Forget, Decided, Exclusive, BodyInv, LoopInv, LockTypeOK
<1>3. served \in [Lease -> Nat] /\ served' \in [Lease -> Nat]
  BY DEF BodyInv, BodyTypeOK
<1>4. StoreTable' = Parsed(file) /\ SpentSoFar' = served' /\ RevokedSoFar' = revoked'
  BY <1>1, <1>2, <1>3, MapNext DEF MappedIdle, Parsed
<1>5. CASE job[p] = NoJob
  <2>1. UNCHANGED <<served, revoked>> /\ \A q \in Proc : ~Decided(q)
    BY <1>2, <1>5 DEF Leave, NoJob, Decided
  <2>2. StoreTable = Parsed(file) /\ SpentSoFar = served /\ RevokedSoFar = revoked
    BY <1>3, <2>1, MapIdle DEF MappedIdle
  <2> QED BY <1>1, <1>4, <2>1, <2>2 DEF Store!storeVars, Sealed
<1>6. CASE job[p] # NoJob
  <2>1. /\ Decided(p) /\ file = work[p] /\ Parsed(file) = work[p]
        /\ job[p].lease \in Lease
    BY <1>2, <1>6, ParsedFacts DEF Decided, BodyInv, BodyTypeOK, Control
  <2>2. /\ StoreTable = work[p] /\ SpentSoFar = Owed(p)
        /\ RevokedSoFar = IF job[p].op = "revoke" THEN revoked \cup {job[p].lease} ELSE revoked
    BY <1>2, <1>3, <2>1, MapDecided DEF MappedDecided
  <2>3. served' = Owed(p)
    <3>1. CASE job[p].op = "redeem"
      BY <1>3, <2>1, <3>1 DEF Leave, Owed, Redeems
    <3>2. CASE job[p].op # "redeem"
      BY <1>3, <3>2 DEF Leave, Owed, Redeems
    <3> QED BY <3>1, <3>2
  <2>4. revoked' = RevokedSoFar
    BY <2>2 DEF Leave
  <2> QED BY <1>1, <1>4, <2>1, <2>2, <2>3, <2>4 DEF Store!storeVars, Sealed
<1> QED BY <1>5, <1>6

\* The store as the decider and the next state see it.
LEMMA DecisionMap ==
  ASSUME BodyInv, Exclusive, BodyInv', Exclusive', NEW p \in Proc, At(p, "decide"),
         NEW op \in Operation, NEW l \in Lease, NEW table \in Table, Commit(p, op, l, table)
  PROVE  /\ StoreTable = work[p] /\ SpentSoFar = served /\ RevokedSoFar = revoked
         /\ StoreTable' = table
         /\ SpentSoFar' = IF op = "redeem" THEN [served EXCEPT ![l] = @ + UseUnit] ELSE served
         /\ RevokedSoFar' = IF op = "revoke" THEN revoked \cup {l} ELSE revoked
         /\ work[p] \in Table /\ now' = now
<1>1. served \in [Lease -> Nat] /\ served' = served /\ revoked' = revoked /\ now' = now
  BY OneDecider DEF Commit
<1>2. work[p] = Parsed(file) /\ work[p] \in Table /\ \A q \in Proc : ~Decided(q)
  BY DeciderIsAlone DEF Alone
<1>3. /\ Decided(p)' /\ \A q \in Proc : Decided(q)' => q = p
      /\ work'[p] = table /\ job'[p].op = op /\ job'[p].lease = l
  BY CommitFacts
<1>4. StoreTable = work[p] /\ SpentSoFar = served /\ RevokedSoFar = revoked
  BY <1>1, <1>2, MapIdle DEF MappedIdle
<1>5. /\ StoreTable' = table /\ SpentSoFar' = Owed(p)'
      /\ RevokedSoFar' = IF op = "revoke" THEN revoked \cup {l} ELSE revoked
  BY <1>1, <1>3, MapNext DEF MappedDecided
<1>6. Owed(p)' = IF op = "redeem" THEN [served EXCEPT ![l] = @ + UseUnit] ELSE served
  <2>1. \A k : Redeems(p, k)' <=> op = "redeem" /\ k = l
    BY <1>3 DEF Redeems
  <2>2. Owed(p)' = [k \in Lease |-> IF op = "redeem" /\ k = l THEN served[k] + UseUnit
                                   ELSE served[k]]
    BY <1>1, <2>1 DEF Owed
  <2>3. CASE op = "redeem"
    BY <1>1, <2>2, <2>3
  <2>4. CASE op # "redeem"
    BY <1>1, <2>2, <2>4
  <2> QED BY <2>3, <2>4
<1> QED BY <1>1, <1>2, <1>4, <1>5, <1>6

LEMMA StoreRecordRefines ==
  ASSUME BodyInv, Exclusive, BodyInv', Exclusive', NEW p \in Proc, At(p, "decide"),
         NEW l \in Lease, NEW rec \in Store!Record, NEW anc \in SUBSET Lease,
         StoreRecord(p, l, rec, anc)
  PROVE  /\ issued[l] = None /\ Store!Store(l, rec, anc)
         /\ StoreTable = work[p] /\ work[p] \in Table
<1> DEFINE table == [On(work[p])!Pruned EXCEPT ![l] = rec]
<1>1. /\ issued[l] = None /\ Commit(p, "mint", l, table)
      /\ issued' = [issued EXCEPT ![l] = rec] /\ line' = [line EXCEPT ![l] = anc]
  BY DEF StoreRecord
<1>2. work[p] \in Table
  BY DeciderIsAlone
<1>3. table \in Table /\ "mint" \in Operation
  BY <1>2 DEF Table, Entry, On!Pruned, Operation
<1> HIDE DEF table
<1>4. /\ StoreTable = work[p] /\ SpentSoFar' = SpentSoFar /\ RevokedSoFar' = RevokedSoFar
      /\ StoreTable' = table /\ now' = now
  BY <1>1, <1>3, DecisionMap
<1>5. On(work[p])!Pruned = Store!Pruned
  BY <1>4 DEF On!Pruned, Store!Pruned, On!Known, Store!Known, On!Expired, Store!Expired
<1> QED BY <1>1, <1>2, <1>4, <1>5 DEF Store!Store, Sealed, table

LEMMA MintRefines ==
  ASSUME BodyInv, Exclusive, BodyInv', Exclusive', NEW p \in Proc, DecideMint(p)
  PROVE  Store!Mint
<1>1. PICK l \in Lease, s \in Secret, r \in Requests, ttl \in TTLs, uses \in UseCounts,
           c \in Ceilings :
        /\ On(work[p])!UnderCeiling(c, ttl, uses)
        /\ StoreRecord(p, l, [secret |-> s, scope |-> r, expiresAt |-> now + ttl,
                              usesLeft |-> uses, parent |-> None], {})
  BY DEF DecideMint
<1> DEFINE rec == [secret |-> s, scope |-> r, expiresAt |-> now + ttl,
                   usesLeft |-> uses, parent |-> None]
<1>2. rec \in Store!Record
  <2>1. r \in Store!Scope /\ ttl \in Nat /\ uses \in Nat /\ now + ttl \in Nat
    BY BodyAssumption DEF BodyInv, BodyTypeOK
  <2> QED BY <2>1 DEF Store!Record
<1>3. At(p, "decide") /\ StoreRecord(p, l, rec, {})
  BY <1>1 DEF DecideMint
<1>4. issued[l] = None /\ Store!Store(l, rec, {})
  <2> HIDE DEF rec
  <2> QED BY <1>2, <1>3, StoreRecordRefines
<1>5. Store!UnderCeiling(c, ttl, uses) /\ Sealed[s] # "absent"
  BY <1>1 DEF On!UnderCeiling, Store!UnderCeiling, Sealed
<1>6. Store!mintLease(l, s, r, ttl, uses, c)
  BY <1>4, <1>5 DEF Store!mintLease
<1> QED BY <1>6 DEF Store!Mint

LEMMA AttenuateRefines ==
  ASSUME BodyInv, Exclusive, BodyInv', Exclusive', NEW p \in Proc, DecideAttenuate(p)
  PROVE  Store!Attenuate
<1> DEFINE child(parent, r, ttl, uses) ==
      [secret |-> work[p][parent].secret,
       scope |-> On(work[p])!Narrow(work[p][parent].scope, r),
       expiresAt |-> now + ttl, usesLeft |-> uses, parent |-> parent]
<1>1. PICK l \in Lease, parent \in Lease, r \in Requests, c \in Ceilings :
        /\ On(work[p])!Spendable(parent)
        /\ On(work[p])!ScopeAccepted(work[p][parent].scope, r)
        /\ \E ttl \in On(work[p])!ChildTTLs(parent), uses \in On(work[p])!ChildUses(parent) :
             /\ On(work[p])!UnderCeiling(c, ttl, uses)
             /\ StoreRecord(p, l, child(parent, r, ttl, uses), line[parent] \cup {parent})
  BY DEF DecideAttenuate
<1>2. PICK ttl \in On(work[p])!ChildTTLs(parent), uses \in On(work[p])!ChildUses(parent) :
        /\ On(work[p])!UnderCeiling(c, ttl, uses)
        /\ StoreRecord(p, l, child(parent, r, ttl, uses), line[parent] \cup {parent})
  BY <1>1
<1>3. child(parent, r, ttl, uses) \in Store!Record
  BY <1>1, ChildFacts
<1>4. At(p, "decide") /\ line[parent] \cup {parent} \in SUBSET Lease
  BY DEF DecideAttenuate, BodyInv, BodyTypeOK
<1>5. /\ issued[l] = None /\ StoreTable = work[p]
      /\ Store!Store(l, child(parent, r, ttl, uses), line[parent] \cup {parent})
  <2> HIDE DEF child
  <2> QED BY <1>2, <1>3, <1>4, StoreRecordRefines
<1>6. /\ Store!Spendable(parent) /\ Store!UnderCeiling(c, ttl, uses)
      /\ ttl \in Store!ChildTTLs(parent) /\ uses \in Store!ChildUses(parent)
  BY <1>1, <1>2, <1>5
     DEF On!Spendable, Store!Spendable, On!Known, Store!Known, On!Expired, Store!Expired,
         On!Exhausted, Store!Exhausted, On!UnderCeiling, Store!UnderCeiling, On!ChildTTLs,
         Store!ChildTTLs, On!RemainingTTL, Store!RemainingTTL, On!ChildUses, Store!ChildUses
<1>7. Store!ScopeAccepted(StoreTable[parent].scope, r)
  BY <1>1, <1>5
     DEF On!ScopeAccepted, Store!ScopeAccepted, On!BindField, Store!BindField, On!CeilField,
         Store!CeilField, On!BindingAccepted, Store!BindingAccepted, On!CeilAccepted,
         Store!CeilAccepted, On!PathsAccepted, Store!PathsAccepted, On!pathsSubsumed,
         Store!pathsSubsumed, On!globSubsumes, Store!globSubsumes
<1>8. On(work[p])!Narrow(work[p][parent].scope, r) = Store!Narrow(StoreTable[parent].scope, r)
  BY <1>5 DEF On!Narrow, Store!Narrow, On!BindField, Store!BindField, On!CeilField,
     Store!CeilField, On!narrowBinding, Store!narrowBinding, On!narrowCeil,
     Store!narrowCeil, On!narrowPaths, Store!narrowPaths
<1>9. Store!attenuateLease(l, parent, r, ttl, uses, c)
  BY <1>5, <1>6, <1>7, <1>8 DEF Store!attenuateLease
<1> QED BY <1>6, <1>9 DEF Store!Attenuate

LEMMA RedeemRefines ==
  ASSUME BodyInv, Exclusive, BodyInv', Exclusive', NEW p \in Proc, DecideRedeem(p)
  PROVE  Store!Redeem
<1> DEFINE spentOf(k) == [work[p] EXCEPT ![k].usesLeft = @ - UseUnit]
<1>1. PICK l \in Lease, host \in Target \cup {Unset} :
        On(work[p])!evalLease(l, host) /\ Commit(p, "redeem", l, spentOf(l))
  BY DEF DecideRedeem
<1>2. At(p, "decide") /\ UNCHANGED <<issued, line>>
  BY DEF DecideRedeem
<1>3. work[p] \in Table /\ work[p][l] # None
  BY <1>1, <1>2, DeciderIsAlone DEF On!evalLease, On!Spendable, On!Known
<1>4. spentOf(l) \in Table
  <2>1. work[p][l] \in Store!Record
    BY <1>3, EntryFacts
  <2> DEFINE rest == [work[p][l] EXCEPT !.usesLeft = @ - UseUnit]
  <2>2. rest \in Store!Record
    BY <2>1, BodyAssumption DEF Store!Record
  <2>3. spentOf(l) = [work[p] EXCEPT ![l] = rest]
    BY <1>3 DEF Table
  <2> HIDE DEF rest, spentOf
  <2> QED BY <1>3, <2>2, <2>3 DEF Table, Entry
<1>5. "redeem" \in Operation /\ "redeem" # "revoke"
  BY DEF Operation
<1>6. /\ StoreTable = work[p] /\ StoreTable' = spentOf(l)
      /\ SpentSoFar' = [SpentSoFar EXCEPT ![l] = @ + UseUnit]
      /\ RevokedSoFar' = RevokedSoFar /\ now' = now
  <2> HIDE DEF spentOf
  <2> QED BY <1>1, <1>2, <1>4, <1>5, DecisionMap
<1>7. Store!evalLease(l, host)
  BY <1>1, <1>6
     DEF On!evalLease, Store!evalLease, On!Spendable, Store!Spendable, On!Known, Store!Known,
         On!Expired, Store!Expired, On!Exhausted, Store!Exhausted, On!HostAllowed,
         Store!HostAllowed
<1>8. Store!Materializes(l)
  BY <1>3, <1>6, EntryFacts DEF Store!Materializes, Sealed
<1>9. Store!redeemLease(l, host)
  BY <1>2, <1>6, <1>7, <1>8 DEF Store!redeemLease, Sealed
<1> QED BY <1>9 DEF Store!Redeem, Store!Host

\* Revoking what is not there rewrites the table and is a stutter.
LEMMA RevokeRefines ==
  ASSUME BodyInv, Exclusive, BodyInv', Exclusive', NEW p \in Proc, DecideRevoke(p)
  PROVE  Store!Revoke \/ UNCHANGED Store!storeVars
<1> DEFINE op(l) == IF On(work[p])!Known(l) THEN "revoke" ELSE "rewrite"
           table(l) == [work[p] EXCEPT ![l] = None]
<1>1. PICK l \in Lease : Commit(p, op(l), l, table(l))
  BY DEF DecideRevoke
<1>2. At(p, "decide") /\ UNCHANGED <<issued, line>> /\ work[p] \in Table
  BY DeciderIsAlone DEF DecideRevoke
<1>3. table(l) \in Table
  BY <1>2 DEF Table, Entry
<1>4. op(l) \in Operation /\ op(l) # "redeem" /\ (op(l) = "revoke" <=> work[p][l] # None)
  BY DEF Operation, On!Known
<1>5. /\ StoreTable = work[p] /\ StoreTable' = table(l)
      /\ SpentSoFar' = SpentSoFar /\ now' = now
      /\ RevokedSoFar' = IF op(l) = "revoke" THEN RevokedSoFar \cup {l} ELSE RevokedSoFar
  <2> HIDE DEF op, table
  <2> QED BY <1>1, <1>2, <1>3, <1>4, DecisionMap
<1>6. CASE work[p][l] # None
  <2>1. Store!revokeLease(l)
    BY <1>2, <1>4, <1>5, <1>6 DEF Store!revokeLease, Store!Known, Sealed
  <2> QED BY <2>1 DEF Store!Revoke
<1>7. CASE work[p][l] = None
  <2>1. table(l) = work[p]
    BY <1>2, <1>7 DEF Table
  <2> QED BY <1>2, <1>4, <1>5, <1>7, <2>1 DEF Store!storeVars, Sealed
<1> QED BY <1>6, <1>7

LEMMA StepRefines ==
  ASSUME BodyInv, Exclusive, BodyInv', Exclusive', ProcNext
  PROVE  [Store!Next \/ crashes' # crashes]_(Store!storeVars)
<1>1. ASSUME NEW p \in Proc, Wait(p)
      PROVE  UNCHANGED Store!storeVars
  BY <1>1, WaitRefines
<1>2. ASSUME NEW p \in Proc, ReadFile(p) \/ DecideDeny(p) \/ Truncate(p) \/ WriteFile(p)
      PROVE  UNCHANGED Store!storeVars
  BY <1>2, FileRefines
<1>3. ASSUME NEW p \in Proc, DecideMint(p) \/ DecideAttenuate(p) \/ DecideRedeem(p)
      PROVE  Store!Next
  BY <1>3, MintRefines, AttenuateRefines, RedeemRefines DEF Store!Next
<1>4. ASSUME NEW p \in Proc, DecideRevoke(p)
      PROVE  Store!Next \/ UNCHANGED Store!storeVars
  BY <1>4, RevokeRefines DEF Store!Next
<1>5. ASSUME NEW p \in Proc, Leave(p)
      PROVE  UNCHANGED Store!storeVars
  BY <1>5, LeaveRefines
<1>6. ASSUME NEW p \in Proc, Die(p)
      PROVE  crashes' # crashes
  BY <1>6, LockAssumption DEF Die, Crash, BodyInv, LoopInv, LockTypeOK
<1>7. CASE ProcTick
  BY <1>7, TickRefines DEF Store!Next
<1> QED BY <1>1, <1>2, <1>3, <1>4, <1>5, <1>6, <1>7 DEF ProcNext, Body

\* Processes interleaving their system calls on the file, and killed between
\* any two of them, perform the atomic operations of LeaseStore; a kill is the
\* only other step, and what follows it is again what LeaseStore allows.
THEOREM FileImplementsStore == ProcSpec /\ []Exclusive => ImplementsStore
<1>1. ProcInit => Store!Init
  <2> SUFFICES ASSUME ProcInit
               PROVE  Store!Init
    OBVIOUS
  <2>1. served \in [Lease -> Nat] /\ \A q \in Proc : ~Decided(q)
    BY DEF ProcInit, LockInit, Decided
  <2>2. StoreTable = Empty /\ SpentSoFar = served /\ RevokedSoFar = {}
    BY <2>1, MapIdle, ParsedFacts, EmptyTable DEF MappedIdle, ProcInit
  <2>3. Sealed \in [Secret -> {"absent", "sealed"}]
    BY DEF Sealed
  <2> QED BY <2>2, <2>3 DEF ProcInit, Store!Init, Empty
<1>2. BodyInv /\ Exclusive /\ BodyInv' /\ Exclusive' /\ [ProcNext]_procVars
      => [Store!Next \/ crashes' # crashes]_(Store!storeVars)
  <2>1. CASE BodyInv /\ Exclusive /\ BodyInv' /\ Exclusive' /\ ProcNext
    BY <2>1, StepRefines
  <2>2. CASE BodyInv /\ UNCHANGED procVars
    <3>1. /\ UNCHANGED <<now, issued, line, file, pc, step, work, job, served, revoked>>
      BY <2>2 DEF procVars, lockVars, bodyVars
    <3>2. UNCHANGED Store!storeVars
      BY <3>1 DEF Store!storeVars, Sealed, StoreTable, SpentSoFar, RevokedSoFar, Decided,
         Pending, Parsed
    <3> QED BY <3>2
  <2> QED BY <2>1, <2>2
<1> QED BY <1>1, <1>2, BodyInvariant, PTL DEF ProcSpec, ImplementsStore

-----------------------------------------------------------------------------
(* Where the hypothesis holds.                                             *)

\* No reclaim of a live holder's lockfile: then the store is implemented,
\* whoever is killed.
THEOREM OnlyReclaimsBreakTheStore == ProcSpec /\ ReclaimsOrphans => ImplementsStore
<1>1. ProcSpec => LockInit /\ [][LockNext]_lockVars
  BY LockSteps, PTL DEF ProcSpec, ProcInit
<1> QED BY <1>1, OnlyReclaimsRace, FileImplementsStore, PTL

\* No kill inside a section, and no section longer than the staleness limit.
THEOREM StoreHoldsUntilAKill ==
  ASSUME MaxHold <= StaleAfter
  PROVE  ProcSpec /\ []~orphaned => ImplementsStore /\ []NoDoubleSpend /\ RevocationSticks
<1>1. ProcInit => AgeInv /\ OwnerInv
  BY InitAge, InitOwner DEF ProcInit
<1>2. AgeInv /\ OwnerInv /\ [ProcNext]_procVars => AgeInv' /\ OwnerInv'
  <2> SUFFICES ASSUME AgeInv, OwnerInv, [ProcNext]_procVars
               PROVE  AgeInv' /\ OwnerInv'
    OBVIOUS
  <2>1. [LockNext]_lockVars /\ LockTypeOK /\ StaleIsOrphan
    BY LockSteps, AgeOfStale DEF AgeInv, LoopInv
  <2> QED BY <2>1, StepAge, StepOwner
<1>3. OwnerInv /\ ~orphaned => Exclusive
  BY DEF OwnerInv, Exclusive
<1> QED BY <1>1, <1>2, <1>3, FileImplementsStore, NoUseIsSpentTwice, RevokedStaysRevoked, PTL
        DEF ProcSpec
=============================================================================
