------------------------------ MODULE LeaseLock ------------------------------
(***************************************************************************)
(* withLock of src/lease.mjs, one action per system call: the advisory     *)
(* lockfile that every read-modify-write of leases.json and every rekey    *)
(* runs under.                                                             *)
(*                                                                         *)
(* A process may be preempted, or killed, between any two system calls.    *)
(* The lockfile carries its age (time since its mtime) and, as history,    *)
(* the process that created it.  Absolute time is not needed: an age above *)
(* StaleAfter is as good as any other, so ages saturate just above it.     *)
(***************************************************************************)
EXTENDS Naturals, FiniteSets

CONSTANTS
  Proc,        \* processes (CLI calls, daemons, brokers) sharing one home
  NoFile,      \* the lockfile does not exist
  StaleAfter,  \* LOCK_STALE_MS
  MaxTries,    \* iterations of the acquire loop (400)
  MaxHold,     \* assumed bound on the time a section is held
  MaxCrashes,  \* bound on the processes killed
  Respawn      \* whether a killed process is replaced by another caller

ASSUME LockAssumption ==
  /\ StaleAfter \in Nat /\ MaxHold \in Nat /\ MaxCrashes \in Nat
  /\ MaxTries \in Nat \ {0}
  /\ Respawn \in BOOLEAN
  /\ NoFile \notin [age : Nat, by : Proc]

VARIABLES
  lock,     \* the lockfile: NoFile, or its age and creator
  pc,       \* where each process is in withLock
  tries,    \* i of the acquire loop
  hold,     \* time since the process created its lockfile
  \* history:
  crashes,  \* processes killed so far
  orphaned  \* one of them was inside its section

lockVars == <<lock, pc, tries, hold, crashes, orphaned>>

Stage == {"idle", "open", "stat", "unlink", "sleep", "crit", "dead"}
Age == 0 .. StaleAfter + 1

LockTypeOK ==
  /\ lock \in [age : Age, by : Proc] \cup {NoFile}
  /\ pc \in [Proc -> Stage]
  /\ tries \in [Proc -> 0 .. MaxTries]
  /\ hold \in [Proc -> 0 .. MaxHold]
  /\ crashes \in 0 .. MaxCrashes
  /\ orphaned \in BOOLEAN

LockInit ==
  /\ lock = NoFile
  /\ pc = [p \in Proc |-> "idle"]
  /\ tries = [p \in Proc |-> 0]
  /\ hold = [p \in Proc |-> 0]
  /\ crashes = 0
  /\ orphaned = FALSE

-----------------------------------------------------------------------------

Goto(p, stage) == pc' = [pc EXCEPT ![p] = stage]

\* Mutant: off by one, >= for >.
Stale_atLimit == lock # NoFile /\ lock.age >= StaleAfter

Stale == lock # NoFile /\ lock.age > StaleAfter

\* A process calls an operation that takes the lock.
Call(p) ==
  /\ pc[p] = "idle"
  /\ Goto(p, "open")
  /\ tries' = [tries EXCEPT ![p] = 0]
  /\ UNCHANGED <<lock, hold, crashes, orphaned>>

\* Mutant: the file is opened without O_EXCL.
Acquire_shared(p) ==
  /\ pc[p] = "open"
  /\ lock' = [age |-> 0, by |-> p]
  /\ Goto(p, "crit")
  /\ hold' = [hold EXCEPT ![p] = 0]
  /\ UNCHANGED <<tries, crashes, orphaned>>

\* openSync(lf, 'wx'): creates the file, or fails because it exists.
Acquire(p) ==
  /\ pc[p] = "open"
  /\ lock = NoFile
  /\ lock' = [age |-> 0, by |-> p]
  /\ Goto(p, "crit")
  /\ hold' = [hold EXCEPT ![p] = 0]
  /\ UNCHANGED <<tries, crashes, orphaned>>

Busy(p) ==
  /\ pc[p] = "open"
  /\ lock # NoFile
  /\ Goto(p, "stat")
  /\ UNCHANGED <<lock, tries, hold, crashes, orphaned>>

\* Mutants: every lockfile, or none, is taken for an orphan.
Stat_always(p) ==
  /\ pc[p] = "stat"
  /\ Goto(p, IF lock # NoFile THEN "unlink" ELSE "sleep")
  /\ UNCHANGED <<lock, tries, hold, crashes, orphaned>>
Stat_never(p) ==
  /\ pc[p] = "stat"
  /\ Goto(p, "sleep")
  /\ UNCHANGED <<lock, tries, hold, crashes, orphaned>>

\* statSync(lf) and the staleness test; a vanished file throws into the sleep.
Stat(p) ==
  /\ pc[p] = "stat"
  /\ Goto(p, IF Stale THEN "unlink" ELSE "sleep")
  /\ UNCHANGED <<lock, tries, hold, crashes, orphaned>>

\* unlinkSync(lf): removes whatever file has the name by now, if any.
Reclaim(p) ==
  /\ pc[p] = "unlink"
  /\ lock' = NoFile
  /\ Goto(p, "sleep")
  /\ UNCHANGED <<tries, hold, crashes, orphaned>>

\* Mutants: one try too many, or no limit.
Retry_oneMore(p) ==
  /\ pc[p] = "sleep"
  /\ tries' = [tries EXCEPT ![p] = @ + 1]
  /\ Goto(p, IF tries[p] < MaxTries THEN "open" ELSE "idle")
  /\ UNCHANGED <<lock, hold, crashes, orphaned>>
Retry_forever(p) ==
  /\ pc[p] = "sleep"
  /\ Goto(p, "open")
  /\ UNCHANGED <<lock, tries, hold, crashes, orphaned>>

\* sleepSync(5) and the loop test; after the last try the call throws.
Retry(p) ==
  /\ pc[p] = "sleep"
  /\ tries' = [tries EXCEPT ![p] = @ + 1]
  /\ Goto(p, IF tries[p] + 1 < MaxTries THEN "open" ELSE "idle")
  /\ UNCHANGED <<lock, hold, crashes, orphaned>>

\* The section is over: the finally closes and unlinks.
Release(p) ==
  /\ pc[p] = "crit"
  /\ lock' = NoFile
  /\ Goto(p, "idle")
  /\ hold' = [hold EXCEPT ![p] = 0]
  /\ UNCHANGED <<tries, crashes, orphaned>>

\* The process is killed; whatever file it created stays.
Crash(p) ==
  /\ crashes < MaxCrashes
  /\ pc[p] \notin {"idle", "dead"}
  /\ Goto(p, IF Respawn THEN "idle" ELSE "dead")
  /\ hold' = [hold EXCEPT ![p] = 0]
  /\ crashes' = crashes + 1
  /\ orphaned' = (orphaned \/ pc[p] = "crit")
  /\ UNCHANGED <<lock, tries>>

\* Time passes for the file and for the processes inside their section.
LockTick ==
  /\ \A p \in Proc : pc[p] = "crit" => hold[p] < MaxHold
  /\ hold' = [p \in Proc |-> IF pc[p] = "crit" THEN hold[p] + 1 ELSE hold[p]]
  /\ lock' = IF lock = NoFile \/ Stale THEN lock ELSE [lock EXCEPT !.age = @ + 1]
  /\ UNCHANGED <<pc, tries, crashes, orphaned>>

Waiting(p) == Busy(p) \/ Stat(p) \/ Reclaim(p) \/ Retry(p)
LockStep(p) == Acquire(p) \/ Waiting(p) \/ Release(p)

LockNext ==
  \/ \E p \in Proc : Call(p) \/ LockStep(p) \/ Crash(p)
  \/ LockTick

\* A process that is not killed keeps running, its section ends, time goes on.
LockFairness ==
  /\ \A p \in Proc : WF_lockVars(LockStep(p))
  /\ WF_lockVars(LockTick)

LockSpec == LockInit /\ [][LockNext]_lockVars /\ LockFairness

\* Agents keep asking: some call is always made again.
BusyLockSpec == LockSpec /\ \A p \in Proc : WF_lockVars(Call(p))

-----------------------------------------------------------------------------
(* Properties.                                                             *)

\* Until a holder is killed, at most one process is inside a section, whatever
\* happens to the waiters.  (After that, of two waiters that judged the same
\* orphan stale, the slower one unlinks the lockfile of the faster one.)
MutualExclusion ==
  ~orphaned => \A p, q \in Proc : pc[p] = "crit" /\ pc[q] = "crit" => p = q

\* The file of a process that is still inside its section is never old enough
\* to be taken for an orphan: no section lasts longer than the limit.
Orphan == lock # NoFile /\ pc[lock.by] # "crit"
StaleIsOrphan == Stale => Orphan

\* Every call returns: with the section run, or by throwing.
CallReturns == \A p \in Proc : pc[p] = "open" ~> pc[p] \in {"idle", "dead"}

\* A lockfile orphaned by a killed holder does not disable the vault for ever.
OrphanReclaimed == Orphan ~> ~Orphan
=============================================================================
