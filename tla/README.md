# A TLA+ verification of strongroom

strongroom (`keeper` on the command line) keeps secrets encrypted at rest and
hands them out as *leases*: ids that are good for a time, a number of uses and
a destination. Everything lives in one directory, shared by short-lived CLI
processes, redeem daemons, egress brokers and MCP servers that coordinate
through nothing but its files. This directory models that program, checks the
models with TLC and proves the central theorems with TLAPS.

## 1. The system

| Component | Source | State it keeps | Operations |
|---|---|---|---|
| lease lock | `src/src/lease.mjs` `withLock` | `.leases.lock` and its mtime | acquire loop, reclaim of a stale lockfile, give up, release |
| lease store | `src/src/lease.mjs` | `leases.json` | mint, attenuate (delegate), redeem, revoke by id or hash, peek, list |
| vault | `src/src/vault.mjs` | `vault.json`, `vault.json.new`, `salt` / `master.key` / keychain entries, a cached key per process | put, get, remove, rekey |
| audit | `src/src/audit.mjs`, `chain.mjs` | `audit.jsonl`, `audit.tip.json`, `audit.protected` | record, verify |
| library | `src/src/index.mjs` | none | one function per command: grant, delegate, redeem, revoke, add, remove, rekey, each followed by an audit record |
| egress broker | `src/src/broker.mjs` | in memory: rate windows, in-flight counters, a carry per response | one HTTP handler: canonicalise, peek, admit, redeem, relay, redact |
| redeem daemon, client | `src/src/daemon.mjs`, `client.mjs` | a socket path, the info file with a token, a backlog of lines | start, stop, redeem, check, revoke over a line protocol; a call with a timer |
| keychain | `src/src/keychain.mjs` | an entry of the OS keychain | available, get, set, delete |
| CLI, MCP server | `cli.mjs`, `src/mcp/server.mjs` | none of their own | front ends; the MCP server runs a broker beside its tools |

How they interact. Every read-modify-write of `leases.json` and every rekey
runs inside `withLock`. Puts and removes of secrets, all reads, and the audit
take no lock. A redeem decrypts the secret inside the lock and consumes a use
only if that succeeds. A rekey, also inside the lock, replaces the vault *and*
the key store, two files or a file and a keychain entry, so it is a small
commit protocol with a staged file that the next rekey adopts or discards. The
audit record of an operation is written after it, by the same process. The
broker peeks at a lease, admits the request under the lease's caps, awaits its
body, redeems, and relays the answer. The MCP server grants and revokes leases
next to a broker in the same process. A caller without the master key asks the
daemon, which it finds through the socket path and the token in the info file;
daemons replace each other on that path without knowing of each other. Every
process that needs the master key looks for it in one of three key stores, makes
one if it finds none, and keeps it.

What is hard here, and where (each is an entry of `hazards` in `PROJECT.json`):

* *Several processes, advisory locking by file age.* A process can be killed or
  suspended between any two system calls; the age test and the unlink are two.
* *Files written in place.* `writeFileSync` truncates first. A kill in between
  leaves `leases.json`, `vault.json`, a salt or a key file blank.
* *A multi-file commit with retries.* A killed rekey leaves any prefix of its
  steps; the next one has to tell committed from uncommitted with the
  credentials it happens to run under.
* *Unlocked read-append-commit in the audit,* killed anywhere, under a key that
  rotates and that daemons cache.
* *Await points in the broker:* the lease is read before them and used after;
  counters raised by the handler are lowered by an event.
* *Chains of delegation* that are checked against the immediate parent only.
* *Look, then write* of the first key, with read errors that look like absence.
* *A client's timer against a late answer:* what a caller that gave up may
  conclude; a socket and a token that outlive their daemon, or that another
  daemon cleans up.
* *Best effort:* failing writes of the audit's line, tip and marker, and failing
  removals of old keys, are swallowed, and the operation goes on.
* *Streaming redaction* of a secret split over chunks; a path that is decoded and
  normalised before it is matched.

Correctness of each part, in one line: the lock excludes and never wedges; a
lease yields no more than was granted, at any depth of delegation; a process
interleaving system calls looks like one step; a rekey loses no secret, serves
no stale one and can always be run again; the log stays one chain, an untouched
log verifies and a lost line is reported; the broker's caps hold and its slots
come back unless an upstream holds them, and a lease revoked beside it sends
nothing more; what a caller of the daemon is told says whether a use was spent;
nothing is sealed under a key that is not kept; a glob that delegation accepts
matches nothing its parent does not; the path that is matched is anchored;
chunking never changes what redaction removes.

## 2. The modules

```
Attenuation ──► LeaseStore ──► LeaseStoreProofs
                    ▲  INSTANCE (operators, and as abstract specification)
                LeaseProc ──► LeaseProcProofs
                    │  EXTENDS                   Broker ──► BrokerProofs
                    ▼                            Daemon ──► DaemonProofs
                LeaseLock                        MasterKey ──► MasterKeyProofs
PathGlob ──► EgressPath ──► MCFilters            Rekey ──► RekeyProofs
                   │           ▲                 AuditLog ──► AuditLogProofs
                   ▼           │
            FilterProofs ◄── RedactStream
```

* **Attenuation** is `attenuateLease`'s scope arithmetic: three destination
  bindings, two ceilings, a path allowlist. Each helper is split into the
  condition under which it does not throw and the value it returns. `Permits`
  gives a scope its meaning independently of how it was derived.
* **LeaseStore** is the abstract specification: every operation of `lease.mjs`
  as one atomic step on the table, with the vault states that a redeem depends
  on (`absent`, `sealed`, `broken`) and a clock. Uses are integers in units of
  `1/UseUnit`, since `--uses` takes any finite positive number.
* **LeaseLock** is `withLock`, one action per system call, with the age of the
  lockfile and processes that are killed.
* **LeaseProc** is what really runs: LeaseLock around a body of read, decide,
  truncate, write. It evaluates LeaseStore's own operators on the table a
  process holds (`On(table)`), so the decision logic is written once, and then
  instantiates LeaseStore as the specification it implements.
* **Rekey** is `rekeyVault`, with `vault.json`, `vault.json.new` and the four
  places key material is kept, beside put and remove. A key that cannot be read
  discards the staged vault, removals may fail in silence, and the rekey returns
  all the same.
* **AuditLog** is `record` and `verify`, one action per file access, over the
  hash chain of `chain.mjs`. An append that fails ends the record; a tip or a
  marker that fails is swallowed, as the code swallows it.
* **Broker** is the life of a request from arrival to the close of its
  response, with the rate window and the concurrency counter; the tools of the
  MCP server that grant and revoke leases in the same process; and a restart,
  which forgets windows and counters and loses the use of a request that had
  redeemed and not left. From a redeem to the hand-off to `fetch` the handler
  awaits nothing, so no other request and no tool of the process runs
  (`Yielded`), but the lease lock is free and files are written: other processes
  redeem and revoke in between, time passes, the audit may fail.
* **Daemon** is the redeem daemon and its callers: several daemons on one socket
  path (clear a stale socket, bind, publish the token in two steps, stop, close,
  clean up once more when the process of a closed one exits, be killed), the
  backlog of lines each handles one at a time, and calls with
  their timer and three ways to fail. The lease is a counter and a flag here;
  what a redeem decides is LeaseStore's matter.
* **MasterKey** is how processes find, make, store and cache the master key in
  the three key stores, with looking and storing apart. In Rekey that is one
  step.
* **PathGlob**, **EgressPath** and **RedactStream** are pure algorithms. Their
  state machines only enumerate inputs (two globs and a request target grown
  token by token; a body arriving in chunks), and an independent definition is
  the reference: what a glob matches, what an anchored path is, the redaction
  of the whole body. `MCFilters` checks the three in one run, one at a time.
* **MC\*** modules give finite values to constants. Definitions named
  `X_something` after a comment "Mutant:" are plausible mistakes in `X`; nothing
  uses them but mutation runs, which put them in place of `X` and expect the
  property to fail.

Correspondence. Names follow the source (`evalLease`, `narrowBinding`,
`lastHashOf`, `withinRate`, ...). `leases`/`file` is `leases.json`; `lock` the
lockfile; `vault`, `staged`, `keys` the files and keychain entries of the
vault, `place` the one key store of MasterKey and `cache` its `_keyCache`; `log`,
`tip`, `marker` the three audit files; `windows`, `inflight` the broker's two
maps; `node` and `info` the socket path and the info file of the daemon. Variables under "history" in each declaration do not exist
in the code; actions write them and no guard of an operation reads them, except
where they make ids fresh (`issued[l] = None`: ids are 144 random bits) or
count toward a bound.

What the models take as given:

* a system call is atomic, except that `writeFileSync` is a truncation and a
  write; `appendFileSync` and `rename` are one step;
* AES-GCM opens a record under its own key only; hashes do not collide; a MAC
  verifies under its own key only. A blank salt still derives a key from a
  passphrase, a blank key file does not;
* the clock does not go back;
* reading a request body throws when the client leaves before it is complete, and
  Node runs nothing of the same request between the last chunk and the handler's
  continuation; every rejection before the limits (400, 403) is `Refuse`;
* each keychain call is one step; in Rekey so is creating the first key;
* a connection to the daemon carries one line, as `request()` uses it, and sockets
  behave as on POSIX (on Windows a named pipe has no file to clean up); all calls
  of the Daemon model are about one lease;
* a percent escape is one token, and `decodeURIComponent` fails on a malformed one
  as a whole;
* a call that the code rejects changes no state of `LeaseStore` and is not a
  step there (in LeaseProc it is: `DecideDeny`, with its lock traffic).

## 3. The runs

`tlc -config <cfg> <module>`; counts are distinct states.

| Run | Bounds | States | Shows |
|---|---|---|---|
| `store` | 3 leases, 2 hosts, 2 endpoints, 3 requested scopes, grants of 1 and 1½ uses, TTL 1, clock 0..2 | 1.3 M | type invariant; `UsesConserved`, `NeverWiden`, `OnlyDeadLeasesVanish`, `LineHonoured` |
| `lock` | 3 processes, 3 tries, 2 kills, staleness 2, sections ≤ 2 | 171 k | `MutualExclusion`, `StaleIsOrphan`, liveness `CallReturns`, `OrphanReclaimed` |
| `proc` | 2 processes, 2 leases, clock 0..2, one kill anywhere, no newcomer | 176 k | LeaseProc implements LeaseStore up to the kill; `NoDoubleSpend`, `RevocationSticks` across it |
| `proc_race` | a kill, then two callers | – | violation: see findings |
| `rekey` | 2 secrets, 2 passphrases, 3 back ends, 4 keys, 2 values, 2 kills, one kind of mishap | 4.9 M | five properties, below |
| `rekey_retry` | 1 secret, one kill, either credentials | – | violation: see findings |
| `audit` | a CLI and a daemon, 4 lines, 2 keys, a kill, a loss, any failing writes | 3.7 M | five properties, below |
| `audit_fork` | two recorders that may overlap | – | violation: see findings |
| `broker` | 3 requests, 2 uses, rate 2 per window of 2, concurrency 2, clock 0..2, 1 restart | 1.2 M | `CapHeld`, `NoSlotLeak`, `AdmissionsWithinRate`, `UsesAccountedFor`, `RevokeCutsOff`, liveness `SlotsReturn` |
| `daemon` | 2 callers (one redeems, one does anything), 2 daemons, 1 use, 1 kill, one kind of mishap | 2.6 M | `NoSilentSpend`, `SureCallsServed`, `RestartBinds`, liveness `EveryCallAnswered` |
| `master_key` | 3 processes, 3 keys, each back end, any restarts | 2.6 M | `SealedStaysReadable`, `KeysAgree`, `AuditMakesNoKey` |
| `filters` | all pairs of globs of up to 4 tokens over `*`, `/`, `?`, a letter, with paths of up to 4 over two letters; all request targets of up to 5 tokens over a letter, `.`, `/`, `?`, five escapes; all secrets of up to 4 bytes, bodies of up to 9, chunks of up to 4, two bytes | 244 k | `globSubsumes` is exactly inclusion of what `pathAllowed` matches; a canonical path is anchored; streaming equals redacting the whole body, with one audit event |

Why the bounds are enough. *store*: three leases give a grandchild, so a
widening that needs two delegations shows; 1 and 1½ uses reach both a count
that hits zero and one that dips below; a lease that is alive at its
`expiresAt` and dead one later needs TTL 1 and clock 2. The three scopes meet a
tighter, equal, wider, conflicting and absent request in every field. Secrets
do not interact, so one suffices; ceilings only reject, and the theorems cover
them. *lock*: a holder and two waiters are the least for a race between
reclaims; ages saturate just above the limit because nothing distinguishes
larger ones; a kill of a replacement is the second kill. *proc*: two processes
are enough for every race over one file, since the file carries no identity.
*rekey*: three rekeys in a row need four keys; two secrets distinguish "all" from
"some"; two kills let a retry be killed too; a behaviour
has one kind of mishap, the theorems any number. *audit*:
four lines let a covered line be lost and the log grow back to the length of
its tip through a record written without the key. *broker*: with cap 2 and rate
2, three requests include one refused by each limit, two whose bodies are
awaited at once and one that finds the window slid; requests through different leases share only the clock; one restart
separates requests before it from those after. *daemon*: a second daemon is the
least for a restart and for an overlap, a second caller the least for a backlog,
for a use that is gone when the line is reached, and for a close that waits for
another connection; one use separates a spent lease from a fresh one. The two
kinds of mishap do not meet in one behaviour (`MaxMishaps`). *master_key*: one
process that stores, one that looks meanwhile and one that uses what either
left; three keys let a replaced key be replaced. *glob*: a
counterexample to inclusion between globs of n tokens needs a path hardly longer
than the child; a letter outside every glob stands for all others. *targets*: five
tokens hold `..` twice with a separator, raw or escaped, and a double escape.
*redact*: a
secret of four bytes over two letters includes every overlap pattern of a
prefix with itself, and chunks up to its length include every split.

`CHECK_DEADLOCK FALSE` appears where a finite supply ends legitimately: all
leases issued and dead is not such a case (the clock and the vault remain), but
requests, calls, daemons, chunks, tokens of a glob and stored versions do run out.

Symmetry is used only where no liveness property is checked.

**Fairness.** `LockFairness` is weak fairness of each process's next system
call and of time: a process that is not killed keeps being scheduled, its
section is synchronous code that ends. `CallReturns` needs only that.
`OrphanReclaimed` needs in addition that somebody keeps calling
(`BusyLockSpec`), because nothing but another caller ever looks at an orphan.
In Broker, weak fairness covers the handler between a redeem and `fetch`, the
redeem after a body (Node times out bodies that do not arrive), the abort timer
armed before `fetch`, and the `close` of a short answer of the broker itself.
Nothing is assumed of an upstream: `Headers` is not fair, so `SlotsReturn` rests
on the timer; and after the headers the timer is cleared and nothing in the code
bounds the response, so `SlotsReturn` ends there. In Daemon only a caller's own
timer is fair: daemons may hang, be suspended or never start, and
`EveryCallAnswered` holds all the same.

## 4. Properties that hold under a condition

Some of what one would like to say of the code is true only while certain
things do not happen. Such a property is stated with the condition in it, and
the run also explores the behaviours outside the condition, so the other
properties are checked there too. `met` records which *mishaps* a behaviour has
met.

| Property | Condition | What happens outside it |
|---|---|---|
| `MutualExclusion` | no holder killed inside its section | two waiters that judged the same orphan stale: the slower unlink removes the faster one's lockfile (`lease.mjs:32`) |
| `StaleIsOrphan` | no section outlasts the staleness limit (`MaxHold <= StaleAfter`) | the mtime is never refreshed, so a live holder that takes longer than 10 s, a rekey prompting the keychain or a suspended process, is taken for an orphan (`lease.mjs:20`) |
| `NoSecretLost`, `NeverStuck` | kills between steps, right credentials afterwards, a key store that can be reached, no add or remove alongside | wrong credentials, or no access to the key store: the staged vault is discarded, whatever it holds (`vault.mjs:159-166`); a kill inside the write of the salt or `master.key`: the old key is gone before the new one exists (`vault.mjs:201`); an add beside a rekey: records sealed under the retired key (`vault.mjs:109`) |
| `VaultCurrent`, `FinishedRekeyReadable` | no add or remove alongside | adoption compares names, not values: an add between a killed rekey and the next is undone (`vault.mjs:162`) |
| `OldKeyRetired` | no add or remove alongside; that nothing else is left also needs that no rekey was killed and no removal failed | nothing remembers the old store after a kill between rename and retire, or after a removal that failed and was swallowed (`vault.mjs:208-213`, `keychain.mjs:70-84`); what stays opens no record of the live vault, which is the rest of the property |
| `ChainLinked` | records do not overlap | two recorders seed from the same hash (`audit.mjs:70`) |
| `NoFalseAlarm` | no kill, no loss, no failing append, every command has the key, daemons restarted on rekey | a daemon left running commits tips under its cached old key (`vault.mjs:31`) |
| `LossCaught` | until the next tip, records do not overlap, not both the whole log lost and its tip emptied | `writeTip` commits the log as it finds it, and with it the loss (`audit.mjs:45`); a failing write in place may leave the tip unreadable, and an empty log without a tip is a fresh one (`audit.mjs:55`) |
| `DowngradeRefused` | no record killed between its tip and the marker, no marker that cannot be written, records do not overlap | the log has a tip and verifies without the key as if it had none, until a record with the key writes the marker (`audit.mjs:57`) |
| `RecordHeals` | the record's own tip can be written, records do not overlap, no stale daemon; lines that do not parse stay | a tip that cannot be written is swallowed, and the record has succeeded all the same (`audit.mjs:50-56`) |
| `AdmissionsWithinRate` | of admissions, not of sends, and of one run of the broker | a request takes its place in the window before its body is read; slow uploads of different windows may leave together (`broker.mjs:172`). A restart forgets the window (`broker.mjs:85`) |
| `SureCallsServed`, `RestartBinds` | no daemon starts while the process of another one is there, a closed one included (`SureCallsServed`: and the info file can be written) | the second takes the path over and the first one's exit removes the socket and the info file of the second; the exit handlers stay after `close` (`daemon.mjs:82-90`). Without an info file callers send no token or an old one (`daemon.mjs:77`) |
| `SealedStaysReadable`, `KeysAgree` | nobody looks for the key while another process makes one; a key that is there can be read | the later write wins and what was sealed under the earlier key is lost (`vault.mjs:40`); a locked keychain or a sharing violation is taken for a fresh vault and the key is replaced (`keychain.mjs:44`) |
| `AuditMakesNoKey` | key file or keychain; a key that is there can be read | a passphrase counts as a key that exists, so the audit makes the salt (`vault.mjs:66`); a key that cannot be read is replaced by an audit as by any command (`vault.mjs:40`) |
| `RevokeCutsOff` | the revocation is this process's | a request that had redeemed when another process revoked, or when the lease expired, still leaves, one at most (`broker.mjs:184-212`) |
| `UsesAccountedFor` | at most one use lost per restart and per answer 502 | a use is spent before its audit record is written; when that throws the request does not leave (`index.mjs:72`) |
| `SlotsReturn` | until an upstream has answered | nothing bounds a response after its headers, nor a client that does not read it (`broker.mjs:217`) |

An exhausted lease also stays in `leases.json` until it expires: both mints
prune by expiry only, although the comment at `lease.mjs:285` says it is
"pruned on next mint". The models follow the code.

## 5. Findings

Three runs check a statement the repository makes and find it violated.

* `proc_race`: a holder is killed, two callers both find its lockfile stale, the
  first unlinks it and creates its own, the second unlinks *that*, and both
  redeem the same one-use lease. The README says redeems "can't double-spend a
  one-use lease". It takes a killed holder and a waiter that is delayed between
  `statSync` and `unlinkSync`.
* `rekey_retry`: a rekey is killed after the new key store is in place and
  before the rename; the user retries with the old credentials. The staged vault
  does not open under them and is discarded, and it was the only copy the
  surviving key material opens. The README says an interrupted swap "is
  completed or discarded safely on the next run". (Retried with the *new*
  credentials it is: that is `NoSecretLost`.)
* `audit_fork`: two processes that record at the same time write the same
  `prev`, and the log no longer verifies. The comment at `audit.mjs:64` says the
  chain "is correct regardless of process lifetime".

## 6. The proofs

Every safety invariant and every action property that a run checks is also a
theorem, for every value of the constants, and so is the refinement of
LeaseStore by LeaseProc. All obligations are discharged by SMT, Zenon and LS4
with nothing assumed but the named ASSUMEs of the modules: limits and bounds are
natural numbers, sets of characters, keys and values that mean different things
do not meet, an absent value is not a value, the letters of globs are not all
letters, and the sets of requests and of calls are finite. Two groups of theorems
have a hypothesis of their own, named below.

**LeaseStoreProofs**, for every set of leases, secrets, endpoints, requested
scopes, lifetimes, use counts and ceilings and every use unit: `TypeCorrect`,
`NoOverspending` (`UsesConserved`), `DelegationNarrows` (`NeverWiden`),
`LiveLeasesStay` (`OnlyDeadLeasesVanish`) and `RedemptionHonoursLine`
(`LineHonoured`, an action property). The invariant is `StoreInv`. It adds to
the properties:

* `RecordsImmutable`: only the use counter of a stored record changes. The
  code checks a child against the parent's *current* record, the properties
  speak of what the parent was *minted* with; this connects the two.
* `FreshHasNoHistory`: an unissued id has nothing spent and no ancestors, so a
  mint starts from zero.
* `BindingsKept`: a destination an ancestor was bound to stays bound to the same
  value. `NeverWiden` does not imply it, because a scope that permits nothing is
  within any other, and `LineHonoured` needs it.

`NarrowIsWithin` is the algebraic heart: what `attenuateLease` mints permits
only what the parent permits. With `WithinIsTransitive` it carries `NeverWiden`
along a chain of any length.

**LeaseProcProofs**, for any number of processes, leases, tries and kills.

*The lock.* `LockIsTyped` (`LockTypeOK`) needs `TriesLeft`, that a process still
in the loop has a try left. `StaleLockIsOrphan` (`StaleIsOrphan`) assumes
`MaxHold <= StaleAfter`; its invariant `AgeInv` says that the lockfile of a
process inside its section is as old as its stay there. `LockIsExclusive`
(`MutualExclusion`) uses in addition `OwnerInv`: until a holder is killed, the
lockfile and the process inside determine each other and nobody is about to
unlink. That last conjunct is what a killed holder breaks, and the reason
`proc_race` exists. `OnlyReclaimsRace` turns this around and assumes nothing
about durations: if no waiter ever unlinks the lockfile of a live holder
(`ReclaimsOrphans`), sections exclude each other whoever is killed.

*The store on disk.* As long as sections exclude each other (`[]Exclusive`), with
kills between any two system calls: `NoUseIsSpentTwice` (`NoDoubleSpend`),
`RevokedStaysRevoked` (`RevocationSticks`) and `FileImplementsStore`, the
refinement (`ImplementsStore`): every step of a process is a step of LeaseStore
or a stutter. A store operation takes place at the *decision*, where the answer
is fixed, so the mapping shows the table of the decider while there is one and
the file otherwise (`MappedDecided`, `MappedIdle`). The invariant `BodyInv` says
that a decision is taken on the table the file still holds (`Control`), that
neither the file nor the table about to replace it offers more than the grants
leave (`Accounts`) and that neither holds a revoked lease (`Revocations`). The
file counts while another table is decided because a kill may leave it in
force. Two theorems say when the hypothesis is met: `OnlyReclaimsBreakTheStore`
(the refinement holds as long as no waiter unlinks a live holder's lockfile) and
`StoreHoldsUntilAKill` (all three hold if no section outlasts the limit and no
holder is killed inside one).

**BrokerProofs**, for any requests, leases, caps and any number of restarts:
`ConcurrencyIsCapped` (`CapHeld`), `SlotsComeBack` (`NoSlotLeak`),
`UsesAreAccountedFor` (`UsesAccountedFor`), `RateIsCapped`
(`AdmissionsWithinRate`) and `OneLeavesLateAtMost` (`RevokeCutsOff`). The
cap alone is not inductive: the counter is raised and lowered in different
callbacks. `CounterExact` says what it counts, the requests admitted whose
`close` is still to come, a superset of those being served; a close takes exactly
one element out of that set. `UsesBalance` is the same argument for uses: every
one gone is that of a request sent or between its redeem and its hand-off, or
counted under `others` or `lost`. `LateInv` is why one request at most leaves
late: at most one is between redeem and hand-off (`OneRedeemed`), no tool of this
process runs meanwhile, and of a lease that can be redeemed nothing was late. For
the rate, `AdmissionsEntered` says that an admission which still counts has its
entry in the lease's window: `withinRate` prunes entries only when no window
that ends now or later can hold them, so counting entries bounds admissions in
every window of time, not only in the one that ends now.

**DaemonProofs**, for any callers, daemons, grants and kills. `NothingSpentSilently`
(`NoSilentSpend`) holds with overlapping daemons too. Its invariant `SpendInv`
ties what a caller was told to where its line is (`ToldTruth`): told
`daemon-unreachable`, its line never will be handled, because it was never sent,
was lost, or is in the backlog of a daemon that is gone; told an answer, it is the
one the line was handled with. So a line still in a backlog belongs to a caller
that was told nothing, a timeout or a close. `SureCallsAreServed`
(`SureCallsServed`) and `RestartsBind` (`RestartBinds`, an action property) share
`AloneInv`: without overlaps the process of at most one daemon is there (running,
closing, or closed and yet to exit), the path is its own from the
bind and the info file from the publication on, so every cleanup removes what
belongs to the one that cleans up.

**MasterKeyProofs**, for any processes, keys and restarts: `RecordsStayReadable`
(`SealedStaysReadable`), `CachesAgree` (`KeysAgree`) and `AuditNeedsKey`
(`AuditMakesNoKey`). The invariant `KeyInv` adds `MakerAlone`: without overlap,
while one process makes the key nothing is sealed and nobody has one, so a key
that is replaced has sealed nothing. `AuditNeedsKey` holds without that condition: an
audit that is about to use a key saw one, and in this module key stores are
replaced, never emptied, so one that makes a key failed to read the one there
(`AuditHasKey`). The removals of a rekey are the matter of Rekey; the two are not
composed.

**AuditLogProofs**, for any processes, lines, keys, kills, losses and failing
writes: `ChainStaysLinked` (`ChainLinked`), `UntouchedVerifies`
(`NoFalseAlarm`), `TipIsHealed` (`RecordHeals`), and the action properties
`LossIsCaught` (`LossCaught`) and `ProtectedNeedsKey` (`DowngradeRefused`). They
share `AuditInv`: without overlap at most one command is under way and what it
has read of the log is still so (`Orderly`); keys in use are the key in force
(`KeysInForce`); hashes are given out in order (`HashesMade`). The last is what
makes `LossCaught` true when a log that lost a covered line grows back to the
length in its tip: whatever then stands at the tip's place is younger than the
line the tip names (`CutShows`). `Marked` says that only the two accesses of one
record lie between a tip and its marker, and `LinkedVerifies` that a chain which
is linked and free of fragments verifies, which is what a record that heals
leaves. `NoFalseAlarm` has an invariant of its own,
`CalmInv`: when nothing went wrong, the tip fits the log under the key in force
unless the record that will make it fit is under way.

**RekeyProofs**, for any secrets, passphrases, keys and kills: `VaultStaysCurrent`
(`VaultCurrent`), `FinishedOpens` (`FinishedRekeyReadable`),
`NothingUnderAnOldKey` (`OldKeyRetired`), `KillsLoseNothing` (`NoSecretLost`) and `RekeyGetsThrough`
(`NeverStuck`). `RekeyInv` holds in all behaviours. It says what each step of
the swap may rely on (`Steps`), that without an add or remove alongside a rekey
carries and stages the latest values under the key it draws (`Apart`), that the
token a rekey draws is in no other store (`Drawn`), and that until something is
killed or left over the stores that hold a key are those the swap is between
(`OneKey`). `Apart` and `Drawn` together are why what is left over opens nothing:
the live vault is sealed under the drawn token, which no other store ever held.
The last two theorems need `SoundInv`, for behaviours without mishaps: the key material always
opens the live vault or the staged one, and while the old key stands it opens the
live one (`NotSwitched`). It is not implied by the property, which speaks only of
the moments between commands.

**FilterProofs**, for texts of any length: `SubsumptionIsInclusion`
(`SubsumesIsInclusion`), `ChunkingIsInvisible` (`ChunksDoNotMatter`),
and `PathIsAnchored` (`CanonicalIsAnchored`).
The theorems speak of `GlobSpec`, `RedactSpec` and `TargetSpec`, the three
machines that `MCFilters` puts side by side. The operators are recursive
functions over positions, and the library's induction theorems cannot be
instantiated here; `Recursion` (a function computed from its own values of
smaller rank exists) and `Induction`, `Upward`, `Growing` (sets of numbers and
of sequences closed under the next one) are proved from well-foundedness, and
stated over sets, so that they can.

* *Globs.* That acceptance is sound goes by induction over both globs. That it is
  complete needs, for a child that is not accepted, a path the child lets through
  and the parent does not: the child's own text with a letter outside every glob
  in place of its stars. `PathGlobAssumption` provides that letter, as an
  alphabet that no finite set of globs exhausts does.
* *Redaction.* What was relayed and what is carried say nothing about the chunks to
  come, so `StreamInv` quantifies over them: for every continuation of the body,
  redacting the whole is what was relayed followed by redacting the carry and
  that continuation. `KeptBack` is the step: what a chunk releases can begin no
  occurrence of the secret that ends later.
* *Paths.* `Segments` undoes `Joined` (`SplitUndoesJoin`), what `normalize`
  returns is `Joined` of segments that are none of empty, `.` and `..`, with
  perhaps one empty segment last (`CanonicalIs`). `EgressPathAssumption` keeps
  escapes apart from characters.

**Only model-checked:** the liveness properties `CallReturns`, `OrphanReclaimed`,
`SlotsReturn` and `EveryCallAnswered` (they need fairness and ENABLED, which
TLAPS does not handle), and the three violations of section 5.

## 7. Not modelled

* The composition of an operation with its audit record. The record is written
  after the operation, by the same process, so a kill between the two leaves an
  operation without a record, and a revocation that found nothing is recorded like
  one that did (`index.mjs:76`). Nothing in the repository promises more, so there
  is no property to check beyond those of AuditLog.
* Header injection and header redaction in the broker: each is one assignment or
  one split and join.
* What becomes of a canonical path upstream. It is appended to the base URL, and
  the parser behind `fetch` reads that text once more. The comment at
  `broker.mjs:49` says that "the path we authorize is the SAME path we send
  upstream (no parser differential)". That is so of a path without anything a URL
  parser interprets. Text in which decoding left a percent sign, a question mark,
  a hash or a backslash is read differently: a dot segment that was escaped twice
  is one escape short of resolved when it is matched, and is resolved then; what
  follows a decoded question mark is sent as a query, what follows a hash is not
  sent. EgressPath has no model of that parser, so no property here covers it:
  `CanonicalIsAnchored` is about what is matched.
* In Rekey: a keychain that answers a read with "no entry", a rekey whose look at
  the staged vault throws and whose removal of it fails as well, and the first key
  in two steps. In AuditLog: a tail or a tip that is there and cannot be read.
* The checkpoint sidecar of `chain.mjs`: `audit.mjs` does not ask for one.
* Unlocked readers of `leases.json` (`peekLease`, `checkLease`, `listLeases`) that
  meet a truncated file and answer "unknown". In Broker that answer is `Refuse`, in
  Daemon a refused `check` could not be told from a right one.
* The daemon's line framing (a call sends one line), `ping` and `stats`, and a token
  pinned by the environment.
* The listener of the MCP server, its listings and its status tool: they change no
  state, and a port that is taken is only logged.
* The three platforms' keychain commands, argument parsing, output, the fuzz
  harness, demos and examples: adapters and callers of the above.

## 8. Plan

1. *Operations with their audit records* (`Library.tla` over LeaseStore and
   AuditLog): which operations a log may miss after a kill.
2. *Broker over LeaseStore*, so that delegated leases meet their caps, and the
   refinement of the store's `redeem` by the broker's.
3. *Rekey over MasterKey*: the first key made in two steps under a rekey.
