------------------------------ MODULE AuditLog ------------------------------
(***************************************************************************)
(* The tamper-evident audit: record and verify of src/audit.mjs on top of  *)
(* the hash chain of src/chain.mjs, one action per file access.            *)
(*                                                                         *)
(* A record seeds from the last hash of audit.jsonl, appends a line that   *)
(* carries that hash as prev, then re-reads the tail and commits it in     *)
(* audit.tip.json under a key derived from the master key.  No lock is     *)
(* taken.  A hash is a fresh number (collision-free), a MAC is the key it  *)
(* was made under; the tip is replaced by an atomic rename.  The master    *)
(* key is the number of its generation, 0 before there is one.             *)
(***************************************************************************)
EXTENDS Naturals, Sequences

CONSTANTS
  Proc,         \* processes that record or verify
  Daemon,       \* those that outlive a command and keep their cached key
  NoTip,        \* audit.tip.json is absent
  MaxRecords,   \* bound on the lines appended
  MaxKeys,      \* bound on the generations of the master key
  MaxCrashes,   \* bound on the processes killed
  MaxLosses,    \* bound on the times the end of the log is lost
  Mishaps       \* what may go wrong beyond a kill or a loss

\* "overlap": a process records or verifies while another one does.  "stale":
\* a daemon is not restarted with a rekey and keeps the key it cached.
\* "keyless": a command runs where the key store is not available.  "disk": a
\* write of a record fails.  "unmarked": a write or a kill keeps the record that
\* wrote a tip from writing the marker.
ASSUME AuditAssumption ==
  /\ Daemon \subseteq Proc
  /\ MaxRecords \in Nat /\ MaxKeys \in Nat /\ MaxCrashes \in Nat /\ MaxLosses \in Nat
  /\ Mishaps \subseteq {"overlap", "stale", "keyless", "disk", "unmarked"}
  /\ NoTip \notin [n : Nat, hash : Nat, key : Nat]

VARIABLES
  log,      \* audit.jsonl: a sequence of lines
  ragged,   \* its last line lacks the newline
  tip,      \* audit.tip.json
  marker,   \* audit.protected exists
  key,      \* the master key in force
  cached,   \* [Proc -> the key its process has cached, 0 = none]
  job,      \* [Proc -> the record or verification under way]
  verdict,  \* what the last verification answered
  \* history and counters:
  made,     \* hashes given out
  crashes,
  losses,
  met,      \* the mishaps so far
  cut       \* "no"; "open": a tip-covered line is lost; "covered": and a tip
            \* was written since

auditVars == <<log, ragged, tip, marker, key, cached, job, verdict, made, crashes,
               losses, met, cut>>

Genesis == 0
Line == [prev : Nat, hash : Nat]
Garbled == [prev |-> 0, hash |-> 0]  \* a line JSON.parse rejects
Idle == [at |-> "idle"]

AuditInit ==
  /\ log = <<>> /\ ragged = FALSE
  /\ tip = NoTip /\ marker = FALSE
  /\ key \in {0, 1}
  /\ cached = [p \in Proc |-> 0]
  /\ job = [p \in Proc |-> Idle]
  /\ verdict = "none"
  /\ made = 0 /\ crashes = 0 /\ losses = 0
  /\ met = {}
  /\ cut = "no"

-----------------------------------------------------------------------------
(* Reading the log.                                                        *)

\* The hash of the last usable one of the first n lines, or `default`.
LastOf(lines, n, default) ==
  LET usable == {i \in 1 .. n : lines[i] # Garbled}
  IN IF usable = {} THEN default
     ELSE lines[CHOOSE i \in usable : \A j \in usable : j <= i].hash

\* Mutants: a window that holds one record only; a last line that must parse.
lastHashOf_window(lines) == IF Len(lines) > 1 THEN Genesis ELSE LastOf(lines, Len(lines), Genesis)
lastHashOf_lastLine(lines) == IF lines = <<>> THEN Genesis ELSE lines[Len(lines)].hash

lastHashOf(lines) == LastOf(lines, Len(lines), Genesis)
tailOf(lines) == [n |-> Len(lines), hash |-> LastOf(lines, Len(lines), 0)]

\* verifyAuditFile: every line parses and continues the one before it.
verifyAuditFile(lines) ==
  \A i \in 1 .. Len(lines) :
    /\ lines[i] # Garbled
    /\ lines[i].prev = IF i = 1 THEN Genesis ELSE lines[i - 1].hash

\* Mutant: without a key, the keyless chain is enough.
KeylessVerdict_chain == "ok"

\* The rest of verify, for the key a process derives (0 = none).
KeylessVerdict == IF marker THEN "key-unavailable" ELSE "ok"

\* Mutants: the tail is not compared; only its length is.
TipVerdict_macOnly(k, tail) ==
  IF tip = NoTip THEN (IF tail.n > 0 THEN "tip-missing" ELSE "ok")
  ELSE IF tip.key = k THEN "ok" ELSE "tip-forged"
TipVerdict_length(k, tail) ==
  IF tip = NoTip THEN (IF tail.n > 0 THEN "tip-missing" ELSE "ok")
  ELSE IF tip.key # k THEN "tip-forged"
  ELSE IF tail.n = tip.n THEN "ok" ELSE "truncated-or-spliced"

TipVerdict(k, tail) ==
  CASE tip = NoTip -> IF tail.n > 0 THEN "tip-missing" ELSE "ok"
    [] tip # NoTip /\ tip.key # k -> "tip-forged"
    [] tip # NoTip /\ tip.key = k ->
         IF tail = [n |-> tip.n, hash |-> tip.hash] THEN "ok" ELSE "truncated-or-spliced"

-----------------------------------------------------------------------------
(* Commands.                                                               *)

Goto(p, s) == job' = [job EXCEPT ![p].at = s]
Done(p) == job' = [job EXCEPT ![p] = Idle]

Meets(mishaps) == mishaps \subseteq Mishaps /\ met' = met \cup mishaps
Beside == {m \in {"overlap"} : \E q \in Proc : job[q] # Idle}
Without(sees) == {m \in {"keyless"} : ~sees /\ key # 0}

\* A command of the CLI is a new process with an empty key cache.
Start(p, s) ==
  /\ job[p] = Idle
  /\ \E sees \in BOOLEAN :
       /\ Meets(Beside \cup Without(sees))
       /\ job' = [job EXCEPT ![p] = [at |-> s, sees |-> sees]]
  /\ cached' = IF p \in Daemon THEN cached ELSE [cached EXCEPT ![p] = 0]

StartRecord(p) ==
  /\ made < MaxRecords
  /\ Start(p, "seed")
  /\ UNCHANGED <<log, ragged, tip, marker, key, verdict, made, crashes, losses, cut>>

StartVerify(p) ==
  /\ p \notin Daemon
  /\ Start(p, "chain")
  /\ UNCHANGED <<log, ragged, tip, marker, key, verdict, made, crashes, losses, cut>>

\* Mutant: the rekey does not clear its own key cache.
ChangeKey_cached(p) ==
  /\ p \notin Daemon
  /\ job[p] = Idle
  /\ key < MaxKeys /\ made < MaxRecords
  /\ key' = key + 1
  /\ job' = [job EXCEPT ![p] = [at |-> "seed", sees |-> TRUE]]
  /\ Meets(Beside)
  /\ UNCHANGED <<log, ragged, tip, marker, cached, verdict, made, crashes, losses, cut>>

\* The first add creates the master key; a rekey replaces it.  Either then
\* records its event in the same process.  A daemon keeps the key it cached
\* unless it is restarted.
ChangeKey(p) ==
  /\ p \notin Daemon
  /\ job[p] = Idle
  /\ key < MaxKeys /\ made < MaxRecords
  /\ key' = key + 1
  /\ job' = [job EXCEPT ![p] = [at |-> "seed", sees |-> TRUE]]
  /\ \E restarted \in SUBSET Daemon :
       /\ cached' = [q \in Proc |-> IF q = p THEN key + 1
                                    ELSE IF q \in Daemon \ restarted THEN cached[q] ELSE 0]
       /\ Meets(Beside \cup {m \in {"stale"} : \E q \in Daemon \ restarted : cached[q] # 0})
  /\ UNCHANGED <<log, ragged, tip, marker, verdict, made, crashes, losses, cut>>

\* deriveSubkey: none without a master key, else the cached one or the one in
\* force, which is cached from then on.
Derived(p) == IF ~job[p].sees \/ key = 0 THEN 0
              ELSE IF cached[p] # 0 THEN cached[p] ELSE key
Cache(p) == cached' = IF Derived(p) = 0 THEN cached
                      ELSE [cached EXCEPT ![p] = Derived(p)]

-----------------------------------------------------------------------------
(* record                                                                  *)

\* The constructor of ChainedFileAudit.
Seed(p) ==
  /\ job[p].at = "seed"
  /\ job' = [job EXCEPT ![p] = [at |-> "append", sees |-> job[p].sees,
                                prev |-> lastHashOf(log)]]
  /\ UNCHANGED <<log, ragged, tip, marker, key, cached, verdict, made, crashes, losses, met, cut>>

\* appendFileSync.  After a fragment the new line is glued to it and lost.
AppendLine(p) ==
  /\ job[p].at = "append"
  /\ made < MaxRecords
  /\ made' = made + 1
  /\ log' = IF ragged THEN log ELSE Append(log, [prev |-> job[p].prev, hash |-> made + 1])
  /\ ragged' = FALSE
  /\ Goto(p, "tail")
  /\ UNCHANGED <<tip, marker, key, cached, verdict, crashes, losses, met, cut>>

\* The append throws, with nothing or a fragment written; the error is
\* swallowed and the record goes on.
AppendFails(p) ==
  /\ Meets({"disk"})
  /\ job[p].at = "append"
  /\ made < MaxRecords
  /\ made' = made + 1
  /\ \/ UNCHANGED <<log, ragged>>
     \/ /\ log' = IF ragged THEN log ELSE Append(log, Garbled)
        /\ ragged' = TRUE
  /\ Goto(p, "tail")
  /\ UNCHANGED <<tip, marker, key, cached, verdict, crashes, losses, cut>>

\* auditKey and tailOf; without a key, or with an empty log, there is no tip.
ReadTail(p) ==
  /\ job[p].at = "tail"
  /\ Cache(p)
  /\ IF Derived(p) = 0 \/ log = <<>> THEN Done(p)
     ELSE job' = [job EXCEPT ![p] = [at |-> "tip", key |-> Derived(p), tail |-> tailOf(log)]]
  /\ UNCHANGED <<log, ragged, tip, marker, key, verdict, made, crashes, losses, met, cut>>

\* Mutant: a tip that exists is not replaced.
WriteTip_once(p) ==
  /\ job[p].at = "tip"
  /\ tip' = IF tip = NoTip
            THEN [n |-> job[p].tail.n, hash |-> job[p].tail.hash, key |-> job[p].key]
            ELSE tip
  /\ cut' = IF cut = "no" THEN "no" ELSE "covered"
  /\ Goto(p, "marker")
  /\ UNCHANGED <<log, ragged, marker, key, cached, verdict, made, crashes, losses, met>>

WriteTip(p) ==
  /\ job[p].at = "tip"
  /\ tip' = [n |-> job[p].tail.n, hash |-> job[p].tail.hash, key |-> job[p].key]
  /\ cut' = IF cut = "no" THEN "no" ELSE "covered"
  /\ Goto(p, "marker")
  /\ UNCHANGED <<log, ragged, marker, key, cached, verdict, made, crashes, losses, met>>

\* Neither the rename nor the write in place succeeds, and the latter may have
\* emptied the file; the record goes on.
TipFails(p) ==
  /\ Meets({"disk"})
  /\ job[p].at = "tip"
  /\ tip' \in {tip, NoTip}
  /\ Goto(p, "unkept")
  /\ UNCHANGED <<log, ragged, marker, key, cached, verdict, made, crashes, losses, cut>>

Marking(p) == job[p].at \in {"marker", "unkept"}

\* Written if it is not there yet.
WriteMarker(p) ==
  /\ Marking(p)
  /\ marker' = TRUE
  /\ Done(p)
  /\ UNCHANGED <<log, ragged, tip, key, cached, verdict, made, crashes, losses, met, cut>>

\* Its write fails, and record returns all the same.
MarkerFails(p) ==
  /\ Meets({"disk", "unmarked"})
  /\ Marking(p)
  /\ ~marker
  /\ Done(p)
  /\ UNCHANGED <<log, ragged, tip, marker, key, cached, verdict, made, crashes, losses, cut>>

Record(p) ==
  \/ Seed(p) \/ AppendLine(p) \/ AppendFails(p) \/ ReadTail(p)
  \/ WriteTip(p) \/ TipFails(p) \/ WriteMarker(p) \/ MarkerFails(p)

-----------------------------------------------------------------------------
(* verify                                                                  *)

Answer(p, v) == verdict' = v /\ Done(p)

VerifyChain(p) ==
  /\ job[p].at = "chain"
  /\ IF verifyAuditFile(log) THEN Goto(p, "vtail") /\ UNCHANGED verdict
     ELSE Answer(p, "broken")
  /\ UNCHANGED <<log, ragged, tip, marker, key, cached, made, crashes, losses, met, cut>>

VerifyTail(p) ==
  /\ job[p].at = "vtail"
  /\ Cache(p)
  /\ IF Derived(p) = 0 THEN Answer(p, KeylessVerdict)
     ELSE /\ job' = [job EXCEPT ![p] = [at |-> "vtip", key |-> Derived(p), tail |-> tailOf(log)]]
          /\ UNCHANGED verdict
  /\ UNCHANGED <<log, ragged, tip, marker, key, made, crashes, losses, met, cut>>

VerifyTip(p) ==
  /\ job[p].at = "vtip"
  /\ Answer(p, TipVerdict(job[p].key, job[p].tail))
  /\ UNCHANGED <<log, ragged, tip, marker, key, cached, made, crashes, losses, met, cut>>

Verify(p) == VerifyChain(p) \/ VerifyTail(p) \/ VerifyTip(p)

-----------------------------------------------------------------------------
(* The environment.                                                        *)

Crash(p) ==
  /\ crashes < MaxCrashes
  /\ job[p] # Idle
  /\ Meets({m \in {"unmarked"} : Marking(p) /\ ~marker})
  /\ crashes' = crashes + 1
  /\ Done(p)
  /\ cached' = [cached EXCEPT ![p] = 0]
  /\ UNCHANGED <<log, ragged, tip, marker, key, verdict, made, losses, cut>>

\* The last lines of the log are gone: a power loss, an old copy put back.
LoseTail ==
  /\ losses < MaxLosses
  /\ \A p \in Proc : job[p] = Idle
  /\ \E k \in 0 .. Len(log) - 1 :
       /\ log' = SubSeq(log, 1, k)
       /\ cut' = IF tip # NoTip /\ tip.n > k THEN "open" ELSE cut
  /\ ragged' = FALSE
  /\ losses' = losses + 1
  /\ UNCHANGED <<tip, marker, key, cached, job, verdict, made, crashes, met>>

AuditNext ==
  \/ \E p \in Proc : StartRecord(p) \/ StartVerify(p) \/ ChangeKey(p)
                     \/ Record(p) \/ Verify(p) \/ Crash(p)
  \/ LoseTail

AuditSpec == AuditInit /\ [][AuditNext]_auditVars

-----------------------------------------------------------------------------
(* Properties.                                                             *)

\* Each usable line continues the usable one before it.
Linked(lines) ==
  \A i \in 1 .. Len(lines) :
    lines[i] # Garbled => lines[i].prev = LastOf(lines, i - 1, Genesis)

\* Every chained line continues the one before it, whatever was killed, lost
\* or swallowed between two records, as long as records do not overlap.
ChainLinked == "overlap" \notin met => Linked(log)

\* "Each record re-seeds from the file's last hash, so the chain is correct
\* regardless of process lifetime."
ChainAlwaysLinked == Linked(log)

\* A log nobody touched verifies, when no record was killed on its way.
NoFalseAlarm ==
  losses = 0 /\ crashes = 0 /\ met = {} => verdict \in {"none", "ok"}

\* A verification with the key that says "ok" has not missed the loss of a
\* line that the tip covers, also when later records, written without the
\* key or unable to write their tip, grew the log back to the length in the
\* tip.  Only a failing write that empties the tip and a loss of the whole log
\* leave nothing to disagree.  (The next record with the key commits the log
\* as it is, and with it the loss.)
LossCaught ==
  [][\A p \in Proc : "overlap" \notin met /\ VerifyTip(p) /\ verdict' = "ok"
       => cut # "open" \/ (tip = NoTip /\ log = <<>>)]_auditVars

\* The marker "set once a tip is first written" keeps a verification without
\* the key from falling back to the keyless chain on a protected log, whatever
\* else fails or is killed, unless the marker itself was kept from being
\* written after its tip.
DowngradeRefused ==
  [][\A p \in Proc :
       /\ met \cap {"overlap", "unmarked"} = {}
       /\ VerifyTail(p) /\ job'[p] = Idle /\ verdict' = "ok"
       => tip = NoTip]_auditVars

\* A killed record, one that could not write its line or its tip, one written
\* without the key, a loss, or a rekey that did not get to its record leave a
\* tip that does not match.  Every later record with the key in force that can
\* write its own tip repairs it: the log then verifies as a whole, unless one
\* of its lines does not parse.
RecordHeals ==
  \A p \in Proc :
    met \cap {"overlap", "stale"} = {} /\ job[p].at = "marker" =>
      /\ TipVerdict(key, tailOf(log)) = "ok"
      /\ verifyAuditFile(log) \/ \E i \in 1 .. Len(log) : log[i] = Garbled
=============================================================================
