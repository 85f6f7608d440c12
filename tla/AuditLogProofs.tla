--------------------------- MODULE AuditLogProofs ---------------------------
(***************************************************************************)
(* What the records keep of the audit log: the chain stays linked, a lost  *)
(* line is caught, a record repairs the tip, a protected log is not        *)
(* attested without its key, and an untouched log verifies.                *)
(***************************************************************************)
EXTENDS AuditLog, SequenceTheorems, WellFoundedInduction, TLAPS

-----------------------------------------------------------------------------
(* The last usable line.                                                   *)

LEMMA Largest ==
  ASSUME NEW n \in Nat, NEW S \in SUBSET (1 .. n), S # {}
  PROVE  \E i \in S : \A j \in S : j <= i
<1> DEFINE gaps == {k \in Nat : n - k \in S}
<1>1. PICK i \in S : TRUE
  OBVIOUS
<1>2. gaps \in SUBSET Nat /\ n - i \in gaps
  OBVIOUS
<1>3. PICK k \in gaps : \A m \in gaps : k <= m
  <2> DEFINE below == {ss \in Nat \X Nat : ss[1] < ss[2]}
  <2>1. IsWellFoundedOn(below, Nat)
    BY NatLessThanWellFounded DEF OpToRel
  <2>2. ASSUME NEW k \in gaps, NEW m \in gaps, <<m, k>> \notin below
        PROVE  k <= m
    BY <2>2
  <2> HIDE DEF gaps, below
  <2>3. \E k \in gaps : \A m \in gaps : <<m, k>> \notin below
    BY <1>2, <2>1, WFMin
  <2> QED BY <2>2, <2>3
<1>4. \A j \in S : n - j \in gaps
  OBVIOUS
<1>5. \A j \in S : k <= n - j
  BY <1>3, <1>4
<1> HIDE DEF gaps
<1>6. n - k \in S
  BY <1>3 DEF gaps
<1>7. k \in Nat
  BY <1>3 DEF gaps
<1> QED BY <1>5, <1>6, <1>7

\* LastOf is the default, or the hash of the last usable line.
LEMMA LastOfFacts ==
  ASSUME NEW lines, NEW n \in Nat, NEW default
  PROVE  \/ /\ \A i \in 1 .. n : lines[i] = Garbled
            /\ LastOf(lines, n, default) = default
         \/ \E i \in 1 .. n : /\ lines[i] # Garbled
                              /\ \A j \in 1 .. n : j > i => lines[j] = Garbled
                              /\ LastOf(lines, n, default) = lines[i].hash
<1> DEFINE usable == {i \in 1 .. n : lines[i] # Garbled}
           last == CHOOSE i \in usable : \A j \in usable : j <= i
<1>1. CASE usable = {}
  BY <1>1 DEF LastOf
<1>2. CASE usable # {}
  <2>1. \E i \in usable : \A j \in usable : j <= i
    <3> HIDE DEF usable
    <3>1. usable \in SUBSET (1 .. n)
      BY DEF usable
    <3> QED BY <1>2, <3>1, Largest
  <2>2. last \in usable /\ \A j \in usable : j <= last
    BY <2>1
  <2>3. LastOf(lines, n, default) = lines[last].hash
    BY <1>2 DEF LastOf
  <2> HIDE DEF last
  <2> QED BY <2>2, <2>3
<1> QED BY <1>1, <1>2

\* It depends on the first n lines only.
LEMMA LastOfPrefix ==
  ASSUME NEW a, NEW b, NEW n \in Nat, NEW default, \A i \in 1 .. n : a[i] = b[i]
  PROVE  LastOf(a, n, default) = LastOf(b, n, default)
<1>1. CASE \A i \in 1 .. n : a[i] = Garbled
  BY <1>1 DEF LastOf
<1>2. CASE \E i \in 1 .. n : a[i] # Garbled
  <2> USE <1>2
  <2>1. PICK i \in 1 .. n : /\ a[i] # Garbled
                            /\ \A j \in 1 .. n : j > i => a[j] = Garbled
                            /\ LastOf(a, n, default) = a[i].hash
    BY LastOfFacts
  <2>2. PICK k \in 1 .. n : /\ b[k] # Garbled
                            /\ \A j \in 1 .. n : j > k => b[j] = Garbled
                            /\ LastOf(b, n, default) = b[k].hash
    BY LastOfFacts
  <2>3. i = k
    BY <2>1, <2>2
  <2> QED BY <2>1, <2>2, <2>3
<1> QED BY <1>1, <1>2

\* One more line is the last one if it is usable, and changes nothing if not.
LEMMA LastOfStep ==
  ASSUME NEW lines, NEW n \in Nat, NEW default
  PROVE  LastOf(lines, n + 1, default) =
           IF lines[n + 1] # Garbled THEN lines[n + 1].hash ELSE LastOf(lines, n, default)
<1>0. n + 1 \in Nat /\ n + 1 \in 1 .. n + 1
  OBVIOUS
<1>1. CASE lines[n + 1] # Garbled
  <2>0. ~ \A i \in 1 .. n + 1 : lines[i] = Garbled
    BY <1>0, <1>1
  <2>1. PICK i \in 1 .. n + 1 : /\ \A j \in 1 .. n + 1 : j > i => lines[j] = Garbled
                                /\ LastOf(lines, n + 1, default) = lines[i].hash
    BY <1>0, <2>0, LastOfFacts
  <2>2. i = n + 1
    BY <1>1, <2>1
  <2> QED BY <1>1, <2>1, <2>2
<1>2. CASE lines[n + 1] = Garbled
  <2>1. {i \in 1 .. n + 1 : lines[i] # Garbled} = {i \in 1 .. n : lines[i] # Garbled}
    BY <1>2
  <2> DEFINE of(S) == IF S = {} THEN default
                      ELSE lines[CHOOSE i \in S : \A j \in S : j <= i].hash
  <2>2. /\ LastOf(lines, n + 1, default) = of({i \in 1 .. n + 1 : lines[i] # Garbled})
        /\ LastOf(lines, n, default) = of({i \in 1 .. n : lines[i] # Garbled})
    BY DEF LastOf
  <2> HIDE DEF of
  <2> QED BY <1>2, <2>1, <2>2
<1> QED BY <1>1, <1>2

\* When every line is usable it is the last line.
LEMMA LastOfClean ==
  ASSUME NEW lines, NEW n \in Nat, NEW default, \A i \in 1 .. n : lines[i] # Garbled
  PROVE  LastOf(lines, n, default) = IF n = 0 THEN default ELSE lines[n].hash
<1>1. CASE n = 0
  BY <1>1 DEF LastOf
<1>2. CASE n # 0
  BY <1>2, LastOfFacts
<1> QED BY <1>1, <1>2

-----------------------------------------------------------------------------
(* The invariant.                                                          *)

LogTail == [n : Nat, hash : Nat]
Tip == [n : Nat, hash : Nat, key : Nat]

\* What a process carries from one file access to the next.
Job == {Idle}
       \cup [at : {"seed", "chain", "vtail"}, sees : BOOLEAN]
       \cup [at : {"append", "tail"}, sees : BOOLEAN, prev : Nat]
       \cup [at : {"tip", "marker", "unkept", "vtip"}, key : Nat, tail : LogTail]

Busy(p) == job[p].at # "idle"
Keyed == {"tip", "marker", "unkept", "vtip"}

AuditTypes ==
  /\ log \in Seq(Line) /\ ragged \in BOOLEAN
  /\ tip \in Tip \cup {NoTip} /\ marker \in BOOLEAN
  /\ key \in Nat /\ cached \in [Proc -> Nat]
  /\ job \in [Proc -> Job]
  /\ made \in Nat /\ crashes \in Nat /\ losses \in Nat
  /\ met \in SUBSET Mishaps /\ cut \in {"no", "open", "covered"}

\* As long as no two of them overlap, one process at most is under way, and
\* what it has read of the log is still so.
Orderly ==
  "overlap" \notin met =>
    /\ \A p, q \in Proc : Busy(p) /\ Busy(q) => p = q
    /\ \A p \in Proc :
         /\ job[p].at = "append" => job[p].prev = lastHashOf(log)
         /\ job[p].at \in Keyed => job[p].tail = tailOf(log)
         /\ job[p].at \in {"vtail", "vtip"} => verifyAuditFile(log)
         /\ job[p].at = "marker" => tip = [n |-> job[p].tail.n, hash |-> job[p].tail.hash,
                                           key |-> job[p].key]

\* Unless a daemon went stale, a cached key is the key in force, and so is
\* the one a process derived from it.
KeysInForce ==
  /\ "stale" \notin met => \A p \in Proc : cached[p] \in {0, key}
  /\ met \cap {"overlap", "stale"} = {} =>
       \A p \in Proc : job[p].at \in Keyed => job[p].key = key

\* Hashes are given out in order.
HashesMade ==
  /\ \A i \in 1 .. Len(log) : log[i].hash <= made
  /\ tip # NoTip => tip.hash <= made
  /\ \A p \in Proc : job[p].at \in Keyed => job[p].tail.hash <= made

\* While the loss of a covered line is open and the tip is there, whatever
\* stands where the tip expects its line is younger than that line.
CutShows ==
  cut = "open" /\ tip # NoTip =>
    /\ tip.n >= 1
    /\ \A i \in 1 .. Len(log) : i >= tip.n => log[i] = Garbled \/ log[i].hash > tip.hash

\* A log with a tip is marked, but for the moment between the two writes.
Marked ==
  met \cap {"overlap", "unmarked"} = {} /\ tip # NoTip =>
    marker \/ \E p \in Proc : Marking(p)

AuditInv ==
  /\ AuditTypes /\ Orderly /\ ChainLinked /\ KeysInForce /\ HashesMade /\ CutShows /\ Marked

\* The tip is the one the next verification expects.
TipFits ==
  IF log = <<>> THEN tip = NoTip
  ELSE /\ tip # NoTip /\ tip.key = key
       /\ tip.n = Len(log) /\ tip.hash = LastOf(log, Len(log), 0)

Calm == losses = 0 /\ crashes = 0 /\ met = {}

\* When nothing went wrong at all every line is whole, there is no tip before
\* there is a key, and with a key the tip fits unless the record that makes it
\* fit is under way.
Untouched ==
  /\ ~ragged /\ \A i \in 1 .. Len(log) : log[i] # Garbled
  /\ key = 0 => tip = NoTip /\ ~marker
  /\ \A p \in Proc :
       /\ job[p].at \in {"seed", "chain", "append", "tail", "vtail"} => job[p].sees \/ key = 0
       /\ job[p].at \in {"tail", "tip"} => log # <<>>
       /\ job[p].at \in Keyed => key # 0
  /\ key # 0 => TipFits \/ \E p \in Proc : job[p].at \in {"seed", "append", "tail", "tip"}
  /\ verdict \in {"none", "ok"}

CalmInv == Calm => Untouched

-----------------------------------------------------------------------------
(* Types.                                                                  *)

\* What a process carries, told by where it is.
LEMMA JobIs ==
  ASSUME AuditTypes, NEW p \in Proc
  PROVE  /\ job[p] \in Job
         /\ job[p].at = "idle" <=> job[p] = Idle
         /\ job[p].at \in {"seed", "chain", "vtail"} => job[p] \in [at : {"seed", "chain", "vtail"}, sees : BOOLEAN]
         /\ job[p].at \in {"append", "tail"} =>
              job[p] \in [at : {"append", "tail"}, sees : BOOLEAN, prev : Nat]
         /\ job[p].at \in Keyed => job[p] \in [at : Keyed, key : Nat, tail : LogTail]
<1>1. job[p] \in Job
  BY DEF AuditTypes
<1> QED BY <1>1 DEF Job, Idle, Keyed

LEMMA DerivedType ==
  ASSUME AuditTypes, NEW p \in Proc
  PROVE  /\ Derived(p) \in Nat
         /\ Cache(p) => cached' \in [Proc -> Nat]
         /\ Cache(p) => \A q \in Proc : cached'[q] = IF q = p /\ Derived(p) # 0 THEN Derived(p) ELSE cached[q]
<1>1. key \in Nat /\ cached \in [Proc -> Nat] /\ Derived(p) \in Nat
  BY DEF AuditTypes, Derived
<1> QED BY <1>1 DEF Cache

LEMMA LastOfType ==
  ASSUME NEW lines \in Seq(Line)
  PROVE  LastOf(lines, Len(lines), 0) \in Nat /\ tailOf(lines) \in LogTail
<1>1. Len(lines) \in Nat /\ \A i \in 1 .. Len(lines) : lines[i] \in Line
  OBVIOUS
<1>2. \A i \in 1 .. Len(lines) : lines[i].hash \in Nat
  BY <1>1 DEF Line
<1>3. LastOf(lines, Len(lines), 0) \in Nat
  BY <1>1, <1>2, LastOfFacts
<1> QED BY <1>1, <1>3 DEF tailOf, LogTail

LEMMA InitTypes == AuditInit => AuditTypes
<1>1. Idle \in Job /\ <<>> \in Seq(Line)
  BY DEF Job
<1>2. ASSUME AuditInit
      PROVE  /\ log \in Seq(Line) /\ key \in Nat /\ met \in SUBSET Mishaps
             /\ cached \in [Proc -> Nat] /\ job \in [Proc -> Job]
  <2>1. log \in Seq(Line)
    BY <1>1, <1>2 DEF AuditInit
  <2>2. job \in [Proc -> Job]
    BY <1>1, <1>2 DEF AuditInit
  <2>3. cached \in [Proc -> Nat]
    BY <1>2 DEF AuditInit
  <2>4. key \in Nat /\ met \in SUBSET Mishaps
    BY <1>2 DEF AuditInit
  <2> QED BY <2>1, <2>2, <2>3, <2>4
<1>3. ASSUME AuditInit
      PROVE  ragged \in BOOLEAN /\ marker \in BOOLEAN
  BY <1>3, Zenon DEF AuditInit
<1>4. ASSUME AuditInit
      PROVE  /\ tip \in Tip \cup {NoTip} /\ cut \in {"no", "open", "covered"}
             /\ made \in Nat /\ crashes \in Nat /\ losses \in Nat
  BY <1>4 DEF AuditInit
<1> QED BY <1>2, <1>3, <1>4 DEF AuditTypes

LEMMA StartTypes ==
  ASSUME AuditTypes, NEW p \in Proc, StartRecord(p) \/ StartVerify(p) \/ ChangeKey(p)
  PROVE  AuditTypes'
<1>1. CASE StartRecord(p)
  BY <1>1 DEF StartRecord, Start, Meets, AuditTypes, Job
<1>2. CASE StartVerify(p)
  BY <1>2 DEF StartVerify, Start, Meets, AuditTypes, Job
<1>3. CASE ChangeKey(p)
  <2>1. key' \in Nat /\ cached' \in [Proc -> Nat] /\ met' \in SUBSET Mishaps
    BY <1>3 DEF ChangeKey, Meets, AuditTypes
  <2>2. job' \in [Proc -> Job]
    BY <1>3 DEF ChangeKey, AuditTypes, Job
  <2> QED BY <1>3, <2>1, <2>2 DEF ChangeKey, AuditTypes
<1> QED BY <1>1, <1>2, <1>3

LEMMA AppendTypes ==
  ASSUME AuditTypes, NEW p \in Proc, AppendLine(p) \/ AppendFails(p)
  PROVE  AuditTypes'
<1>1. job[p].at = "append" /\ job[p] \in [at : {"append", "tail"}, sees : BOOLEAN, prev : Nat]
  BY JobIs DEF AppendLine, AppendFails
<1>2. job' = [job EXCEPT ![p].at = "tail"]
  BY DEF AppendLine, AppendFails, Goto
<1>3. job' \in [Proc -> Job]
  BY <1>1, <1>2 DEF AuditTypes, Job
<1>4. made' \in Nat /\ [prev |-> job[p].prev, hash |-> made + 1] \in Line /\ Garbled \in Line
  BY <1>1 DEF AppendLine, AppendFails, AuditTypes, Line, Garbled
<1>5. log' \in Seq(Line) /\ ragged' \in BOOLEAN
  <2> DEFINE e == [prev |-> job[p].prev, hash |-> made + 1]
  <2>1. log' \in {log, Append(log, e), Append(log, Garbled)} /\ ragged' \in BOOLEAN
    BY DEF AppendLine, AppendFails, AuditTypes
  <2> HIDE DEF e
  <2>2. e \in Line /\ log \in Seq(Line)
    BY <1>4 DEF AuditTypes, e
  <2> QED BY <1>4, <2>1, <2>2
<1>6. met' \in SUBSET Mishaps
  BY DEF AppendLine, AppendFails, Meets, AuditTypes
<1> QED BY <1>3, <1>4, <1>5, <1>6 DEF AppendLine, AppendFails, AuditTypes

LEMMA RecordTypes ==
  ASSUME AuditTypes, NEW p \in Proc, Record(p)
  PROVE  AuditTypes'
<1>1. CASE Seed(p)
  <2>1. job[p] \in [at : {"seed", "chain", "vtail"}, sees : BOOLEAN] /\ lastHashOf(log) \in Nat
    BY <1>1, JobIs, LastOfType DEF Seed, AuditTypes, lastHashOf, Genesis
  <2>2. job' \in [Proc -> Job]
    BY <1>1, <2>1 DEF Seed, AuditTypes, Job
  <2> QED BY <1>1, <2>2 DEF Seed, AuditTypes
<1>2. CASE AppendLine(p) \/ AppendFails(p)
  BY <1>2, AppendTypes
<1>3. CASE ReadTail(p)
  <2>1. Derived(p) \in Nat /\ cached' \in [Proc -> Nat] /\ tailOf(log) \in LogTail
    BY <1>3, DerivedType, LastOfType DEF ReadTail, AuditTypes
  <2>2. [at |-> "tip", key |-> Derived(p), tail |-> tailOf(log)] \in Job /\ Idle \in Job
    BY <2>1 DEF Job
  <2>3. job' \in [Proc -> Job]
    BY <1>3, <2>2 DEF ReadTail, Done, AuditTypes
  <2> QED BY <1>3, <2>1, <2>3 DEF ReadTail, AuditTypes
<1>4. CASE WriteTip(p)
  <2>1. job[p] \in [at : Keyed, key : Nat, tail : LogTail]
    BY <1>4, JobIs DEF WriteTip, Keyed
  <2>2. job' \in [Proc -> Job]
    BY <1>4, <2>1 DEF WriteTip, Goto, AuditTypes, Job, Keyed
  <2>3. tip' \in Tip
    BY <1>4, <2>1 DEF WriteTip, Tip, LogTail
  <2> QED BY <1>4, <2>2, <2>3 DEF WriteTip, AuditTypes
<1>5. CASE TipFails(p)
  <2>1. job[p] \in [at : Keyed, key : Nat, tail : LogTail]
    BY <1>5, JobIs DEF TipFails, Keyed
  <2>2. job' \in [Proc -> Job]
    BY <1>5, <2>1 DEF TipFails, Goto, AuditTypes, Job, Keyed
  <2>3. tip' \in Tip \cup {NoTip} /\ met' \in SUBSET Mishaps
    BY <1>5 DEF TipFails, Meets, AuditTypes
  <2> QED BY <1>5, <2>2, <2>3 DEF TipFails, AuditTypes
<1>6. CASE WriteMarker(p) \/ MarkerFails(p)
  BY <1>6 DEF WriteMarker, MarkerFails, Meets, Done, AuditTypes, Job
<1> QED BY <1>1, <1>2, <1>3, <1>4, <1>5, <1>6 DEF Record

LEMMA VerifyTypes ==
  ASSUME AuditTypes, NEW p \in Proc, Verify(p)
  PROVE  AuditTypes'
<1>1. CASE VerifyChain(p)
  <2>1. job[p] \in [at : {"seed", "chain", "vtail"}, sees : BOOLEAN]
    BY <1>1, JobIs DEF VerifyChain
  <2>2. job' \in [Proc -> Job]
    BY <1>1, <2>1 DEF VerifyChain, Goto, Answer, Done, AuditTypes, Job
  <2> QED BY <1>1, <2>2 DEF VerifyChain, AuditTypes
<1>2. CASE VerifyTail(p)
  <2>1. Derived(p) \in Nat /\ cached' \in [Proc -> Nat] /\ tailOf(log) \in LogTail
    BY <1>2, DerivedType, LastOfType DEF VerifyTail, AuditTypes
  <2>2. [at |-> "vtip", key |-> Derived(p), tail |-> tailOf(log)] \in Job /\ Idle \in Job
    BY <2>1 DEF Job
  <2>3. job' \in [Proc -> Job]
    BY <1>2, <2>2 DEF VerifyTail, Answer, Done, AuditTypes
  <2> QED BY <1>2, <2>1, <2>3 DEF VerifyTail, AuditTypes
<1>3. CASE VerifyTip(p)
  BY <1>3 DEF VerifyTip, Answer, Done, AuditTypes, Job
<1> QED BY <1>1, <1>2, <1>3 DEF Verify

LEMMA LoseTailFacts ==
  ASSUME AuditTypes, LoseTail
  PROVE  \E k \in 0 .. Len(log) - 1 :
           /\ Len(log') = k /\ log' \in Seq(Line)
           /\ \A i \in 1 .. k : log'[i] = log[i]
           /\ cut' = IF tip # NoTip /\ tip.n > k THEN "open" ELSE cut
<1>1. PICK k \in 0 .. Len(log) - 1 :
        /\ log' = SubSeq(log, 1, k)
        /\ cut' = IF tip # NoTip /\ tip.n > k THEN "open" ELSE cut
  BY DEF LoseTail
<1>2. Len(log) \in Nat /\ \A i \in 1 .. k : log[i] \in Line
  BY DEF AuditTypes
<1>3. /\ SubSeq(log, 1, k) \in Seq(Line) /\ Len(SubSeq(log, 1, k)) = k
      /\ \A i \in 1 .. k : SubSeq(log, 1, k)[i] = log[i]
  BY <1>2, SubSeqProperties
<1> QED BY <1>1, <1>3

LEMMA StepTypes ==
  ASSUME AuditTypes, [AuditNext]_auditVars
  PROVE  AuditTypes'
<1>1. ASSUME NEW p \in Proc, Crash(p)
      PROVE  AuditTypes'
  BY <1>1 DEF Crash, Meets, Done, AuditTypes, Job
<1>2. CASE LoseTail
  <2>1. log' \in Seq(Line) /\ cut' \in {"no", "open", "covered"}
    BY <1>2, LoseTailFacts DEF AuditTypes
  <2>2. ragged' \in BOOLEAN
    BY <1>2, Zenon DEF LoseTail
  <2>3. losses' \in Nat /\ UNCHANGED <<tip, marker, key, cached, job, made, crashes, met>>
    BY <1>2 DEF LoseTail, AuditTypes
  <2> QED BY <2>1, <2>2, <2>3 DEF AuditTypes
<1>3. CASE UNCHANGED auditVars
  BY <1>3 DEF auditVars, AuditTypes
<1>4. ASSUME NEW p \in Proc, StartRecord(p) \/ StartVerify(p) \/ ChangeKey(p)
      PROVE  AuditTypes'
  BY <1>4, StartTypes
<1>5. ASSUME NEW p \in Proc, Record(p)
      PROVE  AuditTypes'
  BY <1>5, RecordTypes
<1>6. ASSUME NEW p \in Proc, Verify(p)
      PROVE  AuditTypes'
  BY <1>6, VerifyTypes
<1>7. CASE \E p \in Proc : \/ StartRecord(p) \/ StartVerify(p) \/ ChangeKey(p)
                             \/ Record(p) \/ Verify(p) \/ Crash(p)
  BY <1>1, <1>4, <1>5, <1>6, <1>7
<1> QED BY <1>2, <1>3, <1>7 DEF AuditNext

-----------------------------------------------------------------------------
(* What each step keeps of the invariant.                                  *)

\* A command starts alone, or the overlap is counted.
LEMMA StartFacts ==
  ASSUME AuditTypes, NEW p \in Proc, StartRecord(p) \/ StartVerify(p) \/ ChangeKey(p)
  PROVE  /\ \A q \in Proc : q # p => job'[q] = job[q]
         /\ job'[p].at \in {"seed", "chain"}
         /\ met \subseteq met'
         /\ "overlap" \notin met' => \A q \in Proc : job[q] = Idle
         /\ UNCHANGED <<log, ragged, tip, marker, verdict, made, crashes, losses, cut>>
<1>1. CASE StartRecord(p) \/ StartVerify(p)
  <2>1. PICK s \in {"seed", "chain"} : Start(p, s)
    BY <1>1 DEF StartRecord, StartVerify
  <2>2. PICK sees \in BOOLEAN : /\ job' = [job EXCEPT ![p] = [at |-> s, sees |-> sees]]
                                /\ Meets(Beside \cup Without(sees))
    BY <2>1 DEF Start
  <2>3. met' = met \cup (Beside \cup Without(sees))
    BY <2>2 DEF Meets
  <2>4. \A q \in Proc : (q # p => job'[q] = job[q]) /\ (q = p => job'[q].at = s)
    BY <2>2 DEF AuditTypes
  <2>5. "overlap" \notin met' => \A q \in Proc : job[q] = Idle
    BY <2>3 DEF Beside
  <2> QED BY <1>1, <2>3, <2>4, <2>5 DEF StartRecord, StartVerify
<1>2. CASE ChangeKey(p)
  <2>1. /\ job' = [job EXCEPT ![p] = [at |-> "seed", sees |-> TRUE]]
        /\ \E stale : met' = met \cup (Beside \cup stale)
    BY <1>2 DEF ChangeKey, Meets
  <2>2. "overlap" \notin met' => \A q \in Proc : job[q] = Idle
    BY <2>1 DEF Beside
  <2> QED BY <1>2, <2>1, <2>2 DEF ChangeKey, AuditTypes
<1> QED BY <1>1, <1>2

LEMMA StartKeys ==
  ASSUME AuditTypes, NEW p \in Proc, StartRecord(p) \/ StartVerify(p) \/ ChangeKey(p),
         "stale" \notin met', \A q \in Proc : cached[q] \in {0, key}
  PROVE  \A q \in Proc : cached'[q] \in {0, key'}
<1>1. CASE StartRecord(p) \/ StartVerify(p)
  BY <1>1 DEF StartRecord, StartVerify, Start, AuditTypes
<1>2. CASE ChangeKey(p)
  <2>1. PICK restarted \in SUBSET Daemon :
          /\ cached' = [q \in Proc |-> IF q = p THEN key + 1
                                       ELSE IF q \in Daemon \ restarted THEN cached[q] ELSE 0]
          /\ Meets(Beside \cup {m \in {"stale"} : \E q \in Daemon \ restarted : cached[q] # 0})
    BY <1>2 DEF ChangeKey
  <2>2. \A q \in Daemon \ restarted : cached[q] = 0
    BY <2>1 DEF Meets
  <2>3. key' = key + 1
    BY <1>2 DEF ChangeKey
  <2> QED BY <2>1, <2>2, <2>3
<1> QED BY <1>1, <1>2

LEMMA StartKeeps ==
  ASSUME AuditInv, NEW p \in Proc, StartRecord(p) \/ StartVerify(p) \/ ChangeKey(p)
  PROVE  AuditInv'
<1>0. AuditTypes /\ AuditTypes'
  BY StartTypes DEF AuditInv
<1>1. /\ \A q \in Proc : q # p => job'[q] = job[q]
      /\ job'[p].at \in {"seed", "chain"}
      /\ met \subseteq met'
      /\ "overlap" \notin met' => \A q \in Proc : job[q] = Idle
      /\ UNCHANGED <<log, tip, marker, made, crashes, losses, cut>>
  BY <1>0, StartFacts
<1>2. Orderly'
  BY <1>1 DEF Orderly, Keyed, Busy, Idle
<1>3. ChainLinked'
  BY <1>1 DEF AuditInv, ChainLinked
<1>4. KeysInForce'
  <2>1. "stale" \notin met' => \A q \in Proc : cached'[q] \in {0, key'}
    BY <1>0, <1>1, StartKeys DEF AuditInv, KeysInForce
  <2> QED BY <1>1, <2>1 DEF KeysInForce, Keyed, Idle
<1>5. HashesMade' /\ CutShows'
  BY <1>1 DEF AuditInv, HashesMade, CutShows, Keyed
<1>6. Marked'
  BY <1>1 DEF AuditInv, Marked, Marking, Idle
<1> QED BY <1>0, <1>2, <1>3, <1>4, <1>5, <1>6 DEF AuditInv

\* The constructor reads the hash the next line will continue.
LEMMA SeedKeeps ==
  ASSUME AuditInv, NEW p \in Proc, Seed(p)
  PROVE  AuditInv'
<1>0. AuditTypes /\ AuditTypes'
  BY RecordTypes DEF AuditInv, Record
<1>1. /\ job[p].at = "seed"
      /\ job' = [job EXCEPT ![p] = [at |-> "append", sees |-> job[p].sees, prev |-> lastHashOf(log)]]
      /\ UNCHANGED <<log, tip, marker, key, cached, made, crashes, met, cut>>
  BY DEF Seed
<1>2. /\ \A q \in Proc : q # p => job'[q] = job[q]
      /\ job'[p].at = "append" /\ job'[p].prev = lastHashOf(log)
  BY <1>0, <1>1 DEF AuditTypes
<1>3. Orderly'
  BY <1>1, <1>2 DEF AuditInv, Orderly, Keyed, Busy
<1>4. ChainLinked' /\ KeysInForce' /\ HashesMade' /\ CutShows'
  BY <1>1, <1>2 DEF AuditInv, ChainLinked, KeysInForce, HashesMade, CutShows, Keyed
<1>5. Marked'
  BY <1>1, <1>2 DEF AuditInv, Marked, Marking
<1> QED BY <1>0, <1>3, <1>4, <1>5 DEF AuditInv

\* A linked log stays linked when it loses its end, or gains a line that
\* continues its last hash or does not parse.
LEMMA LinkedPrefix ==
  ASSUME NEW a \in Seq(Line), NEW b \in Seq(Line), Len(b) <= Len(a),
         \A i \in 1 .. Len(b) : b[i] = a[i], Linked(a)
  PROVE  Linked(b)
<1> SUFFICES ASSUME NEW i \in 1 .. Len(b), b[i] # Garbled
             PROVE  b[i].prev = LastOf(b, i - 1, Genesis)
  BY DEF Linked
<1>1. i \in 1 .. Len(a) /\ i - 1 \in Nat /\ a[i].prev = LastOf(a, i - 1, Genesis)
  BY DEF Linked
<1>2. LastOf(a, i - 1, Genesis) = LastOf(b, i - 1, Genesis)
  <2>1. \A j \in 1 .. i - 1 : a[j] = b[j]
    OBVIOUS
  <2> QED BY <1>1, <2>1, LastOfPrefix
<1> QED BY <1>1, <1>2

LEMMA LinkedAppend ==
  ASSUME NEW lines \in Seq(Line), NEW e \in Line, Linked(lines),
         e # Garbled => e.prev = lastHashOf(lines)
  PROVE  Linked(Append(lines, e))
<1> DEFINE more == Append(lines, e)
           n == Len(lines)
<1>1. /\ n \in Nat /\ Len(more) = n + 1 /\ \A i \in 1 .. n : more[i] = lines[i]
      /\ more[n + 1] = e
  OBVIOUS
<1> HIDE DEF more
<1> SUFFICES ASSUME NEW i \in 1 .. n + 1, more[i] # Garbled
             PROVE  more[i].prev = LastOf(more, i - 1, Genesis)
  BY <1>1 DEF Linked, more
<1>2. i - 1 \in Nat /\ \A j \in 1 .. i - 1 : more[j] = lines[j]
  BY <1>1
<1>3. LastOf(more, i - 1, Genesis) = LastOf(lines, i - 1, Genesis)
  BY <1>2, LastOfPrefix
<1>4. CASE i = n + 1
  BY <1>1, <1>3, <1>4 DEF lastHashOf
<1>5. CASE i # n + 1
  BY <1>1, <1>3, <1>5 DEF Linked
<1> QED BY <1>4, <1>5

\* An append leaves the log alone or adds one line: the record's, or one that
\* does not parse.
LEMMA AppendFacts ==
  ASSUME AuditTypes, NEW p \in Proc, AppendLine(p) \/ AppendFails(p)
  PROVE  /\ job[p].at = "append" /\ job'[p].at = "tail"
         /\ \A q \in Proc : q # p => job'[q] = job[q]
         /\ made' = made + 1 /\ met \subseteq met'
         /\ UNCHANGED <<tip, marker, key, cached, verdict, crashes, losses, cut>>
         /\ \/ log' = log
            \/ \E e \in Line : /\ log' = Append(log, e)
                               /\ \/ e = Garbled
                                  \/ e = [prev |-> job[p].prev, hash |-> made + 1]
<1>1. /\ job[p].at = "append" /\ job' = [job EXCEPT ![p].at = "tail"]
      /\ made' = made + 1 /\ met \subseteq met'
      /\ UNCHANGED <<tip, marker, key, cached, verdict, crashes, losses, cut>>
  BY DEF AppendLine, AppendFails, Goto, Meets
<1>2. job[p] \in [at : {"append", "tail"}, sees : BOOLEAN, prev : Nat]
  BY <1>1, JobIs
<1>3. job'[p].at = "tail" /\ \A q \in Proc : q # p => job'[q] = job[q]
  BY <1>1, <1>2 DEF AuditTypes
<1>4. [prev |-> job[p].prev, hash |-> made + 1] \in Line /\ Garbled \in Line
  BY <1>2 DEF Line, Garbled, AuditTypes
<1>5. \/ log' = log
      \/ log' = Append(log, Garbled)
      \/ log' = Append(log, [prev |-> job[p].prev, hash |-> made + 1])
  BY DEF AppendLine, AppendFails
<1> QED BY <1>1, <1>3, <1>4, <1>5

LEMMA AppendKeeps ==
  ASSUME AuditInv, NEW p \in Proc, AppendLine(p) \/ AppendFails(p)
  PROVE  AuditInv'
<1>0. AuditTypes /\ AuditTypes'
  BY AppendTypes DEF AuditInv
<1>1. /\ job[p].at = "append" /\ job'[p].at = "tail"
      /\ \A q \in Proc : q # p => job'[q] = job[q]
      /\ made' = made + 1 /\ met \subseteq met'
      /\ UNCHANGED <<tip, marker, key, cached, crashes, cut>>
  BY <1>0, AppendFacts
<1>2. Orderly'
  <2>1. "overlap" \notin met' => \A q \in Proc : q # p => job[q].at = "idle"
    BY <1>1 DEF AuditInv, Orderly, Busy
  <2> QED BY <1>1, <2>1 DEF Orderly, Keyed, Busy
<1>3. KeysInForce' /\ Marked'
  BY <1>1 DEF AuditInv, KeysInForce, Marked, Marking, Keyed
<1>7. /\ made \in Nat /\ tip \in Tip \cup {NoTip}
      /\ \A q \in Proc : job[q].at \in Keyed => job[q].tail.hash \in Nat
      /\ \A i \in 1 .. Len(log) : log[i].hash \in Nat
  <2>1. \A q \in Proc : job[q].at \in Keyed => job[q].tail.hash \in Nat
    BY <1>0, JobIs DEF LogTail
  <2>2. \A i \in 1 .. Len(log) : log[i] \in Line
    BY <1>0 DEF AuditTypes
  <2> QED BY <1>0, <2>1, <2>2 DEF AuditTypes, Line
<1>4. CASE log' = log
  <2>1. HashesMade'
    <3>1. \A i \in 1 .. Len(log') : log'[i].hash <= made'
      BY <1>1, <1>4, <1>7 DEF AuditInv, HashesMade
    <3>2. tip' # NoTip => tip'.hash <= made'
      BY <1>1, <1>7 DEF AuditInv, HashesMade, Tip
    <3>3. \A q \in Proc : job'[q].at \in Keyed => job'[q].tail.hash <= made'
      BY <1>1, <1>7 DEF AuditInv, HashesMade, Keyed
    <3> QED BY <3>1, <3>2, <3>3 DEF HashesMade
  <2>2. ChainLinked' /\ CutShows'
    BY <1>1, <1>4 DEF AuditInv, ChainLinked, CutShows
  <2> QED BY <1>0, <1>2, <1>3, <2>1, <2>2 DEF AuditInv
<1>5. ASSUME NEW e \in Line, log' = Append(log, e),
             e = Garbled \/ e = [prev |-> job[p].prev, hash |-> made + 1]
      PROVE  AuditInv'
  <2>1. /\ log \in Seq(Line) /\ Len(log) \in Nat /\ Len(log') = Len(log) + 1
        /\ \A i \in 1 .. Len(log) : log'[i] = log[i]
        /\ log'[Len(log) + 1] = e
    BY <1>0, <1>5 DEF AuditTypes
  <2>2. e.hash \in Nat /\ e.hash <= made + 1 /\ (e # Garbled => e.hash = made + 1)
    BY <1>0, <1>5 DEF Garbled, AuditTypes
  <2>4. HashesMade'
    <3>1. ASSUME NEW i \in 1 .. Len(log')
          PROVE  log'[i].hash <= made'
      <4>1. CASE i = Len(log) + 1
        BY <1>1, <2>1, <2>2, <4>1
      <4>2. CASE i \in 1 .. Len(log)
        BY <1>1, <1>7, <2>1, <4>2 DEF AuditInv, HashesMade
      <4> QED BY <2>1, <4>1, <4>2
    <3>2. tip' # NoTip => tip'.hash <= made'
      BY <1>1, <1>7 DEF AuditInv, HashesMade, Tip
    <3>3. \A q \in Proc : job'[q].at \in Keyed => job'[q].tail.hash <= made'
      BY <1>1, <1>7 DEF AuditInv, HashesMade, Keyed
    <3> QED BY <3>1, <3>2, <3>3 DEF HashesMade
  <2>5. CutShows'
    BY <1>1, <1>7, <2>1, <2>2 DEF AuditInv, CutShows, HashesMade, Tip
  <2>6. ASSUME "overlap" \notin met'
        PROVE  Linked(log')
    <3>1. Linked(log) /\ job[p].prev = lastHashOf(log)
      BY <1>1, <2>6 DEF AuditInv, ChainLinked, Orderly
    <3>2. e # Garbled => e.prev = lastHashOf(log)
      BY <1>5, <3>1
    <3> QED BY <1>5, <2>1, <3>1, <3>2, LinkedAppend
  <2>7. ChainLinked'
    BY <2>6 DEF ChainLinked
  <2> QED BY <1>0, <1>2, <1>3, <2>4, <2>5, <2>7 DEF AuditInv
<1> QED BY <1>0, <1>4, <1>5, AppendFacts

\* What a process reads of the key and of the log.
LEMMA ReadFacts ==
  ASSUME AuditInv, NEW p \in Proc, Cache(p), key' = key
  PROVE  /\ "stale" \notin met => /\ Derived(p) \in {0, key}
                                  /\ \A q \in Proc : cached'[q] \in {0, key'}
         /\ tailOf(log).hash <= made
<1>0. AuditTypes
  BY DEF AuditInv
<1>1. "stale" \notin met => Derived(p) \in {0, key}
  BY DEF AuditInv, KeysInForce, Derived
<1>2. "stale" \notin met => \A q \in Proc : cached'[q] \in {0, key'}
  BY <1>0, <1>1, DerivedType DEF AuditInv, KeysInForce
<1>3. Len(log) \in Nat /\ made \in Nat /\ tailOf(log).hash = LastOf(log, Len(log), 0)
  BY <1>0 DEF AuditTypes, tailOf
<1>4. LastOf(log, Len(log), 0) <= made
  <2>1. \A i \in 1 .. Len(log) : log[i].hash <= made
    BY DEF AuditInv, HashesMade
  <2> QED BY <1>3, <2>1, LastOfFacts
<1> QED BY <1>1, <1>2, <1>3, <1>4

LEMMA ReadTailKeeps ==
  ASSUME AuditInv, NEW p \in Proc, ReadTail(p)
  PROVE  AuditInv'
<1>0. AuditTypes /\ AuditTypes'
  BY RecordTypes DEF AuditInv, Record
<1>1. /\ job[p].at = "tail" /\ Cache(p)
      /\ UNCHANGED <<log, tip, marker, key, made, crashes, met, cut>>
      /\ \/ job' = [job EXCEPT ![p] = Idle]
         \/ job' = [job EXCEPT ![p] = [at |-> "tip", key |-> Derived(p), tail |-> tailOf(log)]]
            /\ Derived(p) # 0
  BY DEF ReadTail, Done
<1>2. /\ \A q \in Proc : q # p => job'[q] = job[q]
      /\ \/ job'[p].at = "idle"
         \/ /\ job'[p].at = "tip" /\ job'[p].key = Derived(p) /\ job'[p].tail = tailOf(log)
            /\ Derived(p) # 0
  BY <1>0, <1>1 DEF AuditTypes, Idle
<1>3. /\ "stale" \notin met => /\ Derived(p) \in {0, key}
                               /\ \A q \in Proc : cached'[q] \in {0, key'}
      /\ tailOf(log).hash <= made
  BY <1>1, ReadFacts
<1>4. Orderly'
  BY <1>1, <1>2 DEF AuditInv, Orderly, Keyed, Busy
<1>5. KeysInForce'
  BY <1>1, <1>2, <1>3 DEF AuditInv, KeysInForce, Keyed
<1>6. ChainLinked' /\ CutShows'
  BY <1>1 DEF AuditInv, ChainLinked, CutShows
<1>7. HashesMade'
  BY <1>1, <1>2, <1>3 DEF AuditInv, HashesMade, Keyed
<1>8. Marked'
  BY <1>1, <1>2 DEF AuditInv, Marked, Marking
<1> QED BY <1>0, <1>4, <1>5, <1>6, <1>7, <1>8 DEF AuditInv

LEMMA WriteTipFacts ==
  ASSUME AuditTypes, NEW p \in Proc, WriteTip(p)
  PROVE  /\ job[p].at = "tip" /\ job'[p].at = "marker"
         /\ job'[p].key = job[p].key /\ job'[p].tail = job[p].tail
         /\ \A q \in Proc : q # p => job'[q] = job[q]
         /\ tip' = [n |-> job[p].tail.n, hash |-> job[p].tail.hash, key |-> job[p].key]
         /\ tip' # NoTip /\ cut' # "open"
         /\ UNCHANGED <<log, ragged, marker, key, cached, verdict, made, crashes, losses, met>>
<1>1. job[p] \in [at : Keyed, key : Nat, tail : LogTail]
  BY JobIs DEF WriteTip, Keyed
<1>2. job' = [job EXCEPT ![p].at = "marker"] /\ job \in [Proc -> Job]
  BY DEF WriteTip, Goto, AuditTypes
<1>3. tip' # NoTip
  BY <1>1, AuditAssumption DEF WriteTip, LogTail
<1> QED BY <1>1, <1>2, <1>3 DEF WriteTip

LEMMA WriteTipKeeps ==
  ASSUME AuditInv, NEW p \in Proc, WriteTip(p)
  PROVE  AuditInv'
<1>0. AuditTypes /\ AuditTypes'
  BY RecordTypes DEF AuditInv, Record
<1>1. /\ job[p].at = "tip" /\ job'[p].at = "marker"
      /\ job'[p].key = job[p].key /\ job'[p].tail = job[p].tail
      /\ \A q \in Proc : q # p => job'[q] = job[q]
      /\ tip' = [n |-> job[p].tail.n, hash |-> job[p].tail.hash, key |-> job[p].key]
      /\ tip' # NoTip /\ cut' # "open"
      /\ UNCHANGED <<log, marker, key, cached, made, crashes, met>>
  BY <1>0, WriteTipFacts
<1>2. Orderly'
  BY <1>1 DEF AuditInv, Orderly, Keyed, Busy
<1>3. KeysInForce' /\ HashesMade'
  BY <1>1 DEF AuditInv, KeysInForce, HashesMade, Keyed
<1>4. ChainLinked' /\ CutShows' /\ Marked'
  BY <1>1 DEF AuditInv, ChainLinked, CutShows, Marked, Marking
<1> QED BY <1>0, <1>2, <1>3, <1>4 DEF AuditInv

\* A write that failed leaves the tip alone or takes it away.
LEMMA TipFailsKeeps ==
  ASSUME AuditInv, NEW p \in Proc, TipFails(p)
  PROVE  AuditInv'
<1>0. AuditTypes /\ AuditTypes'
  BY RecordTypes DEF AuditInv, Record
<1>1. job[p] \in [at : Keyed, key : Nat, tail : LogTail] /\ job \in [Proc -> Job]
  BY <1>0, JobIs DEF TipFails, Keyed, AuditTypes
<1>2. /\ job[p].at = "tip" /\ job'[p].at = "unkept"
      /\ job'[p].key = job[p].key /\ job'[p].tail = job[p].tail
      /\ \A q \in Proc : q # p => job'[q] = job[q]
      /\ tip' \in {tip, NoTip} /\ met \subseteq met'
      /\ UNCHANGED <<log, marker, key, cached, made, cut>>
  BY <1>1 DEF TipFails, Goto, Meets
<1>3. Orderly'
  <2>1. "overlap" \notin met' => \A q \in Proc : q # p => job[q].at = "idle"
    BY <1>2 DEF AuditInv, Orderly, Busy
  <2> QED BY <1>2, <2>1 DEF AuditInv, Orderly, Keyed, Busy
<1>4. KeysInForce' /\ HashesMade'
  BY <1>2 DEF AuditInv, KeysInForce, HashesMade, Keyed
<1>5. ChainLinked' /\ CutShows' /\ Marked'
  BY <1>2 DEF AuditInv, ChainLinked, CutShows, Marked, Marking
<1> QED BY <1>0, <1>3, <1>4, <1>5 DEF AuditInv

\* A step of p that ends its command and leaves the log, the tip and the keys.
LEMMA EndKeeps ==
  ASSUME AuditInv, AuditTypes', NEW p \in Proc, Done(p),
         \A q \in Proc : cached'[q] \in {cached[q], 0},
         UNCHANGED <<log, tip, key, made, cut>>, met \subseteq met',
         Marking(p) => marker' \/ "unmarked" \in met', marker => marker'
  PROVE  AuditInv'
<1>1. \A q \in Proc : (q # p => job'[q] = job[q]) /\ (q = p => job'[q].at = "idle")
  BY DEF AuditInv, AuditTypes, Done, Idle
<1>2. Orderly'
  BY <1>1 DEF AuditInv, Orderly, Keyed, Busy
<1>3. KeysInForce' /\ HashesMade'
  BY <1>1 DEF AuditInv, KeysInForce, HashesMade, Keyed
<1>4. ChainLinked' /\ CutShows'
  BY DEF AuditInv, ChainLinked, CutShows
<1>5. Marked'
  <2> SUFFICES ASSUME met' \cap {"overlap", "unmarked"} = {}, tip' # NoTip
               PROVE  marker' \/ \E q \in Proc : Marking(q)'
    BY DEF Marked
  <2>1. met \cap {"overlap", "unmarked"} = {} /\ "unmarked" \notin met' /\ tip # NoTip
    OBVIOUS
  <2>2. marker \/ \E q \in Proc : Marking(q)
    BY <2>1, Zenon DEF AuditInv, Marked
  <2>3. ASSUME NEW q \in Proc, Marking(q), q # p
        PROVE  Marking(q)'
    BY <1>1, <2>3 DEF Marking
  <2>4. Marking(p) => marker'
    BY <2>1, Zenon
  <2> QED BY <2>2, <2>3, <2>4, Zenon
<1> QED BY <1>2, <1>3, <1>4, <1>5 DEF AuditInv

LEMMA MarkerKeeps ==
  ASSUME AuditInv, NEW p \in Proc, WriteMarker(p) \/ MarkerFails(p)
  PROVE  AuditInv'
<1>1. AuditTypes /\ AuditTypes'
  BY RecordTypes DEF AuditInv, Record
<1>2. marker' \/ "unmarked" \in met'
  BY Zenon DEF WriteMarker, MarkerFails, Meets
<1>3. marker => marker'
  BY Zenon DEF WriteMarker, MarkerFails
<1>4. /\ Done(p) /\ met \subseteq met'
      /\ \A q \in Proc : cached'[q] \in {cached[q], 0}
      /\ UNCHANGED <<log, tip, key, made, cut>>
  BY <1>1 DEF WriteMarker, MarkerFails, Meets, AuditTypes
<1>5. Marking(p) => marker' \/ "unmarked" \in met'
  BY <1>2, Zenon
<1> QED BY <1>1, <1>3, <1>4, <1>5, EndKeeps

LEMMA CrashKeeps ==
  ASSUME AuditInv, NEW p \in Proc, Crash(p)
  PROVE  AuditInv'
<1>0. AuditNext
  BY DEF AuditNext
<1>1. AuditTypes /\ AuditTypes'
  BY <1>0, StepTypes DEF AuditInv
<1>2. /\ Done(p) /\ met \subseteq met'
      /\ \A q \in Proc : cached'[q] \in {cached[q], 0}
      /\ UNCHANGED <<log, tip, marker, key, made, cut>>
  BY <1>1 DEF Crash, Meets, AuditTypes
<1>3. marker' = marker
  BY <1>2
<1>4. met' = met \cup {m \in {"unmarked"} : Marking(p) /\ ~marker}
  BY DEF Crash, Meets
<1>5. Marking(p) => marker' \/ "unmarked" \in met'
  BY <1>3, <1>4, Zenon
<1>6. marker => marker'
  BY <1>3, Zenon
<1> QED BY <1>1, <1>2, <1>5, <1>6, EndKeeps

LEMMA VerifyChainKeeps ==
  ASSUME AuditInv, NEW p \in Proc, VerifyChain(p)
  PROVE  AuditInv'
<1>0. AuditTypes /\ AuditTypes'
  BY VerifyTypes DEF AuditInv, Verify
<1>1. /\ job[p].at = "chain"
      /\ UNCHANGED <<log, tip, marker, key, cached, made, crashes, met, cut>>
  BY DEF VerifyChain
<1>2. CASE verifyAuditFile(log)
  <2>1. job' = [job EXCEPT ![p].at = "vtail"]
    BY <1>2 DEF VerifyChain, Goto
  <2>2. job[p] \in [at : {"seed", "chain", "vtail"}, sees : BOOLEAN]
    BY <1>0, <1>1, JobIs
  <2>3. job'[p].at = "vtail" /\ \A q \in Proc : q # p => job'[q] = job[q]
    BY <1>0, <2>1, <2>2 DEF AuditTypes
  <2>4. Orderly'
    BY <1>1, <1>2, <2>3 DEF AuditInv, Orderly, Keyed, Busy
  <2>5. ChainLinked' /\ KeysInForce' /\ HashesMade' /\ CutShows'
    BY <1>1, <2>3 DEF AuditInv, ChainLinked, KeysInForce, HashesMade, CutShows, Keyed
  <2>6. Marked'
    BY <1>1, <2>3 DEF AuditInv, Marked, Marking
  <2> QED BY <1>0, <2>4, <2>5, <2>6 DEF AuditInv
<1>3. CASE ~verifyAuditFile(log)
  <2>1. Done(p)
    BY <1>3 DEF VerifyChain, Answer
  <2>2. \A q \in Proc : cached'[q] \in {cached[q], 0}
    BY <1>0, <1>1 DEF AuditTypes
  <2>3. ~Marking(p)
    BY <1>1 DEF Marking
  <2> QED BY <1>0, <1>1, <2>1, <2>2, <2>3, EndKeeps
<1> QED BY <1>2, <1>3

LEMMA VerifyTailKeeps ==
  ASSUME AuditInv, NEW p \in Proc, VerifyTail(p)
  PROVE  AuditInv'
<1>0. AuditTypes /\ AuditTypes'
  BY VerifyTypes DEF AuditInv, Verify
<1>1. /\ job[p].at = "vtail" /\ Cache(p)
      /\ UNCHANGED <<log, tip, marker, key, made, crashes, met, cut>>
      /\ \/ job' = [job EXCEPT ![p] = Idle]
         \/ job' = [job EXCEPT ![p] = [at |-> "vtip", key |-> Derived(p), tail |-> tailOf(log)]]
            /\ Derived(p) # 0
  BY DEF VerifyTail, Answer, Done
<1>2. /\ \A q \in Proc : q # p => job'[q] = job[q]
      /\ \/ job'[p].at = "idle"
         \/ /\ job'[p].at = "vtip" /\ job'[p].key = Derived(p) /\ job'[p].tail = tailOf(log)
            /\ Derived(p) # 0
  BY <1>0, <1>1 DEF AuditTypes, Idle
<1>3. /\ "stale" \notin met => /\ Derived(p) \in {0, key}
                               /\ \A q \in Proc : cached'[q] \in {0, key'}
      /\ tailOf(log).hash <= made
  BY <1>1, ReadFacts
<1>4. Orderly'
  BY <1>1, <1>2 DEF AuditInv, Orderly, Keyed, Busy
<1>5. KeysInForce'
  BY <1>1, <1>2, <1>3 DEF AuditInv, KeysInForce, Keyed
<1>6. ChainLinked' /\ CutShows'
  BY <1>1 DEF AuditInv, ChainLinked, CutShows
<1>7. HashesMade'
  BY <1>1, <1>2, <1>3 DEF AuditInv, HashesMade, Keyed
<1>8. Marked'
  BY <1>1, <1>2 DEF AuditInv, Marked, Marking
<1> QED BY <1>0, <1>4, <1>5, <1>6, <1>7, <1>8 DEF AuditInv

LEMMA VerifyTipKeeps ==
  ASSUME AuditInv, NEW p \in Proc, VerifyTip(p)
  PROVE  AuditInv'
<1>0. AuditTypes /\ AuditTypes'
  BY VerifyTypes DEF AuditInv, Verify
<1>1. /\ job[p].at = "vtip" /\ Done(p)
      /\ UNCHANGED <<log, tip, marker, key, cached, made, crashes, met, cut>>
  BY DEF VerifyTip, Answer
<1>2. \A q \in Proc : cached'[q] \in {cached[q], 0}
  BY <1>0, <1>1 DEF AuditTypes
<1>3. ~Marking(p)
  BY <1>1 DEF Marking
<1> QED BY <1>0, <1>1, <1>2, <1>3, EndKeeps

\* A loss comes between two commands, and is open once the tip covers more
\* than what is left.
LEMMA LoseTailKeeps ==
  ASSUME AuditInv, LoseTail
  PROVE  AuditInv'
<1>0. AuditNext
  BY DEF AuditNext
<1>1. AuditTypes /\ AuditTypes'
  BY <1>0, StepTypes DEF AuditInv
<1>2. PICK k \in 0 .. Len(log) - 1 :
        /\ Len(log') = k /\ log' \in Seq(Line)
        /\ \A i \in 1 .. k : log'[i] = log[i]
        /\ cut' = IF tip # NoTip /\ tip.n > k THEN "open" ELSE cut
  BY <1>1, LoseTailFacts
<1>3. /\ \A p \in Proc : job[p].at = "idle"
      /\ UNCHANGED <<tip, marker, key, cached, job, made, crashes, met>>
  BY DEF LoseTail, Idle
<1>4. Orderly'
  BY <1>3 DEF Orderly, Keyed, Busy
<1>5. KeysInForce' /\ Marked'
  BY <1>3 DEF AuditInv, KeysInForce, Marked, Marking
<1>6. log \in Seq(Line) /\ Len(log) \in Nat /\ tip \in Tip \cup {NoTip}
  BY <1>1 DEF AuditTypes
<1>7. HashesMade'
  BY <1>2, <1>3, <1>6 DEF AuditInv, HashesMade, Keyed
<1>8. CutShows'
  BY <1>2, <1>3, <1>6 DEF AuditInv, CutShows, Tip
<1>9. ChainLinked'
  <2>1. Linked(log) => Linked(log')
    BY <1>2, <1>6, LinkedPrefix
  <2> QED BY <1>3, <2>1 DEF AuditInv, ChainLinked
<1> QED BY <1>1, <1>4, <1>5, <1>7, <1>8, <1>9 DEF AuditInv

LEMMA InitInv == AuditInit => AuditInv
<1> SUFFICES ASSUME AuditInit
             PROVE  AuditInv
  OBVIOUS
<1>1. AuditTypes
  BY InitTypes
<1>2. \A p \in Proc : job[p].at = "idle" /\ cached[p] = 0
  BY DEF AuditInit, Idle
<1>3. Len(log) = 0 /\ tip = NoTip /\ cut = "no"
  BY DEF AuditInit
<1> QED
  BY <1>1, <1>2, <1>3 DEF AuditInv, Orderly, ChainLinked, Linked, KeysInForce, HashesMade,
                          CutShows, Marked, Marking, Keyed, Busy

LEMMA StepInv ==
  ASSUME AuditInv, [AuditNext]_auditVars
  PROVE  AuditInv'
<1>1. ASSUME NEW p \in Proc, StartRecord(p) \/ StartVerify(p) \/ ChangeKey(p)
      PROVE  AuditInv'
  BY <1>1, StartKeeps
<1>2. ASSUME NEW p \in Proc, Record(p)
      PROVE  AuditInv'
  BY <1>2, SeedKeeps, AppendKeeps, ReadTailKeeps, WriteTipKeeps,
     TipFailsKeeps, MarkerKeeps DEF Record
<1>3. ASSUME NEW p \in Proc, Verify(p)
      PROVE  AuditInv'
  BY <1>3, VerifyChainKeeps, VerifyTailKeeps, VerifyTipKeeps DEF Verify
<1>4. CASE \E p \in Proc : \/ StartRecord(p) \/ StartVerify(p) \/ ChangeKey(p)
                           \/ Record(p) \/ Verify(p) \/ Crash(p)
  BY <1>1, <1>2, <1>3, <1>4, CrashKeeps
<1>5. CASE UNCHANGED auditVars
  BY <1>5 DEF auditVars, AuditInv, AuditTypes, Orderly, ChainLinked, KeysInForce, HashesMade,
              CutShows, Marked, Marking, Busy
<1> QED BY <1>4, <1>5, LoseTailKeeps DEF AuditNext

\* The invariant holds for any number of processes, records, kills and losses.
THEOREM InvHolds == AuditSpec => []AuditInv
<1> QED BY InitInv, StepInv, PTL DEF AuditSpec

\* The chain stays linked for any number of processes, records, kills, losses
\* and failing appends, as long as no two commands overlap.
THEOREM ChainStaysLinked == AuditSpec => []ChainLinked
<1>1. AuditInv => ChainLinked
  BY DEF AuditInv
<1> QED BY <1>1, InvHolds, PTL

-----------------------------------------------------------------------------
(* What a step may never do.                                               *)

\* A linked log without an unparseable line verifies.
LEMMA LinkedVerifies ==
  ASSUME NEW lines \in Seq(Line), Linked(lines), \A i \in 1 .. Len(lines) : lines[i] # Garbled
  PROVE  verifyAuditFile(lines)
<1> SUFFICES ASSUME NEW i \in 1 .. Len(lines)
             PROVE  lines[i].prev = IF i = 1 THEN Genesis ELSE lines[i - 1].hash
  BY DEF verifyAuditFile
<1>1. i - 1 \in Nat /\ \A j \in 1 .. i - 1 : lines[j] # Garbled
  OBVIOUS
<1>2. LastOf(lines, i - 1, Genesis) = IF i - 1 = 0 THEN Genesis ELSE lines[i - 1].hash
  BY <1>1, LastOfClean
<1> QED BY <1>2 DEF Linked

\* A record that has written its tip has committed the log as it is under the
\* key in force, and the log is linked: whatever failed, was killed or lost
\* before, only an unparseable line keeps the log from verifying.
THEOREM TipIsHealed == AuditSpec => []RecordHeals
<1>1. ASSUME AuditInv, NEW p \in Proc, met \cap {"overlap", "stale"} = {}, job[p].at = "marker"
      PROVE  /\ TipVerdict(key, tailOf(log)) = "ok"
             /\ verifyAuditFile(log) \/ \E i \in 1 .. Len(log) : log[i] = Garbled
  <2>1. AuditTypes /\ "overlap" \notin met
    BY <1>1 DEF AuditInv
  <2>2. job[p].key = key
    BY <1>1 DEF AuditInv, KeysInForce, Keyed
  <2>3. /\ tip = [n |-> job[p].tail.n, hash |-> job[p].tail.hash, key |-> job[p].key]
        /\ job[p].tail = tailOf(log)
    BY <1>1, <2>1 DEF AuditInv, Orderly, Keyed
  <2>4. job[p] \in [at : Keyed, key : Nat, tail : LogTail]
    BY <1>1, <2>1, JobIs DEF Keyed
  <2>5. tip # NoTip
    BY <2>3, <2>4, AuditAssumption DEF LogTail
  <2>6. tailOf(log) = [n |-> tip.n, hash |-> tip.hash] /\ tip.key = key
    BY <2>2, <2>3, <2>4 DEF LogTail
  <2>7. TipVerdict(key, tailOf(log)) = "ok"
    BY <2>5, <2>6 DEF TipVerdict
  <2>8. (\A i \in 1 .. Len(log) : log[i] # Garbled) => verifyAuditFile(log)
    BY <1>1, <2>1, LinkedVerifies DEF AuditInv, AuditTypes, ChainLinked
  <2> QED BY <2>7, <2>8
<1>2. AuditInv => RecordHeals
  BY <1>1 DEF RecordHeals
<1> QED BY <1>2, InvHolds, PTL

\* The tip was written before the marker of the same record, and whatever
\* keeps that record from writing the marker as well is counted.
THEOREM ProtectedNeedsKey == AuditSpec => DowngradeRefused
<1>1. ASSUME AuditInv, NEW p \in Proc, met \cap {"overlap", "unmarked"} = {},
             VerifyTail(p), job'[p] = Idle, verdict' = "ok"
      PROVE  tip = NoTip
  <2>1. AuditTypes /\ job[p].at = "vtail"
    BY <1>1 DEF VerifyTail, AuditInv
  <2>2. CASE Derived(p) = 0
    <3>1. verdict' = KeylessVerdict
      BY <1>1, <2>2 DEF VerifyTail, Answer
    <3>2. ~marker
      BY <1>1, <3>1 DEF KeylessVerdict
    <3>3. \A q \in Proc : ~Marking(q)
      BY <1>1, <2>1 DEF AuditInv, Orderly, Busy, Marking
    <3> QED BY <1>1, <3>2, <3>3 DEF AuditInv, Marked
  <2>3. CASE Derived(p) # 0
    <3>1. job' = [job EXCEPT ![p] = [at |-> "vtip", key |-> Derived(p), tail |-> tailOf(log)]]
      BY <1>1, <2>3 DEF VerifyTail
    <3>2. job'[p].at = "vtip"
      BY <2>1, <3>1 DEF AuditTypes
    <3> QED BY <1>1, <3>2 DEF Idle
  <2> QED BY <2>2, <2>3
<1>2. AuditInv /\ [AuditNext]_auditVars =>
        [\A p \in Proc :
           /\ met \cap {"overlap", "unmarked"} = {}
           /\ VerifyTail(p) /\ job'[p] = Idle /\ verdict' = "ok"
           => tip = NoTip]_auditVars
  BY <1>1
<1> QED BY <1>2, InvHolds, PTL DEF AuditSpec, DowngradeRefused

\* A log that lost a covered line can grow back to the length in the tip, but
\* what then stands at its end is younger than the line the tip names; and
\* without the tip only an empty log passes.
THEOREM LossIsCaught == AuditSpec => LossCaught
<1>1. ASSUME AuditInv, NEW p \in Proc, "overlap" \notin met, VerifyTip(p), verdict' = "ok"
      PROVE  cut # "open" \/ (tip = NoTip /\ log = <<>>)
  <2>0. CASE tip = NoTip
    <3>1. AuditTypes /\ job[p].at = "vtip" /\ TipVerdict(job[p].key, job[p].tail) = "ok"
      BY <1>1 DEF VerifyTip, Answer, AuditInv
    <3>2. job[p].tail = tailOf(log)
      BY <1>1, <3>1 DEF AuditInv, Orderly, Keyed
    <3>3. tailOf(log).n = Len(log) /\ log \in Seq(Line)
      BY <3>1 DEF tailOf, AuditTypes
    <3>4. ~ (Len(log) > 0)
      BY <2>0, <3>1, <3>2, <3>3 DEF TipVerdict
    <3>5. log = <<>>
      BY <3>3, <3>4
    <3> QED BY <2>0, <3>5
  <2> SUFFICES ASSUME cut = "open", tip # NoTip
               PROVE  FALSE
    BY <2>0
  <2>1. AuditTypes /\ job[p].at = "vtip" /\ verdict' = TipVerdict(job[p].key, job[p].tail)
    BY <1>1 DEF VerifyTip, Answer, AuditInv
  <2>2. /\ tip # NoTip /\ tip.n >= 1
        /\ \A i \in 1 .. Len(log) : i >= tip.n => log[i] = Garbled \/ log[i].hash > tip.hash
    BY <1>1 DEF AuditInv, CutShows
  <2>3. job[p].tail = tailOf(log) /\ verifyAuditFile(log)
    BY <1>1, <2>1 DEF AuditInv, Orderly, Keyed
  <2>4. tailOf(log) = [n |-> tip.n, hash |-> tip.hash]
    BY <1>1, <2>1, <2>2, <2>3 DEF TipVerdict
  <2>5. tip.n = Len(log) /\ tip.hash = LastOf(log, Len(log), 0)
    BY <2>4 DEF tailOf
  <2>6. Len(log) \in Nat /\ \A i \in 1 .. Len(log) : log[i] # Garbled
    BY <2>1, <2>3 DEF verifyAuditFile, AuditTypes
  <2>7. LastOf(log, Len(log), 0) = log[Len(log)].hash
    BY <2>2, <2>5, <2>6, LastOfClean
  <2>8. log[Len(log)].hash > tip.hash /\ tip.hash \in Nat
    BY <2>1, <2>2, <2>5, <2>6 DEF AuditTypes, Tip
  <2> QED BY <2>5, <2>7, <2>8
<1>2. AuditInv /\ [AuditNext]_auditVars =>
        [\A p \in Proc : "overlap" \notin met /\ VerifyTip(p) /\ verdict' = "ok"
           => cut # "open" \/ (tip = NoTip /\ log = <<>>)]_auditVars
  BY <1>1
<1> QED BY <1>2, InvHolds, PTL DEF AuditSpec, LossCaught

-----------------------------------------------------------------------------
(* A log nobody touched.                                                   *)

LEMMA StartUntouched ==
  ASSUME AuditInv, Untouched, Calm, Calm',
         NEW p \in Proc, StartRecord(p) \/ StartVerify(p) \/ ChangeKey(p)
  PROVE  Untouched'
<1>0. AuditTypes
  BY DEF AuditInv
<1>1. /\ \A q \in Proc : q # p => job'[q] = job[q]
      /\ job'[p].at \in {"seed", "chain"}
      /\ \A q \in Proc : job[q].at = "idle"
      /\ UNCHANGED <<log, ragged, tip, marker, verdict>>
  BY <1>0, StartFacts DEF Calm, Idle
<1>2. CASE StartRecord(p) \/ StartVerify(p)
  <2>1. key' = key
    BY <1>2 DEF StartRecord, StartVerify
  <2>2. PICK s \in {"seed", "chain"}, sees \in BOOLEAN :
          /\ job' = [job EXCEPT ![p] = [at |-> s, sees |-> sees]]
          /\ Meets(Beside \cup Without(sees))
    BY <1>2 DEF StartRecord, StartVerify, Start
  <2>3. sees \/ key = 0
    <3>1. Without(sees) = {}
      BY <2>2 DEF Meets, Calm
    <3> QED BY <3>1 DEF Without
  <2>4. job'[p].sees \/ key' = 0
    BY <1>0, <2>1, <2>2, <2>3 DEF AuditTypes
  <2>5. key' # 0 => TipFits'
    BY <1>1, <2>1 DEF Untouched, TipFits
  <2> QED BY <1>1, <2>1, <2>4, <2>5 DEF Untouched, Keyed
<1>3. CASE ChangeKey(p)
  <2>1. key' = key + 1 /\ job' = [job EXCEPT ![p] = [at |-> "seed", sees |-> TRUE]]
    BY <1>3 DEF ChangeKey
  <2>2. key' # 0 /\ job'[p].at = "seed" /\ job'[p].sees
    BY <1>0, <2>1 DEF AuditTypes
  <2> QED BY <1>1, <2>2 DEF Untouched, Keyed
<1> QED BY <1>2, <1>3

LEMMA RecordUntouched ==
  ASSUME AuditInv, Untouched, Calm, Calm', NEW p \in Proc, Record(p)
  PROVE  Untouched'
<1>0. AuditTypes /\ "overlap" \notin met
  BY DEF AuditInv, Calm
<1>1. \A q \in Proc : q # p /\ job[p].at # "idle" => job[q].at = "idle"
  BY <1>0 DEF AuditInv, Orderly, Busy
<1>2. CASE Seed(p)
  <2>1. /\ job[p].at = "seed"
        /\ job' = [job EXCEPT ![p] = [at |-> "append", sees |-> job[p].sees, prev |-> lastHashOf(log)]]
        /\ UNCHANGED <<log, ragged, tip, marker, key, verdict>>
    BY <1>2 DEF Seed
  <2>2. /\ job'[p].at = "append" /\ job'[p].sees = job[p].sees
        /\ \A q \in Proc : q # p => job'[q] = job[q]
    BY <1>0, <2>1 DEF AuditTypes
  <2>3. job[p].sees \/ key = 0
    BY <2>1 DEF Untouched
  <2> QED BY <1>1, <2>1, <2>2, <2>3 DEF Untouched, Keyed
<1>3. CASE AppendLine(p)
  <2>1. /\ job[p].at = "append" /\ job' = [job EXCEPT ![p].at = "tail"]
        /\ log' = Append(log, [prev |-> job[p].prev, hash |-> made + 1])
        /\ ragged' = FALSE
        /\ UNCHANGED <<tip, marker, key, verdict>>
    BY <1>3 DEF AppendLine, Goto, Untouched
  <2>2. job[p] \in [at : {"append", "tail"}, sees : BOOLEAN, prev : Nat]
    BY <1>0, <2>1, JobIs
  <2>3. /\ job'[p].at = "tail" /\ job'[p].sees = job[p].sees
        /\ \A q \in Proc : q # p => job'[q] = job[q]
    BY <1>0, <2>1, <2>2 DEF AuditTypes
  <2>4. job[p].sees \/ key = 0
    BY <2>1 DEF Untouched
  <2>5. log' # <<>> /\ \A i \in 1 .. Len(log') : log'[i] # Garbled
    <3> DEFINE e == [prev |-> job[p].prev, hash |-> made + 1]
    <3>1. e \in Line /\ e # Garbled /\ log \in Seq(Line)
      BY <1>0, <2>2 DEF AuditTypes, Line, Garbled
    <3>2. log' = Append(log, e)
      BY <2>1
    <3> HIDE DEF e
    <3>3. \A i \in 1 .. Len(log) : log[i] # Garbled
      BY DEF Untouched
    <3> QED BY <3>1, <3>2, <3>3
  <2> QED BY <1>1, <2>1, <2>3, <2>4, <2>5 DEF Untouched, Keyed
<1>4. CASE AppendFails(p)
  BY <1>4 DEF AppendFails, Meets, Calm
<1>5. CASE ReadTail(p)
  <2>1. /\ job[p].at = "tail" /\ log # <<>>
        /\ UNCHANGED <<log, ragged, tip, marker, key, verdict>>
    BY <1>5 DEF ReadTail, Untouched
  <2>2. job[p].sees \/ key = 0
    BY <2>1 DEF Untouched
  <2>3. Derived(p) = key
    BY <2>2 DEF Derived, AuditInv, KeysInForce, Calm
  <2>4. CASE key = 0
    <3>1. job' = [job EXCEPT ![p] = Idle]
      BY <1>5, <2>3, <2>4 DEF ReadTail, Done
    <3>2. \A q \in Proc : job'[q].at = "idle"
      BY <1>0, <1>1, <2>1, <3>1 DEF AuditTypes, Idle
    <3> QED BY <2>1, <2>4, <3>2 DEF Untouched, Keyed
  <2>5. CASE key # 0
    <3>1. job' = [job EXCEPT ![p] = [at |-> "tip", key |-> Derived(p), tail |-> tailOf(log)]]
      BY <1>5, <2>1, <2>3, <2>5 DEF ReadTail
    <3>2. job'[p].at = "tip" /\ \A q \in Proc : q # p => job'[q].at = "idle"
      BY <1>0, <1>1, <2>1, <3>1 DEF AuditTypes
    <3> QED BY <2>1, <2>5, <3>2 DEF Untouched, Keyed
  <2> QED BY <2>4, <2>5
<1>6. CASE WriteTip(p)
  <2>1. /\ job[p].at = "tip" /\ job'[p].at = "marker"
        /\ \A q \in Proc : q # p => job'[q] = job[q]
        /\ tip' = [n |-> job[p].tail.n, hash |-> job[p].tail.hash, key |-> job[p].key]
        /\ tip' # NoTip
        /\ UNCHANGED <<log, ragged, marker, key, verdict>>
    BY <1>0, <1>6, WriteTipFacts
  <2>2. job[p].key = key /\ job[p].tail = tailOf(log)
    BY <1>0, <2>1 DEF AuditInv, Orderly, KeysInForce, Keyed, Calm
  <2>3. log # <<>> /\ key # 0
    BY <2>1 DEF Untouched, Keyed
  <2>4. TipFits'
    BY <2>1, <2>2, <2>3 DEF TipFits, tailOf
  <2> QED BY <1>1, <2>1, <2>3, <2>4 DEF Untouched, Keyed
<1>7. CASE WriteMarker(p)
  <2>1. /\ job[p].at \in {"marker", "unkept"} /\ job' = [job EXCEPT ![p] = Idle]
        /\ UNCHANGED <<log, ragged, tip, key, verdict>>
    BY <1>7 DEF WriteMarker, Marking, Done
  <2>2. \A q \in Proc : job'[q].at = "idle"
    BY <1>0, <1>1, <2>1 DEF AuditTypes, Idle
  <2>3. key # 0 /\ TipFits'
    BY <1>1, <2>1 DEF Untouched, Keyed, TipFits
  <2> QED BY <2>1, <2>2, <2>3 DEF Untouched, Keyed
<1>8. ~TipFails(p) /\ ~MarkerFails(p)
  BY DEF TipFails, MarkerFails, Meets, Calm
<1> QED BY <1>2, <1>3, <1>4, <1>5, <1>6, <1>7, <1>8 DEF Record

LEMMA VerifyUntouched ==
  ASSUME AuditInv, Untouched, Calm, Calm', NEW p \in Proc, Verify(p)
  PROVE  Untouched'
<1>0. AuditTypes /\ "overlap" \notin met
  BY DEF AuditInv, Calm
<1>1. \A q \in Proc : q # p /\ job[p].at # "idle" => job[q].at = "idle"
  BY <1>0 DEF AuditInv, Orderly, Busy
\* A verification leaves everything but the verdict, which must be "ok".
<1>2. ASSUME Done(p), job[p].at \in {"chain", "vtail", "vtip"}, verdict' \in {"none", "ok"},
             UNCHANGED <<log, ragged, tip, marker, key>>
      PROVE  Untouched'
  <2>1. \A q \in Proc : job'[q].at = "idle"
    BY <1>0, <1>1, <1>2 DEF AuditTypes, Done, Idle
  <2>2. key # 0 => TipFits'
    BY <1>1, <1>2 DEF Untouched, TipFits
  <2> QED BY <1>2, <2>1, <2>2 DEF Untouched, Keyed
<1>3. CASE VerifyChain(p)
  <2>1. verifyAuditFile(log)
    BY <1>0, LinkedVerifies DEF AuditInv, AuditTypes, ChainLinked, Untouched
  <2>2. /\ job[p].at = "chain" /\ job' = [job EXCEPT ![p].at = "vtail"]
        /\ UNCHANGED <<log, ragged, tip, marker, key, verdict>>
    BY <1>3, <2>1 DEF VerifyChain, Goto
  <2>3. job[p] \in [at : {"seed", "chain", "vtail"}, sees : BOOLEAN]
    BY <1>0, <2>2, JobIs
  <2>4. /\ job'[p].at = "vtail" /\ job'[p].sees = job[p].sees
        /\ \A q \in Proc : q # p => job'[q] = job[q]
    BY <1>0, <2>2, <2>3 DEF AuditTypes
  <2>5. (job[p].sees \/ key = 0) /\ (key # 0 => TipFits')
    BY <1>1, <2>2 DEF Untouched, TipFits
  <2> QED BY <1>1, <2>2, <2>4, <2>5 DEF Untouched, Keyed
<1>4. CASE VerifyTail(p)
  <2>1. job[p].at = "vtail" /\ UNCHANGED <<log, ragged, tip, marker, key>>
    BY <1>4 DEF VerifyTail
  <2>2. job[p].sees \/ key = 0
    BY <2>1 DEF Untouched
  <2>3. Derived(p) = key
    BY <2>2 DEF Derived, AuditInv, KeysInForce, Calm
  <2>4. CASE key = 0
    <3>1. verdict' = KeylessVerdict /\ Done(p)
      BY <1>4, <2>3, <2>4 DEF VerifyTail, Answer
    <3>2. verdict' = "ok"
      BY <2>4, <3>1 DEF KeylessVerdict, Untouched
    <3> QED BY <1>2, <2>1, <3>1, <3>2
  <2>5. CASE key # 0
    <3>1. /\ job' = [job EXCEPT ![p] = [at |-> "vtip", key |-> Derived(p), tail |-> tailOf(log)]]
          /\ verdict' = verdict
      BY <1>4, <2>3, <2>5 DEF VerifyTail
    <3>2. job'[p].at = "vtip" /\ \A q \in Proc : q # p => job'[q].at = "idle"
      BY <1>0, <1>1, <2>1, <3>1 DEF AuditTypes
    <3>3. TipFits'
      BY <1>1, <2>1, <2>5 DEF Untouched, TipFits
    <3> QED BY <2>1, <2>5, <3>1, <3>2, <3>3 DEF Untouched, Keyed
  <2> QED BY <2>4, <2>5
<1>5. CASE VerifyTip(p)
  <2>1. /\ job[p].at = "vtip" /\ verdict' = TipVerdict(job[p].key, job[p].tail) /\ Done(p)
        /\ UNCHANGED <<log, ragged, tip, marker, key>>
    BY <1>5 DEF VerifyTip, Answer
  <2>2. job[p].key = key /\ job[p].tail = tailOf(log)
    BY <1>0, <2>1 DEF AuditInv, Orderly, KeysInForce, Keyed, Calm
  <2>3. TipFits
    BY <1>1, <2>1 DEF Untouched, Keyed
  <2>4. CASE log = <<>>
    BY <1>2, <2>1, <2>2, <2>3, <2>4 DEF TipFits, TipVerdict, tailOf
  <2>5. CASE log # <<>>
    BY <1>2, <2>1, <2>2, <2>3, <2>5 DEF TipFits, TipVerdict, tailOf
  <2> QED BY <2>4, <2>5
<1> QED BY <1>3, <1>4, <1>5 DEF Verify

LEMMA StepCalm ==
  ASSUME AuditInv, CalmInv, [AuditNext]_auditVars
  PROVE  CalmInv'
<1> SUFFICES ASSUME Calm'
             PROVE  Untouched'
  BY DEF CalmInv
<1>0. AuditTypes
  BY DEF AuditInv
<1>1. ASSUME NEW p \in Proc, StartRecord(p) \/ StartVerify(p) \/ ChangeKey(p)
      PROVE  Untouched'
  <2>1. met \subseteq met' /\ UNCHANGED <<crashes, losses>>
    BY <1>0, <1>1, StartFacts
  <2>2. Calm
    BY <2>1 DEF Calm
  <2> QED BY <1>1, <2>2, StartUntouched DEF CalmInv
<1>2. ASSUME NEW p \in Proc, Record(p)
      PROVE  Untouched'
  <2>1. met \subseteq met' /\ UNCHANGED <<crashes, losses>>
    BY <1>2 DEF Record, Seed, AppendLine, AppendFails, ReadTail, WriteTip, TipFails,
                WriteMarker, MarkerFails, Meets
  <2>2. Calm
    BY <2>1 DEF Calm
  <2> QED BY <1>2, <2>2, RecordUntouched DEF CalmInv
<1>3. ASSUME NEW p \in Proc, Verify(p)
      PROVE  Untouched'
  <2>1. UNCHANGED <<met, crashes, losses>>
    BY <1>3 DEF Verify, VerifyChain, VerifyTail, VerifyTip
  <2>2. Calm
    BY <2>1 DEF Calm
  <2> QED BY <1>3, <2>2, VerifyUntouched DEF CalmInv
<1>4. ASSUME NEW p \in Proc, Crash(p)
      PROVE  FALSE
  BY <1>0, <1>4 DEF Crash, Calm, AuditTypes
<1>5. ~LoseTail
  BY <1>0 DEF LoseTail, Calm, AuditTypes
<1>6. CASE \E p \in Proc : \/ StartRecord(p) \/ StartVerify(p) \/ ChangeKey(p)
                           \/ Record(p) \/ Verify(p) \/ Crash(p)
  BY <1>1, <1>2, <1>3, <1>4, <1>6
<1>7. CASE UNCHANGED auditVars
  BY <1>7 DEF auditVars, CalmInv, Calm, Untouched, TipFits
<1> QED BY <1>5, <1>6, <1>7 DEF AuditNext

\* A log nobody touched verifies whatever was recorded, under however many
\* keys, when nothing went wrong.
THEOREM UntouchedVerifies == AuditSpec => []NoFalseAlarm
<1>1. AuditInit => CalmInv
  <2> SUFFICES ASSUME AuditInit
               PROVE  Untouched
    BY DEF CalmInv
  <2>1. /\ \A p \in Proc : job[p].at = "idle"
        /\ log = <<>> /\ tip = NoTip /\ verdict = "none"
    BY DEF AuditInit, Idle
  <2>2. ~ragged /\ ~marker
    BY Zenon DEF AuditInit
  <2> QED BY <2>1, <2>2 DEF Untouched, TipFits, Keyed
<1>2. CalmInv => NoFalseAlarm
  BY DEF CalmInv, Calm, Untouched, NoFalseAlarm
<1> QED BY <1>1, <1>2, InvHolds, StepCalm, PTL DEF AuditSpec
=============================================================================
