--------------------------- MODULE MasterKeyProofs ---------------------------
(* That records stay readable and processes agree on the master key, for   *)
(* any number of processes, keys and restarts.                             *)
EXTENDS MasterKey, TLAPS

(* What the two properties need to be inductive.  While one process makes  *)
(* the key nothing is sealed, nobody has a key, and nobody else makes one; *)
(* that is the state in which no look by another process is an overlap.    *)
MakerAlone ==
  \A p \in Proc : Making(p) =>
    /\ sealed = {}
    /\ place = IF pc[p] = "torn" THEN Torn ELSE None
    /\ \A q \in Proc : cache[q] = None /\ (q # p => ~Making(q))

UserHasKey == \A p \in Proc : pc[p] = "use" => cache[p] # None

SealedKeys == sealed \subseteq {place} \ {None}

CachedKeys == \A p \in Proc : cache[p] \in {None, place}

KeyTypes ==
  /\ place \in Key \cup {None}
  /\ pc \in [Proc -> {"idle", "look", "use", "drawn", "torn"}]
  /\ cache \in [Proc -> Key \cup {None}]
  /\ drawn \in [Proc -> Nat \cup {None}]
  /\ \A p \in Proc : Making(p) => drawn[p] \in Nat
  /\ made \in Nat

KeyInv ==
  /\ KeyTypes
  /\ met = {} => MakerAlone /\ UserHasKey /\ SealedKeys /\ CachedKeys

-----------------------------------------------------------------------------

LEMMA InitKeyInv == KeyInit => KeyInv
BY MasterKeyAssumption
DEF KeyInit, KeyInv, KeyTypes, MakerAlone, UserHasKey, SealedKeys, CachedKeys, Making, Key

LEMMA StepTypes ==
  ASSUME KeyInv, [KeyNext]_keyVars
  PROVE  KeyTypes'
<1> USE MasterKeyAssumption DEF KeyInv, KeyTypes, Making, Key
<1>1. ASSUME NEW p \in Proc, Begin(p) \/ DeriveSubkey(p) \/ FromCache(p) \/ Truncate(p)
      PROVE  KeyTypes'
  BY <1>1 DEF Begin, DeriveSubkey, FromCache, Truncate, Goto
<1>2. ASSUME NEW p \in Proc, Unavailable(p) \/ StoreFails(p) \/ Use(p) \/ Restart(p)
      PROVE  KeyTypes'
  BY <1>2 DEF Unavailable, StoreFails, Use, Restart, End, Goto
<1>3. ASSUME NEW p \in Proc, Find(p)
      PROVE  KeyTypes'
  BY <1>3 DEF Find, Looking, Goto, Stored, keychainGet
<1>4. ASSUME NEW p \in Proc, Draw(p)
      PROVE  KeyTypes'
  BY <1>4 DEF Draw, Looking, Goto
<1>5. ASSUME NEW p \in Proc, WriteKey(p) \/ keychainSet(p)
      PROVE  KeyTypes'
  BY <1>5 DEF WriteKey, keychainSet, Store, Goto
<1>6. CASE KeychainChanges \/ UNCHANGED keyVars
  BY <1>6 DEF KeychainChanges, keyVars
<1> QED BY <1>1, <1>2, <1>3, <1>4, <1>5, <1>6 DEF KeyNext

\* What an action without mishap may rely on.
LEMMA NobodyBeside ==
  ASSUME NEW p \in Proc, NEW hiccups, Meets(Beside(p) \cup hiccups), met' = {}
  PROVE  met = {} /\ hiccups = {} /\ \A q \in Proc \ {p} : ~Making(q)
<1>1. met = {} /\ Beside(p) = {} /\ hiccups = {}
  BY DEF Meets
<1>2. ASSUME NEW q \in Proc \ {p}, Making(q)
      PROVE  FALSE
  <2>1. "overlap" \in Beside(p)
    BY <1>2 DEF Beside
  <2> QED BY <2>1, <1>1
<1> QED BY <1>1, <1>2

Calm == MakerAlone /\ UserHasKey /\ SealedKeys /\ CachedKeys

\* Steps that neither look nor store.
LEMMA QuietStepCalm ==
  ASSUME KeyTypes, Calm, NEW p \in Proc,
         \/ Begin(p) \/ DeriveSubkey(p) \/ FromCache(p) \/ Unavailable(p)
         \/ StoreFails(p) \/ Restart(p)
  PROVE  Calm'
<1> USE DEF KeyTypes, Calm, MakerAlone, UserHasKey, SealedKeys, CachedKeys, Making
<1>1. CASE Begin(p) \/ DeriveSubkey(p) \/ FromCache(p)
  BY <1>1 DEF Begin, DeriveSubkey, FromCache, Goto
<1>2. CASE Unavailable(p) \/ StoreFails(p) \/ Restart(p)
  BY <1>2 DEF Unavailable, StoreFails, Restart, End, Goto
<1> QED BY <1>1, <1>2

\* Whoever finds a key while nobody makes one has the key in place.
LEMMA FindCalm ==
  ASSUME KeyTypes, Calm, NEW p \in Proc, Find(p), met' = {}
  PROVE  Calm'
<1> USE DEF KeyTypes, Calm
<1>1. \A q \in Proc : ~Making(q)
  <2>1. Meets(Beside(p) \cup {}) /\ ~Making(p)
    BY DEF Find, Looking, Making
  <2> QED BY <2>1, NobodyBeside
<1>2. Stored = place /\ place # None
  BY DEF Find, Looking, Stored, keychainGet, keychainAvailable
<1>3. /\ pc' = [pc EXCEPT ![p] = "use"] /\ cache' = [cache EXCEPT ![p] = place]
      /\ place' = place /\ sealed' = sealed
  BY <1>2 DEF Find, Goto
<1>4. MakerAlone'
  BY <1>1, <1>3 DEF MakerAlone, Making
<1>5. UserHasKey'
  BY <1>2, <1>3 DEF UserHasKey
<1>6. SealedKeys' /\ CachedKeys'
  BY <1>3 DEF SealedKeys, CachedKeys
<1> QED BY <1>4, <1>5, <1>6

\* Whoever draws a key has found no key, and nobody else makes one.
LEMMA DrawCalm ==
  ASSUME KeyTypes, Calm, NEW p \in Proc, Draw(p), met' = {}
  PROVE  Calm'
<1> USE DEF KeyTypes, Calm
<1>1. (\A q \in Proc \ {p} : ~Making(q)) /\ {m \in {"hiccup"} : Stored # None} = {}
  BY NobodyBeside DEF Draw
<1>2. Stored = None
  <2>1. "hiccup" \notin {m \in {"hiccup"} : Stored # None}
    BY <1>1
  <2> QED BY <2>1
<1>3. place = None
  BY <1>2 DEF Draw, Looking, Stored, keychainGet, keychainAvailable
<1>4. sealed = {} /\ \A q \in Proc : cache[q] = None
  BY <1>3 DEF SealedKeys, CachedKeys
<1>5. /\ pc' = [pc EXCEPT ![p] = "drawn"]
      /\ cache' = cache /\ place' = place /\ sealed' = sealed
  BY DEF Draw, Goto
<1>6. MakerAlone'
  BY <1>1, <1>3, <1>4, <1>5 DEF MakerAlone, Making
<1>7. UserHasKey' /\ SealedKeys' /\ CachedKeys'
  BY <1>5 DEF UserHasKey, SealedKeys, CachedKeys
<1> QED BY <1>6, <1>7

LEMMA TruncateCalm ==
  ASSUME KeyTypes, Calm, NEW p \in Proc, Truncate(p)
  PROVE  Calm'
<1> USE DEF KeyTypes, Calm
<1>1. /\ Making(p) /\ pc' = [pc EXCEPT ![p] = "torn"] /\ place' = Torn
      /\ cache' = cache /\ sealed' = sealed
  BY DEF Truncate, Goto, Making
<1>2. sealed = {} /\ \A q \in Proc : cache[q] = None /\ (q # p => ~Making(q))
  BY <1>1 DEF MakerAlone
<1> QED BY <1>1, <1>2 DEF MakerAlone, UserHasKey, SealedKeys, CachedKeys, Making

LEMMA StoreCalm ==
  ASSUME KeyTypes, Calm, NEW p \in Proc, WriteKey(p) \/ keychainSet(p)
  PROVE  Calm'
<1> USE DEF KeyTypes, Calm
<1>1. /\ Making(p) /\ pc' = [pc EXCEPT ![p] = "use"] /\ place' = drawn[p]
      /\ cache' = [cache EXCEPT ![p] = drawn[p]] /\ sealed' = sealed
  BY DEF WriteKey, keychainSet, Store, Goto, Making
<1>2. sealed = {} /\ \A q \in Proc : cache[q] = None /\ (q # p => ~Making(q))
  BY <1>1 DEF MakerAlone
<1>3. drawn[p] # None
  BY <1>1, MasterKeyAssumption
<1> QED BY <1>1, <1>2, <1>3 DEF MakerAlone, UserHasKey, SealedKeys, CachedKeys, Making

\* A key in use is the key in place, and while there is one nobody makes another.
LEMMA UseCalm ==
  ASSUME KeyTypes, Calm, NEW p \in Proc, Use(p)
  PROVE  Calm'
<1> USE DEF KeyTypes, Calm
<1>1. cache[p] = place /\ place # None
  BY DEF Use, UserHasKey, CachedKeys
<1>2. \A q \in Proc : ~Making(q)
  BY <1>1 DEF MakerAlone
<1>3. /\ pc' = [pc EXCEPT ![p] = "idle"] /\ place' = place /\ cache' = cache
      /\ sealed' \subseteq sealed \cup {place}
  BY <1>1 DEF Use, End, Goto
<1>4. MakerAlone' /\ UserHasKey'
  BY <1>2, <1>3 DEF MakerAlone, UserHasKey, Making
<1>5. SealedKeys' /\ CachedKeys'
  BY <1>1, <1>3 DEF SealedKeys, CachedKeys
<1> QED BY <1>4, <1>5

LEMMA StepKeyInv == KeyInv /\ [KeyNext]_keyVars => KeyInv'
<1> SUFFICES ASSUME KeyInv, [KeyNext]_keyVars
             PROVE  KeyInv'
    OBVIOUS
<1>1. KeyTypes'
  BY StepTypes
<1>2. SUFFICES ASSUME met' = {}
               PROVE  Calm'
  BY <1>1 DEF KeyInv, Calm
<1>3. KeyTypes /\ (met = {} => Calm)
  BY DEF KeyInv, Calm
<1>4. ASSUME NEW p \in Proc,
             \/ Begin(p) \/ DeriveSubkey(p) \/ FromCache(p) \/ Unavailable(p)
             \/ StoreFails(p) \/ Restart(p)
      PROVE  Calm'
  <2>1. met' = met
    BY <1>4 DEF Begin, DeriveSubkey, FromCache, Unavailable, StoreFails, Restart
  <2> QED BY <2>1, <1>2, <1>3, <1>4, QuietStepCalm
<1>5. ASSUME NEW p \in Proc, Find(p)
      PROVE  Calm'
  <2>1. met = {}
    BY <1>2, <1>5 DEF Find, Meets
  <2> QED BY <2>1, <1>2, <1>3, <1>5, FindCalm
<1>6. ASSUME NEW p \in Proc, Draw(p)
      PROVE  Calm'
  <2>1. met = {}
    BY <1>2, <1>6 DEF Draw, Meets
  <2> QED BY <2>1, <1>2, <1>3, <1>6, DrawCalm
<1>7. ASSUME NEW p \in Proc, Truncate(p)
      PROVE  Calm'
  BY <1>2, <1>3, <1>7, TruncateCalm DEF Truncate
<1>8. ASSUME NEW p \in Proc, WriteKey(p) \/ keychainSet(p)
      PROVE  Calm'
  BY <1>2, <1>3, <1>8, StoreCalm DEF WriteKey, keychainSet, Store
<1>9. ASSUME NEW p \in Proc, Use(p)
      PROVE  Calm'
  BY <1>2, <1>3, <1>9, UseCalm DEF Use
<1>10. CASE KeychainChanges \/ UNCHANGED keyVars
  BY <1>2, <1>3, <1>10
  DEF KeychainChanges, keyVars, Calm, MakerAlone, UserHasKey, SealedKeys, CachedKeys, Making
<1> QED BY <1>4, <1>5, <1>6, <1>7, <1>8, <1>9, <1>10 DEF KeyNext

(* The strengthened invariant holds in every reachable state. *)
THEOREM KeyInvariant == KeySpec => []KeyInv
<1> QED BY InitKeyInv, StepKeyInv, PTL DEF KeySpec

(* Without two makers and read errors, every record is sealed under the    *)
(* key that the key store holds: masterKey() never seals under a key that  *)
(* is not kept.                                                            *)
THEOREM RecordsStayReadable == KeySpec => []SealedStaysReadable
<1>1. KeyInv => SealedStaysReadable
  BY DEF KeyInv, SealedStaysReadable, SealedKeys
<1> QED BY <1>1, KeyInvariant, PTL

(* Under the same conditions a cached key of any process is the key in     *)
(* place.                                                                  *)
THEOREM CachesAgree == KeySpec => []KeysAgree
<1>1. KeyInv => KeysAgree
  BY DEF KeyInv, KeysAgree, CachedKeys
<1> QED BY <1>1, KeyInvariant, PTL

-----------------------------------------------------------------------------
(* An audit finds a key, and a key never disappears: one that stores a key *)
(* failed to read the one that is there.                                   *)
AuditHasKey ==
  backend # "passphrase" =>
    \A p \in Proc : cmd[p] = "audit" => place # None /\ (Making(p) => "hiccup" \in met)

AuditInv == KeyTypes /\ cmd \in [Proc -> {None, "put", "get", "audit"}] /\ AuditHasKey

LEMMA StepAudit ==
  ASSUME KeyInv, AuditInv, [KeyNext]_keyVars
  PROVE  AuditInv'
<1> USE DEF AuditInv, AuditHasKey
<1>1. KeyTypes'
  BY StepTypes
<1>2. ASSUME NEW p \in Proc, Begin(p) \/ DeriveSubkey(p)
      PROVE  AuditInv'
  <2>1. masterKeyExists /\ backend # "passphrase" => place # None
    BY DEF masterKeyExists, keychainAvailable, keychainGet
  <2> QED BY <1>1, <1>2, <2>1 DEF Begin, DeriveSubkey, envVars, KeyTypes, Making, Goto
<1>3. ASSUME NEW p \in Proc, FromCache(p) \/ Find(p) \/ Draw(p)
      PROVE  AuditInv'
  <2>1. met \subseteq met'
    BY <1>3 DEF FromCache, Find, Draw, Meets
  <2>2. Draw(p) /\ place # None => "hiccup" \in met'
    BY DEF Draw, Meets, Looking, Stored, keychainGet, keychainAvailable
  <2>3. UNCHANGED <<backend, place, cmd>> /\ pc' \in [Proc -> {"idle", "look", "use", "drawn", "torn"}]
    BY <1>1, <1>3 DEF FromCache, Find, Draw, envVars, KeyTypes
  <2>4. \A q \in Proc : Making(q)' => Making(q) \/ (q = p /\ Draw(p))
    BY <1>3 DEF FromCache, Find, Draw, Goto, Making, KeyTypes
  <2> QED BY <1>1, <2>1, <2>2, <2>3, <2>4
<1>4. ASSUME NEW p \in Proc, Truncate(p) \/ WriteKey(p) \/ keychainSet(p)
      PROVE  AuditInv'
  <2>1. drawn[p] \in Nat
    BY <1>4 DEF KeyTypes, Making, Truncate, WriteKey, keychainSet
  <2>2. place' # None
    BY <1>4, <2>1, MasterKeyAssumption DEF Truncate, WriteKey, keychainSet, Store
  <2>3. \A q \in Proc : Making(q)' => Making(q)
    BY <1>4 DEF Truncate, WriteKey, keychainSet, Store, Goto, Making, KeyTypes
  <2> QED BY <1>1, <1>4, <2>2, <2>3 DEF Truncate, WriteKey, keychainSet, Store, envVars
<1>5. ASSUME NEW p \in Proc, Unavailable(p) \/ StoreFails(p) \/ Use(p) \/ Restart(p)
      PROVE  AuditInv'
  <2>1. \A q \in Proc : Making(q)' => Making(q)
    BY <1>5 DEF Unavailable, StoreFails, Use, Restart, End, Goto, Making, KeyTypes
  <2>2. \A q \in Proc : cmd'[q] = cmd[q] \/ cmd'[q] = None
    BY <1>5 DEF Unavailable, StoreFails, Use, Restart, End
  <2>3. cmd' \in [Proc -> {None, "put", "get", "audit"}] /\ UNCHANGED <<backend, place, met>>
    BY <1>5 DEF Unavailable, StoreFails, Use, Restart, End, envVars
  <2> QED BY <1>1, <2>1, <2>2, <2>3, MasterKeyAssumption
<1>6. CASE KeychainChanges \/ UNCHANGED keyVars
  BY <1>1, <1>6 DEF KeychainChanges, keyVars, envVars, Making
<1> QED BY <1>2, <1>3, <1>4, <1>5, <1>6 DEF KeyNext

(* Outside the passphrase back end, a record or a verification of the audit *)
(* log never makes the first key, and replaces a key only after it failed   *)
(* to read it.                                                              *)
THEOREM AuditNeedsKey == KeySpec => AuditMakesNoKey
<1>1. KeyInit => AuditInv
  BY InitKeyInv, MasterKeyAssumption DEF KeyInv, KeyInit, AuditInv, AuditHasKey
<1>2. AuditInv /\ [KeyNext]_keyVars
      => [backend # "passphrase" /\ place' # place
            => \E p \in Proc : pc[p] # pc'[p] /\ MayWrite(p)]_keyVars
  <2> SUFFICES ASSUME AuditInv, KeyNext, backend # "passphrase", place' # place
               PROVE  \E p \in Proc : pc[p] # pc'[p] /\ MayWrite(p)
      OBVIOUS
  <2>1. \A p \in Proc : cmd[p] = "audit" => place # None /\ (Making(p) => "hiccup" \in met)
    BY DEF AuditInv, AuditHasKey
  <2>2. ASSUME NEW p \in Proc, Truncate(p) \/ WriteKey(p) \/ keychainSet(p)
        PROVE  pc[p] # pc'[p] /\ Making(p)
    BY <2>2 DEF Truncate, WriteKey, keychainSet, Store, Goto, AuditInv, KeyTypes, Making
  <2>3. ASSUME NEW p \in Proc, Begin(p) \/ DeriveSubkey(p) \/ FromCache(p) \/ Find(p) \/ Draw(p)
        PROVE  place' = place
    BY <2>3 DEF Begin, DeriveSubkey, FromCache, Find, Draw
  <2>4. ASSUME NEW p \in Proc, Unavailable(p) \/ StoreFails(p) \/ Use(p) \/ Restart(p)
        PROVE  place' = place
    BY <2>4 DEF Unavailable, StoreFails, Use, Restart
  <2>5. ~KeychainChanges
    BY DEF KeychainChanges
  <2>6. ~KeychainChanges /\ \A p \in Proc :
          ~(\/ Begin(p) \/ DeriveSubkey(p) \/ FromCache(p) \/ Find(p) \/ Draw(p)
            \/ Unavailable(p) \/ StoreFails(p) \/ Use(p) \/ Restart(p))
    BY <2>3, <2>4, <2>5
  <2>7. PICK p \in Proc : Truncate(p) \/ WriteKey(p) \/ keychainSet(p)
    BY <2>6, Zenon DEF KeyNext
  <2> QED BY <2>1, <2>2, <2>7 DEF MayWrite
<1> QED BY <1>1, <1>2, StepAudit, KeyInvariant, PTL DEF KeySpec, AuditMakesNoKey
=============================================================================
