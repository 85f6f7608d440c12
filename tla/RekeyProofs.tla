----------------------------- MODULE RekeyProofs -----------------------------
(***************************************************************************)
(* What a rekey keeps: the vault stays current, what it sealed opens in    *)
(* the environment it switched to, no old key lingers, and kills between   *)
(* its steps lose no secret and leave nothing that stops the next one.     *)
(***************************************************************************)
EXTENDS Rekey, TLAPS

-----------------------------------------------------------------------------
(* The invariant.                                                          *)

Inspecting == {"inspect", "adopt", "discard", "decrypt"}
Swapping == {"stage1", "stage2", "park", "tear", "commit", "rename",
             "unpark", "retire", "finish"}

RekeyTypes ==
  /\ vault \in Table \cup {Torn} /\ staged \in Table \cup {None, Torn}
  /\ keys \in [Slot -> Nat \cup {None, Torn}]
  /\ fresh \in Nat /\ crashes \in Nat /\ version \in Nat
  /\ latest \in [Secret -> Nat]
  /\ envs \in SUBSET Env /\ met \in SUBSET Mishaps
  /\ \/ rk = Idle
     \/ rk \in [at : Inspecting, from : Env, to : Env]
     \/ rk \in [at : Swapping, from : Env, to : Env, token : Nat, table : Table]
  /\ \/ writer = Idle
     \/ writer \in [at : {"truncate", "write"}, name : Secret, val : Nat, table : Table]

\* What the steps of a rekey leave for the next one.
Steps ==
  /\ rk.at = "adopt" => staged \in Table
  /\ rk.at \in Retiring => staged = None
  /\ rk.at = "stage2" => staged = Torn
  /\ rk.at = "park" => rk.from.backend = "keychain"
  /\ rk.at \in {"park", "tear", "commit", "rename"} => staged = rk.table
  /\ rk.at \in {"rename"} \cup Retiring => keys[rk.to.backend] = rk.token
  /\ rk.at = "retire" => Leaves

\* Without an add or remove beside it, what a rekey carries and has staged are
\* the secrets as they are, and its table is sealed under the key it draws.
Apart ==
  "overlap" \notin met =>
    /\ writer # Idle => rk = Idle /\ staged = None
    /\ staged \in Table => \A n \in Names(staged) : staged[n].val = latest[n]
    /\ rk.at \in Swapping =>
         \A n \in Names(rk.table) :
           rk.table[n] = Seal(<<rk.to.backend, rk.to.pass, rk.token>>, latest[n])
    /\ rk.at \in Retiring => vault = rk.table
    /\ writer # Idle =>
         \A n \in Names(writer.table) :
           writer.table[n].val = IF n = writer.name THEN writer.val ELSE latest[n]

\* The stores that may hold a key while nothing was killed, left over or done
\* beside a rekey: the old key's, from the swap on the new key's and the parked
\* one's, and after each removal one less.
Holders ==
  CASE rk.at \in {"tear", "commit", "rename", "unpark"} ->
         {rk.from.backend, rk.to.backend} \cup {s \in {"prev"} : Unparks}
    [] rk.at = "retire" -> {rk.from.backend, rk.to.backend}
    [] rk.at = "finish" -> {rk.to.backend}
    [] OTHER -> {e.backend : e \in envs}

Undisturbed == crashes = 0 /\ met \cap {"linger", "overlap"} = {}

\* Then there is one environment and only its key outside the swap.
OneKey ==
  Undisturbed =>
    /\ IF rk = Idle THEN \E e \in Env : envs = {e} ELSE envs = {rk.from}
    /\ \A s \in Slot : keys[s] # None => s \in Holders

\* The token a rekey draws is new, and goes to the new key's store only.
Drawn ==
  /\ \A s \in Slot : keys[s] \in Nat => keys[s] <= fresh
  /\ rk.at \in Swapping =>
       /\ rk.token <= fresh
       /\ \A s \in Slot :
            keys[s] = rk.token => s = rk.to.backend /\ rk.at \in {"rename"} \cup Retiring

RekeyInv == RekeyTypes /\ Steps /\ Apart /\ VaultCurrent /\ OneKey /\ Drawn

\* The table has just the secrets of `now`, sealed under the key k.
Matches(table, now, k) ==
  \A n \in Secret :
    /\ table[n] # None <=> now[n] # 0
    /\ table[n] # None => table[n] = Seal(k, now[n]) /\ k[3] \in Nat
Fits(table, e) == Matches(table, latest, KeyOf(e, keys))

\* What a kill between two steps leaves behind: the live vault or the staged
\* one opens in the environment the next command runs in.
Kept(e) == writer.at = "write" \/ Fits(vault, e) \/ (staged \in Table /\ Fits(staged, e))

\* The old key still stands.
NotSwitched ==
  \/ rk.at \in {"discard", "decrypt", "stage1", "stage2", "park", "tear"}
  \/ rk.at = "commit" /\ ~TearsKey

\* What a writer is about to write, and the secrets once it has.
Writing == [latest EXCEPT ![writer.name] = writer.val]

\* Kills between steps alone.
Sound ==
  /\ \E e \in Env : envs = {e}
  /\ \A s \in Slot : keys[s] = Torn => TearsKey /\ s = rk.to.backend
  /\ writer.at # "write" => vault # Torn
  /\ rk = Idle => \A e \in envs : Kept(e)
  /\ writer # Idle => \A e \in envs : Matches(writer.table, Writing, KeyOf(e, keys))
  /\ rk.at = "inspect" => Kept(rk.from)
  /\ rk.at = "adopt" => Fits(staged, rk.from)
  /\ NotSwitched => Fits(vault, rk.from)
  /\ rk.at \in Swapping => \A n \in Secret : rk.table[n] # None <=> latest[n] # 0

SoundInv == met = {} => Sound

-----------------------------------------------------------------------------
(* Types.                                                                  *)

MasterKey == Backend \X (Pass \cup {NoPass}) \X (Nat \cup {None, Torn})
Material == [Slot -> Nat \cup {None, Torn}]

LEMMA EnvIs ==
  ASSUME NEW e \in Env
  PROVE  e.backend \in Backend /\ e.backend \in Slot /\ e.backend # "prev"
         /\ e.pass \in Pass \cup {NoPass}
BY DEF Env, Backend, Slot

LEMMA KeyOfType ==
  ASSUME NEW e \in Env, NEW f \in Material
  PROVE  KeyOf(e, f) \in MasterKey
BY EnvIs DEF KeyOf, Material, MasterKey

LEMMA SealType ==
  ASSUME NEW k \in MasterKey, NEW v \in Nat, v # 0
  PROVE  Seal(k, v) \in Sealed
BY DEF Seal, Sealed, MasterKey

LEMMA SealIs ==
  ASSUME NEW k, NEW v
  PROVE  Seal(k, v).key = k /\ Seal(k, v).val = v
BY DEF Seal

LEMMA TableIs ==
  ASSUME NEW table \in Table
  PROVE  /\ table # None /\ table # Torn
         /\ \A n \in Secret : table[n] # None => /\ table[n] \in Sealed
                                                /\ table[n].val \in Nat /\ table[n].val # 0
<1>1. table # None /\ table # Torn
  BY NoneAssumption
<1>2. \A n \in Secret : table[n] \in Sealed \cup {None}
  BY DEF Table
<1> QED BY <1>1, <1>2 DEF Sealed

LEMMA ParsedType ==
  ASSUME NEW table \in Table \cup {Torn}
  PROVE  Parsed(table) \in Table /\ (table # Torn => Parsed(table) = table)
BY DEF Parsed, NoSecrets, Table

\* What a rekey and a writer carry, told by where they are.
LEMMA RkIs ==
  ASSUME RekeyTypes
  PROVE  /\ rk.at = "idle" <=> rk = Idle
         /\ rk.at \in Inspecting <=> rk \in [at : Inspecting, from : Env, to : Env]
         /\ rk.at \in Swapping
              <=> rk \in [at : Swapping, from : Env, to : Env, token : Nat, table : Table]
         /\ writer.at = "idle" <=> writer = Idle
         /\ writer.at \in {"truncate", "write"}
              <=> writer \in [at : {"truncate", "write"}, name : Secret, val : Nat, table : Table]
BY DEF RekeyTypes, Idle, Inspecting, Swapping

LEMMA EnsureKeyTypes ==
  ASSUME RekeyTypes, NEW e \in Env, EnsureKey(e)
  PROVE  /\ keys' \in Material /\ fresh' \in Nat
         /\ keys'[e.backend] # None
         /\ \A s \in Slot : s # e.backend \/ HasKey(e) => keys'[s] = keys[s]
         /\ ~HasKey(e) => keys'[e.backend] = fresh + 1
         /\ HasKey(e) => keys' = keys
<1>1. e.backend \in Slot /\ keys \in Material /\ fresh \in Nat
  BY EnvIs DEF RekeyTypes, Material
<1>2. fresh + 1 # None
  BY <1>1, NoneAssumption
<1> QED BY <1>1, <1>2 DEF EnsureKey, HasKey, Material

LEMMA InitTypes == RekeyInit => RekeyTypes
<1> SUFFICES ASSUME RekeyInit
             PROVE  RekeyTypes
  OBVIOUS
<1>1. vault \in Table
  BY DEF RekeyInit, NoSecrets, Table
<1>2. envs \in SUBSET Env
  BY DEF RekeyInit
<1> QED BY <1>1, <1>2 DEF RekeyInit, RekeyTypes

LEMMA WriterTypes ==
  ASSUME RekeyTypes,
         \/ \E n \in Secret, e \in envs : PutSecret(n, e)
         \/ \E n \in Secret : RemoveSecret(n)
         \/ TruncateVault \/ WriteVault
  PROVE  RekeyTypes'
<1>1. ASSUME NEW n \in Secret, NEW e \in envs, PutSecret(n, e)
      PROVE  RekeyTypes'
  <2>1. e \in Env /\ keys' \in Material /\ fresh' \in Nat
    BY <1>1, EnsureKeyTypes DEF PutSecret, RekeyTypes
  <2>2. Seal(KeyOf(e, keys'), version + 1) \in Sealed
    BY <2>1, KeyOfType, SealType DEF RekeyTypes
  <2>3. [Parsed(vault) EXCEPT ![n] = Seal(KeyOf(e, keys'), version + 1)] \in Table
    BY <2>2, ParsedType DEF RekeyTypes, Table
  <2>4. writer' \in [at : {"truncate", "write"}, name : Secret, val : Nat, table : Table]
    BY <1>1, <2>3 DEF PutSecret, RekeyTypes
  <2>5. version' \in Nat /\ met' \in SUBSET Mishaps
    BY <1>1 DEF PutSecret, Beside, Meets, RekeyTypes
  <2> QED BY <1>1, <2>1, <2>4, <2>5 DEF PutSecret, RekeyTypes, Material
<1>2. ASSUME NEW n \in Secret, RemoveSecret(n)
      PROVE  RekeyTypes'
  <2>1. [Parsed(vault) EXCEPT ![n] = None] \in Table
    BY ParsedType DEF RekeyTypes, Table
  <2>2. writer' \in [at : {"truncate", "write"}, name : Secret, val : Nat, table : Table]
    BY <1>2, <2>1 DEF RemoveSecret
  <2>3. met' \in SUBSET Mishaps
    BY <1>2 DEF RemoveSecret, Beside, Meets, RekeyTypes
  <2> QED BY <1>2, <2>2, <2>3 DEF RemoveSecret, RekeyTypes
<1>3. CASE TruncateVault
  <2>1. writer \in [at : {"truncate", "write"}, name : Secret, val : Nat, table : Table]
    BY <1>3, RkIs DEF TruncateVault
  <2>2. writer' \in [at : {"truncate", "write"}, name : Secret, val : Nat, table : Table]
    BY <1>3, <2>1 DEF TruncateVault
  <2> QED BY <1>3, <2>2 DEF TruncateVault, RekeyTypes
<1>4. CASE WriteVault
  <2>1. writer \in [at : {"truncate", "write"}, name : Secret, val : Nat, table : Table]
    BY <1>4, RkIs DEF WriteVault
  <2>2. vault' \in Table /\ latest' \in [Secret -> Nat]
    BY <1>4, <2>1 DEF WriteVault, RekeyTypes
  <2> QED BY <1>4, <2>2 DEF WriteVault, RekeyTypes
<1> QED BY <1>1, <1>2, <1>3, <1>4

Early == [at : Inspecting, from : Env, to : Env]
Late == [at : Swapping, from : Env, to : Env, token : Nat, table : Table]

\* A step that only moves a rekey on.
LEMMA GotoTypes ==
  ASSUME RekeyTypes, NEW s, GotoRk(s)
  PROVE  /\ rk \in Early /\ s \in Inspecting => rk' \in Early
         /\ rk \in Late /\ s \in Swapping => rk' \in Late
         /\ rk \in Early \cup Late => rk'.at = s /\ rk'.from = rk.from /\ rk'.to = rk.to
         /\ rk \in Late => rk'.token = rk.token /\ rk'.table = rk.table
<1>1. ASSUME rk \in Early
      PROVE  /\ rk' = [at |-> s, from |-> rk.from, to |-> rk.to]
             /\ rk.from \in Env /\ rk.to \in Env
  BY <1>1 DEF GotoRk, Early
<1>2. ASSUME rk \in Late
      PROVE  /\ rk' = [at |-> s, from |-> rk.from, to |-> rk.to, token |-> rk.token,
                       table |-> rk.table]
             /\ rk.from \in Env /\ rk.to \in Env /\ rk.token \in Nat /\ rk.table \in Table
  BY <1>2 DEF GotoRk, Late
<1> QED BY <1>1, <1>2 DEF Early, Late

\* The names and values of a resealed table.
LEMMA ResealedIs ==
  ASSUME RekeyTypes, rk \in Early
  PROVE  /\ Resealed \in Table
         /\ \A n \in Secret :
              /\ Resealed[n] # None <=> Parsed(vault)[n] # None
              /\ Resealed[n] # None =>
                   Resealed[n] = Seal(<<rk.to.backend, rk.to.pass, fresh + 1>>, Parsed(vault)[n].val)
<1>1. fresh + 1 \in Nat /\ rk.to \in Env /\ Parsed(vault) \in Table
  BY ParsedType DEF RekeyTypes, Early
<1>2. [s \in Slot |-> fresh + 1] \in Material
  BY <1>1 DEF Material
<1>3. NewKey \in MasterKey /\ NewKey = <<rk.to.backend, rk.to.pass, fresh + 1>>
  BY <1>1, <1>2, KeyOfType, EnvIs DEF NewKey, KeyOf
<1>4. \A n \in Secret :
        Parsed(vault)[n] # None =>
          Seal(NewKey, Parsed(vault)[n].val) \in Sealed /\ Seal(NewKey, Parsed(vault)[n].val) # None
  BY <1>1, <1>3, TableIs, SealType, NoneAssumption
<1> QED BY <1>3, <1>4 DEF Resealed, Table

LEMMA RkTypes ==
  ASSUME RekeyTypes, Steps, RekeyStep
  PROVE  RekeyTypes'
<1>1. CASE Inspect
  <2>1. rk \in Early
    BY <1>1, RkIs DEF Inspect, Inspecting, Early
  <2>2. keys' \in Material /\ fresh' \in Nat
    BY <1>1, <2>1, EnsureKeyTypes DEF Inspect, Early
  <2>3. rk' \in Early
    BY <1>1, <2>1, GotoTypes DEF Inspect, Inspecting
  <2> QED BY <1>1, <2>2, <2>3 DEF Inspect, RekeyTypes, Material, Early
<1>2. CASE Discard \/ AdoptFails
  <2>1. rk' \in Early
    BY <1>2, RkIs, GotoTypes DEF Discard, AdoptFails, Inspecting, Early
  <2>2. staged' \in {None, staged} /\ met' \in SUBSET Mishaps
    BY <1>2 DEF Discard, AdoptFails, Meets, RekeyTypes
  <2> QED BY <1>2, <2>1, <2>2 DEF Discard, AdoptFails, RekeyTypes, Early
<1>3. CASE Decrypt
  <2>1. rk \in Early
    BY <1>3, RkIs DEF Decrypt, Inspecting, Early
  <2>2. rk' \in Late
    BY <1>3, <2>1, ResealedIs DEF Decrypt, Late, Early, Swapping, RekeyTypes
  <2> QED BY <1>3, <2>2 DEF Decrypt, RekeyTypes, Late
<1>4. CASE Abort
  BY <1>4 DEF Abort, RekeyTypes
<1>5. CASE TruncateStaged
  <2>1. rk' \in Late
    BY <1>5, RkIs, GotoTypes DEF TruncateStaged, Swapping, Late
  <2> QED BY <1>5, <2>1 DEF TruncateStaged, RekeyTypes, Late
<1>6. CASE WriteStaged
  <2>1. rk \in Late
    BY <1>6, RkIs DEF WriteStaged, Swapping, Late
  <2>2. rk' \in Late /\ staged' \in Table
    BY <1>6, <2>1, GotoTypes DEF WriteStaged, Swapping, Late
  <2> QED BY <1>6, <2>2 DEF WriteStaged, RekeyTypes, Late
<1>7. CASE Park
  <2>1. rk \in Late
    BY <1>7, RkIs DEF Park, Swapping, Late
  <2>2. rk' \in Late /\ keys' \in [Slot -> Nat \cup {None, Torn}]
    BY <1>7, <2>1, GotoTypes DEF Park, Swapping, RekeyTypes, Slot
  <2> QED BY <1>7, <2>2 DEF Park, RekeyTypes, Late
<1>8. CASE TruncateKey
  <2>1. rk \in Late
    BY <1>8, RkIs DEF TruncateKey, Swapping, Late
  <2>2. rk' \in Late /\ keys' \in [Slot -> Nat \cup {None, Torn}]
    BY <1>8, <2>1, GotoTypes DEF TruncateKey, Swapping, RekeyTypes
  <2> QED BY <1>8, <2>2 DEF TruncateKey, RekeyTypes, Late
<1>9. CASE CommitKey
  <2>1. rk \in Late
    BY <1>9, RkIs DEF CommitKey, Swapping, Late
  <2>2. rk' \in Late /\ keys' \in [Slot -> Nat \cup {None, Torn}]
    BY <1>9, <2>1, GotoTypes DEF CommitKey, Swapping, RekeyTypes, Late
  <2> QED BY <1>9, <2>2 DEF CommitKey, RekeyTypes, Late
<1>10. CASE Unpark \/ Retire
  <2>1. rk \in Late
    BY <1>10, RkIs DEF Unpark, Retire, Swapping, Late
  <2>2. rk' \in Late
    BY <1>10, <2>1, GotoTypes DEF Unpark, Retire, Swapping
  <2>3. keys' \in [Slot -> Nat \cup {None, Torn}] /\ met' \in SUBSET Mishaps
    BY <1>10 DEF Unpark, Retire, Remove, Meets, RekeyTypes
  <2> QED BY <1>10, <2>2, <2>3 DEF Unpark, Retire, RekeyTypes, Late
<1>11. CASE Finish
  <2>1. rk \in Late
    BY <1>11, RkIs DEF Finish, Swapping, Late
  <2> QED BY <1>11, <2>1 DEF Finish, RekeyTypes, Late
<1>12. CASE Adopt
  <2>1. rk' \in Early
    BY <1>12, RkIs, GotoTypes DEF Adopt, Inspecting, Early
  <2> QED BY <1>12, <2>1 DEF Adopt, Steps, RekeyTypes, Early
<1>13. CASE Rename
  <2>1. rk \in Late
    BY <1>13, RkIs DEF Rename, Swapping, Late
  <2>2. rk' \in Late /\ vault' \in Table
    BY <1>13, <2>1, GotoTypes DEF Rename, Swapping, Steps, Late
  <2> QED BY <1>13, <2>2 DEF Rename, RekeyTypes, Late
<1>14. CASE InspectBlind \/ GiveUp
  BY <1>14 DEF InspectBlind, GiveUp, Meets, RekeyTypes
<1> QED
  BY <1>1, <1>2, <1>3, <1>4, <1>5, <1>6, <1>7, <1>8, <1>9, <1>10, <1>11, <1>12, <1>13, <1>14
  DEF RekeyStep

LEMMA NextTypes ==
  ASSUME RekeyTypes, Steps, [RekeyNext]_rekeyVars
  PROVE  RekeyTypes'
<1>1. CASE \/ \E n \in Secret, e \in envs : PutSecret(n, e)
           \/ \E n \in Secret : RemoveSecret(n)
           \/ TruncateVault \/ WriteVault
  BY <1>1, WriterTypes
<1>2. ASSUME NEW e \in envs, NEW target \in Env, Begin(e, target)
      PROVE  RekeyTypes'
  <2>1. rk' \in Early
    BY <1>2 DEF Begin, Early, Inspecting, RekeyTypes
  <2>2. met' \in SUBSET Mishaps
    BY <1>2 DEF Begin, Meets, RekeyTypes
  <2> QED BY <1>2, <2>1, <2>2 DEF Begin, RekeyTypes, Early
<1>3. CASE CrashRekey
  <2>1. rk \in Early \cup Late
    BY <1>3 DEF CrashRekey, RekeyTypes, Early, Late
  <2>2. envs' \in SUBSET Env
    BY <1>3, <2>1 DEF CrashRekey, RightEnv, Early, Late
  <2>3. met' \in SUBSET Mishaps
    BY <1>3 DEF CrashRekey, Meets, RekeyTypes
  <2> QED BY <1>3, <2>2, <2>3 DEF CrashRekey, RekeyTypes
<1>4. CASE CrashWriter
  <2>1. met' \in SUBSET Mishaps
    BY <1>4 DEF CrashWriter, Meets, RekeyTypes
  <2> QED BY <1>4, <2>1 DEF CrashWriter, RekeyTypes
<1>5. CASE UNCHANGED rekeyVars
  BY <1>5 DEF rekeyVars, RekeyTypes
<1> QED BY <1>1, <1>2, <1>3, <1>4, <1>5, RkTypes DEF RekeyNext

-----------------------------------------------------------------------------
(* What each step keeps of the invariant.                                  *)

Rest == Steps /\ Apart /\ VaultCurrent /\ OneKey

LEMMA GotoIs ==
  ASSUME RekeyTypes, NEW s, GotoRk(s), rk.at \in Inspecting \cup Swapping
  PROVE  /\ rk'.at = s /\ rk'.from = rk.from /\ rk'.to = rk.to
         /\ rk.at \in Swapping => rk'.token = rk.token /\ rk'.table = rk.table
         /\ rk # Idle /\ (s # "idle" => rk' # Idle)
         /\ rk.from \in Env /\ rk.to \in Env
         /\ rk.at \in Swapping => rk.token \in Nat /\ rk.table \in Table
<1>1. rk \in Early \cup Late /\ (rk.at \in Swapping => rk \in Late)
  BY RkIs DEF Early, Late
<1>2. rk # Idle /\ rk'.at = s
  BY <1>1, GotoTypes DEF Idle, Inspecting, Swapping
<1>3. s # "idle" => rk' # Idle
  BY <1>2 DEF Idle
<1> QED BY <1>1, <1>2, <1>3, GotoTypes DEF Early, Late

LEMMA InspectKeeps ==
  ASSUME RekeyInv, Inspect
  PROVE  Rest'
<1>0. RekeyTypes
  BY DEF RekeyInv
<1>1. PICK s \in {"decrypt", "adopt", "discard"} :
        /\ GotoRk(s) /\ rk.at = "inspect"
        /\ s = "decrypt" <=> staged = None
        /\ s = "adopt" => Adoptable(KeyOf(rk.from, keys'))
        /\ EnsureKey(rk.from)
        /\ UNCHANGED <<vault, staged, writer, envs, crashes, met, latest, version>>
  BY DEF Inspect
<1>2. /\ rk'.at = s /\ rk'.from = rk.from /\ rk'.to = rk.to /\ rk # Idle /\ rk' # Idle
      /\ rk.from \in Env
  BY <1>0, <1>1, GotoIs DEF Inspecting
<1>3. Steps'
  BY <1>0, <1>1, <1>2 DEF Steps, Adoptable, RekeyTypes, Retiring
<1>4. Apart' /\ VaultCurrent'
  BY <1>1, <1>2 DEF RekeyInv, Apart, VaultCurrent, Swapping, Retiring
<1>5. OneKey'
  <2>1. \A t \in Slot : t # rk.from.backend => keys'[t] = keys[t]
    BY <1>0, <1>1, <1>2, EnsureKeyTypes
  <2> QED BY <1>1, <1>2, <2>1 DEF RekeyInv, OneKey, Holders, Undisturbed
<1> QED BY <1>3, <1>4, <1>5 DEF Rest

\* The steps that end an inspection because something threw.
LEMMA ThrowKeeps ==
  ASSUME RekeyInv, InspectBlind \/ GiveUp \/ AdoptFails
  PROVE  Rest'
<1>0. RekeyTypes
  BY DEF RekeyInv
<1>1. /\ rk.at \in {"inspect", "adopt"} /\ rk # Idle
      /\ staged' \in {None, staged} /\ met \subseteq met'
      /\ UNCHANGED <<vault, keys, fresh, writer, envs, crashes, latest>>
  BY DEF InspectBlind, GiveUp, AdoptFails, Meets, Idle
<1>2. rk.from \in Env
  BY <1>1, RkIs DEF RekeyInv, Inspecting
<1>3. \/ rk' = rk
      \/ rk' = Idle /\ rk'.at = "idle"
      \/ rk'.at = "discard" /\ rk'.from = rk.from /\ rk' # Idle
  <2>1. CASE InspectBlind \/ GiveUp
    BY <2>1 DEF InspectBlind, GiveUp, Idle
  <2>2. CASE AdoptFails
    BY <1>0, <2>2, GotoIs DEF AdoptFails, Inspecting
  <2> QED BY <2>1, <2>2
<1>4. Steps'
  BY <1>1, <1>3 DEF RekeyInv, Steps, Retiring, InspectBlind, GiveUp, AdoptFails
<1>5. Apart' /\ VaultCurrent'
  BY <1>1, <1>3, NoneAssumption DEF RekeyInv, Apart, VaultCurrent, Swapping, Retiring
<1>6. OneKey'
  BY <1>1, <1>2, <1>3 DEF RekeyInv, OneKey, Holders, Undisturbed
<1> QED BY <1>4, <1>5, <1>6 DEF Rest

LEMMA AdoptKeeps ==
  ASSUME RekeyInv, Adopt \/ Discard
  PROVE  Rest'
<1>0. RekeyTypes
  BY DEF RekeyInv
<1>1. /\ GotoRk("decrypt") /\ rk.at \in {"adopt", "discard"}
      /\ staged' \in {None, staged} /\ vault' \in {vault, staged}
      /\ vault' = vault \/ staged \in Table
      /\ met \subseteq met' /\ UNCHANGED <<keys, writer, envs, crashes, latest>>
  BY DEF Adopt, Discard, Meets, RekeyInv, Steps
<1>2. /\ rk'.at = "decrypt" /\ rk'.from = rk.from /\ rk'.to = rk.to /\ rk # Idle /\ rk' # Idle
      /\ None \notin Table
  BY <1>0, <1>1, GotoIs, NoneAssumption DEF Inspecting
<1>3. Steps' /\ Apart'
  BY <1>1, <1>2 DEF RekeyInv, Steps, Apart, Swapping, Retiring
<1>4. VaultCurrent'
  BY <1>1 DEF RekeyInv, VaultCurrent, Apart, Names
<1>5. OneKey'
  BY <1>1, <1>2 DEF RekeyInv, OneKey, Holders, Undisturbed
<1> QED BY <1>3, <1>4, <1>5 DEF Rest

LEMMA DecryptKeeps ==
  ASSUME RekeyInv, Decrypt
  PROVE  Rest'
<1>0. RekeyTypes /\ rk.at = "decrypt" /\ rk \in Early
  BY RkIs DEF RekeyInv, Decrypt, Early, Inspecting
<1>1. /\ rk' = [at |-> "stage1", from |-> rk.from, to |-> rk.to, token |-> fresh + 1,
                table |-> Resealed]
      /\ UNCHANGED <<vault, staged, keys, writer, envs, crashes, met, latest>>
  BY DEF Decrypt
<1>2. rk # Idle /\ rk' # Idle
  BY <1>0, <1>1 DEF Idle
<1>3. Steps'
  BY <1>1, <1>2 DEF Steps, Retiring
<1>4. Apart'
  <2>1. ASSUME "overlap" \notin met, NEW n \in Secret, Resealed[n] # None
        PROVE  Resealed[n] = Seal(<<rk.to.backend, rk.to.pass, fresh + 1>>, latest[n])
    <3>1. /\ Parsed(vault)[n] # None
          /\ Resealed[n] = Seal(<<rk.to.backend, rk.to.pass, fresh + 1>>, Parsed(vault)[n].val)
      BY <1>0, <2>1, ResealedIs
    <3>2. vault # Torn /\ Parsed(vault) = vault
      BY <3>1 DEF Parsed, NoSecrets
    <3>3. vault[n].val = latest[n]
      BY <2>1, <3>1, <3>2 DEF RekeyInv, VaultCurrent, Names
    <3> QED BY <3>1, <3>2, <3>3
  <2> QED BY <1>1, <1>2, <2>1, NoneAssumption DEF RekeyInv, Apart, Names, Retiring
<1>5. VaultCurrent'
  BY <1>1 DEF RekeyInv, VaultCurrent
<1>6. OneKey'
  BY <1>0, <1>1, <1>2 DEF RekeyInv, OneKey, Holders, Undisturbed
<1> QED BY <1>3, <1>4, <1>5, <1>6 DEF Rest

LEMMA AbortKeeps ==
  ASSUME RekeyInv, Abort
  PROVE  Rest'
<1>1. /\ rk.at = "decrypt" /\ rk' = Idle /\ rk # Idle /\ rk'.at = "idle"
      /\ UNCHANGED <<vault, staged, keys, writer, envs, crashes, met, latest>>
  BY DEF Abort, Idle
<1>2. Steps' /\ Apart' /\ VaultCurrent'
  BY <1>1 DEF RekeyInv, Steps, Apart, VaultCurrent, Swapping, Retiring
<1>3. OneKey'
  <2>1. Undisturbed => rk.from \in Env /\ envs = {rk.from}
    BY <1>1, RkIs DEF RekeyInv, OneKey, Inspecting
  <2> QED BY <1>1, <2>1 DEF RekeyInv, OneKey, Holders, Undisturbed
<1> QED BY <1>2, <1>3 DEF Rest

\* The table a rekey carries holds the secrets as they are.
LEMMA CarriesLatest ==
  ASSUME RekeyInv, rk.at \in Swapping, "overlap" \notin met, NEW n \in Names(rk.table)
  PROVE  rk.table[n].val = latest[n]
<1>1. rk.table[n] = Seal(<<rk.to.backend, rk.to.pass, rk.token>>, latest[n])
  BY DEF RekeyInv, Apart
<1> QED BY <1>1 DEF Seal

\* The steps that write the staged vault.
LEMMA StagingKeeps ==
  ASSUME RekeyInv, TruncateStaged \/ WriteStaged
  PROVE  Rest'
<1>0. RekeyTypes
  BY DEF RekeyInv
<1>1. PICK s \in {"stage2", "park", "commit", "tear"} :
        /\ GotoRk(s) /\ rk.at \in {"stage1", "stage2"}
        /\ staged' = IF s = "stage2" THEN Torn ELSE rk.table
        /\ s = "park" => rk.from.backend = "keychain"
        /\ UNCHANGED <<vault, keys, writer, envs, crashes, met, latest>>
  BY DEF TruncateStaged, WriteStaged
<1>2. /\ rk'.at = s /\ rk'.from = rk.from /\ rk'.to = rk.to /\ rk # Idle /\ rk' # Idle
      /\ rk'.token = rk.token /\ rk'.table = rk.table
  BY <1>0, <1>1, GotoIs DEF Swapping
<1>3. Steps'
  BY <1>1, <1>2 DEF Steps, Retiring
<1>4. Apart'
  <2>1. "overlap" \notin met => \A n \in Names(rk.table) : rk.table[n].val = latest[n]
    BY <1>1, CarriesLatest DEF Swapping
  <2> QED BY <1>1, <1>2, <2>1, NoneAssumption DEF RekeyInv, Apart, Names, Swapping, Retiring
<1>5. VaultCurrent'
  BY <1>1 DEF RekeyInv, VaultCurrent
<1>6. OneKey'
  BY <1>1, <1>2 DEF RekeyInv, OneKey, Holders, Undisturbed
<1> QED BY <1>3, <1>4, <1>5, <1>6 DEF Rest

\* The steps that write key stores.
LEMMA KeyStepKeeps ==
  ASSUME RekeyInv, Park \/ TruncateKey \/ CommitKey
  PROVE  Rest'
<1>0. RekeyTypes
  BY DEF RekeyInv
<1>1. PICK s \in {"tear", "commit", "rename"}, slot \in {"prev", rk.to.backend} :
        /\ GotoRk(s) /\ rk.at \in {"park", "tear", "commit"}
        /\ \E token : keys' = [keys EXCEPT ![slot] = token]
        /\ slot = "prev" => rk.from.backend = "keychain"
        /\ s = "rename" => keys' = [keys EXCEPT ![rk.to.backend] = rk.token]
        /\ UNCHANGED <<vault, staged, writer, envs, crashes, met, latest>>
  <2>1. CASE Park
    BY <2>1 DEF Park, RekeyInv, Steps
  <2>2. CASE TruncateKey
    BY <2>2, EnvIs, GotoIs, <1>0 DEF TruncateKey, Swapping
  <2>3. CASE CommitKey
    BY <2>3, EnvIs, GotoIs, <1>0 DEF CommitKey, Swapping
  <2> QED BY <2>1, <2>2, <2>3
<1>2. /\ rk'.at = s /\ rk'.from = rk.from /\ rk'.to = rk.to /\ rk # Idle /\ rk' # Idle
      /\ rk'.token = rk.token /\ rk'.table = rk.table /\ rk.to \in Env
  BY <1>0, <1>1, GotoIs DEF Swapping
<1>3. rk.to.backend \in Slot /\ keys \in Material
  BY <1>0, <1>2, EnvIs DEF RekeyTypes, Material
<1>4. Steps'
  BY <1>1, <1>2, <1>3 DEF RekeyInv, Steps, Material, Retiring
<1>5. Apart'
  BY <1>1, <1>2 DEF RekeyInv, Apart, Swapping, Retiring
<1>6. VaultCurrent'
  BY <1>1 DEF RekeyInv, VaultCurrent
<1>7. OneKey'
  <2> SUFFICES ASSUME Undisturbed
               PROVE  /\ envs = {rk.from}
                      /\ \A t \in Slot : keys'[t] # None => t \in Holders'
    BY <1>1, <1>2 DEF OneKey, Undisturbed
  <2>1. \A t \in Slot : t # slot => keys'[t] = keys[t]
    BY <1>1, <1>3 DEF Material
  <2>2. Holders' = {rk.from.backend, rk.to.backend} \cup {t \in {"prev"} : Unparks}
    BY <1>1, <1>2 DEF Holders, Unparks
  <2>3. envs = {rk.from} /\ \A t \in Slot : keys[t] # None => t \in Holders
    BY <1>2 DEF RekeyInv, OneKey
  <2>4. Holders \subseteq Holders'
    <3>1. CASE rk.at = "park"
      BY <2>2, <2>3, <3>1 DEF Holders
    <3>2. CASE rk.at \in {"tear", "commit"}
      BY <2>2, <3>2 DEF Holders
    <3> QED BY <1>1, <3>1, <3>2
  <2>5. slot \in Holders'
    BY <1>1, <2>2 DEF Unparks
  <2> QED BY <2>1, <2>3, <2>4, <2>5
<1> QED BY <1>4, <1>5, <1>6, <1>7 DEF Rest

LEMMA RenameKeeps ==
  ASSUME RekeyInv, Rename
  PROVE  Rest'
<1>0. RekeyTypes
  BY DEF RekeyInv
<1>1. PICK s \in Retiring :
        /\ GotoRk(s) /\ rk.at = "rename" /\ vault' = rk.table /\ staged' = None
        /\ s # "unpark" => ~Unparks
        /\ s = "retire" <=> ~Unparks /\ Leaves
        /\ UNCHANGED <<keys, writer, envs, crashes, met, latest>>
  BY DEF Rename, RekeyInv, Steps, Retiring
<1>2. /\ rk'.at = s /\ rk'.from = rk.from /\ rk'.to = rk.to /\ rk # Idle /\ rk' # Idle
      /\ rk'.token = rk.token /\ rk'.table = rk.table
  BY <1>0, <1>1, GotoIs DEF Swapping, Retiring
<1>3. Steps' /\ Apart'
  BY <1>1, <1>2, NoneAssumption DEF RekeyInv, Steps, Apart, Swapping, Retiring, Leaves
<1>4. VaultCurrent'
  <2>1. "overlap" \notin met => \A n \in Names(rk.table) : rk.table[n].val = latest[n]
    BY <1>1, CarriesLatest DEF Swapping
  <2> QED BY <1>1, <2>1 DEF VaultCurrent, Names
<1>5. OneKey'
  <2>1. Holders \subseteq Holders'
    <3>1. CASE s = "unpark"
      BY <1>1, <1>2, <3>1 DEF Holders, Unparks
    <3>2. CASE s # "unpark"
      BY <1>1, <1>2, <3>2 DEF Holders, Unparks, Leaves, Retiring
    <3> QED BY <3>1, <3>2
  <2> QED BY <1>1, <1>2, <2>1 DEF RekeyInv, OneKey, Undisturbed
<1> QED BY <1>3, <1>4, <1>5 DEF Rest

\* A removal takes one store's key away or is counted.
LEMMA RemoveIs ==
  ASSUME RekeyInv, Unpark \/ Retire
  PROVE  \E s \in Slot \ {rk.to.backend}, t \in {"retire", "finish"} :
           /\ GotoRk(t) /\ rk.at \in {"unpark", "retire"}
           /\ s = IF rk.at = "unpark" THEN "prev" ELSE rk.from.backend
           /\ t = "retire" <=> rk.at = "unpark" /\ Leaves
           /\ \/ keys' = [keys EXCEPT ![s] = None] /\ met' = met
              \/ keys' = keys /\ Meets("linger")
           /\ UNCHANGED <<vault, staged, fresh, writer, envs, crashes, latest>>
<1>1. rk.from \in Env /\ rk.to \in Env
  BY RkIs DEF Unpark, Retire, Swapping, RekeyInv
<1>2. CASE Unpark
  BY <1>1, <1>2, EnvIs DEF Unpark, Remove, Slot
<1>3. CASE Retire
  <2>1. Leaves
    BY <1>3 DEF Retire, RekeyInv, Steps
  <2> QED BY <1>1, <1>3, <2>1, EnvIs DEF Retire, Remove, Leaves
<1> QED BY <1>2, <1>3

LEMMA RetireKeeps ==
  ASSUME RekeyInv, Unpark \/ Retire
  PROVE  Rest'
<1>1. PICK s \in Slot \ {rk.to.backend}, t \in {"retire", "finish"} :
        /\ GotoRk(t) /\ rk.at \in {"unpark", "retire"}
        /\ s = IF rk.at = "unpark" THEN "prev" ELSE rk.from.backend
        /\ t = "retire" <=> rk.at = "unpark" /\ Leaves
        /\ \/ keys' = [keys EXCEPT ![s] = None] /\ met' = met
           \/ keys' = keys /\ Meets("linger")
        /\ UNCHANGED <<vault, staged, fresh, writer, envs, crashes, latest>>
  BY RemoveIs
<1>2. /\ rk'.at = t /\ rk'.from = rk.from /\ rk'.to = rk.to /\ rk # Idle /\ rk' # Idle
      /\ rk'.token = rk.token /\ rk'.table = rk.table /\ rk.to \in Env /\ keys \in Material
  BY <1>1, GotoIs DEF Swapping, RekeyInv, RekeyTypes, Material
<1>3. met \subseteq met' /\ ("linger" \notin met' => keys' = [keys EXCEPT ![s] = None])
  BY <1>1 DEF Meets
<1>4. \A u \in Slot : keys'[u] = keys[u] \/ (keys'[u] = None /\ u # rk.to.backend)
  BY <1>1, <1>2 DEF Material
<1>5. Steps'
  BY <1>1, <1>2, <1>4, EnvIs DEF RekeyInv, Steps, Retiring, Leaves
<1>6. Apart' /\ VaultCurrent'
  BY <1>1, <1>2, <1>3 DEF RekeyInv, Apart, VaultCurrent, Swapping, Retiring
<1>7. OneKey'
  <2> SUFFICES ASSUME Undisturbed'
               PROVE  /\ envs = {rk.from}
                      /\ \A u \in Slot : keys'[u] # None => u \in Holders'
    BY <1>1, <1>2 DEF OneKey
  <2>1. envs = {rk.from} /\ \A u \in Slot : keys[u] # None => u \in Holders
    BY <1>1, <1>2, <1>3 DEF RekeyInv, OneKey, Undisturbed
  <2>2. keys'[s] = None
    BY <1>2, <1>3 DEF Undisturbed, Material
  <2>3. Holders \ {s} \subseteq Holders'
    <3>1. CASE rk.at = "unpark"
      BY <1>1, <1>2, <3>1 DEF Holders, Leaves
    <3>2. CASE rk.at = "retire"
      BY <1>1, <1>2, <3>2 DEF Holders
    <3> QED BY <1>1, <3>1, <3>2
  <2> QED BY <1>4, <2>1, <2>2, <2>3
<1> QED BY <1>5, <1>6, <1>7 DEF Rest

LEMMA FinishKeeps ==
  ASSUME RekeyInv, Finish
  PROVE  Rest'
<1>1. /\ rk.at = "finish" /\ rk # Idle /\ rk' = Idle /\ rk'.at = "idle" /\ envs' = {rk.to}
      /\ UNCHANGED <<vault, staged, keys, writer, crashes, met, latest>>
  BY DEF Finish, Idle
<1>2. rk.to \in Env
  BY <1>1, RkIs DEF RekeyInv, Swapping
<1>3. Steps' /\ Apart' /\ VaultCurrent'
  BY <1>1 DEF RekeyInv, Steps, Apart, VaultCurrent, Swapping, Retiring
<1>4. OneKey'
  <2>1. Holders' = {rk.to.backend} /\ Holders = {rk.to.backend}
    BY <1>1 DEF Holders
  <2> QED BY <1>1, <1>2, <2>1 DEF RekeyInv, OneKey, Undisturbed
<1> QED BY <1>3, <1>4 DEF Rest

LEMMA BesideIs ==
  ASSUME Beside
  PROVE  /\ met \subseteq met'
         /\ "overlap" \notin met' => rk = Idle /\ staged = None /\ met' = met
BY DEF Beside, Meets

LEMMA PutKeeps ==
  ASSUME RekeyInv, NEW n \in Secret, NEW e \in envs, PutSecret(n, e)
  PROVE  Rest'
<1>1. RekeyTypes /\ e \in Env /\ version + 1 \in Nat
  BY DEF RekeyInv, RekeyTypes
<1>2. writer = Idle /\ UNCHANGED <<vault, staged, rk, envs, crashes, latest>> /\ EnsureKey(e)
  BY DEF PutSecret
<1>3. keys \in Material /\ \A s \in Slot : s # e.backend \/ keys[s] # None => keys'[s] = keys[s]
  BY <1>1, <1>2, EnsureKeyTypes DEF HasKey, RekeyTypes, Material
<1>4. Steps'
  <2>1. rk.at \in {"rename"} \cup Retiring => rk.to.backend \in Slot /\ rk.token # None
    BY <1>1, RkIs, EnvIs, NoneAssumption DEF Swapping, Retiring
  <2> QED BY <1>2, <1>3, <2>1 DEF RekeyInv, Steps, Leaves
<1>5. Apart'
  <2>1. met \subseteq met' /\ ("overlap" \notin met' => rk = Idle /\ staged = None)
    BY BesideIs DEF PutSecret
  <2>2. writer'.name = n /\ writer'.val = version + 1
        /\ writer'.table = [Parsed(vault) EXCEPT ![n] = Seal(KeyOf(e, keys'), version + 1)]
    BY DEF PutSecret
  <2>3. writer'.table[n].val = version + 1
    BY <1>1, <2>2, ParsedType DEF RekeyTypes, Table, Seal
  <2>4. \A m \in Secret \ {n} : writer'.table[m] = Parsed(vault)[m]
    BY <1>1, <2>2, ParsedType DEF RekeyTypes, Table
  <2>5. ASSUME "overlap" \notin met, NEW m \in Secret, Parsed(vault)[m] # None
        PROVE  Parsed(vault)[m].val = latest[m]
    BY <2>5 DEF RekeyInv, VaultCurrent, Parsed, NoSecrets, Names
  <2>6. "overlap" \notin met' =>
          \A m \in Names(writer'.table) :
            writer'.table[m].val = IF m = writer'.name THEN writer'.val ELSE latest[m]
    BY <2>1, <2>2, <2>3, <2>4, <2>5 DEF Names
  <2> QED BY <1>2, <2>1, <2>6 DEF RekeyInv, Apart
<1>6. VaultCurrent'
  BY <1>2, BesideIs DEF PutSecret, RekeyInv, VaultCurrent
<1>7. OneKey'
  <2>1. met \subseteq met' /\ ("overlap" \notin met' => rk = Idle)
    BY BesideIs DEF PutSecret
  <2>2. Undisturbed' => Holders' = Holders /\ e.backend \in Holders
    BY <1>2, <2>1 DEF Holders, Idle, Undisturbed
  <2> QED BY <1>2, <1>3, <2>1, <2>2 DEF RekeyInv, OneKey, Undisturbed
<1> QED BY <1>4, <1>5, <1>6, <1>7 DEF Rest

LEMMA RemoveKeeps ==
  ASSUME RekeyInv, NEW n \in Secret, RemoveSecret(n)
  PROVE  Rest'
<1>1. RekeyTypes /\ met \subseteq met'
  BY BesideIs DEF RekeyInv, RemoveSecret
<1>2. writer = Idle /\ UNCHANGED <<vault, staged, keys, rk, envs, crashes, latest>>
  BY DEF RemoveSecret
<1>3. Steps' /\ OneKey'
  BY <1>1, <1>2 DEF RekeyInv, Steps, Leaves, OneKey, Holders, Unparks, Undisturbed
<1>4. Apart'
  <2>1. met \subseteq met' /\ ("overlap" \notin met' => rk = Idle /\ staged = None)
    BY BesideIs DEF RemoveSecret
  <2>2. writer'.name = n /\ writer'.table = [Parsed(vault) EXCEPT ![n] = None]
    BY DEF RemoveSecret
  <2>3. /\ writer'.table[n] = None
        /\ \A m \in Secret \ {n} : writer'.table[m] = Parsed(vault)[m]
    BY <1>1, <2>2, ParsedType DEF RekeyTypes, Table
  <2>4. ASSUME "overlap" \notin met, NEW m \in Secret, Parsed(vault)[m] # None
        PROVE  Parsed(vault)[m].val = latest[m]
    BY <2>4 DEF RekeyInv, VaultCurrent, Parsed, NoSecrets, Names
  <2>5. "overlap" \notin met' =>
          \A m \in Names(writer'.table) :
            writer'.table[m].val = IF m = writer'.name THEN writer'.val ELSE latest[m]
    BY <2>1, <2>2, <2>3, <2>4 DEF Names
  <2> QED BY <1>2, <2>1, <2>5 DEF RekeyInv, Apart
<1>5. VaultCurrent'
  BY <1>2, BesideIs DEF RemoveSecret, RekeyInv, VaultCurrent
<1> QED BY <1>3, <1>4, <1>5 DEF Rest

LEMMA TruncateVaultKeeps ==
  ASSUME RekeyInv, TruncateVault
  PROVE  Rest'
<1>1. /\ writer # Idle /\ writer' # Idle /\ vault' = Torn
      /\ writer'.name = writer.name /\ writer'.val = writer.val /\ writer'.table = writer.table
      /\ UNCHANGED <<staged, keys, rk, envs, crashes, met, latest>>
  <2>1. writer \in [at : {"truncate", "write"}, name : Secret, val : Nat, table : Table]
    BY RkIs DEF RekeyInv, TruncateVault
  <2>2. writer' = [at |-> "write", name |-> writer.name, val |-> writer.val, table |-> writer.table]
    BY <2>1 DEF TruncateVault
  <2> QED BY <2>1, <2>2 DEF TruncateVault, Idle
<1>2. Steps' /\ OneKey'
  BY <1>1 DEF RekeyInv, Steps, Leaves, OneKey, Holders, Unparks, Undisturbed
<1>3. Apart' /\ VaultCurrent'
  BY <1>1 DEF RekeyInv, Apart, VaultCurrent, Idle, Swapping, Retiring
<1> QED BY <1>2, <1>3 DEF Rest

LEMMA WriteVaultKeeps ==
  ASSUME RekeyInv, WriteVault
  PROVE  Rest'
<1>1. /\ writer # Idle /\ writer' = Idle /\ vault' = writer.table
      /\ latest' = [latest EXCEPT ![writer.name] = writer.val]
      /\ latest \in [Secret -> Nat] /\ writer.name \in Secret
      /\ UNCHANGED <<staged, keys, rk, envs, crashes, met>>
  BY RkIs DEF RekeyInv, RekeyTypes, WriteVault, Idle
<1>2. Steps' /\ OneKey'
  BY <1>1 DEF RekeyInv, Steps, Leaves, OneKey, Holders, Unparks, Undisturbed
<1>3. Apart'
  BY <1>1, NoneAssumption DEF RekeyInv, Apart, Idle, Swapping, Retiring
<1>4. VaultCurrent'
  BY <1>1 DEF RekeyInv, Apart, VaultCurrent, Names
<1> QED BY <1>2, <1>3, <1>4 DEF Rest

LEMMA BeginKeeps ==
  ASSUME RekeyInv, NEW e \in envs, NEW target \in Env, Begin(e, target)
  PROVE  Rest'
<1>1. /\ rk = Idle /\ rk' = [at |-> "inspect", from |-> e, to |-> target]
      /\ UNCHANGED <<vault, staged, keys, writer, envs, crashes, latest>>
      /\ met \subseteq met' /\ ("overlap" \notin met' => writer = Idle)
  BY DEF Begin, Meets
<1>2. rk'.at = "inspect" /\ rk'.from = e /\ rk' # Idle /\ rk.at = "idle"
  BY <1>1 DEF Idle
<1>3. Steps' /\ Apart' /\ VaultCurrent'
  BY <1>1, <1>2 DEF RekeyInv, Steps, Apart, VaultCurrent, Swapping, Retiring
<1>4. OneKey'
  BY <1>1, <1>2 DEF RekeyInv, OneKey, Holders, Undisturbed
<1> QED BY <1>3, <1>4 DEF Rest

LEMMA KillKeeps ==
  ASSUME RekeyInv, CrashRekey \/ CrashWriter
  PROVE  Rest'
<1>1. /\ crashes' # 0 /\ met \subseteq met' /\ rk' \in {Idle, rk} /\ writer' \in {Idle, writer}
      /\ rk' = rk \/ (rk # Idle /\ writer' = writer)
      /\ UNCHANGED <<vault, staged, keys, latest>>
  BY DEF CrashRekey, CrashWriter, Meets, RekeyInv, RekeyTypes
<1>2. Steps'
  BY <1>1 DEF RekeyInv, Steps, Idle, Retiring, Leaves
<1>3. Apart'
  BY <1>1 DEF RekeyInv, Apart, Idle, Swapping, Retiring
<1>4. VaultCurrent'
  BY <1>1 DEF RekeyInv, VaultCurrent
<1>5. OneKey'
  BY <1>1 DEF OneKey, Undisturbed
<1> QED BY <1>2, <1>3, <1>4, <1>5 DEF Rest

-----------------------------------------------------------------------------
(* The new key is nobody else's.                                           *)

\* Creating a missing key draws a newer token.
LEMMA EnsureDrawn ==
  ASSUME RekeyTypes, Drawn, NEW e \in Env, EnsureKey(e)
  PROVE  /\ fresh' \in Nat /\ fresh <= fresh'
         /\ \A s \in Slot : /\ keys'[s] \in Nat => keys'[s] <= fresh'
                            /\ keys'[s] = keys[s] \/ keys'[s] = fresh + 1
<1>1. CASE HasKey(e)
  BY <1>1 DEF EnsureKey, Drawn, RekeyTypes
<1>2. CASE ~HasKey(e)
  <2>1. fresh' = fresh + 1 /\ keys' = [keys EXCEPT ![e.backend] = fresh + 1] /\ fresh \in Nat
    BY <1>2 DEF EnsureKey, RekeyTypes
  <2>2. \A s \in Slot : keys'[s] = keys[s] \/ keys'[s] = fresh + 1
    BY <2>1 DEF RekeyTypes
  <2> QED BY <2>1, <2>2 DEF Drawn
<1> QED BY <1>1, <1>2

\* A step that ends a rekey, or moves it and changes no key.
LEMMA SameKeysDrawn ==
  ASSUME RekeyInv, UNCHANGED <<keys, fresh>>,
         \/ rk' = rk
         \/ rk'.at \notin Swapping
         \/ /\ rk.at \in Swapping /\ rk'.token = rk.token /\ rk'.to = rk.to
            /\ rk.at \in {"rename"} \cup Retiring => rk'.at \in {"rename"} \cup Retiring
  PROVE  Drawn'
BY DEF RekeyInv, Drawn, Swapping, Retiring

LEMMA KeyStepDrawn ==
  ASSUME RekeyInv, Park \/ TruncateKey \/ CommitKey \/ Unpark \/ Retire
  PROVE  Drawn'
<1>0. /\ RekeyTypes /\ keys \in Material /\ rk.at \in Swapping
      /\ rk.to \in Env /\ rk.token \in Nat /\ rk.to.backend \in Slot
  BY RkIs, EnvIs DEF RekeyInv, RekeyTypes, Material, Park, TruncateKey, CommitKey, Unpark, Retire,
     Swapping
<1>1. /\ rk'.token = rk.token /\ rk'.to = rk.to /\ fresh' = fresh
      /\ rk.at \in Retiring => rk'.at \in Retiring
  BY <1>0, GotoIs DEF Park, TruncateKey, CommitKey, Unpark, Retire, Retiring
<1>2. CASE Park
  <2>1. \A s \in Slot : keys'[s] = keys[s] \/ keys'[s] = keys["keychain"]
    BY <1>0, <1>2 DEF Park, Material
  <2>2. \A s \in Slot : keys[s] # rk.token
    BY <1>0, <1>2 DEF RekeyInv, Drawn, Park, Retiring
  <2> QED BY <1>0, <1>1, <2>1, <2>2 DEF RekeyInv, Drawn, Slot
<1>3. CASE TruncateKey
  <2>1. \A s \in Slot : keys'[s] = keys[s] \/ keys'[s] = Torn
    BY <1>0, <1>3 DEF TruncateKey, Material
  <2>2. \A s \in Slot : keys[s] # rk.token
    BY <1>0, <1>3 DEF RekeyInv, Drawn, TruncateKey, Retiring
  <2> QED BY <1>0, <1>1, <2>1, <2>2, NoneAssumption DEF RekeyInv, Drawn
<1>4. CASE CommitKey
  <2>1. \A s \in Slot : (s # rk.to.backend => keys'[s] = keys[s]) /\ (s = rk.to.backend => keys'[s] = rk.token)
    BY <1>0, <1>4 DEF CommitKey, Material
  <2>2. \A s \in Slot : keys[s] # rk.token
    BY <1>0, <1>4 DEF RekeyInv, Drawn, CommitKey, Retiring
  <2>3. rk'.at = "rename"
    BY <1>0, <1>4, GotoIs DEF CommitKey
  <2> QED BY <1>0, <1>1, <2>1, <2>2, <2>3 DEF RekeyInv, Drawn
<1>5. CASE Unpark \/ Retire
  <2>1. \A s \in Slot : keys'[s] = keys[s] \/ keys'[s] = None
    BY <1>0, <1>5 DEF Unpark, Retire, Remove, Material
  <2>2. rk.at \in Retiring
    BY <1>5 DEF Unpark, Retire, Retiring
  <2> QED BY <1>0, <1>1, <2>1, <2>2, NoneAssumption DEF RekeyInv, Drawn
<1> QED BY <1>2, <1>3, <1>4, <1>5

LEMMA NextDrawn ==
  ASSUME RekeyInv, [RekeyNext]_rekeyVars
  PROVE  Drawn'
<1>0. RekeyTypes /\ Drawn /\ fresh \in Nat
  BY DEF RekeyInv, RekeyTypes
<1>1. ASSUME NEW n \in Secret, NEW e \in envs, PutSecret(n, e)
      PROVE  Drawn'
  <2>1. e \in Env /\ EnsureKey(e) /\ rk' = rk
    BY <1>0, <1>1 DEF PutSecret, RekeyTypes
  <2>2. rk.at \in Swapping => rk.token \in Nat
    BY <1>0, RkIs
  <2> QED BY <1>0, <2>1, <2>2, EnsureDrawn DEF Drawn
<1>2. CASE Inspect
  <2>1. rk.from \in Env /\ EnsureKey(rk.from)
    BY <1>0, <1>2, RkIs DEF Inspect, Inspecting
  <2>2. rk'.at \in {"decrypt", "adopt", "discard"}
    BY <1>0, <1>2, GotoIs DEF Inspect, Inspecting
  <2> QED BY <1>0, <2>1, <2>2, EnsureDrawn DEF Drawn, Swapping
<1>3. CASE Decrypt
  <2>1. keys' = keys /\ fresh' = fresh + 1 /\ rk'.token = fresh + 1 /\ rk'.at = "stage1"
    BY <1>3 DEF Decrypt
  <2> QED BY <1>0, <2>1 DEF Drawn
<1>4. CASE InspectBlind \/ GiveUp \/ Adopt \/ AdoptFails \/ Discard \/ Abort
  <2>1. rk' = rk \/ rk'.at \notin Swapping
    BY <1>0, <1>4, GotoIs DEF InspectBlind, GiveUp, Adopt, AdoptFails, Discard, Abort,
       Inspecting, Swapping, Idle
  <2>2. UNCHANGED <<keys, fresh>>
    BY <1>4 DEF InspectBlind, GiveUp, Adopt, AdoptFails, Discard, Abort
  <2> QED BY <2>1, <2>2, SameKeysDrawn
<1>5. CASE TruncateStaged \/ WriteStaged \/ Rename
  <2>1. /\ rk.at \in Swapping /\ rk'.token = rk.token /\ rk'.to = rk.to
        /\ rk.at \in {"rename"} \cup Retiring => rk'.at \in {"rename"} \cup Retiring
    BY <1>0, <1>5, GotoIs DEF TruncateStaged, WriteStaged, Rename, Swapping, Retiring
  <2>2. UNCHANGED <<keys, fresh>>
    BY <1>5 DEF TruncateStaged, WriteStaged, Rename
  <2> QED BY <2>1, <2>2, SameKeysDrawn
<1>6. CASE Park \/ TruncateKey \/ CommitKey \/ Unpark \/ Retire
  BY <1>6, KeyStepDrawn
<1>7. CASE \/ \E n \in Secret : RemoveSecret(n)
           \/ TruncateVault \/ WriteVault \/ CrashWriter \/ CrashRekey \/ Finish
           \/ \E e \in envs, target \in Env : Begin(e, target)
           \/ UNCHANGED rekeyVars
  <2>1. rk' = rk \/ rk'.at \notin Swapping
    BY <1>7 DEF RemoveSecret, TruncateVault, WriteVault, CrashWriter, CrashRekey, Finish, Begin,
       rekeyVars, Idle, Swapping
  <2>2. UNCHANGED <<keys, fresh>>
    BY <1>7 DEF RemoveSecret, TruncateVault, WriteVault, CrashWriter, CrashRekey, Finish, Begin,
       rekeyVars
  <2> QED BY <2>1, <2>2, SameKeysDrawn
<1> QED BY <1>1, <1>2, <1>3, <1>4, <1>5, <1>6, <1>7 DEF RekeyNext, RekeyStep

LEMMA InitInv == RekeyInit => RekeyInv
<1> SUFFICES ASSUME RekeyInit
             PROVE  RekeyInv
  OBVIOUS
<1>1. Steps /\ Apart
  BY NoneAssumption DEF RekeyInit, Steps, Apart, Idle, Swapping, Retiring
<1>2. VaultCurrent
  BY DEF RekeyInit, VaultCurrent, Names, NoSecrets
<1>3. OneKey
  BY DEF RekeyInit, OneKey
<1>4. Drawn
  BY NoneAssumption DEF RekeyInit, Drawn, Idle, Swapping
<1> QED BY <1>1, <1>2, <1>3, <1>4, InitTypes DEF RekeyInv

LEMMA NextInv ==
  ASSUME RekeyInv, [RekeyNext]_rekeyVars
  PROVE  RekeyInv'
<1>1. RekeyTypes' /\ Drawn'
  BY NextTypes, NextDrawn DEF RekeyInv
<1> SUFFICES Rest'
  BY <1>1 DEF Rest, RekeyInv
<1>2. CASE \E n \in Secret, e \in envs : PutSecret(n, e)
  BY <1>2, PutKeeps
<1>3. CASE \E n \in Secret : RemoveSecret(n)
  BY <1>3, RemoveKeeps
<1>4. CASE TruncateVault \/ WriteVault
  BY <1>4, TruncateVaultKeeps, WriteVaultKeeps
<1>5. CASE \E e \in envs, target \in Env : Begin(e, target)
  BY <1>5, BeginKeeps
<1>6. CASE RekeyStep
  BY <1>6, InspectKeeps, ThrowKeeps, AdoptKeeps, DecryptKeeps, AbortKeeps, StagingKeeps, KeyStepKeeps,
     RenameKeeps, RetireKeeps, FinishKeeps DEF RekeyStep
<1>7. CASE CrashRekey \/ CrashWriter
  BY <1>7, KillKeeps
<1>8. CASE UNCHANGED rekeyVars
  BY <1>8 DEF rekeyVars, RekeyInv, Rest, Steps, Apart, VaultCurrent, OneKey, Leaves, Holders, Unparks,
              Undisturbed
<1> QED
  BY <1>2, <1>3, <1>4, <1>5, <1>6, <1>7, <1>8 DEF RekeyNext

\* A rekey swaps, switches and retires under this invariant.
THEOREM RekeyInvHolds == RekeySpec => []RekeyInv
<1> QED BY InitInv, NextInv, PTL DEF RekeySpec

\* VaultCurrent: the live vault never serves an older value than the last one
\* stored, nor a removed secret, however often rekeys are killed, files torn
\* and credentials mixed up, unless an add or remove came in between.
THEOREM VaultStaysCurrent == RekeySpec => []VaultCurrent
<1>1. RekeyInv => VaultCurrent
  BY DEF RekeyInv
<1> QED BY <1>1, RekeyInvHolds, PTL

\* At the end of a rekey the live vault is the table it carried, sealed under
\* the key that is now in place.
LEMMA RetiringIs ==
  ASSUME RekeyInv, rk.at \in Retiring, "overlap" \notin met
  PROVE  /\ rk.to \in Env /\ rk.token \in Nat /\ vault = rk.table
         /\ KeyOf(rk.to, keys) = <<rk.to.backend, rk.to.pass, rk.token>>
         /\ \A n \in Names(vault) : vault[n] = Seal(KeyOf(rk.to, keys), latest[n])
<1>1. rk.to \in Env /\ rk.token \in Nat
  BY RkIs DEF RekeyInv, Swapping, Retiring
<1>2. KeyOf(rk.to, keys) = <<rk.to.backend, rk.to.pass, rk.token>>
  BY DEF KeyOf, RekeyInv, Steps
<1> QED BY <1>1, <1>2 DEF RekeyInv, Apart, Swapping, Retiring

\* FinishedRekeyReadable: when a rekey returns, every record opens in the
\* environment it switched to, whatever went wrong before it.
THEOREM FinishedOpens == RekeySpec => FinishedRekeyReadable
<1>1. ASSUME RekeyInv, Finish, "overlap" \notin met
      PROVE  \A n \in Names(vault) : Opens(KeyOf(rk.to, keys), vault[n])
  <2>1. rk.at \in Retiring
    BY <1>1 DEF Finish, Retiring
  <2>2. \A n \in Names(vault) : vault[n] = Seal(KeyOf(rk.to, keys), latest[n])
    BY <1>1, <2>1, RetiringIs
  <2> QED BY <2>2, SealIs DEF Opens, Names
<1>2. RekeyInv /\ [RekeyNext]_rekeyVars =>
        [Finish /\ "overlap" \notin met =>
           \A n \in Names(vault) : Opens(KeyOf(rk.to, keys), vault[n])]_rekeyVars
  BY <1>1
<1> QED BY <1>2, RekeyInvHolds, PTL DEF RekeySpec, FinishedRekeyReadable

\* OldKeyRetired: when a rekey returns, no record is sealed under a key that a
\* store other than the new key's holds, whatever kills and failed removals
\* left there; without them there is no such key.
THEOREM NothingUnderAnOldKey == RekeySpec => OldKeyRetired
<1>1. ASSUME RekeyInv, Finish, "overlap" \notin met
      PROVE  /\ crashes = 0 /\ "linger" \notin met =>
                  \A s \in Slot \ {rk.to.backend} : keys[s] = None
             /\ \A s \in Slot \ {rk.to.backend}, n \in Names(vault) :
                  vault[n].key[3] # keys[s]
  <2>1. rk.at = "finish" /\ rk # Idle
    BY <1>1 DEF Finish, Idle
  <2>2. ASSUME crashes = 0, "linger" \notin met, NEW s \in Slot \ {rk.to.backend}
        PROVE  keys[s] = None
    <3>1. keys[s] # None => s \in Holders
      BY <1>1, <2>2 DEF RekeyInv, OneKey, Undisturbed
    <3> QED BY <2>1, <3>1 DEF Holders
  <2>3. ASSUME NEW s \in Slot \ {rk.to.backend}, NEW n \in Names(vault)
        PROVE  vault[n].key[3] # keys[s]
    <3>1. /\ KeyOf(rk.to, keys) = <<rk.to.backend, rk.to.pass, rk.token>>
          /\ vault[n] = Seal(KeyOf(rk.to, keys), latest[n])
      BY <1>1, <2>1, RetiringIs DEF Retiring
    <3>2. vault[n].key[3] = rk.token
      BY <3>1, SealIs
    <3>3. keys[s] # rk.token
      BY <1>1, <2>1 DEF RekeyInv, Drawn, Swapping
    <3> QED BY <3>2, <3>3
  <2> QED BY <2>2, <2>3
<1>2. RekeyInv /\ [RekeyNext]_rekeyVars =>
        [Finish /\ "overlap" \notin met =>
           /\ crashes = 0 /\ "linger" \notin met =>
                \A s \in Slot \ {rk.to.backend} : keys[s] = None
           /\ \A s \in Slot \ {rk.to.backend}, n \in Names(vault) :
                vault[n].key[3] # keys[s]]_rekeyVars
  BY <1>1
<1> QED BY <1>2, RekeyInvHolds, PTL DEF RekeySpec, OldKeyRetired

-----------------------------------------------------------------------------
(* Kills between steps alone.                                              *)

Quiet == RekeyInv /\ Sound /\ met = {}

LEMMA QuietIs ==
  ASSUME Quiet
  PROVE  /\ RekeyTypes /\ Sound /\ "overlap" \notin met
         /\ writer # Idle => rk = Idle /\ staged = None
         /\ rk # Idle => writer = Idle /\ writer.at = "idle"
         /\ staged = None => staged \notin Table
BY NoneAssumption DEF Quiet, RekeyInv, Apart, Idle

\* Creating a missing key keeps what a table is sealed under: a table under
\* that key was empty.
LEMMA EnsureMatches ==
  ASSUME RekeyTypes, NEW e \in Env, EnsureKey(e), NEW table, NEW now,
         Matches(table, now, KeyOf(e, keys))
  PROVE  /\ Matches(table, now, KeyOf(e, keys'))
         /\ \A n \in Secret : table[n] # None => KeyOf(e, keys') = KeyOf(e, keys)
<1>1. CASE HasKey(e)
  BY <1>1, EnsureKeyTypes
<1>2. CASE ~HasKey(e)
  <2>1. KeyOf(e, keys)[3] \notin Nat
    BY <1>2, NoneAssumption DEF HasKey, KeyOf
  <2>2. \A n \in Secret : table[n] = None /\ now[n] = 0
    BY <2>1 DEF Matches
  <2> QED BY <2>2 DEF Matches
<1> QED BY <1>1, <1>2

\* Where a rekey inspects, the staged vault is adopted only if it holds what
\* is stored, and discarded only if the live one does.
LEMMA InspectSound ==
  ASSUME Quiet, Inspect, met' = {}
  PROVE  Sound'
<1>0. RekeyTypes /\ Sound /\ rk.at = "inspect" /\ rk # Idle
  BY QuietIs DEF Inspect, Idle
<1>1. PICK s \in {"decrypt", "adopt", "discard"} :
        /\ GotoRk(s)
        /\ s = "decrypt" <=> staged = None
        /\ staged # None => (s = "adopt" <=> Adoptable(KeyOf(rk.from, keys')))
        /\ EnsureKey(rk.from)
        /\ UNCHANGED <<vault, staged, writer, envs, crashes, met, latest, version>>
  BY DEF Inspect
<1>2. /\ rk'.at = s /\ rk'.from = rk.from /\ rk'.to = rk.to /\ rk' # Idle
      /\ rk.from \in Env /\ writer.at # "write" /\ vault # Torn
  BY <1>0, <1>1, GotoIs, QuietIs DEF Inspecting, Sound
<1>3. vault \in Table /\ Parsed(vault) = vault
  BY <1>0, <1>2 DEF RekeyTypes, Parsed
<1>4. Fits(vault, rk.from) \/ (staged \in Table /\ Fits(staged, rk.from))
  BY <1>0, <1>2 DEF Sound, Kept
<1>5. ASSUME s = "adopt"
      PROVE  Matches(staged, latest, KeyOf(rk.from, keys'))
  <2>1. /\ staged \in Table /\ Names(vault) \subseteq Names(staged)
        /\ \A n \in Names(staged) : Opens(KeyOf(rk.from, keys'), staged[n])
    BY <1>0, <1>1, <1>3, <1>5 DEF Adoptable, RekeyTypes
  <2>2. CASE Fits(staged, rk.from)
    BY <1>0, <1>1, <1>2, <2>2, EnsureMatches DEF Fits
  <2>3. CASE Fits(vault, rk.from)
    <3>1. ASSUME NEW n \in Names(staged)
          PROVE  /\ latest[n] # 0 /\ staged[n] = Seal(KeyOf(rk.from, keys'), latest[n])
                 /\ vault[n] # None
      <4>1. staged[n].val = latest[n] /\ staged[n].val # 0 /\ staged[n] \in Sealed
        BY <2>1, QuietIs, TableIs DEF Quiet, RekeyInv, Apart, Names
      <4>2. staged[n].key = KeyOf(rk.from, keys')
        BY <2>1 DEF Opens
      <4>3. vault[n] # None
        BY <2>3, <4>1 DEF Fits, Matches, Names
      <4> QED BY <4>1, <4>2, <4>3 DEF Sealed, Seal
    <3>2. ASSUME NEW n \in Secret, latest[n] # 0
          PROVE  n \in Names(staged)
      BY <2>1, <2>3, <3>2 DEF Fits, Matches, Names
    <3>3. Matches(vault, latest, KeyOf(rk.from, keys'))
      BY <1>0, <1>1, <1>2, <2>3, EnsureMatches DEF Fits
    <3> QED BY <3>1, <3>2, <3>3 DEF Matches, Names
  <2> QED BY <1>4, <2>2, <2>3
<1>6. ASSUME s # "adopt"
      PROVE  Matches(vault, latest, KeyOf(rk.from, keys'))
  <2>1. CASE Fits(vault, rk.from)
    BY <1>0, <1>1, <1>2, <2>1, EnsureMatches DEF Fits
  <2>2. CASE staged \in Table /\ Fits(staged, rk.from) /\ ~Fits(vault, rk.from)
    <3>1. staged # Torn /\ staged # None /\ ~Adoptable(KeyOf(rk.from, keys'))
      BY <1>1, <1>6, <2>2, NoneAssumption
    <3>2. Names(vault) \subseteq Names(staged)
      <4>1. ASSUME NEW n \in Names(vault)
            PROVE  n \in Names(staged)
        <5>1. vault[n].val = latest[n] /\ vault[n].val # 0
          BY <1>2, <1>3, QuietIs, TableIs DEF Quiet, RekeyInv, VaultCurrent, Names
        <5> QED BY <2>2, <5>1 DEF Fits, Matches, Names
      <4> QED BY <4>1
    <3>3. \A n \in Names(staged) : Opens(KeyOf(rk.from, keys'), staged[n])
      <4>1. Matches(staged, latest, KeyOf(rk.from, keys'))
        BY <1>0, <1>1, <1>2, <2>2, EnsureMatches DEF Fits
      <4> QED BY <4>1, SealIs DEF Matches, Names, Opens
    <3> QED BY <1>3, <3>1, <3>2, <3>3 DEF Adoptable
  <2> QED BY <1>4, <2>1, <2>2
<1>7. \A t \in Slot : keys'[t] # Torn
  <2>1. \A t \in Slot : keys[t] # Torn
    BY <1>0 DEF Sound, TearsKey
  <2>2. fresh + 1 # Torn
    BY <1>0, NoneAssumption DEF RekeyTypes
  <2> QED BY <1>0, <1>1, <1>2, <2>1, <2>2, EnsureKeyTypes
<1> QED
  BY <1>0, <1>1, <1>2, <1>5, <1>6, <1>7, QuietIs DEF Sound, Fits, NotSwitched, Swapping

LEMMA AdoptSound ==
  ASSUME Quiet, Adopt \/ Discard, met' = {}
  PROVE  Sound'
<1>0. RekeyTypes /\ Sound /\ rk # Idle
  BY QuietIs DEF Adopt, Discard, Idle
<1>1. /\ GotoRk("decrypt") /\ rk.at \in {"adopt", "discard"}
      /\ vault' \in {vault, staged}
      /\ vault' # Torn /\ Matches(vault', latest, KeyOf(rk.from, keys))
      /\ UNCHANGED <<keys, writer, envs, latest>>
  <2>1. CASE Adopt
    BY <1>0, <2>1, NoneAssumption DEF Adopt, Quiet, RekeyInv, Steps, Sound, Fits
  <2>2. CASE Discard
    BY <1>0, <2>2, QuietIs DEF Discard, Meets, Sound, NotSwitched, Fits
  <2> QED BY <2>1, <2>2
<1>2. rk'.at = "decrypt" /\ rk'.from = rk.from /\ rk'.to = rk.to /\ rk' # Idle
  BY <1>0, <1>1, GotoIs DEF Inspecting
<1>3. \A t \in Slot : keys[t] # Torn
  BY <1>0, <1>1 DEF Sound, TearsKey
<1> QED
  BY <1>0, <1>1, <1>2, <1>3, QuietIs DEF Sound, Fits, NotSwitched, Swapping

LEMMA DecryptSound ==
  ASSUME Quiet, Decrypt, met' = {}
  PROVE  Sound'
<1>0. RekeyTypes /\ Sound /\ rk.at = "decrypt" /\ rk # Idle /\ rk \in Early
  BY QuietIs, RkIs DEF Decrypt, Early, Inspecting, Idle
<1>1. /\ rk' = [at |-> "stage1", from |-> rk.from, to |-> rk.to, token |-> fresh + 1,
                table |-> Resealed]
      /\ UNCHANGED <<vault, staged, keys, writer, envs, latest>>
  BY DEF Decrypt
<1>2. rk' # Idle /\ rk'.at = "stage1" /\ rk'.from = rk.from /\ rk'.table = Resealed
  BY <1>1 DEF Idle
<1>3. vault # Torn /\ Fits(vault, rk.from)
  BY <1>0, QuietIs DEF Sound, NotSwitched
<1>4. \A n \in Secret : Resealed[n] # None <=> latest[n] # 0
  BY <1>0, <1>3, ResealedIs DEF Parsed, Fits, Matches
<1>5. \A t \in Slot : keys[t] # Torn
  BY <1>0 DEF Sound, TearsKey
<1> QED
  BY <1>0, <1>1, <1>2, <1>3, <1>4, <1>5, QuietIs DEF Sound, Fits, NotSwitched

\* Kills between steps alone leave nothing the next rekey cannot decrypt.
LEMMA NeverAborts ==
  ASSUME Quiet
  PROVE  ~Abort
<1> SUFFICES ASSUME Abort
             PROVE  FALSE
  OBVIOUS
<1>1. rk.at = "decrypt" /\ rk # Idle
  BY DEF Abort, Idle
<1>2. vault # Torn /\ Fits(vault, rk.from)
  BY <1>1, QuietIs DEF Sound, NotSwitched
<1>3. \A n \in Names(vault) : Opens(KeyOf(rk.from, keys), vault[n])
  BY <1>2, SealIs DEF Fits, Matches, Names, Opens
<1> QED BY <1>2, <1>3 DEF Abort, Decrypted, Parsed

LEMMA StagingSound ==
  ASSUME Quiet, TruncateStaged \/ WriteStaged, met' = {}
  PROVE  Sound'
<1>0. RekeyTypes /\ Sound /\ rk # Idle
  BY QuietIs DEF TruncateStaged, WriteStaged, Idle
<1>1. PICK s \in {"stage2", "park", "commit", "tear"} :
        /\ GotoRk(s) /\ rk.at \in {"stage1", "stage2"}
        /\ UNCHANGED <<vault, keys, writer, envs, latest>>
  BY DEF TruncateStaged, WriteStaged
<1>2. rk'.at = s /\ rk'.from = rk.from /\ rk'.to = rk.to /\ rk' # Idle /\ rk'.table = rk.table
  BY <1>0, <1>1, GotoIs DEF Swapping
<1>3. \A t \in Slot : keys[t] # Torn
  BY <1>0, <1>1 DEF Sound, TearsKey
<1>4. Fits(vault, rk.from)
  BY <1>0, <1>1 DEF Sound, NotSwitched
<1> QED
  BY <1>0, <1>1, <1>2, <1>3, <1>4, QuietIs DEF Sound, Fits, NotSwitched, Swapping

LEMMA KeyStepSound ==
  ASSUME Quiet, Park \/ TruncateKey \/ CommitKey, met' = {}
  PROVE  Sound'
<1>0. /\ RekeyTypes /\ Sound /\ rk # Idle /\ rk.at \in {"park", "tear", "commit"}
      /\ keys \in Material
  BY QuietIs DEF Park, TruncateKey, CommitKey, Idle, RekeyTypes, Material
<1>1. PICK s \in {"tear", "commit", "rename"} :
        /\ GotoRk(s) /\ (rk.at = "tear" => s = "commit") /\ (rk.at = "commit" => s = "rename")
        /\ UNCHANGED <<vault, staged, writer, envs, latest>>
  BY DEF Park, TruncateKey, CommitKey
<1>2. /\ rk'.at = s /\ rk'.from = rk.from /\ rk'.to = rk.to /\ rk' # Idle
      /\ rk'.table = rk.table /\ rk.from \in Env /\ rk.to \in Env /\ rk.token \in Nat
  BY <1>0, <1>1, GotoIs DEF Swapping
<1>3. /\ rk.from.backend \in Slot \ {"prev"} /\ rk.to.backend \in Slot \ {"prev"}
      /\ rk.token # Torn
  BY <1>2, EnvIs, NoneAssumption
<1>4. \A t \in Slot : keys'[t] = Torn => (TearsKey /\ t = rk.to.backend)'
  <2>1. CASE Park
    <3>1. \A t \in Slot : keys[t] # Torn
      BY <1>0, <2>1 DEF Sound, TearsKey, Park
    <3> QED BY <1>0, <2>1, <3>1 DEF Park, Material, Slot
  <2>2. CASE TruncateKey
    <3>1. \A t \in Slot : keys[t] # Torn
      BY <1>0, <2>2 DEF Sound, TearsKey, TruncateKey
    <3> QED BY <1>0, <1>1, <1>2, <1>3, <2>2, <3>1 DEF TruncateKey, TearsKey, Material
  <2>3. CASE CommitKey
    BY <1>0, <1>3, <2>3 DEF CommitKey, Sound, Material
  <2> QED BY <2>1, <2>2, <2>3
<1>5. NotSwitched' => Fits(vault, rk.from) /\ KeyOf(rk.from, keys') = KeyOf(rk.from, keys)
  <2>1. CASE Park
    <3>1. keys'[rk.from.backend] = keys[rk.from.backend]
      BY <1>0, <1>3, <2>1 DEF Park, Material
    <3> QED BY <1>0, <2>1, <3>1 DEF Park, Sound, NotSwitched, KeyOf
  <2>2. CASE TruncateKey
    <3>1. ~NotSwitched'
      BY <1>0, <1>1, <1>2, <1>3, <2>2 DEF TruncateKey, NotSwitched, TearsKey, Material
    <3> QED BY <3>1
  <2>3. CASE CommitKey
    BY <1>0, <1>1, <1>2, <2>3 DEF CommitKey, NotSwitched
  <2> QED BY <2>1, <2>2, <2>3
<1> QED
  BY <1>0, <1>1, <1>2, <1>4, <1>5, QuietIs DEF Sound, Fits, Swapping

LEMMA RenameSound ==
  ASSUME Quiet, Rename \/ Unpark \/ Retire, met' = {}
  PROVE  Sound'
<1>0. /\ RekeyTypes /\ Sound /\ rk # Idle /\ rk.at \in {"rename", "unpark", "retire"}
      /\ rk.table # Torn /\ keys \in Material
  BY QuietIs, RkIs, NoneAssumption DEF Rename, Unpark, Retire, Idle, Swapping, RekeyTypes, Material
<1>1. /\ rk'.at \in Retiring /\ rk'.table = rk.table /\ rk' # Idle
      /\ vault' \in {vault, rk.table} /\ UNCHANGED <<writer, envs, latest>>
  <2>1. CASE Rename
    BY <1>0, <2>1, GotoIs DEF Rename, Swapping, Retiring, Quiet, RekeyInv, Steps
  <2>2. CASE Unpark \/ Retire
    BY <1>0, <2>2, GotoIs DEF Unpark, Retire, Swapping, Retiring
  <2> QED BY <2>1, <2>2
<1>2. \A t \in Slot : keys'[t] # Torn
  <2>1. \A t \in Slot : keys[t] # Torn
    BY <1>0 DEF Sound, TearsKey
  <2> QED BY <1>0, <2>1, NoneAssumption DEF Rename, Unpark, Retire, Remove, Material
<1> QED BY <1>0, <1>1, <1>2, QuietIs DEF Sound, NotSwitched, Swapping, Retiring

\* At the end of a swap the live vault fits the new environment.
LEMMA RetiringFits ==
  ASSUME Quiet, rk.at \in Retiring
  PROVE  Fits(vault, rk.to)
<1>1. /\ rk.token \in Nat /\ vault = rk.table
      /\ KeyOf(rk.to, keys) = <<rk.to.backend, rk.to.pass, rk.token>>
      /\ \A n \in Names(vault) : vault[n] = Seal(KeyOf(rk.to, keys), latest[n])
  BY RetiringIs, QuietIs DEF Quiet
<1>2. KeyOf(rk.to, keys)[3] \in Nat
  BY <1>1
<1>3. \A n \in Secret : vault[n] # None <=> latest[n] # 0
  BY <1>1, QuietIs DEF Sound, Swapping, Retiring
<1> QED BY <1>1, <1>2, <1>3 DEF Fits, Matches, Names

LEMMA FinishSound ==
  ASSUME Quiet, Finish, met' = {}
  PROVE  Sound'
<1>0. /\ RekeyTypes /\ Sound /\ rk # Idle /\ rk.at = "finish" /\ rk.to \in Env
      /\ Fits(vault, rk.to) /\ writer = Idle /\ writer.at = "idle"
  BY QuietIs, RkIs, RetiringFits DEF Finish, Idle, Swapping, Retiring
<1>1. /\ rk' = Idle /\ rk'.at = "idle" /\ envs' = {rk.to}
      /\ UNCHANGED <<vault, staged, keys, writer, latest>>
  BY DEF Finish, Idle
<1>2. \A t \in Slot : keys[t] # Torn
  BY <1>0 DEF Sound, TearsKey
<1>3. \A e \in envs' : Kept(e)'
  BY <1>0, <1>1 DEF Kept, Fits
<1>4. ~NotSwitched'
  BY <1>1 DEF NotSwitched
<1> QED BY <1>0, <1>1, <1>2, <1>3, <1>4 DEF Sound, Swapping

LEMMA BeginSound ==
  ASSUME Quiet, NEW e \in envs, NEW target \in Env, Begin(e, target), met' = {}
  PROVE  Sound'
<1>0. RekeyTypes /\ Sound /\ rk = Idle /\ writer = Idle /\ writer' = Idle
  BY QuietIs DEF Begin, Meets
<1>1. /\ rk'.at = "inspect" /\ rk'.from = e /\ rk' # Idle
      /\ UNCHANGED <<vault, staged, keys, writer, envs, latest>>
  BY DEF Begin, Idle
<1>2. Kept(e)' /\ \A t \in Slot : keys[t] # Torn
  BY <1>0, <1>1 DEF Sound, Kept, Fits, TearsKey, Idle
<1> QED BY <1>0, <1>1, <1>2 DEF Sound, NotSwitched, Swapping

\* The vault a lone add or remove finds.
LEMMA LoneWriter ==
  ASSUME Quiet, rk = Idle, staged = None, writer.at # "write", NEW e \in envs
  PROVE  e \in Env /\ Fits(vault, e) /\ vault \in Table /\ Parsed(vault) = vault
         /\ \A t \in Slot : keys[t] # Torn
<1>1. RekeyTypes /\ Sound /\ staged \notin Table
  BY QuietIs
<1>2. e \in Env /\ vault \in Table
  BY <1>1 DEF Sound, RekeyTypes
<1>3. Fits(vault, e) /\ \A t \in Slot : keys[t] # Torn
  BY <1>1 DEF Sound, Kept, TearsKey, Idle
<1> QED BY <1>1, <1>2, <1>3 DEF Sound, Parsed

LEMMA PutSound ==
  ASSUME Quiet, NEW n \in Secret, NEW e \in envs, PutSecret(n, e), met' = {}
  PROVE  Sound'
<1>0. /\ RekeyTypes /\ Sound /\ rk = Idle /\ staged = None /\ writer = Idle
      /\ envs = {e} /\ version + 1 \in Nat /\ version + 1 # 0
      /\ keys \in Material /\ fresh + 1 # Torn
  BY QuietIs, BesideIs, NoneAssumption DEF PutSecret, Sound, RekeyTypes, Material
<1>1. /\ writer' = [at |-> "truncate", name |-> n, val |-> version + 1,
                    table |-> [Parsed(vault) EXCEPT ![n] = Seal(KeyOf(e, keys'), version + 1)]]
      /\ EnsureKey(e) /\ UNCHANGED <<vault, staged, rk, envs, latest>>
  BY DEF PutSecret
<1>2. /\ e \in Env /\ Fits(vault, e) /\ vault \in Table /\ Parsed(vault) = vault
      /\ \A t \in Slot : keys[t] # Torn
  BY <1>0, LoneWriter DEF Idle
<1>3. Matches(vault, latest, KeyOf(e, keys'))
  BY <1>0, <1>1, <1>2, EnsureMatches DEF Fits
<1>4. /\ keys' \in Material /\ \A t \in Slot : keys'[t] # Torn
      /\ keys'[e.backend] \in Nat
  <2>1. \A t \in Slot : keys'[t] # Torn
    BY <1>0, <1>1, <1>2, EnsureKeyTypes
  <2> QED BY <1>0, <1>1, <1>2, <2>1, EnsureKeyTypes, EnvIs DEF Material
<1>5. KeyOf(e, keys')[3] \in Nat /\ KeyOf(e, keys') \in MasterKey
  BY <1>2, <1>4, KeyOfType DEF KeyOf
<1>6. /\ writer' # Idle /\ writer'.at = "truncate" /\ writer'.name = n
      /\ writer'.table = [vault EXCEPT ![n] = Seal(KeyOf(e, keys'), version + 1)]
      /\ Writing' = [latest EXCEPT ![n] = version + 1]
  BY <1>1, <1>2 DEF Idle, Writing
<1>7. Matches(writer'.table, Writing', KeyOf(e, keys'))
  <2>1. /\ writer'.table[n] = Seal(KeyOf(e, keys'), version + 1)
        /\ Writing'[n] = version + 1 /\ writer'.table[n] # None
    BY <1>0, <1>2, <1>5, <1>6, SealType, NoneAssumption DEF Table, RekeyTypes
  <2>2. \A m \in Secret \ {n} : writer'.table[m] = vault[m] /\ Writing'[m] = latest[m]
    BY <1>0, <1>2, <1>6 DEF Table, RekeyTypes
  <2> QED BY <1>0, <1>3, <1>5, <2>1, <2>2 DEF Matches
<1>8. /\ \A e2 \in envs' : Kept(e2)'
      /\ \A e2 \in envs' : Matches(writer'.table, Writing', KeyOf(e2, keys'))
  BY <1>0, <1>1, <1>3, <1>7 DEF Kept, Fits
<1>9. ~NotSwitched' /\ rk' = Idle /\ rk'.at = "idle"
  BY <1>0, <1>1 DEF NotSwitched, Idle
<1> QED BY <1>0, <1>1, <1>2, <1>4, <1>6, <1>8, <1>9 DEF Sound, Swapping

LEMMA RemoveSound ==
  ASSUME Quiet, NEW n \in Secret, RemoveSecret(n), met' = {}
  PROVE  Sound'
<1>0. /\ RekeyTypes /\ Sound /\ rk = Idle /\ staged = None /\ writer = Idle
  BY QuietIs, BesideIs DEF RemoveSecret
<1>1. /\ writer' = [at |-> "truncate", name |-> n, val |-> 0,
                    table |-> [Parsed(vault) EXCEPT ![n] = None]]
      /\ UNCHANGED <<vault, staged, keys, rk, envs, latest>>
  BY DEF RemoveSecret
<1>2. PICK e \in Env : envs = {e}
  BY <1>0 DEF Sound
<1>3. /\ Fits(vault, e) /\ vault \in Table /\ Parsed(vault) = vault
      /\ \A t \in Slot : keys[t] # Torn
  BY <1>0, <1>2, LoneWriter DEF Idle
<1>4. /\ writer' # Idle /\ writer'.at = "truncate" /\ writer'.name = n
      /\ writer'.table = [vault EXCEPT ![n] = None]
      /\ Writing' = [latest EXCEPT ![n] = 0]
  BY <1>1, <1>3 DEF Idle, Writing
<1>5. Matches(writer'.table, Writing', KeyOf(e, keys))
  <2>1. writer'.table[n] = None /\ Writing'[n] = 0
    BY <1>0, <1>3, <1>4 DEF Table, RekeyTypes
  <2>2. \A m \in Secret \ {n} : writer'.table[m] = vault[m] /\ Writing'[m] = latest[m]
    BY <1>0, <1>3, <1>4 DEF Table, RekeyTypes
  <2> QED BY <1>3, <2>1, <2>2 DEF Matches, Fits
<1>6. /\ \A e2 \in envs' : Kept(e2)'
      /\ \A e2 \in envs' : Matches(writer'.table, Writing', KeyOf(e2, keys'))
  BY <1>1, <1>2, <1>3, <1>5 DEF Kept, Fits
<1>7. ~NotSwitched' /\ rk' = Idle /\ rk'.at = "idle"
  BY <1>0, <1>1 DEF NotSwitched, Idle
<1> QED BY <1>0, <1>1, <1>2, <1>3, <1>4, <1>6, <1>7 DEF Sound, Swapping

LEMMA TruncateVaultSound ==
  ASSUME Quiet, TruncateVault, met' = {}
  PROVE  Sound'
<1>0. /\ RekeyTypes /\ Sound /\ writer # Idle /\ rk = Idle
      /\ writer \in [at : {"truncate", "write"}, name : Secret, val : Nat, table : Table]
  BY QuietIs, RkIs DEF TruncateVault, Idle
<1>1. /\ writer' = [at |-> "write", name |-> writer.name, val |-> writer.val,
                    table |-> writer.table]
      /\ UNCHANGED <<staged, keys, rk, envs, latest>>
  BY <1>0 DEF TruncateVault
<1>2. /\ writer'.at = "write" /\ writer'.table = writer.table /\ Writing' = Writing
      /\ ~NotSwitched' /\ rk' = Idle /\ rk'.at = "idle"
  BY <1>0, <1>1 DEF Writing, NotSwitched, Idle
<1>3. \A t \in Slot : keys[t] # Torn
  BY <1>0 DEF Sound, TearsKey, Idle
<1> QED BY <1>0, <1>1, <1>2, <1>3 DEF Sound, Kept, Swapping

LEMMA WriteVaultSound ==
  ASSUME Quiet, WriteVault, met' = {}
  PROVE  Sound'
<1>0. /\ RekeyTypes /\ Sound /\ writer # Idle /\ rk = Idle /\ writer.table # Torn
  BY QuietIs, RkIs, NoneAssumption DEF WriteVault, Idle
<1>1. /\ writer' = Idle /\ vault' = writer.table /\ latest' = Writing
      /\ UNCHANGED <<staged, keys, rk, envs>>
  BY DEF WriteVault, Writing
<1>2. \A e \in envs : Fits(vault, e)'
  BY <1>0, <1>1 DEF Sound, Fits
<1>3. ~NotSwitched' /\ rk' = Idle /\ rk'.at = "idle" /\ writer'.at = "idle"
  BY <1>0, <1>1 DEF NotSwitched, Idle
<1>4. \A t \in Slot : keys[t] # Torn
  BY <1>0 DEF Sound, TearsKey, Idle
<1>5. \A e \in envs' : Kept(e)'
  BY <1>1, <1>2 DEF Kept
<1> QED BY <1>0, <1>1, <1>3, <1>4, <1>5 DEF Sound, Swapping

\* A rekey killed between two steps: before the rename the live vault or an
\* adoptable staged one fits the old environment, after the new key's write
\* the staged or the live one fits the new.
LEMMA KilledRekeySound ==
  ASSUME Quiet, CrashRekey, met' = {}
  PROVE  Sound'
<1>0. /\ RekeyTypes /\ Sound /\ rk # Idle /\ writer = Idle /\ writer.at = "idle"
      /\ rk \in Early \cup Late
  BY QuietIs DEF CrashRekey, RekeyTypes, Early, Late
<1>1. /\ rk' = Idle /\ envs' = {RightEnv} /\ ~TearsKey
      /\ UNCHANGED <<vault, staged, keys, writer, latest>>
  BY DEF CrashRekey, Meets
<1>2. RightEnv \in Env
  BY <1>0 DEF RightEnv, Early, Late
<1>3. Fits(vault, RightEnv) \/ (staged \in Table /\ Fits(staged, RightEnv))
  <2>1. CASE rk.at \in {"inspect", "adopt"}
    BY <1>0, <2>1 DEF Sound, Kept, RightEnv, Retiring, Quiet, RekeyInv, Steps
  <2>2. CASE NotSwitched
    BY <1>0, <2>2 DEF Sound, NotSwitched, RightEnv, Retiring
  <2>3. CASE rk.at = "rename"
    <3>1. /\ staged = rk.table /\ rk.table \in Table /\ rk.token \in Nat
          /\ keys[rk.to.backend] = rk.token /\ RightEnv = rk.to
      BY <2>3, RkIs DEF RightEnv, Quiet, RekeyInv, Steps, Swapping
    <3>2. KeyOf(rk.to, keys) = <<rk.to.backend, rk.to.pass, rk.token>>
      BY <3>1 DEF KeyOf
    <3>3. \A n \in Names(staged) : staged[n] = Seal(KeyOf(rk.to, keys), latest[n])
      BY <2>3, <3>1, <3>2, QuietIs DEF Quiet, RekeyInv, Apart, Swapping
    <3>4. \A n \in Secret : staged[n] # None <=> latest[n] # 0
      BY <1>0, <2>3, <3>1 DEF Sound, Swapping
    <3>5. KeyOf(rk.to, keys)[3] \in Nat
      BY <3>1, <3>2
    <3> QED BY <3>1, <3>3, <3>4, <3>5 DEF Fits, Matches, Names
  <2>4. CASE rk.at \in Retiring
    BY <2>4, RetiringFits DEF RightEnv
  <2>5. rk.at \in Inspecting \cup Swapping
    BY <1>0 DEF Early, Late
  <2> QED
    BY <1>1, <2>1, <2>2, <2>3, <2>4, <2>5 DEF Inspecting, Swapping, Retiring, NotSwitched
<1>4. \A e \in envs' : Kept(e)'
  BY <1>1, <1>3 DEF Kept, Fits
<1>5. \A t \in Slot : keys[t] # Torn
  BY <1>0, <1>1 DEF Sound
<1>6. ~NotSwitched' /\ rk'.at = "idle"
  BY <1>1 DEF NotSwitched, Idle
<1> QED BY <1>0, <1>1, <1>2, <1>4, <1>5, <1>6 DEF Sound, Swapping

LEMMA KilledWriterSound ==
  ASSUME Quiet, CrashWriter, met' = {}
  PROVE  Sound'
<1>0. /\ RekeyTypes /\ Sound /\ rk = Idle /\ writer.at # "write"
  BY QuietIs DEF CrashWriter, Meets
<1>1. writer' = Idle /\ UNCHANGED <<vault, staged, keys, rk, envs, latest>>
  BY DEF CrashWriter
<1>2. \A e \in envs' : Kept(e)'
  BY <1>0, <1>1 DEF Sound, Kept, Fits
<1>3. ~NotSwitched' /\ rk' = Idle /\ rk'.at = "idle" /\ writer'.at = "idle"
  BY <1>0, <1>1 DEF NotSwitched, Idle
<1>4. \A t \in Slot : keys[t] # Torn
  BY <1>0 DEF Sound, TearsKey, Idle
<1> QED BY <1>0, <1>1, <1>2, <1>3, <1>4 DEF Sound, Swapping

LEMMA InitSound == RekeyInit => SoundInv
<1> SUFFICES ASSUME RekeyInit
             PROVE  Sound
  BY DEF SoundInv
<1>1. vault # Torn
  BY NoneAssumption DEF RekeyInit, NoSecrets, Table
<1>2. \A e \in envs : Fits(vault, e)
  BY DEF RekeyInit, NoSecrets, Fits, Matches
<1>3. \A t \in Slot : keys[t] # Torn
  BY NoneAssumption DEF RekeyInit
<1> QED BY <1>1, <1>2, <1>3 DEF RekeyInit, Sound, Kept, Idle, NotSwitched, Swapping

\* No step takes a mishap back.
LEMMA MishapsStay ==
  ASSUME [RekeyNext]_rekeyVars, met' = {}
  PROVE  met = {}
BY DEF RekeyNext, RekeyStep, rekeyVars, PutSecret, RemoveSecret, Beside, Meets, TruncateVault,
       WriteVault, Begin, Inspect, InspectBlind, GiveUp, Adopt, AdoptFails, Discard, Decrypt, Abort, TruncateStaged, WriteStaged,
       Park, TruncateKey, CommitKey, Rename, Unpark, Retire, Remove, Finish, CrashRekey, CrashWriter

LEMMA NextSound ==
  ASSUME RekeyInv, SoundInv, [RekeyNext]_rekeyVars
  PROVE  SoundInv'
<1> SUFFICES ASSUME met' = {}
             PROVE  Sound'
  BY DEF SoundInv
<1>1. Quiet
  BY MishapsStay DEF SoundInv, Quiet
<1>2. CASE \E n \in Secret, e \in envs : PutSecret(n, e)
  BY <1>1, <1>2, PutSound
<1>3. CASE \E n \in Secret : RemoveSecret(n)
  BY <1>1, <1>3, RemoveSound
<1>4. CASE TruncateVault \/ WriteVault
  BY <1>1, <1>4, TruncateVaultSound, WriteVaultSound
<1>5. CASE \E e \in envs, target \in Env : Begin(e, target)
  BY <1>1, <1>5, BeginSound
<1>0. ~InspectBlind /\ ~GiveUp /\ ~AdoptFails
  BY DEF InspectBlind, GiveUp, AdoptFails, Meets
<1>6. CASE RekeyStep
  BY <1>0, <1>1, <1>6, InspectSound, AdoptSound, DecryptSound, NeverAborts, StagingSound,
     KeyStepSound, RenameSound, FinishSound DEF RekeyStep
<1>7. CASE CrashRekey \/ CrashWriter
  BY <1>1, <1>7, KilledRekeySound, KilledWriterSound
<1>8. CASE UNCHANGED rekeyVars
  BY <1>1, <1>8 DEF rekeyVars, Quiet, Sound, Kept, Fits, Writing, NotSwitched, TearsKey
<1> QED BY <1>2, <1>3, <1>4, <1>5, <1>6, <1>7, <1>8 DEF RekeyNext

\* Kills between steps leave every secret where the next command finds it.
THEOREM SoundHolds == RekeySpec => []SoundInv
<1> QED BY InitSound, NextSound, RekeyInvHolds, PTL DEF RekeySpec

\* NoSecretLost: between commands every stored secret is sealed, in its latest
\* value, in the live or the staged vault under a key that still exists, for
\* any number of rekeys, kills between steps, adds and removes.
THEOREM KillsLoseNothing == RekeySpec => []NoSecretLost
<1>1. ASSUME RekeyInv, SoundInv
      PROVE  NoSecretLost
  <2> SUFFICES ASSUME met = {}, rk = Idle, writer = Idle, NEW n \in Secret, latest[n] # 0
               PROVE  Holds(vault, n) \/ Holds(staged, n)
    BY DEF NoSecretLost, Recoverable
  <2>1. Quiet /\ Sound /\ vault \in Table
    BY <1>1 DEF SoundInv, Quiet, Sound, RekeyInv, RekeyTypes, Idle
  <2>2. PICK e \in Env : envs = {e}
    BY <2>1 DEF Sound
  <2>3. Fits(vault, e) \/ (staged \in Table /\ Fits(staged, e))
    BY <2>1, <2>2 DEF Sound, Kept, Idle
  <2>4. ASSUME NEW table \in Table, Matches(table, latest, KeyOf(e, keys))
        PROVE  Holds(table, n)
    <3>1. table[n] # None /\ table[n] = Seal(KeyOf(e, keys), latest[n]) /\ KeyOf(e, keys)[3] \in Nat
      BY <2>4 DEF Matches
    <3>2. Producible(KeyOf(e, keys))
      BY <3>1, NoneAssumption DEF Producible, Usable, KeyOf
    <3> QED BY <3>1, <3>2, SealIs, TableIs DEF Holds
  <2> QED BY <2>1, <2>3, <2>4 DEF Fits
<1> QED BY <1>1, RekeyInvHolds, SoundHolds, PTL

\* NeverStuck: whatever kills between steps left behind, a rekey run under the
\* right credentials never finds a secret it cannot decrypt.
THEOREM RekeyGetsThrough == RekeySpec => NeverStuck
<1>1. RekeyInv /\ SoundInv => (met = {} => ~Abort)
  BY NeverAborts DEF SoundInv, Quiet
<1>2. RekeyInv /\ SoundInv /\ [RekeyNext]_rekeyVars => [met = {} => ~Abort]_rekeyVars
  BY <1>1
<1> QED BY <1>2, RekeyInvHolds, SoundHolds, PTL DEF RekeySpec, NeverStuck
=============================================================================
