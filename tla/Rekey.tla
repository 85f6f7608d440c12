-------------------------------- MODULE Rekey --------------------------------
(***************************************************************************)
(* Rotating the master key (rekeyVault of src/vault.mjs) step by step on   *)
(* the files and the keychain, with the process killed between any two     *)
(* steps, and putSecret / removeSecret, which do not take the lease lock.  *)
(*                                                                         *)
(* rekeyVault runs under the lease lock, so one rekey runs at a time; the  *)
(* lock itself is LeaseLock.  writeFileSync truncates, then writes; rename *)
(* and unlink are atomic; a keychain call is one step.  A write that       *)
(* throws ends the rekey where a kill would.  A sealed record is its       *)
(* plaintext's version and the key it is sealed under: AES-GCM opens it    *)
(* under that key and fails under any other.                               *)
(***************************************************************************)
EXTENDS Naturals, FiniteSets

CONSTANTS
  Secret,       \* secret names
  Pass,         \* passphrases
  NoPass,       \* the passphrase of an environment that sets none
  None,         \* an absent record, file or key
  Torn,         \* a file truncated by a writeFileSync that has not written yet
  MaxToken,     \* bound on the salts and keys generated
  MaxVersion,   \* bound on the secret values stored
  MaxCrashes,   \* bound on the processes killed
  Mishaps,      \* what may go wrong beyond a kill between two steps
  MaxMishaps    \* bound on the kinds of mishap in one behaviour

\* "guess": after a killed rekey the next command may run in either of its
\* two environments, not only in the one whose key store is in place.
\* "overlap": an add or remove may run beside a rekey or between a killed one
\* and the next.  "tear": a kill may land inside the write of the salt, of
\* master.key or of vault.json.  "throws": the key store is not available, or
\* the rename that adopts a staged vault fails.  "linger": a removal fails.
ASSUME RekeyAssumption ==
  /\ MaxToken \in Nat /\ MaxVersion \in Nat /\ MaxCrashes \in Nat
  /\ Mishaps \subseteq {"guess", "overlap", "tear", "throws", "linger"}
  /\ MaxMishaps \in Nat

Backend == {"passphrase", "file", "keychain"}

\* A sealed record and a table of them; None and Torn are neither, nor tokens.
Sealed == [val : Nat \ {0}, key : Backend \X (Pass \cup {NoPass}) \X (Nat \cup {None, Torn})]
Table == [Secret -> Sealed \cup {None}]

ASSUME NoneAssumption ==
  /\ None # Torn /\ None \notin Sealed
  /\ \A absent \in {None, Torn} : absent \notin Nat /\ absent \notin Table

\* KEEPER_PASSPHRASE / KEEPER_KEYCHAIN of a process: what backend() selects.
Env == {e \in [backend : Backend, pass : Pass \cup {NoPass}] :
          e.backend = "passphrase" <=> e.pass # NoPass}

\* Where key material is kept: the salt file, master.key, the keychain's
\* entry and the entry the old keychain key is parked under.
Slot == {"passphrase", "file", "keychain", "prev"}

VARIABLES
  vault,    \* vault.json: [Secret -> sealed record or None], or Torn
  staged,   \* vault.json.new: the same, or None
  keys,     \* [Slot -> token, Torn or None]
  fresh,    \* tokens generated so far
  rk,       \* the rekey under way
  writer,   \* the add or remove under way
  envs,     \* the environments the next command may run in
  \* history:
  crashes,  \* processes killed so far
  met,      \* the mishaps so far
  latest,   \* version each secret was last set to, 0 = removed
  version   \* versions given out so far

rekeyVars == <<vault, staged, keys, fresh, rk, writer, envs, crashes, met, latest, version>>

NoSecrets == [n \in Secret |-> None]
Idle == [at |-> "idle"]

\* read(): a missing or unparsable vault is an empty one.
Parsed(table) == IF table = Torn THEN NoSecrets ELSE table
Names(table) == {n \in Secret : table[n] # None}

\* The key an environment derives from the key material present.  A blank
\* salt is a salt like any other, a blank key file is no AES key.
KeyOf(e, material) == <<e.backend, e.pass, material[e.backend]>>
Usable(k) == k[1] = "passphrase" \/ k[3] # Torn
Opens(k, rec) == rec # None /\ rec.key = k
Seal(k, v) == [val |-> v, key |-> k]

\* masterKey(): creates the salt or the key when there is none.
HasKey(e) == keys[e.backend] # None
EnsureKey(e) ==
  IF HasKey(e) THEN UNCHANGED <<keys, fresh>>
  ELSE /\ fresh < MaxToken
       /\ fresh' = fresh + 1
       /\ keys' = [keys EXCEPT ![e.backend] = fresh + 1]

RekeyInit ==
  /\ vault = NoSecrets
  /\ staged = None
  /\ keys = [s \in Slot |-> None]
  /\ fresh = 0
  /\ rk = Idle
  /\ writer = Idle
  /\ envs \in {{e} : e \in Env}
  /\ crashes = 0
  /\ met = {}
  /\ latest = [n \in Secret |-> 0]
  /\ version = 0

-----------------------------------------------------------------------------
(* putSecret and removeSecret: read-modify-write without the lock.         *)

Meets(mishap) ==
  /\ mishap \in Mishaps
  /\ met' = met \cup {mishap}
  /\ Cardinality(met') <= MaxMishaps

\* Nothing keeps an add or remove away from a rekey.
Beside == IF rk = Idle /\ staged = None THEN UNCHANGED met ELSE Meets("overlap")

\* read() and encrypt; masterKey may create the key.
PutSecret(n, e) ==
  /\ writer = Idle
  /\ Beside
  /\ version < MaxVersion
  /\ EnsureKey(e)
  /\ Usable(KeyOf(e, keys'))
  /\ version' = version + 1
  /\ writer' = [at |-> "truncate", name |-> n, val |-> version + 1,
                table |-> [Parsed(vault) EXCEPT ![n] = Seal(KeyOf(e, keys'), version + 1)]]
  /\ UNCHANGED <<vault, staged, rk, envs, crashes, latest>>

\* Mutant: the record is not deleted.
RemoveSecret_keeps(n) ==
  /\ writer = Idle
  /\ Beside
  /\ latest[n] # 0
  /\ writer' = [at |-> "truncate", name |-> n, val |-> 0, table |-> Parsed(vault)]
  /\ UNCHANGED <<vault, staged, keys, fresh, rk, envs, crashes, latest, version>>

RemoveSecret(n) ==
  /\ writer = Idle
  /\ Beside
  /\ latest[n] # 0
  /\ writer' = [at |-> "truncate", name |-> n, val |-> 0,
                table |-> [Parsed(vault) EXCEPT ![n] = None]]
  /\ UNCHANGED <<vault, staged, keys, fresh, rk, envs, crashes, latest, version>>

TruncateVault ==
  /\ writer.at = "truncate"
  /\ vault' = Torn
  /\ writer' = [writer EXCEPT !.at = "write"]
  /\ UNCHANGED <<staged, keys, fresh, rk, envs, crashes, met, latest, version>>

WriteVault ==
  /\ writer.at = "write"
  /\ vault' = writer.table
  /\ latest' = [latest EXCEPT ![writer.name] = writer.val]
  /\ writer' = Idle
  /\ UNCHANGED <<staged, keys, fresh, rk, envs, crashes, met, version>>

-----------------------------------------------------------------------------
(* rekeyVault, in the order of its steps.                                  *)

GotoRk(s) == rk' = [rk EXCEPT !.at = s]

\* Environment e rotates to target; a passphrase target reads the new one.
Begin(e, target) ==
  /\ rk = Idle
  /\ IF writer = Idle THEN UNCHANGED met ELSE Meets("overlap")
  /\ rk' = [at |-> "inspect", from |-> e, to |-> target]
  /\ UNCHANGED <<vault, staged, keys, fresh, writer, envs, crashes, latest, version>>

\* Mutant: a staged vault is always stale.
Adoptable_never(k) == FALSE

\* A staged vault is committed state when the current key opens all of it and
\* it covers every live name.
Adoptable(k) ==
  /\ staged # Torn
  /\ Names(Parsed(vault)) \subseteq Names(staged)
  /\ \A n \in Names(staged) : Opens(k, staged[n])

Inspect ==
  /\ rk.at = "inspect"
  /\ EnsureKey(rk.from)
  /\ GotoRk(IF staged = None THEN "decrypt"
            ELSE IF Adoptable(KeyOf(rk.from, keys')) THEN "adopt" ELSE "discard")
  /\ UNCHANGED <<vault, staged, writer, envs, crashes, met, latest, version>>

\* masterKey() throws where the staged vault is looked at: the vault counts as
\* not adopted and is discarded, whatever it holds.
InspectBlind ==
  /\ rk.at = "inspect"
  /\ staged # None
  /\ Meets("throws")
  /\ staged' = None
  /\ UNCHANGED <<vault, keys, fresh, rk, writer, envs, crashes, latest, version>>

\* masterKey() throws at step 1: nothing has changed.
GiveUp ==
  /\ rk.at = "inspect"
  /\ staged = None
  /\ Meets("throws")
  /\ rk' = Idle
  /\ UNCHANGED <<vault, staged, keys, fresh, writer, envs, crashes, latest, version>>

Adopt ==
  /\ rk.at = "adopt"
  /\ vault' = staged
  /\ staged' = None
  /\ GotoRk("decrypt")
  /\ UNCHANGED <<keys, fresh, writer, envs, crashes, met, latest, version>>

AdoptFails ==
  /\ rk.at = "adopt"
  /\ Meets("throws")
  /\ GotoRk("discard")
  /\ UNCHANGED <<vault, staged, keys, fresh, writer, envs, crashes, latest, version>>

\* The removal is best-effort: what it leaves is written over by step 2.
Discard ==
  /\ rk.at = "discard"
  /\ \/ staged' = None /\ UNCHANGED met
     \/ UNCHANGED staged /\ Meets("linger")
  /\ GotoRk("decrypt")
  /\ UNCHANGED <<vault, keys, fresh, writer, envs, crashes, latest, version>>

\* Step 1: everything decrypts under the current key, or the rekey throws.
\* Then the new key is drawn and the table re-encrypted in memory.
Decrypted(k) == \A n \in Names(Parsed(vault)) : Opens(k, Parsed(vault)[n])

\* Mutant: the new salt with the old passphrase.
NewKey_oldPass == KeyOf(rk.from, [s \in Slot |-> fresh + 1])

NewKey == KeyOf(rk.to, [s \in Slot |-> fresh + 1])

\* Mutant: the loop over the names is missing.
Resealed_empty == NoSecrets

Resealed ==
  [n \in Secret |-> IF Parsed(vault)[n] = None THEN None
                    ELSE Seal(NewKey, Parsed(vault)[n].val)]

Decrypt ==
  /\ rk.at = "decrypt"
  /\ Decrypted(KeyOf(rk.from, keys))
  /\ fresh < MaxToken
  /\ fresh' = fresh + 1
  /\ rk' = [at |-> "stage1", from |-> rk.from, to |-> rk.to, token |-> fresh + 1,
            table |-> Resealed]
  /\ UNCHANGED <<vault, staged, keys, writer, envs, crashes, met, latest, version>>

Abort ==
  /\ rk.at = "decrypt"
  /\ ~Decrypted(KeyOf(rk.from, keys))
  /\ rk' = Idle
  /\ UNCHANGED <<vault, staged, keys, fresh, writer, envs, crashes, met, latest, version>>

\* Step 2: stage the re-encrypted vault.
TruncateStaged ==
  /\ rk.at = "stage1"
  /\ staged' = Torn
  /\ GotoRk("stage2")
  /\ UNCHANGED <<vault, keys, fresh, writer, envs, crashes, met, latest, version>>

WriteStaged ==
  /\ rk.at = "stage2"
  /\ staged' = rk.table
  /\ GotoRk(IF rk.from.backend = "keychain" THEN "park"
            ELSE IF rk.to.backend = "keychain" THEN "commit" ELSE "tear")
  /\ UNCHANGED <<vault, keys, fresh, writer, envs, crashes, met, latest, version>>

\* The old keychain key goes to master-key-prev.
Park ==
  /\ rk.at = "park"
  /\ keys' = [keys EXCEPT !["prev"] = keys["keychain"]]
  /\ GotoRk(IF rk.to.backend = "keychain" THEN "commit" ELSE "tear")
  /\ UNCHANGED <<vault, staged, fresh, writer, envs, crashes, met, latest, version>>

\* Step 3: the new key store (a file is truncated first), then the rename.
TruncateKey ==
  /\ rk.at = "tear"
  /\ keys' = [keys EXCEPT ![rk.to.backend] = Torn]
  /\ GotoRk("commit")
  /\ UNCHANGED <<vault, staged, fresh, writer, envs, crashes, met, latest, version>>

CommitKey ==
  /\ rk.at = "commit"
  /\ keys' = [keys EXCEPT ![rk.to.backend] = rk.token]
  /\ GotoRk("rename")
  /\ UNCHANGED <<vault, staged, fresh, writer, envs, crashes, met, latest, version>>

\* The removals of step 4 that the swap from rk.from to rk.to has.
Unparks == rk.from.backend = "keychain"
Leaves == rk.from.backend # rk.to.backend

Rename ==
  /\ rk.at = "rename"
  /\ vault' = staged
  /\ staged' = None
  /\ GotoRk(IF Unparks THEN "unpark" ELSE IF Leaves THEN "retire" ELSE "finish")
  /\ UNCHANGED <<keys, fresh, writer, envs, crashes, met, latest, version>>

\* Step 4: retire what belonged to the old key.  A removal that fails is
\* swallowed, and the rekey goes on and returns.
Remove(s) ==
  \/ keys' = [keys EXCEPT ![s] = None] /\ UNCHANGED met
  \/ UNCHANGED keys /\ Meets("linger")

\* Mutant: the parked key is left in the keychain.
Unpark_kept ==
  /\ rk.at = "unpark"
  /\ GotoRk(IF Leaves THEN "retire" ELSE "finish")
  /\ UNCHANGED <<vault, staged, keys, fresh, writer, envs, crashes, met, latest, version>>

Unpark ==
  /\ rk.at = "unpark"
  /\ Remove("prev")
  /\ GotoRk(IF Leaves THEN "retire" ELSE "finish")
  /\ UNCHANGED <<vault, staged, fresh, writer, envs, crashes, latest, version>>

Retire ==
  /\ rk.at = "retire"
  /\ Remove(rk.from.backend)
  /\ GotoRk("finish")
  /\ UNCHANGED <<vault, staged, fresh, writer, envs, crashes, latest, version>>

\* This process, and its user, switch to the new environment.
Finish ==
  /\ rk.at = "finish"
  /\ envs' = {rk.to}
  /\ rk' = Idle
  /\ UNCHANGED <<vault, staged, keys, fresh, writer, crashes, met, latest, version>>

\* The rekey is killed.  Once the new key store is written the new credentials
\* are the right ones; nothing tells the user whether it was.
Retiring == {"unpark", "retire", "finish"}
RightEnv == IF rk.at \in {"rename"} \cup Retiring THEN rk.to ELSE rk.from

TearsKey == rk.at = "commit" /\ keys[rk.to.backend] = Torn

CrashRekey ==
  /\ crashes < MaxCrashes
  /\ rk # Idle
  /\ crashes' = crashes + 1
  /\ rk' = Idle
  /\ \/ /\ envs' = {RightEnv}
        /\ IF TearsKey THEN Meets("tear") ELSE UNCHANGED met
     \/ /\ ~TearsKey
        /\ envs' = {rk.from, rk.to}
        /\ Meets("guess")
  /\ UNCHANGED <<vault, staged, keys, fresh, writer, latest, version>>

\* An add or remove is killed.
CrashWriter ==
  /\ crashes < MaxCrashes
  /\ writer # Idle
  /\ IF writer.at = "write" THEN Meets("tear") ELSE UNCHANGED met
  /\ crashes' = crashes + 1
  /\ writer' = Idle
  /\ UNCHANGED <<vault, staged, keys, fresh, rk, envs, latest, version>>

RekeyStep ==
  \/ Inspect \/ InspectBlind \/ GiveUp \/ Adopt \/ AdoptFails \/ Discard
  \/ Decrypt \/ Abort
  \/ TruncateStaged \/ WriteStaged \/ Park \/ TruncateKey \/ CommitKey \/ Rename
  \/ Unpark \/ Retire \/ Finish

RekeyNext ==
  \/ \E n \in Secret, e \in envs : PutSecret(n, e)
  \/ \E n \in Secret : RemoveSecret(n)
  \/ TruncateVault \/ WriteVault
  \/ \E e \in envs, target \in Env : Begin(e, target)
  \/ RekeyStep
  \/ CrashRekey \/ CrashWriter

RekeySpec == RekeyInit /\ [][RekeyNext]_rekeyVars

-----------------------------------------------------------------------------
(* Properties.                                                             *)

\* Key material somebody can still produce: every slot, under any passphrase.
\* (A blank salt still derives a key from a passphrase.)
Producible(k) ==
  \/ Usable(k) /\ k[3] = keys[k[1]]
  \/ k[1] = "keychain" /\ k[3] = keys["prev"]

Holds(table, n) ==
  /\ table \notin {None, Torn}
  /\ table[n] # None
  /\ table[n].val = latest[n]
  /\ Producible(table[n].key)

\* "An interrupted swap is completed or discarded safely": between commands,
\* a secret that was stored is sealed, in its latest value, in the live or the
\* staged vault, under a key that still exists.
Recoverable ==
  rk = Idle /\ writer = Idle =>
    \A n \in Secret : latest[n] # 0 => Holds(vault, n) \/ Holds(staged, n)

\* Kills between steps alone lose nothing: it takes the wrong credentials
\* afterwards, an add or remove in between, or a torn file.
NoSecretLost == met = {} => Recoverable

\* The live vault never serves an older value than the last one stored, nor a
\* secret that was removed: an adopted staged vault "is the committed new
\* state", unless an add or remove came in between.
VaultCurrent ==
  "overlap" \notin met /\ vault # Torn =>
    \A n \in Names(vault) : vault[n].val = latest[n]

\* Under the right credentials a rekey always gets through: whatever a killed
\* one left behind, the next one never finds a secret it cannot decrypt.
NeverStuck == [][met = {} => ~Abort]_rekeyVars

\* After a rekey returned, everything opens in the environment it switched to,
\* whatever went wrong before, unless an add or remove ran beside it.
FinishedRekeyReadable ==
  [][Finish /\ "overlap" \notin met =>
       \A n \in Names(vault) : Opens(KeyOf(rk.to, keys), vault[n])]_rekeyVars

\* "Old key material must not linger once nothing is encrypted under it": when
\* a rekey returns, the only key material left is the new key's, unless one was
\* killed or a removal failed.  What a kill or a failed removal left behind, now
\* or in an earlier rekey, opens nothing: no record of the live vault is sealed
\* under a key that any other store holds.
OldKeyRetired ==
  [][Finish /\ "overlap" \notin met =>
       /\ crashes = 0 /\ "linger" \notin met =>
            \A s \in Slot \ {rk.to.backend} : keys[s] = None
       /\ \A s \in Slot \ {rk.to.backend}, n \in Names(vault) : vault[n].key[3] # keys[s]]_rekeyVars
=============================================================================
