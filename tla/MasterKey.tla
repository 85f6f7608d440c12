------------------------------- MODULE MasterKey -------------------------------
(***************************************************************************)
(* How the processes of one user come by the master key (masterKey,        *)
(* masterKeyExists and deriveSubkey of src/vault.mjs, the adapters of      *)
(* src/keychain.mjs): from their cache, else from the key store, else they *)
(* make one and store it.  Looking and storing are separate steps, and a   *)
(* file is truncated before it is written.                                 *)
(*                                                                         *)
(* The key store is a salt (beside a passphrase), an entry of the OS       *)
(* keychain, or a key file; its content is a number for what was drawn at  *)
(* random.  All processes have the same environment.  Keys replaced by a   *)
(* rekey are the subject of Rekey.                                         *)
(***************************************************************************)
EXTENDS Naturals

CONSTANTS
  Proc,
  None,
  Torn,      \* a file that was truncated and not written
  MaxKeys,   \* bound on the keys made
  Mishaps    \* what may go wrong beyond a kill

\* "overlap": a process looks for the key while another is making it.
\* "hiccup": a key that is there cannot be read (a locked keychain, a sharing
\* violation).
ASSUME MasterKeyAssumption ==
  /\ None \notin Nat /\ Torn \notin Nat /\ None # Torn
  /\ None \notin {"put", "get", "audit"}
  /\ MaxKeys \in Nat
  /\ Mishaps \subseteq {"overlap", "hiccup"}

VARIABLES
  backend,  \* the key store the environment selects
  avail,    \* the OS keychain can be called
  place,    \* what the key store holds
  pc,       \* [Proc -> where it is]
  cmd,      \* [Proc -> what it is running]
  cache,    \* [Proc -> _keyCache: the key it derived from what it found]
  drawn,    \* [Proc -> the key it is storing, or None]
  made,     \* the keys made so far
  sealed,   \* the keys that records of the vault are sealed under
  met       \* the mishaps so far

keyVars == <<backend, avail, place, pc, cmd, cache, drawn, made, sealed, met>>
envVars == <<backend, avail>>

Key == Nat \cup {Torn}

KeyInit ==
  /\ backend \in {"passphrase", "keychain", "file"}
  /\ avail \in BOOLEAN
  /\ place = None
  /\ pc = [p \in Proc |-> "idle"]
  /\ cmd = [p \in Proc |-> None]
  /\ cache = [p \in Proc |-> None]
  /\ drawn = [p \in Proc |-> None]
  /\ made = 0 /\ sealed = {} /\ met = {}

-----------------------------------------------------------------------------
Goto(p, s) == pc' = [pc EXCEPT ![p] = s]
End(p) == Goto(p, "idle") /\ cmd' = [cmd EXCEPT ![p] = None]

keychainAvailable == avail
keychainGet == IF avail THEN place ELSE None

\* An empty salt is as good as any; an empty key file is no AES key.
Usable(k) == k \in Nat \/ (k = Torn /\ backend = "passphrase")

\* What masterKey() finds; a read error counts as nothing.
Stored == IF backend = "keychain" THEN keychainGet ELSE place

Making(p) == pc[p] \in {"drawn", "torn"}

Meets(mishaps) == mishaps \subseteq Mishaps /\ met' = met \cup mishaps
Beside(p) == {m \in {"overlap"} : \E q \in Proc \ {p} : Making(q)}

\* Mutant: any vault can be asked for a subkey.
masterKeyExists_always == TRUE

masterKeyExists ==
  CASE backend = "passphrase" -> TRUE
    [] backend = "keychain" -> keychainAvailable /\ keychainGet # None
    [] OTHER -> place # None

\* Storing or reading a secret; getSecret asks for the key when there is a record.
Begin(p) ==
  /\ pc[p] = "idle"
  /\ \E c \in {"put", "get"} :
       /\ c = "get" => sealed # {}
       /\ cmd' = [cmd EXCEPT ![p] = c]
  /\ Goto(p, "look")
  /\ UNCHANGED <<envVars, place, cache, drawn, made, sealed, met>>

\* Recording or verifying: the tip's key is a subkey, if there is a master key.
DeriveSubkey(p) ==
  /\ pc[p] = "idle"
  /\ masterKeyExists
  /\ cmd' = [cmd EXCEPT ![p] = "audit"]
  /\ Goto(p, "look")
  /\ UNCHANGED <<envVars, place, cache, drawn, made, sealed, met>>

FromCache(p) ==
  /\ pc[p] = "look" /\ cache[p] # None
  /\ Goto(p, "use")
  /\ UNCHANGED <<envVars, place, cmd, cache, drawn, made, sealed, met>>

Looking(p) == pc[p] = "look" /\ cache[p] = None /\ (backend = "keychain" => keychainAvailable)

\* Mutant: without a keychain the key is only held in memory.
Unavailable_inMemory(p) ==
  /\ pc[p] = "look" /\ cache[p] = None
  /\ backend = "keychain" /\ ~keychainAvailable /\ made < MaxKeys
  /\ made' = made + 1
  /\ cache' = [cache EXCEPT ![p] = made + 1]
  /\ Goto(p, "use")
  /\ UNCHANGED <<envVars, place, cmd, drawn, sealed, met>>

\* Fail closed: the command throws.
Unavailable(p) ==
  /\ pc[p] = "look" /\ cache[p] = None
  /\ backend = "keychain" /\ ~keychainAvailable
  /\ End(p)
  /\ UNCHANGED <<envVars, place, cache, drawn, made, sealed, met>>

Find(p) ==
  /\ Looking(p) /\ Stored # None
  /\ Meets(Beside(p))
  /\ cache' = [cache EXCEPT ![p] = Stored]
  /\ Goto(p, "use")
  /\ UNCHANGED <<envVars, place, cmd, drawn, made, sealed>>

\* Nothing there, or nothing that could be read: a key is drawn ...
Draw(p) ==
  /\ Looking(p) /\ made < MaxKeys
  /\ Meets(Beside(p) \cup {m \in {"hiccup"} : Stored # None})
  /\ made' = made + 1
  /\ drawn' = [drawn EXCEPT ![p] = made + 1]
  /\ Goto(p, "drawn")
  /\ UNCHANGED <<envVars, place, cmd, cache, sealed>>

\* ... and stored: a file in two steps, ...
Truncate(p) ==
  /\ pc[p] = "drawn" /\ backend # "keychain"
  /\ place' = Torn
  /\ Goto(p, "torn")
  /\ UNCHANGED <<envVars, cmd, cache, drawn, made, sealed, met>>

Store(p) ==
  /\ place' = drawn[p]
  /\ cache' = [cache EXCEPT ![p] = drawn[p]]
  /\ drawn' = [drawn EXCEPT ![p] = None]
  /\ Goto(p, "use")
  /\ UNCHANGED <<envVars, cmd, made, sealed, met>>

WriteKey(p) == pc[p] = "torn" /\ Store(p)

\* ... a keychain entry in one.
keychainSet(p) == pc[p] = "drawn" /\ backend = "keychain" /\ keychainAvailable /\ Store(p)

\* Mutant: the key is cached before it is stored.
StoreFails_cached(p) ==
  /\ Making(p)
  /\ cache' = [cache EXCEPT ![p] = drawn[p]]
  /\ drawn' = [drawn EXCEPT ![p] = None]
  /\ End(p)
  /\ UNCHANGED <<envVars, place, made, sealed, met>>

\* The disk is full, the keychain refuses: the command throws.
StoreFails(p) ==
  /\ Making(p)
  /\ drawn' = [drawn EXCEPT ![p] = None]
  /\ End(p)
  /\ UNCHANGED <<envVars, place, cache, made, sealed, met>>

\* putSecret seals and writes, or throws; nothing else leaves a trace.
Use(p) ==
  /\ pc[p] = "use"
  /\ sealed' = IF cmd[p] = "put" /\ Usable(cache[p]) THEN sealed \cup {cache[p]} ELSE sealed
  /\ End(p)
  /\ UNCHANGED <<envVars, place, cache, drawn, made, met>>

\* A process ends, or is killed anywhere, and another takes its place.
Restart(p) ==
  /\ End(p)
  /\ cache' = [cache EXCEPT ![p] = None]
  /\ drawn' = [drawn EXCEPT ![p] = None]
  /\ UNCHANGED <<envVars, place, made, sealed, met>>

KeychainChanges ==
  /\ backend = "keychain"
  /\ avail' = ~avail
  /\ UNCHANGED <<backend, place, pc, cmd, cache, drawn, made, sealed, met>>

KeyNext ==
  \/ \E p \in Proc :
       \/ Begin(p) \/ DeriveSubkey(p) \/ FromCache(p) \/ Unavailable(p) \/ Find(p)
       \/ Draw(p) \/ Truncate(p) \/ WriteKey(p) \/ keychainSet(p) \/ StoreFails(p)
       \/ Use(p) \/ Restart(p)
  \/ KeychainChanges

KeySpec == KeyInit /\ [][KeyNext]_keyVars

-----------------------------------------------------------------------------
(* Properties.                                                             *)

(* Every record is sealed under the key that the key store holds, so a     *)
(* process started now can open it: no kill, failing write or unavailable  *)
(* keychain makes masterKey() seal under a key that is not kept.  Without  *)
(* two processes making the key at the same time, and without a key that   *)
(* is there and cannot be read: masterKey() takes either for a fresh vault *)
(* and replaces the key.                                                   *)
SealedStaysReadable == met = {} => sealed \subseteq {place}

(* Long-lived processes (daemon, broker, MCP server) hold the key that the *)
(* next command will find, so what one of them seals or signs the other    *)
(* opens and verifies.  Same conditions.                                   *)
KeysAgree == met = {} => \A p \in Proc : cache[p] \in {None, place}

\* When a step of p may touch the key store: an audit only over a key it could
\* not read.
MayWrite(p) == cmd[p] = "audit" => place # None /\ "hiccup" \in met

(* The audit log attaches to a key that exists and never forces one into   *)
(* existence (vault.mjs:60-63): a record or a verification writes to the   *)
(* key store only over a key that is there and that it failed to read.     *)
(* With a passphrase a salt is made: the key counts as existing before it  *)
(* does.                                                                   *)
AuditMakesNoKey ==
  [][backend # "passphrase" /\ place' # place
       => \E p \in Proc : pc[p] # pc'[p] /\ MayWrite(p)]_keyVars
=============================================================================
