----------------------------- MODULE DaemonProofs -----------------------------
(* What a caller of the redeem daemon may conclude, and that the daemon can *)
(* be killed and restarted, for any number of callers, daemons and kills.   *)
EXTENDS Daemon, FiniteSetTheorems, TLAPS

Answers == {"ok", "error", "denied", "valid", "revoked", "unauthorized"}

DaemonTypes ==
  /\ sv \in [Server -> {"off", "cleared", "bound", "publish", "up", "closing", "closed", "gone"}]
  /\ node \in Server \cup {None} /\ info \in Server \cup {None}
  /\ at \in [Call -> {"new", "connected", "sent", "done"}]
  /\ op \in [Call -> {"redeem", "check", "revoke", None}]
  /\ conn \in [Call -> Server \cup {None}]
  /\ tok \in [Call -> Server \cup {None}]
  /\ line \in [Call -> {"none", "queued", "decided", "handled", "lost"}]
  /\ reply \in [Call -> Answers \cup {None}]
  /\ outcome \in [Call -> Answers \cup {None, "daemon-timeout", "daemon-closed", "daemon-unreachable"}]
  /\ uses \in Nat /\ spent \subseteq Call /\ sure \subseteq Call

(* How far a call can be, given its line. *)
CallOK(c) ==
  /\ at[c] = "new" => conn[c] = None /\ line[c] = "none"
  /\ at[c] \in {"connected", "sent"} => conn[c] \in Server
  /\ at[c] # "done" => outcome[c] = None
  /\ line[c] # "none" => conn[c] \in Server
  /\ line[c] \in {"decided", "handled"} => reply[c] \in Answers
  /\ conn[c] # None => sv[conn[c]] \notin {"off", "cleared"}
  /\ conn[c] # None /\ sv[conn[c]] = "closed" => ~Open(c)

(* What NoSilentSpend needs to be inductive.  A caller is told that the     *)
(* daemon is unreachable only if its line never will be handled; an answer  *)
(* only once it has been.                                                   *)
Unhandled(c) == conn[c] = None \/ line[c] = "lost" \/ sv[conn[c]] = "gone"

ToldTruth(c) ==
  at[c] = "done" =>
    \/ outcome[c] \in {"daemon-timeout", "daemon-closed"}
    \/ outcome[c] = "daemon-unreachable" /\ line[c] \notin {"decided", "handled"} /\ Unhandled(c)
    \/ line[c] = "handled" /\ outcome[c] = reply[c]

SpentBy(c) ==
  op[c] = "redeem" /\ tok[c] = conn[c] /\ line[c] \in {"decided", "handled"} /\ reply[c] \in {"ok", "error"}

SpendInv ==
  /\ DaemonTypes
  /\ \A c \in Call : CallOK(c) /\ ToldTruth(c)
  /\ \A c \in spent : SpentBy(c)
  /\ uses + Cardinality(spent) = Granted

(* What the properties of a daemon that runs alone need.                   *)
OneDaemon == \A d, e \in Server : Present(d) /\ Present(e) => d = e

PathOwned ==
  \A d \in Server :
    /\ sv[d] = "cleared" => node = None
    /\ sv[d] \in {"bound", "publish", "up"} => node = d
    /\ sv[d] = "up" => info = d

SureServed ==
  \A c \in sure :
    /\ at[c] # "new" /\ conn[c] \in Server /\ sv[conn[c]] = "up"
    /\ line[c] # "lost"
    /\ line[c] # "none" => tok[c] = conn[c]
    /\ line[c] \in {"decided", "handled"} => reply[c] # "unauthorized"
    /\ outcome[c] \notin {"unauthorized", "daemon-unreachable", "daemon-closed"}

Alone == OneDaemon /\ PathOwned /\ SureServed

AloneInv == DaemonTypes /\ (\A c \in Call : CallOK(c)) /\ (met = {} => Alone)

-----------------------------------------------------------------------------
(* Types, and how far a call can be.                                       *)

Basics == DaemonTypes /\ \A c \in Call : CallOK(c)

\* The steps of a daemon's life.
Life(d) ==
  \/ Start(d) \/ Bind(d) \/ BindFails(d) \/ TruncateInfo(d) \/ WriteInfo(d) \/ InfoFails(d)
  \/ Stop(d) \/ CloseServer(d) \/ CloseDone(d) \/ Exit(d) \/ Kill(d)

Asking(c) == Connect(c) \/ Send(c) \/ Answer(c) \/ ConnLost(c) \/ GiveUp(c)

LEMMA InitInv == DaemonInit => SpendInv /\ AloneInv
<1> SUFFICES ASSUME DaemonInit
             PROVE  SpendInv /\ AloneInv
    OBVIOUS
<1>1. DaemonTypes /\ \A c \in Call : CallOK(c) /\ ToldTruth(c)
  BY DaemonAssumption DEF DaemonInit, DaemonTypes, CallOK, Open, ToldTruth
<1>2. (\A c \in spent : SpentBy(c)) /\ uses + Cardinality(spent) = Granted
  BY DaemonAssumption, FS_EmptySet DEF DaemonInit
<1>3. Alone
  BY DEF DaemonInit, Alone, OneDaemon, PathOwned, SureServed, Present, Running, Listening
<1> QED BY <1>1, <1>2, <1>3 DEF SpendInv, AloneInv

\* Only a close loses lines, and none that was taken.
LEMMA LifeLines ==
  ASSUME Basics, NEW d \in Server, Life(d)
  PROVE  /\ line' \in [Call -> {"none", "queued", "decided", "handled", "lost"}]
         /\ \A c \in Call :
              line'[c] # line[c] => line[c] \in {"none", "queued"} /\ line'[c] = "lost" /\ conn[c] = d
<1> USE DEF Basics, DaemonTypes
<1>1. CASE CloseServer(d)
  <2>1. PICK lost \in SUBSET {c \in Call : conn[c] = d /\ line[c] \in {"none", "queued"}} :
          line' = [c \in Call |-> IF c \in lost THEN "lost" ELSE line[c]]
    BY <1>1 DEF CloseServer
  <2>2. line' \in [Call -> {"none", "queued", "decided", "handled", "lost"}]
    BY <2>1
  <2>3. \A c \in Call : line'[c] = IF c \in lost THEN "lost" ELSE line[c]
    BY <2>1
  <2> QED BY <2>2, <2>3
<1>2. CASE Start(d) \/ Bind(d) \/ BindFails(d) \/ CloseDone(d) \/ Exit(d)
  BY <1>2 DEF Start, Bind, BindFails, CloseDone, Exit, netVars
<1>3. CASE TruncateInfo(d) \/ WriteInfo(d) \/ InfoFails(d) \/ Stop(d) \/ Kill(d)
  BY <1>3 DEF TruncateInfo, WriteInfo, InfoFails, Stop, Kill, netVars
<1> QED BY <1>1, <1>2, <1>3 DEF Life

\* A daemon that has begun stays begun, and one that is gone stays gone.
LEMMA LifeForward ==
  ASSUME Basics, NEW d \in Server, Life(d), NEW e \in Server
  PROVE  /\ sv'[e] \in {"off", "cleared"} => sv[e] \in {"off", "cleared"}
         /\ sv[e] = "gone" => sv'[e] = "gone"
         /\ sv'[e] = "closed" => sv[e] = "closed" \/ \A c \in Call : conn[c] = e => ~Open(c)
<1> USE DEF Basics, DaemonTypes, GotoSv
<1>1. CASE Start(d) \/ Bind(d) \/ BindFails(d)
  BY <1>1 DEF Start, Bind, BindFails
<1>2. CASE TruncateInfo(d) \/ WriteInfo(d) \/ InfoFails(d)
  BY <1>2 DEF TruncateInfo, WriteInfo, InfoFails
<1>3. CASE Stop(d) \/ CloseServer(d) \/ CloseDone(d) \/ Exit(d)
  BY <1>3 DEF Stop, CloseServer, CloseDone, Exit
<1>4. CASE Kill(d)
  BY <1>4 DEF Kill
<1> QED BY <1>1, <1>2, <1>3, <1>4 DEF Life

LEMMA LifeBasics ==
  ASSUME Basics, NEW d \in Server, Life(d)
  PROVE  Basics'
<1> USE DEF Basics, DaemonTypes
<1>1. UNCHANGED <<busy, at, op, conn, tok, reply, outcome, uses, live, spent>>
  BY DEF Life, Start, Bind, BindFails, TruncateInfo, WriteInfo, InfoFails, Stop, CloseServer,
         CloseDone, Exit, Kill, netVars, leaseVars
<1>2. sure' \subseteq Call
  BY DEF Life, Start, Bind, BindFails, TruncateInfo, WriteInfo, InfoFails, Stop, CloseServer,
         CloseDone, Exit, Kill, netVars, Forsaken
<1>3. /\ sv' \in [Server -> {"off", "cleared", "bound", "publish", "up", "closing", "closed", "gone"}]
      /\ node' \in Server \cup {None} /\ info' \in Server \cup {None}
  <2>1. CASE Start(d) \/ Bind(d) \/ BindFails(d)
    BY <2>1 DEF Start, Bind, BindFails, GotoSv, Cleanup
  <2>2. CASE TruncateInfo(d) \/ WriteInfo(d) \/ InfoFails(d)
    BY <2>2 DEF TruncateInfo, WriteInfo, InfoFails, GotoSv
  <2>3. CASE Stop(d) \/ CloseServer(d) \/ CloseDone(d) \/ Exit(d) \/ Kill(d)
    BY <2>3 DEF Stop, CloseServer, CloseDone, Exit, Kill, GotoSv, Cleanup
  <2> QED BY <2>1, <2>2, <2>3 DEF Life
<1>4. /\ line' \in [Call -> {"none", "queued", "decided", "handled", "lost"}]
      /\ \A c \in Call : line'[c] # line[c] => line'[c] = "lost" /\ conn[c] = d
  BY LifeLines
<1>5. ASSUME NEW c \in Call
      PROVE  CallOK(c)'
  <2>1. \A e \in Server : sv'[e] \in {"off", "cleared"} => sv[e] \in {"off", "cleared"}
    BY LifeForward
  <2>2. \A e \in Server : sv'[e] = "closed"
                            => sv[e] = "closed" \/ \A b \in Call : conn[b] = e => ~Open(b)
    BY LifeForward
  <2>3. Open(c)' => Open(c)
    BY <1>1, <1>4 DEF Open
  <2>4. conn'[c] # None /\ sv'[conn'[c]] = "closed" => ~Open(c)'
    BY <1>1, <2>2, <2>3 DEF CallOK
  <2> QED BY <1>1, <1>4, <2>1, <2>4, DaemonAssumption DEF CallOK
<1> QED BY <1>1, <1>2, <1>3, <1>4, <1>5

LEMMA AskingBasics ==
  ASSUME Basics, NEW c \in Call, Asking(c)
  PROVE  Basics'
<1> USE DEF Basics, DaemonTypes, CallOK, Open
<1>1. CASE Connect(c)
  <2>1. Asks[c] \subseteq {"redeem", "check", "revoke"}
    BY DaemonAssumption
  <2>2. CASE node # None /\ Listening(node)
    <3>1. PICK o \in Asks[c] : op' = [op EXCEPT ![c] = o]
      BY <1>1, <2>2 DEF Connect
    <3>2. sv[node] \notin {"off", "cleared", "closed"} /\ node \in Server
      BY <2>2 DEF Listening
    <3> QED BY <1>1, <2>1, <2>2, <3>1, <3>2 DEF Connect, GotoCall, hostVars, leaseVars
  <2>3. CASE ~(node # None /\ Listening(node))
    BY <1>1, <2>3 DEF Connect, GotoCall, Finish, hostVars, leaseVars
  <2> QED BY <2>2, <2>3
<1>2. CASE Send(c)
  BY <1>2 DEF Send, GotoCall, GotoLine, hostVars, leaseVars
<1>3. CASE Answer(c)
  BY <1>3 DEF Answer, GotoCall, Finish, hostVars, leaseVars
<1>4. CASE ConnLost(c) \/ GiveUp(c)
  BY <1>4 DEF ConnLost, GiveUp, GotoCall, Finish, hostVars, leaseVars
<1> QED BY <1>1, <1>2, <1>3, <1>4 DEF Asking

LEMMA HandleBasics ==
  ASSUME Basics, NEW d \in Server, NEW c \in Call, Handle(d, c) \/ IdleDrop(d, c)
  PROVE  Basics'
<1> USE DEF Basics, DaemonTypes, CallOK, Open, Answers
<1>1. CASE Unauthorized(d, c)
  BY <1>1, DaemonAssumption DEF Unauthorized, Pending, Reply, GotoLine, hostVars, leaseVars
<1>2. CASE Redeem(d, c)
  BY <1>2, DaemonAssumption
  DEF Redeem, Handling, Authorized, Pending, Decide, Reply, GotoLine, hostVars
<1>3. CASE Deny(d, c) \/ Check(d, c) \/ Revoke(d, c)
  BY <1>3, DaemonAssumption
  DEF Deny, Check, Revoke, Handling, Authorized, Pending, Decide, Reply, GotoLine, hostVars, leaseVars
<1>4. CASE WriteReply(d, c) \/ IdleDrop(d, c)
  BY <1>4, DaemonAssumption DEF WriteReply, IdleDrop, GotoLine, hostVars, leaseVars
<1> QED BY <1>1, <1>2, <1>3, <1>4 DEF Handle

LEMMA StepBasics ==
  ASSUME Basics, [DaemonNext]_daemonVars
  PROVE  Basics'
<1>1. CASE UNCHANGED daemonVars
  BY <1>1 DEF Basics, DaemonTypes, CallOK, Open, daemonVars, hostVars, netVars, leaseVars
<1>2. CASE DaemonNext
  BY <1>2, LifeBasics, AskingBasics, HandleBasics DEF DaemonNext, Life, Asking
<1> QED BY <1>1, <1>2

-----------------------------------------------------------------------------
(* What the caller was told and what it spent.                             *)

\* Daemons coming and going lose lines, but none that was decided on.
LEMMA LifeSpend ==
  ASSUME SpendInv, NEW d \in Server, Life(d)
  PROVE  SpendInv'
<1>1. Basics /\ Basics'
  BY LifeBasics DEF SpendInv, Basics
<1>2. UNCHANGED <<at, op, conn, tok, reply, outcome, uses, spent>>
  BY DEF Life, Start, Bind, BindFails, TruncateInfo, WriteInfo, InfoFails, Stop, CloseServer,
         CloseDone, Exit, Kill, netVars, leaseVars
<1>3. \A c \in Call : line'[c] # line[c] => line[c] \in {"none", "queued"} /\ line'[c] = "lost"
  BY <1>1, LifeLines
<1>4. ASSUME NEW c \in Call
      PROVE  ToldTruth(c)'
  <2>1. Unhandled(c) => Unhandled(c)'
    BY <1>1, <1>2, <1>3, LifeForward DEF Unhandled, Basics, DaemonTypes
  <2> QED BY <1>2, <1>3, <2>1 DEF SpendInv, ToldTruth
<1>5. \A c \in spent' : SpentBy(c)'
  BY <1>2, <1>3 DEF SpendInv, SpentBy, DaemonTypes
<1> QED BY <1>1, <1>2, <1>4, <1>5 DEF SpendInv, Basics

\* Callers spend nothing themselves, and are told what is so.
LEMMA AskingSpend ==
  ASSUME SpendInv, NEW c \in Call, Asking(c)
  PROVE  SpendInv'
<1>1. Basics /\ Basics'
  BY AskingBasics DEF SpendInv, Basics
<1>2. UNCHANGED <<sv, uses, spent>>
  BY DEF Asking, Connect, Send, Answer, ConnLost, GiveUp, hostVars, leaseVars
<1>3. /\ reply' = reply
      /\ \A b \in Call \ {c} : /\ at'[b] = at[b] /\ op'[b] = op[b] /\ conn'[b] = conn[b] /\ tok'[b] = tok[b]
                            /\ line'[b] = line[b] /\ outcome'[b] = outcome[b]
  <2> USE <1>1 DEF Basics, DaemonTypes, GotoCall, GotoLine, Finish
  <2>1. CASE Connect(c) \/ Send(c)
    BY <2>1 DEF Connect, Send
  <2>2. CASE Answer(c) \/ ConnLost(c) \/ GiveUp(c)
    BY <2>2 DEF Answer, ConnLost, GiveUp
  <2> QED BY <2>1, <2>2 DEF Asking
<1>4. ToldTruth(c)'
  <2> USE <1>1 DEF Basics, DaemonTypes, CallOK, Open, ToldTruth, Unhandled, GotoCall, GotoLine, Finish
  <2>1. CASE Connect(c) \/ Send(c)
    BY <2>1 DEF Connect, Send
  <2>2. CASE Answer(c) \/ GiveUp(c)
    BY <2>2 DEF Answer, GiveUp
  <2>3. CASE ConnLost(c)
    <3>1. line[c] = "lost" \/ sv[conn[c]] \in {"off", "cleared", "gone"}
      BY <2>3, DaemonAssumption DEF ConnLost, Running, Listening, Open
    <3> QED BY <2>3, <3>1, <1>2 DEF ConnLost
  <2> QED BY <2>1, <2>2, <2>3 DEF Asking
<1>5. c \in spent => SpentBy(c)'
  BY <1>1 DEF SpendInv, SpentBy, Asking, Connect, Send, Answer, ConnLost, GiveUp, Basics, CallOK,
              DaemonTypes, Finish
<1>6. \A b \in Call : ToldTruth(b)' /\ (b \in spent' => SpentBy(b)')
  BY <1>2, <1>3, <1>4, <1>5 DEF SpendInv, ToldTruth, Unhandled, SpentBy
<1> QED BY <1>1, <1>2, <1>6 DEF SpendInv, Basics, DaemonTypes

\* The handler of a line that nothing was spent on yet.
LEMMA PendingUnspent ==
  ASSUME SpendInv, NEW d \in Server, NEW c \in Call, Pending(d, c)
  PROVE  /\ c \notin spent
         /\ at[c] = "done" => outcome[c] \in {"daemon-timeout", "daemon-closed"}
<1>1. line[c] = "queued" /\ ~Unhandled(c)
  BY DaemonAssumption DEF Pending, Serving, Unhandled
<1> QED BY <1>1 DEF SpendInv, SpentBy, ToldTruth

\* What a line is decided to does not disturb the other calls.
LEMMA DecideSpend ==
  ASSUME SpendInv, NEW d \in Server, NEW c \in Call, NEW r \in Answers, Authorized(d, c),
         Decide(d, c, r), uses' = uses, spent' = spent
  PROVE  /\ \A b \in Call : ToldTruth(b)'
         /\ \A b \in spent : SpentBy(b)'
<1> USE DEF SpendInv, DaemonTypes
<1>1. Pending(d, c)
  BY DEF Authorized
<1>2. /\ UNCHANGED <<sv, at, op, conn, tok, outcome>>
      /\ line' = [line EXCEPT ![c] = "decided"] /\ reply' = [reply EXCEPT ![c] = r]
  BY DEF Decide, Reply, GotoLine, hostVars
<1> QED BY <1>1, <1>2, PendingUnspent DEF ToldTruth, Unhandled, SpentBy

LEMMA RedeemSpend ==
  ASSUME SpendInv, NEW d \in Server, NEW c \in Call, Redeem(d, c)
  PROVE  /\ \A b \in Call : ToldTruth(b)'
         /\ \A b \in spent' : SpentBy(b)'
         /\ uses' + Cardinality(spent') = Granted
<1> USE DEF SpendInv, DaemonTypes
<1>1. Pending(d, c) /\ op[c] = "redeem" /\ tok[c] = conn[c]
  BY DEF Redeem, Handling, Authorized, Pending
<1>2. /\ UNCHANGED <<sv, at, op, conn, tok, outcome>>
      /\ line' = [line EXCEPT ![c] = "decided"]
      /\ \E r \in {"ok", "error"} : reply' = [reply EXCEPT ![c] = r]
      /\ uses' = uses - 1 /\ spent' = spent \cup {c} /\ uses > 0
  BY DEF Redeem, Decide, Reply, GotoLine, hostVars
<1>3. \A b \in Call : ToldTruth(b)'
  BY <1>1, <1>2, PendingUnspent DEF ToldTruth, Unhandled
<1>4. \A b \in spent' : SpentBy(b)'
  BY <1>1, <1>2 DEF SpentBy
<1>5. c \notin spent /\ IsFiniteSet(spent)
  BY <1>1, PendingUnspent, DaemonAssumption, FS_Subset
<1>6. Cardinality(spent') = Cardinality(spent) + 1 /\ Cardinality(spent) \in Nat
  BY <1>2, <1>5, FS_AddElement, FS_CardinalityType
<1> QED BY <1>2, <1>3, <1>4, <1>6, DaemonAssumption

LEMMA HandleSpend ==
  ASSUME SpendInv, NEW d \in Server, NEW c \in Call, Handle(d, c) \/ IdleDrop(d, c)
  PROVE  SpendInv'
<1>1. Basics /\ Basics'
  BY HandleBasics DEF SpendInv, Basics
<1> SUFFICES /\ \A b \in Call : ToldTruth(b)'
             /\ \A b \in spent' : SpentBy(b)'
             /\ uses' + Cardinality(spent') = Granted
    BY <1>1 DEF SpendInv, Basics
<1>2. CASE Unauthorized(d, c)
  <2>1. Pending(d, c) /\ UNCHANGED <<sv, at, op, conn, tok, outcome, uses, spent>>
    BY <1>2 DEF Unauthorized, hostVars, leaseVars
  <2>2. line' = [line EXCEPT ![c] = "handled"] /\ reply' = [reply EXCEPT ![c] = "unauthorized"]
    BY <1>2 DEF Unauthorized, Reply, GotoLine
  <2>3. \A b \in Call : ToldTruth(b)'
    BY <2>1, <2>2, PendingUnspent DEF SpendInv, DaemonTypes, ToldTruth, Unhandled
  <2>4. \A b \in spent' : SpentBy(b)'
    BY <2>1, <2>2, PendingUnspent DEF SpendInv, DaemonTypes, SpentBy
  <2> QED BY <2>1, <2>3, <2>4 DEF SpendInv
<1>3. CASE Redeem(d, c)
  BY <1>3, RedeemSpend
<1>4. CASE Deny(d, c) \/ Check(d, c) \/ Revoke(d, c)
  <2>1. uses' = uses /\ spent' = spent /\ Authorized(d, c)
    BY <1>4 DEF Deny, Check, Revoke, Handling, leaseVars
  <2>2. PICK r \in Answers : Decide(d, c, r)
    BY <1>4 DEF Deny, Check, Revoke, Answers
  <2> QED BY <2>1, <2>2, DecideSpend DEF SpendInv
<1>5. CASE WriteReply(d, c) \/ IdleDrop(d, c)
  <2>1. /\ UNCHANGED <<sv, at, op, conn, tok, reply, outcome, uses, spent>>
        /\ \/ line[c] = "decided" /\ line' = [line EXCEPT ![c] = "handled"]
           \/ line[c] = "none" /\ line' = [line EXCEPT ![c] = "lost"]
    BY <1>5 DEF WriteReply, IdleDrop, GotoLine, hostVars, leaseVars
  <2>2. \A b \in Call : ToldTruth(b)'
    BY <2>1 DEF SpendInv, DaemonTypes, ToldTruth, Unhandled
  <2>3. \A b \in spent' : SpentBy(b)'
    BY <2>1 DEF SpendInv, DaemonTypes, SpentBy
  <2> QED BY <2>1, <2>2, <2>3 DEF SpendInv
<1> QED BY <1>2, <1>3, <1>4, <1>5 DEF Handle

LEMMA StepSpend ==
  ASSUME SpendInv, [DaemonNext]_daemonVars
  PROVE  SpendInv'
<1>1. CASE UNCHANGED daemonVars
  BY <1>1
  DEF SpendInv, DaemonTypes, CallOK, Open, ToldTruth, Unhandled, SpentBy, daemonVars, hostVars, netVars, leaseVars
<1>2. CASE DaemonNext
  BY <1>2, LifeSpend, AskingSpend, HandleSpend DEF DaemonNext, Life, Asking
<1> QED BY <1>1, <1>2

LEMMA SpendImplies == SpendInv => NoSilentSpend
<1> SUFFICES ASSUME SpendInv, NEW c \in spent
             PROVE  outcome[c] \in {None, "ok", "error", "daemon-timeout", "daemon-closed"}
    BY DEF SpendInv, NoSilentSpend, SpentBy
<1> QED BY DEF SpendInv, DaemonTypes, CallOK, Open, ToldTruth, SpentBy

(* Every use gone from the lease was spent for a call that asked to redeem *)
(* and proved it knew the token; a refusal, or that the daemon is          *)
(* unreachable, means that nothing was spent.                              *)
THEOREM NothingSpentSilently == DaemonSpec => []NoSilentSpend
<1>1. DaemonSpec => []SpendInv
  BY InitInv, StepSpend, PTL DEF DaemonSpec
<1> QED BY <1>1, SpendImplies, PTL

-----------------------------------------------------------------------------
(* One daemon at a time.                                                   *)

\* Without mishap a daemon starts only when none runs.
LEMMA StartAlone ==
  ASSUME AloneInv, NEW d \in Server, Start(d), met' = {}
  PROVE  Alone'
<1> USE DEF AloneInv, DaemonTypes
<1>1. met = {} /\ ~\E e \in Server : Present(e)
  <2>1. met = {} /\ {m \in {"overlap"} : \E e \in Server : Present(e)} = {}
    BY DEF Start, Meets
  <2> QED BY <2>1
<1>2. \A e \in Server : sv[e] \in {"off", "gone"}
  BY <1>1 DEF Present, Running, Listening
<1>3. sure = {}
  BY <1>1, <1>2 DEF Alone, SureServed
<1> QED BY <1>2, <1>3 DEF Start, GotoSv, netVars, Alone, OneDaemon, PathOwned, SureServed, Present, Running, Listening

\* While one daemon runs the others do not disturb it.
LEMMA LifeAlone ==
  ASSUME AloneInv, NEW d \in Server, Life(d), met' = {}
  PROVE  Alone'
<1>1. Basics
  BY DEF AloneInv, Basics
<1>2. CASE Start(d)
  BY <1>2, StartAlone
<1>3. CASE ~Start(d)
  <2>1. Alone /\ Present(d) /\ ~InfoFails(d)
    BY <1>3 DEF Life, Bind, BindFails, TruncateInfo, WriteInfo, InfoFails, Meets, Stop, CloseServer,
                CloseDone, Exit, Kill, AloneInv, Present, Running, Listening, Serving
  <2>2. \A e \in Server \ {d} : sv[e] \in {"off", "gone"} /\ sv'[e] = sv[e]
    <3>1. \A e \in Server \ {d} : sv[e] \in {"off", "gone"}
      BY <2>1, <1>1 DEF Alone, OneDaemon, Present, Running, Listening, Basics, DaemonTypes
    <3>2. \E s \in {"bound", "publish", "up", "closing", "closed", "gone"} : GotoSv(d, s)
      BY <1>3 DEF Life, Bind, BindFails, TruncateInfo, WriteInfo, InfoFails, Stop, CloseServer,
                  CloseDone, Exit, Kill
    <3> QED BY <3>1, <3>2, <1>1 DEF GotoSv, Basics, DaemonTypes
  <2>3. OneDaemon'
    BY <2>2 DEF OneDaemon, Present, Running, Listening
  <2>4. CASE Bind(d) \/ BindFails(d)
    BY <2>1, <2>2, <2>3, <2>4, <1>1
    DEF Bind, BindFails, GotoSv, netVars, Alone, PathOwned, SureServed, Basics, DaemonTypes
  <2>5. CASE TruncateInfo(d) \/ WriteInfo(d)
    BY <2>1, <2>2, <2>3, <2>5, <1>1
    DEF TruncateInfo, WriteInfo, GotoSv, netVars, Alone, PathOwned, SureServed, Basics, DaemonTypes
  <2>6. CASE Stop(d) \/ CloseServer(d) \/ CloseDone(d) \/ Exit(d) \/ Kill(d)
    <3>1. sv'[d] \in {"closing", "closed", "gone"}
      BY <2>6, <1>1 DEF Stop, CloseServer, CloseDone, Exit, Kill, GotoSv, Basics, DaemonTypes
    <3>2. PathOwned'
      BY <2>2, <3>1 DEF PathOwned
    <3>3. sure' = {}
      <4>1. sv[d] # "up" => sure = {}
        BY <2>1, <2>2 DEF Alone, SureServed
      <4> QED BY <4>1, <2>6 DEF Stop, CloseServer, CloseDone, Exit, Kill, Forsaken, netVars
    <3> QED BY <2>3, <3>2, <3>3 DEF Alone, SureServed
  <2> QED BY <1>3, <2>1, <2>4, <2>5, <2>6 DEF Life
<1> QED BY <1>2, <1>3

LEMMA AskingAlone ==
  ASSUME AloneInv, NEW c \in Call, Asking(c), met' = {}
  PROVE  Alone'
<1>1. Alone /\ Basics /\ UNCHANGED <<sv, node, info, reply>>
  BY DEF AloneInv, Basics, Asking, Connect, Send, Answer, ConnLost, GiveUp, hostVars
<1>2. OneDaemon' /\ PathOwned'
  BY <1>1 DEF Alone, OneDaemon, PathOwned, Present, Running, Listening
<1> USE <1>1 DEF Alone, PathOwned, SureServed, Basics, DaemonTypes, CallOK
<1>3. CASE Connect(c)
  <2>1. CASE \E d \in Server : sv[d] = "up"
    <3>1. PICK d \in Server : sv[d] = "up"
      BY <2>1
    <3>2. node = d /\ node # None /\ Listening(node) /\ at[c] = "new" /\ sure' = sure \cup {c}
      BY <3>1, <1>3, DaemonAssumption DEF Connect, Listening
    <3>3. /\ at' = [at EXCEPT ![c] = "connected"] /\ conn' = [conn EXCEPT ![c] = d]
          /\ UNCHANGED <<tok, line, outcome>>
      BY <3>2, <1>3 DEF Connect, GotoCall
    <3>4. SureServed'
      BY <3>1, <3>2, <3>3, DaemonAssumption
    <3> QED BY <1>2, <3>4
  <2>2. CASE ~\E d \in Server : sv[d] = "up"
    BY <1>2, <1>3, <2>2 DEF Connect
  <2> QED BY <2>1, <2>2
<1>4. CASE Send(c)
  BY <1>2, <1>4 DEF Send, GotoCall, GotoLine
<1>5. CASE Answer(c) \/ GiveUp(c)
  BY <1>2, <1>5 DEF Answer, GiveUp, GotoCall, Finish, Answers
<1>6. CASE ConnLost(c)
  <2>1. c \notin sure
    BY <1>6 DEF ConnLost, Present, Running, Listening
  <2> QED BY <1>2, <1>6, <2>1 DEF ConnLost, GotoCall, Finish
<1> QED BY <1>3, <1>4, <1>5, <1>6 DEF Asking

LEMMA HandleAlone ==
  ASSUME AloneInv, NEW d \in Server, NEW c \in Call, Handle(d, c) \/ IdleDrop(d, c), met' = {}
  PROVE  Alone'
<1>1. Alone /\ Basics /\ UNCHANGED <<sv, node, info, at, conn, tok, outcome>>
  BY DEF AloneInv, Basics, Handle, Unauthorized, Redeem, Deny, Check, Revoke, WriteReply, IdleDrop,
         Decide, hostVars
<1>2. OneDaemon' /\ PathOwned'
  BY <1>1 DEF Alone, OneDaemon, PathOwned, Present, Running, Listening
<1> USE <1>1, <1>2 DEF Alone, SureServed, Basics, DaemonTypes
<1>3. CASE Unauthorized(d, c)
  BY <1>3 DEF Unauthorized, Pending, GotoLine, Reply
<1>4. CASE Redeem(d, c) \/ Deny(d, c)
  BY <1>4 DEF Redeem, Deny, Handling, Authorized, Pending, Decide, GotoLine, Reply
<1>5. CASE Check(d, c) \/ Revoke(d, c)
  BY <1>5 DEF Check, Revoke, Handling, Authorized, Pending, Decide, GotoLine, Reply
<1>6. CASE WriteReply(d, c) \/ IdleDrop(d, c)
  BY <1>6 DEF WriteReply, IdleDrop, GotoLine
<1> QED BY <1>3, <1>4, <1>5, <1>6 DEF Handle

LEMMA StepAlone ==
  ASSUME AloneInv, [DaemonNext]_daemonVars
  PROVE  AloneInv'
<1>1. Basics'
  BY StepBasics DEF AloneInv, Basics
<1>2. ASSUME met' = {}
      PROVE  Alone'
  <2>1. CASE UNCHANGED daemonVars
    BY <1>2, <2>1
    DEF AloneInv, Alone, OneDaemon, PathOwned, SureServed, Present, Running, Listening, daemonVars, hostVars, netVars
  <2>2. CASE DaemonNext
    BY <1>2, <2>2, LifeAlone, AskingAlone, HandleAlone DEF DaemonNext, Life, Asking
  <2> QED BY <2>1, <2>2
<1> QED BY <1>1, <1>2 DEF AloneInv, Basics

LEMMA AloneAlways == DaemonSpec => []AloneInv
BY InitInv, StepAlone, PTL DEF DaemonSpec

(* A call begun with a daemon up that stays up is recognised and never told *)
(* that there is no daemon, after any kills and restarts before it, as long *)
(* as no process of a daemon is still there when the next one starts and    *)
(* the info file can be written.                                            *)
THEOREM SureCallsAreServed == DaemonSpec => []SureCallsServed
<1>1. AloneInv => SureCallsServed
  BY DEF AloneInv, Alone, SureServed, SureCallsServed
<1> QED BY <1>1, AloneAlways, PTL

(* The socket a killed daemon leaves behind never keeps the next one from   *)
(* the path, as long as no process of another daemon is still there.        *)
THEOREM RestartsBind == DaemonSpec => RestartBinds
<1> DEFINE Binds == \A d \in Server : met = {} => ~BindFails(d)
<1>1. AloneInv => Binds
  BY DEF AloneInv, Alone, PathOwned, BindFails
<1>2. AloneInv /\ [DaemonNext]_daemonVars => [Binds]_daemonVars
  BY <1>1
<1> QED BY <1>2, AloneAlways, PTL DEF RestartBinds, DaemonSpec
=============================================================================
