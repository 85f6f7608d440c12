-------------------------------- MODULE Daemon --------------------------------
(***************************************************************************)
(* The redeem daemon (src/daemon.mjs) and its client (src/client.mjs):     *)
(* callers without the master key redeem a lease through a local socket.   *)
(*                                                                         *)
(* Daemons come and go on one socket path and publish their token in the   *)
(* info file.  A daemon handles one line at a time and blocks while it     *)
(* waits for the lease lock; a caller gives up after three seconds, and    *)
(* the line it has sent stays in the daemon's buffer.  A connection        *)
(* carries one line, as request() uses it.  All calls are about one lease: *)
(* through different leases they share nothing but the daemon.  A token    *)
(* pinned by $KEEPER_DAEMON_TOKEN is the same for all and needs no file:   *)
(* each daemon here makes its own.  Sockets behave as on POSIX.            *)
(***************************************************************************)
EXTENDS Naturals, FiniteSets

CONSTANTS
  Call,        \* requests of callers, one connection each
  Asks,        \* [Call -> the operations it may ask for]
  Server,      \* daemon processes
  None,
  Granted,     \* the uses of the lease
  MaxKills,    \* bound on the daemons killed
  Mishaps,     \* what may go wrong beyond a kill
  MaxMishaps   \* and bound on the kinds of them in one behaviour

\* "overlap": a daemon starts while the process of another one is still there.
\* "disk": the info file cannot be written.
ASSUME DaemonAssumption ==
  /\ IsFiniteSet(Call)
  /\ None \notin Server \cup {"unauthorized", "daemon-unreachable", "daemon-closed"}
  /\ Asks \in [Call -> SUBSET {"redeem", "check", "revoke"}]
  /\ Granted \in Nat /\ MaxKills \in Nat /\ MaxMishaps \in Nat
  /\ Mishaps \subseteq {"overlap", "disk"}

VARIABLES
  sv,       \* [Server -> how far it is]
  node,     \* the daemon that bound the socket path, or None
  info,     \* the daemon whose token is in the info file, or None
  busy,     \* [Server -> the call whose line it is handling, or None]
  at,       \* [Call -> how far the caller is]
  op,       \* [Call -> what it asks]
  conn,     \* [Call -> the daemon it is connected to, or None]
  tok,      \* [Call -> whose token it sent, or None]
  line,     \* [Call -> where its request line is]
  reply,    \* [Call -> the daemon's reply, or None]
  outcome,  \* [Call -> what the caller was told, or None]
  uses,     \* usesLeft of the lease
  live,     \* it is not revoked
  \* history:
  spent,    \* calls that a use was spent for
  sure,     \* calls begun with a daemon up that has stayed up
  kills,
  met       \* the mishaps so far

netVars == <<at, op, conn, tok, line, reply, outcome, sure>>
leaseVars == <<uses, live, spent>>
hostVars == <<sv, node, info, kills, met>>
daemonVars == <<hostVars, busy, netVars, leaseVars>>

DaemonInit ==
  /\ sv = [d \in Server |-> "off"]
  /\ node = None /\ info = None
  /\ busy = [d \in Server |-> None]
  /\ at = [c \in Call |-> "new"]
  /\ op = [c \in Call |-> None]
  /\ conn = [c \in Call |-> None]
  /\ tok = [c \in Call |-> None]
  /\ line = [c \in Call |-> "none"]
  /\ reply = [c \in Call |-> None]
  /\ outcome = [c \in Call |-> None]
  /\ uses = Granted /\ live = TRUE
  /\ spent = {} /\ sure = {} /\ kills = 0 /\ met = {}

-----------------------------------------------------------------------------
(* Daemons.                                                                *)

\* Connections are taken up to the close, lines are read in the event loop.
Listening(d) == sv[d] \in {"bound", "publish", "up"}
Serving(d) == sv[d] \in {"up", "closing"}
Running(d) == Listening(d) \/ sv[d] \in {"cleared", "closing"}

\* Its process is there, if only because it outlives the daemon it has closed.
Present(d) == Running(d) \/ sv[d] = "closed"

Meets(mishaps) ==
  /\ mishaps \subseteq Mishaps /\ Cardinality(met \cup mishaps) <= MaxMishaps
  /\ met' = met \cup mishaps
GotoSv(d, s) == sv' = [sv EXCEPT ![d] = s]

\* cleanup(): whoever they belong to by now.
Cleanup == info' = None /\ node' = None

\* Mutant: a stale socket is left in place.
Start_keepsSocket(d) ==
  /\ sv[d] = "off"
  /\ Meets({m \in {"overlap"} : \E e \in Server : Present(e)})
  /\ GotoSv(d, "cleared")
  /\ UNCHANGED <<node, info, kills, busy, netVars, leaseVars>>

\* startDaemon clears a stale socket ...
Start(d) ==
  /\ sv[d] = "off"
  /\ Meets({m \in {"overlap"} : \E e \in Server : Present(e)})
  /\ node' = None
  /\ GotoSv(d, "cleared")
  /\ UNCHANGED <<info, kills, busy, netVars, leaseVars>>

\* ... and listens, ...
Bind(d) ==
  /\ sv[d] = "cleared" /\ node = None
  /\ node' = d
  /\ GotoSv(d, "bound")
  /\ UNCHANGED <<info, kills, met, busy, netVars, leaseVars>>

\* ... unless another one took the path meanwhile: the error is logged, nothing
\* keeps the process alive, and it cleans up on its exit.
BindFails(d) ==
  /\ sv[d] = "cleared" /\ node # None
  /\ Cleanup
  /\ GotoSv(d, "gone")
  /\ UNCHANGED <<kills, met, busy, netVars, leaseVars>>

\* Mutant: an info file that exists is kept.
TruncateInfo_ifAbsent(d) ==
  /\ sv[d] = "bound"
  /\ GotoSv(d, IF info = None THEN "publish" ELSE "up")
  /\ UNCHANGED <<node, info, kills, met, busy, netVars, leaseVars>>

\* Once it listens it publishes its token; a file cut short holds none.
TruncateInfo(d) ==
  /\ sv[d] = "bound"
  /\ info' = None
  /\ GotoSv(d, "publish")
  /\ UNCHANGED <<node, kills, met, busy, netVars, leaseVars>>

WriteInfo(d) ==
  /\ sv[d] = "publish"
  /\ info' = d
  /\ GotoSv(d, "up")
  /\ UNCHANGED <<node, kills, met, busy, netVars, leaseVars>>

\* The write fails, before or after it has truncated the file: that is logged.
InfoFails(d) ==
  /\ sv[d] \in {"bound", "publish"}
  /\ Meets({"disk"})
  /\ GotoSv(d, "up")
  /\ UNCHANGED <<node, info, kills, busy, netVars, leaseVars>>

Forsaken(d) == sure' = IF sv[d] = "up" THEN {} ELSE sure

\* SIGINT or SIGTERM, handled between two lines.
Stop(d) ==
  /\ Serving(d) /\ busy[d] = None
  /\ Cleanup
  /\ Forsaken(d)
  /\ GotoSv(d, "gone")
  /\ UNCHANGED <<kills, met, busy, at, op, conn, tok, line, reply, outcome, leaseVars>>

\* close(): the path goes at once and with it what was not accepted, the rest
\* when the last connection has ended.  The process may live on.
CloseServer(d) ==
  /\ sv[d] = "up" /\ busy[d] = None
  /\ node' = None
  /\ Forsaken(d)
  /\ GotoSv(d, "closing")
  /\ \E lost \in SUBSET {c \in Call : conn[c] = d /\ line[c] \in {"none", "queued"}} :
       line' = [c \in Call |-> IF c \in lost THEN "lost" ELSE line[c]]
  /\ UNCHANGED <<info, kills, met, busy, at, op, conn, tok, reply, outcome, leaseVars>>

Open(c) == (at[c] # "done" /\ line[c] # "lost") \/ line[c] \in {"queued", "decided"}

CloseDone(d) ==
  /\ sv[d] = "closing"
  /\ \A c \in Call : conn[c] = d => ~Open(c)
  /\ Cleanup
  /\ GotoSv(d, "closed")
  /\ UNCHANGED <<kills, met, busy, netVars, leaseVars>>

\* The exit and signal handlers stay registered after close().
Exit(d) ==
  /\ sv[d] = "closed"
  /\ Cleanup
  /\ GotoSv(d, "gone")
  /\ UNCHANGED <<kills, met, busy, netVars, leaseVars>>

\* Killed: nothing is cleaned up.
Kill(d) ==
  /\ Present(d) /\ kills < MaxKills
  /\ kills' = kills + 1
  /\ Forsaken(d)
  /\ GotoSv(d, "gone")
  /\ UNCHANGED <<node, info, met, busy, at, op, conn, tok, line, reply, outcome, leaseVars>>

-----------------------------------------------------------------------------
(* Callers: request().                                                     *)

GotoCall(c, s) == at' = [at EXCEPT ![c] = s]
GotoLine(c, s) == line' = [line EXCEPT ![c] = s]

\* Only the first outcome counts.
Finish(c, told) ==
  /\ GotoCall(c, "done")
  /\ outcome' = [outcome EXCEPT ![c] = told]

Connect(c) ==
  /\ at[c] = "new"
  /\ sure' = IF \E d \in Server : sv[d] = "up" THEN sure \cup {c} ELSE sure
  /\ IF node # None /\ Listening(node)
     THEN /\ GotoCall(c, "connected")
          /\ conn' = [conn EXCEPT ![c] = node]
          /\ \E o \in Asks[c] : op' = [op EXCEPT ![c] = o]
          /\ UNCHANGED outcome
     ELSE Finish(c, "daemon-unreachable") /\ UNCHANGED <<conn, op>>
  /\ UNCHANGED <<hostVars, busy, tok, line, reply, leaseVars>>

\* daemonToken(): what the info file says now.
Send(c) ==
  /\ at[c] = "connected" /\ line[c] = "none" /\ Running(conn[c])
  /\ tok' = [tok EXCEPT ![c] = info]
  /\ GotoCall(c, "sent")
  /\ GotoLine(c, "queued")
  /\ UNCHANGED <<hostVars, busy, op, conn, reply, outcome, sure, leaseVars>>

Answer(c) ==
  /\ at[c] = "sent" /\ line[c] = "handled"
  /\ Finish(c, reply[c])
  /\ UNCHANGED <<hostVars, busy, op, conn, tok, line, reply, sure, leaseVars>>

\* The connection broke: an error if the daemon had not read everything, a
\* close otherwise.
ConnLost(c) ==
  /\ at[c] \in {"connected", "sent"} /\ line[c] # "handled"
  /\ line[c] = "lost" \/ ~Running(conn[c])
  /\ \/ Finish(c, "daemon-closed")
     \/ line[c] \in {"none", "queued", "lost"} /\ Finish(c, "daemon-unreachable")
  /\ UNCHANGED <<hostVars, busy, op, conn, tok, line, reply, sure, leaseVars>>

\* Mutant: the timer is cleared by the connect event.
GiveUp_connecting(c) ==
  /\ at[c] = "connected"
  /\ Finish(c, "daemon-timeout")
  /\ UNCHANGED <<hostVars, busy, op, conn, tok, line, reply, sure, leaseVars>>

\* The timer of the call; the socket is destroyed, what was sent stays sent.
GiveUp(c) ==
  /\ at[c] \in {"connected", "sent"}
  /\ Finish(c, "daemon-timeout")
  /\ UNCHANGED <<hostVars, busy, op, conn, tok, line, reply, sure, leaseVars>>

-----------------------------------------------------------------------------
(* The daemon's handler: one line after the other.  A line is taken and     *)
(* decided on in one step: the daemon does nothing else meanwhile, and a   *)
(* caller that gives up while it waits for the lock is as good as one that *)
(* gave up while its line was queued.                                      *)

Pending(d, c) == conn[c] = d /\ Serving(d) /\ busy[d] = None /\ line[c] = "queued"
Reply(c, r) == reply' = [reply EXCEPT ![c] = r]

Unauthorized(d, c) ==
  /\ Pending(d, c) /\ tok[c] # d
  /\ Reply(c, "unauthorized")
  /\ GotoLine(c, "handled")
  /\ UNCHANGED <<hostVars, busy, at, op, conn, tok, outcome, sure, leaseVars>>

\* Mutant: the token is not looked at.
Authorized_any(d, c) == Pending(d, c)

Authorized(d, c) == Pending(d, c) /\ tok[c] = d

Handling(d, c, o) == Authorized(d, c) /\ op[c] = o

Decide(d, c, r) ==
  /\ Reply(c, r)
  /\ GotoLine(c, "decided")
  /\ busy' = [busy EXCEPT ![d] = c]
  /\ UNCHANGED <<hostVars, at, op, conn, tok, outcome, sure>>

\* The use is spent, then audited: if that cannot be written, redeem throws.
Redeem(d, c) ==
  /\ Handling(d, c, "redeem") /\ live /\ uses > 0
  /\ uses' = uses - 1
  /\ spent' = spent \cup {c}
  /\ \E r \in {"ok", "error"} : Decide(d, c, r)
  /\ UNCHANGED live

\* Mutant: the use is spent before the secret is found unreadable.
Deny_burns(d, c) ==
  /\ Handling(d, c, "redeem") /\ live /\ uses > 0
  /\ uses' = uses - 1
  /\ spent' = spent \cup {c}
  /\ Decide(d, c, "denied")
  /\ UNCHANGED live

\* Exhausted, revoked, out of its host, expired, the lock stuck or the secret
\* not readable.  An audit that cannot be written turns this into "error" too,
\* which is not told apart.
Deny(d, c) ==
  /\ Handling(d, c, "redeem")
  /\ Decide(d, c, "denied")
  /\ UNCHANGED leaseVars

\* checkLease, a read without the lock.
Check(d, c) ==
  /\ Handling(d, c, "check")
  /\ Decide(d, c, IF live /\ uses > 0 THEN "valid" ELSE "denied")
  /\ UNCHANGED leaseVars

\* false when the lease is unknown or the lock is stuck.
Revoke(d, c) ==
  /\ Handling(d, c, "revoke")
  /\ \/ live /\ live' = FALSE /\ Decide(d, c, "revoked")
     \/ Decide(d, c, "denied") /\ UNCHANGED live
  /\ UNCHANGED <<uses, spent>>

WriteReply(d, c) ==
  /\ Serving(d) /\ busy[d] = c /\ line[c] = "decided"
  /\ GotoLine(c, "handled")
  /\ busy' = [busy EXCEPT ![d] = None]
  /\ UNCHANGED <<hostVars, at, op, conn, tok, reply, outcome, sure, leaseVars>>

\* setTimeout(30000): a connection on which nothing was sent.
IdleDrop(d, c) ==
  /\ conn[c] = d /\ Serving(d) /\ busy[d] = None
  /\ at[c] = "connected" /\ line[c] = "none"
  /\ GotoLine(c, "lost")
  /\ sure' = sure \ {c}
  /\ UNCHANGED <<hostVars, busy, at, op, conn, tok, reply, outcome, leaseVars>>

Handle(d, c) ==
  \/ Unauthorized(d, c) \/ Redeem(d, c) \/ Deny(d, c) \/ Check(d, c) \/ Revoke(d, c) \/ WriteReply(d, c)

DaemonNext ==
  \/ \E d \in Server :
       \/ Start(d) \/ Bind(d) \/ BindFails(d) \/ TruncateInfo(d) \/ WriteInfo(d) \/ InfoFails(d)
       \/ Stop(d) \/ CloseServer(d) \/ CloseDone(d) \/ Exit(d) \/ Kill(d)
       \/ \E c \in Call : Handle(d, c) \/ IdleDrop(d, c)
  \/ \E c \in Call : Connect(c) \/ Send(c) \/ Answer(c) \/ ConnLost(c) \/ GiveUp(c)

\* A caller's own timer fires.  Daemons owe nothing: they may hang for ever.
DaemonFairness == \A c \in Call : WF_daemonVars(GiveUp(c))

DaemonSpec == DaemonInit /\ [][DaemonNext]_daemonVars /\ DaemonFairness

-----------------------------------------------------------------------------
(* Properties.                                                             *)

(* Every use gone from the lease was spent for a call that asked to redeem *)
(* with the daemon's token, and a caller who is told it was refused, or    *)
(* that no daemon was reached, has spent nothing: of that it may be sure,  *)
(* of an error, a timeout and a connection closed on it it may not.        *)
NoSilentSpend ==
  /\ uses + Cardinality(spent) = Granted
  /\ \A c \in spent :
       /\ op[c] = "redeem" /\ tok[c] = conn[c]
       /\ outcome[c] \in {None, "ok", "error", "daemon-timeout", "daemon-closed"}

(* A call begun with a daemon up that stays up reaches it and is           *)
(* recognised, whatever kills and restarts went before ("zero config",     *)
(* README.md:129).  Without an overlap of daemons, a closed one included    *)
(* whose process lives on, or a failing disk.                              *)
SureCallsServed ==
  met = {} => \A c \in sure :
    outcome[c] \notin {"unauthorized", "daemon-unreachable", "daemon-closed"}

(* A socket left behind by a killed daemon does not keep the next one from *)
(* the path, unless another process of a daemon is still there.            *)
RestartBinds == [][\A d \in Server : met = {} => ~BindFails(d)]_daemonVars

(* A connected caller gets an outcome from its own timer alone, whatever   *)
(* the daemon does or leaves undone.                                       *)
EveryCallAnswered == \A c \in Call : at[c] = "connected" ~> at[c] = "done"
=============================================================================
