------------------------------- MODULE Broker -------------------------------
(***************************************************************************)
(* The egress broker (src/broker.mjs): requests through leases that are    *)
(* capped in rate, concurrency and uses, in the process of the MCP server  *)
(* (mcp/server.mjs), whose tools grant and revoke those leases.            *)
(*                                                                         *)
(* Node runs the handler of a request without interruption up to each      *)
(* await, so requests and tools interleave at the awaits only: readBody,   *)
(* fetch, the relayed stream.  Other processes use or revoke the lease at  *)
(* any time the lease lock is free, so the stretch from readBody to fetch  *)
(* is two actions: redeem, whose lock is given up at its end, and the      *)
(* hand-off to fetch after the audit.  peekLease and redeem are            *)
(* LeaseStore's evalLease and redeemLease, here on a count of uses and a   *)
(* flag.  Header rewriting, injection and redaction are left out; whether  *)
(* a request is within the lease's paths and host is a choice.             *)
(***************************************************************************)
EXTENDS Integers, FiniteSets

CONSTANTS
  Req,          \* requests
  Lease,        \* leases bound to an upstream
  Granted,      \* [Lease -> the uses it was granted]
  Rate,         \* [Lease -> requests per Window, 0 = no cap]
  Concurrency,  \* [Lease -> requests in flight, 0 = no cap]
  Window,       \* the sliding window (60 s)
  Horizon,      \* bound on the clock
  MaxRestarts   \* bound on the restarts of the broker

Never == -1

ASSUME BrokerAssumption ==
  /\ IsFiniteSet(Req)
  /\ {Granted, Rate, Concurrency} \subseteq [Lease -> Nat]
  /\ Window \in Nat \ {0} /\ Horizon \in Nat /\ MaxRestarts \in Nat

VARIABLES
  now,       \* Date.now()
  uses,      \* usesLeft of each lease
  life,      \* each lease is to be granted, live, revoked by this process's tool,
             \* or dead: revoked elsewhere or expired
  windows,   \* the admissions the rate limiter remembers: what entered when
  inflight,  \* the counters of the concurrency cap
  at,        \* how far each request is
  lease,     \* the lease it came through
  answer,    \* the status it was answered, 0 = none yet
  \* history:
  admitted,  \* when it passed the limits, or Never
  sent,      \* the requests handed to fetch
  late,      \* those of them whose lease was no longer live by then
  others,    \* uses redeemed by other processes
  lost,      \* uses redeemed for a request that was never handed to fetch
  restarts

brokerVars == <<now, uses, life, windows, inflight, at, lease, answer, admitted,
                sent, late, others, lost, restarts>>
exitVars == <<late, lost, restarts>>

Stage == {"new", "body", "redeemed", "fetch", "stream", "ended", "closed"}

BrokerInit ==
  /\ now = 0
  /\ uses = Granted
  /\ life = [l \in Lease |-> "ungranted"]
  /\ windows = [l \in Lease |-> {}]
  /\ inflight = [l \in Lease |-> 0]
  /\ at = [r \in Req |-> "new"]
  /\ lease \in [Req -> Lease]
  /\ answer = [r \in Req |-> 0]
  /\ admitted = [r \in Req |-> Never]
  /\ sent = {} /\ late = {}
  /\ others = [l \in Lease |-> 0] /\ lost = [l \in Lease |-> 0]
  /\ restarts = 0

-----------------------------------------------------------------------------
(* The limits.                                                             *)

Spendable(l) == life[l] = "live" /\ uses[l] > 0

\* withinRate: what the window still remembers, and whether there is room.  The
\* order of the code's array of timestamps plays no part, and no request enters
\* it twice.
InWindow(l) == {e \in windows[l] : now - e.time < Window}

\* Mutant: off by one, <= for <.
withinRate_oneMore(l) == Rate[l] = 0 \/ Cardinality(InWindow(l)) <= Rate[l]

withinRate(l) == Rate[l] = 0 \/ Cardinality(InWindow(l)) < Rate[l]
Entered(r) == IF withinRate(lease[r]) THEN {[of |-> r, time |-> now]} ELSE {}
Remember(r) ==
  windows' = IF Rate[lease[r]] = 0 THEN windows
             ELSE [windows EXCEPT ![lease[r]] = InWindow(lease[r]) \cup Entered(r)]

SlotFree(l) == Concurrency[l] = 0 \/ inflight[l] < Concurrency[l]

\* The counter is set or deleted; a missing entry reads as 0 (1 on release).
ReleaseSlot(l) ==
  inflight' = [inflight EXCEPT ![l] = (IF @ = 0 THEN 1 ELSE @) - 1]

-----------------------------------------------------------------------------
(* A request arrives.                                                      *)

Goto(r, s) == at' = [at EXCEPT ![r] = s]
End(r, status) ==
  /\ Goto(r, "ended")
  /\ answer' = [answer EXCEPT ![r] = status]

\* A refusal is audited before it is answered.  If that cannot be written the
\* answer is 502 for 403 or 429, which is not told apart: nothing was spent.

\* The lease is not spendable, or the request is outside its host or paths.
Refuse(r) ==
  /\ at[r] = "new"
  /\ End(r, 403)
  /\ UNCHANGED <<now, uses, life, windows, inflight, lease, admitted, sent, others, exitVars>>

RateLimited(r) ==
  /\ at[r] = "new" /\ Spendable(lease[r])
  /\ ~withinRate(lease[r])
  /\ Remember(r)
  /\ End(r, 429)
  /\ UNCHANGED <<now, uses, life, inflight, lease, admitted, sent, others, exitVars>>

\* Refused for concurrency, the request has already taken a place in the window.
ConcurrencyLimited(r) ==
  /\ at[r] = "new" /\ Spendable(lease[r])
  /\ withinRate(lease[r]) /\ ~SlotFree(lease[r])
  /\ Remember(r)
  /\ End(r, 429)
  /\ UNCHANGED <<now, uses, life, inflight, lease, admitted, sent, others, exitVars>>

Admit(r) ==
  /\ at[r] = "new" /\ Spendable(lease[r])
  /\ withinRate(lease[r]) /\ SlotFree(lease[r])
  /\ Remember(r)
  /\ inflight' = [inflight EXCEPT ![lease[r]] = @ + 1]
  /\ Goto(r, "body")
  /\ admitted' = [admitted EXCEPT ![r] = now]
  /\ UNCHANGED <<now, uses, life, lease, answer, sent, others, exitVars>>

(* After readBody, up to fetch.                                            *)

\* Mutant: there is an await between redeem and fetch.
Yielded_always == TRUE

\* The event loop has the turn.  From redeem to the call of fetch the handler
\* awaits nothing: no other request and no tool of this process runs.
Yielded == \A r \in Req : at[r] # "redeemed"

\* Mutant: the peek before the await is trusted after it.
RedeemUse_peeked(r) ==
  /\ at[r] = "body"
  /\ uses' = [uses EXCEPT ![lease[r]] = @ - 1]
  /\ Goto(r, "redeemed")
  /\ UNCHANGED <<now, life, windows, inflight, lease, answer, admitted, sent, others, exitVars>>

\* redeem spends the use and gives the lease lock up.
RedeemUse(r) ==
  /\ at[r] = "body" /\ Spendable(lease[r])
  /\ uses' = [uses EXCEPT ![lease[r]] = @ - 1]
  /\ Goto(r, "redeemed")
  /\ UNCHANGED <<now, life, windows, inflight, lease, answer, admitted, sent, others, exitVars>>

\* The redeem is audited, the secret injected, and the request is fetch's.
Send(r) ==
  /\ at[r] = "redeemed"
  /\ sent' = sent \cup {r}
  /\ late' = IF life[lease[r]] = "live" THEN late ELSE late \cup {r}
  /\ Goto(r, "fetch")
  /\ UNCHANGED <<now, uses, life, windows, inflight, lease, answer, admitted, others, lost, restarts>>

\* The audit of the redeem cannot be written: nothing leaves, the use is gone.
AuditFails(r) ==
  /\ at[r] = "redeemed"
  /\ lost' = [lost EXCEPT ![lease[r]] = @ + 1]
  /\ End(r, 502)
  /\ UNCHANGED <<now, uses, life, windows, inflight, lease, admitted, sent, late, others, restarts>>

\* Mutant: the use is spent before the decrypt fails.
RedeemDenied_burns(r) ==
  /\ at[r] = "body" /\ Spendable(lease[r])
  /\ uses' = [uses EXCEPT ![lease[r]] = @ - 1]
  /\ End(r, 403)
  /\ UNCHANGED <<now, life, windows, inflight, lease, admitted, sent, others, exitVars>>

\* It lost a race for the last use, the lease lock is stuck, or the secret
\* does not decrypt.
RedeemDenied(r) ==
  /\ at[r] = "body"
  /\ End(r, 403)
  /\ UNCHANGED <<now, uses, life, windows, inflight, lease, admitted, sent, others, exitVars>>

-----------------------------------------------------------------------------
(* After fetch.                                                            *)

Headers(r) ==
  /\ at[r] = "fetch"
  /\ Goto(r, "stream")
  /\ answer' = [answer EXCEPT ![r] = 200]
  /\ UNCHANGED <<now, uses, life, windows, inflight, lease, admitted, sent, others, exitVars>>

FetchFails(r) ==
  /\ at[r] = "fetch"
  /\ End(r, 502)
  /\ UNCHANGED <<now, uses, life, windows, inflight, lease, admitted, sent, others, exitVars>>

\* Mutant: no timer.
Timeout_never(r) == at[r] = "fetch" /\ FALSE

Timeout(r) ==
  /\ at[r] = "fetch"
  /\ End(r, 504)
  /\ UNCHANGED <<now, uses, life, windows, inflight, lease, admitted, sent, others, exitVars>>

\* The response body is through.
Relayed(r) ==
  /\ at[r] = "stream"
  /\ Goto(r, "ended")
  /\ UNCHANGED <<now, uses, life, windows, inflight, lease, answer, admitted, sent, others, exitVars>>

\* Mutants: every response gives a slot back; only a finished one does.
Close_any(r) ==
  /\ at[r] \notin {"new", "closed"}
  /\ Goto(r, "closed")
  /\ ReleaseSlot(lease[r])
  /\ UNCHANGED <<now, uses, life, windows, lease, answer, admitted, sent, others, exitVars>>
Close_finished(r) ==
  /\ at[r] \notin {"new", "closed"}
  /\ Goto(r, "closed")
  /\ IF admitted[r] # Never /\ at[r] = "ended" THEN ReleaseSlot(lease[r])
     ELSE UNCHANGED inflight
  /\ UNCHANGED <<now, uses, life, windows, lease, answer, admitted, sent, others, exitVars>>

\* The 'close' of a response: after its end, because the client went away, or
\* because an upstream error destroyed it.  Only an admitted request listens.
Close(r) ==
  /\ at[r] \notin {"new", "closed"}
  /\ Goto(r, "closed")
  /\ IF admitted[r] = Never THEN UNCHANGED inflight ELSE ReleaseSlot(lease[r])
  /\ UNCHANGED <<now, uses, life, windows, lease, answer, admitted, sent, others, exitVars>>

-----------------------------------------------------------------------------
(* Tools of the MCP server, run between two awaits of the requests.        *)

\* The base URL it answers with names the lease: requests can come from now on.
grant_lease(l) ==
  /\ life[l] = "ungranted"
  /\ life' = [life EXCEPT ![l] = "live"]
  /\ UNCHANGED <<now, uses, windows, inflight, at, lease, answer, admitted, sent, others, exitVars>>

\* The raw id, or the last segment of the URL.
Dies(l, as) ==
  /\ life[l] = "live"
  /\ life' = [life EXCEPT ![l] = as]
  /\ UNCHANGED <<now, uses, windows, inflight, at, lease, answer, admitted, sent, others, exitVars>>

revoke_lease(l) == Dies(l, "revoked")

-----------------------------------------------------------------------------
(* The environment.                                                        *)

OtherRedeem(l) ==
  /\ Spendable(l)
  /\ uses' = [uses EXCEPT ![l] = @ - 1]
  /\ others' = [others EXCEPT ![l] = @ + 1]
  /\ UNCHANGED <<now, life, windows, inflight, at, lease, answer, admitted, sent, exitVars>>

RevokeOrExpire(l) == Dies(l, "dead")

BrokerTick ==
  /\ now < Horizon
  /\ now' = now + 1
  /\ UNCHANGED <<uses, life, windows, inflight, at, lease, answer, admitted, sent, others, exitVars>>

\* Killed or stopped: what it knew of windows and slots goes, open requests
\* break, leases stay.  A use spent for a request that had not left is lost.
Restart ==
  /\ restarts < MaxRestarts
  /\ restarts' = restarts + 1
  /\ windows' = [l \in Lease |-> {}]
  /\ inflight' = [l \in Lease |-> 0]
  /\ at' = [r \in Req |-> IF at[r] = "new" THEN "new" ELSE "closed"]
  /\ admitted' = [r \in Req |-> Never]
  /\ lost' = [l \in Lease |->
                lost[l] + Cardinality({r \in Req : lease[r] = l /\ at[r] = "redeemed"})]
  /\ UNCHANGED <<now, uses, life, lease, answer, sent, late, others>>

Arrive(r) == Refuse(r) \/ RateLimited(r) \/ ConcurrencyLimited(r) \/ Admit(r)
Redeem(r) == RedeemUse(r) \/ RedeemDenied(r)
Depart(r) == Send(r) \/ AuditFails(r)

BrokerNext ==
  \/ \E r \in Req : Depart(r)
  \/ /\ Yielded
     /\ \/ \E r \in Req : Arrive(r) \/ Redeem(r) \/ Headers(r) \/ FetchFails(r) \/ Timeout(r)
                           \/ Relayed(r) \/ Close(r)
        \/ \E l \in Lease : grant_lease(l) \/ revoke_lease(l)
  \/ \E l \in Lease : OtherRedeem(l) \/ RevokeOrExpire(l)
  \/ BrokerTick \/ Restart

\* The handler runs on, bodies arrive or Node gives up on them, the timer of a
\* fetch fires, and the short answers of the broker itself get out.  An upstream
\* owes nothing, and nothing bounds a response once its headers are in.
BrokerFairness ==
  \A r \in Req :
    /\ WF_brokerVars(Depart(r))
    /\ WF_brokerVars(Yielded /\ Redeem(r))
    /\ WF_brokerVars(Yielded /\ Timeout(r))
    /\ WF_brokerVars(Yielded /\ at[r] = "ended" /\ answer[r] # 200 /\ Close(r))

BrokerSpec == BrokerInit /\ [][BrokerNext]_brokerVars /\ BrokerFairness

-----------------------------------------------------------------------------
(* Properties.                                                             *)

InFlight(l) == {r \in Req : lease[r] = l /\ at[r] \in {"body", "redeemed", "fetch", "stream"}}

\* "Cap simultaneous in-flight requests": whatever the order in which requests
\* end, fail, time out or lose their client, the requests being served through
\* a lease never exceed its cap, and the counter never drifts below them.
CapHeld ==
  \A l \in Lease :
    /\ Concurrency[l] # 0 => Cardinality(InFlight(l)) <= Concurrency[l]
    /\ Cardinality(InFlight(l)) <= inflight[l]

\* No request leaves a slot taken for good: once nothing of a lease is open its
\* counter is back at zero.
NoSlotLeak ==
  \A l \in Lease :
    (\A r \in Req : lease[r] = l => at[r] \in {"new", "closed"}) => inflight[l] = 0

AdmittedBy(l, t) ==
  {r \in Req : lease[r] = l /\ admitted[r] # Never /\ admitted[r] \in t - Window + 1 .. t}

\* In no window of time does one run of the broker admit more requests through
\* a lease than its rate; a restart forgets the window.
AdmissionsWithinRate ==
  \A l \in Lease : Rate[l] # 0 =>
    \A t \in 0 .. now : Cardinality(AdmittedBy(l, t)) <= Rate[l]

Unsent(l) == {r \in Req : lease[r] = l /\ r \notin sent}

\* A request that was answered 403 or 429 consumed no use, and every use that
\* is gone went to another process or to a request of this broker: one that was
\* handed to fetch, is about to be, or had its use lost - at an end of the broker,
\* which loses one at most, or for an answer 502.
UsesAccountedFor ==
  /\ \A r \in Req : answer[r] \in {403, 429} => r \notin sent
  /\ \A l \in Lease :
       /\ uses[l] + others[l] + lost[l]
            + Cardinality({r \in Req : lease[r] = l /\ (r \in sent \/ at[r] = "redeemed")})
          = Granted[l]
       /\ lost[l] <= restarts + Cardinality({r \in Unsent(l) : answer[r] = 502})

\* "The capability dies at once" (revoke_lease): once the tool of this process
\* has revoked a lease nothing leaves through it any more, not even a request
\* that was let in before and whose body was awaited; and after a revocation
\* elsewhere, or the expiry, at most the one request that had redeemed by then.
RevokeCutsOff ==
  \A r \in late :
    /\ life[lease[r]] # "revoked"
    /\ \A q \in late : lease[q] = lease[r] => q = r

\* An upstream that never answers takes no slot for good: every admitted request
\* gives its slot back, unless an upstream answered it.
SlotsReturn == \A r \in Req : at[r] = "body" ~> (at[r] = "closed" \/ answer[r] = 200)
=============================================================================
