----------------------------- MODULE BrokerProofs -----------------------------
(* The concurrency and rate caps of the broker and its count of uses, for   *)
(* any number of requests, leases and restarts and any caps.                *)
EXTENDS Broker, FiniteSetTheorems, TLAPS

\* The requests that hold a slot of a lease: admitted and not closed.
Held(l) == {r \in Req : lease[r] = l /\ admitted[r] # Never /\ at[r] # "closed"}

(* What the cap needs to be inductive: the counter is exact.  It is the     *)
(* number of requests whose close event is still to come, which are more    *)
(* than the ones being served: an answered one counts until it is closed.   *)
CounterExact == \A l \in Lease : inflight[l] = Cardinality(Held(l))

CounterCapped == \A l \in Lease : Concurrency[l] # 0 => inflight[l] <= Concurrency[l]

SlotTypes ==
  /\ now \in Nat
  /\ inflight \in [Lease -> Nat]
  /\ at \in [Req -> Stage]
  /\ lease \in [Req -> Lease]
  /\ admitted \in [Req -> Nat \cup {Never}]
  /\ \A r \in Req : at[r] = "new" => admitted[r] = Never
  /\ \A r \in Req : at[r] \in {"body", "redeemed", "fetch", "stream"} => admitted[r] # Never

SlotInv == SlotTypes /\ CounterExact /\ CounterCapped

-----------------------------------------------------------------------------

LEMMA HeldFinite == \A l \in Lease : IsFiniteSet(Held(l))
BY BrokerAssumption, FS_Subset DEF Held

LEMMA InitSlots == BrokerInit => SlotInv
<1> SUFFICES ASSUME BrokerInit
             PROVE  SlotInv
    OBVIOUS
<1>1. SlotTypes
  BY DEF BrokerInit, SlotTypes, Stage, Never
<1>2. \A l \in Lease : Held(l) = {}
  BY DEF BrokerInit, Held
<1>3. CounterExact
  BY <1>2, FS_EmptySet DEF BrokerInit, CounterExact
<1>4. CounterCapped
  BY BrokerAssumption DEF BrokerInit, CounterCapped
<1> QED BY <1>1, <1>3, <1>4 DEF SlotInv

\* Steps that neither take nor return a slot: no request becomes or ceases to be
\* admitted and open.
LEMMA SameSlots ==
  ASSUME SlotInv, SlotTypes', UNCHANGED <<inflight, lease>>,
         \A r \in Req : (admitted[r] # Never /\ at[r] # "closed")
                          <=> (admitted'[r] # Never /\ at'[r] # "closed")
  PROVE  SlotInv'
<1>1. \A l \in Lease : Held(l)' = Held(l)
  BY DEF Held
<1>2. CounterExact' /\ CounterCapped'
  BY <1>1 DEF SlotInv, CounterExact, CounterCapped
<1> QED BY <1>2 DEF SlotInv

\* All actions but those that move the counter.
Quiet ==
  \/ \E r \in Req : \/ Refuse(r) \/ RateLimited(r) \/ ConcurrencyLimited(r)
                    \/ Redeem(r) \/ Depart(r) \/ Headers(r) \/ FetchFails(r) \/ Timeout(r)
                    \/ Relayed(r)
  \/ \E l \in Lease : grant_lease(l) \/ revoke_lease(l) \/ OtherRedeem(l) \/ RevokeOrExpire(l)
  \/ BrokerTick
  \/ UNCHANGED brokerVars

LEMMA QuietSlots == SlotInv /\ Quiet => SlotInv'
<1> SUFFICES ASSUME SlotInv, Quiet
             PROVE  SlotInv'
    OBVIOUS
<1> USE DEF SlotInv, SlotTypes, Stage
<1>1. ASSUME NEW r \in Req,
             \/ Refuse(r) \/ RateLimited(r) \/ ConcurrencyLimited(r)
             \/ Redeem(r) \/ Depart(r) \/ Headers(r) \/ FetchFails(r) \/ Timeout(r) \/ Relayed(r)
      PROVE  SlotInv'
  <2>1. /\ UNCHANGED <<now, inflight, lease, admitted>>
        /\ \/ at[r] = "new" /\ at' = [at EXCEPT ![r] = "ended"]
           \/ /\ at[r] \in {"body", "redeemed", "fetch", "stream"}
              /\ \E s \in {"redeemed", "fetch", "stream", "ended"} : at' = [at EXCEPT ![r] = s]
    <3>1. CASE Refuse(r) \/ RateLimited(r) \/ ConcurrencyLimited(r)
      BY <3>1 DEF Refuse, RateLimited, ConcurrencyLimited, End, Goto
    <3>2. CASE Redeem(r) \/ Depart(r)
      BY <3>2 DEF Redeem, RedeemUse, RedeemDenied, Depart, Send, AuditFails, End, Goto
    <3>3. CASE Headers(r) \/ FetchFails(r) \/ Timeout(r) \/ Relayed(r)
      BY <3>3 DEF Headers, FetchFails, Timeout, Relayed, End, Goto
    <3> QED BY <1>1, <3>1, <3>2, <3>3
  <2>2. SlotTypes'
    BY <2>1
  <2>3. \A q \in Req : (admitted[q] # Never /\ at[q] # "closed")
                         <=> (admitted'[q] # Never /\ at'[q] # "closed")
    BY <2>1
  <2> QED BY <2>1, <2>2, <2>3, SameSlots
<1>2. ASSUME NEW l \in Lease,
             grant_lease(l) \/ revoke_lease(l) \/ OtherRedeem(l) \/ RevokeOrExpire(l)
      PROVE  SlotInv'
  <2>1. UNCHANGED <<now, inflight, at, lease, admitted>>
    BY <1>2 DEF grant_lease, revoke_lease, OtherRedeem, RevokeOrExpire, Dies
  <2> QED BY <2>1, SameSlots
<1>3. CASE BrokerTick
  BY <1>3, SameSlots DEF BrokerTick
<1>4. CASE UNCHANGED brokerVars
  BY <1>4, SameSlots DEF brokerVars
<1> QED BY <1>1, <1>2, <1>3, <1>4 DEF Quiet

\* An admission takes the slot it has found free.
LEMMA AdmitSlots ==
  ASSUME SlotInv, NEW r \in Req, Admit(r)
  PROVE  SlotInv'
<1> USE DEF SlotInv, SlotTypes, Stage
<1>1. /\ at[r] = "new" /\ at' = [at EXCEPT ![r] = "body"]
      /\ admitted' = [admitted EXCEPT ![r] = now]
      /\ inflight' = [inflight EXCEPT ![lease[r]] = @ + 1]
      /\ lease' = lease /\ now' = now /\ SlotFree(lease[r])
  BY DEF Admit, Goto
<1>2. now # Never
  BY DEF Never
<1>3. SlotTypes'
  BY <1>1, <1>2
<1>4. ASSUME NEW l \in Lease
      PROVE  inflight'[l] = Cardinality(Held(l)')
  <2>1. r \notin Held(l) /\ Held(l)' = IF lease[r] = l THEN Held(l) \cup {r} ELSE Held(l)
    BY <1>1, <1>2 DEF Held
  <2>2. Cardinality(Held(l) \cup {r}) = Cardinality(Held(l)) + 1
    BY <2>1, HeldFinite, FS_AddElement
  <2> QED BY <1>1, <2>1, <2>2 DEF CounterExact
<1>5. ASSUME NEW l \in Lease, Concurrency[l] # 0
      PROVE  inflight'[l] <= Concurrency[l]
  <2>1. inflight[l] \in Nat /\ Concurrency[l] \in Nat /\ inflight[l] <= Concurrency[l]
    BY <1>5, BrokerAssumption DEF CounterCapped
  <2>2. l = lease[r] => inflight[l] < Concurrency[l]
    BY <1>1, <1>5 DEF SlotFree
  <2> QED BY <1>1, <2>1, <2>2
<1> QED BY <1>3, <1>4, <1>5 DEF CounterExact, CounterCapped

\* A close event returns the slot of a request that holds one.
LEMMA CloseSlots ==
  ASSUME SlotInv, NEW r \in Req, Close(r)
  PROVE  SlotInv'
<1> USE DEF SlotInv, SlotTypes, Stage
<1>1. /\ at[r] \notin {"new", "closed"} /\ at' = [at EXCEPT ![r] = "closed"]
      /\ UNCHANGED <<now, lease, admitted>>
  BY DEF Close, Goto
<1>2. SlotTypes'
  <2>1. inflight' \in [Lease -> Nat]
    BY DEF Close, ReleaseSlot
  <2> QED BY <1>1, <2>1
<1>3. CASE admitted[r] = Never
  <2>1. inflight' = inflight
    BY <1>3 DEF Close
  <2> QED BY <1>1, <1>2, <1>3, <2>1, SameSlots
<1>4. CASE admitted[r] # Never
  <2>1. r \in Held(lease[r]) /\ inflight[lease[r]] # 0
    <3>1. lease[r] \in Lease /\ r \in Held(lease[r])
      BY <1>1, <1>4 DEF Held
    <3>2. Cardinality(Held(lease[r])) # 0
      BY <3>1, HeldFinite, FS_EmptySet
    <3> QED BY <3>1, <3>2 DEF CounterExact
  <2>2. inflight' = [inflight EXCEPT ![lease[r]] = @ - 1]
    BY <1>4, <2>1 DEF Close, ReleaseSlot
  <2>3. ASSUME NEW l \in Lease
        PROVE  inflight'[l] = Cardinality(Held(l)')
    <3>1. Held(l)' = IF lease[r] = l THEN Held(l) \ {r} ELSE Held(l)
      BY <1>1 DEF Held
    <3>2. lease[r] = l => Cardinality(Held(l) \ {r}) = Cardinality(Held(l)) - 1
      BY <2>1, HeldFinite, FS_RemoveElement
    <3> QED BY <2>2, <3>1, <3>2 DEF CounterExact
  <2>4. CounterCapped'
    <3>1. ASSUME NEW l \in Lease, Concurrency[l] # 0
          PROVE  inflight'[l] <= Concurrency[l]
      <4>1. inflight[l] \in Nat /\ Concurrency[l] \in Nat /\ inflight[l] <= Concurrency[l]
        BY <3>1, BrokerAssumption DEF CounterCapped
      <4> QED BY <2>2, <4>1
    <3> QED BY <3>1 DEF CounterCapped
  <2> QED BY <1>2, <2>3, <2>4 DEF CounterExact
<1> QED BY <1>3, <1>4

\* A restart forgets the counter together with the requests it counts.
LEMMA RestartSlots == SlotInv /\ Restart => SlotInv'
<1> SUFFICES ASSUME SlotInv, Restart
             PROVE  SlotInv'
    OBVIOUS
<1>1. SlotTypes'
  BY DEF SlotInv, SlotTypes, Stage, Restart
<1>2. \A l \in Lease : Held(l)' = {}
  BY DEF Restart, Held
<1>3. CounterExact'
  BY <1>2, FS_EmptySet DEF Restart, CounterExact
<1>4. CounterCapped'
  BY BrokerAssumption DEF Restart, CounterCapped
<1> QED BY <1>1, <1>3, <1>4 DEF SlotInv

(* The counter of a lease is always the number of its requests that were   *)
(* admitted and whose close is still to come, and never above the cap.     *)
THEOREM SlotsCounted == BrokerSpec => []SlotInv
<1>1. SlotInv /\ [BrokerNext]_brokerVars => SlotInv'
  <2> SUFFICES ASSUME SlotInv, [BrokerNext]_brokerVars
               PROVE  SlotInv'
      OBVIOUS
  <2>1. \/ Quiet \/ Restart
        \/ \E r \in Req : Admit(r) \/ Close(r)
    BY DEF BrokerNext, Arrive, Quiet
  <2> QED BY <2>1, QuietSlots, RestartSlots, AdmitSlots, CloseSlots
<1> QED BY <1>1, InitSlots, PTL DEF BrokerSpec

(* The concurrency cap holds of the requests being served, in every order  *)
(* of ends, failures, timeouts and disconnects.                            *)
THEOREM ConcurrencyIsCapped == BrokerSpec => []CapHeld
<1>1. SlotInv => CapHeld
  <2> SUFFICES ASSUME SlotInv, NEW l \in Lease
               PROVE  /\ Concurrency[l] # 0 => Cardinality(InFlight(l)) <= Concurrency[l]
                      /\ Cardinality(InFlight(l)) <= inflight[l]
      BY DEF CapHeld
  <2>1. InFlight(l) \subseteq Held(l)
    BY DEF SlotInv, SlotTypes, InFlight, Held
  <2>2. /\ Cardinality(InFlight(l)) \in Nat /\ Cardinality(Held(l)) \in Nat
        /\ Cardinality(InFlight(l)) <= Cardinality(Held(l))
    BY <2>1, HeldFinite, FS_Subset, FS_CardinalityType
  <2>3. inflight[l] = Cardinality(Held(l)) /\ (Concurrency[l] # 0 => inflight[l] <= Concurrency[l])
    BY DEF SlotInv, CounterExact, CounterCapped
  <2>4. Concurrency[l] \in Nat
    BY BrokerAssumption
  <2> QED BY <2>2, <2>3, <2>4
<1> QED BY <1>1, SlotsCounted, PTL

(* With nothing of a lease open its counter is back at zero.               *)
THEOREM SlotsComeBack == BrokerSpec => []NoSlotLeak
<1>1. SlotInv => NoSlotLeak
  <2> SUFFICES ASSUME SlotInv, NEW l \in Lease,
                      \A r \in Req : lease[r] = l => at[r] \in {"new", "closed"}
               PROVE  inflight[l] = 0
      BY DEF NoSlotLeak
  <2>1. Held(l) = {}
    BY DEF SlotInv, SlotTypes, Held
  <2> QED BY <2>1, FS_EmptySet DEF SlotInv, CounterExact
<1> QED BY <1>1, SlotsCounted, PTL

-----------------------------------------------------------------------------
(* Where the uses went.                                                    *)

\* The requests of this broker that took a use and still count for it.
TakenBy(l) == {r \in Req : lease[r] = l /\ (r \in sent \/ at[r] = "redeemed")}

\* The requests whose use went with an audit that could not be written.
FailedBy(l) == {r \in Unsent(l) : answer[r] = 502}

\* What is left, what others took, what was lost and what was taken make the grant.
UsesBalance ==
  \A l \in Lease : uses[l] + others[l] + lost[l] + Cardinality(TakenBy(l)) = Granted[l]

\* The handler that has redeemed keeps the turn until it has called fetch.
OneRedeemed == \A q, r \in Req : at[q] = "redeemed" /\ at[r] = "redeemed" => q = r

LossesHaveCauses == \A l \in Lease : lost[l] <= restarts + Cardinality(FailedBy(l))

(* A request that is not past its hand-off has neither left nor been       *)
(* answered, and one that waits for the upstream has left: so the one that *)
(* leaves is counted once and was not refused, the one that is refused has *)
(* not left, and a 502 for a failed fetch is none for a failed audit.      *)
UnsentUnanswered ==
  /\ \A r \in Req : at[r] \in {"new", "body", "redeemed"} => r \notin sent /\ answer[r] = 0
  /\ \A r \in Req : at[r] \in {"fetch", "stream"} => r \in sent

RefusedUnsent == \A r \in Req : answer[r] \in {403, 429} => r \notin sent

UsesTypes ==
  /\ at \in [Req -> Stage] /\ lease \in [Req -> Lease]
  /\ answer \in [Req -> Nat]
  /\ sent \subseteq Req
  /\ uses \in [Lease -> Int] /\ others \in [Lease -> Nat] /\ lost \in [Lease -> Nat]
  /\ restarts \in Nat

UsesInv ==
  /\ UsesTypes /\ OneRedeemed /\ UnsentUnanswered /\ RefusedUnsent
  /\ UsesBalance /\ LossesHaveCauses

LEMMA BooksFinite ==
  \A l \in Lease : /\ IsFiniteSet(TakenBy(l)) /\ Cardinality(TakenBy(l)) \in Nat
                  /\ IsFiniteSet(FailedBy(l)) /\ Cardinality(FailedBy(l)) \in Nat
BY BrokerAssumption, FS_Subset, FS_CardinalityType DEF TakenBy, FailedBy, Unsent

LEMMA InitUses == BrokerInit => UsesInv
<1> SUFFICES ASSUME BrokerInit
             PROVE  UsesInv
    OBVIOUS
<1>1. UsesTypes /\ OneRedeemed /\ UnsentUnanswered /\ RefusedUnsent
  BY BrokerAssumption
  DEF BrokerInit, UsesTypes, OneRedeemed, UnsentUnanswered, RefusedUnsent, Stage
<1>2. \A l \in Lease : TakenBy(l) = {}
  BY DEF BrokerInit, TakenBy
<1>3. ASSUME NEW l \in Lease
      PROVE  /\ uses[l] + others[l] + lost[l] + Cardinality(TakenBy(l)) = Granted[l]
             /\ lost[l] <= restarts + Cardinality(FailedBy(l))
  <2>1. uses[l] = Granted[l] /\ others[l] = 0 /\ lost[l] = 0 /\ restarts = 0 /\ Granted[l] \in Nat
    BY BrokerAssumption DEF BrokerInit
  <2>2. Cardinality(TakenBy(l)) = 0 /\ Cardinality(FailedBy(l)) \in Nat
    BY <1>2, FS_EmptySet, BooksFinite
  <2> QED BY <2>1, <2>2
<1> QED BY <1>1, <1>3 DEF UsesInv, UsesBalance, LossesHaveCauses

\* Steps that spend nothing and lose nothing.
LEMMA NoUseSpent ==
  ASSUME UsesInv, UNCHANGED <<uses, others, lost, restarts, lease, sent>>, UsesTypes',
         OneRedeemed', UnsentUnanswered', RefusedUnsent',
         \A r \in Req : at'[r] = "redeemed" <=> at[r] = "redeemed",
         \A r \in Req : r \notin sent => (answer'[r] = 502 <=> answer[r] = 502)
  PROVE  UsesInv'
<1>1. \A l \in Lease : TakenBy(l)' = TakenBy(l) /\ FailedBy(l)' = FailedBy(l)
  BY DEF TakenBy, FailedBy, Unsent
<1>2. UsesBalance' /\ LossesHaveCauses'
  BY <1>1 DEF UsesInv, UsesBalance, LossesHaveCauses
<1> QED BY <1>2 DEF UsesInv

\* A refusal answers a request that has not left.
LEMMA RefusalUses ==
  ASSUME UsesInv, NEW r \in Req,
         Refuse(r) \/ RateLimited(r) \/ ConcurrencyLimited(r) \/ RedeemDenied(r)
  PROVE  UsesInv'
<1> USE DEF UsesInv, UsesTypes, Stage
<1>1. /\ at[r] \in {"new", "body"} /\ at' = [at EXCEPT ![r] = "ended"]
      /\ \E status \in {403, 429} : answer' = [answer EXCEPT ![r] = status]
      /\ UNCHANGED <<uses, others, lost, restarts, lease, sent>>
  BY DEF Refuse, RateLimited, ConcurrencyLimited, RedeemDenied, End, Goto, exitVars
<1>2. UsesTypes' /\ OneRedeemed'
  BY <1>1 DEF OneRedeemed
<1>3. UnsentUnanswered' /\ RefusedUnsent'
  BY <1>1 DEF UnsentUnanswered, RefusedUnsent
<1>4. /\ \A q \in Req : at'[q] = "redeemed" <=> at[q] = "redeemed"
      /\ \A q \in Req : q \notin sent => (answer'[q] = 502 <=> answer[q] = 502)
  BY <1>1 DEF UnsentUnanswered
<1> QED BY <1>1, <1>2, <1>3, <1>4, NoUseSpent

\* An answer of the upstream is no refusal.
LEMMA AnswerUses ==
  ASSUME UsesInv, Yielded, NEW r \in Req,
         Headers(r) \/ FetchFails(r) \/ Timeout(r) \/ Relayed(r) \/ Close(r) \/ Admit(r)
  PROVE  UsesInv'
<1> USE DEF UsesInv, UsesTypes, Stage
<1>1. /\ at[r] # "redeemed"
      /\ \/ /\ at[r] = "fetch"
            /\ \E s \in {"stream", "ended"} : at' = [at EXCEPT ![r] = s]
            /\ \E status \in {200, 502, 504} : answer' = [answer EXCEPT ![r] = status]
         \/ /\ \E s \in {"ended", "closed"} : at' = [at EXCEPT ![r] = s]
            /\ answer' = answer
         \/ at[r] = "new" /\ at' = [at EXCEPT ![r] = "body"] /\ answer' = answer
      /\ UNCHANGED <<uses, others, lost, restarts, lease, sent>>
  <2>1. CASE Headers(r) \/ FetchFails(r) \/ Timeout(r)
    BY <2>1 DEF Headers, FetchFails, Timeout, End, Goto, exitVars
  <2>2. CASE Relayed(r) \/ Close(r) \/ Admit(r)
    BY <2>2 DEF Relayed, Close, Admit, Goto, exitVars, Yielded
  <2> QED BY <2>1, <2>2
<1>2. UsesTypes' /\ OneRedeemed'
  BY <1>1 DEF OneRedeemed
<1>3. UnsentUnanswered' /\ RefusedUnsent'
  BY <1>1 DEF UnsentUnanswered, RefusedUnsent
<1>4. /\ \A q \in Req : at'[q] = "redeemed" <=> at[q] = "redeemed"
      /\ \A q \in Req : q \notin sent => (answer'[q] = 502 <=> answer[q] = 502)
  BY <1>1 DEF UnsentUnanswered
<1> QED BY <1>1, <1>2, <1>3, <1>4, NoUseSpent

\* A redeem takes one use, for one request, which has the turn from then on.
LEMMA RedeemUses ==
  ASSUME UsesInv, Yielded, NEW r \in Req, RedeemUse(r)
  PROVE  UsesInv'
<1> USE DEF UsesInv, UsesTypes, Stage
<1>1. /\ at[r] = "body" /\ at' = [at EXCEPT ![r] = "redeemed"]
      /\ uses' = [uses EXCEPT ![lease[r]] = @ - 1]
      /\ UNCHANGED <<answer, others, lost, restarts, lease, sent>>
  BY DEF RedeemUse, Goto, exitVars
<1>2. UsesTypes' /\ UnsentUnanswered' /\ RefusedUnsent'
  BY <1>1 DEF UnsentUnanswered, RefusedUnsent
<1>3. OneRedeemed'
  BY <1>1 DEF Yielded, OneRedeemed
<1>4. ASSUME NEW l \in Lease
      PROVE  uses'[l] + others'[l] + lost'[l] + Cardinality(TakenBy(l)') = Granted[l]
  <2>1. r \notin TakenBy(l) /\ TakenBy(l)' = IF lease[r] = l THEN TakenBy(l) \cup {r} ELSE TakenBy(l)
    BY <1>1 DEF TakenBy, UnsentUnanswered
  <2>2. Cardinality(TakenBy(l) \cup {r}) = Cardinality(TakenBy(l)) + 1
    BY <2>1, BooksFinite, FS_AddElement
  <2>3. Cardinality(TakenBy(l)) \in Nat
        /\ uses[l] + others[l] + lost[l] + Cardinality(TakenBy(l)) = Granted[l]
    BY BooksFinite DEF UsesBalance
  <2>4. uses'[l] = (IF lease[r] = l THEN uses[l] - 1 ELSE uses[l])
        /\ others'[l] = others[l] /\ lost'[l] = lost[l]
    BY <1>1
  <2>5. uses[l] \in Int /\ others[l] \in Nat /\ lost[l] \in Nat
    OBVIOUS
  <2>6. CASE lease[r] = l
    BY <2>1, <2>2, <2>3, <2>4, <2>5, <2>6
  <2>7. CASE lease[r] # l
    BY <2>1, <2>3, <2>4, <2>5, <2>7
  <2> QED BY <2>6, <2>7
<1>5. LossesHaveCauses'
  <2>1. \A l \in Lease : FailedBy(l)' = FailedBy(l)
    BY <1>1 DEF FailedBy, Unsent
  <2> QED BY <1>1, <2>1 DEF LossesHaveCauses
<1> QED BY <1>2, <1>3, <1>4, <1>5 DEF UsesBalance

\* What was redeemed is sent: the same request counts for the same use.
LEMMA SendUses ==
  ASSUME UsesInv, NEW r \in Req, Send(r)
  PROVE  UsesInv'
<1> USE DEF UsesInv, UsesTypes, Stage
<1>1. /\ at[r] = "redeemed" /\ at' = [at EXCEPT ![r] = "fetch"]
      /\ sent' = sent \cup {r}
      /\ UNCHANGED <<uses, answer, others, lost, restarts, lease>>
  BY DEF Send, Goto
<1>2. r \notin sent /\ answer[r] = 0
  BY <1>1 DEF UnsentUnanswered
<1>3. UsesTypes' /\ OneRedeemed'
  BY <1>1 DEF OneRedeemed
<1>4. UnsentUnanswered' /\ RefusedUnsent'
  BY <1>1, <1>2 DEF UnsentUnanswered, RefusedUnsent
<1>5. \A l \in Lease : TakenBy(l)' = TakenBy(l) /\ FailedBy(l)' = FailedBy(l)
  BY <1>1, <1>2 DEF TakenBy, FailedBy, Unsent
<1>6. UsesBalance' /\ LossesHaveCauses'
  BY <1>1, <1>5 DEF UsesBalance, LossesHaveCauses
<1> QED BY <1>3, <1>4, <1>6

\* An audit that cannot be written loses the use and answers 502.
LEMMA AuditFailsUses ==
  ASSUME UsesInv, NEW r \in Req, AuditFails(r)
  PROVE  UsesInv'
<1> USE DEF UsesInv, UsesTypes, Stage
<1>1. /\ at[r] = "redeemed" /\ at' = [at EXCEPT ![r] = "ended"]
      /\ answer' = [answer EXCEPT ![r] = 502]
      /\ lost' = [lost EXCEPT ![lease[r]] = @ + 1]
      /\ UNCHANGED <<uses, others, restarts, lease, sent>>
  BY DEF AuditFails, End, Goto
<1>2. r \notin sent /\ answer[r] = 0
  BY <1>1 DEF UnsentUnanswered
<1>3. UsesTypes' /\ OneRedeemed'
  BY <1>1 DEF OneRedeemed
<1>4. UnsentUnanswered' /\ RefusedUnsent'
  BY <1>1, <1>2 DEF UnsentUnanswered, RefusedUnsent
<1>5. ASSUME NEW l \in Lease
      PROVE  /\ uses'[l] + others'[l] + lost'[l] + Cardinality(TakenBy(l)') = Granted[l]
             /\ lost'[l] <= restarts' + Cardinality(FailedBy(l)')
  <2>1. /\ Cardinality(TakenBy(l)) \in Nat /\ Cardinality(FailedBy(l)) \in Nat
        /\ uses[l] + others[l] + lost[l] + Cardinality(TakenBy(l)) = Granted[l]
        /\ lost[l] <= restarts + Cardinality(FailedBy(l))
    BY BooksFinite DEF UsesBalance, LossesHaveCauses
  <2>2. uses[l] \in Int /\ others[l] \in Nat /\ lost[l] \in Nat /\ restarts \in Nat
    OBVIOUS
  <2>3. CASE lease[r] = l
    <3>1. r \in TakenBy(l) /\ TakenBy(l)' = TakenBy(l) \ {r}
      BY <1>1, <1>2, <2>3 DEF TakenBy
    <3>2. r \notin FailedBy(l) /\ FailedBy(l)' = FailedBy(l) \cup {r}
      BY <1>1, <1>2, <2>3 DEF FailedBy, Unsent
    <3>3. /\ Cardinality(TakenBy(l) \ {r}) = Cardinality(TakenBy(l)) - 1
          /\ Cardinality(FailedBy(l) \cup {r}) = Cardinality(FailedBy(l)) + 1
      BY <3>1, <3>2, BooksFinite, FS_RemoveElement, FS_AddElement
    <3>4. lost'[l] = lost[l] + 1 /\ UNCHANGED <<uses, others, restarts>>
      BY <1>1, <2>3
    <3> QED BY <2>1, <2>2, <3>1, <3>2, <3>3, <3>4
  <2>4. CASE lease[r] # l
    <3>1. TakenBy(l)' = TakenBy(l) /\ FailedBy(l)' = FailedBy(l)
      BY <1>1, <2>4 DEF TakenBy, FailedBy, Unsent
    <3>2. lost'[l] = lost[l] /\ UNCHANGED <<uses, others, restarts>>
      BY <1>1, <2>4
    <3> QED BY <2>1, <2>2, <3>1, <3>2
  <2> QED BY <2>3, <2>4
<1> QED BY <1>3, <1>4, <1>5 DEF UsesBalance, LossesHaveCauses

\* Other processes take their uses on their own account.
LEMMA OtherUses ==
  ASSUME UsesInv, NEW l \in Lease, OtherRedeem(l)
  PROVE  UsesInv'
<1> USE DEF UsesInv, UsesTypes, Stage
<1>1. /\ UNCHANGED <<at, answer, sent, lease, lost, restarts>>
      /\ uses' = [uses EXCEPT ![l] = @ - 1] /\ others' = [others EXCEPT ![l] = @ + 1]
  BY DEF OtherRedeem, exitVars
<1>2. UsesTypes' /\ OneRedeemed' /\ UnsentUnanswered' /\ RefusedUnsent'
  BY <1>1 DEF OneRedeemed, UnsentUnanswered, RefusedUnsent
<1>3. ASSUME NEW k \in Lease
      PROVE  /\ uses'[k] + others'[k] + lost'[k] + Cardinality(TakenBy(k)') = Granted[k]
             /\ lost'[k] <= restarts' + Cardinality(FailedBy(k)')
  <2>1. TakenBy(k)' = TakenBy(k) /\ FailedBy(k)' = FailedBy(k)
    BY <1>1 DEF TakenBy, FailedBy, Unsent
  <2>2. /\ Cardinality(TakenBy(k)) \in Nat
        /\ uses[k] + others[k] + lost[k] + Cardinality(TakenBy(k)) = Granted[k]
        /\ lost[k] <= restarts + Cardinality(FailedBy(k))
    BY BooksFinite DEF UsesBalance, LossesHaveCauses
  <2> QED BY <1>1, <2>1, <2>2
<1> QED BY <1>2, <1>3 DEF UsesBalance, LossesHaveCauses

\* A broker that ends between redeem and fetch loses the one use it has taken.
LEMMA RestartUses ==
  ASSUME UsesInv, Restart
  PROVE  UsesInv'
<1> USE DEF UsesInv, UsesTypes, Stage
<1> DEFINE held(l) == {r \in Req : lease[r] = l /\ at[r] = "redeemed"}
<1>1. /\ restarts' = restarts + 1
      /\ at' = [r \in Req |-> IF at[r] = "new" THEN "new" ELSE "closed"]
      /\ lost' = [l \in Lease |-> lost[l] + Cardinality(held(l))]
      /\ UNCHANGED <<uses, others, answer, sent, lease>>
  BY DEF Restart
<1>2. ASSUME NEW l \in Lease
      PROVE  /\ IsFiniteSet(held(l)) /\ Cardinality(held(l)) \in Nat
             /\ Cardinality(held(l)) <= 1
             /\ Cardinality(TakenBy(l)') = Cardinality(TakenBy(l)) - Cardinality(held(l))
             /\ FailedBy(l)' = FailedBy(l)
  <2>1. FailedBy(l)' = FailedBy(l) /\ TakenBy(l)' = TakenBy(l) \ held(l)
    BY <1>1 DEF FailedBy, Unsent, TakenBy, UnsentUnanswered
  <2>2. CASE held(l) = {}
    <3>1. TakenBy(l)' = TakenBy(l) /\ Cardinality(held(l)) = 0 /\ IsFiniteSet(held(l))
      BY <2>1, <2>2, FS_EmptySet
    <3> HIDE DEF held
    <3>2. Cardinality(TakenBy(l)) \in Nat
      BY BooksFinite
    <3>3. Cardinality(TakenBy(l)') = Cardinality(TakenBy(l)) - Cardinality(held(l))
      <4> DEFINE n == Cardinality(TakenBy(l))
      <4>1. Cardinality(TakenBy(l)') = n /\ n \in Nat
        BY <3>1, <3>2
      <4> HIDE DEF n
      <4>2. n - Cardinality(held(l)) = n
        BY <3>1, <4>1
      <4> QED BY <4>1, <4>2 DEF n
    <3> QED BY <2>1, <3>1, <3>3
  <2>3. CASE held(l) # {}
    <3>1. PICK r \in held(l) : TRUE
      BY <2>3
    <3>2. held(l) = {r}
      BY <3>1 DEF OneRedeemed
    <3>3. r \in TakenBy(l) /\ TakenBy(l)' = TakenBy(l) \ {r}
      BY <2>1, <3>1, <3>2 DEF TakenBy
    <3> HIDE DEF held
    <3>4. Cardinality(held(l)) = 1 /\ IsFiniteSet(held(l))
      BY <3>2, FS_Singleton
    <3>5. Cardinality(TakenBy(l)') = Cardinality(TakenBy(l)) - 1
      BY <3>3, BooksFinite, FS_RemoveElement
    <3> QED BY <2>1, <3>4, <3>5
  <2> QED BY <2>2, <2>3
<1> HIDE DEF held
<1>3. UsesTypes'
  BY <1>1, <1>2
<1>4. OneRedeemed' /\ UnsentUnanswered' /\ RefusedUnsent'
  BY <1>1 DEF OneRedeemed, UnsentUnanswered, RefusedUnsent
<1>5. ASSUME NEW k \in Lease
      PROVE  /\ uses'[k] + others'[k] + lost'[k] + Cardinality(TakenBy(k)') = Granted[k]
             /\ lost'[k] <= restarts' + Cardinality(FailedBy(k)')
  <2>1. /\ Cardinality(TakenBy(k)) \in Nat /\ Cardinality(FailedBy(k)) \in Nat
        /\ uses[k] + others[k] + lost[k] + Cardinality(TakenBy(k)) = Granted[k]
        /\ lost[k] <= restarts + Cardinality(FailedBy(k))
    BY BooksFinite DEF UsesBalance, LossesHaveCauses
  <2>2. lost'[k] = lost[k] + Cardinality(held(k))
    BY <1>1
  <2>3. /\ uses[k] \in Int /\ others[k] \in Nat /\ lost[k] \in Nat /\ restarts \in Nat
        /\ uses'[k] = uses[k] /\ others'[k] = others[k] /\ restarts' = restarts + 1
    BY <1>1
  <2>4. /\ Cardinality(held(k)) \in Nat /\ Cardinality(held(k)) <= 1
        /\ Cardinality(TakenBy(k)') = Cardinality(TakenBy(k)) - Cardinality(held(k))
        /\ Cardinality(FailedBy(k)') = Cardinality(FailedBy(k))
    BY <1>2
  <2> QED BY <2>1, <2>2, <2>3, <2>4
<1> QED BY <1>3, <1>4, <1>5 DEF UsesBalance, LossesHaveCauses

(* The books of the uses balance in every reachable state.                 *)
THEOREM UsesCounted == BrokerSpec => []UsesInv
<1>1. UsesInv /\ [BrokerNext]_brokerVars => UsesInv'
  <2> SUFFICES ASSUME UsesInv, [BrokerNext]_brokerVars
               PROVE  UsesInv'
      OBVIOUS
  <2>1. CASE \E r \in Req : Refuse(r) \/ RateLimited(r) \/ ConcurrencyLimited(r) \/ RedeemDenied(r)
    BY <2>1, RefusalUses
  <2>2. CASE Yielded /\ \E r \in Req : \/ Headers(r) \/ FetchFails(r) \/ Timeout(r) \/ Relayed(r)
                                      \/ Close(r) \/ Admit(r)
    BY <2>2, AnswerUses
  <2>3. CASE Yielded /\ \E r \in Req : RedeemUse(r)
    BY <2>3, RedeemUses
  <2>4. CASE \E r \in Req : Send(r) \/ AuditFails(r)
    BY <2>4, SendUses, AuditFailsUses
  <2>5. CASE Restart \/ \E l \in Lease : OtherRedeem(l)
    BY <2>5, OtherUses, RestartUses
  <2>6. CASE \/ BrokerTick \/ UNCHANGED brokerVars
             \/ \E l \in Lease : revoke_lease(l) \/ RevokeOrExpire(l) \/ grant_lease(l)
    <3>1. UNCHANGED <<uses, others, lost, restarts, lease, sent, at, answer>>
      BY <2>6 DEF BrokerTick, revoke_lease, RevokeOrExpire, Dies, grant_lease, brokerVars, exitVars
    <3>2. UsesTypes' /\ OneRedeemed' /\ UnsentUnanswered' /\ RefusedUnsent'
      BY <3>1 DEF UsesInv, UsesTypes, OneRedeemed, UnsentUnanswered, RefusedUnsent
    <3> QED BY <3>1, <3>2, NoUseSpent
  <2> QED BY <2>1, <2>2, <2>3, <2>4, <2>5, <2>6 DEF BrokerNext, Arrive, Redeem, Depart
<1> QED BY <1>1, InitUses, PTL DEF BrokerSpec

(* A refused request consumed no use, and every use that is gone was taken *)
(* by another process or by a request, or was lost with the broker or its  *)
(* audit.                                                                  *)
THEOREM UsesAreAccountedFor == BrokerSpec => []UsesAccountedFor
<1>1. UsesInv => UsesAccountedFor
  BY DEF UsesInv, UsesBalance, LossesHaveCauses, RefusedUnsent, UsesAccountedFor, TakenBy, FailedBy
<1> QED BY <1>1, UsesCounted, PTL

-----------------------------------------------------------------------------
(* What leaves after its lease is gone.                                    *)

(* Of a lease that can still be redeemed nothing was late, and of one whose *)
(* request waits for its hand-off nothing was late yet: so the one that is  *)
(* late finds none before it.  The tool of this process never runs in the  *)
(* middle of that, so of the leases it revoked nothing waits.              *)
LateInv ==
  /\ life \in [Lease -> {"ungranted", "live", "revoked", "dead"}]
  /\ late \in SUBSET Req
  /\ \A r \in late : life[lease[r]] = "dead"
  /\ \A q, r \in late : lease[q] = lease[r] => q = r
  /\ \A r \in Req : at[r] = "redeemed" =>
       /\ life[lease[r]] \in {"live", "dead"}
       /\ \A q \in late : lease[q] # lease[r]

LEMMA LateStep ==
  ASSUME UsesInv, LateInv, [BrokerNext]_brokerVars
  PROVE  LateInv'
<1> USE DEF LateInv, UsesInv, UsesTypes
<1>1. ASSUME NEW r \in Req, Send(r)
      PROVE  LateInv'
  <2>1. /\ at[r] = "redeemed" /\ at' = [at EXCEPT ![r] = "fetch"]
        /\ late' = IF life[lease[r]] = "live" THEN late ELSE late \cup {r}
        /\ UNCHANGED <<life, lease>>
    BY <1>1 DEF Send, Goto
  <2>2. \A q \in Req : at'[q] # "redeemed"
    BY <2>1 DEF OneRedeemed
  <2>3. life[lease[r]] \in {"live", "dead"} /\ \A q \in late : lease[q] # lease[r]
    BY <2>1
  <2> QED BY <2>1, <2>2, <2>3
<1>2. ASSUME NEW r \in Req, RedeemUse(r)
      PROVE  LateInv'
  <2>1. /\ life[lease[r]] = "live" /\ at' = [at EXCEPT ![r] = "redeemed"]
        /\ UNCHANGED <<life, lease, late>>
    BY <1>2 DEF RedeemUse, Spendable, Goto, exitVars
  <2> QED BY <2>1
<1>3. ASSUME UNCHANGED <<life, lease, late>>,
             \A r \in Req : at'[r] = "redeemed" => at[r] = "redeemed"
      PROVE  LateInv'
  BY <1>3
<1>4. ASSUME NEW r \in Req, Arrive(r) \/ RedeemDenied(r) \/ AuditFails(r)
      PROVE  LateInv'
  <2>1. /\ \E s \in {"body", "ended"} : at' = [at EXCEPT ![r] = s]
        /\ UNCHANGED <<life, lease, late>>
    BY <1>4 DEF Arrive, Refuse, RateLimited, ConcurrencyLimited, Admit, RedeemDenied, AuditFails,
                End, Goto, exitVars
  <2> QED BY <1>3, <2>1
<1>5. ASSUME NEW r \in Req, Headers(r) \/ FetchFails(r) \/ Timeout(r) \/ Relayed(r) \/ Close(r)
      PROVE  LateInv'
  <2>1. /\ \E s \in {"stream", "ended", "closed"} : at' = [at EXCEPT ![r] = s]
        /\ UNCHANGED <<life, lease, late>>
    BY <1>5 DEF Headers, FetchFails, Timeout, Relayed, Close, End, Goto, exitVars
  <2> QED BY <1>3, <2>1
<1>6. ASSUME NEW l \in Lease, grant_lease(l)
      PROVE  LateInv'
  <2>1. /\ life[l] = "ungranted" /\ life' = [life EXCEPT ![l] = "live"]
        /\ UNCHANGED <<at, lease, late>>
    BY <1>6 DEF grant_lease, exitVars
  <2> QED BY <2>1
<1>7. ASSUME NEW l \in Lease, Yielded /\ revoke_lease(l)
      PROVE  LateInv'
  <2>1. /\ life[l] = "live" /\ life' = [life EXCEPT ![l] = "revoked"]
        /\ UNCHANGED <<at, lease, late>>
    BY <1>7 DEF revoke_lease, Dies, exitVars
  <2> QED BY <1>7, <2>1 DEF Yielded
<1>8. ASSUME NEW l \in Lease, RevokeOrExpire(l)
      PROVE  LateInv'
  <2>1. /\ life[l] = "live" /\ life' = [life EXCEPT ![l] = "dead"]
        /\ UNCHANGED <<at, lease, late>>
    BY <1>8 DEF RevokeOrExpire, Dies, exitVars
  <2> QED BY <2>1
<1>9. CASE BrokerTick \/ UNCHANGED brokerVars \/ \E l \in Lease : OtherRedeem(l)
  BY <1>3, <1>9 DEF BrokerTick, brokerVars, OtherRedeem, exitVars
<1>10. CASE Restart
  BY <1>3, <1>10 DEF Restart
<1> QED BY <1>1, <1>2, <1>4, <1>5, <1>6, <1>7, <1>8, <1>9, <1>10
        DEF BrokerNext, Redeem, Depart

(* Nothing leaves through a lease that the process's own tool has revoked, *)
(* and after a revocation elsewhere one request at most, however many were *)
(* let in before.                                                          *)
THEOREM OneLeavesLateAtMost == BrokerSpec => []RevokeCutsOff
<1>1. BrokerInit => LateInv
  BY DEF BrokerInit, LateInv
<1>2. LateInv => RevokeCutsOff
  BY DEF LateInv, RevokeCutsOff
<1> QED BY <1>1, <1>2, LateStep, UsesCounted, PTL DEF BrokerSpec

-----------------------------------------------------------------------------
(* The rate.                                                               *)

Entry == [of : Req, time : Nat]

WindowTypes ==
  /\ windows \in [Lease -> SUBSET Entry]
  /\ \A l \in Lease : IsFiniteSet(windows[l])

(* What makes the rate inductive: an admission that still counts against   *)
(* the lease has its entry in the window, so the entries bound admissions. *)
AdmissionsEntered ==
  \A r \in Req :
    Rate[lease[r]] # 0 /\ admitted[r] # Never /\ now - admitted[r] < Window
      => [of |-> r, time |-> admitted[r]] \in windows[lease[r]]

NothingLater == \A r \in Req : admitted[r] # Never => admitted[r] <= now

RateInv == SlotTypes /\ WindowTypes /\ AdmissionsEntered /\ NothingLater /\ AdmissionsWithinRate

LEMMA InWindowFinite ==
  ASSUME WindowTypes, NEW l \in Lease
  PROVE  IsFiniteSet(InWindow(l)) /\ Cardinality(InWindow(l)) \in Nat
<1>1. InWindow(l) \in SUBSET windows[l] /\ IsFiniteSet(windows[l])
  BY DEF InWindow, WindowTypes
<1> QED BY <1>1, FS_Subset, FS_CardinalityType

LEMMA AdmittedFinite ==
  ASSUME NEW l, NEW t
  PROVE  IsFiniteSet(AdmittedBy(l, t)) /\ Cardinality(AdmittedBy(l, t)) \in Nat
<1>1. AdmittedBy(l, t) \in SUBSET Req
  BY DEF AdmittedBy
<1> QED BY <1>1, BrokerAssumption, FS_Subset, FS_CardinalityType

\* No more admissions count now than the window has entries.
LEMMA EntriesBound ==
  ASSUME RateInv, NEW l \in Lease, Rate[l] # 0
  PROVE  Cardinality(AdmittedBy(l, now)) <= Cardinality(InWindow(l))
<1> DEFINE entry == [r \in AdmittedBy(l, now) |-> [of |-> r, time |-> admitted[r]]]
<1>1. ASSUME NEW r \in AdmittedBy(l, now)
      PROVE  entry[r] \in InWindow(l)
  <2>1. /\ r \in Req /\ lease[r] = l /\ admitted[r] # Never
        /\ admitted[r] \in now - Window + 1 .. now /\ now \in Nat /\ Window \in Nat
    BY BrokerAssumption DEF AdmittedBy, RateInv, SlotTypes
  <2>2. now - admitted[r] < Window
    BY <2>1
  <2>3. entry[r] = [of |-> r, time |-> admitted[r]]
    OBVIOUS
  <2>4. entry[r] \in windows[l] /\ entry[r].time = admitted[r]
    BY <2>1, <2>2, <2>3 DEF RateInv, AdmissionsEntered
  <2> HIDE DEF entry
  <2> QED BY <2>2, <2>4 DEF InWindow
<1>2. entry \in [AdmittedBy(l, now) -> InWindow(l)]
  BY <1>1
<1>3. \A q, r \in AdmittedBy(l, now) : entry[q] = entry[r] => q = r
  <2> SUFFICES ASSUME NEW q \in AdmittedBy(l, now), NEW r \in AdmittedBy(l, now),
                      entry[q] = entry[r]
               PROVE  q = r
    OBVIOUS
  <2>1. entry[q].of = q /\ entry[r].of = r
    OBVIOUS
  <2> HIDE DEF entry
  <2> QED BY <2>1
<1> HIDE DEF entry
<1>4. ~(Cardinality(InWindow(l)) < Cardinality(AdmittedBy(l, now)))
  BY <1>2, <1>3, InWindowFinite, AdmittedFinite, FS_PigeonHole DEF RateInv
<1>5. Cardinality(InWindow(l)) \in Nat /\ Cardinality(AdmittedBy(l, now)) \in Nat
  BY InWindowFinite, AdmittedFinite DEF RateInv
<1> QED BY <1>4, <1>5

LEMMA InitRate == BrokerInit => RateInv
<1> SUFFICES ASSUME BrokerInit
             PROVE  RateInv
    OBVIOUS
<1>1. SlotTypes /\ NothingLater /\ AdmissionsEntered
  BY InitSlots DEF SlotInv, BrokerInit, NothingLater, AdmissionsEntered
<1>2. WindowTypes
  BY FS_EmptySet DEF BrokerInit, WindowTypes
<1>3. \A l \in Lease, t \in 0 .. now : AdmittedBy(l, t) = {} /\ Rate[l] \in Nat
  BY BrokerAssumption DEF BrokerInit, AdmittedBy
<1>4. AdmissionsWithinRate
  BY <1>3, FS_EmptySet DEF AdmissionsWithinRate
<1> QED BY <1>1, <1>2, <1>4 DEF RateInv

\* What remembering an arrival leaves in the windows.
LEMMA RememberFacts ==
  ASSUME RateInv, NEW r \in Req, Remember(r)
  PROVE  /\ WindowTypes'
         /\ \A l \in Lease : Rate[l] # 0 =>
              \A e \in windows[l] : now - e.time < Window => e \in windows'[l]
         /\ Rate[lease[r]] # 0 /\ withinRate(lease[r])
              => [of |-> r, time |-> now] \in windows'[lease[r]]
<1> DEFINE l == lease[r]
<1>1. l \in Lease /\ now \in Nat /\ windows \in [Lease -> SUBSET Entry]
  BY DEF RateInv, SlotTypes, WindowTypes
<1>2. CASE Rate[l] = 0
  BY <1>2 DEF Remember, RateInv, WindowTypes
<1>3. CASE Rate[l] # 0
  <2>1. windows' = [windows EXCEPT ![l] = InWindow(l) \cup Entered(r)]
    BY <1>3 DEF Remember
  <2>2. Entered(r) \in SUBSET Entry
    BY <1>1 DEF Entered, Entry
  <2>3. IsFiniteSet(InWindow(l)) /\ IsFiniteSet(InWindow(l) \cup {[of |-> r, time |-> now]})
    BY <1>1, InWindowFinite, FS_AddElement DEF RateInv
  <2>4. IsFiniteSet(InWindow(l) \cup Entered(r))
    BY <2>3 DEF Entered
  <2>5. InWindow(l) \in SUBSET Entry
    BY <1>1 DEF InWindow
  <2> HIDE DEF l
  <2>6. WindowTypes'
    BY <1>1, <2>1, <2>2, <2>4, <2>5 DEF RateInv, WindowTypes
  <2>7. \A k \in Lease : \A e \in windows[k] : now - e.time < Window => e \in windows'[k]
    BY <1>1, <2>1 DEF InWindow
  <2>8. withinRate(l) => [of |-> r, time |-> now] \in windows'[l]
    BY <1>1, <2>1 DEF Entered, l
  <2> QED BY <2>6, <2>7, <2>8 DEF l
<1> QED BY <1>2, <1>3

\* Steps that admit nobody keep the rate, whatever the window forgets of old.
LEMMA SameRate ==
  ASSUME RateInv, SlotTypes', WindowTypes', UNCHANGED <<now, lease, admitted>>,
         \A l \in Lease : Rate[l] # 0 =>
           \A e \in windows[l] : now - e.time < Window => e \in windows'[l]
  PROVE  RateInv'
<1>1. AdmissionsEntered'
  <2> SUFFICES ASSUME NEW r \in Req, Rate[lease[r]] # 0, admitted[r] # Never,
                      now - admitted[r] < Window
               PROVE  [of |-> r, time |-> admitted[r]] \in windows'[lease[r]]
    BY DEF AdmissionsEntered
  <2>1. [of |-> r, time |-> admitted[r]] \in windows[lease[r]] /\ lease[r] \in Lease
    BY DEF RateInv, AdmissionsEntered, SlotTypes
  <2> QED BY <2>1
<1>2. NothingLater'
  BY DEF RateInv, NothingLater
<1>3. AdmissionsWithinRate'
  BY DEF RateInv, AdmissionsWithinRate, AdmittedBy
<1> QED BY <1>1, <1>2, <1>3 DEF RateInv

\* An admission finds fewer entries than the rate, so fewer admissions.
LEMMA AdmitRate ==
  ASSUME RateInv, SlotTypes', NEW r \in Req, Admit(r)
  PROVE  RateInv'
<1>1. /\ at[r] = "new" /\ admitted[r] = Never /\ admitted' = [admitted EXCEPT ![r] = now]
      /\ withinRate(lease[r]) /\ Remember(r) /\ UNCHANGED <<now, lease>>
  BY DEF Admit, RateInv, SlotTypes
<1>2. /\ now \in Nat /\ now # Never /\ lease \in [Req -> Lease]
      /\ admitted \in [Req -> Nat \cup {Never}]
  BY DEF RateInv, SlotTypes, Never
<1>3. /\ WindowTypes'
      /\ \A l \in Lease : Rate[l] # 0 =>
           \A e \in windows[l] : now - e.time < Window => e \in windows'[l]
      /\ Rate[lease[r]] # 0 => [of |-> r, time |-> now] \in windows'[lease[r]]
  BY <1>1, RememberFacts
<1>4. AdmissionsEntered'
  <2> SUFFICES ASSUME NEW q \in Req, Rate[lease[q]] # 0, admitted'[q] # Never,
                      now - admitted'[q] < Window
               PROVE  [of |-> q, time |-> admitted'[q]] \in windows'[lease[q]]
    BY <1>1 DEF AdmissionsEntered
  <2>1. CASE q = r
    BY <1>1, <1>2, <1>3, <2>1
  <2>2. CASE q # r
    <3>1. admitted'[q] = admitted[q]
      BY <1>1, <1>2, <2>2
    <3>2. [of |-> q, time |-> admitted[q]] \in windows[lease[q]]
      BY <1>2, <3>1 DEF RateInv, AdmissionsEntered
    <3> QED BY <1>2, <1>3, <3>1, <3>2
  <2> QED BY <2>1, <2>2
<1>5. NothingLater'
  BY <1>1, <1>2 DEF RateInv, NothingLater
<1>6. ASSUME NEW l \in Lease, Rate[l] # 0, NEW t \in 0 .. now
      PROVE  Cardinality(AdmittedBy(l, t)') <= Rate[l]
  <2>1. Cardinality(AdmittedBy(l, t)) <= Rate[l]
    BY <1>6 DEF RateInv, AdmissionsWithinRate
  <2>2. CASE l = lease[r] /\ t = now
    <3>1. AdmittedBy(l, t)' \in SUBSET (AdmittedBy(l, t) \cup {r})
      BY <1>1, <1>2 DEF AdmittedBy
    <3>2. /\ IsFiniteSet(AdmittedBy(l, t) \cup {r})
          /\ Cardinality(AdmittedBy(l, t) \cup {r}) <= Cardinality(AdmittedBy(l, t)) + 1
          /\ Cardinality(AdmittedBy(l, t) \cup {r}) \in Nat
      <4> DEFINE counted == AdmittedBy(l, t)
      <4>1. IsFiniteSet(counted) /\ Cardinality(counted) \in Nat
        BY AdmittedFinite
      <4> HIDE DEF counted
      <4>2. /\ IsFiniteSet(counted \cup {r})
            /\ Cardinality(counted \cup {r}) =
                 IF r \in counted THEN Cardinality(counted) ELSE Cardinality(counted) + 1
        BY <4>1, FS_AddElement
      <4>3. /\ Cardinality(counted \cup {r}) <= Cardinality(counted) + 1
            /\ Cardinality(counted \cup {r}) \in Nat
        BY <4>1, <4>2
      <4> QED BY <4>2, <4>3 DEF counted
    <3>3. /\ Cardinality(AdmittedBy(l, t)') <= Cardinality(AdmittedBy(l, t) \cup {r})
          /\ Cardinality(AdmittedBy(l, t)') \in Nat
      BY <3>1, <3>2, FS_Subset, FS_CardinalityType
    <3>4. Cardinality(AdmittedBy(l, now)) <= Cardinality(InWindow(l))
      BY <1>6, EntriesBound
    <3>5. Cardinality(InWindow(l)) < Rate[l]
      BY <1>1, <1>6, <2>2 DEF withinRate
    <3>6. /\ Cardinality(InWindow(l)) \in Nat /\ Cardinality(AdmittedBy(l, t)) \in Nat
          /\ Rate[l] \in Nat
      BY InWindowFinite, AdmittedFinite, BrokerAssumption DEF RateInv
    <3> QED BY <2>2, <3>2, <3>3, <3>4, <3>5, <3>6
  <2>3. CASE l # lease[r] \/ t # now
    <3>1. AdmittedBy(l, t)' = AdmittedBy(l, t)
      BY <1>1, <1>2, <2>3 DEF AdmittedBy
    <3> QED BY <2>1, <3>1
  <2> QED BY <2>2, <2>3
<1>7. AdmissionsWithinRate'
  BY <1>1, <1>6 DEF AdmissionsWithinRate
<1> QED BY <1>3, <1>4, <1>5, <1>7 DEF RateInv

\* What counts at the next instant counted at this one.
LEMMA TickRate ==
  ASSUME RateInv, SlotTypes', BrokerTick
  PROVE  RateInv'
<1>1. now' = now + 1 /\ now \in Nat /\ UNCHANGED <<windows, lease, admitted>>
  BY DEF BrokerTick, RateInv, SlotTypes
<1>2. admitted \in [Req -> Nat \cup {Never}] /\ Window \in Nat
  BY BrokerAssumption DEF RateInv, SlotTypes
<1>3. WindowTypes'
  BY <1>1 DEF RateInv, WindowTypes
<1>4. AdmissionsEntered'
  BY <1>1, <1>2 DEF RateInv, AdmissionsEntered, Never
<1>5. NothingLater'
  BY <1>1, <1>2 DEF RateInv, NothingLater, Never
<1>6. ASSUME NEW l \in Lease, Rate[l] # 0, NEW t \in 0 .. now + 1
      PROVE  Cardinality(AdmittedBy(l, t)') <= Rate[l]
  <2>1. AdmittedBy(l, t)' = AdmittedBy(l, t)
    BY <1>1 DEF AdmittedBy
  <2>2. CASE t <= now
    <3>1. t \in 0 .. now
      BY <1>1, <2>2
    <3> QED BY <1>6, <2>1, <3>1 DEF RateInv, AdmissionsWithinRate
  <2>3. CASE t = now + 1
    <3>1. AdmittedBy(l, t) \in SUBSET AdmittedBy(l, now)
      BY <1>1, <1>2, <2>3 DEF RateInv, NothingLater, AdmittedBy, Never
    <3>2. Cardinality(AdmittedBy(l, t)) <= Cardinality(AdmittedBy(l, now))
      BY <3>1, AdmittedFinite, FS_Subset
    <3>3. Cardinality(AdmittedBy(l, now)) <= Rate[l] /\ now \in 0 .. now
      BY <1>1, <1>6 DEF RateInv, AdmissionsWithinRate
    <3>4. Cardinality(AdmittedBy(l, t)) \in Nat /\ Cardinality(AdmittedBy(l, now)) \in Nat
          /\ Rate[l] \in Nat
      BY AdmittedFinite, BrokerAssumption
    <3> QED BY <2>1, <3>2, <3>3, <3>4
  <2> QED BY <1>1, <2>2, <2>3
<1>7. AdmissionsWithinRate'
  BY <1>1, <1>6 DEF AdmissionsWithinRate
<1> QED BY <1>3, <1>4, <1>5, <1>7 DEF RateInv

LEMMA RestartRate ==
  ASSUME RateInv, SlotTypes', Restart
  PROVE  RateInv'
<1>1. /\ windows' = [l \in Lease |-> {}] /\ admitted' = [r \in Req |-> Never]
      /\ UNCHANGED <<now, lease>>
  BY DEF Restart
<1>2. WindowTypes'
  BY <1>1, FS_EmptySet DEF WindowTypes
<1>3. AdmissionsEntered' /\ NothingLater'
  BY <1>1 DEF AdmissionsEntered, NothingLater
<1>4. \A l \in Lease, t \in 0 .. now : AdmittedBy(l, t)' = {} /\ Rate[l] \in Nat
  BY <1>1, BrokerAssumption DEF AdmittedBy
<1>5. AdmissionsWithinRate'
  BY <1>1, <1>4, FS_EmptySet DEF AdmissionsWithinRate
<1> QED BY <1>2, <1>3, <1>5 DEF RateInv

(* In no window of time does a run of the broker admit more requests       *)
(* through a lease than its rate, for any rates, windows and arrivals.     *)
THEOREM RateIsCapped == BrokerSpec => []AdmissionsWithinRate
<1>1. SlotInv' /\ RateInv /\ [BrokerNext]_brokerVars => RateInv'
  <2> SUFFICES ASSUME SlotTypes', RateInv, [BrokerNext]_brokerVars
               PROVE  RateInv'
      BY DEF SlotInv
  <2>1. ASSUME NEW r \in Req, RateLimited(r) \/ ConcurrencyLimited(r)
        PROVE  RateInv'
    <3>1. Remember(r) /\ UNCHANGED <<now, lease, admitted>>
      BY <2>1 DEF RateLimited, ConcurrencyLimited
    <3> QED BY <3>1, RememberFacts, SameRate
  <2>2. ASSUME NEW r \in Req, Admit(r)
        PROVE  RateInv'
    BY <2>2, AdmitRate
  <2>3. CASE BrokerTick \/ Restart
    BY <2>3, TickRate, RestartRate
  <2>4. ASSUME UNCHANGED <<now, windows, lease, admitted>>
        PROVE  RateInv'
    <3>1. WindowTypes'
      BY <2>4 DEF RateInv, WindowTypes
    <3> QED BY <2>4, <3>1, SameRate
  <2>5. ASSUME NEW r \in Req, Refuse(r) \/ Redeem(r) \/ Depart(r) \/ Headers(r)
        PROVE  RateInv'
    BY <2>4, <2>5
    DEF Refuse, Redeem, RedeemUse, RedeemDenied, Depart, Send, AuditFails, Headers
  <2>6. ASSUME NEW r \in Req, FetchFails(r) \/ Timeout(r) \/ Relayed(r) \/ Close(r)
        PROVE  RateInv'
    BY <2>4, <2>6 DEF FetchFails, Timeout, Relayed, Close
  <2>7. ASSUME NEW l \in Lease,
               grant_lease(l) \/ revoke_lease(l) \/ OtherRedeem(l) \/ RevokeOrExpire(l)
        PROVE  RateInv'
    BY <2>4, <2>7 DEF grant_lease, revoke_lease, OtherRedeem, RevokeOrExpire, Dies
  <2>8. CASE UNCHANGED brokerVars
    BY <2>4, <2>8 DEF brokerVars
  <2> QED BY <2>1, <2>2, <2>3, <2>5, <2>6, <2>7, <2>8 DEF BrokerNext, Arrive
<1>2. RateInv => AdmissionsWithinRate
  BY DEF RateInv
<1> QED BY <1>1, <1>2, InitRate, SlotsCounted, PTL DEF BrokerSpec
=============================================================================
