------------------------- MODULE QueueEventsProofs -------------------------
(***************************************************************************)
(* The events of the queue program tell its requests, its configuration    *)
(* and its payouts exactly, for every number of owners, ids, reuses and    *)
(* settings.                                                               *)
(***************************************************************************)
EXTENDS QueueEvents, QueueProofs

\* Every event names an address and a stamp that was given out.
StampsTold ==
    \A e \in emitted : e.request \in RequestKeys /\ e.sequence \in 1 .. sequence

\* An announced request has ended, or its address holds it on the terms told.
OpeningsTold ==
    \A e \in emitted : e.kind = "requested" =>
        Ended(e) \/ request[e.request] = TermsOf(e, IndexedEligibility(e))

\* An ended request is not the one its address holds.
EndingsTold ==
    \A e \in emitted : e.kind \in {"finalized", "cancelled"} =>
        request[e.request].sequence # e.sequence

\* Every live request was announced.
LiveTold ==
    \A k \in RequestKeys : Live(k) =>
        \E e \in emitted : /\ e.kind = "requested" /\ e.request = k
                           /\ e.sequence = request[k].sequence

\* A live request that was expedited is eligible, so it is expedited once.
MovesTold ==
    \A f \in emitted :
        f.kind = "expedited" /\ request[f.request].sequence = f.sequence =>
            request[f.request].eligible_at <= now

EInv == StampsTold /\ OpeningsTold /\ EndingsTold /\ LiveTold /\ MovesTold

-----------------------------------------------------------------------------
\* The programs with their events are the programs.
LEMMA EventsRefine ==
    /\ EInit => QInit
    /\ [ENext]_evars => [QNext]_qvars
<1>1. EInit => QInit
  BY DEF EInit
<1>2. ASSUME AdminStepTold PROVE QueueAdminStep
  BY <1>2 DEF AdminStepTold, QueueAdminStep
<1>3. ASSUME RequestStepTold PROVE RequestStep
  BY <1>3 DEF RequestStepTold, RequestStep
<1>4. ASSUME [ENext]_evars PROVE [QNext]_qvars
  BY <1>2, <1>3, <1>4 DEF ENext, QNext, evars
<1> QED BY <1>1, <1>4

LEMMA EventsInvariance == ESpec => []QIInv
<1>1. ESpec => QSpec
  BY EventsRefine, PTL DEF ESpec, QSpec
<1> QED BY <1>1, QInvariance, PTL

-----------------------------------------------------------------------------
(* Records *)

\* An announcement carries all of the account.
LEMMA AnnouncedInFull ==
    ASSUME NEW k, NEW r \in Request
    PROVE  TermsOf(WithdrawalRequested(k, r), r.eligible_at) = r
  BY DEF TermsOf, WithdrawalRequested, Request

LEMMA Rescheduled ==
    ASSUME NEW e, NEW a, NEW b
    PROVE  [TermsOf(e, a) EXCEPT !.eligible_at = b] = TermsOf(e, b)
  BY DEF TermsOf

LEMMA TermsProject ==
    ASSUME NEW e, NEW a
    PROVE  TermsOf(e, a).sequence = e.sequence /\ TermsOf(e, a).eligible_at = a
  BY DEF TermsOf

-----------------------------------------------------------------------------
(* What one more event changes *)

\* A new event is about the requests it names and about no other.
LEMMA NewEvent ==
    ASSUME NEW new, emitted' = emitted \cup {new}, NEW e, NEW kinds
    PROVE  /\ new.kind \in kinds /\ new.request = e.request /\ new.sequence = e.sequence =>
                  About(e, kinds)' = About(e, kinds) \cup {new}
           /\ ~(new.kind \in kinds /\ new.request = e.request /\ new.sequence = e.sequence) =>
                  About(e, kinds)' = About(e, kinds)
  BY DEF About

\* Endings are never taken back.
LEMMA EndedStays ==
    ASSUME NEW new, emitted' = emitted \cup {new}, NEW e, Ended(e)
    PROVE  Ended(e)'
  BY DEF Ended, About

\* Eligibility is told by the moves alone.
LEMMA SameMoves ==
    ASSUME NEW e, Moves(e)' = Moves(e)
    PROVE  IndexedEligibility(e)' = IndexedEligibility(e)
  BY DEF IndexedEligibility

LEMMA OneMove ==
    ASSUME NEW e, NEW f, Moves(e)' = {f}
    PROVE  IndexedEligibility(e)' = f.new_eligible_at
<1>1. (CHOOSE g \in {f} : TRUE) = f
  OBVIOUS
<1> QED BY <1>1 DEF IndexedEligibility

-----------------------------------------------------------------------------
(* Every step keeps the story straight *)

\* Steps that touch no request and tell of none.
LEMMA QuietStep ==
    ASSUME EInv, QIInv, UNCHANGED <<request, sequence, emitted>>, now' \in {now, now + 1}
    PROVE  EInv'
<1>1. \A e : About(e, {"finalized", "cancelled"})' = About(e, {"finalized", "cancelled"})
  BY DEF About
<1>2. \A e : Moves(e)' = Moves(e)
  BY DEF Moves, About
<1>3. \A e : IndexedEligibility(e)' = IndexedEligibility(e)
  BY <1>2, SameMoves
<1>4. \A e : Ended(e)' = Ended(e)
  BY <1>1 DEF Ended
<1>5. StampsTold' /\ EndingsTold' /\ LiveTold'
  BY DEF EInv, StampsTold, EndingsTold, LiveTold, Live
<1>6. OpeningsTold'
  BY <1>3, <1>4 DEF EInv, OpeningsTold
<1>7. now \in Nat /\ request \in [RequestKeys -> Request]
  BY QueueConstantsAssumption DEF QIInv, QueueBooks, QTypeOK
<1>8. \A f \in emitted : request[f.request].eligible_at \in Nat
  BY <1>7 DEF EInv, StampsTold, Request
<1>9. MovesTold'
  BY <1>7, <1>8 DEF EInv, MovesTold
<1> QED BY <1>5, <1>6, <1>9 DEF EInv

\* A request opens under a stamp nobody has heard of.
LEMMA OpeningStep ==
    ASSUME EInv, QIInv, NEW k \in RequestKeys, NEW r \in Request, ~Live(k),
           r.sequence = sequence + 1, sequence' = sequence + 1, now' = now,
           request' = [request EXCEPT ![k] = r],
           NEW e0, e0 = WithdrawalRequested(k, r), emitted' = emitted \cup {e0}
    PROVE  EInv'
<1>1. sequence \in Nat /\ request \in [RequestKeys -> Request]
  BY QueueConstantsAssumption DEF QIInv, QueueBooks, QTypeOK
<1>2. /\ e0.kind = "requested" /\ e0.request = k /\ e0.sequence = sequence + 1
      /\ e0.eligible_at = r.eligible_at
  BY DEF WithdrawalRequested
<1>3. StampsTold'
  BY <1>1, <1>2 DEF EInv, StampsTold
<1>4. request'[k] = r /\ \A j \in RequestKeys : j # k => request'[j] = request[j]
  BY <1>1
<1>5. EndingsTold'
  BY <1>1, <1>2, <1>4 DEF EInv, EndingsTold, StampsTold
<1>6. LiveTold'
  BY <1>2, <1>4 DEF EInv, LiveTold, Live
<1>7. MovesTold'
  BY <1>1, <1>2, <1>4 DEF EInv, MovesTold, StampsTold
<1>8. OpeningsTold'
  <2> SUFFICES ASSUME NEW e \in emitted', e.kind = "requested", ~Ended(e)'
               PROVE  (request[e.request] = TermsOf(e, IndexedEligibility(e)))'
    BY DEF OpeningsTold
  <2>1. Moves(e)' = Moves(e)
    BY <1>2, NewEvent DEF Moves
  <2>2. CASE e = e0
    <3>1. Moves(e) = {}
      BY <1>1, <1>2, <2>2 DEF Moves, About, EInv, StampsTold
    <3>2. IndexedEligibility(e)' = r.eligible_at
      BY <1>2, <2>1, <2>2, <3>1, SameMoves DEF IndexedEligibility
    <3> QED BY <1>2, <1>4, <2>2, <3>2, AnnouncedInFull
  <2>3. CASE e \in emitted
    <3>1. ~Ended(e)
      BY <2>3, EndedStays
    <3>2. request[e.request] = TermsOf(e, IndexedEligibility(e))
      BY <2>3, <3>1 DEF EInv, OpeningsTold
    <3>3. request[e.request].sequence = e.sequence /\ e.sequence \in 1 .. sequence
          /\ e.request \in RequestKeys
      BY <2>3, <3>2, TermsProject DEF EInv, StampsTold
    <3>4. e.request # k
      BY <1>1, <3>3 DEF Live
    <3> QED BY <1>4, <2>1, <3>2, <3>3, <3>4, SameMoves
  <2> QED BY <2>2, <2>3
<1> QED BY <1>3, <1>5, <1>6, <1>7, <1>8 DEF EInv

\* A request ends, and the event names it.
LEMMA EndingStep ==
    ASSUME EInv, QIInv, NEW k \in RequestKeys, Live(k), sequence' = sequence, now' = now,
           request' = [request EXCEPT ![k] = ZeroRequest],
           NEW e0, e0.kind = "finalized" \/ e0.kind = "cancelled", e0.request = k,
           e0.sequence = request[k].sequence, emitted' = emitted \cup {e0}
    PROVE  EInv'
<1>1. sequence \in Nat /\ request \in [RequestKeys -> Request]
  BY QueueConstantsAssumption DEF QIInv, QueueBooks, QTypeOK
<1>2. request'[k] = ZeroRequest /\ \A j \in RequestKeys : j # k => request'[j] = request[j]
  BY <1>1
<1>3. ZeroRequest.sequence = 0
  BY DEF ZeroRequest
<1>4. PICK o \in emitted : o.request = k /\ o.sequence = request[k].sequence
  BY DEF EInv, LiveTold
<1>5. StampsTold'
  BY <1>4 DEF EInv, StampsTold
<1>6. EndingsTold'
  BY <1>1, <1>2, <1>3, <1>5 DEF EInv, EndingsTold, StampsTold
<1>7. LiveTold'
  BY <1>2, <1>3 DEF EInv, LiveTold, Live
<1>8. MovesTold'
  BY <1>1, <1>2, <1>3, <1>5 DEF EInv, MovesTold, StampsTold
<1>9. OpeningsTold'
  <2> SUFFICES ASSUME NEW e \in emitted', e.kind = "requested", ~Ended(e)'
               PROVE  (request[e.request] = TermsOf(e, IndexedEligibility(e)))'
    BY DEF OpeningsTold
  <2>1. e \in emitted
    OBVIOUS
  <2>2. Moves(e)' = Moves(e)
    BY NewEvent DEF Moves
  <2>3. ~Ended(e)
    BY EndedStays
  <2>4. request[e.request] = TermsOf(e, IndexedEligibility(e))
    BY <2>1, <2>3 DEF EInv, OpeningsTold
  <2>5. request[e.request].sequence = e.sequence /\ e.request \in RequestKeys
    BY <2>1, <2>4, TermsProject DEF EInv, StampsTold
  <2>6. e.request # k
    BY <2>5, NewEvent DEF Ended
  <2> QED BY <1>2, <2>2, <2>4, <2>5, <2>6, SameMoves
<1> QED BY <1>5, <1>6, <1>7, <1>8, <1>9 DEF EInv

\* A request is expedited, for the first time.
LEMMA MoveStep ==
    ASSUME EInv, QIInv, NEW k \in RequestKeys, Live(k), ~IsEligible(request[k]),
           sequence' = sequence, now' = now,
           request' = [request EXCEPT ![k].eligible_at = now],
           NEW e0, e0.kind = "expedited", e0.request = k,
           e0.sequence = request[k].sequence, e0.new_eligible_at = now,
           emitted' = emitted \cup {e0}
    PROVE  EInv'
<1>1. sequence \in Nat /\ now \in Nat /\ request \in [RequestKeys -> Request]
  BY QueueConstantsAssumption DEF QIInv, QueueBooks, QTypeOK
<1>2. /\ request'[k] = [request[k] EXCEPT !.eligible_at = now]
      /\ \A j \in RequestKeys : j # k => request'[j] = request[j]
  BY <1>1
<1>3. \A j \in RequestKeys : request'[j].sequence = request[j].sequence
  BY <1>1, <1>2 DEF Request
<1>4. request'[k].eligible_at = now
  BY <1>1, <1>2 DEF Request
<1>5. PICK o \in emitted : o.request = k /\ o.sequence = request[k].sequence
  BY DEF EInv, LiveTold
<1>6. StampsTold'
  BY <1>5 DEF EInv, StampsTold
<1>7. EndingsTold'
  BY <1>3, <1>6 DEF EInv, EndingsTold, StampsTold
<1>8. LiveTold'
  BY <1>3 DEF EInv, LiveTold, Live
<1>9. MovesTold'
  BY <1>1, <1>2, <1>3, <1>4, <1>6 DEF EInv, MovesTold, StampsTold
<1>10. OpeningsTold'
  <2> SUFFICES ASSUME NEW e \in emitted', e.kind = "requested", ~Ended(e)'
               PROVE  (request[e.request] = TermsOf(e, IndexedEligibility(e)))'
    BY DEF OpeningsTold
  <2>1. e \in emitted
    OBVIOUS
  <2>2. ~Ended(e)
    BY EndedStays
  <2>3. request[e.request] = TermsOf(e, IndexedEligibility(e))
    BY <2>1, <2>2 DEF EInv, OpeningsTold
  <2>4. request[e.request].sequence = e.sequence /\ e.request \in RequestKeys
    BY <2>1, <2>3, TermsProject DEF EInv, StampsTold
  <2>5. CASE e.request = k
    <3>1. Moves(e) = {}
      <4> SUFFICES ASSUME NEW f \in Moves(e) PROVE FALSE
        OBVIOUS
      <4>1. f \in emitted /\ f.kind = "expedited" /\ f.request = k /\ f.sequence = e.sequence
        BY <2>5 DEF Moves, About
      <4>2. request[k].eligible_at <= now
        BY <2>4, <2>5, <4>1 DEF EInv, MovesTold
      <4> QED BY <1>1, <4>2 DEF IsEligible, Request
    <3>2. Moves(e)' = {e0}
      BY <2>4, <2>5, <3>1, NewEvent DEF Moves
    <3>3. IndexedEligibility(e)' = e0.new_eligible_at
      BY <3>2, OneMove
    <3>4. request'[k] = TermsOf(e, now)
      BY <1>2, <2>3, <2>5, Rescheduled
    <3> QED BY <2>5, <3>3, <3>4
  <2>6. CASE e.request # k
    <3>1. Moves(e)' = Moves(e)
      BY <2>6, NewEvent DEF Moves
    <3> QED BY <1>2, <2>3, <2>4, <2>6, <3>1, SameMoves
  <2> QED BY <2>5, <2>6
<1> QED BY <1>6, <1>7, <1>8, <1>9, <1>10 DEF EInv

-----------------------------------------------------------------------------
LEMMA EInitInvariant == EInit => EInv
  BY DEF EInit, QInit, EInv, StampsTold, OpeningsTold, EndingsTold, LiveTold, MovesTold,
         Live, ZeroRequest

\* A request event comes with every step on a request.
LEMMA RequestStepKeeps ==
    ASSUME EInv, QIInv, QIInv', RequestStepTold
    PROVE  EInv'
<1> PICK k \in RequestKeys :
        \/ \E x \in Amounts, min \in Floors, recipient \in Recipients, f \in Finalizers :
               /\ RequestWithdrawal(k, x, min, recipient, f)
               /\ Tell(WithdrawalRequested(k, request'[k]))
        \/ \E expected \in 1 .. sequence :
               \/ /\ CancelWithdrawal(k, expected)
                  /\ Tell(WithdrawalCancelled(k, request[k], Owner(k)))
               \/ /\ ExpediteRequest(k, expected)
                  /\ Tell(WithdrawalExpedited(k, request'[k], request[k].eligible_at))
               \/ \E caller \in Wallets :
                      /\ FinalizeWithdrawal(k, caller, expected)
                      /\ Tell(WithdrawalFinalized(k, request[k], caller,
                                                  queue_received(request[k].shares)))
  BY DEF RequestStepTold
<1>1. request \in [RequestKeys -> Request] /\ request' \in [RequestKeys -> Request]
  BY DEF QIInv, QueueBooks, QTypeOK
<1>2. CASE \E x \in Amounts, min \in Floors, recipient \in Recipients, f \in Finalizers :
               /\ RequestWithdrawal(k, x, min, recipient, f)
               /\ Tell(WithdrawalRequested(k, request'[k]))
  <2> PICK r : r = request'[k]
    OBVIOUS
  <2> PICK e0 : e0 = WithdrawalRequested(k, r)
    OBVIOUS
  <2>1. /\ ~Live(k) /\ sequence' = sequence + 1 /\ now' = now
        /\ request' = [request EXCEPT ![k] = r] /\ r.sequence = sequence + 1
        /\ emitted' = emitted \cup {e0}
    BY <1>1, <1>2 DEF RequestWithdrawal, Opened, Tell
  <2>2. r \in Request
    BY <1>1
  <2> QED BY <2>1, <2>2, OpeningStep
<1>3. ASSUME NEW expected \in 1 .. sequence, CancelWithdrawal(k, expected),
             Tell(WithdrawalCancelled(k, request[k], Owner(k)))
      PROVE  EInv'
  <2> PICK e0 : e0 = WithdrawalCancelled(k, request[k], Owner(k))
    OBVIOUS
  <2>1. /\ Live(k) /\ sequence' = sequence /\ now' = now
        /\ request' = [request EXCEPT ![k] = ZeroRequest]
    BY <1>3 DEF CancelWithdrawal, StampMatches, CloseRequest
  <2>2. /\ e0.kind = "finalized" \/ e0.kind = "cancelled"
        /\ e0.request = k
        /\ e0.sequence = request[k].sequence /\ emitted' = emitted \cup {e0}
    BY <1>3 DEF WithdrawalCancelled, Tell
  <2> QED BY <2>1, <2>2, EndingStep
<1>4. ASSUME NEW expected \in 1 .. sequence, ExpediteRequest(k, expected),
             Tell(WithdrawalExpedited(k, request'[k], request[k].eligible_at))
      PROVE  EInv'
  <2> PICK e0 : e0 = WithdrawalExpedited(k, request'[k], request[k].eligible_at)
    OBVIOUS
  <2>1. /\ Live(k) /\ ~IsEligible(request[k]) /\ sequence' = sequence /\ now' = now
        /\ request' = [request EXCEPT ![k].eligible_at = now]
    BY <1>4 DEF ExpediteRequest, StampMatches, counters
  <2>2. request'[k].sequence = request[k].sequence /\ request'[k].eligible_at = now
    BY <1>1, <2>1 DEF Request
  <2>3. /\ e0.kind = "expedited" /\ e0.request = k /\ e0.sequence = request[k].sequence
        /\ e0.new_eligible_at = now /\ emitted' = emitted \cup {e0}
    BY <1>4, <2>2 DEF WithdrawalExpedited, Tell
  <2> QED BY <2>1, <2>3, MoveStep
<1>5. ASSUME NEW expected \in 1 .. sequence, NEW caller \in Wallets,
             FinalizeWithdrawal(k, caller, expected),
             Tell(WithdrawalFinalized(k, request[k], caller,
                                      queue_received(request[k].shares)))
      PROVE  EInv'
  <2> PICK e0 : e0 = WithdrawalFinalized(k, request[k], caller,
                                         queue_received(request[k].shares))
    OBVIOUS
  <2>1. /\ Live(k) /\ sequence' = sequence /\ now' = now
        /\ request' = [request EXCEPT ![k] = ZeroRequest]
    BY <1>5 DEF FinalizeWithdrawal, StampMatches, CloseRequest
  <2>2. /\ e0.kind = "finalized" \/ e0.kind = "cancelled"
        /\ e0.request = k
        /\ e0.sequence = request[k].sequence /\ emitted' = emitted \cup {e0}
    BY <1>5 DEF WithdrawalFinalized, Tell
  <2> QED BY <2>1, <2>2, EndingStep
<1> QED BY <1>2, <1>3, <1>4, <1>5

LEMMA ENextInvariant ==
    ASSUME EInv, QIInv, QIInv', [ENext]_evars
    PROVE  EInv'
<1>1. ASSUME AdminStepTold PROVE EInv'
  <2>1. UNCHANGED <<request, sequence, emitted>> /\ now' = now
    BY <1>1 DEF AdminStepTold, InitializeQueue, SetCooldown, SetFulfillmentWindow,
                ReleaseVault, SweepEscrowShares, TellConfig, Silent, queue_vars, counters
  <2> QED BY <2>1, QuietStep
<1>2. ASSUME (VaultStep \/ Tick) /\ Silent PROVE EInv'
  <2>1. UNCHANGED <<request, sequence, emitted>> /\ now' \in {now, now + 1}
    BY <1>2 DEF VaultStep, Tick, Silent, queue_vars, counters
  <2> QED BY <2>1, QuietStep
<1>3. ASSUME UNCHANGED evars PROVE EInv'
  <2>1. UNCHANGED <<request, sequence, emitted>> /\ now' = now
    BY <1>3 DEF evars, qvars, queue_vars, counters
  <2> QED BY <2>1, QuietStep
<1> QED BY <1>1, <1>2, <1>3, RequestStepKeeps DEF ENext

-----------------------------------------------------------------------------
\* An indexer that has the events, in any order and any number of times, knows
\* exactly which requests are pending and on which terms.
THEOREM EventsTellRequests == ESpec => []EventsRetellRequests
<1>1. EInv /\ QIInv => EventsRetellRequests
  <2> SUFFICES ASSUME EInv, QIInv
               PROVE  Indexed = {<<k, request[k]>> : k \in LiveKeys}
    BY DEF EventsRetellRequests
  <2>1. ASSUME NEW e \in emitted, e.kind = "requested", ~Ended(e)
        PROVE  /\ e.request \in LiveKeys
               /\ TermsOf(e, IndexedEligibility(e)) = request[e.request]
    <3>1. TermsOf(e, IndexedEligibility(e)) = request[e.request]
      BY <2>1 DEF EInv, OpeningsTold
    <3>2. e.request \in RequestKeys /\ e.sequence # 0
      BY DEF EInv, StampsTold
    <3> QED BY <3>1, <3>2, TermsProject DEF LiveKeys, Live
  <2>2. ASSUME NEW k \in LiveKeys
        PROVE  \E e \in emitted : e.kind = "requested" /\ ~Ended(e) /\ e.request = k
    <3>1. PICK e \in emitted : /\ e.kind = "requested" /\ e.request = k
                               /\ e.sequence = request[k].sequence
      BY DEF EInv, LiveTold, LiveKeys
    <3>2. ~Ended(e)
      BY <3>1 DEF Ended, About, EInv, EndingsTold
    <3> QED BY <3>1, <3>2
  <2> QED BY <2>1, <2>2 DEF Indexed
<1>2. EInit => EInv
  BY EInitInvariant
<1>3. EInv /\ QIInv /\ QIInv' /\ [ENext]_evars => EInv'
  BY ENextInvariant
<1> QED BY <1>1, <1>2, <1>3, EventsInvariance, PTL DEF ESpec

-----------------------------------------------------------------------------
(* The configuration *)

\* A queue once created stays, and only its own instructions set its times.
LEMMA ConfigStep ==
    ASSUME RequestStepTold \/ ((VaultStep \/ Tick) /\ Silent) \/ UNCHANGED evars
    PROVE  UNCHANGED <<last_config, queue_exists, cooldown_seconds, fulfillment_window_seconds>>
<1>1. CASE RequestStepTold
  <2>1. PICK k \in RequestKeys :
            \/ \E x \in Amounts, min \in Floors, recipient \in Recipients, f \in Finalizers :
                   RequestWithdrawal(k, x, min, recipient, f)
            \/ \E e \in 1 .. sequence : CancelWithdrawal(k, e)
            \/ \E e \in 1 .. sequence : ExpediteRequest(k, e)
            \/ \E e \in 1 .. sequence, caller \in Wallets : FinalizeWithdrawal(k, caller, e)
    BY <1>1 DEF RequestStepTold
  <2>2. UNCHANGED <<cooldown_seconds, fulfillment_window_seconds>>
    BY <2>1 DEF RequestWithdrawal, CancelWithdrawal, ExpediteRequest, FinalizeWithdrawal,
                CloseRequest, queue_config
  <2>3. queue_exists' = queue_exists
    BY <2>1 DEF RequestWithdrawal, CancelWithdrawal, ExpediteRequest, FinalizeWithdrawal,
                TransferShares, QueueRedeem, Redemption, vars, config, gate
  <2>4. last_config' = last_config
    BY <1>1 DEF RequestStepTold, Tell
  <2> QED BY <2>2, <2>3, <2>4
<1>2. CASE (VaultStep \/ Tick) /\ Silent
  <2>1. last_config' = last_config
    BY <1>2 DEF Silent
  <2>2. CASE Tick
    BY <2>1, <2>2 DEF Tick, vars, config, gate, queue_config
  <2>3. CASE VaultStep
    <3>1. UNCHANGED <<cooldown_seconds, fulfillment_window_seconds>>
      BY <2>3 DEF VaultStep, queue_vars, queue_config
    <3>2. ASSUME HolderStep PROVE queue_exists' = queue_exists
      BY <3>2 DEF HolderStep, Deposit, Redeem, Redemption, config, gate
    <3>3. ASSUME OperatorStep PROVE queue_exists' = queue_exists
      BY <3>3 DEF OperatorStep, OperatorWithdraw, OperatorDeposit, OperatorUpdateAum,
                  config, gate
    <3>4. ASSUME RegistryStep PROVE queue_exists' = queue_exists
      BY <3>4 DEF RegistryStep, RegisterSubaccount, DeregisterSubaccount,
                  SettleSubaccountLoss, config, gate
    <3>5. ASSUME SettingStep PROVE queue_exists' = queue_exists
      BY <3>5 DEF SettingStep, SetOperator, SetFeeRecipient, SetWithdrawalFee, SetAumLimits,
                  Pause, Unpause, AttachWithdrawalQueue, CloseVault, gate
    <3>6. ASSUME TokenStep PROVE queue_exists' = queue_exists
      BY <3>6 DEF TokenStep, TransferAssets, TransferShares, BurnShares, Approve,
                  config, gate
    <3>7. queue_exists' = queue_exists
      BY <2>3, <3>2, <3>3, <3>4, <3>5, <3>6 DEF VaultStep
    <3> QED BY <2>1, <3>1, <3>7
  <2> QED BY <1>2, <2>2, <2>3
<1>3. CASE UNCHANGED evars
  BY <1>3 DEF evars, qvars, vars, config, gate, queue_vars, queue_config
<1> QED BY <1>1, <1>2, <1>3

\* The latest configuration event is the configuration.
THEOREM ConfigTold == ESpec => []LastEventIsConfig
<1>1. EInit => LastEventIsConfig
  BY DEF EInit, QInit, Init, NoEvent, LastEventIsConfig
<1>2. ASSUME LastEventIsConfig, [ENext]_evars PROVE LastEventIsConfig'
  <2>1. CASE AdminStepTold
    <3>1. ASSUME NEW s \in Cooldowns, InitializeQueue(s), TellConfig(QueueInitialized(s))
          PROVE  LastEventIsConfig'
      BY <3>1 DEF InitializeQueue, TellConfig, QueueInitialized, LastEventIsConfig
    <3>2. ASSUME TellConfig(QueueConfigUpdated) PROVE LastEventIsConfig'
      BY <3>2 DEF TellConfig, QueueConfigUpdated, LastEventIsConfig
    <3>3. ASSUME ReleaseVault \/ \E destination \in Wallets : SweepEscrowShares(destination),
                 Silent
          PROVE  LastEventIsConfig'
      <4>1. UNCHANGED <<last_config, queue_exists, cooldown_seconds, fulfillment_window_seconds>>
        BY <3>3 DEF ReleaseVault, SweepEscrowShares, DetachWithdrawalQueue, TransferShares,
                    config, gate, queue_vars, queue_config, Silent
      <4> QED BY <1>2, <4>1 DEF LastEventIsConfig
    <3> QED BY <2>1, <3>1, <3>2, <3>3 DEF AdminStepTold
  <2>2. CASE RequestStepTold \/ ((VaultStep \/ Tick) /\ Silent) \/ UNCHANGED evars
    <3>1. UNCHANGED <<last_config, queue_exists, cooldown_seconds, fulfillment_window_seconds>>
      BY <2>2, ConfigStep
    <3> QED BY <1>2, <3>1 DEF LastEventIsConfig
  <2> QED BY <1>2, <2>1, <2>2 DEF ENext
<1> QED BY <1>1, <1>2, PTL DEF ESpec

-----------------------------------------------------------------------------
(* The payouts *)

\* A finalization credits its payee with what the escrow received, and with
\* the fee if the fee is the payee's.
LEMMA PayeeCredited ==
    ASSUME IInv, NEW payee \in Keys, payee \notin {QueuePDA, VaultPDA}, NEW x \in Nat,
           QueueRedeem(payee, x)
    PROVE  asset_balance'[payee] - asset_balance[payee] =
               queue_received(x) + (IF payee = fee_recipient
                                    THEN redeem_fees(redeem_assets(x)) ELSE 0)
<1> DEFINE fees  == redeem_fees(redeem_assets(x))
           final == net_assets(redeem_assets(x))
<1>0. /\ VaultPDA \in Keys /\ QueuePDA \in Keys /\ fee_recipient \in Keys
      /\ asset_balance \in [Keys -> Nat] /\ QueuePDA # VaultPDA
      /\ Redemption(QueuePDA, x, 0)
  BY KeyFacts, ConstantsAssumption DEF IInv, TypeOK, QueueRedeem
<1>1. /\ redeem_assets(x) \in Nat /\ AfterRedeem(QueuePDA, x) \in [Keys -> Nat]
      /\ AfterRedeem(QueuePDA, x)[QueuePDA] >= asset_balance[QueuePDA]
  BY <1>0, PayoutFacts
<1>2. fees \in Nat /\ final \in Nat /\ fees + final <= asset_balance[VaultPDA]
  <2>1. redeem_assets(x) * withdrawal_fee \in Nat /\ FeeDenominator \in Nat \ {0}
    BY <1>1, ConstantsAssumption DEF IInv, TypeOK
  <2>2. fees \in Nat
    BY <2>1, DivBounds DEF redeem_fees, CeilDiv
  <2>3. fees <= redeem_assets(x) /\ redeem_assets(x) <= asset_balance[VaultPDA]
    BY <1>0 DEF Redemption
  <2> QED BY <1>1, <2>2, <2>3 DEF net_assets
<1>3. PICK b \in [Keys -> Nat] :
          /\ b = Move(asset_balance, VaultPDA, fee_recipient, fees)
          /\ \A k \in Keys : b[k] = asset_balance[k] - (IF k = VaultPDA THEN fees ELSE 0)
                                   + (IF k = fee_recipient THEN fees ELSE 0)
  <2>1. fees <= asset_balance[VaultPDA] /\ fees \in Nat
    BY <1>0, <1>2
  <2> HIDE DEF fees
  <2> QED BY <1>0, <2>1, MoveBalances
<1>4. PICK g \in [Keys -> Nat] : g = AfterRedeem(QueuePDA, x)
  BY <1>1
<1>5. g = Move(b, VaultPDA, QueuePDA, final)
  BY <1>3, <1>4 DEF AfterRedeem
<1>6. PICK n \in Nat : n = queue_received(x) /\ n <= g[QueuePDA]
  BY <1>0, <1>1, <1>4 DEF queue_received
<1>7. asset_balance' = Move(g, QueuePDA, payee, n)
  BY <1>4, <1>6 DEF QueueRedeem
<1> HIDE DEF fees, final
<1>8. b[payee] = asset_balance[payee] + (IF payee = fee_recipient THEN fees ELSE 0)
  BY <1>0, <1>2, <1>3
<1>9. g[payee] = b[payee]
  <2>1. b[VaultPDA] >= final
    BY <1>0, <1>2, <1>3
  <2> QED BY <1>0, <1>2, <1>5, <2>1, MoveBalances
<1>10. asset_balance'[payee] = g[payee] + n
  BY <1>0, <1>6, <1>7, MoveBalances
<1> QED BY <1>0, <1>2, <1>6, <1>8, <1>9, <1>10 DEF fees

\* Only a finalization adds a "finalized" event, and it reports the payout.
LEMMA ReportStep ==
    ASSUME QIInv, [ENext]_evars, NEW e \in emitted' \ emitted, e.kind = "finalized"
    PROVE  asset_balance'[e.recipient] - asset_balance[e.recipient] =
               e.assets + (IF e.recipient = fee_recipient
                           THEN redeem_fees(redeem_assets(e.shares)) ELSE 0)
<1>1. RequestStepTold
  BY DEF ENext, AdminStepTold, TellConfig, Silent, evars
<1>2. PICK k \in RequestKeys, expected \in 1 .. sequence, caller \in Wallets :
          /\ FinalizeWithdrawal(k, caller, expected)
          /\ Tell(WithdrawalFinalized(k, request[k], caller, queue_received(request[k].shares)))
  BY <1>1 DEF RequestStepTold, Tell, WithdrawalRequested, WithdrawalCancelled,
              WithdrawalExpedited
<1>3. e = WithdrawalFinalized(k, request[k], caller, queue_received(request[k].shares))
  BY <1>2 DEF Tell
<1>4. /\ e.recipient = request[k].recipient /\ e.shares = request[k].shares
      /\ e.assets = queue_received(request[k].shares)
  BY <1>3 DEF WithdrawalFinalized
<1>5. PICK r : r = request[k].recipient
  OBVIOUS
<1>6. PICK x : x = request[k].shares
  OBVIOUS
<1>7. /\ IInv /\ r \in Keys /\ r \notin {QueuePDA, VaultPDA} /\ x \in Nat
      /\ QueueRedeem(r, x)
  <2>1. Live(k) /\ ValidRecipient(r) /\ QueueRedeem(r, x)
    BY <1>2, <1>5, <1>6 DEF FinalizeWithdrawal, StampMatches
  <2>2. request[k] # ZeroRequest
    BY <2>1, ZeroRequestFacts DEF Live
  <2> QED BY <1>5, <1>6, <2>1, <2>2
          DEF QIInv, QueueBooks, RequestsWellFormed, QTypeOK, Request, ValidRecipient
<1> QED BY <1>4, <1>5, <1>6, <1>7, PayeeCredited

\* A finalization's event says what reached the recipient.
THEOREM PayoutsTold == ESpec => PaidAsReported
<1>1. QIInv /\ [ENext]_evars =>
        [\A e \in emitted' \ emitted :
          e.kind = "finalized" =>
              asset_balance'[e.recipient] - asset_balance[e.recipient] =
                  e.assets + (IF e.recipient = fee_recipient
                              THEN redeem_fees(redeem_assets(e.shares)) ELSE 0)]_evars
  BY ReportStep
<1> QED BY <1>1, EventsInvariance, PTL DEF ESpec, PaidAsReported
=============================================================================
