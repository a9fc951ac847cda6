---------------------------- MODULE QueueProofs ----------------------------
(***************************************************************************)
(* The queue program on top of the vault: the pair implements the vault's  *)
(* own specification, the queue's books are always right, and no step of   *)
(* either program takes from a request's owner what the request promises.  *)
(***************************************************************************)
EXTENDS QueuedVault, VaultProofs

\* A request account is either zero-filled or holds shares for a recipient.
RequestsWellFormed ==
    \A k \in RequestKeys :
        \/ request[k] = ZeroRequest
        \/ Live(k) /\ request[k].shares > 0 /\ request[k].recipient \in Keys

\* Stamps come from the counter.
StampsIssued == \A p \in opened : p[2].sequence \in 1 .. sequence

\* The queue's own part of the invariant, and the whole.
QueueBooks ==
    QTypeOK /\ EscrowCoversPending /\ RequestsWellFormed /\ StampPinsTerms /\ StampsIssued
QIInv == IInv /\ QueueBooks

-----------------------------------------------------------------------------
\* Owners hold wallets, and there are finitely many request addresses.
LEMMA RequestKeyFacts ==
    /\ IsFiniteSet(RequestKeys)
    /\ \A k \in RequestKeys : Owner(k) \in Wallets /\ Owner(k) \in Keys /\ Owner(k) # QueuePDA
<1>1. IsFiniteSet(RequestKeys)
  BY QueueConstantsAssumption
<1>2. \A k \in RequestKeys : Owner(k) \in Depositors
  BY DEF RequestKeys, Owner
<1> QED BY <1>1, <1>2, ConstantsAssumption, KeyFacts DEF Wallets

\* The zero-filled record is a record, and not a live one.
LEMMA ZeroRequestFacts ==
    ZeroRequest \in Request /\ ZeroRequest.sequence = 0 /\ ZeroRequest.shares = 0
BY DEF ZeroRequest, Request

\* A transfer out of one account changes no third account, and what it takes
\* and gives is its amount.
LEMMA ShareMoves ==
    ASSUME IInv, NEW from \in Keys, NEW to \in Keys, NEW n \in Nat, TransferShares(from, to, n)
    PROVE  /\ from # QueuePDA => share_balance'[QueuePDA] >= share_balance[QueuePDA]
           /\ to = QueuePDA /\ from # QueuePDA =>
                  share_balance'[QueuePDA] = share_balance[QueuePDA] + n
           /\ from = QueuePDA => share_balance'[QueuePDA] >= share_balance[QueuePDA] - n
           /\ from = QueuePDA /\ to # QueuePDA => share_balance'[to] = share_balance[to] + n
<1>1. /\ n <= share_balance[from] /\ share_balance' = Move(share_balance, from, to, n)
  BY DEF TransferShares
<1>2. share_balance \in [Keys -> Nat] /\ QueuePDA \in Keys
  BY KeyFacts DEF IInv, TypeOK
<1>3. PICK g \in [Keys -> Nat] : g = share_balance
  BY <1>2
<1>4. \A k \in Keys : Move(g, from, to, n)[k] =
          g[k] - (IF k = from THEN n ELSE 0) + (IF k = to THEN n ELSE 0)
  BY <1>1, <1>3, MoveBalances
<1> QED BY <1>1, <1>2, <1>3, <1>4

\* Only the queue program takes shares out of the escrow.
LEMMA EscrowOnlyGrows ==
    ASSUME IInv, HolderStep \/ OperatorStep \/ RegistryStep \/ SettingStep \/ TokenStep
    PROVE  share_balance'[QueuePDA] >= share_balance[QueuePDA]
<1>0. /\ share_balance \in [Keys -> Nat] /\ QueuePDA \in Keys /\ QueuePDA \notin Wallets
      /\ Depositors \subseteq Wallets /\ Wallets \subseteq Keys /\ Amounts \subseteq Nat
  BY KeyFacts, ConstantsAssumption DEF IInv, TypeOK, Wallets
<1>1. CASE HolderStep
  <2>1. PICK u \in Depositors, n \in Amounts, min \in MinOuts :
            Deposit(u, n, min) \/ Redeem(u, n, min)
    BY <1>1 DEF HolderStep
  <2>2. u # QueuePDA /\ u \in Keys
    BY <1>0
  <2>3. \E m : share_balance' = Credit(share_balance, u, m) \/ share_balance' = Debit(share_balance, u, m)
    BY <2>1 DEF Deposit, Redeem, Redemption
  <2> QED BY <1>0, <2>2, <2>3 DEF Credit, Debit
<1>2. CASE OperatorStep
  BY <1>0, <1>2 DEF OperatorStep, OperatorWithdraw, OperatorDeposit, OperatorUpdateAum, shares
<1>3. CASE RegistryStep
  BY <1>0, <1>3 DEF RegistryStep, RegisterSubaccount, DeregisterSubaccount, SettleSubaccountLoss, shares
<1>4. CASE SettingStep
  BY <1>0, <1>4 DEF SettingStep, SetOperator, SetFeeRecipient, SetWithdrawalFee, SetAumLimits,
     Pause, Unpause, AttachWithdrawalQueue, CloseVault, funds, shares
<1>5. CASE TokenStep
  <2>1. CASE \E from \in Wallets, to \in Keys, n \in Amounts : TransferShares(from, to, n)
    <3>1. PICK from \in Wallets, to \in Keys, n \in Amounts : TransferShares(from, to, n)
      BY <2>1
    <3>2. from \in Keys /\ from # QueuePDA /\ n \in Nat
      BY <1>0
    <3> QED BY <3>1, <3>2, ShareMoves
  <2>2. CASE \E k \in Wallets, n \in Amounts : BurnShares(k, n)
    <3>1. PICK k \in Wallets, n \in Amounts : share_balance' = Debit(share_balance, k, n)
      BY <2>2 DEF BurnShares
    <3>2. k # QueuePDA
      BY <1>0
    <3> QED BY <1>0, <3>1, <3>2 DEF Debit
  <2>3. CASE UNCHANGED share_balance
    BY <1>0, <2>3
  <2> QED BY <1>5, <2>1, <2>2, <2>3 DEF TokenStep, TransferAssets, Approve, shares
<1> QED BY <1>1, <1>2, <1>3, <1>4, <1>5

-----------------------------------------------------------------------------
\* Whatever the queue program does to the vault and to the escrow, the vault's
\* specification allows.
LEMMA QueueStepRefines ==
    ASSUME QIInv, [QNext]_qvars
    PROVE  [Next]_vars
<1>0. /\ share_balance \in [Keys -> Nat] /\ pending_shares \in Nat
      /\ QueuePDA \in Keys /\ Wallets \subseteq Keys
  BY KeyFacts, ConstantsAssumption DEF QIInv, IInv, TypeOK, QueueBooks, QTypeOK
<1>1. CASE QueueAdminStep
  <2>1. ASSUME NEW s \in Cooldowns, InitializeQueue(s) PROVE Next
    BY <2>1 DEF InitializeQueue, Next, QueueProgramStep
  <2>2. ASSUME NEW d \in Wallets, SweepEscrowShares(d) PROVE Next
    <3>1. stray > 0 /\ TransferShares(QueuePDA, d, stray)
      BY <2>2 DEF SweepEscrowShares
    <3>2. stray \in 1 .. share_balance[QueuePDA] /\ d \in Keys
      BY <1>0, <3>1 DEF stray
    <3> QED BY <3>1, <3>2 DEF Next, QueueProgramStep
  <2>3. ASSUME ReleaseVault PROVE Next
    BY <2>3 DEF ReleaseVault, Next, QueueProgramStep
  <2> QED BY <1>1, <2>1, <2>2, <2>3 DEF QueueAdminStep, SetCooldown, SetFulfillmentWindow
<1>2. CASE RequestStep
  <2>1. PICK k \in RequestKeys :
            \/ \E x \in Amounts, min \in Floors, recipient \in Recipients, f \in Finalizers :
                   RequestWithdrawal(k, x, min, recipient, f)
            \/ \E e \in 1 .. sequence : CancelWithdrawal(k, e)
            \/ \E e \in 1 .. sequence : ExpediteRequest(k, e)
            \/ \E e \in 1 .. sequence, caller \in Wallets : FinalizeWithdrawal(k, caller, e)
    BY <1>2 DEF RequestStep
  <2>2. Owner(k) \in Wallets /\ Owner(k) \in Keys /\ request[k] \in Request
    BY RequestKeyFacts DEF QIInv, QueueBooks, QTypeOK
  <2>3. ASSUME NEW x \in Amounts, TransferShares(Owner(k), QueuePDA, x) PROVE Next
    BY <1>0, <2>2, <2>3 DEF Next, TokenStep
  <2>4. ASSUME TransferShares(QueuePDA, Owner(k), request[k].shares) PROVE Next
    <3>1. request[k].shares \in 1 .. share_balance[QueuePDA]
      BY <1>0, <2>2, <2>4 DEF TransferShares, Request
    <3> QED BY <2>2, <2>4, <3>1 DEF Next, QueueProgramStep
  <2>5. ASSUME Live(k), QueueRedeem(request[k].recipient, request[k].shares) PROVE Next
    <3>1. request[k].shares \in 1 .. share_balance[QueuePDA]
      BY <1>0, <2>2, <2>5 DEF QueueRedeem, Redemption, Request
    <3>2. request[k].recipient \in Keys
      BY <2>5, ZeroRequestFacts DEF QIInv, QueueBooks, RequestsWellFormed, Live
    <3> QED BY <2>5, <3>1, <3>2 DEF Next, QueueProgramStep
  <2> QED BY <2>1, <2>3, <2>4, <2>5
          DEF RequestWithdrawal, CancelWithdrawal, ExpediteRequest, FinalizeWithdrawal, StampMatches
<1>3. CASE VaultStep
  BY <1>3 DEF VaultStep, Next
<1>4. CASE Tick \/ UNCHANGED qvars
  BY <1>4 DEF Tick, qvars
<1> QED BY <1>1, <1>2, <1>3, <1>4 DEF QNext

-----------------------------------------------------------------------------
\* Replacing one request changes the sum of the requested shares by the
\* difference.
LEMMA SharesOfReplaced ==
    ASSUME QTypeOK, NEW k \in RequestKeys, NEW r \in Request,
           request' = [request EXCEPT ![k] = r]
    PROVE  /\ Total(shares_of) \in Nat /\ request[k].shares <= Total(shares_of)
           /\ Total(shares_of') = Total(shares_of) - request[k].shares + r.shares
<1>1. IsFiniteSet(RequestKeys)
  BY RequestKeyFacts
<1>2. shares_of \in [RequestKeys -> Nat] /\ shares_of[k] = request[k].shares /\ r.shares \in Nat
  BY DEF QTypeOK, Request, shares_of
<1>3. shares_of' = [shares_of EXCEPT ![k] = r.shares]
  BY DEF QTypeOK, Request, shares_of
<1>4. PICK h \in [RequestKeys -> Nat] : h = shares_of
  BY <1>2
<1>5. Total(h) \in Nat /\ h[k] <= Total(h)
  BY <1>1, TotalIsNatural
<1>6. Total([h EXCEPT ![k] = r.shares]) = Total(h) - h[k] + r.shares
  BY <1>1, <1>2, TotalUpdate
<1> QED BY <1>2, <1>3, <1>4, <1>5, <1>6

\* The live requests are finitely many, and opening or closing one counts one.
LEMMA LiveKeysCounted ==
    ASSUME QTypeOK, NEW k \in RequestKeys, NEW r \in Request,
           request' = [request EXCEPT ![k] = r]
    PROVE  /\ Cardinality(LiveKeys) \in Nat
           /\ ~Live(k) /\ r.sequence # 0 => Cardinality(LiveKeys') = Cardinality(LiveKeys) + 1
           /\ Live(k) /\ r.sequence = 0 => Cardinality(LiveKeys') = Cardinality(LiveKeys) - 1
<1>1. IsFiniteSet(LiveKeys)
  BY RequestKeyFacts, FS_Subset DEF LiveKeys
<1>2. ~Live(k) /\ r.sequence # 0 => LiveKeys' = LiveKeys \cup {k} /\ k \notin LiveKeys
  BY DEF QTypeOK, LiveKeys, Live
<1>3. Live(k) /\ r.sequence = 0 => LiveKeys' = LiveKeys \ {k} /\ k \in LiveKeys
  BY DEF QTypeOK, LiveKeys, Live
<1> QED BY <1>1, <1>2, <1>3, FS_CardinalityType, FS_AddElement, FS_RemoveElement

\* Steps that leave requests and counters alone.
LEMMA IdleBooks ==
    ASSUME QueueBooks, UNCHANGED <<request, counters, opened>>,
           share_balance'[QueuePDA] >= pending_shares,
           cooldown_seconds' \in Nat, fulfillment_window_seconds' \in Nat, now' \in 1 .. MaxTime
    PROVE  QueueBooks'
<1>1. QTypeOK'
  BY DEF QueueBooks, QTypeOK, counters
<1>2. EscrowCoversPending'
  BY DEF QueueBooks, EscrowCoversPending, counters, shares_of, LiveKeys, Live
<1>3. RequestsWellFormed' /\ StampPinsTerms' /\ StampsIssued'
  BY DEF QueueBooks, RequestsWellFormed, StampPinsTerms, StampsIssued, IsRequest, LiveKeys, Live, counters
<1> QED BY <1>1, <1>2, <1>3 DEF QueueBooks

\* Opening a request.
LEMMA OpenBooks ==
    ASSUME QIInv, NEW k \in RequestKeys, NEW x \in Amounts, NEW min \in Floors,
           NEW recipient \in Recipients, NEW f \in Finalizers,
           RequestWithdrawal(k, x, min, recipient, f)
    PROVE  QueueBooks'
<1> DEFINE r == Opened(x, min, recipient, f)
<1>0. /\ QTypeOK /\ x \in Nat /\ x > 0 /\ ~Live(k) /\ pending_shares + x <= U64Max
      /\ sequence < MaxSequence /\ pending_requests < MaxSequence
      /\ sequence' = sequence + 1 /\ pending_requests' = pending_requests + 1
      /\ pending_shares' = pending_shares + x
      /\ request' = [request EXCEPT ![k] = r]
      /\ opened' = opened \cup {<<k, r>>}
      /\ UNCHANGED <<cooldown_seconds, fulfillment_window_seconds, now>>
      /\ TransferShares(Owner(k), QueuePDA, x)
  BY ConstantsAssumption DEF QIInv, QueueBooks, RequestWithdrawal, queue_config
<1>1. /\ r \in Request /\ r.sequence = sequence + 1 /\ r.shares = x /\ r.recipient \in Keys
  <2>1. /\ min \in Nat /\ recipient \in Keys /\ f \in Wallets \cup {NoKey}
        /\ sequence \in Nat /\ now \in Nat /\ cooldown_seconds \in Nat
        /\ fulfillment_window_seconds \in Nat /\ MaxTime \in Nat
    BY <1>0, QueueConstantsAssumption DEF QTypeOK
  <2> QED BY <1>0, <2>1 DEF Opened, Request
<1>2. PICK q \in Request : q = r
  BY <1>1
<1>3. QTypeOK'
  BY <1>0, <1>1, <1>2, QueueConstantsAssumption, ConstantsAssumption DEF QTypeOK
<1>4. EscrowCoversPending'
  <2>1. request[k].shares = 0
    BY <1>0, ZeroRequestFacts DEF QIInv, QueueBooks, RequestsWellFormed
  <2>0. request' = [request EXCEPT ![k] = q] /\ q.shares = x /\ q.sequence # 0
    BY <1>0, <1>1, <1>2 DEF QTypeOK
  <2>2. Total(shares_of') = Total(shares_of) + x /\ Total(shares_of) \in Nat
    <3>1. /\ Total(shares_of) \in Nat
          /\ Total(shares_of') = Total(shares_of) - request[k].shares + q.shares
      BY <1>0, <2>0, SharesOfReplaced
    <3> QED BY <1>0, <2>0, <2>1, <3>1
  <2>3. Cardinality(LiveKeys') = Cardinality(LiveKeys) + 1
    BY <1>0, <2>0, LiveKeysCounted
  <2>4. share_balance'[QueuePDA] = share_balance[QueuePDA] + x
    BY <1>0, RequestKeyFacts, KeyFacts, ShareMoves DEF QIInv
  <2>5. share_balance[QueuePDA] \in Nat
    BY KeyFacts DEF QIInv, IInv, TypeOK
  <2> QED BY <1>0, <2>2, <2>3, <2>4, <2>5 DEF QIInv, QueueBooks, EscrowCoversPending, QTypeOK
<1>5. RequestsWellFormed'
  BY <1>0, <1>1, <1>2 DEF QIInv, QueueBooks, RequestsWellFormed, QTypeOK, Live
<1>6. StampsIssued'
  BY <1>0, <1>1 DEF QIInv, QueueBooks, StampsIssued, QTypeOK
<1>7. StampPinsTerms'
  <2>1. \A p1, p2 \in opened' : p1[2].sequence = p2[2].sequence => p1 = p2
    BY <1>0, <1>1 DEF QIInv, QueueBooks, StampPinsTerms, StampsIssued, QTypeOK
  <2>2. ASSUME NEW j \in LiveKeys' PROVE \E p \in opened' : IsRequest(j, p)'
    <3>1. CASE j = k
      <4>1. request'[k] = q /\ <<k, q>> \in opened' /\ q.eligible_at \in Nat
        BY <1>0, <1>2 DEF QTypeOK, Request
      <4>2. q = [q EXCEPT !.eligible_at = q.eligible_at]
        BY DEF Request
      <4>3. IsRequest(k, <<k, q>>)'
        BY <4>1, <4>2 DEF IsRequest
      <4> QED BY <3>1, <4>1, <4>3
    <3>2. CASE j # k
      <4>1. j \in LiveKeys /\ request'[j] = request[j]
        BY <1>0, <3>2 DEF LiveKeys, Live, QTypeOK
      <4>2. PICK p \in opened : IsRequest(j, p)
        BY <4>1 DEF QIInv, QueueBooks, StampPinsTerms
      <4> QED BY <1>0, <4>1, <4>2 DEF IsRequest
    <3> QED BY <3>1, <3>2
  <2> QED BY <2>1, <2>2 DEF StampPinsTerms
<1> QED BY <1>3, <1>4, <1>5, <1>6, <1>7 DEF QueueBooks

\* Closing one, by whichever way its shares leave the escrow.
LEMMA CloseBooks ==
    ASSUME QIInv, IInv', NEW k \in RequestKeys, Live(k), CloseRequest(k),
           share_balance'[QueuePDA] >= share_balance[QueuePDA] - request[k].shares
    PROVE  QueueBooks'
<1>0. /\ QTypeOK /\ request[k] \in Request
      /\ pending_requests >= 1 /\ pending_shares >= request[k].shares
      /\ pending_requests' = pending_requests - 1
      /\ pending_shares' = pending_shares - request[k].shares
      /\ request' = [request EXCEPT ![k] = ZeroRequest]
      /\ UNCHANGED <<sequence, cooldown_seconds, fulfillment_window_seconds, now, opened>>
  BY DEF QIInv, QueueBooks, CloseRequest, queue_config, QTypeOK
<1>1. ZeroRequest \in Request /\ ZeroRequest.sequence = 0 /\ ZeroRequest.shares = 0
  BY ZeroRequestFacts
<1>2. PICK z \in Request : z = ZeroRequest /\ z.sequence = 0 /\ z.shares = 0
  BY <1>1
<1>3. request[k].shares \in Nat
  BY <1>0 DEF Request
<1>4. QTypeOK'
  <2>1. request' \in [RequestKeys -> Request]
    BY <1>0, <1>2 DEF QTypeOK
  <2>2. pending_requests' \in 0 .. MaxSequence /\ pending_shares' \in 0 .. U64Max
    BY <1>0, <1>3, QueueConstantsAssumption, ConstantsAssumption DEF QTypeOK
  <2> QED BY <1>0, <2>1, <2>2 DEF QTypeOK
<1>5. EscrowCoversPending'
  <2>0. request' = [request EXCEPT ![k] = z]
    BY <1>0, <1>2
  <2>1. Total(shares_of') = Total(shares_of) - request[k].shares /\ Total(shares_of) \in Nat
    <3>1. /\ Total(shares_of) \in Nat
          /\ Total(shares_of') = Total(shares_of) - request[k].shares + z.shares
      BY <1>0, <2>0, SharesOfReplaced
    <3> QED BY <1>2, <1>3, <3>1
  <2>2. Cardinality(LiveKeys') = Cardinality(LiveKeys) - 1
    BY <1>0, <1>2, <2>0, LiveKeysCounted
  <2>3. /\ share_balance[QueuePDA] \in Nat /\ share_balance'[QueuePDA] \in Nat
    BY KeyFacts DEF QIInv, IInv, TypeOK
  <2>4. pending_shares' <= share_balance'[QueuePDA]
    BY <1>0, <1>3, <2>3 DEF QIInv, QueueBooks, EscrowCoversPending, QTypeOK
  <2> QED BY <1>0, <2>1, <2>2, <2>4 DEF QIInv, QueueBooks, EscrowCoversPending
<1>6. RequestsWellFormed'
  BY <1>0, <1>1 DEF QIInv, QueueBooks, RequestsWellFormed, QTypeOK, Live
<1>7. StampsIssued'
  BY <1>0 DEF QIInv, QueueBooks, StampsIssued
<1>8. StampPinsTerms'
  <2>1. \A j \in LiveKeys' : j \in LiveKeys /\ request'[j] = request[j]
    BY <1>0, <1>1 DEF LiveKeys, Live, QTypeOK
  <2>2. ASSUME NEW j \in LiveKeys' PROVE \E p \in opened' : IsRequest(j, p)'
    <3>1. PICK p \in opened : IsRequest(j, p)
      BY <2>1, <2>2 DEF QIInv, QueueBooks, StampPinsTerms
    <3> QED BY <1>0, <2>1, <2>2, <3>1 DEF IsRequest
  <2> QED BY <1>0, <2>2 DEF QIInv, QueueBooks, StampPinsTerms
<1> QED BY <1>4, <1>5, <1>6, <1>7, <1>8 DEF QueueBooks

\* Bringing eligibility forward.
LEMMA ExpediteBooks ==
    ASSUME QIInv, NEW k \in RequestKeys, NEW e \in 1 .. sequence, ExpediteRequest(k, e)
    PROVE  QueueBooks'
<1>0. /\ QTypeOK /\ request[k] \in Request /\ Live(k) /\ now \in Nat
      /\ request' = [request EXCEPT ![k].eligible_at = now]
      /\ ~(now >= request[k].eligible_at)
      /\ UNCHANGED <<share_balance, sequence, pending_requests, pending_shares,
                    cooldown_seconds, fulfillment_window_seconds, now, opened>>
  BY QueueConstantsAssumption DEF QIInv, QueueBooks, ExpediteRequest, StampMatches, IsEligible,
     counters, queue_config, vars, shares, QTypeOK
<1>1. PICK q \in Request : q = [request[k] EXCEPT !.eligible_at = now]
  BY <1>0 DEF Request
<1>2. request' = [request EXCEPT ![k] = q]
  BY <1>0, <1>1 DEF QTypeOK
<1>3. /\ q.shares = request[k].shares /\ q.sequence = request[k].sequence
      /\ q.recipient = request[k].recipient /\ q.eligible_at = now
  BY <1>0, <1>1 DEF Request
<1>4. request' \in [RequestKeys -> Request] /\ request'[k] = q
      /\ \A j \in RequestKeys : j # k => request'[j] = request[j]
  BY <1>0, <1>2 DEF QTypeOK
<1>5. QTypeOK'
  BY <1>0, <1>4 DEF QTypeOK
<1>6. EscrowCoversPending'
  <2>1. shares_of' = shares_of
    BY <1>3, <1>4 DEF shares_of
  <2>2. LiveKeys' = LiveKeys
    BY <1>3, <1>4 DEF LiveKeys, Live
  <2> QED BY <1>0, <2>1, <2>2 DEF QIInv, QueueBooks, EscrowCoversPending
<1>7. RequestsWellFormed'
  <2>1. Live(k) /\ request[k].shares > 0 /\ request[k].recipient \in Keys
    BY <1>0, ZeroRequestFacts DEF QIInv, QueueBooks, RequestsWellFormed, Live
  <2> QED BY <1>3, <1>4, <2>1 DEF QIInv, QueueBooks, RequestsWellFormed, Live
<1>8. StampsIssued'
  BY <1>0 DEF QIInv, QueueBooks, StampsIssued
<1>9. StampPinsTerms'
  <2>1. LiveKeys' = LiveKeys
    BY <1>3, <1>4 DEF LiveKeys, Live
  <2>2. ASSUME NEW j \in LiveKeys' PROVE \E p \in opened' : IsRequest(j, p)'
    <3>1. PICK p \in opened : IsRequest(j, p)
      BY <2>1, <2>2 DEF QIInv, QueueBooks, StampPinsTerms
    <3>2. CASE j = k
      <4>1. p[2] \in Request /\ p \in opened'
        BY <1>0 DEF QTypeOK
      <4>2. /\ request[k].eligible_at <= p[2].eligible_at
            /\ request[k] = [p[2] EXCEPT !.eligible_at = request[k].eligible_at]
        BY <3>1, <3>2 DEF IsRequest
      <4>3. q = [p[2] EXCEPT !.eligible_at = now]
        BY <1>1, <4>1, <4>2 DEF Request
      <4>4. now <= p[2].eligible_at
        BY <1>0, <4>1, <4>2 DEF Request
      <4> QED BY <1>3, <1>4, <3>1, <3>2, <4>1, <4>3, <4>4 DEF IsRequest
    <3>3. CASE j # k
      BY <1>0, <1>4, <2>1, <2>2, <3>1, <3>3 DEF IsRequest, LiveKeys
    <3> QED BY <3>2, <3>3
  <2> QED BY <1>0, <2>2 DEF QIInv, QueueBooks, StampPinsTerms
<1> QED BY <1>5, <1>6, <1>7, <1>8, <1>9 DEF QueueBooks

\* A new queue has nothing to account for.
LEMMA QInitInvariant == QInit => QIInv
<1> SUFFICES ASSUME QInit PROVE QIInv
  OBVIOUS
<1>1. IInv
  BY InitInvariant DEF QInit
<1>2. /\ request = [k \in RequestKeys |-> ZeroRequest]
      /\ \A k \in RequestKeys : request[k] = ZeroRequest /\ ~Live(k)
  BY ZeroRequestFacts DEF QInit, Live
<1>3. QTypeOK
  BY <1>2, ZeroRequestFacts, QueueConstantsAssumption, ConstantsAssumption DEF QInit, QTypeOK
<1>4. LiveKeys = {} /\ Cardinality({}) = 0
  BY <1>2, FS_EmptySet DEF LiveKeys
<1>5. Total(shares_of) = 0
  <2>1. shares_of \in [RequestKeys -> Nat] /\ \A k \in RequestKeys : shares_of[k] = 0
    BY <1>2, ZeroRequestFacts DEF shares_of
  <2> QED BY <2>1, TotalOfZeros
<1>6. share_balance[QueuePDA] \in Nat
  BY <1>1, KeyFacts DEF IInv, TypeOK
<1>7. EscrowCoversPending
  BY <1>4, <1>5, <1>6 DEF EscrowCoversPending, QInit
<1>8. RequestsWellFormed /\ StampPinsTerms /\ StampsIssued
  BY <1>2, <1>4 DEF RequestsWellFormed, StampPinsTerms, StampsIssued, QInit
<1> QED BY <1>1, <1>3, <1>7, <1>8 DEF QIInv, QueueBooks

\* The invariant is inductive.
LEMMA QNextInvariant ==
    ASSUME QIInv, [QNext]_qvars
    PROVE  QIInv'
<1>1. IInv'
  BY QueueStepRefines, NextInvariant DEF QIInv
<1>2. /\ IInv /\ QueueBooks /\ QTypeOK
      /\ share_balance[QueuePDA] \in Nat /\ share_balance'[QueuePDA] \in Nat
      /\ pending_shares \in Nat /\ pending_shares <= share_balance[QueuePDA]
      /\ cooldown_seconds \in Nat /\ fulfillment_window_seconds \in Nat /\ now \in 1 .. MaxTime
  BY <1>1, KeyFacts, ConstantsAssumption
     DEF QIInv, IInv, TypeOK, QueueBooks, QTypeOK, EscrowCoversPending
<1>3. CASE QueueAdminStep
  <2>1. CASE \E s \in Cooldowns : InitializeQueue(s)
    BY <1>1, <1>2, <2>1, IdleBooks, QueueConstantsAssumption
       DEF QIInv, InitializeQueue, CreateQueue, funds, shares
  <2>2. CASE \E s \in Cooldowns : SetCooldown(s)
    BY <1>1, <1>2, <2>2, IdleBooks, QueueConstantsAssumption DEF QIInv, SetCooldown, vars, shares
  <2>3. CASE \E s \in Windows : SetFulfillmentWindow(s)
    BY <1>1, <1>2, <2>3, IdleBooks, QueueConstantsAssumption DEF QIInv, SetFulfillmentWindow, vars, shares
  <2>4. CASE ReleaseVault
    BY <1>1, <1>2, <2>4, IdleBooks
       DEF QIInv, ReleaseVault, DetachWithdrawalQueue, funds, shares, queue_vars, queue_config
  <2>5. CASE \E d \in Wallets : SweepEscrowShares(d)
    <3>1. PICK d \in Wallets : SweepEscrowShares(d)
      BY <2>5
    <3>2. stray > 0 /\ TransferShares(QueuePDA, d, stray) /\ UNCHANGED queue_vars
      BY <3>1 DEF SweepEscrowShares
    <3>3. stray \in Nat /\ d \in Keys /\ QueuePDA \in Keys
      BY <1>2, <3>2, KeyFacts DEF stray
    <3>4. share_balance'[QueuePDA] >= share_balance[QueuePDA] - stray
      BY <1>2, <3>2, <3>3, ShareMoves
    <3>5. share_balance'[QueuePDA] >= pending_shares
      BY <1>2, <3>4 DEF stray
    <3> QED BY <1>1, <1>2, <3>2, <3>5, IdleBooks DEF QIInv, queue_vars, queue_config
  <2> QED BY <1>1, <1>3, <2>1, <2>2, <2>3, <2>4, <2>5 DEF QueueAdminStep, QIInv
<1>4. CASE RequestStep
  <2>1. PICK k \in RequestKeys :
            \/ \E x \in Amounts, min \in Floors, recipient \in Recipients, f \in Finalizers :
                   RequestWithdrawal(k, x, min, recipient, f)
            \/ \E e \in 1 .. sequence : CancelWithdrawal(k, e)
            \/ \E e \in 1 .. sequence : ExpediteRequest(k, e)
            \/ \E e \in 1 .. sequence, caller \in Wallets : FinalizeWithdrawal(k, caller, e)
    BY <1>4 DEF RequestStep
  <2>2. request[k].shares \in Nat /\ Owner(k) \in Keys /\ QueuePDA \in Keys
    BY <1>2, RequestKeyFacts, KeyFacts DEF QTypeOK, Request
  <2>3. ASSUME NEW e \in 1 .. sequence, CancelWithdrawal(k, e) PROVE QueueBooks'
    <3>1. Live(k) /\ CloseRequest(k) /\ TransferShares(QueuePDA, Owner(k), request[k].shares)
      BY <2>3 DEF CancelWithdrawal, StampMatches
    <3>2. share_balance'[QueuePDA] >= share_balance[QueuePDA] - request[k].shares
      BY <1>2, <2>2, <3>1, ShareMoves
    <3> QED BY <1>1, <3>1, <3>2, CloseBooks
  <2>4. ASSUME NEW e \in 1 .. sequence, NEW caller \in Wallets, FinalizeWithdrawal(k, caller, e)
        PROVE  QueueBooks'
    <3>1. Live(k) /\ CloseRequest(k) /\ share_balance' = Debit(share_balance, QueuePDA, request[k].shares)
      BY <2>4 DEF FinalizeWithdrawal, StampMatches, QueueRedeem, Redemption
    <3>2. share_balance'[QueuePDA] >= share_balance[QueuePDA] - request[k].shares
      BY <1>2, <2>2, <3>1 DEF Debit, IInv, TypeOK
    <3> QED BY <1>1, <3>1, <3>2, CloseBooks
  <2> QED BY <1>1, <2>1, <2>3, <2>4, OpenBooks, ExpediteBooks DEF QIInv
<1>5. CASE VaultStep
  <2>1. share_balance'[QueuePDA] >= share_balance[QueuePDA]
    BY <1>2, <1>5, EscrowOnlyGrows DEF VaultStep
  <2>2. share_balance'[QueuePDA] >= pending_shares
    BY <1>2, <2>1
  <2> QED BY <1>1, <1>2, <1>5, <2>2, IdleBooks DEF VaultStep, QIInv, queue_vars, queue_config
<1>6. CASE Tick
  BY <1>1, <1>2, <1>6, IdleBooks, QueueConstantsAssumption DEF Tick, QIInv, queue_config, vars, shares
<1>7. CASE UNCHANGED qvars
  BY <1>1, <1>2, <1>7, IdleBooks DEF QIInv, qvars, queue_vars, queue_config, vars, shares
<1> QED BY <1>3, <1>4, <1>5, <1>6, <1>7 DEF QNext

\* The inductive invariant holds in every reachable state of the two programs.
LEMMA QInvariance == QSpec => []QIInv
<1>1. QInit => QIInv
  BY QInitInvariant
<1>2. QIInv /\ [QNext]_qvars => QIInv'
  BY QNextInvariant
<1> QED BY <1>1, <1>2, PTL DEF QSpec

-----------------------------------------------------------------------------
\* The pair of programs implements the vault's specification: whatever the
\* queue program signs for, every theorem about the vault remains true.
THEOREM QueueImplementsVault == QSpec => VaultHolds
<1>1. QInit => Init
  BY DEF QInit
<1>2. QIInv /\ [QNext]_qvars => [Next]_vars
  BY QueueStepRefines
<1> QED BY <1>1, <1>2, QInvariance, PTL DEF QSpec, Spec, VaultHolds

\* In particular, with the real queue attached and released at any time, the
\* reserve covers the books and holders are never diluted or promised too much.
THEOREM PairKeepsPromises ==
    QSpec => HoldersPromise /\ []Solvency /\ []FairRoundTrip /\ []NoOverpromise
BY QueueImplementsVault, HoldersProtected, Solvent, FairRoundTrips, NothingOverpromised, PTL
   DEF VaultHolds

\* The queue's integers keep their widths and its accounts their shape.
THEOREM QTypeCorrect == QSpec => []QTypeOK
<1>1. QIInv => QTypeOK
  BY DEF QIInv, QueueBooks
<1> QED BY <1>1, QInvariance, PTL

\* Every pending share is in the escrow and the counters count the requests.
THEOREM EscrowIsCovered == QSpec => []EscrowCoversPending
<1>1. QIInv => EscrowCoversPending
  BY DEF QIInv, QueueBooks
<1> QED BY <1>1, QInvariance, PTL

\* Stamps name requests for good, and requests keep the terms they opened with.
THEOREM StampsPin == QSpec => []StampPinsTerms
<1>1. QIInv => StampPinsTerms
  BY DEF QIInv, QueueBooks
<1> QED BY <1>1, QInvariance, PTL

\* No vault is closed over a pending request.
THEOREM ClosedStrandsNone == QSpec => []ClosedStrandsNoRequest
<1>1. QIInv => ClosedStrandsNoRequest
  <2> SUFFICES ASSUME QIInv, status = "closed"
               PROVE  LiveKeys = {} /\ pending_shares = 0
    BY DEF ClosedStrandsNoRequest
  <2>1. Total(share_balance) = 0
    BY DEF QIInv, IInv, ClosedShape, SupplyIsHeld
  <2>2. share_balance \in [Keys -> Nat] /\ IsFiniteSet(Keys) /\ QueuePDA \in Keys
    BY KeyFacts DEF QIInv, IInv, TypeOK
  <2>3. share_balance[QueuePDA] <= 0
    BY <2>1, <2>2, TotalIsNatural
  <2>4. pending_shares = 0 /\ Total(shares_of) = 0
    BY <2>2, <2>3, ConstantsAssumption DEF QIInv, QueueBooks, EscrowCoversPending, QTypeOK
  <2>5. shares_of \in [RequestKeys -> Nat] /\ IsFiniteSet(RequestKeys)
    BY RequestKeyFacts DEF QIInv, QueueBooks, QTypeOK, Request, shares_of
  <2>6. \A k \in RequestKeys : shares_of[k] <= Total(shares_of)
    BY <2>5, TotalIsNatural
  <2>7. \A k \in RequestKeys : request[k].shares <= 0
    BY <2>4, <2>6 DEF shares_of
  <2>8. \A k \in RequestKeys : request[k] = ZeroRequest
    BY <2>5, <2>7 DEF QIInv, QueueBooks, RequestsWellFormed, QTypeOK, Request
  <2> QED BY <2>4, <2>8, ZeroRequestFacts DEF LiveKeys, Live
<1> QED BY <1>1, QInvariance, PTL

-----------------------------------------------------------------------------
\* The stamp of a live request has been given out.
LEMMA StampIssued ==
    ASSUME QIInv, NEW k \in LiveKeys
    PROVE  request[k].sequence \in 1 .. sequence
<1>1. PICK p \in opened : IsRequest(k, p)
  BY DEF QIInv, QueueBooks, StampPinsTerms
<1>2. p[2] \in Request /\ request[k] = [p[2] EXCEPT !.eligible_at = request[k].eligible_at]
  BY <1>1 DEF QIInv, QueueBooks, QTypeOK, IsRequest
<1>3. request[k].sequence = p[2].sequence
  BY <1>2 DEF Request
<1> QED BY <1>3 DEF QIInv, QueueBooks, StampsIssued

\* One request's part in a step of RequestStep, spelled out.
LEMMA RequestStepCases ==
    ASSUME RequestStep
    PROVE  \E k \in RequestKeys :
            \/ \E x \in Amounts, min \in Floors, recipient \in Recipients, f \in Finalizers :
                   RequestWithdrawal(k, x, min, recipient, f)
            \/ \E e \in 1 .. sequence : CancelWithdrawal(k, e)
            \/ \E e \in 1 .. sequence : ExpediteRequest(k, e)
            \/ \E e \in 1 .. sequence, caller \in Wallets : FinalizeWithdrawal(k, caller, e)
BY DEF RequestStep

\* Steps other than RequestStep leave every request account alone.
LEMMA RequestsUntouched ==
    ASSUME QueueAdminStep \/ VaultStep \/ Tick \/ UNCHANGED qvars
    PROVE  request' = request
BY DEF QueueAdminStep, InitializeQueue, SetCooldown, SetFulfillmentWindow, ReleaseVault,
       SweepEscrowShares, VaultStep, Tick, qvars, queue_vars

-----------------------------------------------------------------------------
(* The owner's exit *)

\* Everything cancel_withdrawal, close_request and the token program ask for.
CanCancel(k, expected_sequence) ==
    /\ StampMatches(k, expected_sequence)
    /\ pending_requests >= 1 /\ pending_shares >= request[k].shares
    /\ request[k].shares > 0 /\ request[k].shares <= share_balance[QueuePDA]

\* The rest of the instruction only assigns, so where CanCancel holds the
\* instruction can be executed and in every other state it cannot.
LEMMA CanCancelDecides ==
    ASSUME NEW k \in RequestKeys, NEW e \in Nat
    PROVE  CancelWithdrawal(k, e) <=>
               /\ CanCancel(k, e)
               /\ pending_requests' = pending_requests - 1
               /\ pending_shares' = pending_shares - request[k].shares
               /\ request' = [request EXCEPT ![k] = ZeroRequest]
               /\ share_balance' = Move(share_balance, QueuePDA, Owner(k), request[k].shares)
               /\ UNCHANGED <<sequence, queue_config, now, opened>>
               /\ UNCHANGED <<config, aum, registry, asset_balance, supply, delegated>>
  BY DEF CancelWithdrawal, CanCancel, CloseRequest, TransferShares

\* The invariant keeps the instruction open to every pending request.
LEMMA LiveCanCancel ==
    ASSUME QIInv, NEW k \in LiveKeys
    PROVE  CanCancel(k, request[k].sequence)
<1>1. k \in RequestKeys /\ Live(k) /\ QTypeOK /\ EscrowCoversPending
  BY DEF LiveKeys, QIInv, QueueBooks
<1>2. request[k] # ZeroRequest
  BY <1>1, ZeroRequestFacts DEF Live
<1>3. request[k].shares > 0 /\ request[k].shares \in Nat
  BY <1>1, <1>2 DEF QIInv, QueueBooks, RequestsWellFormed, QTypeOK, Request
<1>4. pending_shares >= request[k].shares
  <2>1. shares_of \in [RequestKeys -> Nat] /\ shares_of[k] = request[k].shares
    BY <1>1 DEF QTypeOK, Request, shares_of
  <2>2. shares_of[k] <= Total(shares_of)
    BY <1>1, <2>1, RequestKeyFacts, TotalIsNatural
  <2> QED BY <1>1, <1>3, <2>1, <2>2 DEF EscrowCoversPending, QTypeOK
<1>5. pending_requests >= 1
  <2>1. IsFiniteSet(LiveKeys)
    BY RequestKeyFacts, FS_Subset DEF LiveKeys
  <2>2. Cardinality(LiveKeys) \in Nat /\ Cardinality(LiveKeys) # 0
    BY <2>1, FS_CardinalityType, FS_EmptySet
  <2> QED BY <1>1, <2>2 DEF EscrowCoversPending
<1>6. request[k].shares <= share_balance[QueuePDA]
  <2>1. share_balance[QueuePDA] \in Nat /\ pending_shares \in Nat
    BY <1>1, KeyFacts, ConstantsAssumption DEF QIInv, IInv, TypeOK, QTypeOK
  <2> QED BY <1>1, <1>3, <1>4, <2>1 DEF EscrowCoversPending
<1> QED BY <1>1, <1>3, <1>4, <1>5, <1>6 DEF CanCancel, StampMatches

\* No step of either program, of the token program or of the clock ever leaves
\* a pending request that cancel_withdrawal would refuse to return.
THEOREM CancelNeverRefused ==
    QSpec => [](\A k \in LiveKeys : CanCancel(k, request[k].sequence))
<1>1. QIInv => \A k \in LiveKeys : CanCancel(k, request[k].sequence)
  BY LiveCanCancel
<1> QED BY <1>1, QInvariance, PTL

\* What a live request holds is part of the supply.
LEMMA RequestWithinSupply ==
    ASSUME QIInv, NEW k \in LiveKeys
    PROVE  request[k].shares \in Nat \ {0} /\ request[k].shares <= supply
<1>1. /\ k \in RequestKeys /\ request[k].shares \in Nat /\ supply \in Nat
      /\ request[k].shares > 0 /\ request[k].shares <= share_balance[QueuePDA]
  BY LiveCanCancel, PoolFacts DEF CanCancel, LiveKeys, QIInv, QueueBooks, QTypeOK, Request
<1>2. /\ share_balance \in [Keys -> Nat] /\ IsFiniteSet(Keys) /\ QueuePDA \in Keys
      /\ supply = Total(share_balance)
  BY KeyFacts DEF QIInv, IInv, TypeOK, SupplyIsHeld
<1>3. share_balance[QueuePDA] \in Nat /\ share_balance[QueuePDA] <= supply
  BY <1>2, TotalIsNatural
<1> QED BY <1>1, <1>3

-----------------------------------------------------------------------------
(* The owner's payment *)

\* Everything finalize_withdrawal, close_request, redeem and the token program
\* ask for.
CanFinalize(k, caller, expected_sequence) ==
    LET r      == request[k]
        assets == redeem_assets(r.shares)
    IN  /\ Served
        /\ StampMatches(k, expected_sequence) /\ MayFinalize(k, caller)
        /\ IsEligible(r) /\ ~IsExpired(r) /\ ValidRecipient(r.recipient)
        /\ pending_requests >= 1 /\ pending_shares >= r.shares
        /\ queue_received(r.shares) >= r.min_assets_out
        /\ r.shares > 0 /\ ~paused /\ MayRedeem(QueuePDA)
        /\ total_assets <= U64Max /\ PriceDefined(supply, total_assets)
        /\ PriceComputes(r.shares, total_assets)
        /\ redeem_fees(assets) <= assets /\ net_assets(assets) >= 0
        /\ assets > 0 /\ assets <= local_aum
        /\ r.shares <= share_balance[QueuePDA]
        /\ assets <= asset_balance[VaultPDA]

\* The rest of the instruction only assigns.
LEMMA CanFinalizeDecides ==
    ASSUME NEW k \in RequestKeys, NEW caller \in Wallets, NEW e \in Nat
    PROVE  FinalizeWithdrawal(k, caller, e) <=>
               /\ CanFinalize(k, caller, e)
               /\ pending_requests' = pending_requests - 1
               /\ pending_shares' = pending_shares - request[k].shares
               /\ request' = [request EXCEPT ![k] = ZeroRequest]
               /\ local_aum' = local_aum - redeem_assets(request[k].shares)
               /\ share_balance' = Debit(share_balance, QueuePDA, request[k].shares)
               /\ supply' = supply - request[k].shares
               /\ asset_balance' = Move(AfterRedeem(QueuePDA, request[k].shares), QueuePDA,
                                        request[k].recipient, queue_received(request[k].shares))
               /\ UNCHANGED <<sequence, queue_config, now, opened>>
               /\ UNCHANGED <<config, deployed_aum, registry, delegated>>
<1>1. CloseRequest(k) <=>
          /\ pending_requests >= 1 /\ pending_shares >= request[k].shares
          /\ pending_requests' = pending_requests - 1
          /\ pending_shares' = pending_shares - request[k].shares
          /\ request' = [request EXCEPT ![k] = ZeroRequest]
          /\ UNCHANGED <<sequence, queue_config, now, opened>>
  BY Zenon DEF CloseRequest
<1>2. Redemption(QueuePDA, request[k].shares, 0) <=>
          LET assets == redeem_assets(request[k].shares)
          IN  /\ status = "open"
              /\ request[k].shares > 0 /\ ~paused /\ MayRedeem(QueuePDA)
              /\ total_assets <= U64Max /\ PriceDefined(supply, total_assets)
              /\ PriceComputes(request[k].shares, total_assets)
              /\ redeem_fees(assets) <= assets /\ net_assets(assets) >= 0
              /\ assets > 0 /\ assets <= local_aum
              /\ request[k].shares <= share_balance[QueuePDA]
              /\ assets <= asset_balance[VaultPDA]
              /\ local_aum' = local_aum - assets
              /\ share_balance' = Debit(share_balance, QueuePDA, request[k].shares)
              /\ supply' = supply - request[k].shares
              /\ UNCHANGED <<config, deployed_aum, registry, delegated>>
  BY Zenon DEF Redemption
<1>3. QueueRedeem(request[k].recipient, request[k].shares) <=>
          /\ Redemption(QueuePDA, request[k].shares, 0)
          /\ asset_balance' = Move(AfterRedeem(QueuePDA, request[k].shares), QueuePDA,
                                   request[k].recipient, queue_received(request[k].shares))
  BY Zenon DEF QueueRedeem
<1> QED BY <1>1, <1>2, <1>3, Zenon DEF FinalizeWithdrawal, CanFinalize, Served

\* No step uncreates the queue.
LEMMA QueueStays ==
    ASSUME [QNext]_qvars, queue_exists
    PROVE  queue_exists'
<1> USE DEF config, gate, funds, vars, qvars, queue_vars
<1>1. CASE QueueAdminStep \/ Tick \/ UNCHANGED qvars
  BY <1>1 DEF QueueAdminStep, InitializeQueue, CreateQueue, SetCooldown, SetFulfillmentWindow,
     ReleaseVault, DetachWithdrawalQueue, SweepEscrowShares, TransferShares, Tick
<1>2. CASE RequestStep
  <2>1. ASSUME NEW k \in RequestKeys, NEW x \in Amounts, NEW min \in Floors,
               NEW recipient \in Recipients, NEW f \in Finalizers,
               RequestWithdrawal(k, x, min, recipient, f)
        PROVE  queue_exists' = queue_exists
    BY <2>1 DEF RequestWithdrawal, TransferShares
  <2>2. ASSUME NEW k \in RequestKeys, NEW e \in 1 .. sequence, CancelWithdrawal(k, e)
        PROVE  queue_exists' = queue_exists
    BY <2>2 DEF CancelWithdrawal, TransferShares
  <2>3. ASSUME NEW k \in RequestKeys, NEW e \in 1 .. sequence, ExpediteRequest(k, e)
        PROVE  queue_exists' = queue_exists
    BY <2>3 DEF ExpediteRequest
  <2>4. ASSUME NEW k \in RequestKeys, NEW e \in 1 .. sequence, NEW caller \in Wallets,
               FinalizeWithdrawal(k, caller, e)
        PROVE  queue_exists' = queue_exists
    BY <2>4 DEF FinalizeWithdrawal, QueueRedeem, Redemption
  <2>5. queue_exists' = queue_exists
    BY <1>2, <2>1, <2>2, <2>3, <2>4 DEF RequestStep
  <2> QED BY <2>5
<1>3. CASE VaultStep
  <2>1. ASSUME HolderStep PROVE queue_exists' = queue_exists
    BY <2>1 DEF HolderStep, Deposit, Redeem, Redemption
  <2>2. ASSUME OperatorStep PROVE queue_exists' = queue_exists
    BY <2>2 DEF OperatorStep, OperatorWithdraw, OperatorDeposit, OperatorUpdateAum
  <2>3. ASSUME RegistryStep PROVE queue_exists' = queue_exists
    BY <2>3 DEF RegistryStep, RegisterSubaccount, DeregisterSubaccount, SettleSubaccountLoss
  <2>4. ASSUME SettingStep PROVE queue_exists' = queue_exists
    BY <2>4 DEF SettingStep, SetOperator, SetFeeRecipient, SetWithdrawalFee, SetAumLimits, Pause,
       Unpause, AttachWithdrawalQueue, CloseVault
  <2>5. ASSUME TokenStep PROVE queue_exists' = queue_exists
    BY <2>5 DEF TokenStep, TransferAssets, TransferShares, BurnShares, Approve
  <2> QED BY <1>3, <2>1, <2>2, <2>3, <2>4, <2>5 DEF VaultStep
<1> QED BY <1>1, <1>2, <1>3 DEF QNext

\* Requests are only ever stamped by a queue that exists.
LEMMA StampedByQueue == QSpec => [](sequence # 0 => queue_exists)
<1>1. QInit => (sequence # 0 => queue_exists)
  BY DEF QInit
<1>2. (sequence # 0 => queue_exists) /\ [QNext]_qvars => (sequence # 0 => queue_exists)'
  <2> SUFFICES ASSUME sequence # 0 => queue_exists, [QNext]_qvars, sequence' # 0
               PROVE  queue_exists'
    OBVIOUS
  <2>1. CASE queue_exists
    BY <2>1, QueueStays
  <2>2. CASE ~queue_exists
    <3>1. sequence' # sequence
      BY <2>2
    <3>2. RequestStep
      BY <3>1 DEF QNext, QueueAdminStep, InitializeQueue, SetCooldown, SetFulfillmentWindow,
         ReleaseVault, SweepEscrowShares, VaultStep, Tick, qvars, queue_vars, counters
    <3>3. \E k \in RequestKeys, x \in Amounts, min \in Floors, recipient \in Recipients, f \in Finalizers :
              RequestWithdrawal(k, x, min, recipient, f)
      BY <3>1, <3>2, RequestStepCases DEF CancelWithdrawal, CloseRequest, ExpediteRequest,
         FinalizeWithdrawal, counters
    <3> QED BY <2>2, <3>3 DEF RequestWithdrawal, Served
  <2> QED BY <2>1, <2>2
<1> QED BY <1>1, <1>2, PTL DEF QSpec

\* Whoever the owner allows to finalize can do so as soon as the vault and the
\* terms of the request permit: the counters, the escrow, the reserve and the
\* fee never refuse, and neither does a release or a closing.
THEOREM PaymentNeverRefused ==
    QSpec => [](\A k \in LiveKeys, caller \in Wallets :
                    Payable(k) /\ MayFinalize(k, caller) =>
                        CanFinalize(k, caller, request[k].sequence))
<1>1. ASSUME QIInv, ClosedStrandsNoRequest, sequence # 0 => queue_exists,
             NEW k \in LiveKeys, NEW caller \in Wallets, Payable(k), MayFinalize(k, caller)
      PROVE  CanFinalize(k, caller, request[k].sequence)
  <2> DEFINE x == request[k].shares
             assets == redeem_assets(x)
  <2>1. /\ k \in RequestKeys /\ StampMatches(k, request[k].sequence)
        /\ pending_requests >= 1 /\ pending_shares >= x /\ x > 0
        /\ x <= share_balance[QueuePDA] /\ x \in Nat
        /\ request[k].min_assets_out \in Nat
    BY <1>1, LiveCanCancel DEF CanCancel, LiveKeys, QIInv, QueueBooks, QTypeOK, Request
  <2>2. IInv /\ supply \in Nat \ {0} /\ total_assets \in Nat /\ ShareOffset \in Nat \ {0}
    BY <1>1, RequestWithinSupply, PoolFacts DEF QIInv
  <2>3. Served
    <3>1. sequence # 0
      BY <1>1, StampIssued DEF QIInv, QueueBooks, QTypeOK
    <3>2. status = "open"
      BY <1>1, <2>2 DEF ClosedStrandsNoRequest, IInv, TypeOK
    <3> QED BY <1>1, <3>1, <3>2 DEF Served
  <2>4. /\ assets \in Nat /\ assets > 0 /\ assets <= local_aum /\ total_assets <= U64Max
        /\ PriceComputes(x, total_assets)
        /\ net_assets(assets) >= request[k].min_assets_out
        /\ ~paused /\ IsEligible(request[k]) /\ ~IsExpired(request[k])
        /\ ValidRecipient(request[k].recipient)
    BY <1>1, <2>1, <2>2, PricesAreNatural DEF Payable, redeem_assets
  <2>5. /\ QueuePDA \in Keys \ {VaultPDA} /\ asset_balance \in [Keys -> Nat] /\ VaultPDA \in Keys
        /\ local_aum \in Nat /\ MayRedeem(QueuePDA)
    BY <2>2, KeyFacts, ConstantsAssumption, PoolFacts DEF IInv, TypeOK, MayRedeem
  <2>6. assets <= asset_balance[VaultPDA]
    <3>1. local_aum <= asset_balance[VaultPDA]
      BY <2>2, <2>3 DEF Served, IInv, Solvency
    <3> QED BY <2>4, <2>5, <3>1
  <2>7. redeem_fees(assets) \in Nat /\ redeem_fees(assets) <= assets
    BY <2>2, <2>4, FeeFits
  <2>8. net_assets(assets) \in Nat
    BY <2>4, <2>7 DEF net_assets
  <2>9. queue_received(x) >= request[k].min_assets_out
    <3>1. /\ AfterRedeem(QueuePDA, x)[QueuePDA] \in Nat
          /\ AfterRedeem(QueuePDA, x)[QueuePDA] >= asset_balance[QueuePDA] + net_assets(assets)
      BY <2>2, <2>4, <2>5, <2>6, SignerReceives
    <3>2. asset_balance[QueuePDA] \in Nat
      BY <2>5
    <3> QED BY <2>1, <2>4, <2>8, <3>1, <3>2 DEF queue_received
  <2>10. PriceDefined(supply, total_assets)
    <3>1. CASE total_assets = 0
      <4>1. assets = (x * 0) \div supply
        BY <2>1, <2>2, <3>1, RedeemBelowPar DEF redeem_assets
      <4>2. (x * 0) \div supply = 0
        BY <2>1, <2>2
      <4> QED BY <2>4, <4>1, <4>2
    <3>2. CASE total_assets # 0
      BY <2>2, <3>2 DEF PriceDefined
    <3> QED BY <3>1, <3>2
  <2> QED BY <1>1, <2>1, <2>3, <2>4, <2>5, <2>6, <2>7, <2>8, <2>9, <2>10 DEF CanFinalize
<1>2. QIInv /\ ClosedStrandsNoRequest /\ (sequence # 0 => queue_exists) =>
          \A k \in LiveKeys, caller \in Wallets :
              Payable(k) /\ MayFinalize(k, caller) => CanFinalize(k, caller, request[k].sequence)
  BY <1>1
<1> QED BY <1>2, QInvariance, ClosedStrandsNone, StampedByQueue, PTL

-----------------------------------------------------------------------------
(* The owner who insists.  The provers have no rule for ENABLED, so weak     *)
(* fairness of the cancellation, []<>~ENABLED <<A>>_v \/ []<><<A>>_v, is     *)
(* written with the condition that CanCancelDecides shows it to stand for.   *)

CancelKeptUp(k) ==
    \/ []<>~(\E e \in 1 .. sequence : CanCancel(k, e))
    \/ []<><<\E e \in 1 .. sequence : CancelWithdrawal(k, e)>>_qvars

\* A pending request always has a stamp that its owner can cancel it by, and a
\* cancellation ends it.
LEMMA CancelStaysOpen ==
    ASSUME NEW k \in RequestKeys
    PROVE  /\ QIInv => (Live(k) => \E e \in 1 .. sequence : CanCancel(k, e))
           /\ QIInv /\ <<\E e \in 1 .. sequence : CancelWithdrawal(k, e)>>_qvars => ~Live(k)'
<1>1. ASSUME QIInv, Live(k) PROVE \E e \in 1 .. sequence : CanCancel(k, e)
  <2>1. k \in LiveKeys /\ CanCancel(k, request[k].sequence)
    BY <1>1, LiveCanCancel DEF LiveKeys
  <2> QED BY <1>1, <2>1, StampIssued
<1>2. ASSUME QIInv, \E e \in 1 .. sequence : CancelWithdrawal(k, e) PROVE ~Live(k)'
  <2>1. request' = [request EXCEPT ![k] = ZeroRequest] /\ request \in [RequestKeys -> Request]
    BY <1>2 DEF CancelWithdrawal, CloseRequest, QIInv, QueueBooks, QTypeOK
  <2> QED BY <2>1, ZeroRequestFacts DEF Live
<1> QED BY <1>1, <1>2

\* Whatever the admin, the operator, other owners and the vault do meanwhile,
\* an owner who keeps sending the cancellation gets out, again and again.
THEOREM InsistentOwnerGetsOut ==
    ASSUME NEW k \in RequestKeys
    PROVE  QSpec /\ CancelKeptUp(k) => []<>~Live(k)
<1>1. QIInv => (Live(k) => \E e \in 1 .. sequence : CanCancel(k, e))
  BY CancelStaysOpen
<1>2. QIInv /\ <<\E e \in 1 .. sequence : CancelWithdrawal(k, e)>>_qvars => ~Live(k)'
  BY CancelStaysOpen
<1> QED BY <1>1, <1>2, QInvariance, PTL DEF CancelKeptUp

\* Nothing opens a request with a released vault.
LEMMA ReleasedOpensNothing ==
    ASSUME NEW k \in RequestKeys, QIInv, [QNext]_qvars,
           withdrawal_queue_authority = NoKey, ~Live(k)
    PROVE  ~Live(k)'
<1>0. request \in [RequestKeys -> Request] /\ QueuePDA # NoKey
  BY KeyFacts DEF QIInv, QueueBooks, QTypeOK
<1>1. CASE ~RequestStep
  BY <1>1, RequestsUntouched DEF QNext, Live
<1>2. CASE RequestStep
  <2>1. PICK j \in RequestKeys :
            \/ \E x \in Amounts, min \in Floors, recipient \in Recipients, f \in Finalizers :
                   RequestWithdrawal(j, x, min, recipient, f)
            \/ \E e \in 1 .. sequence : CancelWithdrawal(j, e)
            \/ \E e \in 1 .. sequence : ExpediteRequest(j, e)
            \/ \E e \in 1 .. sequence, caller \in Wallets : FinalizeWithdrawal(j, caller, e)
    BY <1>2, RequestStepCases
  <2>2. Live(j) /\ \E r : request' = [request EXCEPT ![j] = r]
    BY <1>0, <2>1 DEF RequestWithdrawal, CancelWithdrawal, CloseRequest, ExpediteRequest,
       FinalizeWithdrawal, StampMatches
  <2>3. request'[k] = request[k]
    BY <1>0, <2>2
  <2> QED BY <2>3 DEF Live
<1> QED BY <1>1, <1>2

\* After a release for good an insistent owner's request ends for good: each
\* request's part of ReleasedQueueDrains.
THEOREM ReleasedRequestEnds ==
    ASSUME NEW k \in RequestKeys
    PROVE  QSpec /\ CancelKeptUp(k) => ((<>[](withdrawal_queue_authority = NoKey)) => <>[]~Live(k))
<1>1. QIInv /\ withdrawal_queue_authority = NoKey /\ ~Live(k) /\ [QNext]_qvars => ~Live(k)'
  BY ReleasedOpensNothing
<1>2. QSpec /\ CancelKeptUp(k) => []<>~Live(k)
  BY InsistentOwnerGetsOut
<1> QED BY <1>1, <1>2, QInvariance, PTL DEF QSpec

-----------------------------------------------------------------------------
(* What no step of the two programs may do to a request's owner *)

\* A late instruction acts on the request it was signed for or not at all.
THEOREM DelayedInstructions == QSpec => DelayedActsOnItsOwn
<1>1. ASSUME QIInv
      PROVE  \A k \in RequestKeys, e \in 1 .. sequence :
          (\/ CancelWithdrawal(k, e) \/ ExpediteRequest(k, e)
           \/ \E c \in Wallets : FinalizeWithdrawal(k, c, e)) =>
              \E p \in opened : p[2].sequence = e /\ IsRequest(k, p)
  <2> SUFFICES ASSUME NEW k \in RequestKeys, NEW e \in 1 .. sequence, StampMatches(k, e)
               PROVE  \E p \in opened : p[2].sequence = e /\ IsRequest(k, p)
    BY DEF CancelWithdrawal, ExpediteRequest, FinalizeWithdrawal
  <2>1. k \in LiveKeys /\ request[k].sequence = e
    BY DEF StampMatches, LiveKeys
  <2>2. PICK p \in opened : IsRequest(k, p)
    BY <1>1, <2>1 DEF QIInv, QueueBooks, StampPinsTerms
  <2>3. p[2] \in Request /\ request[k] = [p[2] EXCEPT !.eligible_at = request[k].eligible_at]
    BY <1>1, <2>2 DEF QIInv, QueueBooks, QTypeOK, IsRequest
  <2>4. p[2].sequence = e
    BY <2>1, <2>3 DEF Request
  <2> QED BY <2>2, <2>4
<1>2. QIInv => [\A k \in RequestKeys, e \in 1 .. sequence :
          (\/ CancelWithdrawal(k, e) \/ ExpediteRequest(k, e)
           \/ \E c \in Wallets : FinalizeWithdrawal(k, c, e)) =>
              \E p \in opened : p[2].sequence = e /\ IsRequest(k, p)]_qvars
  BY <1>1
<1> QED BY <1>2, QInvariance, PTL DEF DelayedActsOnItsOwn

\* An expired request has only one way to end.
LEMMA ExpiredStep ==
    ASSUME QIInv, [QNext]_qvars, NEW k \in LiveKeys,
           request[k].expires_at # 0, now >= request[k].expires_at, request'[k] # request[k]
    PROVE  /\ request'[k] = ZeroRequest
           /\ share_balance'[Owner(k)] = share_balance[Owner(k)] + request[k].shares
           /\ supply' = supply
<1>0. /\ k \in RequestKeys /\ Live(k) /\ IsExpired(request[k])
      /\ request \in [RequestKeys -> Request] /\ IInv
  BY DEF LiveKeys, IsExpired, QIInv, QueueBooks, QTypeOK
<1>1. RequestStep
  BY RequestsUntouched DEF QNext
<1>2. PICK j \in RequestKeys :
            \/ \E x \in Amounts, min \in Floors, recipient \in Recipients, f \in Finalizers :
                   RequestWithdrawal(j, x, min, recipient, f)
            \/ \E e \in 1 .. sequence : CancelWithdrawal(j, e)
            \/ \E e \in 1 .. sequence : ExpediteRequest(j, e)
            \/ \E e \in 1 .. sequence, caller \in Wallets : FinalizeWithdrawal(j, caller, e)
  BY <1>1, RequestStepCases
<1>3. \E r : request' = [request EXCEPT ![j] = r]
  BY <1>2 DEF RequestWithdrawal, CancelWithdrawal, CloseRequest, ExpediteRequest, FinalizeWithdrawal
<1>4. j = k
  BY <1>0, <1>3
<1>5. \E e \in 1 .. sequence : CancelWithdrawal(k, e)
  BY <1>0, <1>2, <1>4 DEF RequestWithdrawal, ExpediteRequest, FinalizeWithdrawal
<1>6. /\ request' = [request EXCEPT ![k] = ZeroRequest]
      /\ TransferShares(QueuePDA, Owner(k), request[k].shares)
  BY <1>5 DEF CancelWithdrawal, CloseRequest
<1>7. /\ Owner(k) \in Keys /\ Owner(k) # QueuePDA /\ QueuePDA \in Keys /\ request[k].shares \in Nat
  BY <1>0, RequestKeyFacts, KeyFacts DEF Request
<1>8. share_balance'[Owner(k)] = share_balance[Owner(k)] + request[k].shares
  BY <1>0, <1>6, <1>7, ShareMoves
<1>9. supply' = supply
  BY <1>6 DEF TransferShares
<1> QED BY <1>0, <1>6, <1>8, <1>9

\* Deadlines hold: neither a finalization nor an expedite reaches an expired
\* request, and its owner gets every share back.
THEOREM DeadlinesHold == QSpec => ExpiredOnlyReturns
<1>1. QIInv /\ [QNext]_qvars =>
        [\A k \in LiveKeys :
          request[k].expires_at # 0 /\ now >= request[k].expires_at
          /\ request'[k] # request[k] =>
              /\ request'[k] = ZeroRequest
              /\ share_balance'[Owner(k)] = share_balance[Owner(k)] + request[k].shares
              /\ supply' = supply]_qvars
  BY ExpiredStep
<1> QED BY <1>1, QInvariance, PTL DEF QSpec, ExpiredOnlyReturns

-----------------------------------------------------------------------------
\* With the queue attached, shares are exchanged for assets only by a
\* finalization.
LEMMA AttachedStep ==
    ASSUME QIInv, [QNext]_qvars, withdrawal_queue_authority = QueuePDA,
           supply' < supply, total_assets' < total_assets
    PROVE  \E k \in LiveKeys :
              /\ request'[k] = ZeroRequest
              /\ request[k].shares = supply - supply'
              /\ request[k].eligible_at <= now
<1>0. /\ request \in [RequestKeys -> Request] /\ supply \in Nat /\ now \in Nat
      /\ QueuePDA \notin Depositors /\ QueuePDA # NoKey
      /\ total_assets \in Nat
  BY KeyFacts, ConstantsAssumption, QueueConstantsAssumption
     DEF QIInv, QueueBooks, QTypeOK, IInv, TypeOK, total_assets, Wallets, Keys
<1>1. ~(supply' = supply) /\ ~(UNCHANGED aum)
  BY <1>0 DEF aum, total_assets
<1>2. ~HolderStep
  <2>1. ASSUME NEW u \in Depositors, NEW n \in Amounts, NEW min \in MinOuts, Deposit(u, n, min)
        PROVE  FALSE
    <3>1. PICK m : m > 0 /\ supply' = supply + m /\ m = SharesForDeposit(supply, total_assets, n, ShareOffset)
      BY <2>1 DEF Deposit
    <3>2. m \in Nat
      <4>1. n \in Nat /\ ShareOffset \in Nat \ {0}
        BY ConstantsAssumption
      <4> QED BY <1>0, <3>1, <4>1, PricesAreNatural
    <3> QED BY <1>0, <3>1, <3>2
  <2>2. ASSUME NEW u \in Depositors, NEW n \in Amounts, NEW min \in MinOuts, Redeem(u, n, min)
        PROVE  FALSE
    BY <1>0, <2>2 DEF Redeem, Redemption, MayRedeem
  <2> QED BY <2>1, <2>2 DEF HolderStep
<1>3. ~(OperatorStep \/ RegistryStep \/ SettingStep)
  BY <1>1 DEF OperatorStep, OperatorWithdraw, OperatorDeposit, OperatorUpdateAum,
     RegistryStep, RegisterSubaccount, DeregisterSubaccount, SettleSubaccountLoss,
     SettingStep, SetOperator, SetFeeRecipient, SetWithdrawalFee, SetAumLimits,
     Pause, Unpause, AttachWithdrawalQueue, CloseVault, funds, shares
<1>4. ~TokenStep
  BY <1>1 DEF TokenStep, TransferAssets, TransferShares, BurnShares, Approve, shares
<1>5. ~QueueAdminStep /\ ~Tick /\ ~(UNCHANGED qvars)
  BY <1>1 DEF QueueAdminStep, InitializeQueue, CreateQueue, SetCooldown, SetFulfillmentWindow,
     ReleaseVault, DetachWithdrawalQueue, SweepEscrowShares, TransferShares, Tick, funds, shares,
     qvars, vars
<1>6. RequestStep
  BY <1>2, <1>3, <1>4, <1>5 DEF QNext, VaultStep
<1>7. PICK k \in RequestKeys :
            \/ \E x \in Amounts, min \in Floors, recipient \in Recipients, f \in Finalizers :
                   RequestWithdrawal(k, x, min, recipient, f)
            \/ \E e \in 1 .. sequence : CancelWithdrawal(k, e)
            \/ \E e \in 1 .. sequence : ExpediteRequest(k, e)
            \/ \E e \in 1 .. sequence, caller \in Wallets : FinalizeWithdrawal(k, caller, e)
  BY <1>6, RequestStepCases
<1>8. \E e \in 1 .. sequence, caller \in Wallets : FinalizeWithdrawal(k, caller, e)
  BY <1>1, <1>7 DEF RequestWithdrawal, CancelWithdrawal, ExpediteRequest, TransferShares, vars, shares
<1>9. /\ Live(k) /\ IsEligible(request[k]) /\ supply' = supply - request[k].shares
      /\ request' = [request EXCEPT ![k] = ZeroRequest]
  BY <1>8 DEF FinalizeWithdrawal, StampMatches, CloseRequest, QueueRedeem, Redemption
<1>10. request[k].shares = supply - supply' /\ request[k].eligible_at <= now
  BY <1>0, <1>9 DEF Request, IsEligible
<1> QED BY <1>0, <1>9, <1>10 DEF LiveKeys

\* Nobody leaves around an attached queue or before a request is due.
THEOREM ExitsGoThroughQueue == QSpec => OnlyDueRequestsLeave
<1>1. QIInv /\ [QNext]_qvars =>
      [withdrawal_queue_authority = QueuePDA
       /\ supply' < supply /\ total_assets' < total_assets =>
          \E k \in LiveKeys :
              /\ request'[k] = ZeroRequest
              /\ request[k].shares = supply - supply'
              /\ request[k].eligible_at <= now]_qvars
  BY AttachedStep
<1> QED BY <1>1, QInvariance, PTL DEF QSpec, OnlyDueRequestsLeave

-----------------------------------------------------------------------------
\* No two requests ever held under one key share a stamp, so a request whose
\* stamp stays also keeps its shares.
LEMMA StampKeepsShares ==
    ASSUME QIInv, [QNext]_qvars, NEW k \in LiveKeys,
           request'[k].sequence = request[k].sequence
    PROVE  request'[k].shares = request[k].shares
<1>0. /\ k \in RequestKeys /\ Live(k) /\ request \in [RequestKeys -> Request]
      /\ request[k].sequence # 0
  BY DEF LiveKeys, Live, QIInv, QueueBooks, QTypeOK
<1>1. CASE ~RequestStep
  BY <1>1, RequestsUntouched DEF QNext
<1>2. CASE RequestStep
  <2>1. PICK j \in RequestKeys :
            \/ \E x \in Amounts, min \in Floors, recipient \in Recipients, f \in Finalizers :
                   RequestWithdrawal(j, x, min, recipient, f)
            \/ \E e \in 1 .. sequence : CancelWithdrawal(j, e)
            \/ \E e \in 1 .. sequence : ExpediteRequest(j, e)
            \/ \E e \in 1 .. sequence, caller \in Wallets : FinalizeWithdrawal(j, caller, e)
    BY <1>2, RequestStepCases
  <2>2. CASE j # k
    <3>1. \E r : request' = [request EXCEPT ![j] = r]
      BY <2>1 DEF RequestWithdrawal, CancelWithdrawal, CloseRequest, ExpediteRequest, FinalizeWithdrawal
    <3> QED BY <1>0, <2>2, <3>1
  <2>3. CASE j = k
    <3>1. ~(request' = [request EXCEPT ![k] = ZeroRequest])
      BY <1>0, ZeroRequestFacts
    <3>2. \E e \in 1 .. sequence : ExpediteRequest(k, e)
      BY <1>0, <2>1, <2>3, <3>1 DEF RequestWithdrawal, CancelWithdrawal, CloseRequest, FinalizeWithdrawal
    <3>3. request' = [request EXCEPT ![k].eligible_at = now]
      BY <3>2 DEF ExpediteRequest
    <3> QED BY <1>0, <3>3 DEF Request
  <2> QED BY <2>2, <2>3
<1> QED BY <1>1, <1>2

\* While a request waits, other holders' steps, other requests' and the
\* operator's transfers never lower what its shares would redeem for.
LEMMA QuoteSurvives ==
    ASSUME QIInv, QIInv', [QNext]_qvars, NEW k \in LiveKeys,
           request[k].shares <= supply', request'[k].sequence = request[k].sequence
    PROVE  /\ redeem_assets(request[k].shares) \in Nat
           /\ redeem_assets(request[k].shares)' \in Nat
           /\ ~LossReported =>
                  redeem_assets(request[k].shares) <= redeem_assets(request[k].shares)'
<1>1. /\ [Next]_vars /\ IInv /\ IInv'
      /\ request[k].shares \in Nat \ {0} /\ request[k].shares <= supply
  BY QueueStepRefines, RequestWithinSupply DEF QIInv
<1>2. request'[k].shares = request[k].shares
  BY StampKeepsShares
<1>3. redeem_assets(request[k].shares) \in Nat
  BY <1>1, PoolFacts, PricesAreNatural DEF redeem_assets
<1>4. redeem_assets(request[k].shares)' \in Nat
  <2>1. supply' \in Nat /\ total_assets' \in Nat /\ ShareOffset \in Nat \ {0}
    BY <1>1, PoolStaysNatural, ConstantsAssumption
  <2> QED BY <1>1, <1>2, <2>1, PricesAreNatural DEF redeem_assets
<1>5. ASSUME ~LossReported
      PROVE  redeem_assets(request[k].shares) <= redeem_assets(request[k].shares)'
  <2>1. AssetsForRedeem(supply, total_assets, request[k].shares, ShareOffset) <=
            AssetsForRedeem(supply', total_assets', request[k].shares, ShareOffset)
    BY <1>1, <1>5, QuoteKept
  <2> QED BY <1>2, <2>1 DEF redeem_assets
<1> QED BY <1>3, <1>4, <1>5

\* The shares of a request that is still the same are within the supply after
\* the step as well.
LEMMA StillWithinSupply ==
    QIInv /\ QIInv' /\ [QNext]_qvars =>
        \A k \in LiveKeys :
            request'[k].sequence = request[k].sequence => request[k].shares <= supply'
<1>1. QIInv' => (\A i \in LiveKeys : request[i].shares <= supply)'
  <2>1. QIInv => \A i \in LiveKeys : request[i].shares <= supply
    BY RequestWithinSupply
  <2> QED BY <2>1, PTL
<1>2. SUFFICES ASSUME QIInv, QIInv', [QNext]_qvars, NEW k \in LiveKeys,
                      request'[k].sequence = request[k].sequence
               PROVE  request[k].shares <= supply'
  OBVIOUS
<1>3. request'[k].shares = request[k].shares
  BY <1>2, StampKeepsShares
<1>4. k \in RequestKeys /\ Live(k)'
  BY <1>2 DEF LiveKeys, Live
<1> QED BY <1>1, <1>2, <1>3, <1>4 DEF LiveKeys

\* Queueing costs its owner nothing: request_withdrawal only escrows the
\* shares, and no step but a reported loss dilutes them until the request ends.
THEOREM WaitingIsSafe == QSpec => WaitingLosesNothing
<1>1. ASSUME QIInv, QIInv', [QNext]_qvars, NEW k \in LiveKeys,
             request'[k].sequence = request[k].sequence,
             redeem_assets(request[k].shares)' < redeem_assets(request[k].shares)
      PROVE  LossReported
  <2>1. request[k].shares <= supply'
    BY <1>1, StillWithinSupply
  <2> QED BY <1>1, <2>1, QuoteSurvives
<1>2. QIInv /\ QIInv' /\ [QNext]_qvars =>
      [\A k \in LiveKeys :
          request'[k].sequence = request[k].sequence
          /\ redeem_assets(request[k].shares)' < redeem_assets(request[k].shares) =>
              LossReported]_qvars
  BY <1>1
<1> QED BY <1>2, QInvariance, PTL DEF QSpec, WaitingLosesNothing

\* What one request under one stamp is worth at least, from some moment on.
WorthAtLeast(k, e, q) ==
    /\ e <= sequence
    /\ request[k].sequence = e => redeem_assets(request[k].shares) >= q

\* Stamps are given out once, so the bound is not forgotten when the request
\* ends and another one opens under its id.
LEMMA WorthKept ==
    ASSUME NEW k \in RequestKeys, NEW e \in Nat \ {0}, NEW q \in Nat,
           QIInv, QIInv', [QNext]_qvars, ~LossReported, WorthAtLeast(k, e, q)
    PROVE  WorthAtLeast(k, e, q)'
<1>0. /\ sequence \in Nat /\ request \in [RequestKeys -> Request] /\ e <= sequence
  BY QueueConstantsAssumption DEF QIInv, QueueBooks, QTypeOK, WorthAtLeast
<1>1. sequence' >= sequence /\ (request'[k].sequence = request[k].sequence
                                 \/ request'[k].sequence = 0
                                 \/ request'[k].sequence = sequence + 1)
  <2>1. CASE ~RequestStep
    BY <1>0, <2>1, RequestsUntouched
       DEF QNext, QueueAdminStep, InitializeQueue, SetCooldown, SetFulfillmentWindow,
           ReleaseVault, SweepEscrowShares, VaultStep, Tick, qvars, queue_vars, counters
  <2>2. CASE RequestStep
    <3>1. PICK j \in RequestKeys :
              \/ \E x \in Amounts, min \in Floors, recipient \in Recipients, f \in Finalizers :
                     RequestWithdrawal(j, x, min, recipient, f)
              \/ \E d \in 1 .. sequence : CancelWithdrawal(j, d)
              \/ \E d \in 1 .. sequence : ExpediteRequest(j, d)
              \/ \E d \in 1 .. sequence, caller \in Wallets : FinalizeWithdrawal(j, caller, d)
      BY <2>2, RequestStepCases
    <3>2. ASSUME NEW x, NEW min, NEW recipient, NEW f, RequestWithdrawal(j, x, min, recipient, f)
          PROVE  /\ sequence' = sequence + 1
                 /\ request'[k] = request[k] \/ request'[k].sequence = sequence + 1
      BY <1>0, <3>2 DEF RequestWithdrawal, Opened
    <3>3. ASSUME CloseRequest(j)
          PROVE  /\ sequence' = sequence
                 /\ request'[k] = request[k] \/ request'[k].sequence = 0
      BY <1>0, <3>3, ZeroRequestFacts DEF CloseRequest
    <3>4. ASSUME NEW d, ExpediteRequest(j, d)
          PROVE  sequence' = sequence /\ request'[k].sequence = request[k].sequence
      BY <1>0, <3>4 DEF ExpediteRequest, counters, Request
    <3> QED BY <1>0, <3>1, <3>2, <3>3, <3>4 DEF CancelWithdrawal, FinalizeWithdrawal
  <2> QED BY <2>1, <2>2
<1>2. ASSUME request'[k].sequence = e
      PROVE  redeem_assets(request[k].shares)' >= q
  <2>1. request[k].sequence = e
    BY <1>0, <1>1, <1>2
  <2>2. k \in LiveKeys /\ request'[k].sequence = request[k].sequence
    BY <1>2, <2>1 DEF LiveKeys, Live
  <2>3. request[k].shares <= supply'
    BY <2>2, StillWithinSupply
  <2>4. redeem_assets(request[k].shares) >= q
    BY <2>1 DEF WorthAtLeast
  <2> QED BY <2>2, <2>3, <2>4, QuoteSurvives
<1>3. sequence' \in Nat
  BY QueueConstantsAssumption DEF QIInv, QueueBooks, QTypeOK
<1> QED BY <1>0, <1>1, <1>2, <1>3 DEF WorthAtLeast

\* From the opening to the payout: as long as the operator reports no loss, a
\* finalization takes at least as much out of the vault for the request as it
\* was worth at any moment before, whatever happened in between.
THEOREM NoLossNoLess ==
    ASSUME NEW k \in RequestKeys, NEW e \in Nat \ {0}, NEW q \in Nat
    PROVE  QSpec /\ [][~LossReported]_qvars =>
               [](request[k].sequence = e /\ redeem_assets(request[k].shares) >= q =>
                     [][\A c \in Wallets : FinalizeWithdrawal(k, c, e) =>
                            local_aum - local_aum' >= q]_qvars)
<1>1. QIInv /\ request[k].sequence = e /\ redeem_assets(request[k].shares) >= q =>
          WorthAtLeast(k, e, q)
  <2> SUFFICES ASSUME QIInv, request[k].sequence = e, redeem_assets(request[k].shares) >= q
               PROVE  e <= sequence
    BY DEF WorthAtLeast
  <2>1. k \in LiveKeys
    BY DEF LiveKeys, Live
  <2> QED BY <2>1, StampIssued
<1>2. QIInv /\ QIInv' /\ [QNext]_qvars /\ [~LossReported]_qvars /\ WorthAtLeast(k, e, q) =>
          WorthAtLeast(k, e, q)'
  <2>1. CASE UNCHANGED qvars
    BY <2>1 DEF WorthAtLeast, qvars, queue_vars, counters, vars, shares, aum, config, policy,
       redeem_assets, total_assets
  <2>2. CASE ~LossReported
    BY <2>2, WorthKept
  <2> QED BY <2>1, <2>2
<1>3. QIInv /\ WorthAtLeast(k, e, q) =>
          [\A c \in Wallets : FinalizeWithdrawal(k, c, e) => local_aum - local_aum' >= q]_qvars
  <2> SUFFICES ASSUME QIInv, WorthAtLeast(k, e, q), NEW c \in Wallets, FinalizeWithdrawal(k, c, e)
               PROVE  local_aum - local_aum' >= q
    OBVIOUS
  <2>1. request[k].sequence = e /\ Live(k)
    BY DEF FinalizeWithdrawal, StampMatches
  <2>2. redeem_assets(request[k].shares) >= q
    BY <2>1 DEF WorthAtLeast
  <2>3. local_aum' = local_aum - redeem_assets(request[k].shares)
    BY DEF FinalizeWithdrawal, QueueRedeem, Redemption
  <2>4. local_aum \in Nat /\ redeem_assets(request[k].shares) \in Nat
    BY <2>1, RequestWithinSupply, PoolFacts, PricesAreNatural
       DEF redeem_assets, QIInv, LiveKeys
  <2> QED BY <2>2, <2>3, <2>4
<1> QED BY <1>1, <1>2, <1>3, QInvariance, PTL DEF QSpec

-----------------------------------------------------------------------------
\* A transfer between other accounts, or into the escrow, takes nothing from it.
LEMMA AssetMoves ==
    ASSUME IInv, NEW from \in Keys, NEW to \in Keys, NEW n \in Nat, n <= asset_balance[from],
           from # QueuePDA, asset_balance' = Move(asset_balance, from, to, n)
    PROVE  asset_balance'[QueuePDA] >= asset_balance[QueuePDA]
<1>1. asset_balance \in [Keys -> Nat] /\ QueuePDA \in Keys
  BY KeyFacts DEF IInv, TypeOK
<1>2. PICK g \in [Keys -> Nat] : g = asset_balance
  BY <1>1
<1>3. \A k \in Keys : Move(g, from, to, n)[k] =
          g[k] - (IF k = from THEN n ELSE 0) + (IF k = to THEN n ELSE 0)
  BY <1>2, MoveBalances
<1> QED BY <1>1, <1>2, <1>3

\* A finalization leaves at least what lay in the escrow before.
LEMMA PayoutLeavesDonations ==
    ASSUME IInv, NEW payee \in Keys, NEW x \in Nat, QueueRedeem(payee, x)
    PROVE  asset_balance'[QueuePDA] >= asset_balance[QueuePDA]
<1>1. /\ QueuePDA \in Keys /\ QueuePDA # VaultPDA /\ asset_balance[QueuePDA] \in Nat
      /\ Redemption(QueuePDA, x, 0)
      /\ asset_balance' = Move(AfterRedeem(QueuePDA, x), QueuePDA, payee, queue_received(x))
  BY KeyFacts, ConstantsAssumption DEF IInv, TypeOK, QueueRedeem
<1>2. /\ AfterRedeem(QueuePDA, x) \in [Keys -> Nat]
      /\ AfterRedeem(QueuePDA, x)[QueuePDA] >= asset_balance[QueuePDA]
  BY <1>1, PayoutFacts
<1>3. PICK g \in [Keys -> Nat] : g = AfterRedeem(QueuePDA, x)
  BY <1>2
<1>4. PICK n \in Nat : n = queue_received(x) /\ n = g[QueuePDA] - asset_balance[QueuePDA]
  BY <1>1, <1>2, <1>3 DEF queue_received
<1>5. n <= g[QueuePDA]
  BY <1>1, <1>4
<1>6. \A k \in Keys : Move(g, QueuePDA, payee, n)[k] =
          g[k] - (IF k = QueuePDA THEN n ELSE 0) + (IF k = payee THEN n ELSE 0)
  BY <1>1, <1>5, MoveBalances
<1>7. asset_balance' = Move(g, QueuePDA, payee, n)
  BY <1>1, <1>3, <1>4
<1>8. Move(g, QueuePDA, payee, n)[QueuePDA] =
          g[QueuePDA] - n + (IF QueuePDA = payee THEN n ELSE 0)
  BY <1>1, <1>6
<1>9. g[QueuePDA] \in Nat
  BY <1>1
<1> QED BY <1>1, <1>4, <1>7, <1>8, <1>9

\* No step of either program or of the token program lowers the escrow's
\* deposit-token balance.
LEMMA EscrowAssetsStep ==
    ASSUME IInv, [Next]_vars
    PROVE  asset_balance'[QueuePDA] >= asset_balance[QueuePDA]
<1>0. /\ asset_balance[QueuePDA] \in Nat /\ asset_balance \in [Keys -> Nat]
      /\ VaultPDA \in Keys /\ QueuePDA \in Keys /\ QueuePDA # VaultPDA /\ QueuePDA \notin Wallets
      /\ Depositors \subseteq Wallets /\ Wallets \subseteq Keys
      /\ Amounts \subseteq Nat /\ MinOuts \subseteq Nat
  BY KeyFacts, ConstantsAssumption DEF IInv, TypeOK, Wallets
<1>1. CASE HolderStep
  <2>1. ASSUME NEW u \in Depositors, NEW n \in Amounts, NEW min \in MinOuts, Deposit(u, n, min)
        PROVE  asset_balance'[QueuePDA] >= asset_balance[QueuePDA]
    <3>1. /\ u \in Keys /\ u # QueuePDA /\ n \in Nat /\ n <= asset_balance[u]
          /\ asset_balance' = Move(asset_balance, u, VaultPDA, n)
      BY <1>0, <2>1 DEF Deposit
    <3> QED BY <1>0, <3>1, AssetMoves
  <2>2. ASSUME NEW u \in Depositors, NEW n \in Amounts, NEW min \in MinOuts, Redeem(u, n, min)
        PROVE  asset_balance'[QueuePDA] >= asset_balance[QueuePDA]
    <3>1. /\ u \in Keys /\ n \in Nat /\ min \in Nat /\ Redemption(u, n, min)
          /\ asset_balance' = AfterRedeem(u, n)
      BY <1>0, <2>2 DEF Redeem
    <3> QED BY <1>0, <3>1, PayoutFacts
  <2> QED BY <1>1, <2>1, <2>2 DEF HolderStep
<1>2. CASE OperatorStep
  <2>1. ASSUME NEW sub \in registered \cup {NoKey}, NEW n \in Amounts,
               OperatorWithdraw(sub, n) \/ OperatorDeposit(sub, n)
        PROVE  asset_balance'[QueuePDA] >= asset_balance[QueuePDA]
    <3>1. Counterparty(sub) \in Wallets /\ Counterparty(sub) \in Keys /\ Counterparty(sub) # QueuePDA
      BY <1>0 DEF Counterparty, IInv, TypeOK, Wallets
    <3>2. n \in Nat
      BY <1>0
    <3>3. CASE OperatorWithdraw(sub, n)
      BY <1>0, <3>1, <3>2, <3>3, AssetMoves DEF OperatorWithdraw
    <3>4. CASE OperatorDeposit(sub, n)
      BY <1>0, <3>1, <3>2, <3>4, AssetMoves DEF OperatorDeposit
    <3> QED BY <2>1, <3>3, <3>4
  <2>2. ASSUME NEW n \in Reports, OperatorUpdateAum(n) PROVE asset_balance' = asset_balance
    BY <2>2 DEF OperatorUpdateAum
  <2> QED BY <1>0, <1>2, <2>1, <2>2 DEF OperatorStep
<1>3. CASE RegistryStep
  BY <1>0, <1>3 DEF RegistryStep, RegisterSubaccount, DeregisterSubaccount, SettleSubaccountLoss
<1>4. CASE SettingStep
  BY <1>0, <1>4 DEF SettingStep, SetOperator, SetFeeRecipient, SetWithdrawalFee, SetAumLimits,
     Pause, Unpause, AttachWithdrawalQueue, CloseVault, funds
<1>5. CASE TokenStep
  <2>1. ASSUME NEW from \in Wallets, NEW to \in Keys, NEW n \in Amounts, TransferAssets(from, to, n)
        PROVE  asset_balance'[QueuePDA] >= asset_balance[QueuePDA]
    <3>1. from \in Keys /\ from # QueuePDA /\ n \in Nat
      BY <1>0
    <3> QED BY <2>1, <3>1, AssetMoves DEF TransferAssets
  <2>2. CASE asset_balance' = asset_balance
    BY <1>0, <2>2
  <2> QED BY <1>5, <2>1, <2>2 DEF TokenStep, TransferShares, BurnShares, Approve
<1>6. CASE QueueProgramStep
  <2>1. ASSUME NEW x \in 1 .. share_balance[QueuePDA], NEW k \in Keys, QueueRedeem(k, x)
        PROVE  asset_balance'[QueuePDA] >= asset_balance[QueuePDA]
    <3>1. x \in Nat
      BY <1>0 DEF IInv, TypeOK
    <3> QED BY <2>1, <3>1, PayoutLeavesDonations
  <2>2. CASE asset_balance' = asset_balance
    BY <1>0, <2>2
  <2> QED BY <1>6, <2>1, <2>2
          DEF QueueProgramStep, CreateQueue, DetachWithdrawalQueue, TransferShares, funds
<1>7. CASE UNCHANGED vars
  BY <1>0, <1>7 DEF vars
<1> QED BY <1>1, <1>2, <1>3, <1>4, <1>5, <1>6, <1>7 DEF Next

\* Deposit tokens that lie in the escrow are never paid out, also when the
\* queue itself is the fee recipient.
THEOREM DonationsStay == QSpec => EscrowAssetsStay
<1>1. QIInv /\ [QNext]_qvars => [asset_balance'[QueuePDA] >= asset_balance[QueuePDA]]_qvars
  BY QueueStepRefines, EscrowAssetsStep DEF QIInv
<1> QED BY <1>1, QInvariance, PTL DEF QSpec, EscrowAssetsStay
=============================================================================
