---------------------------- MODULE VaultProofs ----------------------------
(***************************************************************************)
(* The vault's inductive invariant and what holders and custodies may rely *)
(* on because of it, for every value of the constants: solvent books, fair *)
(* round trips, no overpromise, the refinement of SharePool, coverage.     *)
(***************************************************************************)
EXTENDS Vault, OperatorLemmas

\* No step of a closed vault changes what close_vault checked.
ClosedShape == status = "closed" => supply = 0 /\ registered = {}

\* The inductive invariant.  Solvency alone is inductive with the types; the
\* supply needs to be the holders' balances for a burn or a redemption not to
\* exceed it, and the registry's books need each other.
IInv == TypeOK /\ Solvency /\ SupplyIsHeld /\ PrincipalLedger /\ ClosedShape

-----------------------------------------------------------------------------
\* Who is among the keys: every party is, the zero key is not.
LEMMA KeyFacts ==
    /\ IsFiniteSet(Keys) /\ IsFiniteSet(CustodyKeys)
    /\ CustodyKeys \subseteq Keys /\ OperatorKeys \subseteq Keys /\ Depositors \subseteq Keys
    /\ Wallets \subseteq Keys /\ FeeKeys \subseteq Keys
    /\ VaultPDA \in Keys /\ QueuePDA \in Keys /\ VaultPDA \notin Wallets
    /\ NoKey \notin Keys
<1>1. IsFiniteSet(CustodyKeys)
  BY ConstantsAssumption, FS_Subset DEF Keys, Wallets
<1> QED BY <1>1, ConstantsAssumption DEF Keys, Wallets

\* All accounts at zero: the sum is zero.
LEMMA TotalOfZeros ==
    ASSUME NEW D, NEW f \in [D -> Nat], \A k \in D : f[k] = 0
    PROVE  Total(f) = 0
<1>1. Units(f) = {}
  BY DEF Units
<1> QED BY <1>1, FS_EmptySet DEF Total

\* The laws of Tokens for the share accounts and for the principal ledger.
LEMMA SharesCredited ==
    ASSUME NEW h \in [Keys -> Nat], NEW k \in Keys, NEW n \in Nat
    PROVE  /\ Credit(h, k, n) \in [Keys -> Nat]
           /\ Total(Credit(h, k, n)) = Total(h) + n
<1>1. IsFiniteSet(Keys)
  BY KeyFacts
<1>2. Total(Credit(h, k, n)) = Total(h) + n
  BY <1>1, TotalCredit
<1>3. Credit(h, k, n) \in [Keys -> Nat]
  BY DEF Credit
<1> QED BY <1>2, <1>3

\* A burn takes its amount from one account and from the sum.
LEMMA SharesDebited ==
    ASSUME NEW h \in [Keys -> Nat], NEW k \in Keys, NEW n \in Nat, n <= h[k]
    PROVE  /\ Debit(h, k, n) \in [Keys -> Nat]
           /\ Total(Debit(h, k, n)) = Total(h) - n
           /\ Total(h) \in Nat /\ n <= Total(h)
<1>1. IsFiniteSet(Keys)
  BY KeyFacts
<1>2. Total(Debit(h, k, n)) = Total(h) - n
  BY <1>1, TotalDebit
<1>3. Debit(h, k, n) \in [Keys -> Nat]
  BY DEF Debit
<1>4. Total(h) \in Nat /\ h[k] <= Total(h)
  BY <1>1, TotalIsNatural
<1> QED BY <1>2, <1>3, <1>4

\* Shares change hands and no unit is made or lost.
LEMMA SharesMoved ==
    ASSUME NEW h \in [Keys -> Nat], NEW from \in Keys, NEW to \in Keys,
           NEW n \in Nat, n <= h[from]
    PROVE  /\ Move(h, from, to, n) \in [Keys -> Nat]
           /\ Total(Move(h, from, to, n)) = Total(h)
<1>1. /\ Debit(h, from, n) \in [Keys -> Nat]
      /\ Total(Debit(h, from, n)) = Total(h) - n /\ Total(h) \in Nat
  BY SharesDebited
<1>2. PICK g \in [Keys -> Nat] : g = Debit(h, from, n)
  BY <1>1
<1>3. Credit(g, to, n) \in [Keys -> Nat] /\ Total(Credit(g, to, n)) = Total(g) + n
  BY SharesCredited
<1> QED BY <1>1, <1>2, <1>3 DEF Move

\* A payment out of the reserve, possibly to the reserve itself.
LEMMA ReservePays ==
    ASSUME NEW h \in [Keys -> Nat], NEW to \in Keys, NEW n \in Nat, n <= h[VaultPDA]
    PROVE  /\ Move(h, VaultPDA, to, n) \in [Keys -> Nat]
           /\ Move(h, VaultPDA, to, n)[VaultPDA] >= h[VaultPDA] - n
           /\ to # VaultPDA => Move(h, VaultPDA, to, n)[VaultPDA] = h[VaultPDA] - n
           /\ \A k \in Keys \ {VaultPDA} : Move(h, VaultPDA, to, n)[k] >= h[k]
<1>1. VaultPDA \in Keys
  BY KeyFacts
<1>2. /\ Debit(h, VaultPDA, n) \in [Keys -> Nat]
      /\ Debit(h, VaultPDA, n)[VaultPDA] = h[VaultPDA] - n
      /\ \A k \in Keys \ {VaultPDA} : Debit(h, VaultPDA, n)[k] = h[k]
  BY <1>1 DEF Debit
<1>3. PICK g \in [Keys -> Nat] : g = Debit(h, VaultPDA, n)
  BY <1>2
<1>4. /\ Credit(g, to, n) \in [Keys -> Nat]
      /\ Credit(g, to, n)[VaultPDA] >= g[VaultPDA]
      /\ to # VaultPDA => Credit(g, to, n)[VaultPDA] = g[VaultPDA]
      /\ \A k \in Keys : Credit(g, to, n)[k] >= g[k]
  BY <1>1 DEF Credit
<1> QED BY <1>2, <1>3, <1>4 DEF Move

\* Replacing one destination's debt changes the sum by the difference.
LEMMA PrincipalReplaced ==
    ASSUME NEW h \in [CustodyKeys -> Nat], NEW c \in CustodyKeys, NEW n \in Nat
    PROVE  /\ Total(h) \in Nat /\ h[c] <= Total(h)
           /\ Total([h EXCEPT ![c] = n]) = Total(h) - h[c] + n
<1>1. IsFiniteSet(CustodyKeys)
  BY KeyFacts
<1>2. Total(h) \in Nat /\ h[c] <= Total(h)
  BY <1>1, TotalIsNatural
<1>3. Total([h EXCEPT ![c] = n]) = Total(h) - h[c] + n
  BY <1>1, TotalUpdate
<1> QED BY <1>2, <1>3

\* A newly initialized vault satisfies the invariant.
LEMMA InitInvariant == Init => IInv
<1> SUFFICES ASSUME Init PROVE IInv
  OBVIOUS
<1> USE ConstantsAssumption DEF Init
<1>1. TypeOK
  <2>1. 0 \in 0 .. U64Max /\ 0 \in Nat /\ 0 <= FeeDenominator
    OBVIOUS
  <2>2. /\ principal \in [CustodyKeys -> 0 .. U64Max]
        /\ delegated \in [CustodyKeys -> Nat]
        /\ share_balance \in [Keys -> Nat]
    BY <2>1
  <2> QED BY <2>1, <2>2 DEF TypeOK
<1>2. Solvency
  BY DEF Solvency
<1>3. SupplyIsHeld
  BY TotalOfZeros DEF SupplyIsHeld
<1>4. PrincipalLedger
  BY FS_EmptySet DEF PrincipalLedger
<1>5. ClosedShape
  BY DEF ClosedShape
<1> QED BY <1>1, <1>2, <1>3, <1>4, <1>5 DEF IInv

-----------------------------------------------------------------------------
(* One lemma per instruction. *)

\* deposit: the reserve, local_aum, the supply and the balances grow together.
LEMMA DepositInvariant ==
    ASSUME IInv, NEW u \in Depositors, NEW amount \in Amounts, NEW min \in MinOuts,
           Deposit(u, amount, min)
    PROVE  IInv'
<1> DEFINE minted == SharesForDeposit(supply, total_assets, amount, ShareOffset)
<1>0. /\ amount \in Nat /\ u \in Keys /\ u # VaultPDA /\ VaultPDA \in Keys
      /\ minted \in Nat /\ ShareOffset \in Nat \ {0}
  <2>1. amount \in Nat /\ ShareOffset \in Nat \ {0} /\ u \in Keys /\ VaultPDA \in Keys /\ u # VaultPDA
    BY ConstantsAssumption, KeyFacts DEF Wallets
  <2>2. supply \in Nat /\ total_assets \in Nat
    BY ConstantsAssumption DEF IInv, TypeOK, total_assets
  <2> QED BY <2>1, <2>2, PricesAreNatural
<1> HIDE DEF minted
<1>1. /\ status = "open" /\ amount <= asset_balance[u]
      /\ supply + minted <= U64Max /\ local_aum + amount <= U64Max
      /\ asset_balance' = Move(asset_balance, u, VaultPDA, amount)
      /\ share_balance' = Credit(share_balance, u, minted)
      /\ supply' = supply + minted
      /\ local_aum' = local_aum + amount
      /\ UNCHANGED <<config, deployed_aum, registry, delegated>>
  BY DEF Deposit, minted
<1> USE DEF config, registry, roles, gate, policy
<1>2. /\ asset_balance' \in [Keys -> Nat]
      /\ asset_balance'[VaultPDA] = asset_balance[VaultPDA] + amount
  BY <1>0, <1>1, MoveBalances DEF IInv, TypeOK
<1>3. /\ share_balance' \in [Keys -> Nat]
      /\ Total(share_balance') = Total(share_balance) + minted
  BY <1>0, <1>1, SharesCredited DEF IInv, TypeOK
<1>4. TypeOK'
  BY <1>0, <1>1, <1>2, <1>3, ConstantsAssumption DEF IInv, TypeOK
<1>5. Solvency'
  BY <1>0, <1>1, <1>2, ConstantsAssumption DEF IInv, TypeOK, Solvency
<1>6. SupplyIsHeld'
  BY <1>1, <1>3 DEF IInv, SupplyIsHeld
<1>7. PrincipalLedger'
  BY <1>1 DEF IInv, PrincipalLedger
<1>8. ClosedShape'
  BY <1>1 DEF ClosedShape
<1> QED BY <1>4, <1>5, <1>6, <1>7, <1>8 DEF IInv

\* Once it has been paid out, a redemption leaves the reserve no less than
\* what the books took off.
LEMMA PayoutFacts ==
    ASSUME IInv, NEW signer \in Keys, NEW x \in Nat, NEW min \in Nat,
           Redemption(signer, x, min)
    PROVE  /\ redeem_assets(x) \in Nat /\ redeem_assets(x) <= local_aum
           /\ AfterRedeem(signer, x) \in [Keys -> Nat]
           /\ AfterRedeem(signer, x)[VaultPDA] >= asset_balance[VaultPDA] - redeem_assets(x)
           /\ \A k \in Keys \ {VaultPDA} : AfterRedeem(signer, x)[k] >= asset_balance[k]
<1> DEFINE assets == redeem_assets(x)
           fees   == redeem_fees(assets)
           final  == assets - fees
<1>0. /\ assets \in Nat /\ fees \in Nat /\ VaultPDA \in Keys /\ fee_recipient \in Keys
  <2>1. supply \in Nat /\ total_assets \in Nat /\ ShareOffset \in Nat \ {0}
    BY ConstantsAssumption DEF IInv, TypeOK, total_assets
  <2>2. assets \in Nat
    BY <2>1, PricesAreNatural DEF redeem_assets
  <2>3. assets * withdrawal_fee \in Nat /\ FeeDenominator \in Nat \ {0}
    BY <2>2, ConstantsAssumption DEF IInv, TypeOK
  <2>4. assets * withdrawal_fee + FeeDenominator - 1 \in Nat
    BY <2>3
  <2>5. fees \in Nat
    BY <2>3, <2>4, DivBounds DEF redeem_fees, CeilDiv
  <2> QED BY <2>2, <2>5, KeyFacts DEF IInv, TypeOK
<1>1. fees <= assets /\ assets <= local_aum /\ assets <= asset_balance[VaultPDA]
  BY DEF Redemption
<1>2. AfterRedeem(signer, x) =
        Move(Move(asset_balance, VaultPDA, fee_recipient, fees), VaultPDA, signer, final)
  BY DEF AfterRedeem, net_assets
<1> HIDE DEF assets, fees
<1>3. asset_balance \in [Keys -> Nat] /\ fees <= asset_balance[VaultPDA]
  BY <1>0, <1>1 DEF IInv, TypeOK
<1>4. PICK paid : paid = Move(asset_balance, VaultPDA, fee_recipient, fees)
  OBVIOUS
<1>5. /\ paid \in [Keys -> Nat]
      /\ paid[VaultPDA] >= asset_balance[VaultPDA] - fees
      /\ \A k \in Keys \ {VaultPDA} : paid[k] >= asset_balance[k]
  BY <1>0, <1>3, <1>4, ReservePays
<1>6. final \in Nat /\ final <= paid[VaultPDA]
  BY <1>0, <1>1, <1>3, <1>5
<1>7. /\ Move(paid, VaultPDA, signer, final) \in [Keys -> Nat]
      /\ Move(paid, VaultPDA, signer, final)[VaultPDA] >= paid[VaultPDA] - final
      /\ \A k \in Keys \ {VaultPDA} : Move(paid, VaultPDA, signer, final)[k] >= paid[k]
  BY <1>5, <1>6, ReservePays
<1>8. PICK after \in [Keys -> Nat] : after = AfterRedeem(signer, x)
  BY <1>2, <1>4, <1>7
<1>9. /\ after[VaultPDA] >= paid[VaultPDA] - final
      /\ \A k \in Keys \ {VaultPDA} : after[k] >= paid[k]
  BY <1>2, <1>4, <1>7, <1>8
<1>10. /\ after[VaultPDA] >= asset_balance[VaultPDA] - assets
       /\ \A k \in Keys \ {VaultPDA} : after[k] >= asset_balance[k]
  BY <1>0, <1>3, <1>5, <1>6, <1>9
<1> QED BY <1>0, <1>1, <1>8, <1>10 DEF assets

\* The fee on an amount is a natural and never more than the amount.
LEMMA FeeFits ==
    ASSUME IInv, NEW n \in Nat
    PROVE  redeem_fees(n) \in Nat /\ redeem_fees(n) <= n
<1>1. /\ FeeDenominator \in Nat \ {0} /\ withdrawal_fee \in Nat /\ withdrawal_fee <= FeeDenominator
  BY ConstantsAssumption DEF IInv, TypeOK
<1>2. PICK d \in Nat \ {0}, fee \in Nat : d = FeeDenominator /\ fee = withdrawal_fee /\ fee <= d
  BY <1>1
<1>3. n * fee \in Nat /\ n * fee <= n * d
  BY ONLY n \in Nat, <1>2
<1>4. n * fee + d - 1 \in Nat /\ n * fee + d - 1 < (n + 1) * d
  BY ONLY n \in Nat, <1>2, <1>3
<1>5. (n * fee + d - 1) \div d \in Nat /\ (n * fee + d - 1) \div d <= n
  BY <1>2, <1>4, DivBounds, DivAtMost
<1> QED BY <1>2, <1>5 DEF redeem_fees, CeilDiv

\* A payout of n from a reserve that holds n brings the signer at least what
\* remains of it after the fee, also where the signer receives the fee.
LEMMA SignerReceives ==
    ASSUME IInv, NEW signer \in Keys \ {VaultPDA}, NEW x,
           redeem_assets(x) \in Nat, redeem_assets(x) <= asset_balance[VaultPDA]
    PROVE  /\ AfterRedeem(signer, x)[signer] \in Nat
           /\ AfterRedeem(signer, x)[signer] >= asset_balance[signer] + net_assets(redeem_assets(x))
<1> DEFINE assets == redeem_assets(x)
           fees   == redeem_fees(assets)
<1>1. /\ asset_balance \in [Keys -> Nat] /\ VaultPDA \in Keys /\ fee_recipient \in Keys
      /\ fees \in Nat /\ fees <= assets
  BY KeyFacts, FeeFits DEF IInv, TypeOK
<1>2. AfterRedeem(signer, x) =
        Move(Move(asset_balance, VaultPDA, fee_recipient, fees), VaultPDA, signer, assets - fees)
  BY DEF AfterRedeem, net_assets
<1>3. net_assets(assets) = assets - fees
  BY DEF net_assets
<1>4. assets \in Nat /\ assets <= asset_balance[VaultPDA]
  OBVIOUS
<1> HIDE DEF assets, fees
<1>5. PICK paid : paid = Move(asset_balance, VaultPDA, fee_recipient, fees)
  OBVIOUS
<1>6. fees <= asset_balance[VaultPDA]
  BY <1>1, <1>4
<1>7. /\ paid \in [Keys -> Nat]
      /\ paid[VaultPDA] >= asset_balance[VaultPDA] - fees
      /\ \A k \in Keys \ {VaultPDA} : paid[k] >= asset_balance[k]
  BY <1>1, <1>5, <1>6, ReservePays
<1>8. PICK final \in Nat : final = assets - fees /\ final <= paid[VaultPDA]
  BY <1>1, <1>4, <1>7
<1>9. /\ Move(paid, VaultPDA, signer, final) \in [Keys -> Nat]
      /\ Move(paid, VaultPDA, signer, final)[signer] = paid[signer] + final
  <2>1. \A k \in Keys : Move(paid, VaultPDA, signer, final)[k] =
             paid[k] - (IF k = VaultPDA THEN final ELSE 0) + (IF k = signer THEN final ELSE 0)
    BY <1>1, <1>7, <1>8, MoveBalances
  <2>2. Move(paid, VaultPDA, signer, final) \in [Keys -> Nat]
    BY <1>1, <1>7, <1>8, MoveBalances
  <2> QED BY <1>7, <2>1, <2>2
<1>10. /\ AfterRedeem(signer, x)[signer] \in Nat
       /\ AfterRedeem(signer, x)[signer] = paid[signer] + final
  BY <1>2, <1>5, <1>8, <1>9
<1>11. paid[signer] >= asset_balance[signer] /\ asset_balance[signer] \in Nat /\ paid[signer] \in Nat
  BY <1>1, <1>7
<1> QED BY <1>3, <1>8, <1>10, <1>11 DEF assets

\* A redemption keeps the invariant whoever ends up with the payout.
LEMMA RedemptionInvariant ==
    ASSUME IInv, NEW signer \in Keys, NEW x \in Nat, NEW min \in Nat,
           Redemption(signer, x, min), asset_balance' \in [Keys -> Nat],
           asset_balance'[VaultPDA] >= asset_balance[VaultPDA] - redeem_assets(x)
    PROVE  IInv'
<1> DEFINE assets == redeem_assets(x)
<1>0. assets \in Nat /\ assets <= local_aum /\ VaultPDA \in Keys
  BY PayoutFacts, KeyFacts
<1> HIDE DEF assets
<1>1. /\ status = "open" /\ x <= share_balance[signer]
      /\ local_aum' = local_aum - assets
      /\ share_balance' = Debit(share_balance, signer, x)
      /\ supply' = supply - x
      /\ asset_balance'[VaultPDA] >= asset_balance[VaultPDA] - assets
      /\ UNCHANGED <<config, deployed_aum, registry, delegated>>
  BY DEF Redemption, assets
<1> USE DEF config, registry, roles, gate, policy
<1>2. /\ share_balance' \in [Keys -> Nat]
      /\ Total(share_balance') = Total(share_balance) - x
      /\ x <= Total(share_balance)
  BY <1>1, SharesDebited DEF IInv, TypeOK
<1>3. TypeOK'
  <2>1. local_aum' \in 0 .. U64Max /\ supply' \in 0 .. U64Max
    BY <1>0, <1>1, <1>2, ConstantsAssumption DEF IInv, TypeOK, SupplyIsHeld
  <2> QED BY <1>1, <1>2, <2>1 DEF IInv, TypeOK
<1>4. Solvency'
  BY <1>0, <1>1, ConstantsAssumption DEF IInv, TypeOK, Solvency
<1>5. SupplyIsHeld' /\ PrincipalLedger' /\ ClosedShape'
  BY <1>1, <1>2 DEF IInv, SupplyIsHeld, PrincipalLedger, ClosedShape
<1> QED BY <1>3, <1>4, <1>5 DEF IInv

\* redeem by a holder.
LEMMA RedeemInvariant ==
    ASSUME IInv, NEW u \in Keys, NEW x \in Nat, NEW min \in Nat, Redeem(u, x, min)
    PROVE  IInv'
<1>1. Redemption(u, x, min) /\ asset_balance' = AfterRedeem(u, x)
  BY DEF Redeem
<1>2. /\ asset_balance' \in [Keys -> Nat]
      /\ asset_balance'[VaultPDA] >= asset_balance[VaultPDA] - redeem_assets(x)
  BY <1>1, PayoutFacts
<1> QED BY <1>1, <1>2, RedemptionInvariant

\* redeem by the queue, with the payout passed on.
LEMMA QueueRedeemInvariant ==
    ASSUME IInv, NEW payee \in Keys, NEW x \in Nat, QueueRedeem(payee, x)
    PROVE  IInv'
<1> DEFINE received == AfterRedeem(QueuePDA, x)[QueuePDA] - asset_balance[QueuePDA]
<1>1. /\ Redemption(QueuePDA, x, 0)
      /\ asset_balance' = Move(AfterRedeem(QueuePDA, x), QueuePDA, payee, received)
  BY DEF QueueRedeem, queue_received
<1>2. QueuePDA \in Keys /\ VaultPDA \in Keys /\ QueuePDA # VaultPDA
  BY KeyFacts, ConstantsAssumption
<1>3. asset_balance \in [Keys -> Nat]
  BY DEF IInv, TypeOK
<1>4. /\ AfterRedeem(QueuePDA, x) \in [Keys -> Nat]
      /\ AfterRedeem(QueuePDA, x)[QueuePDA] >= asset_balance[QueuePDA]
      /\ AfterRedeem(QueuePDA, x)[VaultPDA] >= asset_balance[VaultPDA] - redeem_assets(x)
      /\ redeem_assets(x) \in Nat
  BY <1>1, <1>2, PayoutFacts
<1>5. PICK after \in [Keys -> Nat] : after = AfterRedeem(QueuePDA, x)
  BY <1>4
<1>6. received \in Nat /\ received <= after[QueuePDA]
  BY <1>2, <1>3, <1>4, <1>5
<1> HIDE DEF received
<1>7. /\ Move(after, QueuePDA, payee, received) \in [Keys -> Nat]
      /\ Move(after, QueuePDA, payee, received)[VaultPDA] >= after[VaultPDA]
  <2>1. Debit(after, QueuePDA, received) \in [Keys -> Nat]
    BY <1>2, <1>6 DEF Debit
  <2>2. PICK g \in [Keys -> Nat] : g = Debit(after, QueuePDA, received)
    BY <2>1
  <2>3. g[VaultPDA] = after[VaultPDA]
    BY <1>2, <2>2 DEF Debit
  <2>4. /\ Credit(g, payee, received) \in [Keys -> Nat]
        /\ Credit(g, payee, received)[VaultPDA] >= g[VaultPDA]
    BY <1>2, <1>6 DEF Credit
  <2> QED BY <2>2, <2>3, <2>4 DEF Move
<1>8. PICK final \in [Keys -> Nat] : final = asset_balance'
  BY <1>1, <1>5, <1>7
<1>9. final[VaultPDA] >= asset_balance[VaultPDA] - redeem_assets(x)
  BY <1>1, <1>2, <1>3, <1>4, <1>5, <1>7, <1>8
<1> QED BY <1>1, <1>2, <1>8, <1>9, RedemptionInvariant

\* With no destination registered the operator deals with itself, and then
\* there is no registered key; otherwise the counterparty is a registered one.
LEMMA CounterpartyFacts ==
    ASSUME IInv, NEW sub \in registered \cup {NoKey}, Pairing(sub)
    PROVE  /\ Counterparty(sub) \in Keys /\ Counterparty(sub) # VaultPDA
           /\ sub = NoKey => registered = {}
           /\ sub # NoKey => sub \in registered /\ sub \in CustodyKeys
<1>1. sub # NoKey => sub \in registered /\ sub \in CustodyKeys
  BY DEF IInv, TypeOK
<1>2. Counterparty(sub) \in Wallets
  BY <1>1 DEF Counterparty, Wallets, IInv, TypeOK
<1>3. sub = NoKey => registered = {}
  <2> HAVE sub = NoKey
  <2>1. Cardinality(registered) = 0
    BY ConstantsAssumption DEF Pairing, requires_subaccount, IInv, TypeOK, PrincipalLedger
  <2>2. IsFiniteSet(registered)
    BY KeyFacts, FS_Subset DEF IInv, TypeOK
  <2> QED BY <2>1, <2>2, FS_EmptySet
<1> QED BY <1>1, <1>2, <1>3, KeyFacts

\* operator_withdraw: both principal counters grow by the amount, and
\* local_aum saturates when donated tokens leave.
LEMMA OperatorWithdrawInvariant ==
    ASSUME IInv, NEW sub \in registered \cup {NoKey}, NEW amount \in Nat,
           OperatorWithdraw(sub, amount)
    PROVE  IInv'
<1> DEFINE other == Counterparty(sub)
<1>0. /\ other \in Keys /\ other # VaultPDA /\ VaultPDA \in Keys
      /\ sub = NoKey => registered = {}
      /\ sub # NoKey => sub \in registered /\ sub \in CustodyKeys
  BY CounterpartyFacts, KeyFacts DEF OperatorWithdraw, CountWithdrawn
<1> HIDE DEF other
<1>1. /\ status = "open" /\ amount <= asset_balance[VaultPDA]
      /\ deployed_aum + amount <= U64Max /\ deployed_principal + amount <= U64Max
      /\ asset_balance' = Move(asset_balance, VaultPDA, other, amount)
      /\ local_aum' = Larger(local_aum - amount, 0)
      /\ deployed_aum' = deployed_aum + amount
      /\ deployed_principal' = deployed_principal + amount
      /\ \/ sub = NoKey /\ principal' = principal
         \/ /\ sub # NoKey /\ principal[sub] + amount <= U64Max
            /\ principal' = Credit(principal, sub, amount)
      /\ UNCHANGED <<config, subaccount_count, registered, shares, delegated>>
  BY DEF OperatorWithdraw, CountWithdrawn, other
<1> USE DEF config, shares, roles, gate, policy
<1>2. /\ asset_balance' \in [Keys -> Nat]
      /\ asset_balance'[VaultPDA] = asset_balance[VaultPDA] - amount
  BY <1>0, <1>1, ReservePays DEF IInv, TypeOK
<1>3. /\ local_aum' \in 0 .. U64Max /\ deployed_aum' \in 0 .. U64Max
      /\ deployed_principal' \in 0 .. U64Max
      /\ local_aum' <= asset_balance'[VaultPDA]
  BY <1>1, <1>2, KeyFacts, ConstantsAssumption DEF IInv, TypeOK, Solvency, Larger
<1>4. CASE sub = NoKey
  <2>1. principal' = principal /\ registered' = {} /\ registered = {}
    BY <1>0, <1>1, <1>4
  <2>2. TypeOK'
    BY <1>1, <1>2, <1>3, <2>1 DEF IInv, TypeOK
  <2>3. Solvency' /\ SupplyIsHeld' /\ PrincipalLedger' /\ ClosedShape'
    BY <1>1, <1>3, <2>1 DEF IInv, Solvency, SupplyIsHeld, PrincipalLedger, ClosedShape
  <2> QED BY <2>2, <2>3 DEF IInv
<1>5. CASE sub # NoKey
  <2>1. PICK v \in Nat : v = principal[sub] + amount /\ v <= U64Max
    BY <1>0, <1>1, <1>5 DEF IInv, TypeOK
  <2>2. principal' = [principal EXCEPT ![sub] = v] /\ principal \in [CustodyKeys -> Nat]
    BY <1>0, <1>1, <1>5, <2>1 DEF Credit, IInv, TypeOK
  <2>3. /\ Total(principal) \in Nat
        /\ Total(principal') = Total(principal) - principal[sub] + v
    BY <1>0, <1>5, <2>2, PrincipalReplaced
  <2>4. Total(principal') = Total(principal) + amount
    BY <1>0, <1>5, <2>1, <2>2, <2>3
  <2>5. principal' \in [CustodyKeys -> 0 .. U64Max]
    BY <1>0, <1>5, <2>1, <2>2 DEF IInv, TypeOK
  <2>6. TypeOK'
    BY <1>1, <1>2, <1>3, <2>5 DEF IInv, TypeOK
  <2>7. PrincipalLedger'
    <3>1. deployed_principal' = Total(principal')
      BY <1>0, <1>1, <1>5, <2>4 DEF IInv, PrincipalLedger
    <3>2. \A c \in CustodyKeys \ registered' : principal'[c] = 0
      BY <1>0, <1>1, <1>5, <2>2 DEF IInv, PrincipalLedger
    <3> QED BY <1>1, <3>1, <3>2 DEF IInv, PrincipalLedger
  <2>8. Solvency' /\ SupplyIsHeld' /\ ClosedShape'
    BY <1>1, <1>3 DEF IInv, Solvency, SupplyIsHeld, ClosedShape
  <2> QED BY <2>6, <2>7, <2>8 DEF IInv
<1> QED BY <1>4, <1>5

\* operator_deposit: a surplus lowers neither counter below the debts.
LEMMA OperatorDepositInvariant ==
    ASSUME IInv, NEW sub \in registered \cup {NoKey}, NEW amount \in Nat,
           OperatorDeposit(sub, amount)
    PROVE  IInv'
<1> DEFINE other == Counterparty(sub)
           paid == repaid(sub, amount)
<1>0. /\ other \in Keys /\ other # VaultPDA /\ VaultPDA \in Keys
      /\ sub = NoKey => registered = {}
      /\ sub # NoKey => sub \in registered /\ sub \in CustodyKeys
  BY CounterpartyFacts, KeyFacts DEF OperatorDeposit
<1> HIDE DEF other
<1>1. /\ status = "open" /\ amount <= asset_balance[other]
      /\ local_aum + amount <= U64Max
      /\ sub # NoKey => delegated[sub] >= amount
      /\ asset_balance' = Move(asset_balance, other, VaultPDA, amount)
      /\ deployed_aum' = Larger(deployed_aum - amount, 0)
      /\ local_aum' = local_aum + amount
      /\ deployed_principal' = Larger(deployed_principal - paid, 0)
      /\ \/ sub = NoKey /\ UNCHANGED <<principal, delegated>>
         \/ /\ sub # NoKey
            /\ principal' = [principal EXCEPT ![sub] = Larger(@ - amount, 0)]
            /\ delegated' = Debit(delegated, sub, amount)
      /\ UNCHANGED <<config, subaccount_count, registered, shares>>
  BY DEF OperatorDeposit, other
<1> USE DEF config, shares, roles, gate, policy
<1>2. /\ asset_balance' \in [Keys -> Nat]
      /\ asset_balance'[VaultPDA] = asset_balance[VaultPDA] + amount
  BY <1>0, <1>1, MoveBalances DEF IInv, TypeOK
<1>3. paid \in Nat
  BY <1>0 DEF IInv, TypeOK, Smaller, repaid
<1>4. /\ local_aum' \in 0 .. U64Max /\ deployed_aum' \in 0 .. U64Max
      /\ deployed_principal' \in 0 .. U64Max
      /\ local_aum' <= asset_balance'[VaultPDA]
  BY <1>1, <1>2, <1>3, KeyFacts, ConstantsAssumption DEF IInv, TypeOK, Solvency, Larger
<1>5. CASE sub = NoKey
  <2>1. principal' = principal /\ delegated' = delegated /\ registered' = {} /\ registered = {}
    BY <1>0, <1>1, <1>5
  <2>2. TypeOK'
    BY <1>1, <1>2, <1>4, <2>1 DEF IInv, TypeOK
  <2>3. Solvency' /\ SupplyIsHeld' /\ PrincipalLedger' /\ ClosedShape'
    BY <1>1, <1>4, <2>1 DEF IInv, Solvency, SupplyIsHeld, PrincipalLedger, ClosedShape
  <2> QED BY <2>2, <2>3 DEF IInv
<1>6. CASE sub # NoKey
  <2>1. PICK v \in Nat : v = principal[sub] - paid /\ v = Larger(principal[sub] - amount, 0)
    BY <1>0, <1>6 DEF IInv, TypeOK, Larger, Smaller, repaid
  <2>2. principal' = [principal EXCEPT ![sub] = v] /\ principal \in [CustodyKeys -> Nat]
    BY <1>0, <1>1, <1>6, <2>1 DEF IInv, TypeOK
  <2>3. /\ Total(principal) \in Nat /\ principal[sub] <= Total(principal)
        /\ Total(principal') = Total(principal) - principal[sub] + v
    BY <1>0, <1>6, <2>2, PrincipalReplaced
  <2>4. Total(principal') = Larger(Total(principal) - paid, 0)
    BY <1>0, <1>3, <1>6, <2>1, <2>2, <2>3 DEF Larger
  <2>5. principal' \in [CustodyKeys -> 0 .. U64Max]
    <3>1. v \in 0 .. U64Max
      BY <1>0, <1>3, <1>6, <2>1, ConstantsAssumption DEF IInv, TypeOK
    <3> QED BY <2>2, <3>1 DEF IInv, TypeOK
  <2>6. delegated' \in [CustodyKeys -> Nat]
    BY <1>0, <1>1, <1>6 DEF IInv, TypeOK, Debit
  <2>7. TypeOK'
    BY <1>1, <1>2, <1>4, <2>5, <2>6 DEF IInv, TypeOK
  <2>8. PrincipalLedger'
    <3>1. deployed_principal' = Total(principal')
      BY <1>0, <1>1, <1>6, <2>4 DEF IInv, PrincipalLedger
    <3>2. \A c \in CustodyKeys \ registered' : principal'[c] = 0
      BY <1>0, <1>1, <1>6, <2>2 DEF IInv, PrincipalLedger
    <3> QED BY <1>1, <3>1, <3>2 DEF IInv, PrincipalLedger
  <2>9. Solvency' /\ SupplyIsHeld' /\ ClosedShape'
    BY <1>1, <1>4 DEF IInv, Solvency, SupplyIsHeld, ClosedShape
  <2> QED BY <2>7, <2>8, <2>9 DEF IInv
<1> QED BY <1>5, <1>6

\* operator_update_aum touches nothing the invariant relates.
LEMMA OperatorUpdateAumInvariant ==
    ASSUME IInv, NEW new_aum \in Nat, OperatorUpdateAum(new_aum)
    PROVE  IInv'
<1> USE DEF OperatorUpdateAum, config, registry, shares, roles, gate, policy
<1>1. deployed_aum' \in 0 .. U64Max
  BY ConstantsAssumption
<1>2. TypeOK'
  BY <1>1 DEF IInv, TypeOK
<1>3. Solvency' /\ SupplyIsHeld' /\ PrincipalLedger' /\ ClosedShape'
  BY DEF IInv, Solvency, SupplyIsHeld, PrincipalLedger, ClosedShape
<1> QED BY <1>2, <1>3 DEF IInv

\* The first destination registered adopts the principal the vault had before,
\* which is what makes the ledger balance from then on.
LEMMA RegisterInvariant ==
    ASSUME IInv, NEW c \in CustodyKeys, RegisterSubaccount(c)
    PROVE  IInv'
<1> USE DEF config, aum, shares, roles, gate, policy
<1>1. /\ status = "open" /\ c \notin registered /\ subaccount_count < U64Max
      /\ registered' = registered \cup {c}
      /\ principal' = [principal EXCEPT ![c] = inherited]
      /\ subaccount_count' = subaccount_count + 1
      /\ UNCHANGED <<config, aum, deployed_principal, asset_balance, shares, delegated>>
  BY DEF RegisterSubaccount
<1>2. inherited \in Nat /\ inherited <= U64Max
  BY ConstantsAssumption DEF IInv, TypeOK, inherited
<1>3. TypeOK'
  <2>1. principal' \in [CustodyKeys -> 0 .. U64Max] /\ registered' \subseteq CustodyKeys
    BY <1>1, <1>2, ConstantsAssumption DEF IInv, TypeOK
  <2>2. subaccount_count' \in 0 .. U64Max
    BY <1>1, ConstantsAssumption DEF IInv, TypeOK
  <2> QED BY <1>1, <2>1, <2>2 DEF IInv, TypeOK
<1>4. PrincipalLedger'
  <2>1. IsFiniteSet(registered) /\ IsFiniteSet(CustodyKeys)
    BY KeyFacts, FS_Subset DEF IInv, TypeOK
  <2>2. Cardinality(registered') = Cardinality(registered) + 1
    BY <1>1, <2>1, FS_AddElement
  <2>3. \A k \in CustodyKeys \ registered' : principal'[k] = 0
    BY <1>1 DEF IInv, TypeOK, PrincipalLedger
  <2>4. principal \in [CustodyKeys -> Nat] /\ principal[c] = 0
    BY <1>1 DEF IInv, TypeOK, PrincipalLedger
  <2>5. Total(principal) \in Nat /\ Total(principal') = Total(principal) + inherited
    <3>1. /\ Total(principal) \in Nat
          /\ Total(principal') = Total(principal) - principal[c] + inherited
      BY <1>1, <1>2, <2>4, PrincipalReplaced
    <3> QED BY <1>2, <2>4, <3>1
  <2>6. deployed_principal' = Total(principal')
    <3>1. CASE subaccount_count = 0
      <4>1. registered = {}
        BY <2>1, <3>1, FS_EmptySet DEF IInv, PrincipalLedger
      <4>2. \A k \in CustodyKeys : principal[k] = 0
        BY <4>1 DEF IInv, PrincipalLedger
      <4>3. Total(principal) = 0
        BY <2>4, <4>2, TotalOfZeros
      <4> QED BY <1>1, <1>2, <2>5, <3>1, <4>3 DEF inherited
    <3>2. CASE subaccount_count # 0
      <4>1. registered # {}
        BY <3>2, FS_EmptySet DEF IInv, PrincipalLedger
      <4> QED BY <1>1, <2>5, <3>2, <4>1 DEF IInv, PrincipalLedger, inherited
    <3> QED BY <3>1, <3>2
  <2> QED BY <1>1, <2>2, <2>3, <2>6 DEF IInv, PrincipalLedger
<1>5. Solvency' /\ SupplyIsHeld' /\ ClosedShape'
  BY <1>1 DEF IInv, Solvency, SupplyIsHeld, ClosedShape
<1> QED BY <1>3, <1>4, <1>5 DEF IInv

\* deregister_subaccount: only a destination without debt leaves the books.
LEMMA DeregisterInvariant ==
    ASSUME IInv, NEW c \in CustodyKeys, DeregisterSubaccount(c)
    PROVE  IInv'
<1> USE DEF config, aum, shares, roles, gate, policy
<1>1. /\ status = "open" /\ c \in registered /\ principal[c] = 0
      /\ registered' = registered \ {c}
      /\ subaccount_count' = Larger(subaccount_count - 1, 0)
      /\ UNCHANGED <<config, aum, deployed_principal, principal, asset_balance, shares, delegated>>
  BY DEF DeregisterSubaccount
<1>2. TypeOK'
  <2>1. subaccount_count' \in 0 .. U64Max /\ registered' \subseteq CustodyKeys
    BY <1>1, ConstantsAssumption DEF IInv, TypeOK, Larger
  <2> QED BY <1>1, <2>1 DEF IInv, TypeOK
<1>3. PrincipalLedger'
  <2>1. IsFiniteSet(registered)
    BY KeyFacts, FS_Subset DEF IInv, TypeOK
  <2>2. Cardinality(registered') = Cardinality(registered) - 1 /\ Cardinality(registered) > 0
    BY <1>1, <2>1, FS_RemoveElement, FS_EmptySet, FS_CardinalityType
  <2>3. subaccount_count' = Cardinality(registered')
    BY <1>1, <2>2 DEF IInv, TypeOK, PrincipalLedger, Larger
  <2> QED BY <1>1, <2>3 DEF IInv, PrincipalLedger
<1>4. Solvency' /\ SupplyIsHeld' /\ ClosedShape'
  BY <1>1 DEF IInv, Solvency, SupplyIsHeld, ClosedShape
<1> QED BY <1>2, <1>3, <1>4 DEF IInv

\* settle_subaccount_loss lowers both counters by the same amount.
LEMMA SettleInvariant ==
    ASSUME IInv, NEW c \in CustodyKeys, NEW amount \in Nat, SettleSubaccountLoss(c, amount)
    PROVE  IInv'
<1> USE DEF config, aum, shares, roles, gate, policy
<1>1. /\ status = "open" /\ c \in registered
      /\ amount <= Larger(principal[c] - asset_balance[c], 0)
      /\ principal' = Debit(principal, c, amount)
      /\ deployed_principal' = Larger(deployed_principal - amount, 0)
      /\ UNCHANGED <<config, aum, subaccount_count, registered, asset_balance, shares, delegated>>
  BY DEF SettleSubaccountLoss, max_loss
<1>2. principal[c] \in 0 .. U64Max /\ asset_balance[c] \in Nat /\ U64Max \in Nat
  BY KeyFacts, ConstantsAssumption DEF IInv, TypeOK
<1>3. PICK v \in Nat : v = principal[c] - amount /\ v <= U64Max
  BY <1>1, <1>2 DEF Larger
<1>4. principal' = [principal EXCEPT ![c] = v] /\ principal \in [CustodyKeys -> Nat]
  BY <1>1, <1>3 DEF IInv, TypeOK, Debit
<1>5. /\ Total(principal) \in Nat /\ principal[c] <= Total(principal)
      /\ Total(principal') = Total(principal) - principal[c] + v
  BY <1>4, PrincipalReplaced
<1>6. Total(principal') = Larger(Total(principal) - amount, 0)
  BY <1>2, <1>3, <1>5 DEF Larger
<1>7. TypeOK'
  <2>1. principal' \in [CustodyKeys -> 0 .. U64Max]
    BY <1>3, <1>4, ConstantsAssumption DEF IInv, TypeOK
  <2>2. deployed_principal' \in 0 .. U64Max
    BY <1>1, ConstantsAssumption DEF IInv, TypeOK, Larger
  <2> QED BY <1>1, <2>1, <2>2 DEF IInv, TypeOK
<1>8. PrincipalLedger'
  <2>1. deployed_principal' = Total(principal')
    BY <1>1, <1>6 DEF IInv, PrincipalLedger
  <2>2. \A k \in CustodyKeys \ registered' : principal'[k] = 0
    BY <1>1, <1>4 DEF IInv, PrincipalLedger
  <2> QED BY <1>1, <2>1, <2>2 DEF IInv, PrincipalLedger
<1>9. Solvency' /\ SupplyIsHeld' /\ ClosedShape'
  BY <1>1 DEF IInv, Solvency, SupplyIsHeld, ClosedShape
<1> QED BY <1>7, <1>8, <1>9 DEF IInv

\* The admin's settings touch neither funds nor books.
LEMMA SettingInvariant ==
    ASSUME IInv, SettingStep
    PROVE  IInv'
<1> DEFINE SettingTypes ==
             /\ paused \in BOOLEAN /\ operator \in OperatorKeys /\ fee_recipient \in FeeKeys
             /\ withdrawal_fee \in Nat /\ withdrawal_fee <= FeeDenominator
             /\ aum_increase_limit \in 0 .. BpsDenominator
             /\ aum_decrease_limit \in 0 .. BpsDenominator
             /\ withdrawal_queue_authority \in {NoKey, QueuePDA} /\ queue_exists \in BOOLEAN
<1> USE DEF roles, gate, policy
<1>1. SettingTypes
  BY DEF IInv, TypeOK
<1> SUFFICES ASSUME UNCHANGED funds, SettingTypes',
                    \/ status' = status
                    \/ status' = "closed" /\ supply = 0 /\ registered = {}
             PROVE  IInv'
  <2>1. ASSUME NEW k \in OperatorKeys, SetOperator(k)
        PROVE  UNCHANGED funds /\ SettingTypes' /\ status' = status
    BY <1>1, <2>1 DEF SetOperator
  <2>2. ASSUME NEW k \in FeeKeys, SetFeeRecipient(k)
        PROVE  UNCHANGED funds /\ SettingTypes' /\ status' = status
    BY <1>1, <2>2 DEF SetFeeRecipient
  <2>3. ASSUME NEW fee \in Fees, SetWithdrawalFee(fee)
        PROVE  UNCHANGED funds /\ SettingTypes' /\ status' = status
    <3>1. fee \in Nat /\ FeeDenominator \in Nat /\ fee < (10 * FeeDenominator) \div 100
      BY <2>3, ConstantsAssumption DEF SetWithdrawalFee
    <3>2. fee <= FeeDenominator
      BY <3>1
    <3> QED BY <1>1, <2>3, <3>1, <3>2 DEF SetWithdrawalFee
  <2>4. ASSUME NEW i \in Limits, NEW d \in Limits, SetAumLimits(i, d)
        PROVE  UNCHANGED funds /\ SettingTypes' /\ status' = status
    <3>1. i \in 0 .. BpsDenominator /\ d \in 0 .. BpsDenominator
      BY <2>4, ConstantsAssumption DEF SetAumLimits
    <3> QED BY <1>1, <2>4, <3>1 DEF SetAumLimits
  <2>5. ASSUME Pause \/ Unpause PROVE UNCHANGED funds /\ SettingTypes' /\ status' = status
    BY <1>1, <2>5 DEF Pause, Unpause
  <2>6. ASSUME AttachWithdrawalQueue
        PROVE  UNCHANGED funds /\ SettingTypes' /\ status' = status
    BY <1>1, <2>6 DEF AttachWithdrawalQueue
  <2>7. ASSUME CloseVault
        PROVE  /\ UNCHANGED funds /\ SettingTypes'
               /\ status' = "closed" /\ supply = 0 /\ registered = {}
    <3>1. Cardinality(registered) = 0
      BY <2>7 DEF CloseVault, IInv, PrincipalLedger
    <3>2. IsFiniteSet(registered)
      BY KeyFacts, FS_Subset DEF IInv, TypeOK
    <3>3. registered = {}
      BY <3>1, <3>2, FS_EmptySet
    <3> QED BY <1>1, <2>7, <3>3 DEF CloseVault
  <2> QED BY <2>1, <2>2, <2>3, <2>4, <2>5, <2>6, <2>7 DEF SettingStep
<1> USE DEF funds, aum, registry, shares
<1>2. TypeOK'
  BY DEF IInv, TypeOK
<1>3. SupplyIsHeld' /\ PrincipalLedger' /\ ClosedShape' /\ Solvency'
  BY DEF IInv, SupplyIsHeld, PrincipalLedger, ClosedShape, Solvency
<1> QED BY <1>2, <1>3 DEF IInv

\* Creating and detaching the queue change only the gate.
LEMMA GateInvariant ==
    ASSUME IInv, CreateQueue \/ DetachWithdrawalQueue(QueuePDA)
    PROVE  IInv'
<1> USE DEF CreateQueue, DetachWithdrawalQueue, funds, roles, gate, policy, aum, registry, shares
<1>1. TypeOK'
  BY DEF IInv, TypeOK
<1>2. SupplyIsHeld' /\ PrincipalLedger' /\ ClosedShape' /\ Solvency'
  BY DEF IInv, SupplyIsHeld, PrincipalLedger, ClosedShape, Solvency
<1> QED BY <1>1, <1>2 DEF IInv

\* Shares that change hands concern nobody's books.
LEMMA ShareTransferInvariant ==
    ASSUME IInv, NEW from \in Keys, NEW to \in Keys, NEW n \in Nat, TransferShares(from, to, n)
    PROVE  IInv'
<1> USE DEF config, roles, gate, policy, aum, registry, shares
<1>1. /\ n <= share_balance[from]
      /\ share_balance' = Move(share_balance, from, to, n)
      /\ UNCHANGED <<config, aum, registry, asset_balance, supply, delegated>>
  BY DEF TransferShares
<1>2. share_balance' \in [Keys -> Nat] /\ Total(share_balance') = Total(share_balance)
  BY <1>1, SharesMoved DEF IInv, TypeOK
<1>3. TypeOK'
  BY <1>1, <1>2 DEF IInv, TypeOK
<1>4. Solvency' /\ SupplyIsHeld' /\ PrincipalLedger' /\ ClosedShape'
  BY <1>1, <1>2 DEF IInv, Solvency, SupplyIsHeld, PrincipalLedger, ClosedShape
<1> QED BY <1>3, <1>4 DEF IInv

\* What the token program lets others do: send assets (never out of the
\* reserve), send or burn shares, change an allowance.
LEMMA TokenInvariant ==
    ASSUME IInv, TokenStep
    PROVE  IInv'
<1> USE DEF config, roles, gate, policy, aum, registry, shares
<1>0. /\ Amounts \subseteq Nat
      /\ asset_balance \in [Keys -> Nat] /\ share_balance \in [Keys -> Nat]
      /\ VaultPDA \in Keys /\ Wallets \subseteq Keys /\ VaultPDA \notin Wallets
  BY KeyFacts, ConstantsAssumption DEF IInv, TypeOK
<1>1. ASSUME NEW from \in Wallets, NEW to \in Keys, NEW n \in Amounts, TransferAssets(from, to, n)
      PROVE  IInv'
  <2>1. /\ n <= asset_balance[from]
        /\ asset_balance' = Move(asset_balance, from, to, n)
        /\ UNCHANGED <<config, aum, registry, shares, delegated>>
    BY <1>1 DEF TransferAssets
  <2>2. n \in Nat /\ from \in Keys /\ from # VaultPDA
    BY <1>0
  <2>3. /\ asset_balance' \in [Keys -> Nat]
        /\ asset_balance'[VaultPDA] >= asset_balance[VaultPDA]
    <3>1. Debit(asset_balance, from, n) \in [Keys -> Nat]
      BY <1>0, <2>1, <2>2 DEF Debit
    <3>2. PICK g \in [Keys -> Nat] : g = Debit(asset_balance, from, n)
      BY <3>1
    <3>3. g[VaultPDA] = asset_balance[VaultPDA]
      BY <1>0, <2>2, <3>2 DEF Debit
    <3>4. Credit(g, to, n) \in [Keys -> Nat] /\ Credit(g, to, n)[VaultPDA] >= g[VaultPDA]
      BY <1>0, <2>2 DEF Credit
    <3> QED BY <2>1, <3>2, <3>3, <3>4 DEF Move
  <2>4. TypeOK'
    BY <2>1, <2>3 DEF IInv, TypeOK
  <2>5. Solvency'
    BY <1>0, <2>1, <2>3, ConstantsAssumption DEF IInv, TypeOK, Solvency
  <2>6. SupplyIsHeld' /\ PrincipalLedger' /\ ClosedShape'
    BY <2>1 DEF IInv, SupplyIsHeld, PrincipalLedger, ClosedShape
  <2> QED BY <2>4, <2>5, <2>6 DEF IInv
<1>2. ASSUME NEW from \in Wallets, NEW to \in Keys, NEW n \in Amounts, TransferShares(from, to, n)
      PROVE  IInv'
  <2>1. n \in Nat /\ from \in Keys
    BY <1>0
  <2> QED BY <1>2, <2>1, ShareTransferInvariant
<1>3. ASSUME NEW k \in Wallets, NEW n \in Amounts, BurnShares(k, n)
      PROVE  IInv'
  <2>1. /\ n > 0 /\ n <= share_balance[k]
        /\ share_balance' = Debit(share_balance, k, n)
        /\ supply' = supply - n
        /\ UNCHANGED <<config, aum, registry, asset_balance, delegated>>
    BY <1>3 DEF BurnShares
  <2>2. n \in Nat /\ k \in Keys
    BY <1>0
  <2>3. /\ share_balance' \in [Keys -> Nat]
        /\ Total(share_balance') = Total(share_balance) - n
        /\ n <= Total(share_balance)
    BY <1>0, <2>1, <2>2, SharesDebited
  <2>4. supply' \in 0 .. U64Max /\ supply' = Total(share_balance') /\ supply # 0
    BY <2>1, <2>2, <2>3, ConstantsAssumption DEF IInv, TypeOK, SupplyIsHeld
  <2>5. TypeOK'
    BY <2>1, <2>3, <2>4 DEF IInv, TypeOK
  <2>6. Solvency' /\ SupplyIsHeld' /\ PrincipalLedger' /\ ClosedShape'
    BY <2>1, <2>4 DEF IInv, Solvency, SupplyIsHeld, PrincipalLedger, ClosedShape
  <2> QED BY <2>5, <2>6 DEF IInv
<1>4. ASSUME NEW c \in CustodyKeys, NEW n \in Amounts, Approve(c, n)
      PROVE  IInv'
  <2>1. delegated' \in [CustodyKeys -> Nat]
    BY <1>0, <1>4 DEF Approve, IInv, TypeOK
  <2>2. UNCHANGED <<config, aum, registry, asset_balance, shares>>
    BY <1>4 DEF Approve
  <2>3. TypeOK'
    BY <2>1, <2>2 DEF IInv, TypeOK
  <2>4. Solvency' /\ SupplyIsHeld' /\ PrincipalLedger' /\ ClosedShape'
    BY <2>2 DEF IInv, Solvency, SupplyIsHeld, PrincipalLedger, ClosedShape
  <2> QED BY <2>3, <2>4 DEF IInv
<1> QED BY <1>1, <1>2, <1>3, <1>4 DEF TokenStep

-----------------------------------------------------------------------------
\* The invariant is inductive.
LEMMA NextInvariant ==
    ASSUME IInv, [Next]_vars
    PROVE  IInv'
<1>1. CASE HolderStep
  <2>1. PICK u \in Depositors, n \in Amounts, min \in MinOuts :
            Deposit(u, n, min) \/ Redeem(u, n, min)
    BY <1>1 DEF HolderStep
  <2>2. n \in Nat /\ min \in Nat /\ u \in Keys
    BY KeyFacts, ConstantsAssumption
  <2> QED BY <2>1, <2>2, DepositInvariant, RedeemInvariant
<1>2. CASE OperatorStep
  <2>1. ASSUME NEW sub \in registered \cup {NoKey}, NEW n \in Amounts,
               OperatorWithdraw(sub, n) \/ OperatorDeposit(sub, n)
        PROVE  IInv'
    <3>1. n \in Nat
      BY ConstantsAssumption
    <3> QED BY <2>1, <3>1, OperatorWithdrawInvariant, OperatorDepositInvariant
  <2>2. ASSUME NEW n \in Reports, OperatorUpdateAum(n) PROVE IInv'
    <3>1. n \in Nat
      BY ConstantsAssumption
    <3> QED BY <2>2, <3>1, OperatorUpdateAumInvariant
  <2> QED BY <1>2, <2>1, <2>2 DEF OperatorStep
<1>3. CASE RegistryStep
  <2>1. PICK c \in CustodyKeys :
            \/ RegisterSubaccount(c)
            \/ DeregisterSubaccount(c)
            \/ \E n \in Amounts : SettleSubaccountLoss(c, n)
    BY <1>3 DEF RegistryStep
  <2>2. Amounts \subseteq Nat
    BY ConstantsAssumption
  <2> QED BY <2>1, <2>2, RegisterInvariant, DeregisterInvariant, SettleInvariant
<1>4. CASE SettingStep
  BY <1>4, SettingInvariant
<1>5. CASE TokenStep
  BY <1>5, TokenInvariant
<1>6. CASE QueueProgramStep
  <2>1. ASSUME NEW x \in 1 .. share_balance[QueuePDA], NEW k \in Keys,
               QueueRedeem(k, x) \/ TransferShares(QueuePDA, k, x)
        PROVE  IInv'
    <3>1. x \in Nat /\ QueuePDA \in Keys
      BY KeyFacts DEF IInv, TypeOK
    <3> QED BY <2>1, <3>1, QueueRedeemInvariant, ShareTransferInvariant
  <2> QED BY <1>6, <2>1, GateInvariant DEF QueueProgramStep
<1>7. CASE UNCHANGED vars
  <2> USE <1>7 DEF vars, config, roles, gate, policy, aum, registry, shares
  <2>1. TypeOK'
    BY DEF IInv, TypeOK
  <2>2. Solvency' /\ SupplyIsHeld' /\ PrincipalLedger' /\ ClosedShape'
    BY DEF IInv, Solvency, SupplyIsHeld, PrincipalLedger, ClosedShape
  <2> QED BY <2>1, <2>2 DEF IInv
<1> QED BY <1>1, <1>2, <1>3, <1>4, <1>5, <1>6, <1>7 DEF Next

\* The inductive invariant holds in every reachable state of the program.
LEMMA Invariance == Spec => []IInv
<1>1. Init => IInv
  BY InitInvariant
<1>2. IInv /\ [Next]_vars => IInv'
  BY NextInvariant
<1> QED BY <1>1, <1>2, PTL DEF Spec

\* Every instruction keeps every field of the vault within its type: no
\* balance and no counter leaves its range although the code mixes checked
\* and saturating arithmetic.
THEOREM TypeCorrect == Spec => []TypeOK
<1>1. IInv => TypeOK
  BY DEF IInv
<1> QED BY <1>1, Invariance, PTL

\* Accounted liquidity is always in the reserve.
THEOREM Solvent == Spec => []Solvency
<1>1. IInv => Solvency
  BY DEF IInv
<1> QED BY <1>1, Invariance, PTL

\* The registry's three books agree.
THEOREM LedgerBalances == Spec => []PrincipalLedger
<1>1. IInv => PrincipalLedger
  BY DEF IInv
<1> QED BY <1>1, Invariance, PTL

\* A closed vault leaves no holder, no registry entry and no debt behind.
THEOREM ClosedClean == Spec => []ClosedOwesNothing
<1>1. IInv => ClosedOwesNothing
  <2> SUFFICES ASSUME IInv, status = "closed"
               PROVE  /\ \A k \in Keys : share_balance[k] = 0
                      /\ registered = {} /\ Total(principal) = 0
    BY DEF ClosedOwesNothing
  <2>1. supply = 0 /\ registered = {} /\ Total(share_balance) = 0
    BY DEF IInv, ClosedShape, SupplyIsHeld
  <2>2. share_balance \in [Keys -> Nat] /\ principal \in [CustodyKeys -> Nat] /\ IsFiniteSet(Keys)
    BY KeyFacts DEF IInv, TypeOK
  <2>3. \A k \in Keys : share_balance[k] <= Total(share_balance)
    BY <2>2, TotalIsNatural
  <2>4. \A k \in Keys : share_balance[k] = 0
    BY <2>1, <2>2, <2>3
  <2>5. \A c \in CustodyKeys : principal[c] = 0
    BY <2>1 DEF IInv, PrincipalLedger
  <2>6. Total(principal) = 0
    BY <2>2, <2>5, TotalOfZeros
  <2> QED BY <2>1, <2>4, <2>6
<1> QED BY <1>1, Invariance, PTL

-----------------------------------------------------------------------------
(* What the vault promises its holders and custodies *)

\* What the invariant says of the pool: supply and assets are naturals.
LEMMA PoolFacts ==
    ASSUME IInv
    PROVE  /\ supply \in Nat /\ total_assets \in Nat /\ ShareOffset \in Nat \ {0}
           /\ local_aum \in Nat /\ deployed_aum \in Nat
BY ConstantsAssumption DEF IInv, TypeOK, total_assets

\* A deposit redeemed at once returns at most the deposit, and less than one
\* share's price and one unit are lost to rounding, at every reachable price.
THEOREM FairRoundTrips == Spec => []FairRoundTrip
<1>1. IInv => FairRoundTrip
  <2> SUFFICES ASSUME IInv, NEW a \in Amounts, PriceDefined(supply, total_assets)
               PROVE  LET s    == SharesForDeposit(supply, total_assets, a, ShareOffset)
                          back == AssetsForRedeem(supply + s, total_assets + a, s, ShareOffset)
                      IN  /\ back <= a
                          /\ a * (supply + ShareOffset) <
                                 (back + 1) * (supply + ShareOffset) + total_assets + ShareOffset
    BY DEF FairRoundTrip
  <2> DEFINE s    == SharesForDeposit(supply, total_assets, a, ShareOffset)
             back == AssetsForRedeem(supply + s, total_assets + a, s, ShareOffset)
  <2>1. a \in Nat /\ supply \in Nat /\ total_assets \in Nat /\ ShareOffset \in Nat \ {0}
    BY PoolFacts, ConstantsAssumption
  <2>2. s \in Nat
    BY <2>1, PricesAreNatural
  <2>3. supply + s \in Nat /\ total_assets + a \in Nat
    BY <2>1, <2>2
  <2>4. back \in Nat
    BY <2>1, <2>2, <2>3, PricesAreNatural
  <2>5. /\ back <= a
        /\ a * (supply + ShareOffset) <
               (back + 1) * (supply + ShareOffset) + total_assets + ShareOffset
    BY <2>1, <2>2, <2>4, RoundTrip
  <2> QED BY <2>5
<1> QED BY <1>1, Invariance, PTL

\* All holders could leave together: the quotes of all positions, whoever holds
\* how much, never add up to more than the vault's assets, at every reachable
\* price.  It rests on the supply being what holders hold.
THEOREM NothingOverpromised == Spec => []NoOverpromise
<1>1. IInv => NoOverpromise
  <2> SUFFICES ASSUME IInv
               PROVE  Total([k \in Keys |-> redeem_assets(share_balance[k])]) <= total_assets
    BY DEF NoOverpromise
  <2> DEFINE q == [k \in Keys |-> redeem_assets(share_balance[k])]
  <2>1. /\ share_balance \in [Keys -> Nat] /\ IsFiniteSet(Keys)
        /\ Total(share_balance) = supply
    BY KeyFacts DEF IInv, TypeOK, SupplyIsHeld
  <2>2. supply \in Nat /\ total_assets \in Nat /\ ShareOffset \in Nat \ {0}
    BY PoolFacts
  <2>3. \A x \in Nat : redeem_assets(x) \in Nat
    BY <2>2, PricesAreNatural DEF redeem_assets
  <2>4. q \in [Keys -> Nat]
    BY <2>1, <2>3
  <2>5. CASE supply = 0
    <3>1. ASSUME NEW k \in Keys PROVE q[k] = 0
      <4>1. share_balance[k] \in Nat /\ share_balance[k] <= Total(share_balance)
        BY <2>1, TotalIsNatural
      <4>2. share_balance[k] = 0
        BY <2>1, <2>5, <4>1
      <4>3. (0 * (total_assets + ShareOffset)) \div (0 + ShareOffset) = 0
        BY <2>2, SMT
      <4> QED BY <2>5, <4>2, <4>3 DEF redeem_assets, AssetsForRedeem
    <3>2. q = [k \in Keys |-> 0]
      BY <3>1
    <3>3. Total(q) = 0
      BY <3>2, TotalOfZeros
    <3> QED BY <2>2, <3>3
  <2>6. CASE supply # 0
    <3>1. \A k \in Keys : q[k] * supply <= share_balance[k] * total_assets
      BY <2>1, <2>2, <2>6, QuoteAtMostProRata DEF redeem_assets
    <3> QED BY <2>1, <2>2, <2>4, <2>6, <3>1, ProRataFits
  <2> QED BY <2>5, <2>6
<1> QED BY <1>1, Invariance, PTL

-----------------------------------------------------------------------------
(* The refinement of SharePool, one lemma per kind of step. *)

\* The promise is stated with the pricing operators of the vault itself.
LEMMA SamePricing ==
    /\ \A S, T : Pool!PriceDefined(S, T) <=> PriceDefined(S, T)
    /\ \A S, T : Pool!Smaller(S, T) = Smaller(S, T)
    /\ \A S, T, y : Pool!Quote(S, T, y) = AssetsForRedeem(S, T, y, ShareOffset)
BY DEF Pool!PriceDefined, PriceDefined, Pool!Smaller, Smaller, Pool!Quote,
       Pool!AssetsForRedeem, AssetsForRedeem

\* A deposit issues shares without diluting anyone.
LEMMA DepositIssues ==
    ASSUME IInv, NEW u \in Depositors, NEW n \in Amounts, NEW min \in MinOuts, Deposit(u, n, min)
    PROVE  Pool!Issue
<1> DEFINE minted == SharesForDeposit(supply, total_assets, n, ShareOffset)
<1>1. n \in Nat /\ n > 0 /\ minted > 0 /\ PriceDefined(supply, total_assets)
  BY ConstantsAssumption DEF Deposit
<1>2. minted \in Nat
  BY <1>1, PoolFacts, PricesAreNatural
<1>3. supply' = supply + minted
  BY DEF Deposit
<1>4. total_assets' = total_assets + n
  BY <1>1, PoolFacts DEF Deposit, total_assets
<1>5. ASSUME NEW y \in 1 .. Smaller(supply, supply')
      PROVE  AssetsForRedeem(supply, total_assets, y, ShareOffset) <=
                 AssetsForRedeem(supply', total_assets', y, ShareOffset)
  <2>1. supply \in Nat \ {0} /\ total_assets \in Nat /\ ShareOffset \in Nat \ {0} /\ y \in Nat
    BY <1>2, <1>3, PoolFacts DEF Smaller
  <2>2. AssetsForRedeem(supply, total_assets, y, ShareOffset) <=
            AssetsForRedeem(supply + minted, total_assets + n, y, ShareOffset)
    BY <1>1, <2>1, DepositKeepsQuotes
  <2> QED BY <1>3, <1>4, <2>2
<1>6. Pool!NotDiluted(supply, total_assets, supply', total_assets')
  BY <1>5, SamePricing DEF Pool!NotDiluted
<1>7. supply' > supply /\ total_assets' > total_assets
  BY <1>1, <1>2, <1>3, <1>4, PoolFacts
<1> QED BY <1>1, <1>6, <1>7, SamePricing DEF Pool!Issue

\* A redemption, whoever is paid, retires shares without diluting the rest.
LEMMA RedeemRetires ==
    ASSUME IInv, NEW signer \in Keys, NEW x \in Nat, NEW min \in Nat,
           Redemption(signer, x, min)
    PROVE  Pool!Retire
<1> DEFINE assets == redeem_assets(x)
<1>1. /\ x > 0 /\ assets > 0 /\ PriceDefined(supply, total_assets)
      /\ assets <= local_aum /\ x <= share_balance[signer]
      /\ local_aum' = local_aum - assets /\ deployed_aum' = deployed_aum
      /\ supply' = supply - x
  BY DEF Redemption
<1>2. x <= supply
  <2>1. share_balance \in [Keys -> Nat] /\ IsFiniteSet(Keys)
    BY KeyFacts DEF IInv, TypeOK
  <2>2. share_balance[signer] <= Total(share_balance)
    BY <2>1, TotalIsNatural
  <2> QED BY <1>1, <2>1, <2>2, PoolFacts DEF IInv, SupplyIsHeld
<1>3. supply \in Nat \ {0} /\ total_assets \in Nat \ {0} /\ ShareOffset \in Nat \ {0}
  BY <1>1, <1>2, PoolFacts DEF PriceDefined
<1>4. assets \in Nat /\ assets = AssetsForRedeem(supply, total_assets, x, ShareOffset)
  BY <1>3, PricesAreNatural DEF redeem_assets
<1> HIDE DEF assets
<1>5. total_assets' = total_assets - assets
  BY <1>1, <1>4, PoolFacts DEF total_assets
<1>6. /\ assets <= total_assets
      /\ x < supply => assets < total_assets
      /\ x < supply => \A y \in Nat : AssetsForRedeem(supply, total_assets, y, ShareOffset) <=
              AssetsForRedeem(supply - x, total_assets - assets, y, ShareOffset)
  BY <1>2, <1>3, <1>4, RedeemKeepsQuotes
<1>7. Pool!NotDiluted(supply, total_assets, supply', total_assets')
  <2> SUFFICES ASSUME NEW y \in 1 .. Smaller(supply, supply')
               PROVE  AssetsForRedeem(supply, total_assets, y, ShareOffset) <=
                          AssetsForRedeem(supply', total_assets', y, ShareOffset)
    BY SamePricing DEF Pool!NotDiluted
  <2>1. x < supply /\ y \in Nat
    BY <1>1, <1>2, <1>3 DEF Smaller
  <2> QED BY <1>1, <1>5, <1>6, <2>1
<1>8. /\ supply' < supply /\ total_assets' < total_assets
      /\ total_assets' = 0 => supply' = 0
  BY <1>1, <1>2, <1>3, <1>4, <1>5, <1>6
<1> QED BY <1>7, <1>8 DEF Pool!Retire

\* The pool's numbers after a step are naturals too.
LEMMA PoolStaysNatural ==
    ASSUME IInv'
    PROVE  supply' \in Nat /\ total_assets' \in Nat
<1>1. supply' \in 0 .. U64Max /\ local_aum' \in 0 .. U64Max /\ deployed_aum' \in 0 .. U64Max
  BY DEF IInv, TypeOK
<1>2. supply' \in Nat /\ local_aum' \in Nat /\ deployed_aum' \in Nat
  BY <1>1, ConstantsAssumption
<1>3. total_assets' = local_aum' + deployed_aum'
  BY DEF total_assets
<1>4. local_aum' + deployed_aum' \in Nat
  <2>1. \A m, n \in Nat : m + n \in Nat
    OBVIOUS
  <2> QED BY <1>2, <2>1, Zenon
<1> QED BY <1>2, <1>3, <1>4, Zenon

\* Every step of the vault is a step of the pool or leaves it alone.
LEMMA StepRefines ==
    ASSUME IInv, IInv', [Next]_vars
    PROVE  [Pool!Next]_(Pool!pool)
<1> USE DEF config, roles, gate, policy, aum, registry, shares
<1>0. supply' \in Nat /\ total_assets' \in Nat
  BY PoolStaysNatural
<1> SUFFICES ASSUME supply' # supply \/ total_assets' # total_assets
             PROVE  Pool!Issue \/ Pool!Retire \/ Pool!Appreciate \/ Pool!MarkDown
  BY <1>0 DEF Pool!Next, Pool!pool
<1>1. CASE HolderStep
  <2>1. PICK u \in Depositors, n \in Amounts, min \in MinOuts :
            Deposit(u, n, min) \/ Redeem(u, n, min)
    BY <1>1 DEF HolderStep
  <2>2. n \in Nat /\ min \in Nat /\ u \in Keys
    BY KeyFacts, ConstantsAssumption
  <2> QED BY <2>1, <2>2, DepositIssues, RedeemRetires DEF Redeem
<1>2. CASE OperatorStep
  <2>1. ASSUME NEW sub \in registered \cup {NoKey}, NEW n \in Amounts,
               OperatorWithdraw(sub, n) \/ OperatorDeposit(sub, n)
        PROVE  Pool!Appreciate
    <3>1. n \in Nat
      BY ConstantsAssumption
    <3>2. total_assets' >= total_assets /\ supply' = supply
      BY <2>1, <3>1, PoolFacts DEF OperatorWithdraw, CountWithdrawn, OperatorDeposit, total_assets, Larger
    <3> QED BY <3>2, PoolFacts DEF Pool!Appreciate
  <2>2. ASSUME NEW n \in Reports, OperatorUpdateAum(n)
        PROVE  Pool!Appreciate \/ Pool!MarkDown
    <3>1. supply' = supply
      BY <2>2 DEF OperatorUpdateAum
    <3> QED BY <1>0, <3>1, PoolFacts DEF Pool!Appreciate, Pool!MarkDown
  <2> QED BY <1>2, <2>1, <2>2 DEF OperatorStep
<1>3. CASE RegistryStep
  BY <1>3 DEF RegistryStep, RegisterSubaccount, DeregisterSubaccount, SettleSubaccountLoss,
              total_assets
<1>4. CASE SettingStep
  BY <1>4 DEF SettingStep, SetOperator, SetFeeRecipient, SetWithdrawalFee, SetAumLimits, Pause,
              Unpause, AttachWithdrawalQueue, CloseVault, funds, total_assets
<1>5. CASE QueueProgramStep
  <2>1. ASSUME NEW x \in 1 .. share_balance[QueuePDA], NEW k \in Keys, QueueRedeem(k, x)
        PROVE  Pool!Retire
    <3>1. x \in Nat /\ QueuePDA \in Keys
      BY KeyFacts DEF IInv, TypeOK
    <3> QED BY <2>1, <3>1, RedeemRetires DEF QueueRedeem
  <2>2. ASSUME NEW x, NEW k, TransferShares(QueuePDA, k, x)
        PROVE  supply' = supply /\ total_assets' = total_assets
    BY <2>2 DEF TransferShares, total_assets
  <2>3. ASSUME CreateQueue \/ DetachWithdrawalQueue(QueuePDA)
        PROVE  supply' = supply /\ total_assets' = total_assets
    BY <2>3 DEF CreateQueue, DetachWithdrawalQueue, funds, total_assets
  <2> QED BY <1>5, <2>1, <2>2, <2>3 DEF QueueProgramStep
<1>6. CASE TokenStep
  <2>1. ASSUME NEW k \in Wallets, NEW n \in Amounts, BurnShares(k, n) PROVE Pool!Appreciate
    <3>1. n \in Nat
      BY ConstantsAssumption
    <3>2. supply' = supply - n /\ total_assets' = total_assets
      BY <2>1 DEF BurnShares, total_assets
    <3> QED BY <3>1, <3>2, PoolFacts DEF Pool!Appreciate
  <2>2. ASSUME NEW from \in Keys, NEW to \in Keys, NEW n \in Amounts,
               TransferAssets(from, to, n) \/ TransferShares(from, to, n)
        PROVE  supply' = supply /\ total_assets' = total_assets
    BY <2>2 DEF TransferAssets, TransferShares, total_assets
  <2>3. ASSUME NEW c \in CustodyKeys, NEW n \in Amounts, Approve(c, n)
        PROVE  supply' = supply /\ total_assets' = total_assets
    BY <2>3 DEF Approve, total_assets
  <2> QED BY <1>6, <2>1, <2>2, <2>3, KeyFacts DEF TokenStep
<1>7. CASE UNCHANGED vars
  BY <1>7 DEF vars, total_assets
<1> QED BY <1>1, <1>2, <1>3, <1>4, <1>5, <1>6, <1>7 DEF Next

\* The one step that marks the pool down is the operator's report.
LEMMA OnlyReportsMarkDown ==
    ASSUME IInv, IInv', [Next]_vars, supply' = supply, total_assets' < total_assets
    PROVE  LossReported
<1> USE DEF config, roles, gate, policy, aum, registry, shares
<1>0. ~(total_assets' >= total_assets)
  BY PoolFacts, PoolStaysNatural
<1>1. ~HolderStep
  <2>1. ASSUME NEW u \in Depositors, NEW n \in Amounts, NEW min \in MinOuts,
               Deposit(u, n, min) \/ Redeem(u, n, min)
        PROVE  supply' # supply
    <3>1. n \in Nat /\ min \in Nat /\ u \in Keys
      BY KeyFacts, ConstantsAssumption
    <3>2. Pool!Issue \/ Pool!Retire
      BY <2>1, <3>1, DepositIssues, RedeemRetires DEF Redeem
    <3> QED BY <3>2, PoolFacts DEF Pool!Issue, Pool!Retire
  <2> QED BY <2>1 DEF HolderStep
<1>2. ASSUME NEW sub \in registered \cup {NoKey}, NEW n \in Amounts,
             OperatorWithdraw(sub, n) \/ OperatorDeposit(sub, n)
      PROVE  FALSE
  <2>1. n \in Nat
    BY ConstantsAssumption
  <2>2. total_assets' >= total_assets
    BY <1>2, <2>1, PoolFacts DEF OperatorWithdraw, CountWithdrawn, OperatorDeposit, total_assets, Larger
  <2> QED BY <1>0, <2>2
<1>3. ~(total_assets' = total_assets)
  BY <1>0, PoolFacts
<1>4. ~RegistryStep /\ ~SettingStep /\ ~(UNCHANGED vars)
  BY <1>3 DEF RegistryStep, RegisterSubaccount, DeregisterSubaccount, SettleSubaccountLoss,
     SettingStep, SetOperator, SetFeeRecipient, SetWithdrawalFee, SetAumLimits, Pause,
     Unpause, AttachWithdrawalQueue, CloseVault, funds, total_assets, vars
<1>5. ~TokenStep
  BY <1>3 DEF TokenStep, TransferAssets, TransferShares, BurnShares, Approve, total_assets
<1>6. ~QueueProgramStep
  <2>1. ASSUME NEW x \in 1 .. share_balance[QueuePDA], NEW k \in Keys, QueueRedeem(k, x)
        PROVE  supply' # supply
    <3>1. x \in Nat /\ QueuePDA \in Keys
      BY KeyFacts DEF IInv, TypeOK
    <3>2. Pool!Retire
      BY <2>1, <3>1, RedeemRetires DEF QueueRedeem
    <3> QED BY <3>2, PoolFacts DEF Pool!Retire
  <2> QED BY <1>3, <2>1
          DEF QueueProgramStep, TransferShares, CreateQueue, DetachWithdrawalQueue, funds, total_assets
<1>7. PICK n \in Reports : OperatorUpdateAum(n)
  BY <1>1, <1>2, <1>4, <1>5, <1>6 DEF Next, OperatorStep
<1>8. n < deployed_aum
  <2>1. n \in Nat /\ local_aum' = local_aum /\ deployed_aum' = n
    BY <1>7, ConstantsAssumption DEF OperatorUpdateAum
  <2> QED BY <2>1, PoolFacts DEF total_assets
<1> QED BY <1>7, <1>8 DEF LossReported

\* The vault implements the holders' promise: deposits, redemptions, operator
\* transfers and burns never lower what a position is quoted, a redemption never
\* strips the assets off remaining shares, and assets go while the shares stay
\* only when the operator reports a loss.
THEOREM HoldersProtected == Spec => HoldersPromise
<1>1. Init => Pool!Init
  BY DEF Init, Pool!Init, total_assets
<1>2. IInv /\ IInv' /\ [Next]_vars => [Pool!Next]_(Pool!pool)
  BY StepRefines
<1>3. IInv /\ IInv' /\ [Next]_vars => [Pool!MarkDown => LossReported]_vars
  BY OnlyReportsMarkDown DEF Pool!MarkDown
<1> QED BY <1>1, <1>2, <1>3, Invariance, PTL DEF Spec, HoldersPromise, Pool!Spec

\* Seen from one position of y shares: as long as it exists, no step of the
\* vault but a reported loss lowers its quote.
LEMMA QuoteKept ==
    ASSUME IInv, IInv', [Next]_vars, NEW y \in Nat \ {0}, y <= supply, y <= supply',
           ~LossReported
    PROVE  AssetsForRedeem(supply, total_assets, y, ShareOffset) <=
               AssetsForRedeem(supply', total_assets', y, ShareOffset)
<1>1. /\ supply \in Nat \ {0} /\ supply' \in Nat \ {0}
      /\ total_assets \in Nat /\ total_assets' \in Nat /\ ShareOffset \in Nat \ {0}
  BY PoolFacts, PoolStaysNatural
<1>2. y \in 1 .. Smaller(supply, supply')
  BY <1>1 DEF Smaller
<1>3. CASE Pool!Issue \/ Pool!Retire
  <2>1. Pool!NotDiluted(supply, total_assets, supply', total_assets')
    BY <1>3 DEF Pool!Issue, Pool!Retire
  <2> QED BY <1>2, <2>1, SamePricing DEF Pool!NotDiluted
<1>4. CASE Pool!Appreciate
  BY <1>1, <1>4, QuoteAppreciates DEF Pool!Appreciate
<1>5. ~Pool!MarkDown
  BY OnlyReportsMarkDown DEF Pool!MarkDown
<1>6. CASE UNCHANGED Pool!pool
  <2>1. total_assets' <= total_assets' /\ total_assets' = total_assets /\ supply' = supply
    BY <1>1, <1>6 DEF Pool!pool
  <2>2. total_assets <= total_assets' /\ supply' <= supply
    BY <1>1, <2>1
  <2> QED BY <1>1, <2>2, QuoteAppreciates
<1> QED BY <1>3, <1>4, <1>5, <1>6, StepRefines DEF Pool!Next

-----------------------------------------------------------------------------
\* A covered destination stays covered unless its own custody lowers the
\* allowance.
LEMMA StepKeepsCoverage ==
    ASSUME IInv, [Next]_vars
    PROVE  \A c \in registered' :
              \/ \E n \in Amounts : Approve(c, n)
              \/ (c \in registered => Covered(c)) => Covered(c)'
<1> USE DEF config, roles, gate, policy, aum, registry, shares
<1> SUFFICES ASSUME NEW c \in registered', c \in registered => Covered(c)
             PROVE  \/ \E n \in Amounts : Approve(c, n)
                    \/ Covered(c)'
  OBVIOUS
<1>0. /\ principal \in [CustodyKeys -> 0 .. U64Max] /\ delegated \in [CustodyKeys -> Nat]
      /\ registered \subseteq CustodyKeys /\ U64Max \in Nat
      /\ Amounts \subseteq Nat /\ deployed_principal \in Nat
  BY ConstantsAssumption DEF IInv, TypeOK
<1>1. ASSUME UNCHANGED <<registered, principal, delegated>> PROVE Covered(c)'
  BY <1>1 DEF Covered
<1>2. CASE HolderStep
  BY <1>1, <1>2 DEF HolderStep, Deposit, Redeem, Redemption
<1>3. CASE OperatorStep
  <2>1. ASSUME NEW sub \in registered \cup {NoKey}, NEW n \in Amounts, OperatorWithdraw(sub, n)
        PROVE  Covered(c)'
    <3>1. CASE sub = NoKey
      BY <1>1, <2>1, <3>1 DEF OperatorWithdraw, CountWithdrawn
    <3>2. CASE sub # NoKey
      <4>1. /\ sub \in CustodyKeys /\ n \in Nat /\ c \in CustodyKeys
            /\ principal' = Credit(principal, sub, n) /\ principal[sub] + n <= U64Max
            /\ delegated' = delegated /\ registered' = registered
            /\ delegated[sub] >= Smaller(principal[sub] + n, U64Max)
        BY <1>0, <2>1, <3>2 DEF OperatorWithdraw, CountWithdrawn, CoversDebt
      <4>2. delegated[sub] >= principal[sub] + n
        BY <1>0, <4>1 DEF Smaller
      <4> QED BY <1>0, <4>1, <4>2 DEF Covered, Credit
    <3> QED BY <3>1, <3>2
  <2>2. ASSUME NEW sub \in registered \cup {NoKey}, NEW n \in Amounts, OperatorDeposit(sub, n)
        PROVE  Covered(c)'
    <3>1. CASE sub = NoKey
      BY <1>1, <2>2, <3>1 DEF OperatorDeposit
    <3>2. CASE sub # NoKey
      <4>1. /\ sub \in CustodyKeys /\ n \in Nat /\ c \in CustodyKeys
            /\ principal' = [principal EXCEPT ![sub] = Larger(@ - n, 0)]
            /\ delegated' = Debit(delegated, sub, n) /\ registered' = registered
            /\ delegated[sub] >= n
        BY <1>0, <2>2, <3>2 DEF OperatorDeposit
      <4> QED BY <1>0, <4>1 DEF Covered, Debit, Larger
    <3> QED BY <3>1, <3>2
  <2>3. ASSUME NEW n \in Reports, OperatorUpdateAum(n) PROVE Covered(c)'
    BY <1>1, <2>3 DEF OperatorUpdateAum
  <2> QED BY <1>3, <2>1, <2>2, <2>3 DEF OperatorStep
<1>4. CASE RegistryStep
  <2>1. PICK d \in CustodyKeys :
            \/ RegisterSubaccount(d)
            \/ DeregisterSubaccount(d)
            \/ \E n \in Amounts : SettleSubaccountLoss(d, n)
    BY <1>4 DEF RegistryStep
  <2>2. CASE RegisterSubaccount(d)
    <3>1. /\ principal' = [principal EXCEPT ![d] = inherited] /\ delegated[d] >= inherited
          /\ delegated' = delegated /\ registered' = registered \cup {d}
      BY <2>2 DEF RegisterSubaccount
    <3> QED BY <1>0, <3>1 DEF Covered, inherited
  <2>3. CASE DeregisterSubaccount(d)
    BY <2>3 DEF DeregisterSubaccount, Covered
  <2>4. ASSUME NEW n \in Amounts, SettleSubaccountLoss(d, n) PROVE Covered(c)'
    <3>1. /\ n \in Nat /\ c \in CustodyKeys /\ c \in registered
          /\ principal' = Debit(principal, d, n) /\ delegated' = delegated
      BY <1>0, <2>4 DEF SettleSubaccountLoss
    <3> QED BY <1>0, <3>1 DEF Covered, Debit
  <2> QED BY <2>1, <2>2, <2>3, <2>4
<1>5. CASE SettingStep
  BY <1>1, <1>5 DEF SettingStep, SetOperator, SetFeeRecipient, SetWithdrawalFee, SetAumLimits,
              Pause, Unpause, AttachWithdrawalQueue, CloseVault, funds
<1>6. CASE QueueProgramStep
  BY <1>1, <1>6 DEF QueueProgramStep, CreateQueue, DetachWithdrawalQueue, funds, QueueRedeem,
              Redemption, TransferShares
<1>7. CASE TokenStep
  <2>1. ASSUME NEW d \in CustodyKeys, NEW n \in Amounts, Approve(d, n), d # c
        PROVE  Covered(c)'
    BY <1>0, <2>1 DEF Approve, Covered
  <2>2. ASSUME ~ \E d \in CustodyKeys, n \in Amounts : Approve(d, n)
        PROVE  Covered(c)'
    BY <1>1, <1>7, <2>2 DEF TokenStep, TransferAssets, TransferShares, BurnShares
  <2> QED BY <1>7, <2>1, <2>2
<1>8. CASE UNCHANGED vars
  BY <1>1, <1>8 DEF vars
<1> QED BY <1>2, <1>3, <1>4, <1>5, <1>6, <1>7, <1>8 DEF Next

\* No instruction takes a covered destination out of coverage.
THEOREM CoverageIsKept == Spec => CoverageKept
<1>1. IInv /\ [Next]_vars =>
        [\A c \in registered' :
            \/ \E n \in Amounts : Approve(c, n)
            \/ (c \in registered => Covered(c)) => Covered(c)']_vars
  BY StepKeepsCoverage
<1> QED BY <1>1, Invariance, PTL DEF Spec, CoverageKept
=============================================================================
