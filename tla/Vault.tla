------------------------------- MODULE Vault -------------------------------
(***************************************************************************)
(* The august-vault program: one vault, the SPL token accounts it works    *)
(* on, and the parties that sign.  Every instruction is one action,        *)
(* because a Solana transaction is atomic: an error at any point undoes    *)
(* the whole instruction, so a failing instruction is no step at all and   *)
(* every require! is a conjunct of the guard.                              *)
(*                                                                         *)
(* Token accounts are identified by their authority.  Whatever other       *)
(* programs and wallets may do to those accounts at any time (transfers,   *)
(* burns, delegations) is the environment's part of the next-state         *)
(* relation.                                                               *)
(***************************************************************************)
EXTENDS SharePricing, Tokens

CONSTANTS
    Depositors,      \* wallets that deposit and redeem
    OperatorKeys,    \* keys the admin may appoint operator
    CustodyKeys,     \* addresses the admin may register as subaccounts
    FeeKeys,         \* keys the admin may appoint fee recipient
    VaultPDA,        \* the vault state's address, authority of the reserve
    QueuePDA,        \* this vault's withdrawal queue, authority of the escrows
    NoKey,           \* the zero key, and an omitted optional account
    Endowment,       \* deposit-mint balances when the vault is initialized
    Amounts,         \* amounts instructions and transfers are called with
    MinOuts,         \* slippage floors holders state
    Reports,         \* deployed AUM values the operator reports
    Fees,            \* withdrawal fees the admin sets
    Limits,          \* AUM change limits the admin sets
    DefaultLimit,    \* the limits of a new vault (20 bps)
    ShareOffset,     \* this vault's resolved share_offset
    MinSupplyMultiple, DecimalsFloor,
    FeeDenominator,  \* FEE_RATE_DENOMINATOR_VALUE
    BpsDenominator,  \* BPS_DENOMINATOR
    U64Max

Wallets == Depositors \cup OperatorKeys \cup CustodyKeys
Keys == Wallets \cup {VaultPDA, QueuePDA}

ASSUME ConstantsAssumption ==
    /\ IsFiniteSet(Keys)
    /\ VaultPDA \notin Wallets /\ QueuePDA \notin Wallets /\ VaultPDA # QueuePDA
    /\ NoKey \notin Keys
    /\ OperatorKeys # {} /\ FeeKeys # {} /\ FeeKeys \subseteq Keys
    /\ Endowment \in [Keys -> Nat] /\ Endowment[VaultPDA] = 0
    /\ U64Max \in Nat /\ BpsDenominator \in Nat \ {0}
    /\ FeeDenominator \in Nat \ {0}
    /\ ShareOffset \in Nat \ {0}
    /\ MinSupplyMultiple \in Nat \ {0} /\ DecimalsFloor \in Nat
    /\ DefaultLimit \in 0 .. BpsDenominator
    /\ Amounts \subseteq Nat /\ MinOuts \subseteq Nat /\ Reports \subseteq Nat
    /\ Fees \subseteq Nat /\ Limits \subseteq Nat

VARIABLES
    status,                      \* "open", then "closed" for good
    paused, operator, fee_recipient, withdrawal_fee,
    aum_increase_limit, aum_decrease_limit, withdrawal_queue_authority,
    local_aum, deployed_aum,     \* reserve accounted for; value reported outside
    deployed_principal, subaccount_count,
    registered,                  \* addresses whose Subaccount PDA exists
    principal,                   \* Subaccount::principal, 0 while not registered
    queue_exists,                \* the queue program has created the queue PDA
    asset_balance, share_balance, supply,
    delegated                    \* allowance of each custody's ATA to the vault PDA

aum      == <<local_aum, deployed_aum>>
registry == <<deployed_principal, subaccount_count, registered, principal>>
roles    == <<operator, fee_recipient>>
gate     == <<withdrawal_queue_authority, queue_exists>>
policy   == <<withdrawal_fee, aum_increase_limit, aum_decrease_limit>>
config   == <<status, paused, roles, gate, policy>>
shares   == <<share_balance, supply>>
vars     == <<config, aum, registry, asset_balance, shares, delegated>>

Init ==
    /\ status = "open" /\ paused = FALSE
    /\ operator \in OperatorKeys /\ fee_recipient \in FeeKeys
    /\ withdrawal_fee = 0
    /\ aum_increase_limit = DefaultLimit /\ aum_decrease_limit = DefaultLimit
    /\ withdrawal_queue_authority = NoKey /\ queue_exists = FALSE
    /\ local_aum = 0 /\ deployed_aum = 0
    /\ deployed_principal = 0 /\ subaccount_count = 0
    /\ registered = {} /\ principal = [c \in CustodyKeys |-> 0]
    /\ asset_balance = Endowment
    /\ share_balance = [k \in Keys |-> 0] /\ supply = 0
    /\ delegated = [c \in CustodyKeys |-> 0]

total_assets == local_aum + deployed_aum
requires_subaccount == subaccount_count > 0

\* Both prices multiply y, in u128, by the pool's other side with the offset;
\* the second leg's product is smaller.  A product too large is a MathError.
PriceComputes(y, side) == y * (side + ShareOffset) < (U64Max + 1) * (U64Max + 1)

-----------------------------------------------------------------------------
(* Holders *)

Deposit(u, amount, min_shares_out) ==
    LET minted == SharesForDeposit(supply, total_assets, amount, ShareOffset)
    IN  /\ status = "open"
        /\ amount > 0 /\ ~paused
        /\ supply = 0 => amount >= MinFirstDeposit(DecimalsFloor, MinSupplyMultiple, ShareOffset)
        /\ amount <= asset_balance[u]
        /\ total_assets <= U64Max
        /\ PriceDefined(supply, total_assets) /\ PriceComputes(amount, supply)
        /\ minted <= U64Max
        /\ minted >= min_shares_out /\ minted > 0
        /\ supply = 0 => minted >= MinOpeningSupply(MinSupplyMultiple, ShareOffset)
        /\ supply + minted <= U64Max
        /\ local_aum + amount <= U64Max
        /\ asset_balance' = Move(asset_balance, u, VaultPDA, amount)
        /\ share_balance' = Credit(share_balance, u, minted)
        /\ supply' = supply + minted
        /\ local_aum' = local_aum + amount
        /\ UNCHANGED <<config, deployed_aum, registry, delegated>>

\* The gross assets of a redemption of x shares, and the fee kept of them.
redeem_assets(x) == AssetsForRedeem(supply, total_assets, x, ShareOffset)
redeem_fees(assets) == CeilDiv(assets * withdrawal_fee, FeeDenominator)
FeeOnTop(assets) == assets
net_assets(assets) == assets - redeem_fees(assets)

\* The balances when redeem returns: the fee, then the net assets, leave the
\* reserve.
AfterRedeem(signer, x) ==
    LET assets == redeem_assets(x)
    IN  Move(Move(asset_balance, VaultPDA, fee_recipient, redeem_fees(assets)),
             VaultPDA, signer, net_assets(assets))

\* An attached queue is the only one to redeem.
AnyoneRedeems(signer) == TRUE
OnlyAttachedRedeems(signer) == signer = withdrawal_queue_authority
MayRedeem(signer) ==
    withdrawal_queue_authority # NoKey => signer = withdrawal_queue_authority

\* Everything redeem does but for those two transfers.
Redemption(signer, x, min_assets_out) ==
    LET assets == redeem_assets(x)
    IN  /\ status = "open"
        /\ x > 0 /\ ~paused
        /\ MayRedeem(signer)
        /\ total_assets <= U64Max
        /\ PriceDefined(supply, total_assets) /\ PriceComputes(x, total_assets)
        /\ redeem_fees(assets) <= assets
        /\ net_assets(assets) >= min_assets_out /\ assets > 0
        /\ assets <= local_aum
        /\ x <= share_balance[signer]
        /\ assets <= asset_balance[VaultPDA]
        /\ local_aum' = local_aum - assets
        /\ share_balance' = Debit(share_balance, signer, x)
        /\ supply' = supply - x
        /\ UNCHANGED <<config, deployed_aum, registry, delegated>>

Redeem(signer, x, min_assets_out) ==
    /\ Redemption(signer, x, min_assets_out)
    /\ asset_balance' = AfterRedeem(signer, x)

\* A redemption the queue program makes as QueuePDA, which may pass on what
\* its account received before the transaction ends.
QueueBalance(x) == AfterRedeem(QueuePDA, x)[QueuePDA]
queue_received(x) == AfterRedeem(QueuePDA, x)[QueuePDA] - asset_balance[QueuePDA]
QueueRedeem(payee, x) ==
    /\ Redemption(QueuePDA, x, 0)
    /\ asset_balance' = Move(AfterRedeem(QueuePDA, x), QueuePDA, payee, queue_received(x))

-----------------------------------------------------------------------------
(* The operator.  `sub` is the optional subaccount account of the call. *)

Counterparty(sub) == IF sub = NoKey THEN operator ELSE sub
Pairing(sub) == requires_subaccount <=> sub # NoKey

\* The allowance must cover the principal the withdrawal leaves outstanding.
CoversAmountOnly(sub, amount) == delegated[sub] >= amount
CoversDebt(sub, amount) ==
    /\ delegated[sub] > 0
    /\ delegated[sub] >= Smaller(principal[sub] + amount, U64Max)

\* Withdrawn tokens stay assets of the vault: what leaves local_aum is counted
\* as deployed, and donated tokens, which local_aum never held, are as well.
WithdrawnUncounted(amount) ==
    local_aum' = Larger(local_aum - amount, 0) /\ UNCHANGED deployed_aum
CountWithdrawn(amount) ==
    /\ local_aum' = Larger(local_aum - amount, 0)
    /\ deployed_aum' = deployed_aum + amount

OperatorWithdraw(sub, amount) ==
    /\ status = "open"
    /\ amount > 0
    /\ Pairing(sub)
    /\ sub # NoKey => CoversDebt(sub, amount)
    /\ amount <= asset_balance[VaultPDA]
    /\ deployed_aum + amount <= U64Max
    /\ deployed_principal + amount <= U64Max
    /\ asset_balance' = Move(asset_balance, VaultPDA, Counterparty(sub), amount)
    /\ CountWithdrawn(amount)
    /\ deployed_principal' = deployed_principal + amount
    /\ \/ sub = NoKey /\ principal' = principal
       \/ /\ sub # NoKey /\ principal[sub] + amount <= U64Max
          /\ principal' = Credit(principal, sub, amount)
    /\ UNCHANGED <<config, subaccount_count, registered, shares, delegated>>

\* Only what a destination owes is repaid; a surplus is yield.
RepaidInFull(sub, amount) == amount
repaid(sub, amount) == IF sub = NoKey THEN amount ELSE Smaller(amount, principal[sub])

OperatorDeposit(sub, amount) ==
    /\ status = "open"
    /\ amount > 0
    /\ Pairing(sub)
    /\ sub # NoKey => delegated[sub] >= amount
    /\ amount <= asset_balance[Counterparty(sub)]
    /\ local_aum + amount <= U64Max
    /\ asset_balance' = Move(asset_balance, Counterparty(sub), VaultPDA, amount)
    /\ deployed_aum' = Larger(deployed_aum - amount, 0)
    /\ local_aum' = local_aum + amount
    /\ deployed_principal' = Larger(deployed_principal - repaid(sub, amount), 0)
    /\ \/ sub = NoKey /\ UNCHANGED <<principal, delegated>>
       \/ /\ sub # NoKey
          /\ principal' = [principal EXCEPT ![sub] = Larger(@ - amount, 0)]
          /\ delegated' = Debit(delegated, sub, amount)
    /\ UNCHANGED <<config, subaccount_count, registered, shares>>

OperatorUpdateAum(new_aum) ==
    /\ status = "open"
    /\ new_aum * BpsDenominator >= (BpsDenominator - aum_decrease_limit) * deployed_aum
    /\ new_aum * BpsDenominator <= (BpsDenominator + aum_increase_limit) * deployed_aum
    /\ new_aum <= U64Max
    /\ deployed_aum' = new_aum
    /\ UNCHANGED <<config, local_aum, registry, asset_balance, shares, delegated>>

-----------------------------------------------------------------------------
(* The admin: the subaccount registry *)

\* The first destination adopts what the operator owed before it.
InheritedNothing == 0
inherited == IF subaccount_count = 0 THEN deployed_principal ELSE 0

RegisterSubaccount(c) ==
    /\ status = "open"
    /\ c \notin registered
    /\ delegated[c] > 0 /\ delegated[c] >= inherited
    /\ c # operator
    /\ subaccount_count < U64Max
    /\ registered' = registered \cup {c}
    /\ principal' = [principal EXCEPT ![c] = inherited]
    /\ subaccount_count' = subaccount_count + 1
    /\ UNCHANGED <<config, aum, deployed_principal, asset_balance, shares, delegated>>

DeregisterSubaccount(c) ==
    /\ status = "open"
    /\ c \in registered
    /\ principal[c] = 0
    /\ registered' = registered \ {c}
    /\ subaccount_count' = Larger(subaccount_count - 1, 0)
    /\ UNCHANGED <<config, aum, deployed_principal, principal, asset_balance, shares, delegated>>

\* The part of a destination's debt that its balance can no longer repay.
LossUnbounded(c) == U64Max
max_loss(c) == Larger(principal[c] - asset_balance[c], 0)

SettleFromAssets(c, amount) ==
    /\ status = "open" /\ c \in registered
    /\ amount > 0 /\ amount <= max_loss(c)
    /\ principal' = Debit(principal, c, amount)
    /\ deployed_principal' = Larger(deployed_principal - amount, 0)
    /\ deployed_aum' = Larger(deployed_aum - amount, 0)
    /\ UNCHANGED <<config, local_aum, subaccount_count, registered, asset_balance, shares, delegated>>
\* deployed_aum is untouched: only the operator's report takes a loss off it.
SettleSubaccountLoss(c, amount) ==
    /\ status = "open"
    /\ c \in registered
    /\ amount > 0
    /\ amount <= max_loss(c)
    /\ principal' = Debit(principal, c, amount)
    /\ deployed_principal' = Larger(deployed_principal - amount, 0)
    /\ UNCHANGED <<config, aum, subaccount_count, registered, asset_balance, shares, delegated>>

-----------------------------------------------------------------------------
(* The admin: settings, the queue gate, the end of the vault *)

funds == <<aum, registry, asset_balance, shares, delegated>>

SetOperator(k) ==
    /\ status = "open"
    /\ k # NoKey
    /\ operator' = k
    /\ UNCHANGED <<status, paused, fee_recipient, gate, policy, funds>>

SetFeeRecipient(k) ==
    /\ status = "open"
    /\ fee_recipient' = k
    /\ UNCHANGED <<status, paused, operator, gate, policy, funds>>

SetWithdrawalFee(fee) ==
    /\ status = "open"
    /\ fee < (10 * FeeDenominator) \div 100
    /\ withdrawal_fee' = fee
    /\ UNCHANGED <<status, paused, roles, gate, aum_increase_limit, aum_decrease_limit, funds>>

SetAumLimits(increase_limit, decrease_limit) ==
    /\ status = "open"
    /\ increase_limit <= BpsDenominator /\ decrease_limit <= BpsDenominator
    /\ aum_increase_limit' = increase_limit
    /\ aum_decrease_limit' = decrease_limit
    /\ UNCHANGED <<status, paused, roles, gate, withdrawal_fee, funds>>

Pause ==
    /\ status = "open"
    /\ paused' = TRUE
    /\ UNCHANGED <<status, roles, gate, policy, funds>>

Unpause ==
    /\ status = "open"
    /\ paused' = FALSE
    /\ UNCHANGED <<status, roles, gate, policy, funds>>

AttachWithdrawalQueue ==
    /\ status = "open"
    /\ withdrawal_queue_authority = NoKey
    /\ queue_exists
    /\ withdrawal_queue_authority' = QueuePDA
    /\ UNCHANGED <<status, paused, roles, queue_exists, policy, funds>>

\* Needs the stored queue's signature as well as the admin's.
DetachWithdrawalQueue(queue_signer) ==
    /\ status = "open"
    /\ withdrawal_queue_authority # NoKey
    /\ queue_signer = withdrawal_queue_authority
    /\ withdrawal_queue_authority' = NoKey
    /\ UNCHANGED <<status, paused, roles, queue_exists, policy, funds>>

CloseVaultWithShares ==
    /\ status = "open"
    /\ subaccount_count = 0
    /\ asset_balance[VaultPDA] = 0
    /\ status' = "closed"
    /\ UNCHANGED <<paused, roles, gate, policy, funds>>
\* Closes the state and the reserve and revokes the mint authority.  The
\* closed account's last fields are kept here but nothing reads them.
CloseVault ==
    /\ status = "open"
    /\ supply = 0
    /\ subaccount_count = 0
    /\ asset_balance[VaultPDA] = 0
    /\ status' = "closed"
    /\ UNCHANGED <<paused, roles, gate, policy, funds>>

-----------------------------------------------------------------------------
(* The environment: the SPL token program and the queue program.  Only its   *)
(* own program signs for a PDA, so assets never leave the reserve this way.  *)

CreateQueue ==
    /\ status = "open"
    /\ ~queue_exists
    /\ queue_exists' = TRUE
    /\ UNCHANGED <<status, paused, roles, withdrawal_queue_authority, policy, funds>>

\* Anyone may send deposit tokens anywhere, the reserve while it exists included.
TransferAssets(from, to, n) ==
    /\ n > 0 /\ n <= asset_balance[from]
    /\ to = VaultPDA => status = "open"
    /\ asset_balance' = Move(asset_balance, from, to, n)
    /\ UNCHANGED <<config, aum, registry, shares, delegated>>

TransferShares(from, to, n) ==
    /\ n > 0 /\ n <= share_balance[from]
    /\ share_balance' = Move(share_balance, from, to, n)
    /\ UNCHANGED <<config, aum, registry, asset_balance, supply, delegated>>

BurnShares(k, n) ==
    /\ n > 0 /\ n <= share_balance[k]
    /\ share_balance' = Debit(share_balance, k, n)
    /\ supply' = supply - n
    /\ UNCHANGED <<config, aum, registry, asset_balance, delegated>>

\* A custody grants, lowers or revokes its allowance to the vault PDA.
Approve(c, n) ==
    /\ delegated[c] # n
    /\ delegated' = [delegated EXCEPT ![c] = n]
    /\ UNCHANGED <<config, aum, registry, asset_balance, shares>>

-----------------------------------------------------------------------------
HolderStep ==
    \E u \in Depositors, n \in Amounts, min \in MinOuts :
        Deposit(u, n, min) \/ Redeem(u, n, min)

OperatorStep ==
    \/ \E sub \in registered \cup {NoKey}, n \in Amounts :
           OperatorWithdraw(sub, n) \/ OperatorDeposit(sub, n)
    \/ \E n \in Reports : OperatorUpdateAum(n)

RegistryStep ==
    \E c \in CustodyKeys :
        \/ RegisterSubaccount(c)
        \/ DeregisterSubaccount(c)
        \/ \E n \in Amounts : SettleSubaccountLoss(c, n)

SettingStep ==
    \/ \E k \in OperatorKeys : SetOperator(k)
    \/ \E k \in FeeKeys : SetFeeRecipient(k)
    \/ \E fee \in Fees : SetWithdrawalFee(fee)
    \/ \E i \in Limits, d \in Limits : SetAumLimits(i, d)
    \/ Pause \/ Unpause
    \/ AttachWithdrawalQueue
    \/ CloseVault

TokenStep ==
    \/ \E from \in Wallets, to \in Keys, n \in Amounts :
           TransferAssets(from, to, n) \/ TransferShares(from, to, n)
    \/ \E k \in Wallets, n \in Amounts : BurnShares(k, n)
    \/ \E c \in CustodyKeys, n \in Amounts : Approve(c, n)

\* Whatever a program that signs for QueuePDA might do with the vault and with
\* the shares it holds.  QueuedVault puts the real queue program here.
QueueProgramStep ==
    \/ CreateQueue
    \/ DetachWithdrawalQueue(QueuePDA)
    \/ \E x \in 1 .. share_balance[QueuePDA], k \in Keys :
           QueueRedeem(k, x) \/ TransferShares(QueuePDA, k, x)

Next ==
    HolderStep \/ OperatorStep \/ RegistryStep \/ SettingStep \/ TokenStep \/ QueueProgramStep

Spec == Init /\ [][Next]_vars

-----------------------------------------------------------------------------
(* Properties *)

TypeOK ==
    /\ status \in {"open", "closed"} /\ paused \in BOOLEAN
    /\ operator \in OperatorKeys /\ fee_recipient \in FeeKeys
    /\ withdrawal_fee \in Nat /\ withdrawal_fee <= FeeDenominator
    /\ aum_increase_limit \in 0 .. BpsDenominator
    /\ aum_decrease_limit \in 0 .. BpsDenominator
    /\ withdrawal_queue_authority \in {NoKey, QueuePDA} /\ queue_exists \in BOOLEAN
    /\ local_aum \in 0 .. U64Max /\ deployed_aum \in 0 .. U64Max
    /\ deployed_principal \in 0 .. U64Max /\ subaccount_count \in 0 .. U64Max
    /\ registered \subseteq CustodyKeys
    /\ principal \in [CustodyKeys -> 0 .. U64Max]
    /\ asset_balance \in [Keys -> Nat]
    /\ share_balance \in [Keys -> Nat] /\ supply \in 0 .. U64Max
    /\ delegated \in [CustodyKeys -> Nat]

\* What the vault accounts as local is really in the reserve, whatever mix of
\* deposits, redemptions, operator transfers and direct token transfers came
\* before: a redemption that passes the NotEnoughLiquidity check can be paid.
Solvency == status = "open" => local_aum <= asset_balance[VaultPDA]

\* The mint's supply, which pricing divides by, is what holders hold.
SupplyIsHeld == supply = Total(share_balance)

\* Once destinations are registered the vault-wide principal is the sum of
\* what each owes, although the code keeps the two apart with saturating
\* subtractions, adopts a prior principal at the first registration, and
\* counts registrations in a counter of its own.
PrincipalLedger ==
    /\ subaccount_count = Cardinality(registered)
    /\ \A c \in CustodyKeys \ registered : principal[c] = 0
    /\ registered # {} => deployed_principal = Total(principal)

\* A closed vault leaves nothing behind: no holder with shares, no registry
\* entry, no debt of a destination.
ClosedOwesNothing ==
    status = "closed" =>
        /\ \A k \in Keys : share_balance[k] = 0
        /\ registered = {} /\ Total(principal) = 0

\* A deposit redeemed at once returns no more than was put in, and forfeits
\* less than the price of one share and one unit of rounding.
FairRoundTrip ==
    \A a \in Amounts :
        LET T    == total_assets
            s    == SharesForDeposit(supply, T, a, ShareOffset)
            back == AssetsForRedeem(supply + s, T + a, s, ShareOffset)
        IN  PriceDefined(supply, T) =>
                /\ back <= a
                /\ a * (supply + ShareOffset) <
                       (back + 1) * (supply + ShareOffset) + T + ShareOffset

\* All holders could leave together: what redemptions of every position are
\* quoted never adds up to more than the vault's assets.
NoOverpromise == Total([k \in Keys |-> redeem_assets(share_balance[k])]) <= total_assets

\* The operator reports less outside than the vault has it at.
LossReported == \E n \in Reports : n < deployed_aum /\ OperatorUpdateAum(n)

\* Only a reported loss lowers what a position is quoted.  Every step of the
\* vault is one that SharePool allows, and where shares stay and assets go it is
\* operator_update_aum: no transfer to or from a custody, no settlement of a
\* destination's debt and no setting ever takes anything out of the price.
Pool == INSTANCE SharePool WITH total <- total_assets
HoldersPromise ==
    /\ Pool!Spec
    /\ [][Pool!MarkDown => LossReported]_vars

\* What a registered destination owes is covered by its allowance.
Covered(c) == delegated[c] >= principal[c]

\* No instruction takes a covered destination out of coverage, and none is
\* registered uncovered; only its custody can do that, by lowering the
\* allowance.
CoverageKept ==
    [][\A c \in registered' :
          \/ \E n \in Amounts : Approve(c, n)
          \/ (c \in registered => Covered(c)) => Covered(c)']_vars

-----------------------------------------------------------------------------
(* What a comment of the program says, which its instructions refute. *)

\* deposit.rs: when shares are outstanding against nothing, "only
\* `operator_deposit` can restore" a share price.
OnlyOperatorDepositRestores ==
    [][supply > 0 /\ total_assets = 0 /\ total_assets' > 0 =>
          \E sub \in registered \cup {NoKey}, n \in Amounts : OperatorDeposit(sub, n)]_vars
=============================================================================
