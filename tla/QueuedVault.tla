---------------------------- MODULE QueuedVault ----------------------------
(***************************************************************************)
(* The august-withdrawal-queue program on top of the vault: the share      *)
(* escrow, the request accounts, their clock, and the cross-program calls  *)
(* the queue signs as QueuePDA.  A cross-program call is part of the       *)
(* calling transaction, so a finalization is one step of both programs and *)
(* a refusal by the vault leaves the request as it was.                    *)
(*                                                                         *)
(* A request account lives at an address made of its owner and an id the   *)
(* owner chooses, so it is a function of RequestKeys; a closed account is  *)
(* the zero-filled record.  Instructions are signed some time before they  *)
(* land: the sequence number an instruction quotes is therefore any number *)
(* given out so far, not just the current request's.                       *)
(*                                                                         *)
(* Timestamps are i64 seconds in the code.  A clock of this century plus   *)
(* the bounded cooldown and window cannot overflow them, so they are       *)
(* naturals here.  requested_at and scheduled_eligible_at are only         *)
(* reported in events and left out.                                        *)
(***************************************************************************)
EXTENDS Vault

CONSTANTS
    RequestIds,      \* ids owners choose
    Recipients,      \* authorities of the accounts owners want to be paid into
    Finalizers,      \* finalizer restrictions owners state; NoKey for none
    Floors,          \* min_assets_out values owners state
    Cooldowns,       \* cooldowns the admin sets
    Windows,         \* fulfillment windows the admin sets
    MaxCooldown,     \* MAX_COOLDOWN_SECONDS
    MinWindow,       \* MIN_FULFILLMENT_WINDOW_SECONDS
    MaxWindow,       \* MAX_FULFILLMENT_WINDOW_SECONDS
    MaxSequence,     \* largest value of the request counters (u64::MAX)
    MaxTime          \* bound on the clock

RequestKeys == Depositors \X RequestIds

ASSUME QueueConstantsAssumption ==
    /\ IsFiniteSet(RequestKeys)
    /\ Recipients \subseteq Keys /\ Finalizers \subseteq Wallets \cup {NoKey}
    /\ Floors \subseteq Nat /\ Cooldowns \subseteq Nat /\ Windows \subseteq Nat
    /\ MaxCooldown \in Nat /\ MinWindow \in Nat \ {0} /\ MaxWindow \in Nat
    /\ MaxSequence \in Nat /\ MaxTime \in Nat \ {0}

VARIABLES
    request,                         \* the request accounts
    sequence, pending_requests, pending_shares,
    cooldown_seconds, fulfillment_window_seconds,
    now,                             \* Clock::unix_timestamp
    opened                           \* history: every request as it was opened

counters     == <<sequence, pending_requests, pending_shares>>
queue_config == <<cooldown_seconds, fulfillment_window_seconds>>
queue_vars   == <<request, counters, queue_config, now, opened>>
qvars        == <<vars, queue_vars>>

Request == [shares : Nat, min_assets_out : Nat, recipient : Keys \cup {NoKey},
            finalizer : Wallets \cup {NoKey}, sequence : Nat,
            eligible_at : Nat, expires_at : Nat]

\* The account before it is created and after it is closed.
ZeroRequest == [shares |-> 0, min_assets_out |-> 0, recipient |-> NoKey,
                finalizer |-> NoKey, sequence |-> 0, eligible_at |-> 0, expires_at |-> 0]

QInit ==
    /\ Init
    /\ request = [k \in RequestKeys |-> ZeroRequest]
    /\ sequence = 0 /\ pending_requests = 0 /\ pending_shares = 0
    /\ cooldown_seconds = 0 /\ fulfillment_window_seconds = 0
    /\ now = 1
    /\ opened = {}

Live(k) == request[k].sequence # 0
Owner(k) == k[1]

\* Instructions that read the vault's state or its admin need the vault account.
Served == queue_exists /\ status = "open"

-----------------------------------------------------------------------------
(* The admin: queue settings *)

InitializeQueue(seconds) ==
    /\ seconds <= MaxCooldown
    /\ CreateQueue
    /\ cooldown_seconds' = seconds
    /\ fulfillment_window_seconds' = 0
    /\ UNCHANGED <<request, counters, now, opened>>

SetCooldown(seconds) ==
    /\ Served
    /\ seconds <= MaxCooldown
    /\ cooldown_seconds' = seconds
    /\ UNCHANGED <<vars, request, counters, fulfillment_window_seconds, now, opened>>

SetFulfillmentWindow(seconds) ==
    /\ Served
    /\ seconds # 0 => seconds >= MinWindow /\ seconds <= MaxWindow
    /\ fulfillment_window_seconds' = seconds
    /\ UNCHANGED <<vars, request, counters, cooldown_seconds, now, opened>>

\* Detaches the queue whatever is still pending.
ReleaseVault ==
    /\ Served
    /\ DetachWithdrawalQueue(QueuePDA)
    /\ UNCHANGED queue_vars

\* Shares in the escrow that no request accounts for.
WholeEscrow == share_balance[QueuePDA]
stray == share_balance[QueuePDA] - pending_shares

SweepEscrowShares(destination) ==
    /\ Served
    /\ stray > 0
    /\ destination \notin {QueuePDA, VaultPDA}
    /\ TransferShares(QueuePDA, destination, stray)
    /\ UNCHANGED queue_vars

-----------------------------------------------------------------------------
(* Owners and finalizers *)

ValidRecipient(r) == r \notin {QueuePDA, VaultPDA}

\* A stamp taken from the counter of live requests.
OpenedByPending(x, min_assets_out, recipient, finalizer) ==
    [shares |-> x, min_assets_out |-> min_assets_out,
     recipient |-> recipient, finalizer |-> finalizer,
     sequence |-> pending_requests + 1, eligible_at |-> now + cooldown_seconds,
     expires_at |-> IF fulfillment_window_seconds = 0 THEN 0
                    ELSE now + cooldown_seconds + fulfillment_window_seconds]
\* WithdrawalRequest::open and ::schedule, with the settings of the moment.
Opened(x, min_assets_out, recipient, finalizer) ==
    LET scheduled == now + cooldown_seconds
        window    == fulfillment_window_seconds
    IN  [shares |-> x, min_assets_out |-> min_assets_out,
         recipient |-> recipient, finalizer |-> finalizer,
         sequence |-> sequence + 1, eligible_at |-> scheduled,
         expires_at |-> IF window = 0 THEN 0 ELSE scheduled + window]

RequestWithdrawal(k, x, min_assets_out, recipient, finalizer) ==
    LET r == Opened(x, min_assets_out, recipient, finalizer)
    IN  /\ Served
        /\ ~Live(k)
        /\ withdrawal_queue_authority = QueuePDA
        /\ x > 0
        /\ ValidRecipient(recipient)
        /\ sequence < MaxSequence /\ pending_requests < MaxSequence
        /\ pending_shares + x <= U64Max
        /\ TransferShares(Owner(k), QueuePDA, x)
        /\ sequence' = sequence + 1
        /\ pending_requests' = pending_requests + 1
        /\ pending_shares' = pending_shares + x
        /\ request' = [request EXCEPT ![k] = r]
        /\ opened' = opened \cup {<<k, r>>}
        /\ UNCHANGED <<queue_config, now>>

IsEligible(r) == now >= r.eligible_at
NeverExpires(r) == FALSE
IsExpired(r) == r.expires_at # 0 /\ now >= r.expires_at
MayFinalize(k, caller) ==
    \/ caller = Owner(k)
    \/ request[k].finalizer \in {NoKey, caller}

\* The account exists and is the one the instruction was signed for.
AnyStamp(k, expected_sequence) == Live(k)
StampMatches(k, expected_sequence) ==
    Live(k) /\ request[k].sequence = expected_sequence

\* WithdrawalQueue::close_request, and the closing of the account.
CloseRequestForgetful(k) ==
    /\ pending_requests >= 1
    /\ pending_requests' = pending_requests - 1
    /\ request' = [request EXCEPT ![k] = ZeroRequest]
    /\ UNCHANGED <<sequence, pending_shares, queue_config, now, opened>>
CloseRequestTwice(k) ==
    /\ pending_shares >= request[k].shares
    /\ pending_requests' = pending_requests - 2
    /\ pending_shares' = pending_shares - request[k].shares
    /\ request' = [request EXCEPT ![k] = ZeroRequest]
    /\ UNCHANGED <<sequence, queue_config, now, opened>>
CloseRequest(k) ==
    /\ pending_requests >= 1 /\ pending_shares >= request[k].shares
    /\ pending_requests' = pending_requests - 1
    /\ pending_shares' = pending_shares - request[k].shares
    /\ request' = [request EXCEPT ![k] = ZeroRequest]
    /\ UNCHANGED <<sequence, queue_config, now, opened>>

FinalizePaysFloor(k, caller, expected_sequence) ==
    LET r == request[k]
    IN  /\ Served
        /\ StampMatches(k, expected_sequence) /\ MayFinalize(k, caller)
        /\ IsEligible(r) /\ ~IsExpired(r)
        /\ CloseRequest(k)
        /\ Redemption(QueuePDA, r.shares, r.min_assets_out)
        /\ asset_balance' = Move(AfterRedeem(QueuePDA, r.shares), QueuePDA,
                                 r.recipient, r.min_assets_out)
\* The payout is what the escrow received across the call into the vault.
FinalizeWithdrawal(k, caller, expected_sequence) ==
    LET r == request[k]
    IN  /\ Served
        /\ StampMatches(k, expected_sequence)
        /\ MayFinalize(k, caller)
        /\ IsEligible(r)
        /\ ~IsExpired(r)
        /\ ValidRecipient(r.recipient)
        /\ CloseRequest(k)
        /\ queue_received(r.shares) >= r.min_assets_out
        /\ QueueRedeem(r.recipient, r.shares)

CancelWhileUnpaused(k, expected_sequence) ==
    /\ ~paused
    /\ StampMatches(k, expected_sequence)
    /\ CloseRequest(k)
    /\ TransferShares(QueuePDA, Owner(k), request[k].shares)
\* Reads no vault account, so it works in every state of the vault.
CancelWithdrawal(k, expected_sequence) ==
    /\ StampMatches(k, expected_sequence)
    /\ CloseRequest(k)
    /\ TransferShares(QueuePDA, Owner(k), request[k].shares)

\* The vault's admin or operator brings eligibility forward to now.
ExpediteRequest(k, expected_sequence) ==
    /\ Served
    /\ StampMatches(k, expected_sequence)
    /\ ~IsExpired(request[k])
    /\ ~IsEligible(request[k])
    /\ request' = [request EXCEPT ![k].eligible_at = now]
    /\ UNCHANGED <<vars, counters, queue_config, now, opened>>

-----------------------------------------------------------------------------
Tick ==
    /\ now < MaxTime
    /\ now' = now + 1
    /\ UNCHANGED <<vars, request, counters, queue_config, opened>>

QueueAdminStep ==
    \/ \E s \in Cooldowns : InitializeQueue(s) \/ SetCooldown(s)
    \/ \E s \in Windows : SetFulfillmentWindow(s)
    \/ ReleaseVault
    \/ \E destination \in Wallets : SweepEscrowShares(destination)

RequestStep ==
    \E k \in RequestKeys :
        \/ \E x \in Amounts, min \in Floors, recipient \in Recipients, f \in Finalizers :
               RequestWithdrawal(k, x, min, recipient, f)
        \/ \E expected \in 1 .. sequence :
               \/ CancelWithdrawal(k, expected)
               \/ ExpediteRequest(k, expected)
               \/ \E caller \in Wallets : FinalizeWithdrawal(k, caller, expected)

\* The vault's own instructions and the token program, the queue left alone.
VaultStep ==
    /\ HolderStep \/ OperatorStep \/ RegistryStep \/ SettingStep \/ TokenStep
    /\ UNCHANGED queue_vars

QNext == QueueAdminStep \/ RequestStep \/ VaultStep \/ Tick

QSpec == QInit /\ [][QNext]_qvars

-----------------------------------------------------------------------------
(* Properties *)

QTypeOK ==
    /\ request \in [RequestKeys -> Request]
    /\ sequence \in 0 .. MaxSequence
    /\ pending_requests \in 0 .. MaxSequence /\ pending_shares \in 0 .. U64Max
    /\ cooldown_seconds \in Nat /\ fulfillment_window_seconds \in Nat
    /\ now \in 1 .. MaxTime
    /\ opened \subseteq RequestKeys \X Request

LiveKeys == {k \in RequestKeys : Live(k)}
shares_of == [k \in RequestKeys |-> request[k].shares]

\* The counters agree with the request accounts, and the escrow holds every
\* pending share, whatever was sent to it, swept from it, finalized or
\* cancelled: no request is paid out of another's shares.
EscrowCoversPending ==
    /\ pending_shares = Total(shares_of)
    /\ pending_requests = Cardinality(LiveKeys)
    /\ pending_shares <= share_balance[QueuePDA]

\* Nothing escrowed is ever stranded: in every state of the vault, paused,
\* released or closed, the owner of a pending request can take it back.
CancelAlwaysPossible ==
    \A k \in LiveKeys : ENABLED CancelWithdrawal(k, request[k].sequence)

\* What the vault and the terms of the request decide about its payment: it is
\* due, unpaused, for an acceptable recipient, and its price can be computed, is
\* positive, at least the floor and accounted for as local.
Payable(k) ==
    LET r      == request[k]
        assets == redeem_assets(r.shares)
    IN  /\ ~paused
        /\ IsEligible(r) /\ ~IsExpired(r) /\ ValidRecipient(r.recipient)
        /\ total_assets <= U64Max /\ PriceComputes(r.shares, total_assets)
        /\ assets > 0 /\ assets <= local_aum
        /\ net_assets(assets) >= r.min_assets_out

\* Nothing else ever stands between an owner and the payment: not the escrow or
\* the counters, not the fee, not a reserve that holds less than is accounted
\* for, not a queue that was released or a vault that was closed meanwhile.
DueRequestsPaid ==
    \A k \in LiveKeys :
        Payable(k) => ENABLED FinalizeWithdrawal(k, Owner(k), request[k].sequence)

\* A vault is never closed over a pending request, even a released one's.
ClosedStrandsNoRequest == status = "closed" => LiveKeys = {} /\ pending_shares = 0

\* k holds the request that was opened as p; expediting has at most brought
\* its eligibility forward.
IsRequest(k, p) ==
    /\ p[1] = k
    /\ request[k].eligible_at <= p[2].eligible_at
    /\ request[k] = [p[2] EXCEPT !.eligible_at = request[k].eligible_at]

\* A stamp names one request for good, although ids are reused, and a live
\* request still has the terms it was opened with.
StampPinsTerms ==
    /\ \A p, q \in opened : p[2].sequence = q[2].sequence => p = q
    /\ \A k \in LiveKeys : \E p \in opened : IsRequest(k, p)

\* An instruction that was signed for one request and lands late never acts on
\* another one under the same id: what it ends or expedites is the request that
\* was opened under the stamp it quotes.
DelayedActsOnItsOwn ==
    [][\A k \in RequestKeys, e \in 1 .. sequence :
          (\/ CancelWithdrawal(k, e) \/ ExpediteRequest(k, e)
           \/ \E c \in Wallets : FinalizeWithdrawal(k, c, e)) =>
              \E p \in opened : p[2].sequence = e /\ IsRequest(k, p)]_qvars

\* After its deadline a request has one exit left, and expediting cannot revive
\* it: the shares go back to the owner and nothing is redeemed.
ExpiredOnlyReturns ==
    [][\A k \in LiveKeys :
          request[k].expires_at # 0 /\ now >= request[k].expires_at
          /\ request'[k] # request[k] =>
              /\ request'[k] = ZeroRequest
              /\ share_balance'[Owner(k)] = share_balance[Owner(k)] + request[k].shares
              /\ supply' = supply]_qvars

\* While the queue is attached every share that leaves the vault for assets
\* belongs to one pending request that was due, and nobody leaves around it.
OnlyDueRequestsLeave ==
    [][withdrawal_queue_authority = QueuePDA
       /\ supply' < supply /\ total_assets' < total_assets =>
          \E k \in LiveKeys :
              /\ request'[k] = ZeroRequest
              /\ request[k].shares = supply - supply'
              /\ request[k].eligible_at <= now]_qvars

\* While a request waits, what its shares would redeem for never falls, whoever
\* enters, leaves, transfers, burns or finalizes meanwhile: only a loss that the
\* operator reports lowers it, so no owner is diluted by queueing.
WaitingLosesNothing ==
    [][\A k \in LiveKeys :
          request'[k].sequence = request[k].sequence
          /\ redeem_assets(request[k].shares)' < redeem_assets(request[k].shares) =>
              LossReported]_qvars

\* A finalization passes on what the redemption brought and no more: deposit
\* tokens already lying in the escrow are never paid out.
EscrowAssetsStay == [][asset_balance'[QueuePDA] >= asset_balance[QueuePDA]]_qvars

\* Every step of the two programs together is a step the vault's own
\* specification allows, so whatever holds of the vault holds of the pair.
VaultHolds == Spec

\* Owners who want out keep sending their cancellation until it lands.
CancelFairness ==
    \A k \in RequestKeys : WF_qvars(\E e \in 1 .. sequence : CancelWithdrawal(k, e))

\* Once the vault is released for good no new request opens, and the pending
\* set closes by itself, also when the vault is paused or illiquid meanwhile.
ReleasedQueueDrains ==
    (<>[](withdrawal_queue_authority = NoKey)) => <>[](pending_requests = 0)

-----------------------------------------------------------------------------
\* README.md: "Emergency Pause: Disables all user operations."  Cancelling is
\* documented as an exception, opening a request is not.
PauseStopsRequests ==
    [][paused => \A k \in RequestKeys : ~Live(k) => request'[k] = request[k]]_qvars
=============================================================================
