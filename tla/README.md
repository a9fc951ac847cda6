# Verification of the August vault and withdrawal-queue programs

TLA+ models of the two Solana programs of this repository,
`programs/august-vault` and `programs/august-withdrawal-queue`, and of the
generated Rust clients that call them, with TLC runs on small instances and TLAPS
proofs for all instances.

## The system

A **vault** takes deposits of one SPL token and mints shares. Its assets are
`local_aum` (tokens accounted for in the reserve, the vault PDA's token account)
plus `deployed_aum` (what the operator reports to hold elsewhere). A **withdrawal
queue** may be attached to a vault; holders then leave through requests that
mature after a cooldown and the queue redeems for them by cross-program call.

| Part | State | Operations | Correct when |
| --- | --- | --- | --- |
| Share pricing (`state/vault.rs`) | none | shares for a deposit, assets for a redemption, opening minimum | nobody gains by trading, nobody is diluted, quotes never exceed assets |
| Holders (`deposit.rs`, `redeem.rs`) | `local_aum`, supply, balances | deposit, redeem with floors | the reserve covers `local_aum` |
| Operator (`operator_*.rs`) | `deployed_aum`, `deployed_principal` | withdraw, deposit, report | moves never change what holders are quoted, except a reported loss |
| Subaccounts (`*_subaccount*.rs`) | registry, principal per destination, SPL allowance | register, deregister, settle a loss | the vault-wide principal is the sum of the destinations', a debt stays covered by its allowance |
| Settings, pause, gate, closing | keys, fee, limits, `paused`, `withdrawal_queue_authority` | setters, attach, detach, close | a closed vault owes nothing |
| Queue (`august-withdrawal-queue`) | requests, three counters, cooldown, window, share escrow | initialize, request, finalize, cancel, expedite, release, sweep, two setters | the escrow holds what requests own, a request can always be taken back, nothing but its terms and its price delays its payment, waiting dilutes nobody, a stamp pins its request, deadlines hold |
| Governance (`*config*`, `*nominat*`, `initialize`, `close_vault`) | upgrade and config authority, vault namespaces, pending nominations | initialize, rotate, override, create, close, nominate, accept | a handover is what the present admin last asked for, a closed namespace stays dead |
| Metadata (`*_metadata.rs`) | the share mint's metadata, at an external program | create, update | only the admin of a live, unpaused vault writes it |
| Mint policy (`mint_policy.rs`) | none | judges the two mints when a queue is created | what it lets through can never lock the escrow or take a cut |
| Queue events (`events.rs`) | none | one event at the end of every handler | events alone tell which requests are pending, on which terms |
| Clients' instructions (`clients/rust/*/generated/instructions`) | none | a builder and a CPI builder per instruction | what a caller means is what the program binds, with the privileges it needs and no more |
| Account layouts (`state/*.rs`, `clients/rust/*/generated/accounts`) | bytes of six account types | create, rewrite, read, across upgrades | a field never moves, an account never becomes unreadable, zero means what it did before |
| Errors, deployment, tests | | | not modelled |

The two programs interact in three places: `finalize_withdrawal` calls `redeem`
signing as the queue PDA, `release_vault` calls `detach_withdrawal_queue` with
the same signature, and `request_withdrawal` reads the vault's gate. Everything
else interacts through SPL token accounts that anyone can send to: the reserve,
both escrows, custody accounts, and the share mint whose supply any holder can
burn down.

A Solana transaction is atomic, so there is no interleaving inside an
instruction, cross-program calls included; a failing instruction leaves no
trace. The difficulty is in the *order* of instructions of parties that do not
know of each other, in values read from accounts others can change, in integer
rounding, in counters kept apart from what they count, in instructions that land
later than they were signed, and in the clock. Around the programs it is in
agreement between things written apart: an account list that is only positions,
bytes that outlive the release that wrote them, events that arrive in any order,
mints whose authorities act long after they were accepted. `PROJECT.json` lists these
hazards by source line with the properties that cover them.

## The modules

| Module | Models | Extends |
| --- | --- | --- |
| `SharePricing` | the pricing functions of `VaultState` and `Redeem::ceil_div`, as operators on naturals | |
| `Tokens` | SPL balances as functions, transfers, mint, burn, and `Total`, the sum of a balance function | |
| `Vault` | the whole `august-vault` program for one initialized vault, one action per instruction, plus what the token program lets others do | `SharePricing`, `Tokens` |
| `SharePool` | abstract promise to holders: supply and assets only, a loss as a step of its own | `SharePricing` |
| `QueuedVault` | the whole `august-withdrawal-queue` program composed with `Vault` | `Vault` |
| `Governance` | program configuration, the life of every vault namespace, admin nomination, share metadata | |
| `QueueEvents` | the queue's handlers with the event each ends in, and an indexer's view of the events | `QueuedVault` |
| `MintPolicy` | the mint policy against the extensions of Token-2022, with the queue's three token movements | |
| `Metas` | the vocabulary of account lists, arguments and fields | |
| `ClientInterface` | what the clients put on the wire, one definition per instruction and one per builder | `Metas` |
| `ProgramInterface` | what the programs read from it: accounts structs, arguments, own writes, inner calls | `Metas` |
| `Wire` | an instruction's way from caller to inner calls; instantiates both interfaces | |
| `ProgramAccounts`, `ClientAccounts` | the layouts of the account types and what is decided from them, on either side | `Metas` |
| `AccountData` | accounts' bytes over upgrades and rollbacks; instantiates both layouts | |
| `MC*` | instances for TLC: endowments, symmetry, partial next-state relations | |
| `OperatorLemmas` | integer division, the pricing functions, sums of balances | `SharePricing`, `Tokens` |
| `VaultProofs`, `QueueProofs`, `GovernanceProofs`, `QueueEventsProofs`, `MintPolicyProofs`, `WireProofs`, `AccountDataProofs` | theorems, each about the module of its name | |

`Vault` keeps the code's names: each field of `VaultState` that a handler reads
or writes is a variable, each `require!` and account constraint a conjunct of
the action's guard, and each overflow that the build turns into an error
(`overflow-checks = true`, `Cargo.toml:17`) a guard against `U64Max`, the products
behind a price against the square of its range (`PriceComputes`). Saturating
subtractions are `Larger(a - b, 0)`. Token accounts are identified by their
authority. `deposit` and `redeem` are the checked variants with a floor of 0.
Signatures appear as which keys an action ranges over; the admin is one party
and its key is not modelled, since no property depends on who it is.
`CoversDebt` and `RegisterSubaccount` read "the delegate is the vault PDA" as a
positive allowance: the allowance is what the vault PDA may take, and 0 when
another delegate is set.

`QueueProgramStep` lets an arbitrary program sign as the queue PDA: redeem any
part of the escrow and pass on what was received, move shares, or give the
detach signature. `QueuedVault` replaces it by the real program; that this is a
refinement is the property `VaultHolds`, so each theorem about `Vault` holds of
the pair.

In `QueuedVault` a request account is a record per (owner, id), zero-filled
while it does not exist. An instruction that targets a request may quote any
sequence number given out so far: that is a transaction signed for an older
request under the same id that lands late. `opened` is a history variable, the
requests as they were opened. The bound `MaxSequence` stands for `u64::MAX` of
the request counters and `MaxTime` bounds the clock.

`Governance` is about keys where `Vault` is about money: what a vault owes is one
Boolean, `owes`, that `close_vault` tests and everyday instructions change. A
namespace is a (deposit mint, version) pair, the seed of four accounts with lives
of their own; `close_vault` ends one of them. `nomination` is a history variable,
the last nomination with its author and time. The metadata program is external:
it refuses to create twice and to update what is not there.

`QueueEvents` conjoins to each action of `QueuedVault` the event its handler
emits, built from the account as it is when the event is built (after an
expediting, before a closing). Emitted request events form a set, because an
indexer may see them in any order and more than once; only the configuration
needs the last event, and `last_config` is that one.

`ClientInterface` and `ProgramInterface` are written from different files, the
first from `clients/rust`, the second from the accounts structs, entry points and
handlers, and neither mentions the other. In `Wire` one call is built, granted
privileges, resolved by position and executed. Callers are an off-chain builder,
a client from before the subaccount registry that sends one account less
(`operator_withdraw_legacy_layout` in the tests' harness), a handmade transaction
that asks no signature of a PDA, and two kinds of programs using the CPI builder:
the queue program, which signs for the queue PDA, and any other. Runtime and
Anchor are external: signatures, privilege escalation, account infos that must be
passed, `Option` accounts given by the program id or by the end of the list,
`Signer` and `mut`, addresses of programs, and that a mint is operated by the
token program that owns it. An account is its role's name; PDA seeds are not
recomputed, so a wrong key in the right place is outside this module.

`AccountData` keeps the stored values of an account with the byte each starts at,
so a layout that moves a field reads neighbouring bytes and not a named field.
Release *r* of `VaultState` has *r* fields carved out of the first one's padding,
the history its comments describe; release 4 is the code. Any release may be
deployed after any other. The other account types have one release, and their
part of the run is the agreement of program and client and the reuse of
addresses. The written-off 454-byte account of the comment in `vault.rs:239` is
among the initial accounts.

`MintPolicy` takes any share mint, although the vault creates a plain one: the
policy's own comment says it is there so that this need not be inferred. A mint's
authorities are those it was created with.

Some definitions stand directly before the one they vary (`FeeOnTop` before
`net_assets`, `AnyStamp` before `StampMatches`, ...). They are plausible mistakes
in that code; no action uses them. Putting one in place of its neighbour makes
TLC report the property `PROJECT.json` pairs it with, which shows that the
property depends on the code being as it is.

## Runs

| Run | Instance | Checks |
| --- | --- | --- |
| `VaultPricing` | two interchangeable holders, operator, donations to the reserve, burns, limits up to 100 % | `FairRoundTrip`, `NoOverpromise`, `HoldersPromise` |
| `VaultCustody` | operator and two custodies, one of which may become operator | `PrincipalLedger`, `CoverageKept`, `HoldersPromise` |
| `VaultFull` | one of each party, every action, arbitrary queue program | `TypeOK`, `Solvency`, `ClosedOwesNothing` |
| `QueueEscrow` | one owner with two requests; donations, sweeps, losses, pause, release, closing | `QTypeOK`, `EscrowCoversPending`, `CancelAlwaysPossible`, `DueRequestsPaid`, `ClosedStrandsNoRequest`, `VaultHolds`, `WaitingLosesNothing`, `EscrowAssetsStay`, `ReleasedQueueDrains` |
| `Governance` | three interchangeable keys and the zero key, one namespace, offsets below, at and beside a power of ten, nominations of 2 instants, clock to 5 | `GTypeOK`, `PendingIsAdminsWord`, `HandoverIsAgreed`, `RetiredForGood` |
| `QueueEvents` | one owner with two interchangeable ids and two stamps, changing cooldown and window, two instants, redemptions around the queue, a fee whose recipient is the owner, strays and sweeps | `StampPinsTerms`, `DelayedActsOnItsOwn`, `ExpiredOnlyReturns`, `OnlyDueRequestsLeave`, `EventsRetellRequests`, `LastEventIsConfig`, `PaidAsReported` |
| `MintPolicy` | every pair of mints with up to two of seven extensions, freezable or not, two shares | `ExitStaysOpen`, `RecipientsGetTheReport` |
| `WireCalls` | all 36 instructions, five forms of caller, both token programs, one wallet in all roles or several, any one field unset or all optional ones, an extra account, any one privilege withheld | `BoundAsMeant`, `CompleteCallsServed`, `NoNeedlessLocks`, `DetachOnlyByQueue` |
| `AccountData` | six account types, five releases, two addresses, three writes, two values, decimals around both floors | `FieldsKeepTheirPlace`, `NeverLockedOut`, `AdviceHolds` |
| `VaultRecapitalised`, `QueuePaused`, `WireExtra` | the same instances, smaller | comments the code does not bear out, below |

Bounds. Prices depend on ratios, so the pricing run uses an offset of 2 and
assets up to 7: large enough for prices above and below par, zero assets with
shares outstanding, a supply burnt to zero with assets left, and both legs of
each `min`/`max` to bind with different roundings. The default report limit of
20 bps is no change at this scale, so the run starts with 0 and lets the admin
set 100 %. Two custodies are the smallest number for which one destination's
surplus could eat another's debt. Two requests are the smallest number for which
one could be paid from another's shares, or a reused id confused; two
instants separate before and at eligibility, and before and at the expiry of a
request without cooldown (`QueueProofs` proves `ExpiredOnlyReturns` for any clock,
where a request may be expedited and expire as well). The
limits that matter (`U64Max`, `MaxSequence`) are small enough to be reached; the
width of an intermediate product (`PriceComputes`) is not, with such offsets, and
matters to the theorems alone.
`FeeKeys` contains the queue PDA in two runs because nothing in
`set_fee_recipient` forbids it. The queue runs switch deadlock checking off: a
closed vault, or a clock and a counter at their bounds, may leave nothing to do.

A handover takes an admin, a nominee and a rival: three keys. One namespace is
enough because no action reads another's, and nominations of two instants in a
clock of five leave room for an expiry, a renomination and a second expiry. In
`WireCalls` a call has at most one thing out of the ordinary; accounts are
resolved independently of each other, so a second oddity would add no case but
size. Three writes with releases changing in between are enough for one release
to write, a second to rewrite the account without knowing a field, and a third to
read it. Two extensions per mint are one the policy allows and one it does not.
These runs switch deadlock checking off for the clock and the write counter at
their bounds and for a queue that is never created; `WireCalls` keeps it on.

Fairness. Only `QueueEscrow` assumes any: weak fairness of each owner's
cancellation. The chain does not force owners to act; the assumption says what
an owner who wants out does, and the property that nothing else is needed,
neither the admin nor liquidity nor an unpaused vault.

### What three comments say and the code does not do

* `deposit.rs:33-35` says only `operator_deposit` can restore a share price once
  shares stand against no assets. `VaultRecapitalised` shows another way: someone
  sends tokens to the reserve and the operator withdraws them; `local_aum`
  saturates at 0, `deployed_aum` rises, and the price is defined again.
* `README.md:422` says a pause disables all user operations, and names
  cancelling as the exception at line 244. `QueuePaused` shows a request opened
  while paused; `request_withdrawal` reads the gate but not `paused`.
* The CPI builders (`operator_withdraw.rs:527-528` and `:600` of the vault's
  client, and alike in all 36 files) document an extra account as
  `(AccountInfo, is_writable, is_signer)`. `WireExtra` shows the two flags
  exchanged on the way: `invoke_signed_with_remaining_accounts` takes the first
  one for `is_signer`. The off-chain builders take whole `AccountMeta`s and are
  not affected, nor is any call of these programs, none of which passes extra
  accounts.

Another pair of comments contradict each other and is left at that:
`detach_withdrawal_queue.rs` speaks of a precondition on the pending set that
`release_vault.rs` says does not exist. The model follows the code; releasing
with requests pending is part of every queue run.

Further observations that no run is about:

* `lib.rs:213` says a report must be within 10 % of the deployed AUM. The handler
  applies the vault's own limits, which start at 0.2 % and go to 100 %.
* The clients' `from_bytes` checks neither discriminator nor owner, so an account
  of another type and sufficient size decodes into nonsense.
* The queue client's copy of `VaultState` names the queue program as its Anchor
  owner, though such accounts belong to the vault program; a consumer that uses
  it as `Account<VaultState>` under the `anchor` feature would refuse every vault.
* One account that is too short fails a client's whole batch read, because
  `fetch_all_maybe_*` turns absence into a value but not a failed decode.
* The mint policy looks at the mint, not at the escrow account it is handed. An
  escrow created and frozen while its mint still had a freeze authority would
  pass once the authority was revoked. The vault never creates such a mint.

## Proofs

All proofs are checked by TLAPS for every value of the constants that satisfies
the assumptions of the module, which TLC evaluates in every run. For the money
modules these are `ConstantsAssumption` (`Vault`) and `QueueConstantsAssumption`
(`QueuedVault`): finitely many keys, two PDAs that are no wallets and differ, an
empty reserve at the start, a positive offset and denominators, limits within
100 %. `U64Max`, `MaxSequence` and `MaxTime` are arbitrary naturals, so the
theorems do not depend on the runs' bounds.

**Vault** (`VaultProofs`). The inductive invariant `IInv` is `TypeOK`, `Solvency`,
`SupplyIsHeld`, `PrincipalLedger` and `ClosedShape`. `SupplyIsHeld` (the mint's
supply is the sum of all balances) is needed because `redeem` and burns subtract
from the supply what they check against one balance. `PrincipalLedger` carries
the counter and the zero principals along because the code decides by the
counter whether to adopt the operator's debt, and because a saturating
subtraction is exact only if no debt exceeds the sum. One lemma per action; from
it `TypeCorrect`, `Solvent`, `LedgerBalances`, `ClosedClean`.

**Promises to holders** (`VaultProofs`). `HoldersProtected`: the vault implements
`SharePool` with `total <- total_assets`, and of the steps `SharePool` allows, the
one that loses assets under unchanged shares (`MarkDown`) is taken by
`operator_update_aum` alone (`LossReported`, `OnlyReportsMarkDown`). The refinement
by itself would not say so: to an abstraction that sees two numbers, a withdrawal
that forgets to count what it deployed, or a settlement that takes a debt off the
assets, looks like a report. The argument splits at par: above par
the offset leg of both pricing functions binds, below par the pro-rata leg
(`DepositAbovePar`, `RedeemBelowPar`, ...), and on each side a deposit or a
redemption cannot lower the price of what stays. `FairRoundTrips` bounds a round
trip from both sides. `CoverageIsKept` goes over the actions that touch an
allowance or a principal. `NothingOverpromised` is about a sum of rounded quotes
over all holders, and needs no induction over them: `Total` counts a balance
function's units, a set of pairs (`Tokens`), so a smaller function has fewer
(`TotalMonotone`), and multiplying every balance by `c` multiplies their number
by `c` (`TotalScaled`). Each quote `q` of a balance `b` satisfies
`q * n <= b * d` for the pool's numerator and denominator (`QuoteAtMostProRata`),
hence so do the totals (`ProRataFits`), and the total of the balances is the
supply (`SupplyIsHeld`).

**Queue** (`QueueProofs`). `QIInv` adds to `IInv` the counters against the request
accounts, the shape of a request account, and where stamps come from. The
refinement `QueueImplementsVault` and the invariant are proved together: that a
finalization is a step the vault allows needs the recipient of a live request to
be a real account, and that the escrow stays covered needs the vault's steps not
to take from it (`EscrowOnlyGrows`). `PairKeepsPromises` draws from it what the
vault promises its holders with the real queue program in place.

**Promises to request owners** (`QueueProofs`): four action properties, each by the
one action that could break it, then the payment, the worth of a waiting request and
the liveness below. `CancelNeverRefused` is the owner's exit as a state predicate:
`CanCancel` is the conjunction of everything `cancel_withdrawal` checks, the lemma
`CanCancelDecides` shows that the action is `CanCancel` and assignments, and the
theorem that it holds of every pending request in every reachable state.
`CancelAlwaysPossible` says the same with `ENABLED`.

`PaymentNeverRefused` is the payment in the same form. `Payable` is what the vault
and the request's terms decide: due, not paused, the recipient acceptable, a price
that u128 can compute, positive, at least the floor and within `local_aum`.
Everything else that `finalize_withdrawal`, `close_request`, `redeem` and the token
program check (`CanFinalize`) then follows for whoever may finalize: the counters and the escrow
from the queue's books, the reserve from `Solvency`, the fee from its limit
(`FeeFits`), the floor from what the escrow receives even as fee recipient
(`SignerReceives`), the open vault from `ClosedStrandsNone`. Frozen or paused
mints are a matter of `MintPolicy`. `DueRequestsPaid` says it with `ENABLED`.

`WaitingIsSafe` composes three results (`QuoteSurvives`): a step of the pair is a
step of the vault (`QueueStepRefines`), which either keeps every position's quote or
is the operator reporting a loss (`QuoteKept`, `OnlyReportsMarkDown`), and a live
request's shares are a position, because the escrow holds them and they are part of
the supply (`RequestWithinSupply`) before and after the step.

`NoLossNoLess` carries this from the opening to the payout. Its hypothesis is a
temporal one, `[][~LossReported]_qvars`: in this behaviour the operator reports no
loss. Its invariant is `WorthAtLeast(k, e, q)`: the stamp `e` was given out, and while
`k` holds it the shares redeem for at least `q`. The second half alone is not
inductive: a new request under the same id would have to meet the old bound, unless
its stamp is a new one, which is what the first half says (`WorthKept`).

`InsistentOwnerGetsOut` and `ReleasedRequestEnds` are liveness. Weak fairness of
`k`'s cancellation is `[]<>~ENABLED <<A>>_v \/ []<><<A>>_v`; `CancelKeptUp(k)` is
that formula with `CanCancel` in the place of `ENABLED`, which `CanCancelDecides`
justifies. A live request can always be cancelled (`CancelStaysOpen`), so the
first disjunct, like the second, makes `k` not live again and again; with the
vault released nothing opens a request (`ReleasedOpensNothing`), so it stays so.

**Governance** (`GovernanceProofs`). The invariant `GInvariant` adds to `GTypeOK` that
a pending nomination of a live vault is its admin's own latest word
(`PendingIsAdminsWord`), that a namespace has a vault exactly while the vault is its
mint's authority (`MintFollowsVault`), and that a namespace that never had a vault
never had a nomination (`FreshIsUnclaimed`): an account that outlives the vault can
only be reached through an instruction that needs the vault, which is what
`RetiredStays` rests on.

**Events** (`QueueEventsProofs`). `EInv` relates the set of events to the request
accounts by stamps, on top of the queue's invariant: every event names a request
address and a stamp that was given out (`StampsTold`), an announced request has
ended or its address holds it on the terms told (`OpeningsTold`), an ended request
is not the one its address holds (`EndingsTold`), every live request was announced
(`LiveTold`), and a live request that was expedited is eligible already, so it is
expedited once (`MovesTold`). That a stamp names one request for good is what makes
a set of events enough. `ConfigTold` adds to it that only three queue handlers
write the configuration and each emits all of it. `PayoutsTold` follows the two
transfers of a finalization: the escrow's to the recipient and, inside the
redemption, the fee's, which may go to the same account.

**Mint policy** (`MintPolicyProofs`). `PInv`: the policy was checked at creation and
mints only lose authorities (`PolicyHeld`), the escrow of a supported share mint was
not frozen, nor its mint paused, even before the queue existed (`NeverStopped`), and
the escrow holds what is pending (`EscrowInFull`). From it `ReportsArrive`, and
`ExitNeverShut`, the guard of the cancellation for every admitted pair of mints with
any number of extensions.

**Calls** (`WireProofs`). `TablesAgree` compares the two interfaces row by row, 36
instructions: the same roles in the same order, no privilege demanded that the
client does not ask for and none asked for that neither the handler nor its inner
calls use, defaults only where one address is right, and at most the last account
optional. The rest is proved from what a row says (`RowAgrees`), for any number of
unset fields: what is on the wire is the client's list in its places
(`BuiltShape`), an account is taken as what was meant (`TakenAsMeant`; an extra
account in the place of an omitted optional one does not pass for it), and a
complete call is granted (`CompleteGranted`), admitted (`CompleteAdmitted`) and
finds the privileges of every inner call (`CompleteInvoked`). The invariant `WInv`
only carries these facts from the call to where it has got to.

**Account layouts** (`AccountDataProofs`). First the tables. `StartsAdd` and
`InOrder` are inductions over the fields of a layout, made from the least field
that breaks them (`Least`): a field ends before the next one starts, so distinct
fields share no byte (`Apart`), and layouts that begin alike place what they share
alike (`SameStarts`). Every release of `VaultState` is the base, the carved fields
and padding, and ends at byte 455 whatever was carved (`VaultStateEnds`); hence its
padding covers exactly the fields it does not know (`CarriesRelease`). With the
other types (`SingleLayout`) and the clients' copies (`ClientCopies`) this is
`LayoutsHold`: the six account types, five releases and seven client structs agree.

Then histories of any length, for any accounts and values: `DInv` says that an
account's data is its stored values, each in its field's place. A store keeps it
because loading and writing back moves each known field by its own offset and the
rest inside the padding (`FieldLoaded`, `PaddingLoaded`, `WrittenBack`), and every
reader finds the values (`ReadsStored`). `AdviceIsDecision` adds that the client's
helpers and the program's methods are the same functions of the fields
(`HelpersAgree`).

Only model-checked:

* `CancelAlwaysPossible`, `DueRequestsPaid` and `ExitStaysOpen`, which speak of
  `ENABLED`: out of the prover's reach. The theorems `CancelNeverRefused`,
  `PaymentNeverRefused` and `ExitNeverShut` state the guards instead.
* `ReleasedQueueDrains`. `ReleasedRequestEnds` proves it of each request; that all
  of finitely many requests then have ended at once is an induction over temporal
  formulas, which the provers cannot do.
* The three runs that refute a comment.

## Not modelled, and limits of the model

* One vault and one queue in `Vault` and `QueuedVault`. Several vaults share
  nothing but the program configuration, which is in `Governance`.
* The admin is one party in `Vault` and `QueuedVault`; that its key changes hands
  is in `Governance`, so a handover racing an expediting or a sweep is not.
* Error codes, logs, rent, deployment scripts and the tests, except for the one
  account list `Wire` takes from the harness.
* `Vault` and `QueuedVault` assume exact transfers and an escrow that cannot be
  frozen; `MintPolicy` shows that the policy guarantees both.
* Reports are bounded one by one. Nothing in the code bounds a sequence of them,
  so there is no property about one; what each may do to holders, and
  that nothing else may do it, is `HoldersPromise`.
* `withdrawal_fee`, `local_aum`, `deployed_aum` and the like are model-sized
  integers in the money modules and bytes in `AccountData`; the two views meet in
  the decisions of `ProgramAccounts`, which use `SharePricing`.
* `VaultReleased`, `EscrowSwept` and the vault's two gate events.
* An owner who hands the authority of the recipient's token account to a PDA
  after the request is left out, so the second recipient check in
  `finalize_withdrawal` never fails in the model. `Payable` asks for an acceptable
  recipient all the same.
* A holder with several token accounts is one balance; delegations other than a
  custody's to the vault are transfers by the owner.

## Plan

1. The admin's key as state in `QueuedVault`, so that expediting, sweeping and
   releasing race a handover.
2. Recipient accounts whose authority changes, for the second recipient check.
