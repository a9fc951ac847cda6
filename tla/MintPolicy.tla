----------------------------- MODULE MintPolicy -----------------------------
(***************************************************************************)
(* Which mints a queue is created for, and what the escrow's promises rest *)
(* on.  A Token-2022 mint may carry extensions that let somebody else act  *)
(* on accounts of it; the policy is checked once, when the queue is        *)
(* created, and what it lets through has to be harmless for good.  The     *)
(* escrows are associated token accounts: anybody may have created them    *)
(* before, and the queue takes them as they are.                           *)
(*                                                                         *)
(* The vault creates its share mint plain.  The policy is there so that    *)
(* the queue need not know that, so the share mint is any mint here, with  *)
(* the authorities it was created with.                                    *)
(*                                                                         *)
(* The queue is modelled by its three movements of tokens; module          *)
(* QueuedVault has the rest of it.  The token programs are external.       *)
(***************************************************************************)
EXTENDS Naturals, FiniteSets

CONSTANTS
    MaxExtensions,   \* how many extensions a mint carries at most
    MaxShares,       \* shares outside the escrow at the start
    MaxPaid          \* bound on what is paid out

Extensions ==
    {"MetadataPointer", "TokenMetadata", "TransferFeeConfig", "TransferHook",
     "PermanentDelegate", "DefaultAccountState", "Pausable"}

ASSUME MintPolicyAssumption ==
    MaxExtensions \in Nat /\ MaxShares \in Nat /\ MaxPaid \in Nat

\* Mint accounts: the program that owns them, whether they name a freeze
\* authority, and their extensions (a classic mint has none).
Mints ==
    [program : {"Token"}, freezable : BOOLEAN, extensions : {{}}] \cup
    [program : {"Token2022"}, freezable : BOOLEAN,
     extensions : {x \in SUBSET Extensions : Cardinality(x) <= MaxExtensions}]

VARIABLES
    deposit_mint, share_mint,
    escrows_exist, queue_created,
    share_escrow, pending_shares, held,     \* escrow_shares, what it owes, the rest
    shares_frozen, assets_frozen,           \* state of the two escrow accounts
    shares_paused, assets_paused,           \* the Pausable extension's switch
    fee_rate,                               \* of a deposit mint with a transfer fee
    reported, received                      \* assets in events, and at recipients

pvars == <<deposit_mint, share_mint, escrows_exist, queue_created, share_escrow,
           pending_shares, held, shares_frozen, assets_frozen, shares_paused,
           assets_paused, fee_rate, reported, received>>

PInit ==
    /\ deposit_mint \in Mints /\ share_mint \in Mints
    /\ escrows_exist = FALSE /\ queue_created = FALSE
    /\ share_escrow = 0 /\ pending_shares = 0 /\ held = MaxShares
    /\ shares_frozen = FALSE /\ assets_frozen = FALSE
    /\ shares_paused = FALSE /\ assets_paused = FALSE
    /\ fee_rate = 0
    /\ reported = 0 /\ received = 0

-----------------------------------------------------------------------------
(* The policy *)

KnownBadOnly(mint) ==
    mint.extensions \cap {"TransferFeeConfig", "TransferHook", "PermanentDelegate"} = {}
only_metadata_extensions(mint) ==
    \/ mint.program = "Token"
    \/ mint.extensions \subseteq {"MetadataPointer", "TokenMetadata"}

FeesAllowed(mint) ==
    mint.extensions \subseteq {"MetadataPointer", "TokenMetadata", "TransferFeeConfig"}
require_supported_deposit_mint(mint) == only_metadata_extensions(mint)

require_supported_share_mint(mint) == ~mint.freezable /\ only_metadata_extensions(mint)

-----------------------------------------------------------------------------
(* The token programs *)

\* A transfer of a hooked mint fails: the instructions carry no hook accounts.
Transferable(mint, frozen, paused) ==
    "TransferHook" \notin mint.extensions /\ ~frozen /\ ~paused

Withheld(mint, n) ==
    IF "TransferFeeConfig" \in mint.extensions /\ fee_rate > 0 /\ n > 0 THEN 1 ELSE 0

\* Accounts of a mint with a frozen default state are created frozen.
BornFrozen ==
    /\ shares_frozen' = ("DefaultAccountState" \in share_mint.extensions)
    /\ assets_frozen' = ("DefaultAccountState" \in deposit_mint.extensions)

\* Anybody creates the queue's associated token accounts.
CreateEscrows ==
    /\ ~escrows_exist
    /\ escrows_exist' = TRUE
    /\ BornFrozen
    /\ UNCHANGED <<deposit_mint, share_mint, queue_created, share_escrow, pending_shares,
                   held, shares_paused, assets_paused, fee_rate, reported, received>>

-----------------------------------------------------------------------------
(* The queue *)

InitializeQueue ==
    /\ ~queue_created
    /\ require_supported_deposit_mint(deposit_mint)
    /\ require_supported_share_mint(share_mint)
    /\ queue_created' = TRUE
    /\ escrows_exist' = TRUE
    /\ IF escrows_exist THEN UNCHANGED <<shares_frozen, assets_frozen>> ELSE BornFrozen
    /\ UNCHANGED <<deposit_mint, share_mint, share_escrow, pending_shares, held,
                   shares_paused, assets_paused, fee_rate, reported, received>>

ShareTransfers == queue_created /\ Transferable(share_mint, shares_frozen, shares_paused)
AssetTransfers == Transferable(deposit_mint, assets_frozen, assets_paused)

RequestWithdrawal(x) ==
    /\ ShareTransfers
    /\ x <= held
    /\ held' = held - x
    /\ share_escrow' = share_escrow + (x - Withheld(share_mint, x))
    /\ pending_shares' = pending_shares + x
    /\ UNCHANGED <<deposit_mint, share_mint, escrows_exist, queue_created, shares_frozen,
                   assets_frozen, shares_paused, assets_paused, fee_rate, reported,
                   received>>

CancelWithdrawal(x) ==
    /\ ShareTransfers
    /\ x <= pending_shares /\ x <= share_escrow
    /\ share_escrow' = share_escrow - x
    /\ pending_shares' = pending_shares - x
    /\ held' = held + x
    /\ UNCHANGED <<deposit_mint, share_mint, escrows_exist, queue_created, shares_frozen,
                   assets_frozen, shares_paused, assets_paused, fee_rate, reported,
                   received>>

\* The vault burns the shares (a frozen or paused account cannot burn), pays
\* the escrow, and the escrow passes on what it received.
FinalizeWithdrawal(x) ==
    LET assets == x - Withheld(deposit_mint, x)
    IN  /\ queue_created /\ ~shares_frozen /\ ~shares_paused /\ AssetTransfers
        /\ x <= pending_shares /\ x <= share_escrow
        /\ reported + x <= MaxPaid
        /\ share_escrow' = share_escrow - x
        /\ pending_shares' = pending_shares - x
        /\ reported' = reported + assets
        /\ received' = received + (assets - Withheld(deposit_mint, assets))
        /\ UNCHANGED <<deposit_mint, share_mint, escrows_exist, queue_created, held,
                       shares_frozen, assets_frozen, shares_paused, assets_paused, fee_rate>>

-----------------------------------------------------------------------------
(* Holders of a mint's authorities *)

FreezeAccounts ==
    /\ escrows_exist
    /\ \/ /\ share_mint.freezable /\ shares_frozen' \in BOOLEAN
          /\ UNCHANGED assets_frozen
       \/ /\ deposit_mint.freezable /\ assets_frozen' \in BOOLEAN
          /\ UNCHANGED shares_frozen

PauseMint ==
    \/ /\ "Pausable" \in share_mint.extensions /\ shares_paused' \in BOOLEAN
       /\ UNCHANGED assets_paused
    \/ /\ "Pausable" \in deposit_mint.extensions /\ assets_paused' \in BOOLEAN
       /\ UNCHANGED shares_paused

\* The delegate moves or burns anybody's shares.
Seize ==
    /\ "PermanentDelegate" \in share_mint.extensions
    /\ share_escrow' \in 0 .. share_escrow /\ held' \in 0 .. held

AuthorityStep ==
    /\ \/ /\ FreezeAccounts
          /\ UNCHANGED <<shares_paused, assets_paused, fee_rate, share_escrow, held>>
       \/ /\ PauseMint
          /\ UNCHANGED <<shares_frozen, assets_frozen, fee_rate, share_escrow, held>>
       \/ /\ fee_rate' \in {0, 1}
          /\ UNCHANGED <<shares_frozen, assets_frozen, shares_paused, assets_paused,
                         share_escrow, held>>
       \/ /\ Seize
          /\ UNCHANGED <<shares_frozen, assets_frozen, shares_paused, assets_paused,
                         fee_rate>>
    /\ UNCHANGED <<deposit_mint, share_mint, escrows_exist, queue_created, pending_shares,
                   reported, received>>

PNext ==
    \/ CreateEscrows
    \/ InitializeQueue
    \/ \E x \in 1 .. MaxShares :
           RequestWithdrawal(x) \/ CancelWithdrawal(x) \/ FinalizeWithdrawal(x)
    \/ AuthorityStep

PSpec == PInit /\ [][PNext]_pvars

-----------------------------------------------------------------------------
(* Properties *)

\* cancel_withdrawal is an exit in every state: whatever the holders of the
\* mints' authorities do, everything that is pending can be taken back.
ExitStaysOpen ==
    queue_created /\ pending_shares > 0 => ENABLED CancelWithdrawal(pending_shares)

\* The recipient gets what the event says was paid, on every hop.
RecipientsGetTheReport == received = reported
=============================================================================
