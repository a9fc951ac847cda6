--------------------------- MODULE ClientInterface ---------------------------
(***************************************************************************)
(* What the generated Rust clients put on the wire.  For every instruction *)
(* X of the two programs:                                                  *)
(*                                                                         *)
(*   X         the accounts in the order they are pushed, with the flags   *)
(*             of their AccountMeta, and the arguments in the order they   *)
(*             are serialised;                                             *)
(*   XBuilder  the fields the builder panics without, and the ones it      *)
(*             fills in.  Whatever is in neither is optional: left unset,  *)
(*             its place is taken by the program's own id.                 *)
(*                                                                         *)
(* The CPI structs of the same files push the same accounts with the same  *)
(* flags; their builders fill nothing in (module Wire).                    *)
(***************************************************************************)
EXTENDS Metas

-----------------------------------------------------------------------------
(* The vault program's client *)

AcceptAdminNomination ==
    [accounts |-> <<W("vault_state"), R("deposit_mint"), W("nominated_admin_pda"),
                    S("new_admin"), W("receiver"), R("system_program")>>,
     args |-> <<>>]
AcceptAdminNominationBuilder ==
    [expects |-> {"vault_state", "deposit_mint", "nominated_admin_pda", "new_admin",
                  "receiver"},
     defaults |-> [system_program |-> "System"]]

AttachWithdrawalQueue ==
    [accounts |-> <<W("vault_state"), R("deposit_mint"), S("admin"), R("queue")>>,
     args |-> <<>>]
AttachWithdrawalQueueBuilder ==
    [expects |-> {"vault_state", "deposit_mint", "admin", "queue"},
     defaults |-> NoDefaults]

CloseVault ==
    [accounts |-> <<W("vault_state"), W("share_mint"), W("vault_token_ata"),
                    R("deposit_mint"), WS("admin"), R("token_program")>>,
     args |-> <<>>]
CloseVaultBuilder ==
    [expects |-> {"vault_state", "share_mint", "vault_token_ata", "deposit_mint",
                  "admin"},
     defaults |-> [token_program |-> "Token"]]

CreateShareTokenMetadata ==
    [accounts |-> <<WS("payer"), S("admin"), R("vault_state"), R("deposit_mint"),
                    R("share_mint"), W("metadata_account"), R("token_program"),
                    R("token_metadata_program"), R("system_program"), R("rent")>>,
     args |-> <<Arg("name", "String"), Arg("symbol", "String"), Arg("uri", "String")>>]
CreateShareTokenMetadataBuilder ==
    [expects |-> {"payer", "admin", "vault_state", "deposit_mint", "share_mint",
                  "metadata_account", "name", "symbol", "uri"},
     defaults |-> [token_program |-> "Token", system_program |-> "System",
                   rent |-> "Rent", token_metadata_program |-> "TokenMetadata"]]

DepositLocksMint ==
    [accounts |-> <<W("vault_state"), W("vault_token_ata"), W("sender_token_account"),
                    W("sender_share_account"), W("share_mint"), W("deposit_mint"),
                    S("signer"), R("token_program")>>,
     args |-> <<Arg("amount", "u64")>>]
Deposit ==
    [accounts |-> <<W("vault_state"), W("vault_token_ata"), W("sender_token_account"),
                    W("sender_share_account"), W("share_mint"), R("deposit_mint"),
                    S("signer"), R("token_program")>>,
     args |-> <<Arg("amount", "u64")>>]
DepositBuilder ==
    [expects |-> {"vault_state", "vault_token_ata", "sender_token_account",
                  "sender_share_account", "share_mint", "deposit_mint", "signer",
                  "amount"},
     defaults |-> [token_program |-> "Token"]]

DepositChecked ==
    [accounts |-> <<W("vault_state"), W("vault_token_ata"), W("sender_token_account"),
                    W("sender_share_account"), W("share_mint"), R("deposit_mint"),
                    S("signer"), R("token_program")>>,
     args |-> <<Arg("amount", "u64"), Arg("min_shares_out", "u64")>>]
DepositCheckedBuilder ==
    [expects |-> {"vault_state", "vault_token_ata", "sender_token_account",
                  "sender_share_account", "share_mint", "deposit_mint", "signer",
                  "amount", "min_shares_out"},
     defaults |-> [token_program |-> "Token"]]

DeregisterSubaccount ==
    [accounts |-> <<W("vault_state"), W("subaccount"), R("deposit_mint"), WS("admin")>>,
     args |-> <<>>]
DeregisterSubaccountBuilder ==
    [expects |-> {"vault_state", "subaccount", "deposit_mint", "admin"},
     defaults |-> NoDefaults]

DetachWithdrawalQueue ==
    [accounts |-> <<W("vault_state"), R("deposit_mint"), S("admin"), S("queue")>>,
     args |-> <<>>]
DetachWithdrawalQueueBuilder ==
    [expects |-> {"vault_state", "deposit_mint", "admin", "queue"},
     defaults |-> NoDefaults]

Initialize ==
    [accounts |-> <<R("program_config"), S("signer"), WS("payer"), R("deposit_mint"),
                    W("vault_state"), W("share_mint"), W("vault_token_ata"),
                    R("system_program"), R("token_program"), R("rent")>>,
     args |-> <<Arg("admin", "Pubkey"), Arg("operator", "Pubkey"),
                Arg("fee_recipient", "Pubkey"), Arg("vault_version", "u8"),
                Arg("share_offset", "u64")>>]
InitializeBuilder ==
    [expects |-> {"program_config", "signer", "payer", "deposit_mint", "vault_state",
                  "share_mint", "vault_token_ata", "admin", "operator", "fee_recipient",
                  "vault_version", "share_offset"},
     defaults |-> [system_program |-> "System", token_program |-> "Token",
                   rent |-> "Rent"]]

InitializeConfig ==
    [accounts |-> <<S("upgrade_authority"), R("program_data"), WS("payer"),
                    W("program_config"), R("system_program")>>,
     args |-> <<Arg("authority", "Pubkey")>>]
InitializeConfigBuilder ==
    [expects |-> {"upgrade_authority", "program_data", "payer", "program_config",
                  "authority"},
     defaults |-> [system_program |-> "System"]]

NominateAdmin ==
    [accounts |-> <<R("vault_state"), R("deposit_mint"), W("nominated_admin_pda"),
                    S("admin"), WS("payer"), R("system_program")>>,
     args |-> <<Arg("new_admin", "Pubkey")>>]
NominateAdminBuilder ==
    [expects |-> {"vault_state", "deposit_mint", "nominated_admin_pda", "admin", "payer",
                  "new_admin"},
     defaults |-> [system_program |-> "System"]]

OperatorDeposit ==
    [accounts |-> <<W("vault_state"), W("vault_deposit_ata"), W("operator_token_account"),
                    R("deposit_mint"), S("operator"), R("token_program"),
                    W("subaccount")>>,
     args |-> <<Arg("amount", "u64")>>]
OperatorDepositBuilder ==
    [expects |-> {"vault_state", "vault_deposit_ata", "operator_token_account",
                  "deposit_mint", "operator", "amount"},
     defaults |-> [token_program |-> "Token"]]

OperatorUpdateAum ==
    [accounts |-> <<W("vault_state"), R("deposit_mint"), S("operator")>>,
     args |-> <<Arg("new_aum", "u64")>>]
OperatorUpdateAumBuilder ==
    [expects |-> {"vault_state", "deposit_mint", "operator", "new_aum"},
     defaults |-> NoDefaults]

OperatorWithdraw ==
    [accounts |-> <<W("vault_state"), W("vault_deposit_ata"), W("operator_token_account"),
                    R("deposit_mint"), S("operator"), R("token_program"),
                    W("subaccount")>>,
     args |-> <<Arg("amount", "u64")>>]
OperatorWithdrawBuilder ==
    [expects |-> {"vault_state", "vault_deposit_ata", "operator_token_account",
                  "deposit_mint", "operator", "amount"},
     defaults |-> [token_program |-> "Token"]]

OverrideConfigAuthority ==
    [accounts |-> <<W("program_config"), S("upgrade_authority"), R("program_data")>>,
     args |-> <<Arg("new_authority", "Pubkey")>>]
OverrideConfigAuthorityBuilder ==
    [expects |-> {"program_config", "upgrade_authority", "program_data", "new_authority"},
     defaults |-> NoDefaults]

Pause ==
    [accounts |-> <<W("vault_state"), R("deposit_mint"), S("admin")>>,
     args |-> <<>>]
PauseBuilder ==
    [expects |-> {"vault_state", "deposit_mint", "admin"},
     defaults |-> NoDefaults]

Redeem ==
    [accounts |-> <<W("vault_state"), W("vault_deposit_ata"), W("sender_token_account"),
                    W("sender_share_account"), W("fee_recipient_account"),
                    W("share_mint"), R("deposit_mint"), S("signer"), R("token_program")>>,
     args |-> <<Arg("shares", "u64")>>]
RedeemBuilder ==
    [expects |-> {"vault_state", "vault_deposit_ata", "sender_token_account",
                  "sender_share_account", "fee_recipient_account", "share_mint",
                  "deposit_mint", "signer", "shares"},
     defaults |-> [token_program |-> "Token"]]

RedeemChecked ==
    [accounts |-> <<W("vault_state"), W("vault_deposit_ata"), W("sender_token_account"),
                    W("sender_share_account"), W("fee_recipient_account"),
                    W("share_mint"), R("deposit_mint"), S("signer"), R("token_program")>>,
     args |-> <<Arg("shares", "u64"), Arg("min_assets_out", "u64")>>]
RedeemCheckedBuilder ==
    [expects |-> {"vault_state", "vault_deposit_ata", "sender_token_account",
                  "sender_share_account", "fee_recipient_account", "share_mint",
                  "deposit_mint", "signer", "shares", "min_assets_out"},
     defaults |-> [token_program |-> "Token"]]

RegisterSubaccount ==
    [accounts |-> <<W("vault_state"), W("subaccount"), R("deposit_mint"),
                    R("subaccount_ata"), R("token_program"), WS("admin"),
                    R("system_program")>>,
     args |-> <<Arg("address", "Pubkey")>>]
RegisterSubaccountBuilder ==
    [expects |-> {"vault_state", "subaccount", "deposit_mint", "subaccount_ata", "admin",
                  "address"},
     defaults |-> [token_program |-> "Token", system_program |-> "System"]]

SetAumLimits ==
    [accounts |-> <<W("vault_state"), R("deposit_mint"), S("admin")>>,
     args |-> <<Arg("increase_limit", "u32"), Arg("decrease_limit", "u32")>>]
SetAumLimitsBuilder ==
    [expects |-> {"vault_state", "deposit_mint", "admin", "increase_limit",
                  "decrease_limit"},
     defaults |-> NoDefaults]

SetConfigAuthority ==
    [accounts |-> <<W("program_config"), S("authority")>>,
     args |-> <<Arg("new_authority", "Pubkey")>>]
SetConfigAuthorityBuilder ==
    [expects |-> {"program_config", "authority", "new_authority"},
     defaults |-> NoDefaults]

SetFeeRecipient ==
    [accounts |-> <<W("vault_state"), R("deposit_mint"), S("admin")>>,
     args |-> <<Arg("new_fee_recipient", "Pubkey")>>]
SetFeeRecipientBuilder ==
    [expects |-> {"vault_state", "deposit_mint", "admin", "new_fee_recipient"},
     defaults |-> NoDefaults]

SetOperator ==
    [accounts |-> <<W("vault_state"), R("deposit_mint"), S("admin")>>,
     args |-> <<Arg("new_operator", "Pubkey")>>]
SetOperatorBuilder ==
    [expects |-> {"vault_state", "deposit_mint", "admin", "new_operator"},
     defaults |-> NoDefaults]

SetWithdrawalFee ==
    [accounts |-> <<W("vault_state"), R("deposit_mint"), S("admin")>>,
     args |-> <<Arg("new_fee", "u32")>>]
SetWithdrawalFeeBuilder ==
    [expects |-> {"vault_state", "deposit_mint", "admin", "new_fee"},
     defaults |-> NoDefaults]

SettleSubaccountLoss ==
    [accounts |-> <<W("vault_state"), W("subaccount"), R("deposit_mint"),
                    R("subaccount_ata"), R("token_program"), S("admin")>>,
     args |-> <<Arg("amount", "u64")>>]
SettleSubaccountLossBuilder ==
    [expects |-> {"vault_state", "subaccount", "deposit_mint", "subaccount_ata", "admin",
                  "amount"},
     defaults |-> [token_program |-> "Token"]]

Unpause ==
    [accounts |-> <<W("vault_state"), R("deposit_mint"), S("admin")>>,
     args |-> <<>>]
UnpauseBuilder ==
    [expects |-> {"vault_state", "deposit_mint", "admin"},
     defaults |-> NoDefaults]

UpdateShareTokenMetadata ==
    [accounts |-> <<S("admin"), R("vault_state"), R("deposit_mint"), R("share_mint"),
                    W("metadata_account"), R("token_program"),
                    R("token_metadata_program")>>,
     args |-> <<Arg("name", "String"), Arg("symbol", "String"), Arg("uri", "String")>>]
UpdateShareTokenMetadataBuilder ==
    [expects |-> {"admin", "vault_state", "deposit_mint", "share_mint",
                  "metadata_account", "name", "symbol", "uri"},
     defaults |-> [token_program |-> "Token",
                   token_metadata_program |-> "TokenMetadata"]]

-----------------------------------------------------------------------------
(* The queue program's client *)

CancelWithdrawal ==
    [accounts |-> <<W("queue"), WS("owner"), W("request"), W("escrow_shares"),
                    R("share_mint"), W("destination_share_account"), R("token_program"),
                    R("event_authority"), R("program")>>,
     args |-> <<Arg("expected_sequence", "u64")>>]
CancelWithdrawalBuilder ==
    [expects |-> {"queue", "owner", "request", "escrow_shares", "share_mint",
                  "destination_share_account", "event_authority", "program",
                  "expected_sequence"},
     defaults |-> [token_program |-> "Token"]]

ExpediteRequest ==
    [accounts |-> <<R("queue"), R("vault_state"), S("authority"), W("request"),
                    R("event_authority"), R("program")>>,
     args |-> <<Arg("expected_sequence", "u64")>>]
ExpediteRequestBuilder ==
    [expects |-> {"queue", "vault_state", "authority", "request", "event_authority",
                  "program", "expected_sequence"},
     defaults |-> NoDefaults]

FinalizeWithdrawal ==
    [accounts |-> <<W("queue"), W("vault_state"), W("vault_deposit_ata"),
                    W("fee_recipient_account"), W("escrow_shares"), W("escrow_assets"),
                    W("share_mint"), R("deposit_mint"), S("finalizer"), W("request"),
                    W("owner"), W("recipient_token_account"), R("vault_program"),
                    R("token_program"), R("event_authority"), R("program")>>,
     args |-> <<Arg("expected_sequence", "u64")>>]
FinalizeWithdrawalBuilder ==
    [expects |-> {"queue", "vault_state", "vault_deposit_ata", "fee_recipient_account",
                  "escrow_shares", "escrow_assets", "share_mint", "deposit_mint",
                  "finalizer", "request", "owner", "recipient_token_account",
                  "event_authority", "program", "expected_sequence"},
     defaults |-> [vault_program |-> "AugustVault", token_program |-> "Token"]]

InitializeQueue ==
    [accounts |-> <<R("vault_state"), S("admin"), WS("payer"), R("deposit_mint"),
                    R("share_mint"), W("queue"), W("escrow_shares"), W("escrow_assets"),
                    R("token_program"), R("associated_token_program"),
                    R("system_program"), R("event_authority"), R("program")>>,
     args |-> <<Arg("cooldown_seconds", "u64")>>]
InitializeQueueBuilder ==
    [expects |-> {"vault_state", "admin", "payer", "deposit_mint", "share_mint", "queue",
                  "escrow_shares", "escrow_assets", "event_authority", "program",
                  "cooldown_seconds"},
     defaults |-> [token_program |-> "Token", system_program |-> "System",
                   associated_token_program |-> "AssociatedToken"]]

ReleaseVault ==
    [accounts |-> <<R("queue"), W("vault_state"), R("deposit_mint"), S("admin"),
                    R("vault_program"), R("event_authority"), R("program")>>,
     args |-> <<>>]
ReleaseVaultBuilder ==
    [expects |-> {"queue", "vault_state", "deposit_mint", "admin", "event_authority",
                  "program"},
     defaults |-> [vault_program |-> "AugustVault"]]

RequestWithdrawal ==
    [accounts |-> <<W("queue"), R("vault_state"), WS("owner"), W("owner_share_account"),
                    W("escrow_shares"), R("share_mint"), R("recipient_token_account"),
                    W("request"), R("token_program"), R("system_program"),
                    R("event_authority"), R("program")>>,
     args |-> <<Arg("request_id", "u64"), Arg("shares", "u64"),
                Arg("min_assets_out", "u64"), Arg("finalizer", "Pubkey")>>]
RequestWithdrawalBuilder ==
    [expects |-> {"queue", "vault_state", "owner", "owner_share_account", "escrow_shares",
                  "share_mint", "recipient_token_account", "request", "event_authority",
                  "program", "request_id", "shares", "min_assets_out", "finalizer"},
     defaults |-> [token_program |-> "Token", system_program |-> "System"]]

SetCooldown ==
    [accounts |-> <<W("queue"), R("vault_state"), S("admin"), R("event_authority"),
                    R("program")>>,
     args |-> <<Arg("seconds", "u64")>>]
SetCooldownBuilder ==
    [expects |-> {"queue", "vault_state", "admin", "event_authority", "program",
                  "seconds"},
     defaults |-> NoDefaults]

SetFulfillmentWindow ==
    [accounts |-> <<W("queue"), R("vault_state"), S("admin"), R("event_authority"),
                    R("program")>>,
     args |-> <<Arg("seconds", "u64")>>]
SetFulfillmentWindowBuilder ==
    [expects |-> {"queue", "vault_state", "admin", "event_authority", "program",
                  "seconds"},
     defaults |-> NoDefaults]

SweepEscrowShares ==
    [accounts |-> <<R("queue"), R("vault_state"), S("admin"), W("escrow_shares"),
                    R("share_mint"), W("destination"), R("token_program"),
                    R("event_authority"), R("program")>>,
     args |-> <<>>]
SweepEscrowSharesBuilder ==
    [expects |-> {"queue", "vault_state", "admin", "escrow_shares", "share_mint",
                  "destination", "event_authority", "program"},
     defaults |-> [token_program |-> "Token"]]

-----------------------------------------------------------------------------
\* Every instruction by name, with the program it addresses.
Instructions ==
    [AcceptAdminNomination |-> To("AugustVault", AcceptAdminNomination, AcceptAdminNominationBuilder),
     AttachWithdrawalQueue |-> To("AugustVault", AttachWithdrawalQueue, AttachWithdrawalQueueBuilder),
     CloseVault |-> To("AugustVault", CloseVault, CloseVaultBuilder),
     CreateShareTokenMetadata |-> To("AugustVault", CreateShareTokenMetadata, CreateShareTokenMetadataBuilder),
     Deposit |-> To("AugustVault", Deposit, DepositBuilder),
     DepositChecked |-> To("AugustVault", DepositChecked, DepositCheckedBuilder),
     DeregisterSubaccount |-> To("AugustVault", DeregisterSubaccount, DeregisterSubaccountBuilder),
     DetachWithdrawalQueue |-> To("AugustVault", DetachWithdrawalQueue, DetachWithdrawalQueueBuilder),
     Initialize |-> To("AugustVault", Initialize, InitializeBuilder),
     InitializeConfig |-> To("AugustVault", InitializeConfig, InitializeConfigBuilder),
     NominateAdmin |-> To("AugustVault", NominateAdmin, NominateAdminBuilder),
     OperatorDeposit |-> To("AugustVault", OperatorDeposit, OperatorDepositBuilder),
     OperatorUpdateAum |-> To("AugustVault", OperatorUpdateAum, OperatorUpdateAumBuilder),
     OperatorWithdraw |-> To("AugustVault", OperatorWithdraw, OperatorWithdrawBuilder),
     OverrideConfigAuthority |-> To("AugustVault", OverrideConfigAuthority, OverrideConfigAuthorityBuilder),
     Pause |-> To("AugustVault", Pause, PauseBuilder),
     Redeem |-> To("AugustVault", Redeem, RedeemBuilder),
     RedeemChecked |-> To("AugustVault", RedeemChecked, RedeemCheckedBuilder),
     RegisterSubaccount |-> To("AugustVault", RegisterSubaccount, RegisterSubaccountBuilder),
     SetAumLimits |-> To("AugustVault", SetAumLimits, SetAumLimitsBuilder),
     SetConfigAuthority |-> To("AugustVault", SetConfigAuthority, SetConfigAuthorityBuilder),
     SetFeeRecipient |-> To("AugustVault", SetFeeRecipient, SetFeeRecipientBuilder),
     SetOperator |-> To("AugustVault", SetOperator, SetOperatorBuilder),
     SetWithdrawalFee |-> To("AugustVault", SetWithdrawalFee, SetWithdrawalFeeBuilder),
     SettleSubaccountLoss |-> To("AugustVault", SettleSubaccountLoss, SettleSubaccountLossBuilder),
     Unpause |-> To("AugustVault", Unpause, UnpauseBuilder),
     UpdateShareTokenMetadata |-> To("AugustVault", UpdateShareTokenMetadata, UpdateShareTokenMetadataBuilder),
     CancelWithdrawal |-> To("AugustQueue", CancelWithdrawal, CancelWithdrawalBuilder),
     ExpediteRequest |-> To("AugustQueue", ExpediteRequest, ExpediteRequestBuilder),
     FinalizeWithdrawal |-> To("AugustQueue", FinalizeWithdrawal, FinalizeWithdrawalBuilder),
     InitializeQueue |-> To("AugustQueue", InitializeQueue, InitializeQueueBuilder),
     ReleaseVault |-> To("AugustQueue", ReleaseVault, ReleaseVaultBuilder),
     RequestWithdrawal |-> To("AugustQueue", RequestWithdrawal, RequestWithdrawalBuilder),
     SetCooldown |-> To("AugustQueue", SetCooldown, SetCooldownBuilder),
     SetFulfillmentWindow |-> To("AugustQueue", SetFulfillmentWindow, SetFulfillmentWindowBuilder),
     SweepEscrowShares |-> To("AugustQueue", SweepEscrowShares, SweepEscrowSharesBuilder)]
=============================================================================
