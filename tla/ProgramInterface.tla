-------------------------- MODULE ProgramInterface --------------------------
(***************************************************************************)
(* What the two programs read from the wire and what they then do with it. *)
(* For every accounts struct X: its fields in declaration order, which is  *)
(* the order Anchor takes accounts in, with the flags it demands; the      *)
(* arguments of the entry point; the accounts the handler changes itself   *)
(* (data, or lamports when it closes an account); and the calls it makes   *)
(* to other programs, in order.                                            *)
(***************************************************************************)
EXTENDS Metas, Sequences

Ix(accounts, args, own, calls) ==
    [accounts |-> accounts, optional |-> {}, args |-> args, own |-> own, calls |-> calls]

\* An inner call: the roles it writes, the roles whose signature it needs, and
\* the program it goes to.
Call(writes, signs, via) == [writes |-> writes, signs |-> signs, via |-> via]

Transfer(from, to, authority) == Call({from, to}, {authority}, "token_program")
MintTo(mint, to, authority)   == Call({mint, to}, {authority}, "token_program")
Burn(mint, from, authority)   == Call({mint, from}, {authority}, "token_program")
CloseAccount(account, to, authority) == Call({account, to}, {authority}, "token_program")
SetAuthority(mint, authority) == Call({mint}, {authority}, "token_program")
Create(payer, account)        == Call({payer, account}, {payer}, "system_program")
CreateAta(payer, account)     == Call({payer, account}, {payer}, "associated_token_program")
EmitCpi                       == Call({}, {"event_authority"}, "program")

\* A call into the vault program: the accounts struct decides which of the
\* passed accounts must be writable and which must sign.
VaultCall(x, passed) ==
    LET fields == {x.accounts[i] : i \in DOMAIN x.accounts}
    IN  Call({passed[f.role] : f \in {g \in fields : g.writable}},
             {passed[f.role] : f \in {g \in fields : g.signer}}, "vault_program")

\* The PDAs each program can sign for.
Pdas == [AugustVault |-> {"vault_state"}, AugustQueue |-> {"queue", "event_authority"}]

\* Fields that hold a program, a sysvar or a registry entry (pinned by its type
\* and its seeds), and what they may hold.
TokenPrograms == {"Token", "Token2022"}
Fixed ==
    [token_program |-> TokenPrograms, system_program |-> {"System"}, rent |-> {"Rent"},
     token_metadata_program |-> {"TokenMetadata"},
     associated_token_program |-> {"AssociatedToken"},
     vault_program |-> {"AugustVault"}, program |-> {"AugustQueue"},
     subaccount |-> {"subaccount"}]

\* The metadata instructions take Program<Token> and Account<Mint>.
LegacyTokenOnly == {"CreateShareTokenMetadata", "UpdateShareTokenMetadata"}

-----------------------------------------------------------------------------
(* The vault program *)

InitializeConfig ==
    Ix(<<S("upgrade_authority"), R("program_data"), WS("payer"), W("program_config"),
         R("system_program")>>,
       <<Arg("authority", "Pubkey")>>, {"program_config"},
       <<Create("payer", "program_config")>>)

SetConfigAuthority ==
    Ix(<<W("program_config"), S("authority")>>, <<Arg("new_authority", "Pubkey")>>,
       {"program_config"}, <<>>)

OverrideConfigAuthority ==
    Ix(<<W("program_config"), S("upgrade_authority"), R("program_data")>>,
       <<Arg("new_authority", "Pubkey")>>, {"program_config"}, <<>>)

Initialize ==
    Ix(<<R("program_config"), S("signer"), WS("payer"), R("deposit_mint"), W("vault_state"),
         W("share_mint"), W("vault_token_ata"), R("system_program"), R("token_program"),
         R("rent")>>,
       <<Arg("admin", "Pubkey"), Arg("operator", "Pubkey"), Arg("fee_recipient", "Pubkey"),
         Arg("vault_version", "u8"), Arg("share_offset", "u64")>>, {"vault_state"},
       <<Create("payer", "vault_state"), Create("payer", "share_mint"),
         Create("payer", "vault_token_ata")>>)

Deposit ==
    Ix(<<W("vault_state"), W("vault_token_ata"), W("sender_token_account"),
         W("sender_share_account"), W("share_mint"), R("deposit_mint"), S("signer"),
         R("token_program")>>,
       <<Arg("amount", "u64")>>, {"vault_state"},
       <<Transfer("sender_token_account", "vault_token_ata", "signer"),
         MintTo("share_mint", "sender_share_account", "vault_state")>>)
DepositChecked ==
    [Deposit EXCEPT !.args = <<Arg("amount", "u64"), Arg("min_shares_out", "u64")>>]

RedeemReordered ==
    Ix(<<W("vault_state"), W("vault_deposit_ata"), W("fee_recipient_account"),
         W("sender_share_account"), W("sender_token_account"), W("share_mint"),
         R("deposit_mint"), S("signer"), R("token_program")>>,
       <<Arg("shares", "u64")>>, {"vault_state"},
       <<Burn("share_mint", "sender_share_account", "signer"),
         Transfer("vault_deposit_ata", "fee_recipient_account", "vault_state"),
         Transfer("vault_deposit_ata", "sender_token_account", "vault_state")>>)
Redeem ==
    Ix(<<W("vault_state"), W("vault_deposit_ata"), W("sender_token_account"),
         W("sender_share_account"), W("fee_recipient_account"), W("share_mint"),
         R("deposit_mint"), S("signer"), R("token_program")>>,
       <<Arg("shares", "u64")>>, {"vault_state"},
       <<Burn("share_mint", "sender_share_account", "signer"),
         Transfer("vault_deposit_ata", "fee_recipient_account", "vault_state"),
         Transfer("vault_deposit_ata", "sender_token_account", "vault_state")>>)
RedeemChecked ==
    [Redeem EXCEPT !.args = <<Arg("shares", "u64"), Arg("min_assets_out", "u64")>>]

\* The registry entry is optional and last.
EntryMidStruct ==
    [Ix(<<W("vault_state"), W("vault_deposit_ata"), W("operator_token_account"),
          W("subaccount"), R("deposit_mint"), S("operator"), R("token_program")>>,
        <<Arg("amount", "u64")>>, {"vault_state", "subaccount"},
        <<Transfer("vault_deposit_ata", "operator_token_account", "vault_state")>>)
     EXCEPT !.optional = {"subaccount"}]
OperatorWithdraw ==
    [Ix(<<W("vault_state"), W("vault_deposit_ata"), W("operator_token_account"),
          R("deposit_mint"), S("operator"), R("token_program"), W("subaccount")>>,
        <<Arg("amount", "u64")>>, {"vault_state", "subaccount"},
        <<Transfer("vault_deposit_ata", "operator_token_account", "vault_state")>>)
     EXCEPT !.optional = {"subaccount"}]

OperatorDeposit ==
    [Ix(<<W("vault_state"), W("vault_deposit_ata"), W("operator_token_account"),
          R("deposit_mint"), S("operator"), R("token_program"), W("subaccount")>>,
        <<Arg("amount", "u64")>>, {"vault_state", "subaccount"},
        <<Transfer("operator_token_account", "vault_deposit_ata", "vault_state")>>)
     EXCEPT !.optional = {"subaccount"}]

\* Without a registry entry the operator signs for its own tokens and the vault
\* PDA signs for nothing.
OperatorDepositUnregistered ==
    <<Transfer("operator_token_account", "vault_deposit_ata", "operator")>>

OperatorUpdateAum ==
    Ix(<<W("vault_state"), R("deposit_mint"), S("operator")>>, <<Arg("new_aum", "u64")>>,
       {"vault_state"}, <<>>)

RegisterSubaccount ==
    Ix(<<W("vault_state"), W("subaccount"), R("deposit_mint"), R("subaccount_ata"),
         R("token_program"), WS("admin"), R("system_program")>>,
       <<Arg("address", "Pubkey")>>, {"vault_state", "subaccount"},
       <<Create("admin", "subaccount")>>)

SettleSubaccountLoss ==
    Ix(<<W("vault_state"), W("subaccount"), R("deposit_mint"), R("subaccount_ata"),
         R("token_program"), S("admin")>>,
       <<Arg("amount", "u64")>>, {"vault_state", "subaccount"}, <<>>)

DeregisterSubaccount ==
    Ix(<<W("vault_state"), W("subaccount"), R("deposit_mint"), WS("admin")>>, <<>>,
       {"vault_state", "subaccount", "admin"}, <<>>)

\* Six instructions of the admin's share one shape.
ByAdmin(args) ==
    Ix(<<W("vault_state"), R("deposit_mint"), S("admin")>>, args, {"vault_state"}, <<>>)

SetWithdrawalFee == ByAdmin(<<Arg("new_fee", "u32")>>)
SetOperator      == ByAdmin(<<Arg("new_operator", "Pubkey")>>)
SetFeeRecipient  == ByAdmin(<<Arg("new_fee_recipient", "Pubkey")>>)
SetAumLimits     == ByAdmin(<<Arg("increase_limit", "u32"), Arg("decrease_limit", "u32")>>)
Pause            == ByAdmin(<<>>)
Unpause          == ByAdmin(<<>>)

AttachWithdrawalQueue ==
    Ix(<<W("vault_state"), R("deposit_mint"), S("admin"), R("queue")>>, <<>>,
       {"vault_state"}, <<>>)

DetachUnsigned ==
    Ix(<<W("vault_state"), R("deposit_mint"), S("admin"), R("queue")>>, <<>>,
       {"vault_state"}, <<>>)
DetachWithdrawalQueue ==
    Ix(<<W("vault_state"), R("deposit_mint"), S("admin"), S("queue")>>, <<>>,
       {"vault_state"}, <<>>)

NominateAdmin ==
    Ix(<<R("vault_state"), R("deposit_mint"), W("nominated_admin_pda"), S("admin"),
         WS("payer"), R("system_program")>>,
       <<Arg("new_admin", "Pubkey")>>, {"nominated_admin_pda"},
       <<Create("payer", "nominated_admin_pda")>>)

AcceptAdminNomination ==
    Ix(<<W("vault_state"), R("deposit_mint"), W("nominated_admin_pda"), S("new_admin"),
         W("receiver"), R("system_program")>>,
       <<>>, {"vault_state", "nominated_admin_pda", "receiver"}, <<>>)

CloseVault ==
    Ix(<<W("vault_state"), W("share_mint"), W("vault_token_ata"), R("deposit_mint"),
         WS("admin"), R("token_program")>>,
       <<>>, {"vault_state", "admin"},
       <<CloseAccount("vault_token_ata", "admin", "vault_state"),
         SetAuthority("share_mint", "vault_state")>>)

MetadataArgs == <<Arg("name", "String"), Arg("symbol", "String"), Arg("uri", "String")>>

CreateShareTokenMetadata ==
    Ix(<<WS("payer"), S("admin"), R("vault_state"), R("deposit_mint"), R("share_mint"),
         W("metadata_account"), R("token_program"), R("token_metadata_program"),
         R("system_program"), R("rent")>>,
       MetadataArgs, {},
       <<Call({"metadata_account", "payer"}, {"vault_state", "payer"},
              "token_metadata_program")>>)

UpdateShareTokenMetadata ==
    Ix(<<S("admin"), R("vault_state"), R("deposit_mint"), R("share_mint"),
         W("metadata_account"), R("token_program"), R("token_metadata_program")>>,
       MetadataArgs, {},
       <<Call({"metadata_account"}, {"vault_state"}, "token_metadata_program")>>)

-----------------------------------------------------------------------------
(* The queue program.  #[event_cpi] appends two fields to every struct. *)

WithEvents(x) ==
    [x EXCEPT !.accounts = @ \o <<R("event_authority"), R("program")>>,
              !.calls = Append(@, EmitCpi)]

InitializeQueue ==
    WithEvents(
      Ix(<<R("vault_state"), S("admin"), WS("payer"), R("deposit_mint"), R("share_mint"),
           W("queue"), W("escrow_shares"), W("escrow_assets"), R("token_program"),
           R("associated_token_program"), R("system_program")>>,
         <<Arg("cooldown_seconds", "u64")>>, {"queue"},
         <<Create("payer", "queue"), CreateAta("payer", "escrow_shares"),
           CreateAta("payer", "escrow_assets")>>))

QueueAdmin ==
    WithEvents(Ix(<<W("queue"), R("vault_state"), S("admin")>>, <<Arg("seconds", "u64")>>,
                  {"queue"}, <<>>))
SetCooldown == QueueAdmin
SetFulfillmentWindow == QueueAdmin

RequestWithdrawal ==
    WithEvents(
      Ix(<<W("queue"), R("vault_state"), WS("owner"), W("owner_share_account"),
           W("escrow_shares"), R("share_mint"), R("recipient_token_account"), W("request"),
           R("token_program"), R("system_program")>>,
         <<Arg("request_id", "u64"), Arg("shares", "u64"), Arg("min_assets_out", "u64"),
           Arg("finalizer", "Pubkey")>>,
         {"queue", "request"},
         <<Create("owner", "request"),
           Transfer("owner_share_account", "escrow_shares", "owner")>>))

FinalizeWithdrawal ==
    WithEvents(
      Ix(<<W("queue"), W("vault_state"), W("vault_deposit_ata"), W("fee_recipient_account"),
           W("escrow_shares"), W("escrow_assets"), W("share_mint"), R("deposit_mint"),
           S("finalizer"), W("request"), W("owner"), W("recipient_token_account"),
           R("vault_program"), R("token_program")>>,
         <<Arg("expected_sequence", "u64")>>, {"queue", "request", "owner"},
         <<VaultCall(Redeem,
             [vault_state |-> "vault_state", vault_deposit_ata |-> "vault_deposit_ata",
              sender_token_account |-> "escrow_assets",
              sender_share_account |-> "escrow_shares",
              fee_recipient_account |-> "fee_recipient_account",
              share_mint |-> "share_mint", deposit_mint |-> "deposit_mint",
              signer |-> "queue", token_program |-> "token_program"]),
           Transfer("escrow_assets", "recipient_token_account", "queue")>>))

CancelWithdrawal ==
    WithEvents(
      Ix(<<W("queue"), WS("owner"), W("request"), W("escrow_shares"), R("share_mint"),
           W("destination_share_account"), R("token_program")>>,
         <<Arg("expected_sequence", "u64")>>, {"queue", "request", "owner"},
         <<Transfer("escrow_shares", "destination_share_account", "queue")>>))

ReleaseVault ==
    WithEvents(
      Ix(<<R("queue"), W("vault_state"), R("deposit_mint"), S("admin"), R("vault_program")>>,
         <<>>, {},
         <<VaultCall(DetachWithdrawalQueue,
             [vault_state |-> "vault_state", deposit_mint |-> "deposit_mint",
              admin |-> "admin", queue |-> "queue"])>>))

SweepEscrowShares ==
    WithEvents(
      Ix(<<R("queue"), R("vault_state"), S("admin"), W("escrow_shares"), R("share_mint"),
           W("destination"), R("token_program")>>,
         <<>>, {}, <<Transfer("escrow_shares", "destination", "queue")>>))

ExpediteRequest ==
    WithEvents(Ix(<<R("queue"), R("vault_state"), S("authority"), W("request")>>,
                  <<Arg("expected_sequence", "u64")>>, {"request"}, <<>>))

-----------------------------------------------------------------------------
\* The instructions the two entry points dispatch.
VaultProgram ==
    [InitializeConfig |-> InitializeConfig, SetConfigAuthority |-> SetConfigAuthority,
     OverrideConfigAuthority |-> OverrideConfigAuthority, Initialize |-> Initialize,
     Deposit |-> Deposit, DepositChecked |-> DepositChecked, Redeem |-> Redeem,
     RedeemChecked |-> RedeemChecked, OperatorWithdraw |-> OperatorWithdraw,
     OperatorDeposit |-> OperatorDeposit, OperatorUpdateAum |-> OperatorUpdateAum,
     RegisterSubaccount |-> RegisterSubaccount,
     SettleSubaccountLoss |-> SettleSubaccountLoss,
     DeregisterSubaccount |-> DeregisterSubaccount,
     SetWithdrawalFee |-> SetWithdrawalFee, NominateAdmin |-> NominateAdmin,
     AcceptAdminNomination |-> AcceptAdminNomination, SetOperator |-> SetOperator,
     SetFeeRecipient |-> SetFeeRecipient, SetAumLimits |-> SetAumLimits,
     AttachWithdrawalQueue |-> AttachWithdrawalQueue,
     DetachWithdrawalQueue |-> DetachWithdrawalQueue, Pause |-> Pause,
     Unpause |-> Unpause, CloseVault |-> CloseVault,
     CreateShareTokenMetadata |-> CreateShareTokenMetadata,
     UpdateShareTokenMetadata |-> UpdateShareTokenMetadata]

QueueProgram ==
    [InitializeQueue |-> InitializeQueue, SetCooldown |-> SetCooldown,
     SetFulfillmentWindow |-> SetFulfillmentWindow,
     RequestWithdrawal |-> RequestWithdrawal,
     FinalizeWithdrawal |-> FinalizeWithdrawal, CancelWithdrawal |-> CancelWithdrawal,
     ReleaseVault |-> ReleaseVault, SweepEscrowShares |-> SweepEscrowShares,
     ExpediteRequest |-> ExpediteRequest]

Entrypoint == [AugustVault |-> VaultProgram, AugustQueue |-> QueueProgram]
=============================================================================
