-------------------------- MODULE ProgramAccounts --------------------------
(***************************************************************************)
(* How the two programs lay out the accounts they own: for every account   *)
(* type its fields in declaration order with their widths, the fields its  *)
(* creation stores, and the decisions VaultState's methods make from what  *)
(* is stored.  Eight bytes of discriminator come first in every account.   *)
(***************************************************************************)
EXTENDS Metas, Naturals, Sequences, SharePricing

Key(n) == Field(n, 32)
U64(n) == Field(n, 8)
U32(n) == Field(n, 4)
U8(n)  == Field(n, 1)
Words(k) == Field("padding", 8 * k)

\* The fields of the first release, and the ones later releases carved out of
\* its padding, each declared immediately before what was left of it.
VaultStateBase ==
    <<Key("operator"), Key("admin"), Key("share_mint"), Key("deposit_mint"),
      Key("fee_recipient"), U32("withdrawal_fee"), U64("local_aum"), U64("deployed_aum"),
      U32("aum_increase_limit"), U32("aum_decrease_limit"), U8("pda_bump"),
      U8("vault_version"), U8("paused")>>

Carved == <<U64("share_offset"), Key("withdrawal_queue_authority"),
            U64("subaccount_count"), U64("deployed_principal")>>

PaddingWords == <<32, 31, 27, 26, 25>>

\* VaultState as release r (r fields carved) has it; the code is release 4.
VaultState(r) == VaultStateBase \o SubSeq(Carved, 1, r) \o <<Words(PaddingWords[r + 1])>>

ProgramConfig == <<Key("authority"), U8("bump"), Words(16)>>

NominatedAdmin == <<Key("nominated_admin"), U64("valid_until")>>

Subaccount == <<Key("vault_state"), Key("address"), U64("principal"), U8("bump"), Words(8)>>

WithdrawalQueue ==
    <<Key("vault_state"), Key("deposit_mint"), Key("share_mint"), Key("escrow_shares"),
      Key("escrow_assets"), U64("cooldown_seconds"), U64("fulfillment_window_seconds"),
      U64("sequence"), U64("pending_requests"), U64("pending_shares"), U8("bump"), Words(20)>>

WithdrawalRequest ==
    <<Key("queue"), Key("owner"), Key("recipient_token_account"), Key("finalizer"),
      U64("shares"), U64("request_id"), U64("sequence"), U64("requested_at"),
      U64("scheduled_eligible_at"), U64("eligible_at"), U64("expires_at"), U8("bump"),
      U64("min_assets_out"), Words(8)>>

\* The account types; only VaultState has accounts older than the code.
Layout(kind, r) ==
    CASE kind = "VaultState" -> VaultState(r)
      [] kind = "ProgramConfig" -> ProgramConfig
      [] kind = "NominatedAdmin" -> NominatedAdmin
      [] kind = "Subaccount" -> Subaccount
      [] kind = "WithdrawalQueue" -> WithdrawalQueue
      [] kind = "WithdrawalRequest" -> WithdrawalRequest

\* The size Anchor's init allocates.
LEN == [VaultState |-> 455, ProgramConfig |-> 169, NominatedAdmin |-> 48,
        Subaccount |-> 145, WithdrawalQueue |-> 369, WithdrawalRequest |-> 265]

\* The fields that creation gives a value other than zero.
Stored ==
    [VaultState |-> {"operator", "admin", "share_mint", "deposit_mint", "fee_recipient",
                     "aum_increase_limit", "aum_decrease_limit", "pda_bump",
                     "vault_version", "share_offset"},
     ProgramConfig |-> {"authority", "bump"},
     NominatedAdmin |-> {"nominated_admin", "valid_until"},
     Subaccount |-> {"vault_state", "address", "principal", "bump"},
     WithdrawalQueue |-> {"vault_state", "deposit_mint", "share_mint", "escrow_shares",
                          "escrow_assets", "cooldown_seconds", "bump"},
     WithdrawalRequest |-> {"queue", "owner", "recipient_token_account", "finalizer",
                            "shares", "request_id", "sequence", "requested_at",
                            "scheduled_eligible_at", "eligible_at", "expires_at", "bump",
                            "min_assets_out"}]

-----------------------------------------------------------------------------
(* Decisions from stored numbers and keys *)

EXTRA_SHARES == 1000000
MIN_SUPPLY_MULTIPLE == 100

share_offset(stored) == IF stored = 0 THEN EXTRA_SHARES ELSE stored
withdrawal_queue(stored) == IF stored # 0 THEN {stored} ELSE {}
requires_subaccount(count) == count > 0
min_first_deposit(decimals, stored) ==
    MinFirstDeposit(IF decimals <= 3 THEN 1 ELSE 10 ^ (decimals - 3),
                    MIN_SUPPLY_MULTIPLE, share_offset(stored))

\* Everything the program decides from a vault's carved fields.
Decisions(stored, decimals) ==
    [offset |-> share_offset(stored["share_offset"]),
     queue |-> withdrawal_queue(stored["withdrawal_queue_authority"]),
     subaccount |-> requires_subaccount(stored["subaccount_count"]),
     first_deposit |-> min_first_deposit(decimals, stored["share_offset"])]
=============================================================================
