--------------------------- MODULE ClientAccounts ---------------------------
(***************************************************************************)
(* The generated clients' copies of the account types, and the helpers the *)
(* vault's client adds by hand for off-chain callers.  The structs are in  *)
(* the order Borsh reads them, after the discriminator.                    *)
(***************************************************************************)
EXTENDS Metas, Naturals, Sequences

VaultState ==
    <<Field("operator", 32), Field("admin", 32), Field("share_mint", 32),
      Field("deposit_mint", 32), Field("fee_recipient", 32), Field("withdrawal_fee", 4),
      Field("local_aum", 8), Field("deployed_aum", 8), Field("aum_increase_limit", 4),
      Field("aum_decrease_limit", 4), Field("pda_bump", 1), Field("vault_version", 1),
      Field("paused", 1), Field("share_offset", 8), Field("withdrawal_queue_authority", 32),
      Field("subaccount_count", 8), Field("deployed_principal", 8), Field("padding", 200)>>

\* The queue's client carries a copy of its own.
QueueClientVaultState ==
    <<Field("operator", 32), Field("admin", 32), Field("share_mint", 32),
      Field("deposit_mint", 32), Field("fee_recipient", 32), Field("withdrawal_fee", 4),
      Field("local_aum", 8), Field("deployed_aum", 8), Field("aum_increase_limit", 4),
      Field("aum_decrease_limit", 4), Field("pda_bump", 1), Field("vault_version", 1),
      Field("paused", 1), Field("share_offset", 8), Field("withdrawal_queue_authority", 32),
      Field("subaccount_count", 8), Field("deployed_principal", 8), Field("padding", 200)>>

ProgramConfig == <<Field("authority", 32), Field("bump", 1), Field("padding", 128)>>

NominatedAdmin == <<Field("nominated_admin", 32), Field("valid_until", 8)>>

Subaccount ==
    <<Field("vault_state", 32), Field("address", 32), Field("principal", 8),
      Field("bump", 1), Field("padding", 64)>>

WithdrawalQueue ==
    <<Field("vault_state", 32), Field("deposit_mint", 32), Field("share_mint", 32),
      Field("escrow_shares", 32), Field("escrow_assets", 32), Field("cooldown_seconds", 8),
      Field("fulfillment_window_seconds", 8), Field("sequence", 8),
      Field("pending_requests", 8), Field("pending_shares", 8), Field("bump", 1),
      Field("padding", 160)>>

WithdrawalRequest ==
    <<Field("queue", 32), Field("owner", 32), Field("recipient_token_account", 32),
      Field("finalizer", 32), Field("shares", 8), Field("request_id", 8),
      Field("sequence", 8), Field("requested_at", 8), Field("scheduled_eligible_at", 8),
      Field("eligible_at", 8), Field("expires_at", 8), Field("bump", 1),
      Field("min_assets_out", 8), Field("padding", 64)>>

\* The structs each account type is read with.
Structs ==
    [VaultState |-> {VaultState, QueueClientVaultState}, ProgramConfig |-> {ProgramConfig},
     NominatedAdmin |-> {NominatedAdmin}, Subaccount |-> {Subaccount},
     WithdrawalQueue |-> {WithdrawalQueue}, WithdrawalRequest |-> {WithdrawalRequest}]

-----------------------------------------------------------------------------
(* Hand-written helpers of the vault's client *)

EXTRA_SHARES == 1000000
MIN_SUPPLY_MULTIPLE == 100

RawShareOffset(stored) == stored
resolved_share_offset(stored) == IF stored = 0 THEN EXTRA_SHARES ELSE stored
withdrawal_queue(stored) == IF stored # 0 THEN {stored} ELSE {}
requires_subaccount(count) == count > 0
min_first_deposit(decimals, stored) ==
    LET by_decimals == IF decimals <= 3 THEN 1 ELSE 10 ^ (decimals - 3)
        by_offset == MIN_SUPPLY_MULTIPLE * resolved_share_offset(stored)
    IN  IF by_decimals >= by_offset THEN by_decimals ELSE by_offset

\* What an off-chain caller concludes from a fetched vault.
Advice(stored, decimals) ==
    [offset |-> resolved_share_offset(stored["share_offset"]),
     queue |-> withdrawal_queue(stored["withdrawal_queue_authority"]),
     subaccount |-> requires_subaccount(stored["subaccount_count"]),
     first_deposit |-> min_first_deposit(decimals, stored["share_offset"])]
=============================================================================
