----------------------------- MODULE WireProofs -----------------------------
(***************************************************************************)
(* The two interfaces agree: proved row by row for all 36 instructions.    *)
(* From that, for every call whatever it leaves unset: what a caller means *)
(* is what the program binds, a complete call is served to its last inner  *)
(* call, nothing is locked without need, and only the queue's program      *)
(* detaches a vault.                                                       *)
(***************************************************************************)
EXTENDS Wire, TLAPS

-----------------------------------------------------------------------------
(* One row: what a client builds (m, a), how its builder is filled, and the *)
(* program's accounts, arguments and calls (t)                              *)

\* The same roles in the same order, each once, and every privilege the program
\* demands is asked for.
SameAccounts(m, f) ==
    /\ Len(m) \in Nat /\ DOMAIN m = 1..Len(m) /\ DOMAIN f = DOMAIN m /\ Len(f) = Len(m)
    /\ \A i \in DOMAIN m :
           /\ m[i].role = f[i].role
           /\ f[i].signer => m[i].signer
           /\ f[i].writable => m[i].writable
    /\ \A i, j \in DOMAIN m : m[i].role = m[j].role => i = j

SameArgs(a, b) ==
    /\ Len(a) = Len(b) /\ DOMAIN a = DOMAIN b
    /\ \A i \in DOMAIN a : a[i].name = b[i].name /\ a[i].type = b[i].type

\* Whatever the builder neither expects nor fills in is optional for the
\* program as well: at most the registry entry, and only as the last account.
LastIsOptional(m, a, builder, optional) ==
    /\ builder.expects \subseteq MetaRoles(m) \cup ArgNames(a)
    /\ builder.expects \cap DOMAIN builder.defaults = {}
    /\ optional \subseteq MetaRoles(m) \cap {"subaccount"}
    /\ \A i \in DOMAIN m :
           /\ m[i].role \in optional => i = Len(m)
           /\ m[i].role \in optional <=> m[i].role \notin builder.expects \cup DOMAIN builder.defaults
    /\ \A i \in DOMAIN a : a[i].name \in builder.expects

GoodDefaults(builder) ==
    \A r \in DOMAIN builder.defaults : r \in DOMAIN P!Fixed /\ builder.defaults[r] \in P!Fixed[r]

\* Words that stand for something other than an account's own address.
Reserved == {"unset", "None", "none", "extra", "AugustVault", "AugustQueue"}

\* Signers are wallets, or the queue PDA.
PlainSigners(m) ==
    \A i \in DOMAIN m :
        /\ m[i].role \notin Reserved
        /\ m[i].signer => /\ m[i].role \notin DOMAIN P!Fixed
                          /\ m[i].role \in PdaRoles => m[i].role = "queue"

Passed(m, optional, r, flag) ==
    \E i \in DOMAIN m : m[i].role = r /\ m[i][flag] /\ r \notin optional

\* Inner calls find in the client's list the privileges they need.
GoodCalls(m, optional, program, calls) ==
    \A n \in DOMAIN calls :
        /\ calls[n].via \in MetaRoles(m)
        /\ \A r \in calls[n].writes : Passed(m, optional, r, "writable")
        /\ \A r \in calls[n].signs : r \in P!Pdas[program] \/ Passed(m, optional, r, "signer")

OwnWrites(m, own) == \A r \in own : Passed(m, {}, r, "writable")

\* Nothing else is asked to be writable.
NeededLocks(m, own, calls) ==
    \A i \in DOMAIN m : m[i].writable =>
        m[i].role \in own \cup UNION {calls[n].writes : n \in DOMAIN calls}

RowAgrees(program, x, builder, t) ==
    /\ program \in DOMAIN P!Pdas
    /\ SameAccounts(x.accounts, t.accounts) /\ SameArgs(x.args, t.args)
    /\ LastIsOptional(x.accounts, x.args, builder, t.optional)
    /\ GoodDefaults(builder) /\ PlainSigners(x.accounts)
    /\ GoodCalls(x.accounts, t.optional, program, t.calls)
    /\ OwnWrites(x.accounts, t.own) /\ NeededLocks(x.accounts, t.own, t.calls)

\* Client and program agree on an instruction.
Agrees(ix) == RowAgrees(ProgramOf(ix), C!Instructions[ix].built, Builder(ix), Target(ix))

-----------------------------------------------------------------------------
(* The 36 rows *)

LEMMA TablesAgree == \A ix \in Ixs : Agrees(ix)
<1> USE DEF Agrees, ProgramOf, Builder, Target, C!Instructions, C!To, P!Entrypoint,
            P!VaultProgram, P!QueueProgram, C!R, C!W, C!S, C!WS, C!Meta, C!Arg, C!NoDefaults,
            P!R, P!W, P!S, P!WS, P!Meta, P!Arg, P!Ix, P!WithEvents, P!Call, P!Transfer,
            P!MintTo, P!Burn, P!CloseAccount, P!SetAuthority, P!Create, P!CreateAta, P!EmitCpi
<1>1. Agrees("FinalizeWithdrawal")
  <2>1. /\ SameAccounts(C!FinalizeWithdrawal.accounts, P!FinalizeWithdrawal.accounts)
        /\ SameArgs(C!FinalizeWithdrawal.args, P!FinalizeWithdrawal.args)
    BY SMTT(120) DEF SameAccounts, SameArgs, C!FinalizeWithdrawal,
           C!FinalizeWithdrawalBuilder, P!FinalizeWithdrawal, P!Redeem
  <2>2. LastIsOptional(C!FinalizeWithdrawal.accounts, C!FinalizeWithdrawal.args,
                       C!FinalizeWithdrawalBuilder,
                       P!FinalizeWithdrawal.optional)
    BY SMTT(120) DEF LastIsOptional, MetaRoles, ArgNames, C!FinalizeWithdrawal,
           C!FinalizeWithdrawalBuilder, P!FinalizeWithdrawal, P!Redeem
  <2>3. /\ GoodDefaults(C!FinalizeWithdrawalBuilder)
        /\ PlainSigners(C!FinalizeWithdrawal.accounts)
    BY SMTT(120) DEF GoodDefaults, PlainSigners, Reserved, PdaRoles, P!Fixed,
           P!TokenPrograms, C!FinalizeWithdrawal, C!FinalizeWithdrawalBuilder,
           P!FinalizeWithdrawal, P!Redeem
  <2>4. GoodCalls(C!FinalizeWithdrawal.accounts, P!FinalizeWithdrawal.optional, "AugustQueue",
                  P!FinalizeWithdrawal.calls)
    <3> DEFINE f == P!Redeem.accounts
               passed == [vault_state |-> "vault_state", vault_deposit_ata |-> "vault_deposit_ata",
                          sender_token_account |-> "escrow_assets",
                          sender_share_account |-> "escrow_shares",
                          fee_recipient_account |-> "fee_recipient_account",
                          share_mint |-> "share_mint", deposit_mint |-> "deposit_mint",
                          signer |-> "queue", token_program |-> "token_program"]
               redeem == P!VaultCall(P!Redeem, passed)
               pay == P!Transfer("escrow_assets", "recipient_token_account", "queue")
               written == {"vault_state", "vault_deposit_ata", "escrow_assets", "escrow_shares",
                           "fee_recipient_account", "share_mint"}
    <3>1. /\ P!FinalizeWithdrawal.calls = Append(<<redeem, pay>>, P!EmitCpi)
          /\ P!FinalizeWithdrawal.optional = {}
      <4> HIDE DEF P!Transfer, P!EmitCpi
      <4> QED BY DEF P!FinalizeWithdrawal
    <3>2. redeem.via = "vault_program"
      BY DEF P!VaultCall
    <3>3. \A r \in redeem.signs : r = "queue"
      BY DEF P!Redeem, P!VaultCall
    <3>4. \A r \in redeem.writes : r \in written
      <4>1. \A i \in DOMAIN f : f[i].writable => passed[f[i].role] \in written
        BY DEF P!Redeem
      <4>2. ASSUME NEW r \in redeem.writes
            PROVE  \E i \in DOMAIN f : f[i].writable /\ r = passed[f[i].role]
        <5> HIDE DEF passed
        <5> QED BY DEF P!VaultCall
      <4> HIDE DEF f, redeem, passed, written
      <4> QED BY <4>1, <4>2
    <3>5. /\ {"vault_program", "token_program", "program"} \subseteq
                 MetaRoles(C!FinalizeWithdrawal.accounts)
          /\ \A r \in written \cup {"recipient_token_account"} :
                 Passed(C!FinalizeWithdrawal.accounts, {}, r, "writable")
      BY DEF Passed, MetaRoles, C!FinalizeWithdrawal
    <3>6. /\ pay.via = "token_program" /\ pay.signs = {"queue"}
          /\ \A r \in pay.writes : r \in written \cup {"recipient_token_account"}
      OBVIOUS
    <3>7. /\ P!EmitCpi.via = "program"
          /\ P!EmitCpi.signs = {"event_authority"} /\ P!EmitCpi.writes = {}
      OBVIOUS
    <3> HIDE DEF redeem, pay, written, P!EmitCpi
    <3> QED BY <3>1, <3>2, <3>3, <3>4, <3>5, <3>6, <3>7 DEF GoodCalls, P!Pdas
  <2>5. OwnWrites(C!FinalizeWithdrawal.accounts, P!FinalizeWithdrawal.own)
    BY SMTT(120) DEF OwnWrites, Passed, C!FinalizeWithdrawal,
           C!FinalizeWithdrawalBuilder, P!FinalizeWithdrawal, P!Redeem
  <2>6. NeededLocks(C!FinalizeWithdrawal.accounts, P!FinalizeWithdrawal.own,
                    P!FinalizeWithdrawal.calls)
    BY SMTT(120) DEF NeededLocks, C!FinalizeWithdrawal, C!FinalizeWithdrawalBuilder,
           P!FinalizeWithdrawal, P!Redeem, P!VaultCall
  <2> QED BY <2>1, <2>2, <2>3, <2>4, <2>5, <2>6 DEF RowAgrees, P!Pdas
<1>2. Agrees("InitializeQueue")
  <2>1. /\ SameAccounts(C!InitializeQueue.accounts, P!InitializeQueue.accounts)
        /\ SameArgs(C!InitializeQueue.args, P!InitializeQueue.args)
    BY SMTT(120) DEF SameAccounts, SameArgs, C!InitializeQueue,
           C!InitializeQueueBuilder, P!InitializeQueue
  <2>2. LastIsOptional(C!InitializeQueue.accounts, C!InitializeQueue.args,
                       C!InitializeQueueBuilder,
                       P!InitializeQueue.optional)
    BY SMTT(120) DEF LastIsOptional, MetaRoles, ArgNames, C!InitializeQueue,
           C!InitializeQueueBuilder, P!InitializeQueue
  <2>3. /\ GoodDefaults(C!InitializeQueueBuilder)
        /\ PlainSigners(C!InitializeQueue.accounts)
    BY SMTT(120) DEF GoodDefaults, PlainSigners, Reserved, PdaRoles, P!Fixed,
           P!TokenPrograms, C!InitializeQueue, C!InitializeQueueBuilder,
           P!InitializeQueue
  <2>4. GoodCalls(C!InitializeQueue.accounts, P!InitializeQueue.optional, "AugustQueue",
                  P!InitializeQueue.calls)
    BY SMTT(120) DEF GoodCalls, Passed, MetaRoles, P!Pdas, C!InitializeQueue,
           C!InitializeQueueBuilder, P!InitializeQueue
  <2>5. OwnWrites(C!InitializeQueue.accounts, P!InitializeQueue.own)
    BY SMTT(120) DEF OwnWrites, Passed, C!InitializeQueue, C!InitializeQueueBuilder,
           P!InitializeQueue
  <2>6. NeededLocks(C!InitializeQueue.accounts, P!InitializeQueue.own,
                    P!InitializeQueue.calls)
    BY SMTT(120) DEF NeededLocks, C!InitializeQueue, C!InitializeQueueBuilder,
           P!InitializeQueue
  <2> QED BY <2>1, <2>2, <2>3, <2>4, <2>5, <2>6 DEF RowAgrees, P!Pdas
<1>3. Agrees("ReleaseVault")
  <2>1. /\ SameAccounts(C!ReleaseVault.accounts, P!ReleaseVault.accounts)
        /\ SameArgs(C!ReleaseVault.args, P!ReleaseVault.args)
    BY SMTT(120) DEF SameAccounts, SameArgs, C!ReleaseVault, C!ReleaseVaultBuilder,
           P!ReleaseVault, P!DetachWithdrawalQueue
  <2>2. LastIsOptional(C!ReleaseVault.accounts, C!ReleaseVault.args,
                       C!ReleaseVaultBuilder,
                       P!ReleaseVault.optional)
    BY SMTT(120) DEF LastIsOptional, MetaRoles, ArgNames, C!ReleaseVault,
           C!ReleaseVaultBuilder, P!ReleaseVault, P!DetachWithdrawalQueue
  <2>3. GoodDefaults(C!ReleaseVaultBuilder) /\ PlainSigners(C!ReleaseVault.accounts)
    BY SMTT(120) DEF GoodDefaults, PlainSigners, Reserved, PdaRoles, P!Fixed,
           P!TokenPrograms, C!ReleaseVault, C!ReleaseVaultBuilder, P!ReleaseVault,
           P!DetachWithdrawalQueue
  <2>4. GoodCalls(C!ReleaseVault.accounts, P!ReleaseVault.optional, "AugustQueue",
                  P!ReleaseVault.calls)
    BY SMTT(120) DEF GoodCalls, Passed, MetaRoles, P!Pdas, C!ReleaseVault,
           C!ReleaseVaultBuilder, P!ReleaseVault, P!DetachWithdrawalQueue, P!VaultCall
  <2>5. OwnWrites(C!ReleaseVault.accounts, P!ReleaseVault.own)
    BY SMTT(120) DEF OwnWrites, Passed, C!ReleaseVault, C!ReleaseVaultBuilder,
           P!ReleaseVault, P!DetachWithdrawalQueue
  <2>6. NeededLocks(C!ReleaseVault.accounts, P!ReleaseVault.own, P!ReleaseVault.calls)
    BY SMTT(120) DEF NeededLocks, C!ReleaseVault, C!ReleaseVaultBuilder, P!ReleaseVault,
           P!DetachWithdrawalQueue, P!VaultCall
  <2> QED BY <2>1, <2>2, <2>3, <2>4, <2>5, <2>6 DEF RowAgrees, P!Pdas
<1>4. Agrees("RequestWithdrawal")
  <2>1. /\ SameAccounts(C!RequestWithdrawal.accounts, P!RequestWithdrawal.accounts)
        /\ SameArgs(C!RequestWithdrawal.args, P!RequestWithdrawal.args)
    BY SMTT(120) DEF SameAccounts, SameArgs, C!RequestWithdrawal,
           C!RequestWithdrawalBuilder, P!RequestWithdrawal
  <2>2. LastIsOptional(C!RequestWithdrawal.accounts, C!RequestWithdrawal.args,
                       C!RequestWithdrawalBuilder,
                       P!RequestWithdrawal.optional)
    BY SMTT(120) DEF LastIsOptional, MetaRoles, ArgNames, C!RequestWithdrawal,
           C!RequestWithdrawalBuilder, P!RequestWithdrawal
  <2>3. /\ GoodDefaults(C!RequestWithdrawalBuilder)
        /\ PlainSigners(C!RequestWithdrawal.accounts)
    BY SMTT(120) DEF GoodDefaults, PlainSigners, Reserved, PdaRoles, P!Fixed,
           P!TokenPrograms, C!RequestWithdrawal, C!RequestWithdrawalBuilder,
           P!RequestWithdrawal
  <2>4. GoodCalls(C!RequestWithdrawal.accounts, P!RequestWithdrawal.optional,
                  "AugustQueue", P!RequestWithdrawal.calls)
    BY SMTT(120) DEF GoodCalls, Passed, MetaRoles, P!Pdas, C!RequestWithdrawal,
           C!RequestWithdrawalBuilder, P!RequestWithdrawal
  <2>5. OwnWrites(C!RequestWithdrawal.accounts, P!RequestWithdrawal.own)
    BY SMTT(120) DEF OwnWrites, Passed, C!RequestWithdrawal, C!RequestWithdrawalBuilder,
           P!RequestWithdrawal
  <2>6. NeededLocks(C!RequestWithdrawal.accounts, P!RequestWithdrawal.own,
                    P!RequestWithdrawal.calls)
    BY SMTT(120) DEF NeededLocks, C!RequestWithdrawal, C!RequestWithdrawalBuilder,
           P!RequestWithdrawal
  <2> QED BY <2>1, <2>2, <2>3, <2>4, <2>5, <2>6 DEF RowAgrees, P!Pdas
<1> USE DEF SameAccounts, SameArgs, LastIsOptional, GoodDefaults, PlainSigners, GoodCalls,
            OwnWrites, NeededLocks, Passed, Reserved, MetaRoles, ArgNames, PdaRoles,
            P!Fixed, P!TokenPrograms, P!Pdas
<1>5. Agrees("AcceptAdminNomination")
  <2>1. RowAgrees("AugustVault", C!AcceptAdminNomination,
         C!AcceptAdminNominationBuilder, P!AcceptAdminNomination)
    BY SMTT(120) DEF RowAgrees, C!AcceptAdminNomination, C!AcceptAdminNominationBuilder,
           P!AcceptAdminNomination
  <2> QED BY <2>1
<1>6. Agrees("AttachWithdrawalQueue")
  <2>1. RowAgrees("AugustVault", C!AttachWithdrawalQueue,
         C!AttachWithdrawalQueueBuilder, P!AttachWithdrawalQueue)
    BY SMTT(120) DEF RowAgrees, C!AttachWithdrawalQueue, C!AttachWithdrawalQueueBuilder,
           P!AttachWithdrawalQueue
  <2> QED BY <2>1
<1>7. Agrees("CloseVault")
  <2>1. RowAgrees("AugustVault", C!CloseVault, C!CloseVaultBuilder, P!CloseVault)
    BY SMTT(120) DEF RowAgrees, C!CloseVault, C!CloseVaultBuilder, P!CloseVault
  <2> QED BY <2>1
<1>8. Agrees("CreateShareTokenMetadata")
  <2>1. RowAgrees("AugustVault", C!CreateShareTokenMetadata,
         C!CreateShareTokenMetadataBuilder, P!CreateShareTokenMetadata)
    BY SMTT(120) DEF RowAgrees, C!CreateShareTokenMetadata,
           C!CreateShareTokenMetadataBuilder, P!CreateShareTokenMetadata, P!MetadataArgs
  <2> QED BY <2>1
<1>9. Agrees("Deposit")
  <2>1. RowAgrees("AugustVault", C!Deposit, C!DepositBuilder, P!Deposit)
    BY SMTT(120) DEF RowAgrees, C!Deposit, C!DepositBuilder, P!Deposit
  <2> QED BY <2>1
<1>10. Agrees("DepositChecked")
  <2>1. RowAgrees("AugustVault", C!DepositChecked, C!DepositCheckedBuilder,
         P!DepositChecked)
    BY SMTT(120) DEF RowAgrees, C!DepositChecked, C!DepositCheckedBuilder,
           P!DepositChecked, P!Deposit
  <2> QED BY <2>1
<1>11. Agrees("DeregisterSubaccount")
  <2>1. RowAgrees("AugustVault", C!DeregisterSubaccount, C!DeregisterSubaccountBuilder,
         P!DeregisterSubaccount)
    BY SMTT(120) DEF RowAgrees, C!DeregisterSubaccount, C!DeregisterSubaccountBuilder,
           P!DeregisterSubaccount
  <2> QED BY <2>1
<1>12. Agrees("DetachWithdrawalQueue")
  <2>1. RowAgrees("AugustVault", C!DetachWithdrawalQueue,
         C!DetachWithdrawalQueueBuilder, P!DetachWithdrawalQueue)
    BY SMTT(120) DEF RowAgrees, C!DetachWithdrawalQueue, C!DetachWithdrawalQueueBuilder,
           P!DetachWithdrawalQueue
  <2> QED BY <2>1
<1>13. Agrees("Initialize")
  <2>1. RowAgrees("AugustVault", C!Initialize, C!InitializeBuilder, P!Initialize)
    BY SMTT(120) DEF RowAgrees, C!Initialize, C!InitializeBuilder, P!Initialize
  <2> QED BY <2>1
<1>14. Agrees("InitializeConfig")
  <2>1. RowAgrees("AugustVault", C!InitializeConfig, C!InitializeConfigBuilder,
         P!InitializeConfig)
    BY SMTT(120) DEF RowAgrees, C!InitializeConfig, C!InitializeConfigBuilder,
           P!InitializeConfig
  <2> QED BY <2>1
<1>15. Agrees("NominateAdmin")
  <2>1. RowAgrees("AugustVault", C!NominateAdmin, C!NominateAdminBuilder,
         P!NominateAdmin)
    BY SMTT(120) DEF RowAgrees, C!NominateAdmin, C!NominateAdminBuilder, P!NominateAdmin
  <2> QED BY <2>1
<1>16. Agrees("OperatorDeposit")
  <2>1. RowAgrees("AugustVault", C!OperatorDeposit, C!OperatorDepositBuilder,
         P!OperatorDeposit)
    BY SMTT(120) DEF RowAgrees, C!OperatorDeposit, C!OperatorDepositBuilder,
           P!OperatorDeposit
  <2> QED BY <2>1
<1>17. Agrees("OperatorUpdateAum")
  <2>1. RowAgrees("AugustVault", C!OperatorUpdateAum, C!OperatorUpdateAumBuilder,
         P!OperatorUpdateAum)
    BY SMTT(120) DEF RowAgrees, C!OperatorUpdateAum, C!OperatorUpdateAumBuilder,
           P!OperatorUpdateAum
  <2> QED BY <2>1
<1>18. Agrees("OperatorWithdraw")
  <2>1. RowAgrees("AugustVault", C!OperatorWithdraw, C!OperatorWithdrawBuilder,
         P!OperatorWithdraw)
    BY SMTT(120) DEF RowAgrees, C!OperatorWithdraw, C!OperatorWithdrawBuilder,
           P!OperatorWithdraw
  <2> QED BY <2>1
<1>19. Agrees("OverrideConfigAuthority")
  <2>1. RowAgrees("AugustVault", C!OverrideConfigAuthority,
         C!OverrideConfigAuthorityBuilder, P!OverrideConfigAuthority)
    BY SMTT(120) DEF RowAgrees, C!OverrideConfigAuthority,
           C!OverrideConfigAuthorityBuilder, P!OverrideConfigAuthority
  <2> QED BY <2>1
<1>20. Agrees("Pause")
  <2>1. RowAgrees("AugustVault", C!Pause, C!PauseBuilder, P!Pause)
    BY SMTT(120) DEF RowAgrees, C!Pause, C!PauseBuilder, P!Pause, P!ByAdmin
  <2> QED BY <2>1
<1>21. Agrees("Redeem")
  <2>1. RowAgrees("AugustVault", C!Redeem, C!RedeemBuilder, P!Redeem)
    BY SMTT(120) DEF RowAgrees, C!Redeem, C!RedeemBuilder, P!Redeem
  <2> QED BY <2>1
<1>22. Agrees("RedeemChecked")
  <2>1. RowAgrees("AugustVault", C!RedeemChecked, C!RedeemCheckedBuilder,
         P!RedeemChecked)
    BY SMTT(120) DEF RowAgrees, C!RedeemChecked, C!RedeemCheckedBuilder,
           P!RedeemChecked, P!Redeem
  <2> QED BY <2>1
<1>23. Agrees("RegisterSubaccount")
  <2>1. RowAgrees("AugustVault", C!RegisterSubaccount, C!RegisterSubaccountBuilder,
         P!RegisterSubaccount)
    BY SMTT(120) DEF RowAgrees, C!RegisterSubaccount, C!RegisterSubaccountBuilder,
           P!RegisterSubaccount
  <2> QED BY <2>1
<1>24. Agrees("SetAumLimits")
  <2>1. RowAgrees("AugustVault", C!SetAumLimits, C!SetAumLimitsBuilder, P!SetAumLimits)
    BY SMTT(120) DEF RowAgrees, C!SetAumLimits, C!SetAumLimitsBuilder, P!SetAumLimits,
           P!ByAdmin
  <2> QED BY <2>1
<1>25. Agrees("SetConfigAuthority")
  <2>1. RowAgrees("AugustVault", C!SetConfigAuthority, C!SetConfigAuthorityBuilder,
         P!SetConfigAuthority)
    BY SMTT(120) DEF RowAgrees, C!SetConfigAuthority, C!SetConfigAuthorityBuilder,
           P!SetConfigAuthority
  <2> QED BY <2>1
<1>26. Agrees("SetFeeRecipient")
  <2>1. RowAgrees("AugustVault", C!SetFeeRecipient, C!SetFeeRecipientBuilder,
         P!SetFeeRecipient)
    BY SMTT(120) DEF RowAgrees, C!SetFeeRecipient, C!SetFeeRecipientBuilder,
           P!SetFeeRecipient, P!ByAdmin
  <2> QED BY <2>1
<1>27. Agrees("SetOperator")
  <2>1. RowAgrees("AugustVault", C!SetOperator, C!SetOperatorBuilder, P!SetOperator)
    BY SMTT(120) DEF RowAgrees, C!SetOperator, C!SetOperatorBuilder, P!SetOperator,
           P!ByAdmin
  <2> QED BY <2>1
<1>28. Agrees("SetWithdrawalFee")
  <2>1. RowAgrees("AugustVault", C!SetWithdrawalFee, C!SetWithdrawalFeeBuilder,
         P!SetWithdrawalFee)
    BY SMTT(120) DEF RowAgrees, C!SetWithdrawalFee, C!SetWithdrawalFeeBuilder,
           P!SetWithdrawalFee, P!ByAdmin
  <2> QED BY <2>1
<1>29. Agrees("SettleSubaccountLoss")
  <2>1. RowAgrees("AugustVault", C!SettleSubaccountLoss, C!SettleSubaccountLossBuilder,
         P!SettleSubaccountLoss)
    BY SMTT(120) DEF RowAgrees, C!SettleSubaccountLoss, C!SettleSubaccountLossBuilder,
           P!SettleSubaccountLoss
  <2> QED BY <2>1
<1>30. Agrees("Unpause")
  <2>1. RowAgrees("AugustVault", C!Unpause, C!UnpauseBuilder, P!Unpause)
    BY SMTT(120) DEF RowAgrees, C!Unpause, C!UnpauseBuilder, P!Unpause, P!ByAdmin
  <2> QED BY <2>1
<1>31. Agrees("UpdateShareTokenMetadata")
  <2>1. RowAgrees("AugustVault", C!UpdateShareTokenMetadata,
         C!UpdateShareTokenMetadataBuilder, P!UpdateShareTokenMetadata)
    BY SMTT(120) DEF RowAgrees, C!UpdateShareTokenMetadata,
           C!UpdateShareTokenMetadataBuilder, P!UpdateShareTokenMetadata, P!MetadataArgs
  <2> QED BY <2>1
<1>32. Agrees("CancelWithdrawal")
  <2>1. RowAgrees("AugustQueue", C!CancelWithdrawal, C!CancelWithdrawalBuilder,
         P!CancelWithdrawal)
    BY SMTT(120) DEF RowAgrees, C!CancelWithdrawal, C!CancelWithdrawalBuilder,
           P!CancelWithdrawal
  <2> QED BY <2>1
<1>33. Agrees("ExpediteRequest")
  <2>1. RowAgrees("AugustQueue", C!ExpediteRequest, C!ExpediteRequestBuilder,
         P!ExpediteRequest)
    BY SMTT(120) DEF RowAgrees, C!ExpediteRequest, C!ExpediteRequestBuilder,
           P!ExpediteRequest
  <2> QED BY <2>1
<1>34. Agrees("SetCooldown")
  <2>1. RowAgrees("AugustQueue", C!SetCooldown, C!SetCooldownBuilder, P!SetCooldown)
    BY SMTT(120) DEF RowAgrees, C!SetCooldown, C!SetCooldownBuilder, P!SetCooldown,
           P!QueueAdmin
  <2> QED BY <2>1
<1>35. Agrees("SetFulfillmentWindow")
  <2>1. RowAgrees("AugustQueue", C!SetFulfillmentWindow, C!SetFulfillmentWindowBuilder,
         P!SetFulfillmentWindow)
    BY SMTT(120) DEF RowAgrees, C!SetFulfillmentWindow, C!SetFulfillmentWindowBuilder,
           P!SetFulfillmentWindow, P!QueueAdmin
  <2> QED BY <2>1
<1>36. Agrees("SweepEscrowShares")
  <2>1. RowAgrees("AugustQueue", C!SweepEscrowShares, C!SweepEscrowSharesBuilder,
         P!SweepEscrowShares)
    BY SMTT(120) DEF RowAgrees, C!SweepEscrowShares, C!SweepEscrowSharesBuilder,
           P!SweepEscrowShares
  <2> QED BY <2>1
<1> HIDE DEF Agrees
<1> QED BY <1>1, <1>2, <1>3, <1>4, <1>5, <1>6, <1>7, <1>8, <1>9, <1>10, <1>11, <1>12,
       <1>13, <1>14, <1>15, <1>16, <1>17, <1>18, <1>19, <1>20, <1>21, <1>22, <1>23,
       <1>24, <1>25, <1>26, <1>27, <1>28, <1>29, <1>30, <1>31, <1>32, <1>33, <1>34,
       <1>35, <1>36 DEF Ixs

LEMMA UnregisteredDeposit ==
    GoodCalls(ClientMetas("OperatorDeposit"), Target("OperatorDeposit").optional, "AugustVault",
              P!OperatorDepositUnregistered)
<1>1. /\ ClientMetas("OperatorDeposit") = C!OperatorDeposit.accounts
      /\ Target("OperatorDeposit") = P!OperatorDeposit
  BY DEF ClientMetas, Target, ProgramOf, C!Instructions, C!To, P!Entrypoint, P!VaultProgram
<1>2. GoodCalls(C!OperatorDeposit.accounts, P!OperatorDeposit.optional, "AugustVault",
                P!OperatorDepositUnregistered)
  BY DEF GoodCalls, Passed, MetaRoles, P!Pdas, P!OperatorDepositUnregistered, P!OperatorDeposit,
         P!Ix, P!Transfer, P!Call, P!R, P!W, P!S, P!Meta, C!OperatorDeposit, C!R, C!W, C!S, C!Meta
<1> QED BY <1>1, <1>2

-----------------------------------------------------------------------------
(* One call *)

\* What a caller may fill in, whatever is left unset.
CallShape(c) ==
    /\ c.ix \in Ixs /\ c.form \in OffChain \cup OnChain
    /\ c.fields \subseteq Fields(c.ix)
    /\ c.form = "legacy" => c.fields \cap OptionalFields(c.ix) = {}
    /\ c.token \in P!TokenPrograms /\ c.mint \in P!TokenPrograms
    /\ c.extra \in Extras

LEMMA CallsShaped ==
    ASSUME NEW ix \in Ixs, NEW form \in Forms, NEW c \in Calls(ix, form)
    PROVE  CallShape(c)
<1>1. form \in OffChain \cup OnChain
  BY WireAssumption
<1>2. \A odd \in Oddities(ix, form) : odd.extra \in Extras
  BY DEF Oddities, Extras
<1>3. PICK t, n, o, odd :
          /\ t \in P!TokenPrograms /\ n \in P!TokenPrograms /\ odd \in Oddities(ix, form)
          /\ c = [ix |-> ix, form |-> form, fields |-> Usable(ix, form) \ odd.unset, token |-> t,
                  mint |-> n, one_wallet |-> o, extra |-> odd.extra, withheld |-> odd.withheld]
  BY DEF Calls, P!TokenPrograms
<1> QED BY <1>1, <1>2, <1>3 DEF CallShape, Usable

LEMMA RowOf ==
    ASSUME NEW ix \in Ixs
    PROVE  /\ ProgramOf(ix) \in DOMAIN P!Pdas
           /\ SameAccounts(ClientMetas(ix), Target(ix).accounts)
           /\ SameArgs(ClientArgs(ix), Target(ix).args)
           /\ LastIsOptional(ClientMetas(ix), ClientArgs(ix), Builder(ix), Target(ix).optional)
           /\ GoodDefaults(Builder(ix)) /\ PlainSigners(ClientMetas(ix))
           /\ GoodCalls(ClientMetas(ix), Target(ix).optional, ProgramOf(ix), Target(ix).calls)
           /\ OwnWrites(ClientMetas(ix), Target(ix).own)
           /\ NeededLocks(ClientMetas(ix), Target(ix).own, Target(ix).calls)
  BY TablesAgree DEF Agrees, RowAgrees, ClientMetas, ClientArgs

LEMMA OptionalAgree ==
    ASSUME NEW ix \in Ixs
    PROVE  OptionalFields(ix) = Target(ix).optional
<1>1. LastIsOptional(ClientMetas(ix), ClientArgs(ix), Builder(ix), Target(ix).optional)
  BY RowOf
<1> QED BY <1>1 DEF LastIsOptional, OptionalFields, Fields, MetaRoles, ArgNames

LEMMA KeysOfRoles ==
    ASSUME NEW c, CallShape(c), NEW i \in DOMAIN ClientMetas(c.ix)
    PROVE  LET r == ClientMetas(c.ix)[i].role
               k == KeyOf(c, r)
           IN  /\ k \notin {"unset", "None", "none", "extra"}
               /\ r = "subaccount" => k = "subaccount"
               /\ r \in DOMAIN P!Fixed => k \in P!Fixed[r]
               /\ k \in PdaRoles => k = r
               /\ r \in PdaRoles => k = r
<1> DEFINE r == ClientMetas(c.ix)[i].role
           k == KeyOf(c, r)
<1>1. r \notin Reserved /\ c.token \in P!TokenPrograms
  BY RowOf DEF CallShape, PlainSigners
<1>2. CASE r = "token_program"
  <2>1. k = c.token
    BY <1>2 DEF KeyOf
  <2> QED BY <1>1, <1>2, <2>1 DEF P!TokenPrograms, P!Fixed, PdaRoles
<1>3. CASE r \in DOMAIN P!Fixed \ {"token_program"}
  <2>1. k = CHOOSE x \in P!Fixed[r] : TRUE
    BY <1>3 DEF KeyOf
  <2>2. \E w \in {"System", "Rent", "TokenMetadata", "AssociatedToken", "AugustVault",
                  "AugustQueue", "subaccount"} :
            P!Fixed[r] = {w} /\ (r = "subaccount" => w = "subaccount")
    BY <1>3 DEF P!Fixed
  <2>3. r \notin PdaRoles
    BY <1>3 DEF P!Fixed, PdaRoles
  <2> QED BY <2>1, <2>2, <2>3 DEF PdaRoles
<1>4. CASE r \notin DOMAIN P!Fixed
  <2>1. r # "token_program" /\ r # "subaccount"
    BY <1>4 DEF P!Fixed
  <2>2. k = r \/ (k = "wallet" /\ r \notin PdaRoles)
    BY <1>4, <2>1 DEF KeyOf
  <2> QED BY <1>1, <1>4, <2>1, <2>2 DEF Reserved, PdaRoles
<1> QED BY <1>2, <1>3, <1>4 DEF P!Fixed

\* What a role is set to, in a call whose builder does not panic.
LEMMA EffectiveKeys ==
    ASSUME NEW c, CallShape(c), Expected(c) \subseteq c.fields, NEW i \in DOMAIN ClientMetas(c.ix)
    PROVE  LET r == ClientMetas(c.ix)[i].role
               k == EffectiveKey(c, r)
               optional == Target(c.ix).optional
           IN  /\ k \notin {"None", "none", "extra"}
               /\ k = "unset" <=> r \in optional /\ r \notin c.fields
               /\ r \in optional /\ r \in c.fields => k = "subaccount"
               /\ r \in optional => r = "subaccount"
               /\ r \in DOMAIN P!Fixed /\ k # "unset" => k \in P!Fixed[r]
               /\ k \in PdaRoles => k = r
               /\ r \in PdaRoles => k = r
               /\ c.form \in OnChain /\ k # "unset" => r \in c.fields
<1> DEFINE r == ClientMetas(c.ix)[i].role
           k == EffectiveKey(c, r)
           optional == Target(c.ix).optional
           builder == Builder(c.ix)
<1>1. /\ c.ix \in Ixs /\ c.form \in OffChain \cup OnChain /\ OptionalFields(c.ix) = optional
      /\ OffChain \cap OnChain = {}
  BY OptionalAgree DEF CallShape, OffChain, OnChain
<1>2. /\ r \in Fields(c.ix)
      /\ r \in optional => r = "subaccount"
      /\ r \in optional <=> r \notin builder.expects \cup DOMAIN builder.defaults
  BY <1>1, RowOf DEF LastIsOptional, Fields, MetaRoles
<1>3. \/ r \in c.fields \/ r \in optional
      \/ r \in DOMAIN builder.defaults /\ c.form \in OffChain
  <2>1. CASE c.form \in OffChain
    BY <1>2, <2>1 DEF Expected
  <2>2. CASE c.form \in OnChain
    BY <1>1, <1>2, <2>2 DEF Expected
  <2> QED BY <1>1, <2>1, <2>2
<1>4. r \in DOMAIN builder.defaults =>
          r \in DOMAIN P!Fixed /\ builder.defaults[r] \in P!Fixed[r]
  BY <1>1, RowOf DEF GoodDefaults
<1>5. \A f \in DOMAIN P!Fixed :
          /\ P!Fixed[f] \cap ({"unset", "None", "none", "extra"} \cup PdaRoles) = {}
          /\ f \notin PdaRoles
  BY DEF P!Fixed, P!TokenPrograms, PdaRoles
<1>6. CASE r \in c.fields
  <2>1. k = KeyOf(c, r)
    BY <1>6 DEF EffectiveKey
  <2> QED BY <1>2, <1>6, <2>1, KeysOfRoles
<1>7. CASE r \notin c.fields /\ r \in DOMAIN builder.defaults /\ c.form \in OffChain
  <2>1. k = builder.defaults[r]
    BY <1>7 DEF EffectiveKey
  <2>2. r \notin optional
    BY <1>2, <1>7
  <2> QED BY <1>1, <1>4, <1>5, <1>7, <2>1, <2>2
<1>8. CASE r \notin c.fields /\ r \in optional
  <2>1. k = "unset" /\ r = "subaccount"
    BY <1>2, <1>8 DEF EffectiveKey
  <2> QED BY <1>8, <2>1 DEF PdaRoles
<1> QED BY <1>3, <1>6, <1>7, <1>8

\* How many of the accounts are sent: all, or all but the optional last one.
Sent(c) == IF c.form = "legacy" /\ Target(c.ix).optional # {}
           THEN Len(ClientMetas(c.ix)) - 1 ELSE Len(ClientMetas(c.ix))

\* The list on the wire: the client's accounts in their places, then the extra one.
LEMMA BuiltShape ==
    ASSUME NEW c, CallShape(c)
    PROVE  LET ms == Built(c)
               m  == ClientMetas(c.ix)
           IN  /\ Sent(c) \in Nat /\ Sent(c) <= Len(m) /\ Len(m) \in Nat /\ DOMAIN m = 1..Len(m)
               /\ \A i \in DOMAIN m :
                      i > Sent(c) <=> c.form = "legacy" /\ m[i].role \in Target(c.ix).optional
               /\ Len(ms) = (IF c.extra.given THEN Sent(c) + 1 ELSE Sent(c))
               /\ DOMAIN ms = 1..Len(ms)
               /\ \A i \in 1..Sent(c) : ms[i] = MetaOnWire(c, m[i])
               /\ c.extra.given => ms[Sent(c) + 1].key = "extra"
<1> DEFINE m == ClientMetas(c.ix)
           n == Sent(c)
           optional == Target(c.ix).optional
<1>1. /\ Len(m) \in Nat /\ DOMAIN m = 1..Len(m)
      /\ \A i, j \in DOMAIN m : m[i].role = m[j].role => i = j
      /\ \A i \in DOMAIN m : m[i].role \in optional => i = Len(m)
      /\ optional \subseteq MetaRoles(m)
      /\ OptionalFields(c.ix) = optional
  BY RowOf, OptionalAgree DEF CallShape, SameAccounts, LastIsOptional
<1>2. \A i \in DOMAIN m : m[i].role \in optional <=> i = Len(m) /\ optional # {}
  <2>1. ASSUME NEW r \in optional PROVE Len(m) \in DOMAIN m /\ m[Len(m)].role \in optional
    <3>1. PICK i \in DOMAIN m : m[i].role = r
      BY <1>1 DEF MetaRoles
    <3>2. i = Len(m)
      BY <1>1, <3>1
    <3> QED BY <3>1, <3>2
  <2> QED BY <1>1, <2>1
<1>3. /\ n \in Nat /\ n <= Len(m)
      /\ \A i \in DOMAIN m : i > n <=> c.form = "legacy" /\ m[i].role \in optional
  <2>1. optional # {} => Len(m) >= 1
    BY <1>1 DEF MetaRoles
  <2> QED BY <1>1, <1>2, <2>1 DEF Sent
<1>4. DOMAIN SentMetas(c) = 1..n /\ \A i \in 1..n : SentMetas(c)[i] = m[i]
  <2>1. CASE c.form = "legacy"
    <3>1. {j \in DOMAIN m : \A h \in 1..j : m[h].role \notin optional} = 1..n
      BY <1>1, <1>2, <1>3, <2>1
    <3>2. SentMetas(c) = [i \in 1..n |-> m[i]]
      BY <1>1, <2>1, <3>1 DEF SentMetas, LegacyMetas
    <3> QED BY <3>2
  <2>2. CASE c.form # "legacy"
    BY <1>1, <2>2 DEF SentMetas, Sent
  <2> QED BY <2>1, <2>2
<1> DEFINE front == [i \in DOMAIN SentMetas(c) |-> MetaOnWire(c, SentMetas(c)[i])]
<1>5. front \in Seq({MetaOnWire(c, m[i]) : i \in 1..n}) /\ Len(front) = n
  <2>1. front = [i \in 1..n |-> MetaOnWire(c, m[i])]
    BY <1>4
  <2> HIDE DEF front, n
  <2> QED BY <1>3, <2>1
<1>6. \A i \in 1..n : front[i] = MetaOnWire(c, m[i])
  BY <1>4
<1>7. PICK e : e = ExtraOnWire(c)
  OBVIOUS
<1>8. \/ ~c.extra.given /\ e = <<>>
      \/ c.extra.given /\ \E w, s : e = <<OnWire("extra", w, s)>>
  BY <1>7 DEF ExtraOnWire
<1>9. Built(c) = front \o e
  BY <1>7 DEF Built
<1> HIDE DEF front, n
<1>10. CASE ~c.extra.given
  <2>1. Built(c) = front
    BY <1>5, <1>8, <1>9, <1>10
  <2> QED BY <1>1, <1>3, <1>5, <1>6, <1>10, <2>1 DEF n
<1>11. CASE c.extra.given
  <2>1. PICK w, s : e = <<OnWire("extra", w, s)>>
    BY <1>8, <1>11
  <2>2. /\ Len(front \o e) = n + 1 /\ DOMAIN (front \o e) = 1..(n + 1)
        /\ \A i \in 1..n : (front \o e)[i] = front[i]
        /\ (front \o e)[n + 1] = OnWire("extra", w, s)
    BY <1>3, <1>5, <2>1
  <2> QED BY <1>1, <1>3, <1>6, <1>9, <1>11, <2>2 DEF n, OnWire
<1> QED BY <1>10, <1>11

\* The accounts in their places carry the flags of the client's list.
LEMMA OnTheWire ==
    ASSUME NEW c, CallShape(c), Expected(c) \subseteq c.fields, NEW i \in 1..Sent(c)
    PROVE  LET a == Built(c)[i]
               m == ClientMetas(c.ix)[i]
               k == EffectiveKey(c, m.role)
           IN  /\ i \in DOMAIN ClientMetas(c.ix) /\ i \in DOMAIN Built(c)
               /\ k = "unset" => a = OnWire(ProgramOf(c.ix), FALSE, FALSE)
               /\ k # "unset" =>
                      a = OnWire(k, m.writable,
                                 m.signer /\ ~(c.form = "handmade" /\ m.role \in PdaRoles))
<1>1. /\ Built(c)[i] = MetaOnWire(c, ClientMetas(c.ix)[i])
      /\ i \in DOMAIN ClientMetas(c.ix) /\ i \in DOMAIN Built(c)
  BY BuiltShape
<1> QED BY <1>1 DEF MetaOnWire

\* What a program takes for an account is what the caller meant.
LEMMA TakenAsMeant ==
    ASSUME NEW c, CallShape(c), Expected(c) \subseteq c.fields,
           Admits(c, Built(c)) \/ ~c.extra.given,
           NEW i \in DOMAIN ClientMetas(c.ix)
    PROVE  /\ i \in DOMAIN Target(c.ix).accounts
           /\ Taken(c, Built(c), i) = Meant(c, Target(c.ix).accounts[i].role)
           /\ Target(c.ix).accounts[i].role = ClientMetas(c.ix)[i].role
<1> DEFINE m == ClientMetas(c.ix)
           f == Target(c.ix).accounts
           optional == Target(c.ix).optional
           ms == Built(c)
           r == m[i].role
           k == EffectiveKey(c, r)
<1>1. /\ c.ix \in Ixs /\ OptionalFields(c.ix) = optional
      /\ c.form = "legacy" => c.fields \cap optional = {}
  BY OptionalAgree DEF CallShape
<1>2. /\ f[i].role = r /\ i \in DOMAIN f
      /\ r \in optional => i = Len(m)
  BY <1>1, RowOf DEF SameAccounts, LastIsOptional
<1>3. /\ Sent(c) \in Nat /\ Len(m) \in Nat /\ i \in 1..Len(m)
      /\ i > Sent(c) <=> c.form = "legacy" /\ r \in optional
      /\ Len(ms) = (IF c.extra.given THEN Sent(c) + 1 ELSE Sent(c))
      /\ c.extra.given => ms[Sent(c) + 1].key = "extra"
      /\ Sent(c) <= Len(m)
  BY BuiltShape
<1>4. /\ k = "unset" <=> r \in optional /\ r \notin c.fields
      /\ r \in optional /\ r \in c.fields => k = "subaccount"
      /\ r \in optional => r = "subaccount"
  BY EffectiveKeys
<1>5. ProgramOf(c.ix) \in {"AugustVault", "AugustQueue"}
  BY <1>1, RowOf DEF P!Pdas
<1>6. i <= Sent(c) => ms[i].key = (IF k = "unset" THEN ProgramOf(c.ix) ELSE k)
  <2>1. CASE i <= Sent(c)
    <3>1. i \in 1..Sent(c)
      BY <1>3, <2>1
    <3>2. CASE k = "unset"
      <4>1. ms[i] = OnWire(ProgramOf(c.ix), FALSE, FALSE)
        BY <3>1, <3>2, OnTheWire
      <4>2. ms[i].key = ProgramOf(c.ix)
        BY <4>1 DEF OnWire
      <4> QED BY <3>2, <4>2
    <3>3. CASE k # "unset"
      <4>1. ms[i] = OnWire(k, m[i].writable,
                           m[i].signer /\ ~(c.form = "handmade" /\ r \in PdaRoles))
        BY <3>1, <3>3, OnTheWire
      <4>2. ms[i].key = k
        BY <4>1 DEF OnWire
      <4> QED BY <3>3, <4>2
    <3> QED BY <3>2, <3>3
  <2> QED BY <1>3, <2>1
<1>7. /\ r \in optional /\ (i > Len(ms) \/ ms[i].key = ProgramOf(c.ix)) =>
             Taken(c, ms, i) = "None"
      /\ r \notin optional => Taken(c, ms, i) = ms[i].key
      /\ i <= Len(ms) /\ ms[i].key # ProgramOf(c.ix) => Taken(c, ms, i) = ms[i].key
  <2>1. i \in Nat /\ Len(ms) \in Nat
    BY <1>3
  <2> QED BY <1>2, <2>1 DEF Taken
<1>8. /\ r \in optional /\ r \notin c.fields => Meant(c, r) = "None"
      /\ ~(r \in optional /\ r \notin c.fields) => Meant(c, r) = k
  BY DEF Meant
<1>9. Taken(c, ms, i) = Meant(c, r)
  <2>1. CASE r \notin optional
    <3>1. i <= Sent(c) /\ k # "unset"
      BY <1>3, <1>4, <2>1
    <3> HIDE DEF ms, k, r, optional
    <3> QED BY <1>6, <1>7, <1>8, <2>1, <3>1
  <2>2. CASE r \in optional /\ i <= Sent(c)
    <3>1. i <= Len(ms) /\ i \in Nat /\ Len(ms) \in Nat
      BY <1>3, <2>2
    <3>2. CASE r \in c.fields
      <4>1. k = "subaccount" /\ k # ProgramOf(c.ix) /\ k # "unset"
        BY <1>4, <1>5, <2>2, <3>2
      <4> HIDE DEF ms, k, r, optional
      <4> QED BY <1>6, <1>7, <1>8, <2>2, <3>1, <3>2, <4>1
    <3>3. CASE r \notin c.fields
      <4>1. k = "unset"
        BY <1>4, <2>2, <3>3
      <4> HIDE DEF ms, k, r, optional
      <4> QED BY <1>6, <1>7, <1>8, <2>2, <3>1, <3>3, <4>1
    <3> QED BY <3>2, <3>3
  <2>3. CASE r \in optional /\ i > Sent(c)
    <3>1. /\ r \notin c.fields /\ i = Sent(c) + 1
      BY <1>1, <1>2, <1>3, <2>3 DEF Sent
    <3>2. CASE ~c.extra.given
      <4>1. i > Len(ms)
        BY <1>3, <3>1, <3>2
      <4> HIDE DEF ms, k, r, optional
      <4> QED BY <1>7, <1>8, <2>3, <3>1, <4>1
    <3>3. CASE c.extra.given
      <4>1. i <= Len(ms) /\ ms[i].key = "extra"
        BY <1>3, <3>1, <3>3
      <4>2. Taken(c, ms, i) = "extra"
        BY <1>5, <1>7, <4>1
      <4>3. Taken(c, ms, i) \in P!Fixed["subaccount"]
        BY <1>2, <1>4, <2>3, <3>3, <4>2 DEF Admits, P!Fixed
      <4> QED BY <4>2, <4>3 DEF P!Fixed
    <3> QED BY <3>2, <3>3
  <2> QED BY <1>3, <2>1, <2>2, <2>3
<1> QED BY <1>2, <1>9

LEMMA BindingsMeant ==
    ASSUME NEW c, CallShape(c), Expected(c) \subseteq c.fields,
           Admits(c, Built(c)) \/ ~c.extra.given
    PROVE  Bindings(c, Built(c)) = [r \in MetaRoles(Target(c.ix).accounts) |-> Meant(c, r)]
<1> DEFINE f == Target(c.ix).accounts
<1>1. /\ DOMAIN f = DOMAIN ClientMetas(c.ix)
      /\ \A i, j \in DOMAIN f : f[i].role = f[j].role => i = j
  BY RowOf DEF CallShape, SameAccounts
<1>2. ASSUME NEW r \in MetaRoles(f)
      PROVE  Taken(c, Built(c), CHOOSE i \in DOMAIN f : f[i].role = r) = Meant(c, r)
  <2>1. PICK i \in DOMAIN f : f[i].role = r
    BY DEF MetaRoles
  <2>2. i = CHOOSE j \in DOMAIN f : f[j].role = r
    BY <1>1, <2>1
  <2>3. Taken(c, Built(c), i) = Meant(c, f[i].role)
    BY <1>1, TakenAsMeant
  <2> QED BY <2>1, <2>2, <2>3
<1> QED BY <1>2 DEF Bindings

\* An account the program takes is on the wire with all the privileges of the
\* client's list, except a PDA's signature on a hand-made transaction.
LEMMA Listed ==
    ASSUME NEW c, CallShape(c), Expected(c) \subseteq c.fields, NEW i \in DOMAIN ClientMetas(c.ix),
           Meant(c, ClientMetas(c.ix)[i].role) # "None"
    PROVE  LET m == ClientMetas(c.ix)[i]
               k == EffectiveKey(c, m.role)
           IN  /\ Meant(c, m.role) = k /\ k # "unset" /\ i \in 1..Sent(c)
               /\ m.writable => k \in KeysWith(Built(c), "writable")
               /\ m.signer /\ ~(c.form = "handmade" /\ m.role \in PdaRoles)
                      => k \in KeysWith(Built(c), "signer")
<1> DEFINE m == ClientMetas(c.ix)[i]
           k == EffectiveKey(c, m.role)
           ms == Built(c)
           s == m.signer /\ ~(c.form = "handmade" /\ m.role \in PdaRoles)
<1>1. Meant(c, m.role) = k /\ ~(m.role \in Target(c.ix).optional /\ m.role \notin c.fields)
  BY DEF Meant
<1>2. k # "unset"
  BY <1>1, EffectiveKeys
<1>3. i \in 1..Sent(c)
  <2>1. /\ Sent(c) \in Nat /\ i \in Nat /\ i >= 1
        /\ i > Sent(c) => c.form = "legacy" /\ m.role \in Target(c.ix).optional
    BY BuiltShape
  <2>2. c.form = "legacy" => c.fields \cap Target(c.ix).optional = {}
    BY OptionalAgree DEF CallShape
  <2> QED BY <1>1, <2>1, <2>2
<1>4. i \in DOMAIN ms /\ ms[i] = OnWire(k, m.writable, s)
  BY <1>2, <1>3, OnTheWire
<1>5. ms[i].key = k
  BY <1>4 DEF OnWire
<1>6. ms[i]["writable"] = m.writable
  BY <1>4 DEF OnWire
<1>7. ms[i]["signer"] = s
  BY <1>4 DEF OnWire
<1>8. m.writable => k \in KeysWith(ms, "writable")
  BY <1>4, <1>5, <1>6 DEF KeysWith
<1>9. s => k \in KeysWith(ms, "signer")
  BY <1>4, <1>5, <1>7 DEF KeysWith
<1> QED BY <1>1, <1>2, <1>3, <1>8, <1>9

\* Every account on the wire is one of the client's list, or stands for an unset
\* one, or is the extra one.
LEMMA WhatIsSent ==
    ASSUME NEW c, CallShape(c), Expected(c) \subseteq c.fields, NEW j \in DOMAIN Built(c)
    PROVE  \/ c.extra.given /\ Built(c)[j].key = "extra"
           \/ Built(c)[j] = OnWire(ProgramOf(c.ix), FALSE, FALSE)
           \/ \E i \in DOMAIN ClientMetas(c.ix) :
                  LET m == ClientMetas(c.ix)[i]
                      k == EffectiveKey(c, m.role)
                  IN  /\ k # "unset"
                      /\ Built(c)[j].key = k
                      /\ Built(c)[j]["writable"] => m.writable
                      /\ Built(c)[j]["signer"] =>
                             m.signer /\ ~(c.form = "handmade" /\ m.role \in PdaRoles)
<1>1. /\ Sent(c) \in Nat
      /\ DOMAIN Built(c) = 1..(IF c.extra.given THEN Sent(c) + 1 ELSE Sent(c))
      /\ c.extra.given => Built(c)[Sent(c) + 1].key = "extra"
  BY BuiltShape
<1>2. CASE j \notin 1..Sent(c)
  <2>1. c.extra.given /\ j = Sent(c) + 1
    BY <1>1, <1>2
  <2> QED BY <1>1, <2>1
<1>3. CASE j \in 1..Sent(c)
  <2> DEFINE m == ClientMetas(c.ix)[j]
             k == EffectiveKey(c, m.role)
             s == m.signer /\ ~(c.form = "handmade" /\ m.role \in PdaRoles)
  <2>1. CASE k = "unset"
    BY <1>3, <2>1, OnTheWire
  <2>2. CASE k # "unset"
    <3>1. j \in DOMAIN ClientMetas(c.ix) /\ Built(c)[j] = OnWire(k, m.writable, s)
      BY <1>3, <2>2, OnTheWire
    <3>2. Built(c)[j].key = k
      BY <3>1 DEF OnWire
    <3>3. Built(c)[j]["writable"] = m.writable
      BY <3>1 DEF OnWire
    <3>4. Built(c)[j]["signer"] = s
      BY <3>1 DEF OnWire
    <3> QED BY <2>2, <3>1, <3>2, <3>3, <3>4
  <2> QED BY <2>1, <2>2
<1> QED BY <1>2, <1>3

-----------------------------------------------------------------------------
(* A caller who did everything asked *)

\* Its builder does not panic.
LEMMA CompleteBuilt ==
    ASSUME NEW c, CallShape(c), Complete(c)
    PROVE  Expected(c) \subseteq c.fields
<1>1. /\ Builder(c.ix).expects \subseteq Fields(c.ix)
      /\ Builder(c.ix).expects \cap DOMAIN Builder(c.ix).defaults = {}
      /\ c.form \in OffChain \cup OnChain /\ OffChain \cap OnChain = {}
  BY RowOf DEF CallShape, LastIsOptional, Fields, OffChain, OnChain
<1>2. \A f \in Fields(c.ix) : \/ f \in c.fields \/ f \in OptionalFields(c.ix)
                              \/ c.form \in OffChain /\ f \in DOMAIN Builder(c.ix).defaults
  BY DEF Complete
<1>3. CASE c.form \in OffChain
  <2>1. \A f \in Builder(c.ix).expects : f \notin OptionalFields(c.ix)
    BY DEF OptionalFields
  <2> QED BY <1>1, <1>2, <1>3, <2>1 DEF Expected
<1>4. CASE c.form \in OnChain
  BY <1>1, <1>2, <1>4 DEF Expected
<1> QED BY <1>1, <1>3, <1>4

\* Only the queue's program is asked for a signature of a PDA, and only the
\* queue's.
LEMMA PdaSigners ==
    ASSUME NEW c, CallShape(c), NEW i \in DOMAIN ClientMetas(c.ix),
           ClientMetas(c.ix)[i].signer, ClientMetas(c.ix)[i].role \in PdaRoles
    PROVE  /\ ClientMetas(c.ix)[i].role = "queue"
           /\ Complete(c) => c.form = "cpi_queue"
<1>1. ClientMetas(c.ix)[i].role = "queue"
  BY RowOf DEF CallShape, PlainSigners
<1>2. NeedsPda(c.ix)
  BY DEF NeedsPda
<1> QED BY <1>1, <1>2 DEF Complete

LEMMA CompleteGranted ==
    ASSUME NEW c, CallShape(c), Complete(c)
    PROVE  Granted(c, Built(c))
<1> DEFINE ms == Built(c)
           m == ClientMetas(c.ix)
<1>1. Expected(c) \subseteq c.fields
  BY CompleteBuilt
<1>2. ~c.extra.given /\ c.withheld.key = "none"
  BY DEF Complete, NoExtra
<1>3. ProgramOf(c.ix) \in {"AugustVault", "AugustQueue"}
  BY RowOf DEF CallShape, P!Pdas
<1>4. ASSUME NEW k \in KeysWith(ms, "signer")
      PROVE  \E i \in DOMAIN m : /\ k = EffectiveKey(c, m[i].role) /\ k # "unset" /\ m[i].signer
  <2>1. PICK j \in DOMAIN ms : ms[j]["signer"] /\ ms[j].key = k
    BY DEF KeysWith
  <2>2. ms[j] # OnWire(ProgramOf(c.ix), FALSE, FALSE)
    BY <2>1 DEF OnWire
  <2> QED BY <1>1, <1>2, <2>1, <2>2, WhatIsSent
<1>5. ASSUME NEW k \in KeysWith(ms, "signer")
      PROVE  k # "extra" /\ (k \in PdaRoles => c.form = "cpi_queue" /\ k = "queue")
  <2>1. PICK i \in DOMAIN m : k = EffectiveKey(c, m[i].role) /\ k # "unset" /\ m[i].signer
    BY <1>4
  <2>2. k # "extra" /\ (k \in PdaRoles => k = m[i].role)
    BY <1>1, <2>1, EffectiveKeys
  <2> QED BY <2>1, <2>2, PdaSigners
<1>6. ASSUME NEW j \in DOMAIN ms
      PROVE  /\ ms[j].key \notin {"extra", "none"}
             /\ c.form \in OnChain =>
                    ms[j].key \in {ProgramOf(c.ix), "extra"} \cup
                        {EffectiveKey(c, r) : r \in c.fields}
  <2>1. CASE ms[j] = OnWire(ProgramOf(c.ix), FALSE, FALSE)
    <3>1. ms[j].key = ProgramOf(c.ix)
      BY <2>1 DEF OnWire
    <3> QED BY <1>3, <3>1
  <2>2. CASE ms[j] # OnWire(ProgramOf(c.ix), FALSE, FALSE)
    <3>1. PICK i \in DOMAIN m : /\ EffectiveKey(c, m[i].role) # "unset"
                                /\ ms[j].key = EffectiveKey(c, m[i].role)
      BY <1>1, <1>2, <2>2, WhatIsSent
    <3> QED BY <1>1, <3>1, EffectiveKeys
  <2> QED BY <2>1, <2>2
<1>7. c.form \in OffChain \cup OnChain /\ OffChain = {"builder", "legacy", "handmade"}
      /\ OnChain = {"cpi_queue", "cpi_other"}
  BY DEF CallShape, OffChain, OnChain
<1>8. CASE c.form \in OffChain
  <2>1. KeysWith(ms, "signer") \cap PdaRoles = {}
    BY <1>5, <1>7, <1>8
  <2> QED BY <1>8, <2>1 DEF Granted
<1>9. CASE c.form \in OnChain
  <2>1. c.form \notin OffChain
    BY <1>7, <1>9
  <2>2. "extra" \notin KeysWith(ms, "writable")
    BY <1>6 DEF KeysWith
  <2>3. \A j \in DOMAIN ms : ms[j].key # c.withheld.key
    BY <1>2, <1>6
  <2> HIDE DEF ms
  <2>4. \A j \in DOMAIN ms : ms[j].key \in {ProgramOf(c.ix), "extra"} \cup
                                 {EffectiveKey(c, r) : r \in c.fields}
    BY <1>6, <1>9
  <2>5. Granted(c, ms)
    BY <1>5, <2>1, <2>2, <2>3, <2>4 DEF Granted
  <2> QED BY <2>5 DEF ms
<1> QED BY <1>7, <1>8, <1>9

LEMMA CompleteAdmitted ==
    ASSUME NEW c, CallShape(c), Complete(c)
    PROVE  EnoughKeys(c, Built(c)) /\ Admits(c, Built(c)) /\ Decodes(c)
<1> DEFINE ms == Built(c)
           m == ClientMetas(c.ix)
           f == Target(c.ix).accounts
<1>1. Expected(c) \subseteq c.fields /\ ~c.extra.given
  BY CompleteBuilt DEF Complete, NoExtra
<1>2. /\ DOMAIN f = DOMAIN m
      /\ \A i \in DOMAIN m :
             /\ m[i].role = f[i].role
             /\ f[i].signer => m[i].signer
             /\ f[i].writable => m[i].writable
  BY RowOf DEF CallShape, SameAccounts
<1>3. EnoughKeys(c, ms)
  <2>1. /\ Len(ms) = Sent(c) /\ Sent(c) \in Nat /\ DOMAIN m = 1..Len(m) /\ Len(m) \in Nat
        /\ \A i \in DOMAIN m : i > Sent(c) => m[i].role \in Target(c.ix).optional
    BY <1>1, BuiltShape
  <2>2. \A i \in DOMAIN f : i <= Len(ms) \/ f[i].role \in Target(c.ix).optional
    BY <1>2, <2>1
  <2> QED BY <2>2 DEF EnoughKeys
<1>4. ASSUME NEW i \in DOMAIN f, Taken(c, ms, i) # "None"
      PROVE  /\ f[i].signer => Taken(c, ms, i) \in KeysWith(ms, "signer")
             /\ f[i].writable => Taken(c, ms, i) \in KeysWith(ms, "writable")
             /\ f[i].role \in DOMAIN P!Fixed => Taken(c, ms, i) \in P!Fixed[f[i].role]
             /\ f[i].role = "token_program" =>
                    /\ Taken(c, ms, i) = c.mint
                    /\ c.ix \in P!LegacyTokenOnly => Taken(c, ms, i) = "Token"
  <2> DEFINE r == m[i].role
             k == EffectiveKey(c, r)
  <2>1. i \in DOMAIN m /\ f[i].role = r /\ Taken(c, ms, i) = Meant(c, r)
    BY <1>1, <1>2, TakenAsMeant
  <2>2. /\ Taken(c, ms, i) = k /\ k # "unset"
        /\ m[i].writable => k \in KeysWith(ms, "writable")
        /\ m[i].signer /\ ~(c.form = "handmade" /\ r \in PdaRoles) => k \in KeysWith(ms, "signer")
    BY <1>1, <1>4, <2>1, Listed
  <2>3. m[i].signer => ~(c.form = "handmade" /\ r \in PdaRoles)
    BY <2>1, PdaSigners
  <2>4. r \in DOMAIN P!Fixed => k \in P!Fixed[r]
    BY <1>1, <2>1, <2>2, EffectiveKeys
  <2>5. r = "token_program" => k = c.mint /\ (c.ix \in P!LegacyTokenOnly => k = "Token")
    <3>1. r \in Fields(c.ix)
      BY <2>1 DEF Fields, MetaRoles
    <3> QED BY <3>1 DEF Complete
  <2> HIDE DEF k, r
  <2> QED BY <1>2, <2>1, <2>2, <2>3, <2>4, <2>5
<1>5. Admits(c, ms)
  BY <1>4 DEF Admits
<1>6. Decodes(c)
  BY RowOf DEF CallShape, SameArgs, Decodes
<1> QED BY <1>3, <1>5, <1>6

\* Each of its inner calls finds the privileges it needs, in the transaction
\* or in the program's own PDA.
LEMMA CompleteInvoked ==
    ASSUME NEW c, CallShape(c), Complete(c), NEW b,
           b = [r \in MetaRoles(Target(c.ix).accounts) |-> Meant(c, r)],
           NEW n \in DOMAIN CallsOf(c, b)
    PROVE  LET x == CallsOf(c, b)[n]
           IN  /\ x.via \in DOMAIN b
               /\ \A r \in x.writes : b[r] \in KeysWith(Built(c), "writable")
               /\ \A r \in x.signs : \/ r \in P!Pdas[ProgramOf(c.ix)]
                                     \/ b[r] \in KeysWith(Built(c), "signer")
<1> DEFINE m == ClientMetas(c.ix)
           x == CallsOf(c, b)[n]
           optional == Target(c.ix).optional
<1>1. GoodCalls(m, optional, ProgramOf(c.ix), CallsOf(c, b))
  <2>1. CASE c.ix = "OperatorDeposit" /\ b["subaccount"] = "None"
    <3>1. ProgramOf("OperatorDeposit") = "AugustVault"
      BY DEF ProgramOf, C!Instructions, C!To
    <3> QED BY <2>1, <3>1, UnregisteredDeposit DEF CallsOf
  <2>2. CASE ~(c.ix = "OperatorDeposit" /\ b["subaccount"] = "None")
    BY <2>2, RowOf DEF CallsOf, CallShape
  <2> QED BY <2>1, <2>2
<1>2. /\ x.via \in MetaRoles(m)
      /\ \A r \in x.writes : Passed(m, optional, r, "writable")
      /\ \A r \in x.signs : r \in P!Pdas[ProgramOf(c.ix)] \/ Passed(m, optional, r, "signer")
  BY <1>1 DEF GoodCalls
<1>3. DOMAIN b = MetaRoles(m)
  BY RowOf DEF CallShape, SameAccounts, MetaRoles
<1>4. ASSUME NEW i \in DOMAIN m, m[i].role \notin optional
      PROVE  /\ m[i].writable => b[m[i].role] \in KeysWith(Built(c), "writable")
             /\ m[i].signer => b[m[i].role] \in KeysWith(Built(c), "signer")
  <2> DEFINE r == m[i].role
             k == EffectiveKey(c, r)
  <2>1. r \in DOMAIN b
    BY <1>3 DEF MetaRoles
  <2>2. b[r] = Meant(c, r) /\ Meant(c, r) = k
    BY <1>4, <2>1 DEF Meant
  <2>3. Expected(c) \subseteq c.fields
    BY CompleteBuilt
  <2>4. k # "None"
    BY <2>3, EffectiveKeys
  <2>5. m[i].signer => ~(c.form = "handmade" /\ r \in PdaRoles)
    BY PdaSigners
  <2>6. /\ m[i].writable => k \in KeysWith(Built(c), "writable")
        /\ m[i].signer /\ ~(c.form = "handmade" /\ r \in PdaRoles)
               => k \in KeysWith(Built(c), "signer")
    BY <2>2, <2>3, <2>4, Listed
  <2> QED BY <2>2, <2>5, <2>6
<1>5. \A r \in x.writes : b[r] \in KeysWith(Built(c), "writable")
  BY <1>2, <1>4 DEF Passed
<1>6. \A r \in x.signs : \/ r \in P!Pdas[ProgramOf(c.ix)]
                         \/ b[r] \in KeysWith(Built(c), "signer")
  BY <1>2, <1>4 DEF Passed
<1> QED BY <1>2, <1>3, <1>5, <1>6

\* What the program changes itself is writable, where it is passed at all.
LEMMA OwnWritable ==
    ASSUME NEW c, CallShape(c), Expected(c) \subseteq c.fields, NEW r \in Target(c.ix).own
    PROVE  /\ r \in MetaRoles(Target(c.ix).accounts)
           /\ Meant(c, r) \in KeysWith(Built(c), "writable") \cup {"None"}
<1>1. PICK i \in DOMAIN ClientMetas(c.ix) :
          ClientMetas(c.ix)[i].role = r /\ ClientMetas(c.ix)[i].writable
  BY RowOf DEF CallShape, OwnWrites, Passed
<1>2. r \in MetaRoles(Target(c.ix).accounts)
  BY <1>1, RowOf DEF CallShape, SameAccounts, MetaRoles
<1>3. Meant(c, r) # "None" => Meant(c, r) \in KeysWith(Built(c), "writable")
  BY <1>1, Listed
<1> QED BY <1>2, <1>3

\* Only what the program may change is asked to be writable.
LEMMA LocksNeeded ==
    ASSUME NEW c, CallShape(c), Expected(c) \subseteq c.fields
    PROVE  KeysWith(Built(c), "writable") \ {"extra"} \subseteq
               {EffectiveKey(c, r) : r \in MayWrite(c.ix)}
<1> SUFFICES ASSUME NEW k \in KeysWith(Built(c), "writable"), k # "extra"
             PROVE  k \in {EffectiveKey(c, r) : r \in MayWrite(c.ix)}
  OBVIOUS
<1>1. PICK j \in DOMAIN Built(c) : Built(c)[j]["writable"] /\ Built(c)[j].key = k
  BY DEF KeysWith
<1>2. Built(c)[j] # OnWire(ProgramOf(c.ix), FALSE, FALSE)
  BY <1>1 DEF OnWire
<1>3. PICK i \in DOMAIN ClientMetas(c.ix) :
          k = EffectiveKey(c, ClientMetas(c.ix)[i].role) /\ ClientMetas(c.ix)[i].writable
  BY <1>1, <1>2, WhatIsSent
<1>4. ClientMetas(c.ix)[i].role \in MayWrite(c.ix)
  BY <1>3, RowOf DEF CallShape, NeededLocks, MayWrite
<1> QED BY <1>3, <1>4

\* The program demands the queue's signature of a detachment, and only the
\* queue's program can give it.
LEMMA DetachSigned ==
    ASSUME NEW c, CallShape(c), c.ix = "DetachWithdrawalQueue", Expected(c) \subseteq c.fields,
           Accepted(c, Built(c))
    PROVE  c.form = "cpi_queue"
<1> DEFINE f == Target(c.ix).accounts
<1>1. Target(c.ix) = P!DetachWithdrawalQueue
  BY DEF Target, ProgramOf, C!Instructions, C!To, P!Entrypoint, P!VaultProgram
<1>2. /\ 4 \in DOMAIN f /\ f[4].role = "queue" /\ f[4].signer
      /\ Target(c.ix).optional = {}
  BY <1>1 DEF P!DetachWithdrawalQueue, P!Ix, P!W, P!R, P!S, P!Meta
<1>3. 4 \in DOMAIN ClientMetas(c.ix) /\ ClientMetas(c.ix)[4].role = "queue"
  BY <1>2, RowOf DEF CallShape, SameAccounts
<1>4. Granted(c, Built(c)) /\ Admits(c, Built(c))
  BY DEF Accepted
<1>5. Taken(c, Built(c), 4) = "queue"
  <2>1. Taken(c, Built(c), 4) = Meant(c, "queue")
    BY <1>3, <1>4, TakenAsMeant
  <2>2. Meant(c, "queue") = EffectiveKey(c, "queue")
    BY <1>2 DEF Meant
  <2>3. EffectiveKey(c, "queue") = "queue"
    BY <1>3, EffectiveKeys DEF PdaRoles
  <2> QED BY <2>1, <2>2, <2>3
<1>6. "queue" \in KeysWith(Built(c), "signer")
  BY <1>2, <1>4, <1>5 DEF Admits
<1> QED BY <1>4, <1>6 DEF Granted, PdaRoles

-----------------------------------------------------------------------------
(* The invariant of a call's progress *)

WInv ==
    /\ phase \in {"idle", "filled", "panicked", "sent", "rejected", "running", "done", "failed"}
    /\ phase # "idle" => CallShape(call)
    /\ phase = "idle" => call = NoCall
    /\ phase \in {"sent", "rejected", "running", "done", "failed"} =>
           Expected(call) \subseteq call.fields /\ wire = Built(call)
    /\ phase \in {"running", "done", "failed"} =>
           Accepted(call, wire) /\ bound = Bindings(call, wire)
    /\ CompleteCallsServed

LEMMA Meaning ==
    ASSUME WInv, phase \in {"running", "done", "failed"}
    PROVE  bound = [r \in MetaRoles(Target(call.ix).accounts) |-> Meant(call, r)]
<1> PICK c : c = call
  OBVIOUS
<1> QED BY BindingsMeant DEF WInv, Accepted

LEMMA WireInit == WInit => WInv
  BY DEF WInit, WInv, CompleteCallsServed

LEMMA WireStep == WInv /\ [WNext]_wvars => WInv'
<1> SUFFICES ASSUME WInv, [WNext]_wvars
             PROVE  WInv'
  OBVIOUS
<1>0. /\ call # NoCall /\ Complete(call) => phase \notin {"panicked", "rejected", "failed"}
  BY DEF WInv, CompleteCallsServed
<1>1. CASE Fill
  <2>1. PICK ix \in Ixs, form \in Forms : call' \in Calls(ix, form)
    BY <1>1 DEF Fill
  <2>2. CallShape(call')
    BY <2>1, CallsShaped
  <2> QED BY <1>1, <2>2 DEF Fill, WInv, CompleteCallsServed
<1>2. CASE BuildPanics
  <2>1. ~Complete(call)
    BY <1>2, CompleteBuilt DEF BuildPanics, WInv
  <2> QED BY <1>2, <2>1 DEF BuildPanics, WInv, CompleteCallsServed
<1>3. CASE Build
  BY <1>3 DEF Build, WInv, CompleteCallsServed
<1>4. CASE Reject
  <2>1. ~Complete(call)
    BY <1>4, CompleteGranted, CompleteAdmitted DEF Reject, Accepted, WInv
  <2> QED BY <1>4, <2>1 DEF Reject, WInv, CompleteCallsServed
<1>5. CASE Accept
  BY <1>5 DEF Accept, WInv, CompleteCallsServed
<1>6. CASE Invoke
  <2>1. ~MayInvoke(call, CallsOf(call, bound)[made + 1]) => ~Complete(call)
    <3>1. PICK c, b, n : c = call /\ b = bound /\ n = made + 1
      OBVIOUS
    <3>2. b = [r \in MetaRoles(Target(c.ix).accounts) |-> Meant(c, r)]
      BY <1>6, <3>1, Meaning DEF Invoke
    <3>3. CallShape(c) /\ n \in DOMAIN CallsOf(c, b) /\ wire = Built(c)
      BY <1>6, <3>1 DEF Invoke, WInv
    <3>4. ASSUME Complete(c)
          PROVE  MayInvoke(c, CallsOf(c, b)[n])
      <4> DEFINE x == CallsOf(c, b)[n]
      <4>1. /\ x.via \in DOMAIN b
            /\ \A r \in x.writes : b[r] \in KeysWith(Built(c), "writable")
            /\ \A r \in x.signs : \/ r \in P!Pdas[ProgramOf(c.ix)]
                                  \/ b[r] \in KeysWith(Built(c), "signer")
        BY <3>2, <3>3, <3>4, CompleteInvoked
      <4> QED BY <3>1, <3>3, <4>1 DEF MayInvoke
    <3> QED BY <3>1, <3>4
  <2> QED BY <1>6, <2>1 DEF Invoke, WInv, CompleteCallsServed
<1>7. CASE Finish
  <2>1. ASSUME NEW r \in Target(call.ix).own
        PROVE  bound[r] \in KeysWith(wire, "writable") \cup {"None"}
    <3>1. PICK c : c = call
      OBVIOUS
    <3>2. bound = [q \in MetaRoles(Target(c.ix).accounts) |-> Meant(c, q)]
      BY <1>7, <3>1, Meaning DEF Finish
    <3>3. CallShape(c) /\ Expected(c) \subseteq c.fields /\ wire = Built(c)
      BY <1>7, <3>1 DEF Finish, WInv
    <3>4. /\ r \in MetaRoles(Target(c.ix).accounts)
          /\ Meant(c, r) \in KeysWith(Built(c), "writable") \cup {"None"}
      BY <3>1, <3>3, OwnWritable
    <3> QED BY <3>2, <3>3, <3>4
  <2>2. phase' = "done"
    BY <1>7, <2>1 DEF Finish
  <2> QED BY <1>7, <2>2 DEF Finish, WInv, CompleteCallsServed
<1>8. CASE Again
  BY <1>8 DEF Again, WInv, CompleteCallsServed
<1>9. CASE UNCHANGED wvars
  BY <1>9 DEF wvars, WInv, CompleteCallsServed
<1> QED BY <1>1, <1>2, <1>3, <1>4, <1>5, <1>6, <1>7, <1>8, <1>9 DEF WNext

LEMMA WireInvariant == WSpec => []WInv
  BY WireInit, WireStep, PTL DEF WSpec

-----------------------------------------------------------------------------
(* The properties of calls *)

\* An instruction a program acts on has every account in the role its caller
\* meant it for and every argument in its place.
THEOREM AccountsArriveAsMeant == WSpec => []BoundAsMeant
<1>1. WInv => BoundAsMeant
  <2> SUFFICES ASSUME WInv, phase \in {"running", "done", "failed"}
               PROVE  /\ bound = [r \in MetaRoles(Target(call.ix).accounts) |-> Meant(call, r)]
                      /\ [i \in DOMAIN ClientArgs(call.ix) |-> ClientArgs(call.ix)[i].name] =
                             [i \in DOMAIN Target(call.ix).args |-> Target(call.ix).args[i].name]
    BY DEF BoundAsMeant
  <2>1. PICK ix \in Ixs : ix = call.ix
    BY DEF WInv, CallShape
  <2>2. SameArgs(ClientArgs(ix), Target(ix).args)
    BY RowOf
  <2>3. [i \in DOMAIN ClientArgs(ix) |-> ClientArgs(ix)[i].name] =
            [i \in DOMAIN Target(ix).args |-> Target(ix).args[i].name]
    BY <2>2 DEF SameArgs
  <2> QED BY <2>1, <2>3, Meaning
<1> QED BY <1>1, WireInvariant, PTL

\* A caller who set everything its client asks for is served down to the last
\* inner call: no panic, no refusal, no missing privilege.
THEOREM CompleteCallsGoThrough == WSpec => []CompleteCallsServed
<1>1. WInv => CompleteCallsServed
  BY DEF WInv
<1> QED BY <1>1, WireInvariant, PTL

\* What is sent locks for writing only accounts its program may change.
THEOREM LocksAreNeeded == WSpec => []NoNeedlessLocks
<1>1. WInv => NoNeedlessLocks
  <2> SUFFICES ASSUME WInv, phase = "sent"
               PROVE  KeysWith(wire, "writable") \ {"extra"} \subseteq
                          {EffectiveKey(call, r) : r \in MayWrite(call.ix)}
    BY DEF NoNeedlessLocks
  <2>1. PICK c : c = call
    OBVIOUS
  <2>2. CallShape(c) /\ Expected(c) \subseteq c.fields /\ wire = Built(c)
    BY <2>1 DEF WInv
  <2> QED BY <2>1, <2>2, LocksNeeded
<1> QED BY <1>1, WireInvariant, PTL

\* A vault is detached only by a call from its queue's program.
THEOREM OnlyQueueDetaches == WSpec => []DetachOnlyByQueue
<1>1. WInv => DetachOnlyByQueue
  <2> SUFFICES ASSUME WInv, phase \in {"running", "done"}, call.ix = "DetachWithdrawalQueue"
               PROVE  call.form = "cpi_queue"
    BY DEF DetachOnlyByQueue
  <2>1. PICK c : c = call
    OBVIOUS
  <2>2. CallShape(c) /\ Expected(c) \subseteq c.fields /\ Accepted(c, Built(c))
    BY <2>1 DEF WInv
  <2> QED BY <2>1, <2>2, DetachSigned
<1> QED BY <1>1, WireInvariant, PTL
=============================================================================
