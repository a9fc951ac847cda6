--------------------------- MODULE MCQueuedVault ---------------------------
(***************************************************************************)
(* A small instance of QueuedVault for TLC: every action of the queue      *)
(* program and those of the vault that reach it.  The subaccount registry  *)
(* is not needed here, and the clock runs in MCQueueEvents.                *)
(***************************************************************************)
EXTENDS QueuedVault, TLC

CONSTANT Wealth   \* what each depositor owns when the vault opens

MCEndowment == [k \in Keys |-> IF k \in Depositors THEN Wealth ELSE 0]

\* Holders trade and lose deployed assets, the admin pauses, attaches and
\* closes, anyone sends shares and deposit tokens to the escrow.
EscrowVaultStep ==
    /\ \/ HolderStep
       \/ \E n \in Amounts : OperatorWithdraw(NoKey, n)
       \/ \E n \in Reports : OperatorUpdateAum(n)
       \/ Pause \/ Unpause
       \/ AttachWithdrawalQueue
       \/ CloseVault
       \/ \E k \in Depositors, n \in Amounts :
              TransferAssets(k, QueuePDA, n) \/ TransferShares(k, QueuePDA, n)
    /\ UNCHANGED queue_vars
EscrowSpec == QInit /\ [][QueueAdminStep \/ RequestStep \/ EscrowVaultStep]_qvars

\* Owners' cancellations are fair, nothing else is.
DrainSpec == EscrowSpec /\ CancelFairness
=============================================================================
