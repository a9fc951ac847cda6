------------------------------ MODULE MCVault ------------------------------
(***************************************************************************)
(* Small instances of Vault for TLC.  Besides the whole specification, two *)
(* parts of it with larger numbers: who redeems how much at which price    *)
(* does not depend on the registry or on the admin's settings, and the     *)
(* registry's books do not depend on holders' trades.                      *)
(***************************************************************************)
EXTENDS Vault, TLC

CONSTANT Wealth   \* what each depositor owns when the vault opens

MCEndowment == [k \in Keys |-> IF k \in Depositors THEN Wealth ELSE 0]

\* Depositors differ in nothing but their balances, custodies likewise.
Symmetry == Permutations(Depositors) \cup Permutations(CustodyKeys)

\* Holders, operator, wider report limits, donations to the reserve, burns.
PricingNext ==
    \/ HolderStep
    \/ OperatorStep
    \/ \E i \in Limits, d \in Limits : SetAumLimits(i, d)
    \/ \E k \in Wallets, n \in Amounts :
           TransferAssets(k, VaultPDA, n) \/ BurnShares(k, n)
PricingSpec == Init /\ [][PricingNext]_vars

\* Operator, registry and custodies; deposits only fund the reserve.
CustodyNext ==
    \/ \E d \in Depositors, n \in Amounts : Deposit(d, n, 0)
    \/ \E sub \in registered \cup {NoKey}, n \in Amounts :
           OperatorWithdraw(sub, n) \/ OperatorDeposit(sub, n)
    \/ RegistryStep
    \/ \E k \in OperatorKeys : SetOperator(k)
    \/ \E c \in CustodyKeys, n \in Amounts :
           \/ Approve(c, n)
           \/ \E k \in OperatorKeys : TransferAssets(k, c, n) \/ TransferAssets(c, k, n)
CustodySpec == Init /\ [][CustodyNext]_vars
=============================================================================
