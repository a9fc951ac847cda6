------------------------------- MODULE Tokens -------------------------------
(***************************************************************************)
(* SPL token balances as functions from the authority of a token account   *)
(* to its amount.  The token program is not part of this repository; these *)
(* operators state what the two programs rely on: a transfer moves exactly *)
(* its amount, a mint and a burn change one balance and the supply.        *)
(*                                                                         *)
(* Total is the sum of a function's values, as the number of its units.    *)
(* That definition needs no recursion, so lemmas about it can be proved.   *)
(***************************************************************************)
EXTENDS Integers, FiniteSets

Debit(balance, k, n)  == [balance EXCEPT ![k] = @ - n]
Credit(balance, k, n) == [balance EXCEPT ![k] = @ + n]

\* A transfer; from and to may be the same account (SPL accepts it as a no-op).
Move(balance, from, to, n) == Credit(Debit(balance, from, n), to, n)

Units(f) == UNION {{k} \X (1 .. f[k]) : k \in DOMAIN f}
Total(f) == Cardinality(Units(f))
=============================================================================
