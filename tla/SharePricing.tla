---------------------------- MODULE SharePricing ----------------------------
(***************************************************************************)
(* The share-pricing arithmetic of the vault program                       *)
(* (programs/august-vault/src/state/vault.rs), as pure operators.          *)
(*                                                                         *)
(* S is the share supply (read from the SPL mint), T the vault's total     *)
(* assets (local_aum + deployed_aum), o the vault's share offset.  The     *)
(* operators are over the naturals.  Where the code's u128 and u64 cannot  *)
(* hold a product (MathError) or the result (NumberOverflow), the          *)
(* instruction fails, and the actions that price say so in their guards.   *)
(***************************************************************************)
EXTENDS Integers

Larger(m, n) == IF m >= n THEN m ELSE n
Smaller(m, n) == IF m <= n THEN m ELSE n

\* A vault that holds nothing against outstanding shares has no share price.
PriceDefined(S, T) == T > 0 \/ S = 0

SharesRoundedUp(S, T, a, o) == ((a * (S + o)) \div (T + o)) + 1

\* Shares minted for a deposit of a: rounded down, at least pro rata.
SharesForDeposit(S, T, a, o) ==
    LET withOffsets == (a * (S + o)) \div (T + o)
    IN  IF T = 0 THEN withOffsets ELSE Larger(withOffsets, (a * S) \div T)

AssetsByOffsetsOnly(S, T, x, o) == (x * (T + o)) \div (S + o)

\* Assets paid for x shares: rounded down, at most pro rata.
AssetsForRedeem(S, T, x, o) ==
    LET withOffsets == (x * (T + o)) \div (S + o)
    IN  IF S = 0 THEN withOffsets ELSE Smaller(withOffsets, (x * T) \div S)

\* Redeem::ceil_div, used for the withdrawal fee.
CeilDiv(n, d) == (n + d - 1) \div d

\* The smallest supply a vault may open with (min_opening_supply).
MinOpeningSupply(multiple, o) == multiple * o

\* The advertised minimum of the first deposit: the floor that follows from
\* the mint's decimals and the one that follows from the offset.
MinFirstDeposit(decimalsFloor, multiple, o) ==
    Larger(decimalsFloor, MinOpeningSupply(multiple, o))
=============================================================================
