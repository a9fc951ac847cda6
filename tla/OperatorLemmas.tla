---------------------------- MODULE OperatorLemmas ----------------------------
(***************************************************************************)
(* What is known of the operators the vault and the queue are built from:  *)
(* integer division and the pricing functions, and what a credit, a debit  *)
(* and a transfer do to the sum of all balances.                           *)
(***************************************************************************)
EXTENDS SharePricing, Tokens, FiniteSetTheorems, FunctionTheorems, TLAPS

(***************************************************************************)
(* Integer division                                                        *)
(***************************************************************************)

\* Euclid: the quotient is the largest number of whole divisors.
LEMMA DivBounds ==
    ASSUME NEW a \in Nat, NEW b \in Nat, b > 0
    PROVE  /\ a \div b \in Nat
           /\ (a \div b) * b <= a
           /\ a < (a \div b) * b + b
    BY SMT

\* q whole divisors fit, so the quotient is at least q.
LEMMA DivAtLeast ==
    ASSUME NEW a \in Nat, NEW b \in Nat, b > 0, NEW q \in Nat, q * b <= a
    PROVE  q <= a \div b
<1>1. a \div b \in Nat /\ a < (a \div b) * b + b
  BY DivBounds
<1>2. SUFFICES ASSUME q >= (a \div b) + 1 PROVE FALSE
  BY <1>1
<1>3. q * b >= ((a \div b) + 1) * b
  BY <1>1, <1>2
<1> QED BY <1>1, <1>3

\* fewer than q + 1 whole divisors fit, so the quotient is at most q.
LEMMA DivAtMost ==
    ASSUME NEW a \in Nat, NEW b \in Nat, b > 0, NEW q \in Nat, a < (q + 1) * b
    PROVE  a \div b <= q
    BY DivBounds

\* A larger fraction has a quotient at least as large.
LEMMA DivMonotone ==
    ASSUME NEW a \in Nat, NEW b \in Nat, NEW c \in Nat, NEW d \in Nat,
           b > 0, d > 0, c * b <= a * d
    PROVE  c \div d <= a \div b
<1> DEFINE q == c \div d
<1>1. q \in Nat /\ q * d <= c
  BY DivBounds
<1>2. (q * d) * b <= c * b
  BY <1>1
<1>3. (q * b) * d <= a * d
  BY <1>1, <1>2
<1>4. q * b <= a
  BY <1>1, <1>3
<1> QED BY <1>1, <1>4, DivAtLeast

(***************************************************************************)
(* Which of the two formulas binds: the offset one at or above par         *)
(* (T >= S), pro rata at or below it.                                      *)
(***************************************************************************)

\* Above par the offset leg of shares_for_deposit is the larger one.
LEMMA DepositAbovePar ==
    ASSUME NEW S \in Nat, NEW T \in Nat, NEW a \in Nat, NEW o \in Nat \ {0}, S <= T
    PROVE  SharesForDeposit(S, T, a, o) = (a * (S + o)) \div (T + o)
<1>1. CASE T = 0
  BY <1>1 DEF SharesForDeposit
<1>2. CASE T # 0
  <2>1. (a * S) * (T + o) <= (a * (S + o)) * T
    <3>1. o * S <= o * T OBVIOUS
    <3>2. S * (T + o) <= (S + o) * T BY <3>1
    <3>3. a * (S * (T + o)) <= a * ((S + o) * T) BY <3>2
    <3> QED BY <3>3
  <2>2. (a * S) \div T <= (a * (S + o)) \div (T + o)
    BY <1>2, <2>1, DivMonotone
  <2>3. (a * S) \div T \in Nat /\ (a * (S + o)) \div (T + o) \in Nat
    BY <1>2, DivBounds
  <2> QED BY <1>2, <2>2, <2>3 DEF SharesForDeposit, Larger
<1> QED BY <1>1, <1>2

\* Below par the pro-rata leg is the larger one.
LEMMA DepositBelowPar ==
    ASSUME NEW S \in Nat, NEW T \in Nat \ {0}, NEW a \in Nat, NEW o \in Nat \ {0}, T <= S
    PROVE  SharesForDeposit(S, T, a, o) = (a * S) \div T
<1>1. (a * (S + o)) * T <= (a * S) * (T + o)
  <2>1. o * T <= o * S OBVIOUS
  <2>2. (S + o) * T <= S * (T + o) BY <2>1
  <2>3. a * ((S + o) * T) <= a * (S * (T + o)) BY <2>2
  <2> QED BY <2>3
<1>2. (a * (S + o)) \div (T + o) <= (a * S) \div T
  BY <1>1, DivMonotone
<1>3. (a * S) \div T \in Nat /\ (a * (S + o)) \div (T + o) \in Nat
  BY DivBounds
<1> QED BY <1>2, <1>3 DEF SharesForDeposit, Larger

\* Above par the offset leg of assets_for_redeem is the smaller one.
LEMMA RedeemAbovePar ==
    ASSUME NEW S \in Nat, NEW T \in Nat, NEW x \in Nat, NEW o \in Nat \ {0}, S <= T
    PROVE  AssetsForRedeem(S, T, x, o) = (x * (T + o)) \div (S + o)
<1>1. CASE S = 0
  BY <1>1 DEF AssetsForRedeem
<1>2. CASE S # 0
  <2>1. (x * (T + o)) * S <= (x * T) * (S + o)
    <3>1. o * S <= o * T OBVIOUS
    <3>2. (T + o) * S <= T * (S + o) BY <3>1
    <3>3. x * ((T + o) * S) <= x * (T * (S + o)) BY <3>2
    <3> QED BY <3>3
  <2>2. (x * (T + o)) \div (S + o) <= (x * T) \div S
    BY <1>2, <2>1, DivMonotone
  <2>3. (x * T) \div S \in Nat /\ (x * (T + o)) \div (S + o) \in Nat
    BY <1>2, DivBounds
  <2> QED BY <1>2, <2>2, <2>3 DEF AssetsForRedeem, Smaller
<1> QED BY <1>1, <1>2

\* Below par the pro-rata cap binds.
LEMMA RedeemBelowPar ==
    ASSUME NEW S \in Nat \ {0}, NEW T \in Nat, NEW x \in Nat, NEW o \in Nat \ {0}, T <= S
    PROVE  AssetsForRedeem(S, T, x, o) = (x * T) \div S
<1>1. (x * T) * (S + o) <= (x * (T + o)) * S
  <2>1. o * T <= o * S OBVIOUS
  <2>2. T * (S + o) <= (T + o) * S BY <2>1
  <2>3. x * (T * (S + o)) <= x * ((T + o) * S) BY <2>2
  <2> QED BY <2>3
<1>2. (x * T) \div S <= (x * (T + o)) \div (S + o)
  BY <1>1, DivMonotone
<1>3. (x * T) \div S \in Nat /\ (x * (T + o)) \div (S + o) \in Nat
  BY DivBounds
<1> QED BY <1>2, <1>3 DEF AssetsForRedeem, Smaller

\* Both pricing functions return naturals.
LEMMA PricesAreNatural ==
    ASSUME NEW S \in Nat, NEW T \in Nat, NEW n \in Nat, NEW o \in Nat \ {0}
    PROVE  /\ SharesForDeposit(S, T, n, o) \in Nat
           /\ AssetsForRedeem(S, T, n, o) \in Nat
<1>1. (n * (S + o)) \div (T + o) \in Nat /\ (n * (T + o)) \div (S + o) \in Nat
  BY DivBounds
<1>2. T # 0 => (n * S) \div T \in Nat
  BY DivBounds
<1>3. S # 0 => (n * T) \div S \in Nat
  BY DivBounds
<1> QED BY <1>1, <1>2, <1>3 DEF SharesForDeposit, AssetsForRedeem, Larger, Smaller

(***************************************************************************)
(* A price that does not fall keeps every quote.                           *)
(***************************************************************************)

\* Above par a quote does not fall when the offset price does not.
LEMMA QuoteAbovePar ==
    ASSUME NEW S \in Nat, NEW T \in Nat, NEW S2 \in Nat, NEW T2 \in Nat,
           NEW o \in Nat \ {0}, NEW y \in Nat, S <= T, S2 <= T2,
           (T + o) * (S2 + o) <= (T2 + o) * (S + o)
    PROVE  AssetsForRedeem(S, T, y, o) <= AssetsForRedeem(S2, T2, y, o)
<1>1. (y * (T + o)) * (S2 + o) <= (y * (T2 + o)) * (S + o)
  <2>1. y * ((T + o) * (S2 + o)) <= y * ((T2 + o) * (S + o)) OBVIOUS
  <2> QED BY <2>1
<1>2. (y * (T + o)) \div (S + o) <= (y * (T2 + o)) \div (S2 + o)
  BY <1>1, DivMonotone
<1> QED BY <1>2, RedeemAbovePar

\* Below par a quote does not fall when the pro-rata price does not.
LEMMA QuoteBelowPar ==
    ASSUME NEW S \in Nat \ {0}, NEW T \in Nat, NEW S2 \in Nat \ {0}, NEW T2 \in Nat,
           NEW o \in Nat \ {0}, NEW y \in Nat, T <= S, T2 <= S2,
           T * S2 <= T2 * S
    PROVE  AssetsForRedeem(S, T, y, o) <= AssetsForRedeem(S2, T2, y, o)
<1>1. (y * T) * S2 <= (y * T2) * S
  <2>1. y * (T * S2) <= y * (T2 * S) OBVIOUS
  <2> QED BY <2>1
<1>2. (y * T) \div S <= (y * T2) \div S2
  BY <1>1, DivMonotone
<1> QED BY <1>2, RedeemBelowPar

\* More assets and no more shares: both formulas rise.
LEMMA QuoteAppreciates ==
    ASSUME NEW S \in Nat, NEW T \in Nat, NEW S2 \in Nat \ {0}, NEW T2 \in Nat,
           NEW o \in Nat \ {0}, NEW y \in Nat, T <= T2, S2 <= S
    PROVE  AssetsForRedeem(S, T, y, o) <= AssetsForRedeem(S2, T2, y, o)
<1>1. (y * (T + o)) * (S2 + o) <= (y * (T2 + o)) * (S + o)
  <2>1. (T + o) * (S2 + o) <= (T2 + o) * (S2 + o) OBVIOUS
  <2>2. (T2 + o) * (S2 + o) <= (T2 + o) * (S + o) OBVIOUS
  <2>3. y * ((T + o) * (S2 + o)) <= y * ((T2 + o) * (S + o)) BY <2>1, <2>2
  <2> QED BY <2>3
<1>2. (y * T) * S2 <= (y * T2) * S
  <2>1. T * S2 <= T2 * S2 OBVIOUS
  <2>2. T2 * S2 <= T2 * S OBVIOUS
  <2>3. y * (T * S2) <= y * (T2 * S) BY <2>1, <2>2
  <2> QED BY <2>3
<1>3. (y * (T + o)) \div (S + o) <= (y * (T2 + o)) \div (S2 + o)
  BY <1>1, DivMonotone
<1>4. (y * T) \div S <= (y * T2) \div S2
  BY <1>2, DivMonotone
<1>5. /\ (y * (T + o)) \div (S + o) \in Nat /\ (y * T) \div S \in Nat
      /\ (y * (T2 + o)) \div (S2 + o) \in Nat /\ (y * T2) \div S2 \in Nat
  BY DivBounds
<1> QED BY <1>3, <1>4, <1>5 DEF AssetsForRedeem, Smaller

(***************************************************************************)
(* Deposits                                                                *)
(***************************************************************************)

\* At or above par a deposit stays there and does not lower the price.
LEMMA DepositPriceAbovePar ==
    ASSUME NEW S \in Nat, NEW T \in Nat, NEW a \in Nat, NEW o \in Nat \ {0}, S <= T,
           NEW s \in Nat, s = SharesForDeposit(S, T, a, o)
    PROVE  /\ s * (T + o) <= a * (S + o)
           /\ a * (S + o) < s * (T + o) + (T + o)
           /\ S + s <= T + a
           /\ (T + o) * (S + s + o) <= (T + a + o) * (S + o)
<1>0. s = (a * (S + o)) \div (T + o) /\ a * (S + o) \in Nat /\ T + o \in Nat /\ T + o > 0
  BY DepositAbovePar
<1>1. /\ s * (T + o) <= a * (S + o)
      /\ a * (S + o) < s * (T + o) + (T + o)
  BY <1>0, DivBounds
<1>2. s <= a
  <2>1. a * (S + o) <= a * (T + o) OBVIOUS
  <2>2. s * (T + o) <= a * (T + o) BY <1>1, <2>1
  <2> QED BY <2>2
<1>3. (T + o) * (S + s + o) <= (T + a + o) * (S + o)
  <2>1. (T + o) * (S + s + o) = (T + o) * (S + o) + s * (T + o) OBVIOUS
  <2>2. (T + a + o) * (S + o) = (T + o) * (S + o) + a * (S + o) OBVIOUS
  <2> QED BY <1>1, <2>1, <2>2
<1> QED BY <1>1, <1>2, <1>3

\* Below par a deposit stays below and does not lower the price.
LEMMA DepositPriceBelowPar ==
    ASSUME NEW S \in Nat, NEW T \in Nat \ {0}, NEW a \in Nat, NEW o \in Nat \ {0}, T <= S,
           NEW s \in Nat, s = SharesForDeposit(S, T, a, o)
    PROVE  /\ s * T <= a * S
           /\ a * S < s * T + T
           /\ T + a <= S + s
           /\ T * (S + s) <= (T + a) * S
<1>0. s = (a * S) \div T /\ a * S \in Nat
  BY DepositBelowPar
<1>1. /\ s * T <= a * S
      /\ a * S < s * T + T
  BY <1>0, DivBounds
<1>2. a <= s
  <2>1. a * T <= a * S OBVIOUS
  <2> QED BY <1>0, <2>1, DivAtLeast
<1>3. T * (S + s) <= (T + a) * S
  <2>1. T * (S + s) = T * S + s * T OBVIOUS
  <2>2. (T + a) * S = T * S + a * S OBVIOUS
  <2> QED BY <1>1, <2>1, <2>2
<1> QED BY <1>1, <1>2, <1>3

\* Minting at the code's price never lowers what an incumbent's position is
\* quoted.
THEOREM DepositKeepsQuotes ==
    ASSUME NEW S \in Nat \ {0}, NEW T \in Nat, NEW a \in Nat, NEW o \in Nat \ {0},
           PriceDefined(S, T), NEW y \in Nat
    PROVE  AssetsForRedeem(S, T, y, o) <=
               AssetsForRedeem(S + SharesForDeposit(S, T, a, o), T + a, y, o)
<1> DEFINE s == SharesForDeposit(S, T, a, o)
<1>1. s \in Nat
  BY PricesAreNatural
<1>2. PICK S2 \in Nat, T2 \in Nat : S2 = S + s /\ T2 = T + a
  BY <1>1
<1>3. SUFFICES AssetsForRedeem(S, T, y, o) <= AssetsForRedeem(S2, T2, y, o)
  BY <1>2
<1> HIDE DEF s
<1>4. CASE S <= T
  <2>1. S2 <= T2 /\ (T + o) * (S2 + o) <= (T2 + o) * (S + o)
    BY <1>1, <1>2, <1>4, DepositPriceAbovePar DEF s
  <2> QED BY <1>4, <2>1, QuoteAbovePar
<1>5. CASE T < S
  <2>1. T # 0
    BY DEF PriceDefined
  <2>2. T2 <= S2 /\ T * S2 <= T2 * S
    BY <1>1, <1>2, <1>5, <2>1, DepositPriceBelowPar DEF s
  <2>3. S2 # 0
    BY <1>1, <1>2
  <2> QED BY <1>5, <2>2, <2>3, QuoteBelowPar
<1> QED BY <1>4, <1>5

\* redeem(deposit(a)) <= a, and what is forfeited is less than the price of
\* one share and one unit.
THEOREM RoundTrip ==
    ASSUME NEW S \in Nat, NEW T \in Nat, NEW a \in Nat, NEW o \in Nat \ {0},
           PriceDefined(S, T),
           NEW s \in Nat, s = SharesForDeposit(S, T, a, o),
           NEW back \in Nat, back = AssetsForRedeem(S + s, T + a, s, o)
    PROVE  /\ back <= a
           /\ a * (S + o) < (back + 1) * (S + o) + T + o
<1>0. PICK S2 \in Nat, T2 \in Nat : S2 = S + s /\ T2 = T + a
  OBVIOUS
<1>1. CASE S <= T
  <2>1. /\ s * (T + o) <= a * (S + o)
        /\ a * (S + o) < s * (T + o) + (T + o)
        /\ S + s <= T + a
        /\ (T + o) * (S + s + o) <= (T + a + o) * (S + o)
    BY <1>1, DepositPriceAbovePar
  <2>2. back = (s * (T2 + o)) \div (S2 + o)
    <3>1. back = AssetsForRedeem(S2, T2, s, o) /\ S2 <= T2 BY <1>0, <2>1
    <3>2. \A U, V \in Nat : U <= V =>
              AssetsForRedeem(U, V, s, o) = (s * (V + o)) \div (U + o)
      BY ONLY s \in Nat, o \in Nat \ {0}, RedeemAbovePar
    <3> QED BY <3>1, <3>2, Zenon
  <2>3. back <= a
    <3>1. s * (T + a + o) = s * (T + o) + s * a OBVIOUS
    <3>2. (a + 1) * (S + s + o) = a * (S + o) + a * s + (S + s + o) OBVIOUS
    <3>3. s * (T2 + o) < (a + 1) * (S2 + o) BY <1>0, <2>1, <3>1, <3>2
    <3> QED BY <2>2, <3>3, DivAtMost
  <2>4. s * (T + o) < (back + 1) * (S + o)
    <3>0. s * (T2 + o) < back * (S2 + o) + (S2 + o)
      BY <2>2, DivBounds
    <3>1. s * (T + a + o) < (back + 1) * (S + s + o)
      BY <1>0, <3>0
    <3>2. (s * (T + a + o)) * (S + o) < ((back + 1) * (S + s + o)) * (S + o)
      BY <3>1
    <3>3. s * ((T + o) * (S + s + o)) <= s * ((T + a + o) * (S + o))
      BY <2>1
    <3>4. (s * (T + o)) * (S + s + o) < ((back + 1) * (S + o)) * (S + s + o)
      BY <3>2, <3>3
    <3> QED BY <3>4
  <2> QED BY <2>1, <2>3, <2>4
<1>2. CASE T < S
  <2>0. T # 0
    BY <1>2 DEF PriceDefined
  <2>1. /\ s * T <= a * S
        /\ a * S < s * T + T
        /\ T + a <= S + s
        /\ T * (S + s) <= (T + a) * S
    BY <1>2, <2>0, DepositPriceBelowPar
  <2>2. back = (s * T2) \div S2 /\ S2 > 0
    <3>1. back = AssetsForRedeem(S2, T2, s, o) /\ T2 <= S2 /\ S2 > 0
      BY <1>0, <1>2, <2>1
    <3>2. \A U \in Nat \ {0}, V \in Nat : V <= U =>
              AssetsForRedeem(U, V, s, o) = (s * V) \div U
      BY ONLY s \in Nat, o \in Nat \ {0}, RedeemBelowPar
    <3>3. S2 \in Nat \ {0}
      BY <3>1
    <3> QED BY <3>1, <3>2, <3>3, Zenon
  <2>3. back <= a
    <3>1. s * (T + a) = s * T + s * a OBVIOUS
    <3>2. (a + 1) * (S + s) = a * S + a * s + (S + s) OBVIOUS
    <3>3. s * T2 < (a + 1) * S2 BY <1>0, <1>2, <2>1, <3>1, <3>2
    <3> QED BY <2>2, <3>3, DivAtMost
  <2>4. s * T < (back + 1) * S
    <3>0. s * T2 < back * S2 + S2
      BY <2>2, DivBounds
    <3>1. s * (T + a) < (back + 1) * (S + s)
      BY <1>0, <3>0
    <3>2. (s * (T + a)) * S < ((back + 1) * (S + s)) * S
      BY <1>2, <3>1
    <3>3. s * (T * (S + s)) <= s * ((T + a) * S)
      BY <2>1
    <3>4. (s * T) * (S + s) < ((back + 1) * S) * (S + s)
      BY <3>2, <3>3
    <3> QED BY <1>2, <3>4
  <2>5. a <= back + 1
    <3>0. a * S \in Int /\ s * T \in Int /\ (back + 1) * S \in Int
      OBVIOUS
    <3>1. a * S < (back + 1) * S + S
      BY <1>2, <2>1, <2>4, <3>0
    <3>2. a * S < (back + 2) * S
      BY <3>1
    <3>3. a < back + 2
      BY <1>2, <3>2
    <3> QED BY <3>3
  <2>6. a * (S + o) <= (back + 1) * (S + o)
    BY <2>5
  <2> QED BY <2>3, <2>6
<1> QED BY <1>1, <1>2

(***************************************************************************)
(* Redemptions                                                             *)
(***************************************************************************)

\* Paying the code's price for x shares leaves the assets to pay it, leaves
\* something for the shares that remain, and does not lower their quotes.
THEOREM RedeemKeepsQuotes ==
    ASSUME NEW S \in Nat \ {0}, NEW T \in Nat \ {0}, NEW x \in Nat, x <= S,
           NEW o \in Nat \ {0}, NEW p \in Nat, p = AssetsForRedeem(S, T, x, o)
    PROVE  /\ p <= T
           /\ x < S => p < T
           /\ x < S => \A y \in Nat : AssetsForRedeem(S, T, y, o) <=
                                        AssetsForRedeem(S - x, T - p, y, o)
<1>1. CASE S <= T
  <2>0. p = (x * (T + o)) \div (S + o) /\ x * (T + o) \in Nat /\ S + o \in Nat /\ S + o > 0
    BY <1>1, RedeemAbovePar
  <2>1. p * (S + o) <= x * (T + o)
    BY <2>0, DivBounds
  <2>2. p <= T - S + x
    <3>1. 0 <= (T - S) * (S + o - x) BY <1>1
    <3>2. (T - S + x) * (S + o) = x * (T + o) + (T - S) * (S + o - x) OBVIOUS
    <3>3. p * (S + o) <= (T - S + x) * (S + o) BY <2>1, <3>1, <3>2
    <3> QED BY <1>1, <3>3
  <2>3. (T + o) * (S - x + o) <= (T - p + o) * (S + o)
    <3>1. (T + o) * (S - x + o) = (T + o) * (S + o) - x * (T + o) OBVIOUS
    <3>2. (T - p + o) * (S + o) = (T + o) * (S + o) - p * (S + o) OBVIOUS
    <3> QED BY <2>1, <3>1, <3>2
  <2>4. p <= T /\ S - x <= T - p /\ (x < S => p < T)
    BY <1>1, <2>2
  <2>5. ASSUME NEW y \in Nat
        PROVE  AssetsForRedeem(S, T, y, o) <= AssetsForRedeem(S - x, T - p, y, o)
    <3>1. PICK S2 \in Nat, T2 \in Nat : S2 = S - x /\ T2 = T - p
      BY <2>4
    <3>2. S2 <= T2 /\ (T + o) * (S2 + o) <= (T2 + o) * (S + o)
      BY <2>3, <2>4, <3>1
    <3> QED BY <1>1, <3>1, <3>2, QuoteAbovePar
  <2> QED BY <2>4, <2>5
<1>2. CASE T < S
  <2>0. p = (x * T) \div S /\ x * T \in Nat
    BY <1>2, RedeemBelowPar
  <2>1. p * S <= x * T /\ x * T < p * S + S
    BY <2>0, DivBounds
  <2>2. p <= T
    <3>1. x * T <= S * T OBVIOUS
    <3>2. p * S <= T * S BY <2>1, <3>1
    <3> QED BY <3>2
  <2>3. T - p <= S - x
    <3>1. SUFFICES ASSUME S - T + 1 <= x - p PROVE FALSE
      BY <2>2
    <3>2. (S - T + 1) * S <= (x - p) * S
      BY <3>1
    <3>3. x * (S - T) <= S * (S - T)
      BY <1>2
    <3>4. (x - p) * S = x * S - p * S /\ x * (S - T) = x * S - x * T
      OBVIOUS
    <3>5. (x - p) * S < x * (S - T) + S
      BY <2>1, <3>4
    <3>6. (S - T + 1) * S = S * (S - T) + S
      OBVIOUS
    <3> QED BY <3>2, <3>3, <3>5, <3>6
  <2>4. T * (S - x) <= (T - p) * S
    <3>1. T * (S - x) = T * S - x * T /\ (T - p) * S = T * S - p * S OBVIOUS
    <3> QED BY <2>1, <3>1
  <2>5. ASSUME x < S PROVE p < T
    <3>1. 0 < T * (S - x) BY <2>5
    <3>2. 0 < (T - p) * S BY <2>4, <3>1
    <3> QED BY <2>2, <3>2
  <2>6. ASSUME x < S, NEW y \in Nat
        PROVE  AssetsForRedeem(S, T, y, o) <= AssetsForRedeem(S - x, T - p, y, o)
    <3>0. S - x \in Nat /\ T - p \in Nat
      BY <2>2
    <3>1. PICK S2 \in Nat, T2 \in Nat : S2 = S - x /\ T2 = T - p
      BY <3>0
    <3>2. T2 <= S2 /\ T * S2 <= T2 * S /\ S2 # 0
      BY <2>3, <2>4, <2>6, <3>1
    <3>3. AssetsForRedeem(S, T, y, o) <= AssetsForRedeem(S2, T2, y, o)
      BY <1>2, <3>2, QuoteBelowPar
    <3> QED BY <3>1, <3>3
  <2> QED BY <2>2, <2>5, <2>6
<1> QED BY <1>1, <1>2

\* A redemption is quoted at most its share of the assets.
LEMMA QuoteAtMostProRata ==
    ASSUME NEW S \in Nat \ {0}, NEW T \in Nat, NEW x \in Nat, NEW o \in Nat \ {0}
    PROVE  AssetsForRedeem(S, T, x, o) * S <= x * T
<1> DEFINE p == (x * T) \div S
<1>1. p \in Nat /\ p * S <= x * T
  BY DivBounds
<1>2. AssetsForRedeem(S, T, x, o) \in Nat
  BY PricesAreNatural
<1>3. (x * (T + o)) \div (S + o) \in Nat
  BY DivBounds
<1>4. AssetsForRedeem(S, T, x, o) <= p
  BY <1>1, <1>3 DEF AssetsForRedeem, Smaller
<1>5. AssetsForRedeem(S, T, x, o) * S <= p * S
  BY <1>1, <1>2, <1>4
<1> HIDE DEF p
<1> QED BY <1>1, <1>2, <1>5

(***************************************************************************)
(* Sums of balances                                                        *)
(***************************************************************************)

\* The units of account k when it holds n, and the units of all other accounts.
Column(k, n) == {k} \X (1 .. n)
Rest(f, k) == UNION {Column(j, f[j]) : j \in DOMAIN f \ {k}}

\* A balance of n is n units.
LEMMA ColumnCardinality ==
    ASSUME NEW k, NEW n \in Nat
    PROVE  IsFiniteSet(Column(k, n)) /\ Cardinality(Column(k, n)) = n
<1> DEFINE b == [i \in 1 .. n |-> <<k, i>>]
<1>1. b \in Bijection(1 .. n, Column(k, n))
  <2>1. b \in [1 .. n -> Column(k, n)]
    BY DEF Column
  <2>2. \A i, j \in 1 .. n : b[i] = b[j] => i = j
    OBVIOUS
  <2>3. \A u \in Column(k, n) : \E i \in 1 .. n : b[i] = u
    BY DEF Column
  <2> QED BY <2>1, <2>2, <2>3 DEF Bijection, Injection, Surjection, IsInjective
<1>2. ExistsBijection(1 .. n, Column(k, n))
  BY <1>1 DEF ExistsBijection
<1>3. IsFiniteSet(1 .. n) /\ Cardinality(1 .. n) = n
  BY FS_Interval
<1> QED BY <1>2, <1>3, FS_Bijection

\* Finitely many accounts have finitely many units.
LEMMA RestFinite ==
    ASSUME NEW D, IsFiniteSet(D), NEW f \in [D -> Nat], NEW k \in D
    PROVE  IsFiniteSet(Rest(f, k))
<1> DEFINE E == D \ {k}
           C == {Column(j, f[j]) : j \in E}
           g == [j \in E |-> Column(j, f[j])]
<1>1. IsFiniteSet(E)
  BY FS_RemoveElement
<1>2. g \in Surjection(E, C)
  BY DEF Surjection
<1>3. IsFiniteSet(C)
  BY <1>1, <1>2, FS_Surjection
<1>4. \A c \in C : IsFiniteSet(c)
  BY ColumnCardinality
<1>5. IsFiniteSet(UNION C)
  BY <1>3, <1>4, FS_UNION
<1> QED BY <1>5 DEF Rest

\* The sum is one balance and the rest.
LEMMA TotalSplit ==
    ASSUME NEW D, IsFiniteSet(D), NEW f \in [D -> Nat], NEW k \in D
    PROVE  /\ IsFiniteSet(Rest(f, k)) /\ Cardinality(Rest(f, k)) \in Nat
           /\ Total(f) = f[k] + Cardinality(Rest(f, k))
<1>1. IsFiniteSet(Rest(f, k)) /\ Cardinality(Rest(f, k)) \in Nat
  BY RestFinite, FS_CardinalityType
<1>2. Units(f) = Column(k, f[k]) \cup Rest(f, k)
  BY DEF Units, Rest, Column
<1>3. Column(k, f[k]) \cap Rest(f, k) = {}
  BY DEF Rest, Column
<1>4. IsFiniteSet(Column(k, f[k])) /\ Cardinality(Column(k, f[k])) = f[k]
  BY ColumnCardinality
<1>5. Cardinality(Column(k, f[k]) \cup Rest(f, k)) = f[k] + Cardinality(Rest(f, k)) - Cardinality({})
  BY <1>1, <1>3, <1>4, FS_Union
<1>6. Cardinality({}) = 0
  BY FS_EmptySet
<1> QED BY <1>1, <1>2, <1>5, <1>6 DEF Total

\* The sum is a number that no balance exceeds.
LEMMA TotalIsNatural ==
    ASSUME NEW D, IsFiniteSet(D), NEW f \in [D -> Nat]
    PROVE  /\ Total(f) \in Nat
           /\ \A k \in D : f[k] <= Total(f)
<1>1. ASSUME NEW k \in D PROVE Total(f) \in Nat /\ f[k] <= Total(f)
  BY TotalSplit
<1>2. CASE D = {}
  <2>1. Units(f) = {}
    BY <1>2 DEF Units
  <2> QED BY <1>2, <2>1, FS_EmptySet DEF Total
<1>3. CASE D # {}
  BY <1>1, <1>3
<1> QED BY <1>2, <1>3

\* Replacing one balance changes the sum by the difference.
LEMMA TotalUpdate ==
    ASSUME NEW D, IsFiniteSet(D), NEW f \in [D -> Nat], NEW k \in D, NEW v \in Nat
    PROVE  Total([f EXCEPT ![k] = v]) = Total(f) - f[k] + v
<1> DEFINE g == [f EXCEPT ![k] = v]
<1>1. g \in [D -> Nat] /\ g[k] = v
  OBVIOUS
<1>2. Rest(g, k) = Rest(f, k)
  BY DEF Rest
<1>3. Total(g) = v + Cardinality(Rest(f, k))
  BY <1>1, <1>2, TotalSplit
<1> QED BY <1>3, TotalSplit

\* A mint adds its amount to the sum.
LEMMA TotalCredit ==
    ASSUME NEW D, IsFiniteSet(D), NEW f \in [D -> Nat], NEW k \in D, NEW n \in Nat
    PROVE  /\ Credit(f, k, n) \in [D -> Nat]
           /\ Total(Credit(f, k, n)) = Total(f) + n
<1>1. f[k] + n \in Nat /\ f[k] \in Nat /\ Total(f) \in Nat
  BY TotalIsNatural
<1>2. Credit(f, k, n) = [f EXCEPT ![k] = f[k] + n]
  BY DEF Credit
<1>3. Total([f EXCEPT ![k] = f[k] + n]) = Total(f) - f[k] + (f[k] + n)
  BY <1>1, TotalUpdate
<1> QED BY <1>1, <1>2, <1>3

\* A burn takes its amount from the sum.
LEMMA TotalDebit ==
    ASSUME NEW D, IsFiniteSet(D), NEW f \in [D -> Nat], NEW k \in D, NEW n \in Nat, n <= f[k]
    PROVE  /\ Debit(f, k, n) \in [D -> Nat]
           /\ Total(Debit(f, k, n)) = Total(f) - n
<1>1. f[k] - n \in Nat /\ f[k] \in Nat /\ Total(f) \in Nat
  BY TotalIsNatural
<1>2. Debit(f, k, n) = [f EXCEPT ![k] = f[k] - n]
  BY DEF Debit
<1>3. Total([f EXCEPT ![k] = f[k] - n]) = Total(f) - f[k] + (f[k] - n)
  BY <1>1, TotalUpdate
<1> QED BY <1>1, <1>2, <1>3

\* What a transfer does to each balance.
LEMMA MoveBalances ==
    ASSUME NEW D, NEW f \in [D -> Nat], NEW from \in D, NEW to \in D,
           NEW n \in Nat, n <= f[from]
    PROVE  /\ Move(f, from, to, n) \in [D -> Nat]
           /\ \A k \in D : Move(f, from, to, n)[k] =
                 f[k] - (IF k = from THEN n ELSE 0) + (IF k = to THEN n ELSE 0)
BY DEF Move, Credit, Debit

-----------------------------------------------------------------------------
(* Comparing sums.  A sum is a number of units, so multiplying all balances  *)
(* by c is counting each unit c times, and no induction over accounts is     *)
(* needed.                                                                   *)

\* Finitely many accounts have finitely many units.
LEMMA UnitsFinite ==
    ASSUME NEW D, IsFiniteSet(D), NEW f \in [D -> Nat]
    PROVE  IsFiniteSet(Units(f))
<1>1. CASE D = {}
  <2>1. Units(f) = {}
    BY <1>1 DEF Units
  <2> QED BY <2>1, FS_EmptySet
<1>2. ASSUME NEW k \in D PROVE IsFiniteSet(Units(f))
  <2>1. Units(f) = Column(k, f[k]) \cup Rest(f, k)
    BY DEF Units, Rest, Column
  <2>2. IsFiniteSet(Column(k, f[k])) /\ IsFiniteSet(Rest(f, k))
    BY ColumnCardinality, RestFinite
  <2> QED BY <2>1, <2>2, FS_Union
<1> QED BY <1>1, <1>2

\* Larger balances have a larger sum.
LEMMA TotalMonotone ==
    ASSUME NEW D, IsFiniteSet(D), NEW f \in [D -> Nat], NEW g \in [D -> Nat],
           \A k \in D : f[k] <= g[k]
    PROVE  Total(f) <= Total(g)
<1>1. Units(f) \subseteq Units(g)
  BY DEF Units
<1>2. IsFiniteSet(Units(g))
  BY UnitsFinite
<1> QED BY <1>1, <1>2, FS_Subset DEF Total

\* Every number is some whole steps of length c and a remainder of 1 to c.
LEMMA EuclidExists ==
    ASSUME NEW c \in Nat \ {0}, NEW n \in Nat, NEW m \in 1 .. n * c
    PROVE  \E i \in 1 .. n, j \in 1 .. c : m = (i - 1) * c + j
<1> DEFINE q == (m - 1) \div c
<1>1. m \in Nat /\ m - 1 \in Nat /\ m <= n * c
  OBVIOUS
<1>2. q \in Nat /\ q * c <= m - 1 /\ m - 1 < q * c + c
  BY <1>1, SMT
<1> HIDE DEF q
<1>3. q < n
  <2> SUFFICES ASSUME q >= n PROVE FALSE
    BY <1>2
  <2>1. q * c >= n * c
    BY <1>2
  <2> QED BY <1>1, <1>2, <2>1
<1>4. m - q * c \in 1 .. c
  BY <1>1, <1>2
<1>5. q + 1 \in 1 .. n /\ m = ((q + 1) - 1) * c + (m - q * c)
  BY <1>1, <1>2, <1>3
<1> QED BY <1>4, <1>5

\* There is only one such number of steps, and one such remainder.
LEMMA EuclidUnique ==
    ASSUME NEW c \in Nat \ {0}, NEW i \in Nat, NEW h \in Nat,
           NEW j \in 1 .. c, NEW l \in 1 .. c, i * c + j = h * c + l
    PROVE  i = h /\ j = l
<1>1. ASSUME NEW a \in Nat, NEW b \in Nat, NEW x \in 1 .. c, NEW y \in 1 .. c,
             a * c + x = b * c + y
      PROVE  a <= b
  <2> SUFFICES ASSUME a >= b + 1 PROVE FALSE
    BY <1>1
  <2>1. a * c >= (b + 1) * c
    OBVIOUS
  <2>2. (b + 1) * c = b * c + c
    OBVIOUS
  <2> QED BY <1>1, <2>1, <2>2
<1>2. i <= h /\ h <= i
  BY <1>1
<1> QED BY <1>2

\* c times every balance is c times the sum.
LEMMA TotalScaled ==
    ASSUME NEW D, IsFiniteSet(D), NEW f \in [D -> Nat], NEW c \in Nat
    PROVE  Total([k \in D |-> f[k] * c]) = Total(f) * c
<1> DEFINE g == [k \in D |-> f[k] * c]
           U == Units(f) \X (1 .. c)
           b == [u \in U |-> <<u[1][1], (u[1][2] - 1) * c + u[2]>>]
<1>1. g \in [D -> Nat]
  OBVIOUS
<1>2. IsFiniteSet(U) /\ Cardinality(U) = Total(f) * c
  <2>1. IsFiniteSet(1 .. c) /\ Cardinality(1 .. c) = c
    BY FS_Interval
  <2>2. IsFiniteSet(Units(f))
    BY UnitsFinite
  <2> QED BY <2>1, <2>2, FS_Product DEF Total
<1>3. CASE c = 0
  <2>1. Units(g) = {}
    BY <1>3 DEF Units
  <2>2. Total(f) \in Nat
    BY TotalIsNatural
  <2>3. Total(f) * c = 0
    BY <1>3, <2>2
  <2>4. Total(g) = 0
    BY <2>1, FS_EmptySet, Zenon DEF Total
  <2> QED BY <2>3, <2>4
<1>4. CASE c # 0
  <2>0. c \in Nat \ {0}
    BY <1>4
  <2>1. \A v : v \in Units(g) <=> \E k \in D : \E m \in 1 .. f[k] * c : v = <<k, m>>
    BY DEF Units
  <2>2. \A u : u \in U <=> \E k \in D : \E i \in 1 .. f[k], j \in 1 .. c : u = <<<<k, i>>, j>>
    BY DEF Units
  <2>3. ASSUME NEW k \in D, NEW i \in 1 .. f[k], NEW j \in 1 .. c
        PROVE  b[<<<<k, i>>, j>>] = <<k, (i - 1) * c + j>>
    BY <2>2
  <2> HIDE DEF b, U, g
  <2>4. ASSUME NEW u \in U PROVE b[u] \in Units(g)
    <3>1. PICK k \in D : \E i \in 1 .. f[k], j \in 1 .. c : u = <<<<k, i>>, j>>
      BY <2>2
    <3>2. PICK i \in 1 .. f[k], j \in 1 .. c : u = <<<<k, i>>, j>>
      BY <3>1
    <3>3. f[k] \in Nat /\ i \in Nat /\ i - 1 \in Nat /\ (i - 1) * c \in Nat
      OBVIOUS
    <3>4. i * c <= f[k] * c /\ (i - 1) * c = i * c - c
      BY <3>3
    <3>5. (i - 1) * c + j \in 1 .. f[k] * c
      BY <3>3, <3>4
    <3> QED BY <2>1, <2>3, <3>2, <3>5
  <2>5. ASSUME NEW u \in U, NEW v \in U, b[u] = b[v] PROVE u = v
    <3>1. PICK k \in D : \E i \in 1 .. f[k], j \in 1 .. c : u = <<<<k, i>>, j>>
      BY <2>2
    <3>2. PICK i \in 1 .. f[k], j \in 1 .. c : u = <<<<k, i>>, j>>
      BY <3>1
    <3>3. PICK h \in D : \E l \in 1 .. f[h], m \in 1 .. c : v = <<<<h, l>>, m>>
      BY <2>2
    <3>4. PICK l \in 1 .. f[h], m \in 1 .. c : v = <<<<h, l>>, m>>
      BY <3>3
    <3>5. k = h /\ (i - 1) * c + j = (l - 1) * c + m
      <4>1. b[u] = <<k, (i - 1) * c + j>> /\ b[v] = <<h, (l - 1) * c + m>>
        BY <2>3, <3>2, <3>4
      <4>2. <<k, (i - 1) * c + j>> = <<h, (l - 1) * c + m>>
        BY <2>5, <4>1
      <4> QED BY <4>2, Zenon
    <3>6. i - 1 \in Nat /\ l - 1 \in Nat
      OBVIOUS
    <3>7. i - 1 = l - 1 /\ j = m
      BY <2>0, <3>5, <3>6, EuclidUnique
    <3>8. i = l
      BY <3>7
    <3> QED BY <3>2, <3>4, <3>5, <3>7, <3>8
  <2>6. ASSUME NEW v \in Units(g) PROVE \E u \in U : b[u] = v
    <3>1. PICK k \in D : \E m \in 1 .. f[k] * c : v = <<k, m>>
      BY <2>1
    <3>2. PICK m \in 1 .. f[k] * c : v = <<k, m>>
      BY <3>1
    <3>3. f[k] \in Nat /\ m \in Nat
      OBVIOUS
    <3>4. PICK i \in 1 .. f[k], j \in 1 .. c : m = (i - 1) * c + j
      BY <2>0, <3>3, EuclidExists
    <3>5. <<<<k, i>>, j>> \in U
      BY <2>2
    <3> QED BY <2>3, <3>2, <3>4, <3>5
  <2>7. b \in Bijection(U, Units(g))
    <3>1. b \in [U -> Units(g)]
      BY <2>4 DEF b
    <3> QED BY <2>5, <2>6, <3>1 DEF Bijection, Injection, Surjection, IsInjective
  <2>8. Cardinality(Units(g)) = Cardinality(U)
    BY <1>2, <2>7, FS_Bijection DEF ExistsBijection
  <2> QED BY <1>2, <2>8 DEF Total, g
<1> QED BY <1>3, <1>4

\* Parts of T that are at most in proportion to the balances fit into T.
LEMMA ProRataFits ==
    ASSUME NEW D, IsFiniteSet(D), NEW f \in [D -> Nat], NEW q \in [D -> Nat],
           NEW T \in Nat, NEW S \in Nat \ {0}, Total(f) = S,
           \A k \in D : q[k] * S <= f[k] * T
    PROVE  Total(q) <= T
<1> DEFINE a == [k \in D |-> q[k] * S]
           b == [k \in D |-> f[k] * T]
<1>1. a \in [D -> Nat] /\ b \in [D -> Nat] /\ \A k \in D : a[k] <= b[k]
  OBVIOUS
<1>2. Total(a) <= Total(b)
  BY <1>1, TotalMonotone
<1>3. Total(a) = Total(q) * S
  <2>1. \A c \in Nat : Total([k \in D |-> q[k] * c]) = Total(q) * c
    BY TotalScaled
  <2> QED BY <2>1
<1>4. Total(b) = Total(f) * T
  BY TotalScaled, Zenon
<1>5. Total(q) \in Nat
  BY TotalIsNatural
<1> HIDE DEF a, b
<1>6. Total(q) * S <= S * T
  BY <1>2, <1>3, <1>4
<1> QED BY <1>5, <1>6
=============================================================================
