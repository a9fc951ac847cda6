----------------------------- MODULE SharePool -----------------------------
(***************************************************************************)
(* What the vault promises its share holders, with everything else left    *)
(* out: a pool of `total` assets and `supply` shares.  Whoever enters or   *)
(* leaves, the amount a redemption of y shares would be quoted never       *)
(* falls; it does when assets are lost with the shares left as they are.   *)
(* The vault module is shown to implement this specification, and to take  *)
(* the step of a loss only in the operator's report.                       *)
(***************************************************************************)
EXTENDS SharePricing

CONSTANT ShareOffset
VARIABLES supply, total

pool == <<supply, total>>

\* What redeeming y of S shares pays, before the fee.
Quote(S, T, y) == AssetsForRedeem(S, T, y, ShareOffset)

\* Every position that exists before and after is quoted at least as much.
NotDiluted(S, T, S2, T2) ==
    \A y \in 1 .. Smaller(S, S2) : Quote(S, T, y) <= Quote(S2, T2, y)

Init == supply = 0 /\ total = 0

\* A deposit: new shares against new assets.
Issue ==
    /\ supply' > supply /\ total' > total
    /\ PriceDefined(supply, total)
    /\ NotDiluted(supply, total, supply', total')

\* A redemption: shares leave and take assets along, never all of the assets
\* while shares remain.
Retire ==
    /\ supply' < supply /\ total' < total
    /\ total' = 0 => supply' = 0
    /\ NotDiluted(supply, total, supply', total')

\* Assets arrive without minting, or a holder burns shares.
Appreciate == supply' <= supply /\ total' >= total

\* A loss.  What may cause one is not the pool's to say: see HoldersPromise.
MarkDown == supply' = supply /\ total' < total

Next ==
    /\ supply' \in Nat /\ total' \in Nat
    /\ Issue \/ Retire \/ Appreciate \/ MarkDown

Spec == Init /\ [][Next]_pool
=============================================================================
