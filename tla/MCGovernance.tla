---------------------------- MODULE MCGovernance ----------------------------
(* Governance with three keys, so that an admin, a nominee and a rival (or the *)
(* two authorities and a newcomer) are all different, and symmetric ones.      *)
EXTENDS Governance, TLC

CONSTANTS k1, k2, k3

MCWallets == {k1, k2, k3}
KeySymmetry == Permutations(MCWallets)
=============================================================================
