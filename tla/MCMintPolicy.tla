---------------------------- MODULE MCMintPolicy ----------------------------
(* Every pair of mints with at most two extensions each. *)
EXTENDS MintPolicy
=============================================================================
