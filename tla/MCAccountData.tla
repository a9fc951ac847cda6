--------------------------- MODULE MCAccountData ---------------------------
(* Every account type of both programs, all releases of VaultState, and       *)
(* offsets below and above the floor that a mint's decimals put on a deposit. *)
EXTENDS AccountData
CONSTANTS a1, a2
Accounts == {a1, a2}
StoredValues == {1000, 10000}
MintDecimals == {0, 3, 4, 6, 9, 12}
AllKinds == DOMAIN P!LEN
AddressesAlike == Permutations(Addresses)
=============================================================================
