----------------------------- MODULE Governance -----------------------------
(***************************************************************************)
(* Who may create vaults and who runs them: the program configuration, the *)
(* life of every vault namespace from initialize to close_vault, the       *)
(* admin's nomination, and the metadata of the share mint.                 *)
(*                                                                         *)
(* A namespace is a (deposit mint, vault_version) pair.  It is the seed of *)
(* four accounts that live apart from each other: the vault state, the     *)
(* share mint, the pending nomination and (through the share mint) the     *)
(* metadata.  close_vault removes the first, leaves the others behind, and *)
(* touches neither nomination nor metadata; what may still happen to them  *)
(* is what this module is about.  What a vault owes to its holders is one  *)
(* Boolean here; module Vault has the details.                             *)
(***************************************************************************)
EXTENDS Naturals, FiniteSets

CONSTANTS
    Wallets,          \* keys somebody can sign for
    ZeroKey,          \* Pubkey::default(), which nobody can sign for
    Nobody,           \* an absent account, and no upgrade authority
    Namespaces,       \* (deposit mint, vault_version) pairs
    Names,            \* contents of share-token metadata
    Offsets,          \* share_offset values initialize is called with
    MinShareOffset, MaxShareOffset,
    NominationPeriod, \* ONE_DAY_IN_SECONDS
    MaxTime           \* bound on the clock

PubKeys == Wallets \cup {ZeroKey}

ASSUME GovernanceAssumption ==
    /\ ZeroKey \notin Wallets /\ Nobody \notin PubKeys /\ Nobody \notin Names
    /\ Offsets \subseteq Nat /\ MinShareOffset \in Nat /\ MaxShareOffset \in Nat
    /\ NominationPeriod \in Nat \ {0} /\ MaxTime \in Nat

VARIABLES
    upgrade_authority,    \* of the program, in the loader's ProgramData account
    config_authority,     \* ProgramConfig::authority; Nobody before the bootstrap
    vault_exists, admin, vault_paused, share_offset,    \* the VaultState account
    mint_authority,       \* of the share mint: "none" before it exists, "vault", "revoked"
    owes,                 \* shares, reserve tokens or registered subaccounts remain
    nominated_admin, valid_until,                 \* the NominatedAdmin account
    metadata,             \* of the share mint; Nobody while there is none
    clock,
    nomination            \* history: the last nomination made, by whom and when

config_vars == <<upgrade_authority, config_authority>>
vault_vars  == <<vault_exists, admin, vault_paused, share_offset, mint_authority, owes>>
nominee     == <<nominated_admin, valid_until, nomination>>
gvars       == <<config_vars, vault_vars, nominee, metadata, clock>>

NoNomination == [by |-> Nobody, key |-> Nobody, at |-> 0]

GInit ==
    /\ upgrade_authority \in Wallets
    /\ config_authority = Nobody
    /\ vault_exists = [ns \in Namespaces |-> FALSE]
    /\ admin = [ns \in Namespaces |-> ZeroKey]
    /\ vault_paused = [ns \in Namespaces |-> FALSE]
    /\ share_offset = [ns \in Namespaces |-> 0]
    /\ mint_authority = [ns \in Namespaces |-> "none"]
    /\ owes = [ns \in Namespaces |-> FALSE]
    /\ nominated_admin = [ns \in Namespaces |-> Nobody]
    /\ valid_until = [ns \in Namespaces |-> 0]
    /\ nomination = [ns \in Namespaces |-> NoNomination]
    /\ metadata = [ns \in Namespaces |-> Nobody]
    /\ clock = 0

-----------------------------------------------------------------------------
(* The program configuration *)

InitializeConfig(signer, authority) ==
    /\ config_authority = Nobody
    /\ signer = upgrade_authority
    /\ authority # ZeroKey
    /\ config_authority' = authority
    /\ UNCHANGED <<upgrade_authority, vault_vars, nominee, metadata, clock>>

RotateUnchecked(signer, new_authority) ==
    /\ config_authority # Nobody /\ signer = config_authority
    /\ config_authority' = new_authority
    /\ UNCHANGED <<upgrade_authority, vault_vars, nominee, metadata, clock>>
SetConfigAuthority(signer, new_authority) ==
    /\ config_authority # Nobody
    /\ signer = config_authority
    /\ new_authority # ZeroKey
    /\ config_authority' = new_authority
    /\ UNCHANGED <<upgrade_authority, vault_vars, nominee, metadata, clock>>

OverrideConfigAuthority(signer, new_authority) ==
    /\ config_authority # Nobody
    /\ signer = upgrade_authority
    /\ new_authority # ZeroKey
    /\ config_authority' = new_authority
    /\ UNCHANGED <<upgrade_authority, vault_vars, nominee, metadata, clock>>

\* The loader: the upgrade authority hands its role on, or gives it up.
SetUpgradeAuthority(signer, new_authority) ==
    /\ signer = upgrade_authority
    /\ upgrade_authority' = new_authority
    /\ UNCHANGED <<config_authority, vault_vars, nominee, metadata, clock>>

-----------------------------------------------------------------------------
(* The life of a vault *)

PowersOfTen == {10 ^ i : i \in 0 .. 9}
IsValidShareOffset(offset) ==
    offset \in MinShareOffset .. MaxShareOffset /\ offset \in PowersOfTen

\* init fails on an account that exists: the vault state, the reserve (which
\* lives and dies with the vault state) and the share mint.
InitializeOverMint(signer, ns, first_admin, offset) ==
    /\ signer = config_authority
    /\ IsValidShareOffset(offset)
    /\ ~vault_exists[ns]
    /\ vault_exists' = [vault_exists EXCEPT ![ns] = TRUE]
    /\ mint_authority' = [mint_authority EXCEPT ![ns] = "vault"]
    /\ admin' = [admin EXCEPT ![ns] = first_admin]
    /\ vault_paused' = [vault_paused EXCEPT ![ns] = FALSE]
    /\ share_offset' = [share_offset EXCEPT ![ns] = offset]
    /\ UNCHANGED <<config_vars, owes, nominee, metadata, clock>>
Initialize(signer, ns, first_admin, offset) ==
    /\ config_authority # Nobody
    /\ signer = config_authority
    /\ IsValidShareOffset(offset)
    /\ ~vault_exists[ns] /\ mint_authority[ns] = "none"
    /\ vault_exists' = [vault_exists EXCEPT ![ns] = TRUE]
    /\ mint_authority' = [mint_authority EXCEPT ![ns] = "vault"]
    /\ admin' = [admin EXCEPT ![ns] = first_admin]
    /\ vault_paused' = [vault_paused EXCEPT ![ns] = FALSE]
    /\ share_offset' = [share_offset EXCEPT ![ns] = offset]
    /\ UNCHANGED <<config_vars, owes, nominee, metadata, clock>>

\* Instructions that name the vault's admin as signer.
AdminSigns(signer, ns) == vault_exists[ns] /\ signer = admin[ns]

\* Closes the vault state and revokes the mint authority; the share mint, a
\* pending nomination and the metadata stay.
CloseVault(signer, ns) ==
    /\ AdminSigns(signer, ns)
    /\ ~owes[ns]
    /\ vault_exists' = [vault_exists EXCEPT ![ns] = FALSE]
    /\ mint_authority' = [mint_authority EXCEPT ![ns] = "revoked"]
    /\ UNCHANGED <<config_vars, admin, vault_paused, share_offset, owes,
                   nominee, metadata, clock>>

SetPaused(signer, ns, flag) ==
    /\ AdminSigns(signer, ns)
    /\ vault_paused' = [vault_paused EXCEPT ![ns] = flag]
    /\ UNCHANGED <<config_vars, vault_exists, admin, share_offset, mint_authority, owes,
                   nominee, metadata, clock>>

\* Deposits, registrations and their undoing, all of an existing vault's.
Trade(ns) ==
    /\ vault_exists[ns]
    /\ owes' = [owes EXCEPT ![ns] = ~@]
    /\ UNCHANGED <<config_vars, vault_exists, admin, vault_paused, share_offset,
                   mint_authority, nominee, metadata, clock>>

-----------------------------------------------------------------------------
(* Handing a vault over *)

\* Creates the nomination or overwrites the pending one, expired or not.
NominateAdmin(signer, ns, key) ==
    /\ AdminSigns(signer, ns)
    /\ nominated_admin' = [nominated_admin EXCEPT ![ns] = key]
    /\ valid_until' = [valid_until EXCEPT ![ns] = clock + NominationPeriod]
    /\ nomination' = [nomination EXCEPT ![ns] = [by |-> signer, key |-> key, at |-> clock]]
    /\ UNCHANGED <<config_vars, vault_vars, metadata, clock>>

AcceptAnyTime(signer, ns) == signer = nominated_admin[ns]
ValidAcceptNomination(signer, ns) ==
    /\ signer = nominated_admin[ns]
    /\ valid_until[ns] > clock

AcceptKeepsNomination(signer, ns) ==
    /\ vault_exists[ns] /\ nominated_admin[ns] # Nobody
    /\ ValidAcceptNomination(signer, ns)
    /\ admin' = [admin EXCEPT ![ns] = nominated_admin[ns]]
    /\ UNCHANGED <<config_vars, vault_exists, vault_paused, share_offset,
                   mint_authority, owes, nominee, metadata, clock>>
\* Closes the nomination account with the handover.
AcceptAdminNomination(signer, ns) ==
    /\ vault_exists[ns] /\ nominated_admin[ns] # Nobody
    /\ ValidAcceptNomination(signer, ns)
    /\ admin' = [admin EXCEPT ![ns] = nominated_admin[ns]]
    /\ nominated_admin' = [nominated_admin EXCEPT ![ns] = Nobody]
    /\ valid_until' = [valid_until EXCEPT ![ns] = 0]
    /\ UNCHANGED <<config_vars, vault_exists, vault_paused, share_offset,
                   mint_authority, owes, nomination, metadata, clock>>

-----------------------------------------------------------------------------
(* Share-token metadata; the metadata program refuses to create it twice and *)
(* to update what does not exist.                                            *)

MetadataAllowed(signer, ns) ==
    AdminSigns(signer, ns) /\ ~vault_paused[ns] /\ mint_authority[ns] = "vault"

CreateShareTokenMetadata(signer, ns, name) ==
    /\ MetadataAllowed(signer, ns)
    /\ metadata[ns] = Nobody
    /\ metadata' = [metadata EXCEPT ![ns] = name]
    /\ UNCHANGED <<config_vars, vault_vars, nominee, clock>>

UpdateShareTokenMetadata(signer, ns, name) ==
    /\ MetadataAllowed(signer, ns)
    /\ metadata[ns] # Nobody
    /\ metadata' = [metadata EXCEPT ![ns] = name]
    /\ UNCHANGED <<config_vars, vault_vars, nominee, clock>>

-----------------------------------------------------------------------------
GTick ==
    /\ clock < MaxTime
    /\ clock' = clock + 1
    /\ UNCHANGED <<config_vars, vault_vars, nominee, metadata>>

ConfigStep ==
    \E signer \in Wallets :
        \/ \E key \in PubKeys : \/ InitializeConfig(signer, key)
                                \/ SetConfigAuthority(signer, key)
                                \/ OverrideConfigAuthority(signer, key)
        \/ \E key \in Wallets \cup {Nobody} : SetUpgradeAuthority(signer, key)

NamespaceStep ==
    \E ns \in Namespaces :
        \/ Trade(ns)
        \/ \E signer \in Wallets :
               \/ \E key \in PubKeys, offset \in Offsets : Initialize(signer, ns, key, offset)
               \/ \E key \in PubKeys : NominateAdmin(signer, ns, key)
               \/ AcceptAdminNomination(signer, ns)
               \/ CloseVault(signer, ns)
               \/ \E flag \in BOOLEAN : SetPaused(signer, ns, flag)
               \/ \E name \in Names : \/ CreateShareTokenMetadata(signer, ns, name)
                                      \/ UpdateShareTokenMetadata(signer, ns, name)

GNext == ConfigStep \/ NamespaceStep \/ GTick

GSpec == GInit /\ [][GNext]_gvars

-----------------------------------------------------------------------------
(* Properties *)

\* Types.  The configuration always names a key that can sign, whichever of the
\* three instructions set it, so the role can be exercised and rotated; and a
\* vault stores only an offset that initialize accepts, for life.
GTypeOK ==
    /\ upgrade_authority \in Wallets \cup {Nobody}
    /\ config_authority \in Wallets \cup {Nobody}
    /\ vault_exists \in [Namespaces -> BOOLEAN]
    /\ admin \in [Namespaces -> PubKeys]
    /\ vault_paused \in [Namespaces -> BOOLEAN]
    /\ share_offset \in [Namespaces -> {0} \cup {o \in Offsets : IsValidShareOffset(o)}]
    /\ mint_authority \in [Namespaces -> {"none", "vault", "revoked"}]
    /\ owes \in [Namespaces -> BOOLEAN]
    /\ nominated_admin \in [Namespaces -> PubKeys \cup {Nobody}]
    /\ valid_until \in [Namespaces -> Nat]
    /\ nomination \in [Namespaces -> [by : PubKeys \cup {Nobody},
                                      key : PubKeys \cup {Nobody}, at : Nat]]
    /\ metadata \in [Namespaces -> Names \cup {Nobody}]
    /\ clock \in Nat

\* A pending nomination is the present admin's own latest word: nothing that
\* an earlier admin signed outlives the handover, so a former admin cannot
\* return through it.
PendingIsAdminsWord ==
    \A ns \in Namespaces :
        vault_exists[ns] /\ nominated_admin[ns] # Nobody =>
            /\ nomination[ns].by = admin[ns]
            /\ nomination[ns].key = nominated_admin[ns]
            /\ valid_until[ns] = nomination[ns].at + NominationPeriod

\* An existing vault only changes hands to the key its admin named last, less
\* than a day before.  A nomination that was replaced or has expired, however
\* late its acceptance was signed, changes nothing.
HandoverIsAgreed ==
    [][\A ns \in Namespaces :
          vault_exists[ns] /\ admin'[ns] # admin[ns] =>
              /\ nomination[ns].by = admin[ns] /\ nomination[ns].key = admin'[ns]
              /\ clock < nomination[ns].at + NominationPeriod]_gvars

\* A retired namespace is dead: no vault is ever created on it again, nobody
\* becomes its admin through a nomination left behind, and the metadata of its
\* worthless share mint cannot be rewritten.
RetiredForGood ==
    [][\A ns \in Namespaces :
          mint_authority[ns] = "revoked" =>
              /\ ~vault_exists'[ns] /\ mint_authority'[ns] = "revoked"
              /\ admin'[ns] = admin[ns] /\ nominated_admin'[ns] = nominated_admin[ns]
              /\ metadata'[ns] = metadata[ns]]_gvars
=============================================================================
