-------------------------- MODULE GovernanceProofs --------------------------
(***************************************************************************)
(* Proofs about Governance, for any set of keys and namespaces.  What makes *)
(* the invariant inductive is the tie between a vault and its mint: only an *)
(* existing vault is its mint's authority, so a retired namespace is one    *)
(* that Initialize cannot reach, and the nomination an old admin left behind *)
(* can be neither accepted nor replaced there.                              *)
(***************************************************************************)
EXTENDS Governance, TLAPS

MintFollowsVault ==
    \A ns \in Namespaces : vault_exists[ns] <=> mint_authority[ns] = "vault"

\* A namespace that never had a vault never had a nomination either.
FreshIsUnclaimed ==
    \A ns \in Namespaces : mint_authority[ns] = "none" => nominated_admin[ns] = Nobody

GInvariant == GTypeOK /\ MintFollowsVault /\ FreshIsUnclaimed /\ PendingIsAdminsWord

USE GovernanceAssumption DEF PubKeys

-----------------------------------------------------------------------------
\* The initial state, before the bootstrap, satisfies the invariant.
LEMMA GInitial == GInit => GInvariant
  BY DEF GInit, GInvariant, GTypeOK, MintFollowsVault, FreshIsUnclaimed,
         PendingIsAdminsWord, NoNomination

\* The three config instructions and the loader never store the zero key.
LEMMA ConfigKeepsInv == GInvariant /\ ConfigStep => GInvariant'
  <1> SUFFICES ASSUME GInvariant, ConfigStep PROVE GInvariant'
    OBVIOUS
  <1>1. PICK signer \in Wallets :
           \/ \E key \in PubKeys : \/ InitializeConfig(signer, key)
                                   \/ SetConfigAuthority(signer, key)
                                   \/ OverrideConfigAuthority(signer, key)
           \/ \E key \in Wallets \cup {Nobody} : SetUpgradeAuthority(signer, key)
    BY DEF ConfigStep
  <1>2. UNCHANGED <<vault_vars, nominee, metadata, clock>>
    BY <1>1 DEF InitializeConfig, SetConfigAuthority, OverrideConfigAuthority,
                SetUpgradeAuthority
  <1>3. /\ upgrade_authority' \in Wallets \cup {Nobody}
        /\ config_authority' \in Wallets \cup {Nobody}
    BY <1>1 DEF GInvariant, GTypeOK, InitializeConfig, SetConfigAuthority,
                OverrideConfigAuthority, SetUpgradeAuthority
  <1> QED
    BY <1>2, <1>3 DEF GInvariant, GTypeOK, MintFollowsVault, FreshIsUnclaimed,
                      PendingIsAdminsWord, vault_vars, nominee

\* Creating a vault: its namespace is fresh, so nothing is pending there.
LEMMA InitializeKeepsInv ==
  ASSUME GInvariant, NEW signer \in Wallets, NEW ns \in Namespaces, NEW key \in PubKeys,
         NEW offset \in Offsets, Initialize(signer, ns, key, offset)
  PROVE  GInvariant'
  <1>1. GTypeOK'
    BY DEF GInvariant, GTypeOK, Initialize, config_vars, nominee
  <1>2. MintFollowsVault' /\ FreshIsUnclaimed'
    BY DEF GInvariant, GTypeOK, MintFollowsVault, FreshIsUnclaimed, Initialize, nominee
  <1>3. PendingIsAdminsWord'
    <2> SUFFICES ASSUME NEW n \in Namespaces, vault_exists'[n], nominated_admin'[n] # Nobody
                 PROVE  /\ nomination'[n].by = admin'[n]
                        /\ nomination'[n].key = nominated_admin'[n]
                        /\ valid_until'[n] = nomination'[n].at + NominationPeriod
      BY DEF PendingIsAdminsWord
    <2>1. n # ns
      BY DEF GInvariant, FreshIsUnclaimed, Initialize, nominee
    <2> QED
      BY <2>1 DEF GInvariant, GTypeOK, PendingIsAdminsWord, Initialize, nominee
  <1> QED
    BY <1>1, <1>2, <1>3 DEF GInvariant

\* Closing a vault, pausing it and trading with it leave the nomination alone.
LEMMA LifeKeepsInv ==
  ASSUME GInvariant, NEW signer \in Wallets, NEW ns \in Namespaces, NEW flag \in BOOLEAN,
         CloseVault(signer, ns) \/ SetPaused(signer, ns, flag) \/ Trade(ns)
  PROVE  GInvariant'
  <1>1. GTypeOK'
    <2>1. CASE CloseVault(signer, ns)
      BY <2>1 DEF GInvariant, GTypeOK, CloseVault, config_vars, nominee
    <2>2. CASE SetPaused(signer, ns, flag)
      BY <2>2 DEF GInvariant, GTypeOK, SetPaused, config_vars, nominee
    <2>3. CASE Trade(ns)
      BY <2>3 DEF GInvariant, GTypeOK, Trade, config_vars, nominee
    <2> QED
      BY <2>1, <2>2, <2>3
  <1>2. MintFollowsVault' /\ FreshIsUnclaimed'
    BY DEF GInvariant, GTypeOK, MintFollowsVault, FreshIsUnclaimed, CloseVault, SetPaused,
           Trade, nominee
  <1>3. PendingIsAdminsWord'
    BY DEF GInvariant, GTypeOK, PendingIsAdminsWord, CloseVault, SetPaused, Trade, nominee
  <1> QED
    BY <1>1, <1>2, <1>3 DEF GInvariant

\* A nomination records the signer, who is the admin.
LEMMA NominateKeepsInv ==
  ASSUME GInvariant, NEW signer \in Wallets, NEW ns \in Namespaces, NEW key \in PubKeys,
         NominateAdmin(signer, ns, key)
  PROVE  GInvariant'
  <1>1. GTypeOK'
    BY DEF GInvariant, GTypeOK, NominateAdmin, config_vars, vault_vars
  <1>2. MintFollowsVault' /\ FreshIsUnclaimed'
    BY DEF GInvariant, GTypeOK, MintFollowsVault, FreshIsUnclaimed, NominateAdmin, AdminSigns,
           vault_vars
  <1>3. PendingIsAdminsWord'
    <2> SUFFICES ASSUME NEW n \in Namespaces, vault_exists'[n], nominated_admin'[n] # Nobody
                 PROVE  /\ nomination'[n].by = admin'[n]
                        /\ nomination'[n].key = nominated_admin'[n]
                        /\ valid_until'[n] = nomination'[n].at + NominationPeriod
      BY DEF PendingIsAdminsWord
    <2>1. CASE n = ns
      BY <2>1 DEF GInvariant, GTypeOK, NominateAdmin, AdminSigns, vault_vars
    <2>2. CASE n # ns
      BY <2>2 DEF GInvariant, GTypeOK, PendingIsAdminsWord, NominateAdmin, vault_vars
    <2> QED
      BY <2>1, <2>2
  <1> QED
    BY <1>1, <1>2, <1>3 DEF GInvariant

\* Accepting closes the nomination, so nothing of the old admin's is pending.
LEMMA AcceptKeepsInv ==
  ASSUME GInvariant, NEW signer \in Wallets, NEW ns \in Namespaces,
         AcceptAdminNomination(signer, ns)
  PROVE  GInvariant'
  <1>1. GTypeOK'
    BY DEF GInvariant, GTypeOK, AcceptAdminNomination, ValidAcceptNomination, config_vars
  <1>2. MintFollowsVault' /\ FreshIsUnclaimed'
    BY DEF GInvariant, GTypeOK, MintFollowsVault, FreshIsUnclaimed, AcceptAdminNomination
  <1>3. PendingIsAdminsWord'
    BY DEF GInvariant, GTypeOK, PendingIsAdminsWord, AcceptAdminNomination
  <1> QED
    BY <1>1, <1>2, <1>3 DEF GInvariant

\* Metadata is written by existing vaults only and is no part of the rest.
LEMMA MetadataKeepsInv ==
  ASSUME GInvariant, NEW signer \in Wallets, NEW ns \in Namespaces, NEW name \in Names,
         \/ CreateShareTokenMetadata(signer, ns, name)
         \/ UpdateShareTokenMetadata(signer, ns, name)
  PROVE  GInvariant'
  <1>1. GTypeOK'
    BY DEF GInvariant, GTypeOK, CreateShareTokenMetadata, UpdateShareTokenMetadata,
           config_vars, vault_vars, nominee
  <1>2. MintFollowsVault' /\ FreshIsUnclaimed' /\ PendingIsAdminsWord'
    BY DEF GInvariant, MintFollowsVault, FreshIsUnclaimed, PendingIsAdminsWord,
           CreateShareTokenMetadata, UpdateShareTokenMetadata, vault_vars, nominee
  <1> QED
    BY <1>1, <1>2 DEF GInvariant

\* Every step keeps the invariant.
LEMMA GStep == GInvariant /\ [GNext]_gvars => GInvariant'
  <1> SUFFICES ASSUME GInvariant, [GNext]_gvars PROVE GInvariant'
    OBVIOUS
  <1>1. CASE ConfigStep
    BY <1>1, ConfigKeepsInv
  <1>2. CASE NamespaceStep
    <2>1. PICK ns \in Namespaces :
             \/ Trade(ns)
             \/ \E signer \in Wallets :
                    \/ \E key \in PubKeys, offset \in Offsets :
                           Initialize(signer, ns, key, offset)
                    \/ \E key \in PubKeys : NominateAdmin(signer, ns, key)
                    \/ AcceptAdminNomination(signer, ns)
                    \/ CloseVault(signer, ns)
                    \/ \E flag \in BOOLEAN : SetPaused(signer, ns, flag)
                    \/ \E name \in Names : \/ CreateShareTokenMetadata(signer, ns, name)
                                           \/ UpdateShareTokenMetadata(signer, ns, name)
      BY <1>2 DEF NamespaceStep
    <2>2. CASE Trade(ns)
      <3>1. GTypeOK'
        BY <2>2 DEF GInvariant, GTypeOK, Trade, config_vars, nominee
      <3> QED
        BY <2>2, <3>1 DEF GInvariant, MintFollowsVault, FreshIsUnclaimed,
                          PendingIsAdminsWord, Trade, nominee
    <2>3. CASE ~Trade(ns)
      BY <2>1, <2>3, InitializeKeepsInv, NominateKeepsInv, AcceptKeepsInv, LifeKeepsInv,
         MetadataKeepsInv
    <2> QED
      BY <2>2, <2>3
  <1>3. CASE GTick
    <2>1. GTypeOK'
      BY <1>3 DEF GInvariant, GTypeOK, GTick, config_vars, vault_vars, nominee
    <2> QED
      BY <1>3, <2>1 DEF GInvariant, MintFollowsVault, FreshIsUnclaimed, PendingIsAdminsWord,
                        GTick, vault_vars, nominee
  <1>4. CASE UNCHANGED gvars
    BY <1>4 DEF GInvariant, GTypeOK, MintFollowsVault, FreshIsUnclaimed, PendingIsAdminsWord,
                gvars, config_vars, vault_vars, nominee
  <1> QED
    BY <1>1, <1>2, <1>3, <1>4 DEF GNext

-----------------------------------------------------------------------------
\* The inductive invariant holds in every reachable state.
THEOREM GInductive == GSpec => []GInvariant
  BY GInitial, GStep, PTL DEF GSpec

\* Every field has its type in every reachable state; in particular the
\* config authority is a key somebody can sign for.
THEOREM GTypeCorrect == GSpec => []GTypeOK
  BY GInductive, PTL DEF GInvariant

\* What is pending for an existing vault was said last by its present admin.
THEOREM PendingWords == GSpec => []PendingIsAdminsWord
  BY GInductive, PTL DEF GInvariant

\* Steps of an existing vault that change its admin are acceptances in time.
LEMMA HandoverStep ==
  ASSUME GInvariant, [GNext]_gvars, NEW ns \in Namespaces, vault_exists[ns],
         admin'[ns] # admin[ns]
  PROVE  /\ nomination[ns].by = admin[ns] /\ nomination[ns].key = admin'[ns]
         /\ clock < nomination[ns].at + NominationPeriod
  <1>1. PICK signer \in Wallets : AcceptAdminNomination(signer, ns)
    <2>1. CASE ConfigStep \/ GTick \/ UNCHANGED gvars
      BY <2>1 DEF ConfigStep, GTick, gvars, vault_vars, InitializeConfig,
                  SetConfigAuthority, OverrideConfigAuthority, SetUpgradeAuthority
    <2>2. CASE NamespaceStep
      <3>1. PICK n \in Namespaces :
               \/ \E signer \in Wallets, key \in PubKeys, offset \in Offsets :
                      Initialize(signer, n, key, offset)
               \/ \E signer \in Wallets : AcceptAdminNomination(signer, n)
        BY <2>2 DEF NamespaceStep, Trade, NominateAdmin, CloseVault, SetPaused,
                    CreateShareTokenMetadata, UpdateShareTokenMetadata, vault_vars
      <3>2. n = ns
        BY <3>1 DEF GInvariant, GTypeOK, Initialize, AcceptAdminNomination
      <3> QED
        BY <3>1, <3>2 DEF Initialize
    <2> QED
      BY <2>1, <2>2 DEF GNext
  <1> QED
    BY <1>1 DEF GInvariant, GTypeOK, PendingIsAdminsWord, AcceptAdminNomination,
                ValidAcceptNomination

\* A vault changes hands only by the nomination its admin made last, in time.
THEOREM HandoversAgreed == GSpec => HandoverIsAgreed
  <1>1. GInvariant /\ [GNext]_gvars =>
          [\A ns \in Namespaces :
              vault_exists[ns] /\ admin'[ns] # admin[ns] =>
                  /\ nomination[ns].by = admin[ns] /\ nomination[ns].key = admin'[ns]
                  /\ clock < nomination[ns].at + NominationPeriod]_gvars
    BY HandoverStep
  <1> QED
    BY <1>1, GInductive, PTL DEF GSpec, HandoverIsAgreed

\* Steps leave a namespace whose mint authority was revoked as it is.
LEMMA RetiredStep ==
  ASSUME GInvariant, [GNext]_gvars, NEW ns \in Namespaces, mint_authority[ns] = "revoked"
  PROVE  /\ ~vault_exists'[ns] /\ mint_authority'[ns] = "revoked"
         /\ admin'[ns] = admin[ns] /\ nominated_admin'[ns] = nominated_admin[ns]
         /\ metadata'[ns] = metadata[ns]
  <1>1. ~vault_exists[ns]
    BY DEF GInvariant, MintFollowsVault
  <1>2. CASE ConfigStep \/ GTick \/ UNCHANGED gvars
    BY <1>1, <1>2 DEF ConfigStep, GTick, gvars, vault_vars, nominee, InitializeConfig,
                SetConfigAuthority, OverrideConfigAuthority, SetUpgradeAuthority
  <1>3. CASE NamespaceStep
    <2>1. PICK n \in Namespaces :
             \/ Trade(n)
             \/ \E signer \in Wallets :
                    \/ \E key \in PubKeys, offset \in Offsets :
                           Initialize(signer, n, key, offset)
                    \/ \E key \in PubKeys : NominateAdmin(signer, n, key)
                    \/ AcceptAdminNomination(signer, n)
                    \/ CloseVault(signer, n)
                    \/ \E flag \in BOOLEAN : SetPaused(signer, n, flag)
                    \/ \E name \in Names : \/ CreateShareTokenMetadata(signer, n, name)
                                           \/ UpdateShareTokenMetadata(signer, n, name)
      BY <1>3 DEF NamespaceStep
    <2>2. n # ns
      BY <1>1, <2>1 DEF Trade, Initialize, NominateAdmin, AcceptAdminNomination, CloseVault,
                        SetPaused, CreateShareTokenMetadata, UpdateShareTokenMetadata,
                        MetadataAllowed, AdminSigns
    <2> QED
      BY <1>1, <2>1, <2>2 DEF GInvariant, GTypeOK, Trade, Initialize, NominateAdmin,
                AcceptAdminNomination, CloseVault, SetPaused, CreateShareTokenMetadata,
                UpdateShareTokenMetadata, vault_vars, nominee
  <1> QED
    BY <1>2, <1>3 DEF GNext

\* A retired namespace stays retired, with its last admin and metadata.
THEOREM RetiredStays == GSpec => RetiredForGood
  <1>1. GInvariant /\ [GNext]_gvars =>
          [\A ns \in Namespaces :
              mint_authority[ns] = "revoked" =>
                  /\ ~vault_exists'[ns] /\ mint_authority'[ns] = "revoked"
                  /\ admin'[ns] = admin[ns] /\ nominated_admin'[ns] = nominated_admin[ns]
                  /\ metadata'[ns] = metadata[ns]]_gvars
    BY RetiredStep
  <1> QED
    BY <1>1, GInductive, PTL DEF GSpec, RetiredForGood
=============================================================================
