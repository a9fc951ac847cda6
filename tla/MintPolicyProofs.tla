-------------------------- MODULE MintPolicyProofs --------------------------
(***************************************************************************)
(* What the policy lets through is harmless for good: whatever the holders *)
(* of the mints' authorities do, nobody's exit is shut and every payout    *)
(* arrives as reported, for mints with any number of extensions.           *)
(***************************************************************************)
EXTENDS MintPolicy, TLAPS

Balances ==
    /\ share_escrow \in Nat /\ pending_shares \in Nat /\ held \in Nat
    /\ reported \in Nat /\ received \in Nat
    /\ deposit_mint \in Mints /\ share_mint \in Mints

\* The policy was checked when the queue was created, and mints keep their
\* extensions and never regain an authority.
PolicyHeld ==
    queue_created =>
        require_supported_deposit_mint(deposit_mint) /\ require_supported_share_mint(share_mint)

\* The escrow of a supported mint was never frozen, also not when it was made
\* before the queue, and its mint was never paused.
NeverStopped == require_supported_share_mint(share_mint) => ~shares_frozen /\ ~shares_paused

\* Shares reach and leave the escrow in full.
EscrowInFull == share_escrow = pending_shares /\ (~queue_created => share_escrow = 0)

PInv == Balances /\ PolicyHeld /\ NeverStopped /\ EscrowInFull /\ RecipientsGetTheReport

-----------------------------------------------------------------------------
\* A mint the policy accepts carries metadata and nothing else.
LEMMA OnlyMetadata ==
    ASSUME NEW mint \in Mints, only_metadata_extensions(mint)
    PROVE  mint.extensions \subseteq {"MetadataPointer", "TokenMetadata"}
  BY DEF Mints, only_metadata_extensions

\* No authority over a supported share mint moves, freezes or pauses shares,
\* and its transfers arrive in full.
LEMMA SupportedShareMint ==
    ASSUME share_mint \in Mints, require_supported_share_mint(share_mint)
    PROVE  /\ ~share_mint.freezable
           /\ "DefaultAccountState" \notin share_mint.extensions
           /\ "Pausable" \notin share_mint.extensions
           /\ "PermanentDelegate" \notin share_mint.extensions
           /\ "TransferHook" \notin share_mint.extensions
           /\ \A n \in Nat : Withheld(share_mint, n) = 0
<1>1. ~share_mint.freezable /\ only_metadata_extensions(share_mint)
  BY DEF require_supported_share_mint
<1>2. share_mint.extensions \subseteq {"MetadataPointer", "TokenMetadata"}
  BY <1>1, OnlyMetadata
<1> QED BY <1>1, <1>2 DEF Withheld

LEMMA SupportedDepositMint ==
    ASSUME deposit_mint \in Mints, require_supported_deposit_mint(deposit_mint), NEW n \in Nat
    PROVE  Withheld(deposit_mint, n) = 0
<1>1. deposit_mint.extensions \subseteq {"MetadataPointer", "TokenMetadata"}
  BY OnlyMetadata DEF require_supported_deposit_mint
<1> QED BY <1>1 DEF Withheld

-----------------------------------------------------------------------------
LEMMA PInitInvariant == PInit => PInv
  BY MintPolicyAssumption
     DEF PInit, PInv, Balances, PolicyHeld, NeverStopped, EscrowInFull, RecipientsGetTheReport

\* Escrow accounts made by anybody at any time are born unfrozen.
LEMMA BirthKeeps ==
    ASSUME PInv, CreateEscrows \/ InitializeQueue
    PROVE  PInv'
<1>1. UNCHANGED <<deposit_mint, share_mint, share_escrow, pending_shares, held, shares_paused,
                  reported, received>>
  BY DEF CreateEscrows, InitializeQueue
<1>2. share_mint \in Mints
  BY DEF PInv, Balances
<1>3. shares_frozen' = shares_frozen
      \/ shares_frozen' = ("DefaultAccountState" \in share_mint.extensions)
  BY DEF CreateEscrows, InitializeQueue, BornFrozen
<1>4. NeverStopped'
  <2> SUFFICES ASSUME require_supported_share_mint(share_mint)
               PROVE  ~shares_frozen' /\ ~shares_paused'
    BY <1>1 DEF NeverStopped, require_supported_share_mint, only_metadata_extensions
  <2>1. ~shares_frozen /\ ~shares_paused
    BY DEF PInv, NeverStopped
  <2>2. "DefaultAccountState" \notin share_mint.extensions
    BY <1>2, SupportedShareMint
  <2>3. ~shares_frozen'
    <3>1. CASE shares_frozen' = shares_frozen
      BY <2>1, <3>1
    <3>2. CASE shares_frozen' = ("DefaultAccountState" \in share_mint.extensions)
      BY <2>2, <3>2
    <3> QED BY <1>3, <3>1, <3>2
  <2>4. ~shares_paused'
    BY <1>1, <2>1
  <2> QED BY <2>3, <2>4
<1>5. PolicyHeld'
  BY <1>1 DEF PInv, PolicyHeld, CreateEscrows, InitializeQueue, require_supported_deposit_mint,
              require_supported_share_mint, only_metadata_extensions
<1>6. queue_created => queue_created'
  BY DEF CreateEscrows, InitializeQueue
<1> QED BY <1>1, <1>4, <1>5, <1>6
        DEF PInv, Balances, EscrowInFull, RecipientsGetTheReport

\* The queue's movements of tokens: nothing is withheld on any hop.
LEMMA MovementKeeps ==
    ASSUME PInv, NEW x \in 1 .. MaxShares,
           RequestWithdrawal(x) \/ CancelWithdrawal(x) \/ FinalizeWithdrawal(x)
    PROVE  PInv'
<1>0. x \in Nat
  BY MintPolicyAssumption
<1>1. /\ queue_created
      /\ UNCHANGED <<deposit_mint, share_mint, queue_created, shares_frozen, shares_paused>>
  BY DEF RequestWithdrawal, CancelWithdrawal, FinalizeWithdrawal, ShareTransfers
<1>2. Withheld(share_mint, x) = 0 /\ Withheld(deposit_mint, x) = 0
  BY <1>0, <1>1, SupportedShareMint, SupportedDepositMint DEF PInv, Balances, PolicyHeld
<1>3. PolicyHeld' /\ NeverStopped'
  BY <1>1 DEF PInv, PolicyHeld, NeverStopped, require_supported_deposit_mint,
              require_supported_share_mint, only_metadata_extensions
<1>4. Balances' /\ EscrowInFull' /\ RecipientsGetTheReport'
  <2>1. CASE RequestWithdrawal(x)
    BY <1>0, <1>1, <1>2, <2>1 DEF RequestWithdrawal, PInv, Balances, EscrowInFull,
                                 RecipientsGetTheReport
  <2>2. CASE CancelWithdrawal(x)
    BY <1>0, <1>1, <2>2 DEF CancelWithdrawal, PInv, Balances, EscrowInFull,
                           RecipientsGetTheReport
  <2>3. CASE FinalizeWithdrawal(x)
    <3>1. PICK assets : assets = x - Withheld(deposit_mint, x)
      OBVIOUS
    <3>2. assets = x
      BY <1>0, <1>2, <3>1
    <3>3. /\ x <= pending_shares /\ x <= share_escrow
          /\ share_escrow' = share_escrow - x
          /\ pending_shares' = pending_shares - x
          /\ reported' = reported + x
          /\ received' = received + x
          /\ held' = held
      BY <1>0, <1>2, <2>3, <3>1, <3>2 DEF FinalizeWithdrawal
    <3> QED BY <1>0, <1>1, <3>3 DEF PInv, Balances, EscrowInFull, RecipientsGetTheReport
  <2> QED BY <2>1, <2>2, <2>3
<1> QED BY <1>3, <1>4 DEF PInv

\* The holders of the mints' authorities.
LEMMA AuthorityKeeps ==
    ASSUME PInv, AuthorityStep
    PROVE  PInv'
<1>1. UNCHANGED <<deposit_mint, share_mint, queue_created, pending_shares, reported, received>>
  BY DEF AuthorityStep
<1>2. share_mint \in Mints
  BY DEF PInv, Balances
<1>3. NeverStopped'
  <2> SUFFICES ASSUME require_supported_share_mint(share_mint)
               PROVE  ~shares_frozen' /\ ~shares_paused'
    BY <1>1 DEF NeverStopped, require_supported_share_mint, only_metadata_extensions
  <2>1. ~share_mint.freezable /\ "Pausable" \notin share_mint.extensions
    BY <1>2, SupportedShareMint
  <2>2. shares_frozen' = shares_frozen /\ shares_paused' = shares_paused
    BY <2>1 DEF AuthorityStep, FreezeAccounts, PauseMint, Seize
  <2> QED BY <2>2 DEF PInv, NeverStopped
<1>4. held' \in Nat /\ share_escrow' \in Nat /\ share_escrow' <= share_escrow
  BY DEF AuthorityStep, Seize, PInv, Balances
<1>5. queue_created => share_escrow' = share_escrow
  <2> SUFFICES ASSUME queue_created PROVE share_escrow' = share_escrow
    OBVIOUS
  <2>1. "PermanentDelegate" \notin share_mint.extensions
    BY <1>2, SupportedShareMint DEF PInv, PolicyHeld
  <2> QED BY <2>1 DEF AuthorityStep, Seize
<1>6. PolicyHeld'
  BY <1>1 DEF PInv, PolicyHeld, require_supported_deposit_mint,
              require_supported_share_mint, only_metadata_extensions
<1>7. Balances' /\ EscrowInFull' /\ RecipientsGetTheReport'
  BY <1>1, <1>4, <1>5 DEF PInv, Balances, EscrowInFull, RecipientsGetTheReport
<1> QED BY <1>3, <1>6, <1>7 DEF PInv

LEMMA PInvariance == PSpec => []PInv
<1>1. PInit => PInv
  BY PInitInvariant
<1>2. ASSUME PInv, [PNext]_pvars PROVE PInv'
  <2>1. CASE UNCHANGED pvars
    BY <1>2, <2>1 DEF pvars, PInv, Balances, PolicyHeld, NeverStopped, EscrowInFull,
                      RecipientsGetTheReport, require_supported_deposit_mint,
                      require_supported_share_mint, only_metadata_extensions
  <2> QED BY <1>2, <2>1, BirthKeeps, MovementKeeps, AuthorityKeeps DEF PNext
<1> QED BY <1>1, <1>2, PTL DEF PSpec

-----------------------------------------------------------------------------
\* The recipient gets what the event says was paid, whatever the deposit mint
\* is and whatever its authorities do.
THEOREM ReportsArrive == PSpec => []RecipientsGetTheReport
<1>1. PInv => RecipientsGetTheReport
  BY DEF PInv
<1> QED BY <1>1, PInvariance, PTL

\* Everything the cancellation of x shares asks of the queue and of the tokens.
CanCancel(x) == ShareTransfers /\ x <= pending_shares /\ x <= share_escrow

\* The rest of the instruction only assigns.
LEMMA CanCancelDecides ==
    ASSUME NEW x
    PROVE  CancelWithdrawal(x) <=>
               /\ CanCancel(x)
               /\ share_escrow' = share_escrow - x
               /\ pending_shares' = pending_shares - x
               /\ held' = held + x
               /\ UNCHANGED <<deposit_mint, share_mint, escrows_exist, queue_created,
                              shares_frozen, assets_frozen, shares_paused, assets_paused,
                              fee_rate, reported, received>>
  BY DEF CancelWithdrawal, CanCancel

\* Whatever the holders of the mints' authorities do, everything that is
\* pending can be taken back.
THEOREM ExitNeverShut ==
    PSpec => [](queue_created /\ pending_shares > 0 => CanCancel(pending_shares))
<1>1. PInv => (queue_created /\ pending_shares > 0 => CanCancel(pending_shares))
  <2> SUFFICES ASSUME PInv, queue_created PROVE CanCancel(pending_shares)
    OBVIOUS
  <2>1. share_mint \in Mints /\ require_supported_share_mint(share_mint)
    BY DEF PInv, Balances, PolicyHeld
  <2>2. "TransferHook" \notin share_mint.extensions
    BY <2>1, SupportedShareMint
  <2>3. ShareTransfers
    BY <2>1, <2>2 DEF PInv, NeverStopped, ShareTransfers, Transferable
  <2>4. pending_shares <= pending_shares /\ pending_shares <= share_escrow
    BY DEF PInv, Balances, EscrowInFull
  <2> QED BY <2>3, <2>4 DEF CanCancel
<1> QED BY <1>1, PInvariance, PTL
=============================================================================
