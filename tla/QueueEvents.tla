---------------------------- MODULE QueueEvents ----------------------------
(***************************************************************************)
(* What the queue program tells the outside.  Every handler ends with an   *)
(* event, part of its transaction; an indexer sees nothing else.  It gets  *)
(* them in no particular order and possibly more than once, so all it may  *)
(* rely on is the set of request events: they are keyed by the request's   *)
(* address and its sequence stamp, because addresses are reused.  Only for *)
(* the configuration does it need to know which event came last.           *)
(***************************************************************************)
EXTENDS QueuedVault

VARIABLES
    emitted,       \* every request event so far
    last_config    \* the latest event that carries configuration

evars == <<qvars, emitted, last_config>>

NoEvent == [kind |-> "none"]

EInit == QInit /\ emitted = {} /\ last_config = NoEvent

-----------------------------------------------------------------------------
(* The events; the vault and queue they name are the only ones here *)

QueueInitialized(seconds) == [kind |-> "initialized", cooldown_seconds |-> seconds]

ConfigCooldownOnly ==
    [kind |-> "config", cooldown_seconds |-> cooldown_seconds',
     fulfillment_window_seconds |-> 0]
QueueConfigUpdated ==
    [kind |-> "config", cooldown_seconds |-> cooldown_seconds',
     fulfillment_window_seconds |-> fulfillment_window_seconds']

WithdrawalRequested(k, r) ==
    [kind |-> "requested", request |-> k, sequence |-> r.sequence, shares |-> r.shares,
     recipient |-> r.recipient, finalizer |-> r.finalizer, eligible_at |-> r.eligible_at,
     expires_at |-> r.expires_at, min_assets_out |-> r.min_assets_out]

FinalizedGross(k, r, finalizer, assets) ==
    [kind |-> "finalized", request |-> k, sequence |-> r.sequence, recipient |-> r.recipient,
     finalizer |-> finalizer, shares |-> r.shares, assets |-> redeem_assets(r.shares)]
WithdrawalFinalized(k, r, finalizer, assets) ==
    [kind |-> "finalized", request |-> k, sequence |-> r.sequence, recipient |-> r.recipient,
     finalizer |-> finalizer, shares |-> r.shares, assets |-> assets]

CancelledAfterClosing(k, r, by) ==
    [kind |-> "cancelled", request |-> k, sequence |-> request'[k].sequence, by |-> by,
     shares |-> request'[k].shares]
WithdrawalCancelled(k, r, by) ==
    [kind |-> "cancelled", request |-> k, sequence |-> r.sequence, by |-> by,
     shares |-> r.shares]

WithdrawalExpedited(k, r, previous_eligible_at) ==
    [kind |-> "expedited", request |-> k, sequence |-> r.sequence,
     previous_eligible_at |-> previous_eligible_at, new_eligible_at |-> r.eligible_at]

-----------------------------------------------------------------------------
(* The handlers with their events *)

Tell(e)      == emitted' = emitted \cup {e} /\ UNCHANGED last_config
TellConfig(e) == last_config' = e /\ UNCHANGED emitted
Silent       == UNCHANGED <<emitted, last_config>>

\* VaultReleased and EscrowSwept are about no request and no configuration.
AdminStepTold ==
    \/ \E s \in Cooldowns : \/ InitializeQueue(s) /\ TellConfig(QueueInitialized(s))
                            \/ SetCooldown(s) /\ TellConfig(QueueConfigUpdated)
    \/ \E s \in Windows : SetFulfillmentWindow(s) /\ TellConfig(QueueConfigUpdated)
    \/ ReleaseVault /\ Silent
    \/ \E destination \in Wallets : SweepEscrowShares(destination) /\ Silent

RequestStepTold ==
    \E k \in RequestKeys :
        \/ \E x \in Amounts, min \in Floors, recipient \in Recipients, f \in Finalizers :
               /\ RequestWithdrawal(k, x, min, recipient, f)
               /\ Tell(WithdrawalRequested(k, request'[k]))
        \/ \E expected \in 1 .. sequence :
               \/ /\ CancelWithdrawal(k, expected)
                  /\ Tell(WithdrawalCancelled(k, request[k], Owner(k)))
               \/ /\ ExpediteRequest(k, expected)
                  /\ Tell(WithdrawalExpedited(k, request'[k], request[k].eligible_at))
               \/ \E caller \in Wallets :
                      /\ FinalizeWithdrawal(k, caller, expected)
                      /\ Tell(WithdrawalFinalized(k, request[k], caller,
                                                  queue_received(request[k].shares)))

ENext == AdminStepTold \/ RequestStepTold \/ ((VaultStep \/ Tick) /\ Silent)

ESpec == EInit /\ [][ENext]_evars

-----------------------------------------------------------------------------
(* An indexer's view *)

About(e, kinds) == {f \in emitted : /\ f.kind \in kinds
                                    /\ f.request = e.request /\ f.sequence = e.sequence}

Ended(e) == About(e, {"finalized", "cancelled"}) # {}
Moves(e) == About(e, {"expedited"})

IndexedEligibility(e) ==
    IF Moves(e) = {} THEN e.eligible_at ELSE (CHOOSE f \in Moves(e) : TRUE).new_eligible_at

\* The request account an announcement describes.
TermsOf(e, eligible_at) ==
    [shares |-> e.shares, min_assets_out |-> e.min_assets_out, recipient |-> e.recipient,
     finalizer |-> e.finalizer, sequence |-> e.sequence, eligible_at |-> eligible_at,
     expires_at |-> e.expires_at]

\* Requests opened and not ended, with their terms.
Indexed == {<<e.request, TermsOf(e, IndexedEligibility(e))>> :
                e \in {f \in emitted : f.kind = "requested" /\ ~Ended(f)}}

\* The events alone tell exactly which requests are pending and on which terms,
\* in whatever order and however often they arrive, reused addresses included.
EventsRetellRequests == Indexed = {<<k, request[k]>> : k \in LiveKeys}

\* The latest configuration event is the configuration, with nothing remembered
\* from before it.
LastEventIsConfig ==
    /\ last_config.kind = "none" => ~queue_exists
    /\ last_config.kind = "initialized" =>
           /\ cooldown_seconds = last_config.cooldown_seconds
           /\ fulfillment_window_seconds = 0
    /\ last_config.kind = "config" =>
           /\ cooldown_seconds = last_config.cooldown_seconds
           /\ fulfillment_window_seconds = last_config.fulfillment_window_seconds

\* A finalization reports what reached the recipient (who may also be the
\* vault's fee recipient), not what the shares were worth before the fee nor
\* what lay in the escrow.
PaidAsReported ==
    [][\A e \in emitted' \ emitted :
          e.kind = "finalized" =>
              asset_balance'[e.recipient] - asset_balance[e.recipient] =
                  e.assets + (IF e.recipient = fee_recipient
                              THEN redeem_fees(redeem_assets(e.shares)) ELSE 0)]_evars
=============================================================================
