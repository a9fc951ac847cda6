--------------------------- MODULE MCQueueEvents ---------------------------
(* A small instance of the queue with its clock and its events: reused ids,  *)
(* changing settings, a withdrawal fee, redemptions around the queue, and    *)
(* shares sent to the escrow by mistake.                                     *)
EXTENDS QueueEvents, TLC

CONSTANT Wealth

MCEndowment == [k \in Keys |-> IF k \in Depositors THEN Wealth ELSE 0]

\* Nothing depends on which id a request has.
IdsAlike == Permutations(RequestIds)

EventVaultStep ==
    /\ \/ HolderStep
       \/ \E f \in Fees : SetWithdrawalFee(f)
       \/ AttachWithdrawalQueue
       \/ \E k \in Depositors : TransferShares(k, QueuePDA, 1)
    /\ UNCHANGED queue_vars
EventsSpec ==
    EInit /\ [][AdminStepTold \/ RequestStepTold \/ ((EventVaultStep \/ Tick) /\ Silent)]_evars
=============================================================================
