\* The share escrow and its counters through every state of the vault, and
\* whether a released queue empties itself.
CONSTANTS
    Depositors = {alice}
    OperatorKeys = {op}
    CustodyKeys = {}
    FeeKeys = {op, queuePDA}
    VaultPDA = vaultPDA
    QueuePDA = queuePDA
    NoKey = noKey
    Wealth = 4
    Endowment <- MCEndowment
    Amounts = {1, 2}
    MinOuts = {0}
    Reports = {0}
    Fees = {}
    Limits = {}
    DefaultLimit = 2
    ShareOffset = 1
    MinSupplyMultiple = 2
    DecimalsFloor = 1
    FeeDenominator = 20
    BpsDenominator = 2
    U64Max = 4
    RequestIds = {id1, id2}
    Recipients = {op, queuePDA}
    Finalizers = {noKey}
    Floors = {1}
    Cooldowns = {0}
    Windows = {0}
    MaxCooldown = 1
    MinWindow = 1
    MaxWindow = 1
    MaxSequence = 2
    MaxTime = 1
SPECIFICATION DrainSpec
INVARIANTS QTypeOK EscrowCoversPending CancelAlwaysPossible DueRequestsPaid ClosedStrandsNoRequest
PROPERTIES VaultHolds WaitingLosesNothing EscrowAssetsStay ReleasedQueueDrains
CHECK_DEADLOCK FALSE
