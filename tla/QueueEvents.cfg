\* Stamps, deadlines, delayed instructions and events of a queue whose ids are
\* reused and whose settings change.
CONSTANTS
    Depositors = {alice}
    OperatorKeys = {op}
    CustodyKeys = {}
    FeeKeys = {alice}
    VaultPDA = vaultPDA
    QueuePDA = queuePDA
    NoKey = noKey
    Wealth = 2
    Endowment <- MCEndowment
    Amounts = {1, 2}
    MinOuts = {0}
    Reports = {}
    Fees = {1}
    Limits = {}
    DefaultLimit = 2
    ShareOffset = 1
    MinSupplyMultiple = 2
    DecimalsFloor = 1
    FeeDenominator = 20
    BpsDenominator = 2
    U64Max = 2
    RequestIds = {id1, id2}
    Recipients = {alice}
    Finalizers = {op}
    Floors = {0}
    Cooldowns = {0, 1}
    Windows = {1}
    MaxCooldown = 1
    MinWindow = 1
    MaxWindow = 1
    MaxSequence = 2
    MaxTime = 2
SPECIFICATION EventsSpec
SYMMETRY IdsAlike
INVARIANTS StampPinsTerms EventsRetellRequests LastEventIsConfig
PROPERTIES DelayedActsOnItsOwn ExpiredOnlyReturns OnlyDueRequestsLeave PaidAsReported
CHECK_DEADLOCK FALSE
