\* Does a paused vault stop every user operation but cancelling?
CONSTANTS
    Depositors = {alice}
    OperatorKeys = {op}
    CustodyKeys = {}
    FeeKeys = {op}
    VaultPDA = vaultPDA
    QueuePDA = queuePDA
    NoKey = noKey
    Wealth = 3
    Endowment <- MCEndowment
    Amounts = {1, 2}
    MinOuts = {0}
    Reports = {0}
    Fees = {}
    Limits = {}
    DefaultLimit = 2
    ShareOffset = 1
    MinSupplyMultiple = 2
    DecimalsFloor = 1
    FeeDenominator = 20
    BpsDenominator = 2
    U64Max = 3
    RequestIds = {id1}
    Recipients = {op}
    Finalizers = {noKey}
    Floors = {1}
    Cooldowns = {0}
    Windows = {0}
    MaxCooldown = 1
    MinWindow = 1
    MaxWindow = 1
    MaxSequence = 2
    MaxTime = 1
SPECIFICATION EscrowSpec
PROPERTY PauseStopsRequests
CHECK_DEADLOCK FALSE
