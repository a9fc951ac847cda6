\* Two holders and the operator, no registry: prices, liquidity, reports.
CONSTANTS
    Depositors = {alice, bob}
    OperatorKeys = {op}
    CustodyKeys = {}
    FeeKeys = {op}
    VaultPDA = vaultPDA
    QueuePDA = queuePDA
    NoKey = noKey
    Wealth = 4
    Endowment <- MCEndowment
    Amounts = {0, 1, 2, 4}
    MinOuts = {0}
    Reports = {0, 1, 2, 3, 5, 7}
    Fees = {}
    Limits = {4}
    DefaultLimit = 0
    ShareOffset = 2
    MinSupplyMultiple = 2
    DecimalsFloor = 1
    FeeDenominator = 20
    BpsDenominator = 4
    U64Max = 7
SPECIFICATION PricingSpec
SYMMETRY Symmetry
INVARIANTS FairRoundTrip NoOverpromise
PROPERTY HoldersPromise
