\* One depositor, an operator and two custodies, one of which the admin may
\* appoint operator: the subaccount registry and its books.
CONSTANTS
    Depositors = {alice}
    OperatorKeys = {op, custody1}
    CustodyKeys = {custody1, custody2}
    FeeKeys = {op}
    VaultPDA = vaultPDA
    QueuePDA = queuePDA
    NoKey = noKey
    Wealth = 3
    Endowment <- MCEndowment
    Amounts = {0, 1, 2, 3}
    MinOuts = {0}
    Reports = {}
    Fees = {}
    Limits = {}
    DefaultLimit = 2
    ShareOffset = 1
    MinSupplyMultiple = 2
    DecimalsFloor = 1
    FeeDenominator = 20
    BpsDenominator = 4
    U64Max = 5
SPECIFICATION CustodySpec
INVARIANT PrincipalLedger
PROPERTIES CoverageKept HoldersPromise
