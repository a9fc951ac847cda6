\* Every instruction and every token transfer, with the smallest numbers.
CONSTANTS
    Depositors = {alice}
    OperatorKeys = {op}
    CustodyKeys = {custody}
    FeeKeys = {queuePDA}
    VaultPDA = vaultPDA
    QueuePDA = queuePDA
    NoKey = noKey
    Wealth = 2
    Endowment <- MCEndowment
    Amounts = {0, 2}
    MinOuts = {0}
    Reports = {0, 1, 2, 3}
    Fees = {1}
    Limits = {2}
    DefaultLimit = 1
    ShareOffset = 1
    MinSupplyMultiple = 2
    DecimalsFloor = 1
    FeeDenominator = 20
    BpsDenominator = 2
    U64Max = 3
SPECIFICATION Spec
INVARIANTS TypeOK Solvency ClosedOwesNothing
