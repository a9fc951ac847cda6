SPECIFICATION ASpec
CONSTANTS
    a1 = a1
    a2 = a2
    Addresses <- Accounts
    Kinds <- AllKinds
    Values <- StoredValues
    Decimals <- MintDecimals
    MaxWrites = 3
SYMMETRY AddressesAlike
CHECK_DEADLOCK FALSE
INVARIANTS
    FieldsKeepTheirPlace
    NeverLockedOut
    AdviceHolds
