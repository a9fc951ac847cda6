SPECIFICATION GSpec
CONSTANTS
    k1 = k1
    k2 = k2
    k3 = k3
    Wallets <- MCWallets
    ZeroKey = ZeroKey
    Nobody = Nobody
    Namespaces = {ns1}
    Names = {name1, name2}
    Offsets = {1, 10, 25}
    MinShareOffset = 10
    MaxShareOffset = 100
    NominationPeriod = 2
    MaxTime = 5
SYMMETRY KeySymmetry
INVARIANTS
    GTypeOK
    PendingIsAdminsWord
PROPERTIES
    HandoverIsAgreed
    RetiredForGood
CHECK_DEADLOCK FALSE
