SPECIFICATION PSpec
CONSTANTS
    MaxExtensions = 2
    MaxShares = 2
    MaxPaid = 2
INVARIANTS
    ExitStaysOpen
    RecipientsGetTheReport
CHECK_DEADLOCK FALSE
