SPECIFICATION WSpec
CONSTANTS
    MaxUnset = 0
    Forms = {"builder", "cpi_other"}
INVARIANT ExtraAsDocumented
