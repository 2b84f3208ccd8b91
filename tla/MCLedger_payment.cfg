SPECIFICATION Spec
CONSTANTS
    bank = bank
    loan = loan
    fund = fund
    None = None
    Accounts <- MCAccounts
    Kind <- MCKind
    Tables <- MCTables
    Lines <- MCLines
    Amounts <- MCAmounts
    Typed = {3}
    LastDay = 2
    Ends = {1, 2}
    MaxRows = 3
    MaxWork <- MCMaxWork
    Scopes = {"pairs"}
INVARIANT EveryPaymentRecorded
CHECK_DEADLOCK FALSE
