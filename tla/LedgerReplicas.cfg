SPECIFICATION SliceSpec
CONSTANTS
    n1 = n1
    n2 = n2
    Nodes = {n1, n2}
    Accounts = {1, 2}
    Devices <- FirstOnBoth
    Mint = 2
    Amounts = {1}
    Bonds = {}
    LastIndex <- Upto21
    Tags = {1, 2}
    MaxRestarts <- FirstRestarts
    RelayAnswers = {FALSE}
    Rebroadcast = FALSE
CHECK_DEADLOCK FALSE
INVARIANTS
    LedgerInv
    SameHistory
    SeenForkIsFrozen
    NoDoubleClaim
PROPERTIES
    FrozenSendsVoid
    ReloadRestores
