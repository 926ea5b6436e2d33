SPECIFICATION WholeSpec
CONSTANTS
    n1 = n1
    n2 = n2
    Nodes = {n1, n2}
    Accounts = {1, 2}
    Devices <- OneDeviceEach
    Mint = 2
    Amounts = {1}
    Bonds = {1, 2}
    LastIndex <- Upto22
    Tags = {1, 2}
    MaxRestarts <- NoRestarts
    RelayAnswers = {FALSE}
    Rebroadcast = TRUE
CHECK_DEADLOCK FALSE
INVARIANTS
    MoneyConserved
    BondBacked
PROPERTIES
    ImplementsPayments
