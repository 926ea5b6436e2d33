SPECIFICATION WholeSpec
CONSTANTS
    n1 = n1
    n2 = n2
    Nodes = {n1, n2}
    Accounts = {1, 2}
    Devices <- FirstOnBoth
    Mint = 2
    Amounts = {1}
    Bonds = {}
    LastIndex <- Upto21
    Tags = {1, 2}
    MaxRestarts <- NoRestarts
    RelayAnswers = {TRUE}
    Rebroadcast = FALSE
CHECK_DEADLOCK FALSE
PROPERTIES
    ClaimsOnCurrentHead
