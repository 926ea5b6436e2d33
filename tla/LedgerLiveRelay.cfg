SPECIFICATION RelayLiveSpec
CONSTANTS
    n1 = n1
    n2 = n2
    Nodes = {n1, n2}
    Accounts = {1, 2}
    Devices <- FirstOnBoth
    Mint = 1
    Amounts = {1}
    Bonds = {}
    LastIndex <- Upto21
    Tags = {1}
    MaxRestarts <- NoRestarts
    RelayAnswers = {TRUE}
    Rebroadcast = FALSE
CHECK_DEADLOCK FALSE
PROPERTIES
    SendsArrive
