SPECIFICATION WholeLiveSpec
CONSTANTS
    n1 = n1
    n2 = n2
    Nodes = {n1, n2}
    Accounts = {1, 2}
    Devices <- OneDeviceEach
    Mint = 2
    Amounts = {1}
    Bonds = {}
    LastIndex <- Upto11
    Tags = {1, 2}
    MaxRestarts <- SecondRestarts
    RelayAnswers = {FALSE}
    Rebroadcast = FALSE
CHECK_DEADLOCK FALSE
INVARIANTS
    HonestNeverFrozen
PROPERTIES
    SendsArrive
