SPECIFICATION Spec
CONSTANTS
    n1 = n1
    n2 = n2
    Nodes = {n1, n2}
    Accounts = {1, 2}
    Home <- HomeOfTwo
    Follows <- FollowAll
    Minters = {2}
    Burners = {1}
    LastIndex <- MintSendNext
    Tags = {0}
    MaxRestarts <- SecondRestarts
CHECK_DEADLOCK FALSE
PROPERTIES
    ReloadRestores
