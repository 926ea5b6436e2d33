SPECIFICATION Spec
CONSTANTS
    n1 = n1
    n2 = n2
    Nodes = {n1, n2}
    Accounts = {1, 2, 3}
    Home <- HomeOfThree
    Follows <- FollowAll
    Minters = {2}
    Burners = {1}
    LastIndex <- RoundTrip
    Tags = {0, 1}
    MaxRestarts <- SecondRestarts
CHECK_DEADLOCK FALSE
INVARIANTS
    CustodyInv
    OwnerByHistory
    NoDoubleClaim
    OneOwner
