SPECIFICATION WholeSpec
CONSTANTS
    n1 = n1
    n2 = n2
    n3 = n3
    v1 = v1
    v2 = v2
    v3 = v3
    a1 = a1
    a2 = a2
    b1 = b1
    Nodes = {n1, n2}
    Voters = {v1, v2}
    Key <- TwoKeys
    Blocks = {a1, a2}
    Groups = {"a", "b"}
    Group <- Positions
    CommitteeSize = 4
    StakeUnits = 3
    MaxAge = 1
    Luck <- Alternate
    Bonded = {v1, v2}
    MayBond = {}
    MaxEpoch = 1
    WeightRetain = 1
    VoteRetain = 2
CHECK_DEADLOCK FALSE
INVARIANTS
    FinalityAgrees
