SPECIFICATION SliceSpec
CONSTANTS
    n1 = n1
    n2 = n2
    n3 = n3
    v1 = v1
    v2 = v2
    v3 = v3
    a1 = a1
    a2 = a2
    b1 = b1
    Nodes = {n1, n2, n3}
    Voters = {v1, v2, v3}
    Key <- SharedKey
    Blocks = {a1, a2, b1}
    Groups = {"a", "b"}
    Group <- Positions
    CommitteeSize = 4
    StakeUnits = 1
    MaxAge = 2
    Luck <- Swing
    Bonded = {v1, v2, v3}
    MayBond = {v2}
    MaxEpoch = 2
    WeightRetain = 1
    VoteRetain = 1
CHECK_DEADLOCK FALSE
INVARIANTS
    FinalityInv
    OneFinalPerGroup
    SlashSound
    EverySplitExplained
    QuorumBehindFinal
    OneDeviceNeverSlashed
    LateVotesVerify
