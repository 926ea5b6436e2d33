------------------------ MODULE MCFinalitySlices ------------------------
(***************************************************************************)
(* Bounded instances of CommitteeFinality, five of them in one run.  A    *)
(* behaviour of SliceSpec is one of one slice; the constants of the module *)
(* itself are those of "epochs", with the keys of "devices".               *)
(*                                                                         *)
(*   "core"     three validators on a device each vote on two siblings     *)
(*   "devices"  one validator on two devices, another one bonds late       *)
(*   "epochs"   two devices, three blocks, two epochs, seats that swing    *)
(*   "bonds"    two validators bond late, each on the devices it will        *)
(*   "lottery"  a draw that deals two quorums                              *)
(***************************************************************************)
EXTENDS CommitteeFinality, TLC

CONSTANTS n1, n2, n3, v1, v2, v3, a1, a2, b1

\* Three validators, each on a device of its own.
OneKeyEach == n1 :> v1 @@ n2 :> v2 @@ n3 :> v3
\* One validator on two devices, another on a third.
SharedKey  == n1 :> v1 @@ n2 :> v1 @@ n3 :> v2
\* Two devices, two validators.
TwoKeys    == n1 :> v1 @@ n2 :> v2

\* a1 and a2 are siblings, b1 is alone at its position.
Positions == [b \in Blocks |-> IF b = b1 THEN "b" ELSE "a"]

\* The draws: everybody on the mean; the first and the last one above it;
\* one seat moved to the first in even epochs and from it in odd ones.
Mean      == [v \in Voters |-> [e \in Epochs |-> 0]]
TwoLucky  == [v \in Voters |-> [e \in Epochs |-> IF v = v2 THEN 0 ELSE 1]]
Alternate == [v \in Voters |-> [e \in Epochs |->
                IF (v = v1) = (e % 2 = 0) THEN 1 ELSE -1]]

\* Larger draws: v2 takes the committee of epoch 1, v1 that of epoch 2.
Swing     == [v \in Voters |-> [e \in Epochs |->
                IF (v = v1) = (e % 2 = 0) THEN 2 ELSE -2]]

VARIABLE slice

Core == INSTANCE CommitteeFinality WITH
    Key <- OneKeyEach, StakeUnits <- 2, MaxAge <- 1, Luck <- TwoLucky,
    Bonded <- Voters, MayBond <- {}, MaxEpoch <- 0, VoteRetain <- 0
Shared == INSTANCE CommitteeFinality WITH
    Key <- SharedKey, StakeUnits <- 3, MaxAge <- 1, Luck <- Mean,
    Bonded <- {v1}, MayBond <- {v2}, MaxEpoch <- 0, VoteRetain <- 1
Late == INSTANCE CommitteeFinality WITH
    Key <- OneKeyEach, StakeUnits <- 2, MaxAge <- 2, Luck <- Swing,
    Bonded <- {v1, v2}, MayBond <- {}, MaxEpoch <- 2, VoteRetain <- 0
Bonds == INSTANCE CommitteeFinality WITH
    Key <- OneKeyEach, StakeUnits <- 3, MaxAge <- 1, Luck <- Mean,
    Bonded <- {}, MayBond <- {v1, v2}, MaxEpoch <- 0, VoteRetain <- 0
Lottery == INSTANCE CommitteeFinality WITH
    Key <- OneKeyEach, StakeUnits <- 3, MaxAge <- 1, Luck <- TwoLucky,
    Bonded <- {v1, v3}, MayBond <- {}, MaxEpoch <- 0, VoteRetain <- 0

SliceInit ==
    \/ slice = "core" /\ Core!Init
    \/ slice = "devices" /\ Shared!Init
    \/ slice = "epochs" /\ Late!Init
    \/ slice = "bonds" /\ Bonds!Init
    \/ slice = "lottery" /\ Lottery!Init

\* Only the siblings are contended in the first two slices, and the third
\* device stands by in the last.
Fork == {a1, a2}
CoreStep(n) ==
    /\ slice = "core"
    /\ \/ \E b \in Fork : Core!AddBlock(n, b)
       \/ \E m \in inbox[n] : Core!DeliverVote(n, m)
SharedStep(n) ==
    /\ slice = "devices"
    /\ \/ \E b \in Fork : Shared!AddBlock(n, b)
       \/ \E m \in inbox[n] : Shared!DeliverVote(n, m)
       \/ \E v \in Voters : Shared!BondStake(n, v)
LateStep(n) ==
    /\ slice = "epochs" /\ n # n3
    /\ \/ \E b \in Blocks : Late!AddBlock(n, b)
       \/ \E m \in inbox[n] : Late!DeliverVote(n, m)
       \/ Late!AdvanceEpoch(n)
BondsStep(n) ==
    /\ slice = "bonds" /\ n # n3
    /\ \/ \E b \in Fork : Bonds!AddBlock(n, b)
       \/ \E m \in inbox[n] : Bonds!DeliverVote(n, m)
       \/ \E v \in Voters : Bonds!BondStake(n, v)
LotteryStep(n) ==
    /\ slice = "lottery" /\ n # n2
    /\ \/ \E b \in Fork : Lottery!AddBlock(n, b)
       \/ \E m \in inbox[n] : Lottery!DeliverVote(n, m)

SliceNext ==
    /\ \E n \in Nodes : CoreStep(n) \/ SharedStep(n) \/ LateStep(n)
                      \/ BondsStep(n) \/ LotteryStep(n)
    /\ UNCHANGED slice

SliceSpec == SliceInit /\ [][SliceNext]_<<vars, slice>>

\* SplitsAreExplained with the books and draws of each slice: two nodes
\* finalize two siblings only by a voter on both sides, by votes of several
\* epochs, by a vote drawn where somebody bonded late or was slashed, or by a
\* draw of two quorums (applyVote, bondStake, seatsFromBeta).
EverySplitExplained ==
    /\ slice = "core" => Core!SplitsAreExplained
    /\ slice = "devices" => Shared!SplitsAreExplained
    /\ slice = "epochs" => Late!SplitsAreExplained
    /\ slice = "bonds" => Bonds!SplitsAreExplained
    /\ slice = "lottery" => Lottery!SplitsAreExplained

\* The constants as they are, in a slice of their own.
WholeInit == Init /\ slice = "whole"
WholeNext == Next /\ UNCHANGED slice
WholeSpec == WholeInit /\ [][WholeNext]_<<vars, slice>>
====
