------------------------ MODULE CommitteeFinality ------------------------
(***************************************************************************)
(* Committee finality: validators draw seats by sortition, vote for the    *)
(* block they adopted at a chain position, and a block whose votes carry   *)
(* two thirds of a committee's seats is final.  Nothing is agreed on       *)
(* between nodes: each one bonds validators in its own registry, advances  *)
(* its own epoch and tallies the votes that reach it.                      *)
(*                                                                         *)
(* A node here is the EngineLedger's committee part with the node driver's *)
(* vote casting.  Blocks arrive in any order; two blocks of one group      *)
(* (accountId:previousHash) are siblings of a fork.                        *)
(***************************************************************************)
EXTENDS Integers, FiniteSets, FiniteSetsExt, Functions

CONSTANTS
    Nodes,          \* devices that run a ledger
    Voters,         \* accounts that may bond
    Key,            \* Key[n]: the voter whose key node n holds
    Blocks,         \* blocks of contended positions
    Groups,         \* those positions
    Group,          \* Group[b]: the position of a block
    CommitteeSize,  \* seats a draw hands out on average
    StakeUnits,     \* lottery tickets of a full bond at age 0
    MaxAge,         \* activity beyond it adds no weight
    Luck,           \* Luck[v][e]: the seats v's draw of epoch e is off the mean
    Bonded,         \* voters bonded on every node from the start
    MayBond,        \* voters that may bond later, node by node
    MaxEpoch,       \* bound on a node's epoch
    WeightRetain,   \* EPOCH_WEIGHT_RETAIN
    VoteRetain      \* retainEpochs of pruneStale

Epochs == 0..MaxEpoch
None == "none"

ASSUME CommitteeAssumption ==
    /\ Key \in [Nodes -> Voters]
    /\ Group \in [Blocks -> Groups]
    /\ None \notin Blocks
    /\ CommitteeSize \in Nat \ {0} /\ StakeUnits \in Nat \ {0}
    /\ MaxAge \in Nat /\ MaxEpoch \in Nat
    /\ WeightRetain \in Nat /\ VoteRetain \in Nat
    /\ Luck \in [Voters -> [Epochs -> Int]]
    /\ Bonded \subseteq Voters /\ MayBond \subseteq Voters

VARIABLES
    reg,        \* reg[n][v]: the ValidatorRegistry entry
    epoch,      \* epoch[n]
    snap,       \* epochWeightSnapshots: snap[n] maps an epoch to its weights
    held,       \* allBlocks: adopted blocks and retained siblings
    adopted,    \* blocks that entered their chain
    registered, \* groupOf: blocks that take part in the tally
    choice,     \* voterChoice: pairs <<voter, block>>
    tally,      \* seatsByBlock
    lastVote,   \* groupEpoch: the latest vote epoch, -1 when there is none
    winner,     \* Group.final of each group
    final,      \* finalBlocks
    rejected,   \* rejectedBlocks
    inbox,      \* votes on their way to a node
    cast,       \* all votes ever published
    counted     \* history: the votes behind the tallies of a node

validators == <<reg, epoch, snap>>
results    == <<choice, tally, lastVote, winner, final, rejected, counted>>
tallies    == <<registered, results>>
network    == <<inbox, cast>>
vars == <<validators, held, adopted, tallies, network>>

Entries == [bonded: BOOLEAN, activity: 0..MaxAge, slashed: BOOLEAN]
Votes == [block: Blocks, voter: Voters, epoch: Epochs, seats: Nat, from: Nodes]

(***************************************************************************)
(* Weights and sortition.                                                  *)
(***************************************************************************)
AtMost(x, y) == IF x <= y THEN x ELSE y

\* seatQuorum: two thirds of the expected committee, rounded up.
Quorum == (2 * CommitteeSize + 2) \div 3

\* votingWeight with ValidatorRegistry.weightOf: a bond ages with activity
\* up to saturation, a slashed validator weighs nothing.
WeightOfEntry(r) ==
    IF r.bonded /\ ~r.slashed THEN StakeUnits * (1 + AtMost(r.activity, MaxAge)) ELSE 0

LiveWeights(n) == [v \in Voters |-> WeightOfEntry(reg[n][v])]

Total(w) == MapThenSumSet(LAMBDA v : w[v], Voters)

\* Mutant of Weights: the live registry whatever the epoch.
Weights_Live(n, e) == LiveWeights(n)

\* The WeightSource of makeCommittee: an epoch's snapshot when there is one,
\* the live registry otherwise.
Weights(n, e) == IF e \in DOMAIN snap[n] THEN snap[n][e] ELSE LiveWeights(n)

\* seatsFromBeta: no seats without validators, a ticket each when the
\* committee is larger than the electorate, else a binomial draw around the
\* mean; even a weight of 0 is one ticket.
Tickets(w) == IF w = 0 THEN 1 ELSE w

Seats(v, e, w, total) ==
    IF total = 0 THEN 0
    ELSE IF total <= CommitteeSize THEN Tickets(w)
    ELSE LET draw == (Tickets(w) * CommitteeSize) \div total + Luck[v][e] IN
         IF draw < 0 THEN 0 ELSE AtMost(draw, Tickets(w))

IsValidator(n, v) == reg[n][v].bonded /\ ~reg[n][v].slashed

Init ==
    /\ reg = [n \in Nodes |-> [v \in Voters |->
                [bonded |-> v \in Bonded, activity |-> 0, slashed |-> FALSE]]]
    /\ epoch = [n \in Nodes |-> 0]
    /\ snap = [n \in Nodes |-> <<>>]
    /\ held = [n \in Nodes |-> {}]
    /\ adopted = [n \in Nodes |-> {}]
    /\ registered = [n \in Nodes |-> {}]
    /\ choice = [n \in Nodes |-> {}]
    /\ tally = [n \in Nodes |-> [b \in Blocks |-> 0]]
    /\ lastVote = [n \in Nodes |-> [g \in Groups |-> -1]]
    /\ winner = [n \in Nodes |-> [g \in Groups |-> None]]
    /\ final = [n \in Nodes |-> {}]
    /\ rejected = [n \in Nodes |-> {}]
    /\ inbox = [n \in Nodes |-> {}]
    /\ cast = {}
    /\ counted = [n \in Nodes |-> {}]

(***************************************************************************)
(* Tallying.                                                               *)
(***************************************************************************)
SiblingsOf(b, S) == {x \in S : Group[x] = Group[b] /\ x # b}

\* The signature is the voter's (votes are only made by CastVote); the seed
\* of the vote's epoch is known and the seats are those of the draw.
Verified(n, m) ==
    LET w == Weights(n, m.epoch) IN
    /\ m.epoch <= epoch[n]
    /\ m.seats > 0
    /\ m.seats = Seats(m.voter, m.epoch, w[m.voter], Total(w))

\* Mutant of Prior: the conflict group is ignored.
Prior_AnyGroup(n, m) == {b \in Blocks : <<m.voter, b>> \in choice[n]}

Prior(n, m) == {b \in Blocks : <<m.voter, b>> \in choice[n] /\ Group[b] = Group[m.block]}

Countable(n, m) == winner[n][Group[m.block]] = None /\ Verified(n, m)

Later(x, y) == IF x < y THEN y ELSE x

\* Mutant of FirstChoice: the same vote counts again.
FirstChoice_Repeats(n, m) == \A b \in Prior(n, m) : b = m.block

FirstChoice(n, m) == Prior(n, m) = {}

\* Mutant of Equivocates: any second vote is one.
Equivocates_AnySecond(n, m) == Prior(n, m) # {}

Equivocates(n, m) == \E b \in Prior(n, m) : b # m.block

\* Mutant of AddSeats: the seats are kept per position, not per block.
AddSeats_PerPosition(n, m) ==
    /\ choice' = [choice EXCEPT ![n] = @ \cup {<<m.voter, m.block>>}]
    /\ tally' = [tally EXCEPT ![n] = [b \in Blocks |->
                    IF Group[b] = Group[m.block] THEN @[b] + m.seats ELSE @[b]]]
    /\ lastVote' = [lastVote EXCEPT ![n][Group[m.block]] = Later(@, m.epoch)]
    /\ counted' = [counted EXCEPT ![n] = @ \cup {m}]
    /\ UNCHANGED <<winner, final, rejected>>

\* Below the quorum the vote is only added.
AddSeats(n, m) ==
    /\ choice' = [choice EXCEPT ![n] = @ \cup {<<m.voter, m.block>>}]
    /\ tally' = [tally EXCEPT ![n][m.block] = @ + m.seats]
    /\ lastVote' = [lastVote EXCEPT ![n][Group[m.block]] = Later(@, m.epoch)]
    /\ counted' = [counted EXCEPT ![n] = @ \cup {m}]
    /\ UNCHANGED <<winner, final, rejected>>

\* The block is final, the siblings registered so far are rejected, and the
\* vote detail of the group is freed.
Finalize(n, m) ==
    LET g == Group[m.block] IN
    /\ winner' = [winner EXCEPT ![n][g] = m.block]
    /\ final' = [final EXCEPT ![n] = @ \cup {m.block}]
    /\ rejected' = [rejected EXCEPT ![n] = @ \cup SiblingsOf(m.block, registered[n])]
    /\ choice' = [choice EXCEPT ![n] = {p \in @ : Group[p[2]] # g}]
    /\ tally' = [tally EXCEPT ![n] = [b \in Blocks |-> IF Group[b] = g THEN 0 ELSE @[b]]]
    /\ lastVote' = [lastVote EXCEPT ![n][g] = -1]
    /\ counted' = [counted EXCEPT ![n] = @ \cup {m}]

\* ValidatorRegistry.slash.
Slash(n, v) == reg' = [reg EXCEPT ![n][v].bonded = FALSE, ![n][v].slashed = TRUE]

\* applyCommitteeVote: the block is registered when the node holds it, a
\* vote for a sibling of the voter's earlier choice slashes it.
ApplyVote(n, m, blocks) ==
    LET held_ == m.block \in blocks IN
    /\ registered' = [registered EXCEPT ![n] = @ \cup ({m.block} \cap blocks)]
    /\ \/ /\ held_ /\ Countable(n, m) /\ FirstChoice(n, m)
          /\ IF tally[n][m.block] + m.seats >= Quorum THEN Finalize(n, m) ELSE AddSeats(n, m)
          /\ UNCHANGED reg
       \/ /\ held_ /\ Countable(n, m) /\ ~FirstChoice(n, m) /\ Equivocates(n, m)
          /\ Slash(n, m.voter)
          /\ UNCHANGED results
       \/ /\ ~held_ \/ ~Countable(n, m) \/ (~FirstChoice(n, m) /\ ~Equivocates(n, m))
          /\ UNCHANGED <<reg, results>>

(***************************************************************************)
(* The node driver.                                                        *)
(***************************************************************************)

\* castCommitteeVote: sortition with the node's live weights.
VoteOf(n, b) ==
    LET v == Key[n]
        w == LiveWeights(n)
    IN  [block |-> b, voter |-> v, epoch |-> epoch[n],
         seats |-> Seats(v, epoch[n], w[v], Total(w)), from |-> n]

\* maybeCastCommitteeVotes: a validator that won seats counts its own vote
\* and publishes it, whatever became of the count.
CastVote(n, b, blocks) ==
    LET m == VoteOf(n, b) IN
    IF IsValidator(n, Key[n]) /\ m.seats > 0
    THEN /\ ApplyVote(n, m, blocks)
         /\ cast' = cast \cup {m}
         /\ inbox' = [x \in Nodes |-> IF x = n THEN inbox[x] ELSE inbox[x] \cup {m}]
    ELSE UNCHANGED <<reg, tallies, network>>

\* addBlock: the first block of a position is adopted and voted on, a later
\* sibling is only retained.
AddBlock(n, b) ==
    /\ b \notin held[n]
    /\ held' = [held EXCEPT ![n] = @ \cup {b}]
    /\ \/ /\ SiblingsOf(b, adopted[n]) = {}
          /\ adopted' = [adopted EXCEPT ![n] = @ \cup {b}]
          /\ CastVote(n, b, held[n] \cup {b})
       \/ /\ SiblingsOf(b, adopted[n]) # {}
          /\ UNCHANGED <<adopted, reg, tallies, network>>
    /\ UNCHANGED <<epoch, snap>>

\* enginevote:received.  A vote is gossiped once: one whose block is not
\* there yet is gone.
DeliverVote(n, m) ==
    /\ m \in inbox[n]
    /\ inbox' = [inbox EXCEPT ![n] = @ \ {m}]
    /\ ApplyVote(n, m, held[n])
    /\ UNCHANGED <<epoch, snap, held, adopted, cast>>

\* bondStake of the whole free mint.
BondStake(n, v) ==
    /\ v \in MayBond
    /\ ~reg[n][v].bonded /\ ~reg[n][v].slashed
    /\ reg' = [reg EXCEPT ![n][v].bonded = TRUE]
    /\ UNCHANGED <<epoch, snap, held, adopted, tallies, network>>

\* pruneStale: a group without a winner whose latest vote is too old; one
\* without any vote never is.
LastVoteOrNow(n, g, e) == IF lastVote[n][g] = -1 THEN e ELSE lastVote[n][g]

\* Mutant of Stale: decided groups are dropped like the others.
Stale_Decided(n, g, e) == winner[n][g] # None \/ LastVoteOrNow(n, g, e) < e - VoteRetain

Stale(n, g, e) == winner[n][g] = None /\ LastVoteOrNow(n, g, e) < e - VoteRetain

PruneStale(n, e) ==
    LET stale == {g \in Groups : Stale(n, g, e)} IN
    /\ registered' = [registered EXCEPT ![n] = {b \in @ : Group[b] \notin stale}]
    /\ choice' = [choice EXCEPT ![n] = {p \in @ : Group[p[2]] \notin stale}]
    /\ tally' = [tally EXCEPT ![n] = [b \in Blocks |-> IF Group[b] \in stale THEN 0 ELSE @[b]]]
    /\ lastVote' = [lastVote EXCEPT ![n] = [g \in Groups |-> IF g \in stale THEN -1 ELSE @[g]]]
    /\ winner' = [winner EXCEPT ![n] = [g \in Groups |-> IF g \in stale THEN None ELSE @[g]]]
    /\ counted' = [counted EXCEPT ![n] = {m \in @ : Group[m.block] \notin stale}]
    /\ UNCHANGED <<final, rejected>>

\* creditActivity of the whole validator set, the default.
Aged(r) == IF r.bonded /\ ~r.slashed
           THEN [r EXCEPT !.activity = AtMost(@ + 1, MaxAge)] ELSE r

Snapshots(n, e, w) ==
    [x \in {y \in DOMAIN snap[n] \cup {e} : y >= e - WeightRetain} |->
        IF x = e THEN w ELSE snap[n][x]]

\* advanceEpoch: credit, freeze the weights of the new epoch, forget old
\* snapshots and stale groups.
AdvanceEpoch(n) ==
    LET e   == epoch[n] + 1
        now == [v \in Voters |-> Aged(reg[n][v])]
        w   == [v \in Voters |-> WeightOfEntry(now[v])]
    IN
    /\ epoch[n] < MaxEpoch
    /\ epoch' = [epoch EXCEPT ![n] = e]
    /\ reg' = [reg EXCEPT ![n] = now]
    /\ snap' = [snap EXCEPT ![n] = Snapshots(n, e, w)]
    /\ PruneStale(n, e)
    /\ UNCHANGED <<held, adopted, network>>

Next == \E n \in Nodes :
    \/ \E b \in Blocks : AddBlock(n, b)
    \/ \E m \in inbox[n] : DeliverVote(n, m)
    \/ \E v \in Voters : BondStake(n, v)
    \/ AdvanceEpoch(n)

Spec == Init /\ [][Next]_vars

(***************************************************************************)
(* Properties                                                              *)
(***************************************************************************)
TypeOK ==
    /\ reg \in [Nodes -> [Voters -> Entries]]
    /\ epoch \in [Nodes -> Epochs]
    /\ \A n \in Nodes : /\ DOMAIN snap[n] \subseteq Epochs
                        /\ \A e \in DOMAIN snap[n] : snap[n][e] \in [Voters -> Nat]
    /\ held \in [Nodes -> SUBSET Blocks]
    /\ adopted \in [Nodes -> SUBSET Blocks]
    /\ registered \in [Nodes -> SUBSET Blocks]
    /\ choice \in [Nodes -> SUBSET (Voters \X Blocks)]
    /\ tally \in [Nodes -> [Blocks -> Nat]]
    /\ lastVote \in [Nodes -> [Groups -> Epochs \cup {-1}]]
    /\ winner \in [Nodes -> [Groups -> Blocks \cup {None}]]
    /\ final \in [Nodes -> SUBSET Blocks]
    /\ rejected \in [Nodes -> SUBSET Blocks]
    /\ inbox \in [Nodes -> SUBSET Votes]
    /\ cast \subseteq Votes
    /\ counted \in [Nodes -> SUBSET Votes]

\* The votes of node n behind block b, and the seats of a set of votes.
BackingIn(C, b) == {m \in C : m.block = b}
Backing(n, b) == BackingIn(counted[n], b)

SeatsOf(P) == MapThenSumSet(LAMBDA m : m.seats, P)

\* A node declares a block final only on an absolute quorum of seats held by
\* different validators, whatever the order, repetition and epochs of the
\* votes (finality.ts:13, "an ABSOLUTE quorum of the expected committee").
QuorumBehindFinal ==
    \A n \in Nodes : \A b \in final[n] :
        /\ SeatsOf(Backing(n, b)) >= Quorum
        /\ \A x, y \in Backing(n, b) : x.voter = y.voter => x = y

\* A node finalizes at most one block of a position, also across epochs and
\* the pruning of stalled groups, and never one it rejected (applyVote,
\* pruneStale).
OneFinalPerGroup ==
    \A n \in Nodes : \A b \in final[n] :
        SiblingsOf(b, final[n]) = {} /\ b \notin rejected[n]

\* Two nodes finalize no two siblings.
FinalityAgrees ==
    \A n, k \in Nodes : \A b \in final[n] : SiblingsOf(b, final[k]) = {}

\* The books a node starts from, aged by its epochs, and the draw of an epoch
\* that follows from them.
EntryAt(v, e) == [bonded   |-> v \in Bonded,
                  activity |-> IF v \in Bonded THEN AtMost(e, MaxAge) ELSE 0,
                  slashed  |-> FALSE]
WeightsAt(e) == [v \in Voters |-> WeightOfEntry(EntryAt(v, e))]
DrawAt(e) == [v \in Voters |-> Seats(v, e, WeightsAt(e)[v], Total(WeightsAt(e)))]

\* A validator bonded late on the node, or was slashed there.
BooksMoved(n) ==
    \E v \in Voters : reg[n][v].slashed \/ (reg[n][v].bonded /\ v \notin Bonded)

\* A fork of the verdicts has a cause: two nodes finalize two siblings only
\* when some validator is behind both, when committees of several epochs are,
\* when a vote was drawn by a registry in which somebody had bonded late or
\* been slashed (bondStake is the node's own and never gossiped), or when
\* the lottery of the epoch dealt two quorums (finality.ts:13, "an ABSOLUTE
\* quorum of the expected committee", line 20, "the first to reach quorum wins").
SplitsAreExplained ==
    \A n, k \in Nodes : \A b \in final[n] : \A c \in SiblingsOf(b, final[k]) :
        LET votes == Backing(n, b) \cup Backing(k, c) IN
        \/ \E x \in Backing(n, b), y \in Backing(k, c) : x.voter = y.voter
        \/ \E x, y \in votes : x.epoch # y.epoch
        \/ \E x \in votes : BooksMoved(x.from)
        \/ \E x \in votes : Total(DrawAt(x.epoch)) >= 2 * Quorum

\* A validator is slashed only if it really voted for two siblings
\* (finality.ts:21).
SlashSound ==
    \A n \in Nodes, v \in Voters : reg[n][v].slashed =>
        \E x, y \in cast : /\ x.voter = v /\ y.voter = v
                          /\ x.block \in SiblingsOf(y.block, Blocks)

\* A validator with its key on one node is never slashed.
OneDeviceNeverSlashed ==
    \A v \in Voters : (\A n, k \in Nodes : Key[n] = v /\ Key[k] = v => n = k) =>
        \A n \in Nodes : ~reg[n][v].slashed

(***************************************************************************)
(* The inductive invariant behind OneFinalPerGroup and SlashSound          *)
(* (proved in CommitteeFinalityProofs).  Numbers of seats play no part.    *)
(***************************************************************************)
Shape ==
    /\ reg \in [Nodes -> [Voters -> Entries]]
    /\ registered \in [Nodes -> SUBSET Blocks]
    /\ choice \in [Nodes -> SUBSET (Voters \X Blocks)]
    /\ winner \in [Nodes -> [Groups -> Blocks \cup {None}]]
    /\ final \in [Nodes -> SUBSET Blocks]
    /\ rejected \in [Nodes -> SUBSET Blocks]
    /\ inbox \in [Nodes -> SUBSET cast]
    /\ \A m \in cast : m.voter \in Voters /\ m.block \in Blocks

\* The verdicts on a group agree with its winner.
Decided ==
    \A n \in Nodes :
        /\ \A b \in final[n] : winner[n][Group[b]] = b
        /\ \A b \in rejected[n] : winner[n][Group[b]] \notin {None, b}

\* Every recorded choice is a vote that was cast.
ChoicesCast ==
    \A n \in Nodes : \A v \in Voters, b \in Blocks :
        <<v, b>> \in choice[n] => \E m \in cast : m.voter = v /\ m.block = b

VerdictInv == Shape /\ Decided /\ ChoicesCast /\ SlashSound

(***************************************************************************)
(* The inductive invariant behind QuorumBehindFinal.  While a position is  *)
(* open, its tally is what the counted votes weigh and every voter counted *)
(* is remembered; what a verdict rested on stays counted.                  *)
(***************************************************************************)

\* C: votes counted, ch: choices, ta: tally, wi: winners, fi: final blocks.
Tallied(C, ch, ta, wi, fi) ==
    /\ IsFiniteSet(C)
    /\ \A x, y \in C : x.voter = y.voter /\ Group[x.block] = Group[y.block] => x = y
    /\ \A m \in C : wi[Group[m.block]] = None => <<m.voter, m.block>> \in ch
    /\ \A b \in Blocks : wi[Group[b]] = None => ta[b] = SeatsOf(BackingIn(C, b))
    /\ \A b \in fi : SeatsOf(BackingIn(C, b)) >= Quorum

CountInv ==
    /\ epoch \in [Nodes -> Epochs]
    /\ tally \in [Nodes -> [Blocks -> Nat]]
    /\ counted \in [Nodes -> SUBSET cast]
    /\ \A m \in cast : m.seats \in Nat /\ m.epoch \in Epochs
    /\ \A n \in Nodes : Tallied(counted[n], choice[n], tally[n], winner[n], final[n])

\* Each verdict has its winner, each choice its vote, each slashed validator
\* its two votes, each tally and each final block the seats of the votes that
\* were counted (applyVote, pruneStale, slash).
FinalityInv == VerdictInv /\ CountInv

\* A vote of a closed epoch still counts: as long as nobody is bonded late or
\* slashed, a vote of epoch 1 or later verifies on every node that reached
\* that epoch and still keeps its weights, however far the nodes' epochs are
\* apart (finality.ts:54, "late, cross-epoch votes verify correctly").
LateVotesVerify ==
    \A m \in cast, n \in Nodes :
        m.epoch >= 1 /\ m.epoch \in (epoch[n] - WeightRetain)..epoch[n] => Verified(n, m)
====
