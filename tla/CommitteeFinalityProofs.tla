--------------------- MODULE CommitteeFinalityProofs ---------------------
(***************************************************************************)
(* A node finalizes at most one block of a position and slashes only who   *)
(* voted twice, for every set of nodes, voters and blocks, every draw and  *)
(* every way the nodes' registries, epochs and votes drift apart.          *)
(*                                                                         *)
(* VerdictInv is inductive: a verdict is written together with the        *)
(* group's winner, which pruning keeps, and a choice is recorded only from *)
(* a vote that was cast.                                                   *)
(***************************************************************************)
EXTENDS CommitteeFinality, SumTheorems

\* Ageing keeps an entry's shape and verdict.
LEMMA AgedEntry ==
    ASSUME NEW r \in Entries
    PROVE  Aged(r) \in Entries /\ Aged(r).slashed = r.slashed
  <1>1. r.activity \in 0..MaxAge /\ MaxAge \in Nat
    BY CommitteeAssumption DEF Entries
  <1>2. AtMost(r.activity + 1, MaxAge) \in 0..MaxAge
    BY <1>1 DEF AtMost
  <1> QED BY <1>2 DEF Aged, Entries

\* Setting the flags of a registry entry keeps its shape.
LEMMA BondedEntry ==
    ASSUME NEW r \in Entries, NEW x \in BOOLEAN, NEW y \in BOOLEAN
    PROVE  /\ [r EXCEPT !.bonded = x] \in Entries
           /\ [r EXCEPT !.bonded = x].slashed = r.slashed
           /\ [r EXCEPT !.bonded = x, !.slashed = y] \in Entries
  BY DEF Entries

\* A step that slashes nobody keeps SlashSound.
LEMMA SlashedVoters ==
    ASSUME SlashSound, cast' = cast,
           \A k \in Nodes, u \in Voters : reg'[k][u].slashed = reg[k][u].slashed
    PROVE  SlashSound'
  <1>1. ASSUME NEW k \in Nodes, NEW v \in Voters, reg'[k][v].slashed
        PROVE  \E x, y \in cast' : /\ x.voter = v /\ y.voter = v
                                   /\ x.block \in SiblingsOf(y.block, Blocks)
    BY <1>1 DEF SlashSound
  <1> QED BY <1>1 DEF SlashSound

\* What counting one vote does to the tallies of a node.
LEMMA ApplyShape ==
    ASSUME Shape, NEW n \in Nodes, NEW m, NEW blocks,
           m.voter \in Voters, m.block \in Blocks, ApplyVote(n, m, blocks)
    PROVE  /\ reg' \in [Nodes -> [Voters -> Entries]]
           /\ registered' \in [Nodes -> SUBSET Blocks]
           /\ choice' \in [Nodes -> SUBSET (Voters \X Blocks)]
           /\ winner' \in [Nodes -> [Groups -> Blocks \cup {None}]]
           /\ final' \in [Nodes -> SUBSET Blocks]
           /\ rejected' \in [Nodes -> SUBSET Blocks]
  <1>1. registered' \in [Nodes -> SUBSET Blocks]
    BY DEF ApplyVote, Shape
  <1>2. CASE FirstChoice(n, m) /\ UNCHANGED reg /\ AddSeats(n, m)
    BY <1>1, <1>2 DEF AddSeats, Shape
  <1>3. CASE FirstChoice(n, m) /\ UNCHANGED reg /\ Finalize(n, m)
    <2>1. SiblingsOf(m.block, registered[n]) \subseteq Blocks
      BY DEF SiblingsOf, Shape
    <2>2. Group[m.block] \in Groups
      BY CommitteeAssumption
    <2>3. winner' \in [Nodes -> [Groups -> Blocks \cup {None}]]
      BY <1>3, <2>2 DEF Finalize, Shape
    <2>4. choice' \in [Nodes -> SUBSET (Voters \X Blocks)]
      BY <1>3 DEF Finalize, Shape
    <2>5. final' \in [Nodes -> SUBSET Blocks] /\ rejected' \in [Nodes -> SUBSET Blocks]
      BY <1>3, <2>1 DEF Finalize, Shape
    <2> QED BY <1>1, <1>3, <2>3, <2>4, <2>5 DEF Shape
  <1>4. CASE Slash(n, m.voter) /\ UNCHANGED results
    <2>1. reg \in [Nodes -> [Voters -> Entries]]
      BY DEF Shape
    <2> DEFINE r == reg[n][m.voter]
    <2>2. r \in Entries
      BY <2>1
    <2> HIDE DEF r
    <2>3. [r EXCEPT !.bonded = FALSE, !.slashed = TRUE] \in Entries
      BY <2>2, BondedEntry
    <2>4. [reg[n][m.voter] EXCEPT !.bonded = FALSE, !.slashed = TRUE] \in Entries
      BY <2>3 DEF r
    <2>5. reg' \in [Nodes -> [Voters -> Entries]]
      BY <1>4, <2>1, <2>4 DEF Slash
    <2> QED BY <1>1, <1>4, <2>5 DEF results, Shape
  <1>5. CASE UNCHANGED <<reg, results>>
    BY <1>1, <1>5 DEF results, Shape
  <1> QED BY <1>2, <1>3, <1>4, <1>5 DEF ApplyVote

\* Counting a vote writes a verdict only together with its winner.
LEMMA ApplyDecided ==
    ASSUME Shape, Decided, NEW n \in Nodes, NEW m, NEW blocks,
           m.voter \in Voters, m.block \in Blocks, ApplyVote(n, m, blocks)
    PROVE  Decided'
  <1>1. CASE Countable(n, m) /\ Finalize(n, m)
    <2> DEFINE g == Group[m.block]
    <2>1. g \in Groups /\ \A b \in Blocks : Group[b] \in Groups
      BY CommitteeAssumption
    <2>2. winner[n][g] = None /\ m.block # None
      BY <1>1, CommitteeAssumption DEF Countable
    <2>3. \A k \in Nodes, h \in Groups :
             winner'[k][h] = IF k = n /\ h = g THEN m.block ELSE winner[k][h]
      BY <1>1, <2>1 DEF Finalize, Shape
    <2>4. \A k \in Nodes : final'[k] = IF k = n THEN final[k] \cup {m.block} ELSE final[k]
      BY <1>1 DEF Finalize, Shape
    <2>5. \A k \in Nodes : rejected'[k] =
             IF k = n THEN rejected[k] \cup SiblingsOf(m.block, registered[n]) ELSE rejected[k]
      BY <1>1 DEF Finalize, Shape
    <2>6. ASSUME NEW k \in Nodes, NEW b \in final'[k]
          PROVE  winner'[k][Group[b]] = b
      <3>1. CASE k = n /\ b = m.block
        BY <2>1, <2>3, <3>1
      <3>2. CASE ~(k = n /\ b = m.block)
        <4>1. b \in final[k] /\ b \in Blocks
          BY <2>4, <2>6, <3>2 DEF Shape
        <4>2. winner[k][Group[b]] = b /\ b # None
          BY <4>1, CommitteeAssumption DEF Decided
        <4> QED BY <2>1, <2>2, <2>3, <4>1, <4>2
      <3> QED BY <3>1, <3>2
    <2>7. ASSUME NEW k \in Nodes, NEW b \in rejected'[k]
          PROVE  winner'[k][Group[b]] \notin {None, b}
      <3>1. CASE b \in rejected[k]
        <4>1. b \in Blocks /\ winner[k][Group[b]] \notin {None, b}
          BY <3>1 DEF Shape, Decided
        <4> QED BY <2>1, <2>2, <2>3, <4>1
      <3>2. CASE k = n /\ b \in SiblingsOf(m.block, registered[n])
        <4>1. b \in Blocks /\ Group[b] = g /\ b # m.block
          BY <3>2 DEF SiblingsOf, Shape
        <4> QED BY <2>1, <2>2, <2>3, <3>2, <4>1
      <3> QED BY <2>5, <2>7, <3>1, <3>2
    <2> QED BY <2>6, <2>7 DEF Decided
  <1>2. CASE UNCHANGED <<winner, final, rejected>>
    BY <1>2 DEF Decided
  <1> QED BY <1>1, <1>2 DEF ApplyVote, AddSeats, results

\* Counting a vote that was cast keeps choices and slashes backed by votes.
LEMMA ApplyBacked ==
    ASSUME Shape, ChoicesCast, SlashSound,
           NEW n \in Nodes, NEW m \in cast', NEW blocks,
           m.voter \in Voters, m.block \in Blocks, cast \subseteq cast',
           ApplyVote(n, m, blocks)
    PROVE  ChoicesCast' /\ SlashSound'
  <1>1. ASSUME NEW k \in Nodes, NEW v \in Voters, NEW b \in Blocks,
               <<v, b>> \in choice'[k]
        PROVE  \E x \in cast' : x.voter = v /\ x.block = b
    <2>1. <<v, b>> \in choice[k] \/ (v = m.voter /\ b = m.block)
      <3>1. CASE AddSeats(n, m)
        BY <1>1, <3>1 DEF AddSeats, Shape
      <3>2. CASE Finalize(n, m)
        BY <1>1, <3>2 DEF Finalize, Shape
      <3>3. CASE UNCHANGED choice
        BY <1>1, <3>3
      <3> QED BY <3>1, <3>2, <3>3 DEF ApplyVote, results
    <2> QED BY <2>1 DEF ChoicesCast
  <1>2. ASSUME NEW k \in Nodes, NEW v \in Voters, reg'[k][v].slashed
        PROVE  \E x, y \in cast' : /\ x.voter = v /\ y.voter = v
                                   /\ x.block \in SiblingsOf(y.block, Blocks)
    <2>1. CASE reg[k][v].slashed
      BY <2>1 DEF SlashSound
    <2>2. CASE ~reg[k][v].slashed
      <3>1. Equivocates(n, m) /\ Slash(n, m.voter)
        BY <1>2, <2>2 DEF ApplyVote, AddSeats, Finalize
      <3>2. v = m.voter
        BY <1>2, <2>2, <3>1 DEF Slash, Shape, Entries
      <3>3. PICK b \in Prior(n, m) : b # m.block
        BY <3>1 DEF Equivocates
      <3>4. b \in Blocks /\ <<m.voter, b>> \in choice[n] /\ Group[b] = Group[m.block]
        BY DEF Prior
      <3>5. PICK x \in cast : x.voter = m.voter /\ x.block = b
        BY <3>4 DEF ChoicesCast
      <3>6. x.block \in SiblingsOf(m.block, Blocks)
        BY <3>3, <3>4, <3>5 DEF SiblingsOf
      <3> QED BY <3>2, <3>5, <3>6
    <2> QED BY <2>1, <2>2
  <1>3. ChoicesCast'
    BY <1>1 DEF ChoicesCast
  <1>4. SlashSound'
    BY <1>2 DEF SlashSound
  <1> QED BY <1>3, <1>4

\* A node's vote names a voter and a block.
LEMMA VoteShape ==
    ASSUME NEW n \in Nodes, NEW b \in Blocks
    PROVE  VoteOf(n, b).voter \in Voters /\ VoteOf(n, b).block \in Blocks
  BY CommitteeAssumption DEF VoteOf

\* VerdictInv holds at the start and over each action.
LEMMA InitInv == Init => VerdictInv
  <1> SUFFICES ASSUME Init PROVE VerdictInv
    OBVIOUS
  <1>1. \A v \in Voters :
          [bonded |-> v \in Bonded, activity |-> 0, slashed |-> FALSE] \in Entries
    BY CommitteeAssumption DEF Entries
  <1>2. Shape
    BY <1>1 DEF Init, Shape
  <1>3. Decided /\ ChoicesCast /\ SlashSound
    BY DEF Init, Decided, ChoicesCast, SlashSound
  <1> QED BY <1>2, <1>3 DEF VerdictInv

\* An adopted block is voted on, counted and the vote published.
LEMMA AddBlockInv ==
    ASSUME VerdictInv, NEW n \in Nodes, NEW b \in Blocks, AddBlock(n, b)
    PROVE  VerdictInv'
  <1> DEFINE m == VoteOf(n, b)
  <1>1. Shape /\ Decided /\ ChoicesCast /\ SlashSound
    BY DEF VerdictInv
  <1>2. m.voter \in Voters /\ m.block \in Blocks
    BY VoteShape
  <1>3. CASE UNCHANGED <<reg, tallies, network>>
    BY <1>1, <1>3 DEF VerdictInv, Shape, Decided, ChoicesCast, SlashSound,
                      tallies, results, network
  <1>4. ASSUME NEW blocks, ApplyVote(n, m, blocks), cast' = cast \cup {m},
               inbox' = [x \in Nodes |-> IF x = n THEN inbox[x] ELSE inbox[x] \cup {m}]
        PROVE  VerdictInv'
    <2>1. inbox' \in [Nodes -> SUBSET cast']
      BY <1>1, <1>4 DEF Shape
    <2>2. \A x \in cast' : x.voter \in Voters /\ x.block \in Blocks
      BY <1>1, <1>2, <1>4 DEF Shape
    <2>3. Shape'
      BY <1>1, <1>2, <1>4, <2>1, <2>2, ApplyShape DEF Shape
    <2>4. Decided' /\ ChoicesCast' /\ SlashSound'
      BY <1>1, <1>2, <1>4, ApplyDecided, ApplyBacked
    <2> QED BY <2>3, <2>4 DEF VerdictInv
  <1> QED BY <1>3, <1>4 DEF AddBlock, CastVote

\* A gossiped vote was cast.
LEMMA DeliverVoteInv ==
    ASSUME VerdictInv, NEW n \in Nodes, NEW m \in inbox[n], DeliverVote(n, m)
    PROVE  VerdictInv'
  <1>1. Shape /\ Decided /\ ChoicesCast /\ SlashSound
    BY DEF VerdictInv
  <1>2. m \in cast /\ m.voter \in Voters /\ m.block \in Blocks
    BY <1>1 DEF Shape
  <1>3. cast' = cast /\ ApplyVote(n, m, held[n])
    BY DEF DeliverVote
  <1>4. inbox' \in [Nodes -> SUBSET cast']
    BY <1>1, <1>3 DEF Shape, DeliverVote
  <1>5. Shape'
    BY <1>1, <1>2, <1>3, <1>4, ApplyShape DEF Shape
  <1>6. Decided' /\ ChoicesCast' /\ SlashSound'
    BY <1>1, <1>2, <1>3, ApplyDecided, ApplyBacked
  <1> QED BY <1>5, <1>6 DEF VerdictInv

\* Bonding touches one registry entry.
LEMMA BondStakeInv ==
    ASSUME VerdictInv, NEW n \in Nodes, NEW v \in Voters, BondStake(n, v)
    PROVE  VerdictInv'
  <1>1. reg \in [Nodes -> [Voters -> Entries]]
    BY DEF VerdictInv, Shape
  <1>2. /\ [reg[n][v] EXCEPT !.bonded = TRUE] \in Entries
        /\ [reg[n][v] EXCEPT !.bonded = TRUE].slashed = reg[n][v].slashed
    <2>1. reg[n][v] \in Entries
      BY <1>1
    <2> QED BY <2>1, BondedEntry
  <1>3. reg' = [reg EXCEPT ![n][v].bonded = TRUE]
    BY DEF BondStake
  <1>4. reg' \in [Nodes -> [Voters -> Entries]]
    BY <1>1, <1>2, <1>3
  <1>5. \A k \in Nodes, u \in Voters : reg'[k][u].slashed = reg[k][u].slashed
    BY <1>1, <1>2, <1>3
  <1>6. UNCHANGED <<registered, choice, winner, final, rejected, inbox, cast>>
    BY DEF BondStake, tallies, results, network
  <1>7. SlashSound'
    BY <1>5, <1>6, SlashedVoters DEF VerdictInv
  <1> QED BY <1>4, <1>6, <1>7 DEF VerdictInv, Shape, Decided, ChoicesCast

\* Pruning forgets choices, never a winner.
LEMMA AdvanceEpochInv ==
    ASSUME VerdictInv, NEW n \in Nodes, AdvanceEpoch(n)
    PROVE  VerdictInv'
  <1> DEFINE e     == epoch[n] + 1
             stale == {g \in Groups : Stale(n, g, e)}
  <1>1. Shape /\ Decided /\ ChoicesCast /\ SlashSound
    BY DEF VerdictInv
  <1>2. PruneStale(n, e) /\ UNCHANGED network
    BY DEF AdvanceEpoch
  <1>3. /\ reg' \in [Nodes -> [Voters -> Entries]]
        /\ \A k \in Nodes, u \in Voters : reg'[k][u].slashed = reg[k][u].slashed
    <2>1. reg \in [Nodes -> [Voters -> Entries]]
      BY <1>1 DEF Shape
    <2>2. reg' = [reg EXCEPT ![n] = [v \in Voters |-> Aged(reg[n][v])]]
      BY DEF AdvanceEpoch
    <2> QED BY <2>1, <2>2, AgedEntry
  <1>4. winner' = winner
    <2>1. winner' = [winner EXCEPT ![n] =
                       [g \in Groups |-> IF g \in stale THEN None ELSE winner[n][g]]]
      BY <1>2 DEF PruneStale
    <2>2. \A g \in stale : winner[n][g] = None
      BY DEF Stale
    <2>3. winner \in [Nodes -> [Groups -> Blocks \cup {None}]]
      BY <1>1 DEF Shape
    <2>4. [g \in Groups |-> IF g \in stale THEN None ELSE winner[n][g]] = winner[n]
      BY <2>2, <2>3
    <2> QED BY <2>1, <2>3, <2>4
  <1>5. /\ registered' \in [Nodes -> SUBSET Blocks]
        /\ choice' \in [Nodes -> SUBSET (Voters \X Blocks)]
        /\ \A k \in Nodes : choice'[k] \subseteq choice[k]
    BY <1>1, <1>2 DEF PruneStale, Shape
  <1>6. UNCHANGED <<final, rejected, inbox, cast>>
    BY <1>2 DEF PruneStale, network
  <1>7. Shape'
    BY <1>1, <1>3, <1>4, <1>5, <1>6 DEF Shape
  <1>8. Decided'
    BY <1>1, <1>4, <1>6 DEF Decided
  <1>9. ChoicesCast'
    BY <1>1, <1>5, <1>6 DEF ChoicesCast
  <1>10. SlashSound'
    BY <1>1, <1>3, <1>6, SlashedVoters
  <1> QED BY <1>7, <1>8, <1>9, <1>10 DEF VerdictInv

\* Every verdict has its winner, every choice its vote and every slashed
\* validator its two votes, in every reachable state (applyCommitteeVote,
\* pruneStale).
LEMMA VerdictInvariant == Spec => []VerdictInv
  <1>1. VerdictInv /\ [Next]_vars => VerdictInv'
    <2> SUFFICES ASSUME VerdictInv, [Next]_vars PROVE VerdictInv'
      OBVIOUS
    <2>1. CASE UNCHANGED vars
      BY <2>1 DEF VerdictInv, Shape, Decided, ChoicesCast, SlashSound,
                  vars, validators, tallies, results, network
    <2>2. CASE Next
      BY <2>2, AddBlockInv, DeliverVoteInv, BondStakeInv, AdvanceEpochInv DEF Next
    <2> QED BY <2>1, <2>2
  <1> QED BY <1>1, InitInv, PTL DEF Spec

\* A node finalizes at most one block of a position and none it rejected,
\* although it forgets stalled votes and decides over many epochs.
THEOREM OneFinal == Spec => []OneFinalPerGroup
  <1>1. VerdictInv => OneFinalPerGroup
    <2> SUFFICES ASSUME VerdictInv, NEW n \in Nodes, NEW b \in final[n]
                 PROVE  SiblingsOf(b, final[n]) = {} /\ b \notin rejected[n]
      BY DEF OneFinalPerGroup
    <2>1. winner[n][Group[b]] = b
      BY DEF VerdictInv, Decided
    <2>2. \A x \in final[n] : Group[x] = Group[b] => x = b
      BY <2>1 DEF VerdictInv, Decided
    <2>3. b \notin rejected[n]
      BY <2>1 DEF VerdictInv, Decided
    <2> QED BY <2>2, <2>3 DEF SiblingsOf
  <1> QED BY <1>1, VerdictInvariant, PTL

\* Only a validator that voted for two siblings is slashed, on any node, and
\* however late, repeated or out of order its votes arrive.
THEOREM SlashedVotedTwice == Spec => []SlashSound
  <1>1. VerdictInv => SlashSound
    BY DEF VerdictInv
  <1> QED BY <1>1, VerdictInvariant, PTL


(***************************************************************************)
(* Who may be slashed.  A device votes only for blocks it adopted, with    *)
(* the key it holds, and adopts one block of a position.                   *)
(***************************************************************************)
OneSided ==
    /\ adopted \in [Nodes -> SUBSET Blocks]
    /\ \A n \in Nodes : \A b \in adopted[n] : SiblingsOf(b, adopted[n]) = {}

VotesOfAdopted ==
    \A m \in cast : /\ m.from \in Nodes
                    /\ m.voter = Key[m.from]
                    /\ m.block \in adopted[m.from]

\* Adopting a block keeps one block of a position.
LEMMA OneSidedGrows ==
    ASSUME OneSided, NEW n \in Nodes, NEW b \in Blocks,
           SiblingsOf(b, adopted[n]) = {},
           adopted' = [adopted EXCEPT ![n] = @ \cup {b}]
    PROVE  /\ OneSided'
           /\ \A k \in Nodes : adopted[k] \subseteq adopted'[k]
           /\ b \in adopted'[n]
  <1>1. \A k \in Nodes : adopted'[k] = IF k = n THEN adopted[k] \cup {b} ELSE adopted[k]
    BY DEF OneSided
  <1>2. adopted' \in [Nodes -> SUBSET Blocks]
    BY DEF OneSided
  <1>3. ASSUME NEW k \in Nodes, NEW x \in adopted'[k], NEW y \in adopted'[k],
               Group[y] = Group[x], y # x
        PROVE  FALSE
    BY <1>1, <1>3 DEF OneSided, SiblingsOf
  <1>4. \A k \in Nodes : \A x \in adopted'[k] : SiblingsOf(x, adopted'[k]) = {}
    BY <1>3 DEF SiblingsOf
  <1> QED BY <1>1, <1>2, <1>4 DEF OneSided

\* Both facts hold over every step.
LEMMA VotesOfAdoptedStep ==
    ASSUME OneSided, VotesOfAdopted, [Next]_vars
    PROVE  OneSided' /\ VotesOfAdopted'
  <1>1. CASE UNCHANGED <<adopted, cast>>
    BY <1>1 DEF OneSided, VotesOfAdopted
  <1>2. ASSUME NEW n \in Nodes, NEW b \in Blocks, AddBlock(n, b)
        PROVE  OneSided' /\ VotesOfAdopted'
    <2>1. CASE UNCHANGED <<adopted, network>>
      BY <1>1, <2>1 DEF network
    <2>2. CASE /\ SiblingsOf(b, adopted[n]) = {}
               /\ adopted' = [adopted EXCEPT ![n] = @ \cup {b}]
               /\ CastVote(n, b, held[n] \cup {b})
      <3>1. /\ OneSided' /\ b \in adopted'[n]
            /\ \A k \in Nodes : adopted[k] \subseteq adopted'[k]
        BY <2>2, OneSidedGrows
      <3>2. cast' = cast \/ cast' = cast \cup {VoteOf(n, b)}
        BY <2>2 DEF CastVote, network
      <3>3. /\ VoteOf(n, b).from = n /\ VoteOf(n, b).voter = Key[n]
            /\ VoteOf(n, b).block = b
        BY DEF VoteOf
      <3>4. VotesOfAdopted'
        BY <3>1, <3>2, <3>3 DEF VotesOfAdopted
      <3> QED BY <3>1, <3>4
    <2> QED BY <1>2, <2>1, <2>2 DEF AddBlock
  <1>3. ASSUME NEW n \in Nodes,
               \/ \E m \in inbox[n] : DeliverVote(n, m)
               \/ \E v \in Voters : BondStake(n, v)
               \/ AdvanceEpoch(n)
        PROVE  UNCHANGED <<adopted, cast>>
    BY <1>3 DEF DeliverVote, BondStake, AdvanceEpoch, network
  <1>4. CASE UNCHANGED vars
    BY <1>1, <1>4 DEF vars, network
  <1> QED BY <1>1, <1>2, <1>3, <1>4 DEF Next

LEMMA VotesAreOfAdopted == Spec => [](OneSided /\ VotesOfAdopted)
  <1>1. Init => OneSided /\ VotesOfAdopted
    BY DEF Init, OneSided, VotesOfAdopted
  <1>2. OneSided /\ VotesOfAdopted /\ [Next]_vars => (OneSided /\ VotesOfAdopted)'
    BY VotesOfAdoptedStep
  <1> QED BY <1>1, <1>2, PTL DEF Spec

\* What the two facts and SlashSound say of a slashed validator: two devices
\* hold its key.
LEMMA SlashedHasTwoDevices ==
    ASSUME OneSided, VotesOfAdopted, SlashSound
    PROVE  OneDeviceNeverSlashed
  <1> SUFFICES ASSUME NEW v \in Voters, NEW n \in Nodes, reg[n][v].slashed,
                      \A k, l \in Nodes : Key[k] = v /\ Key[l] = v => k = l
               PROVE  FALSE
    BY DEF OneDeviceNeverSlashed
  <1>1. PICK x \in cast, y \in cast : /\ x.voter = v /\ y.voter = v
                                      /\ x.block \in SiblingsOf(y.block, Blocks)
    BY DEF SlashSound
  <1>2. x.from = y.from /\ x.from \in Nodes
    BY <1>1 DEF VotesOfAdopted
  <1>3. x.block \in SiblingsOf(y.block, adopted[y.from])
    BY <1>1, <1>2 DEF VotesOfAdopted, SiblingsOf
  <1>4. y.block \in adopted[y.from]
    BY DEF VotesOfAdopted
  <1> QED BY <1>2, <1>3, <1>4 DEF OneSided

\* A validator whose key is on one device is slashed nowhere, whatever forks
\* it is shown and however its votes are repeated (castCommitteeVote,
\* applyVote).
THEOREM OneDeviceSafe == Spec => []OneDeviceNeverSlashed
  BY SlashedVotedTwice, VotesAreOfAdopted, SlashedHasTwoDevices, PTL


(***************************************************************************)
(* Votes of closed epochs.  When nobody bonds late and no key is on two    *)
(* devices, the registry of a node is a function of its epoch, so every    *)
(* snapshot of an epoch, wherever it was taken, has the same weights.      *)
(***************************************************************************)
Retained(e) == {x \in 1..e : x >= e - WeightRetain}

SameBooks ==
    \A n \in Nodes :
        /\ epoch[n] \in Epochs
        /\ \A v \in Voters : reg[n][v] = EntryAt(v, epoch[n])
        /\ snap[n] = [e \in Retained(epoch[n]) |-> WeightsAt(e)]

DrawnSeats(m) == Seats(m.voter, m.epoch, WeightsAt(m.epoch)[m.voter], Total(WeightsAt(m.epoch)))

VotesDrawn == \A m \in cast : m.seats > 0 /\ m.seats = DrawnSeats(m)

BookTypes ==
    /\ epoch \in [Nodes -> Epochs]
    /\ reg \in [Nodes -> [Voters -> Entries]]
    /\ DOMAIN snap = Nodes

LateInv == BookTypes /\ SameBooks /\ VotesDrawn

\* A device that has reached an epoch draws with that epoch's weights.
LEMMA LiveAreWeightsAt ==
    ASSUME SameBooks, NEW n \in Nodes
    PROVE  LiveWeights(n) = WeightsAt(epoch[n])
  BY DEF SameBooks, LiveWeights, WeightsAt

\* One more epoch ages every bond the same.
LEMMA AgedEntryAt ==
    ASSUME NEW v \in Voters, NEW e \in Nat
    PROVE  Aged(EntryAt(v, e)) = EntryAt(v, e + 1)
  <1>1. MaxAge \in Nat
    BY CommitteeAssumption
  <1>2. AtMost(AtMost(e, MaxAge) + 1, MaxAge) = AtMost(e + 1, MaxAge)
    BY <1>1 DEF AtMost
  <1>3. CASE v \in Bonded
    <2> DEFINE r == [bonded |-> TRUE, activity |-> AtMost(e, MaxAge), slashed |-> FALSE]
    <2>1. EntryAt(v, e) = r
      BY <1>3 DEF EntryAt
    <2>2. EntryAt(v, e + 1) = [bonded |-> TRUE, activity |-> AtMost(e + 1, MaxAge), slashed |-> FALSE]
      BY <1>3 DEF EntryAt
    <2>3. Aged(r) = [r EXCEPT !.activity = AtMost(AtMost(e, MaxAge) + 1, MaxAge)]
      BY DEF Aged
    <2> QED BY <1>2, <2>1, <2>2, <2>3
  <1>4. CASE v \notin Bonded
    BY <1>4 DEF EntryAt, Aged
  <1> QED BY <1>3, <1>4

\* Closing an epoch keeps the books the same everywhere.
LEMMA SameBooksAdvance ==
    ASSUME BookTypes, SameBooks, NEW n \in Nodes, AdvanceEpoch(n)
    PROVE  BookTypes' /\ SameBooks'
  <1> DEFINE e   == epoch[n] + 1
             now == [v \in Voters |-> Aged(reg[n][v])]
             w   == [v \in Voters |-> WeightOfEntry(now[v])]
  <1>1. /\ epoch[n] \in Epochs /\ epoch[n] < MaxEpoch /\ MaxEpoch \in Nat
        /\ WeightRetain \in Nat
    BY CommitteeAssumption DEF BookTypes, AdvanceEpoch
  <1>2. e \in Epochs /\ e \in Nat /\ epoch[n] \in Nat /\ e >= 1
    BY <1>1 DEF Epochs
  <1>3. \A v \in Voters : now[v] = EntryAt(v, e)
    BY <1>2, AgedEntryAt DEF SameBooks
  <1>4. w = WeightsAt(e)
    BY <1>3 DEF WeightsAt
  <1>5. /\ epoch' = [epoch EXCEPT ![n] = e]
        /\ reg' = [reg EXCEPT ![n] = now]
        /\ snap' = [snap EXCEPT ![n] = Snapshots(n, e, w)]
    BY DEF AdvanceEpoch
  <1>6. now \in [Voters -> Entries]
    BY AgedEntry DEF BookTypes
  <1>7. BookTypes'
    BY <1>2, <1>5, <1>6 DEF BookTypes
  <1>8. Snapshots(n, e, w) = [x \in Retained(e) |-> WeightsAt(x)]
    <2>1. snap[n] = [x \in Retained(epoch[n]) |-> WeightsAt(x)]
      BY DEF SameBooks
    <2>2. {y \in DOMAIN snap[n] \cup {e} : y >= e - WeightRetain} = Retained(e)
      BY <1>1, <1>2, <2>1 DEF Retained
    <2>3. \A x \in Retained(e) : x # e => snap[n][x] = WeightsAt(x)
      BY <1>1, <1>2, <2>1 DEF Retained
    <2> QED BY <1>4, <2>2, <2>3 DEF Snapshots
  <1> HIDE DEF e, now, w
  <1>9. ASSUME NEW k \in Nodes
        PROVE  /\ epoch'[k] \in Epochs
               /\ \A v \in Voters : reg'[k][v] = EntryAt(v, epoch'[k])
               /\ snap'[k] = [x \in Retained(epoch'[k]) |-> WeightsAt(x)]
    <2>1. CASE k = n
      BY <1>2, <1>3, <1>5, <1>8, <2>1 DEF BookTypes
    <2>2. CASE k # n
      BY <1>5, <2>2 DEF BookTypes, SameBooks
    <2> QED BY <2>1, <2>2
  <1> QED BY <1>7, <1>9 DEF SameBooks

\* A vote that is cast is drawn with the weights of its epoch.
LEMMA VotesDrawnStep ==
    ASSUME BookTypes, SameBooks, VotesDrawn, NEW n \in Nodes, NEW b \in Blocks, AddBlock(n, b)
    PROVE  VotesDrawn'
  <1> DEFINE m == VoteOf(n, b)
  <1>1. CASE UNCHANGED cast
    BY <1>1 DEF VotesDrawn
  <1>2. CASE m.seats > 0 /\ cast' = cast \cup {m}
    <2>1. m.seats = DrawnSeats(m)
      BY LiveAreWeightsAt DEF VoteOf, DrawnSeats
    <2> QED BY <1>2, <2>1 DEF VotesDrawn
  <1> QED BY <1>1, <1>2 DEF AddBlock, CastVote, network

\* Without a slash and a late bond, only a closing epoch changes the books.
LEMMA LateStep ==
    ASSUME MayBond = {}, LateInv, VerdictInv, [Next]_vars,
           \A n \in Nodes, v \in Voters : ~reg'[n][v].slashed
    PROVE  LateInv'
  <1> USE DEF LateInv
  <1>1. ASSUME UNCHANGED validators PROVE BookTypes' /\ SameBooks'
    BY <1>1 DEF BookTypes, SameBooks, validators
  <1>2. ASSUME UNCHANGED cast PROVE VotesDrawn'
    BY <1>2 DEF VotesDrawn
  <1>3. ASSUME NEW n \in Nodes, NEW m, NEW blocks, ApplyVote(n, m, blocks), m.voter \in Voters
        PROVE  UNCHANGED reg
    <2>1. CASE Slash(n, m.voter)
      <3>1. reg'[n][m.voter].slashed
        BY <1>3, <2>1 DEF Slash, BookTypes, Entries
      <3> QED BY <1>3, <3>1
    <2> QED BY <1>3, <2>1 DEF ApplyVote
  <1>4. ASSUME NEW n \in Nodes, NEW b \in Blocks, AddBlock(n, b)
        PROVE  LateInv'
    <2>1. UNCHANGED <<epoch, snap>>
      BY <1>4 DEF AddBlock
    <2>2. UNCHANGED reg
      BY <1>3, <1>4, VoteShape DEF AddBlock, CastVote
    <2> QED BY <1>1, <1>4, <2>1, <2>2, VotesDrawnStep DEF validators
  <1>5. ASSUME NEW n \in Nodes, NEW m \in inbox[n], DeliverVote(n, m), m.voter \in Voters
        PROVE  LateInv'
    BY <1>1, <1>2, <1>3, <1>5 DEF DeliverVote, validators
  <1>6. ASSUME NEW n \in Nodes, AdvanceEpoch(n)
        PROVE  LateInv'
    BY <1>2, <1>6, SameBooksAdvance DEF AdvanceEpoch, network
  <1>7. CASE UNCHANGED vars
    BY <1>1, <1>2, <1>7 DEF vars, network
  <1>8. ASSUME NEW n \in Nodes, NEW v \in Voters, BondStake(n, v) PROVE FALSE
    BY <1>8 DEF BondStake
  <1>9. \A n \in Nodes : \A m \in inbox[n] : m.voter \in Voters
    BY DEF VerdictInv, Shape
  <1> QED BY <1>4, <1>5, <1>6, <1>7, <1>8, <1>9 DEF Next

LEMMA LateInit == Init => LateInv
  <1> SUFFICES ASSUME Init PROVE LateInv
    OBVIOUS
  <1>1. /\ 0 \in Epochs /\ MaxAge \in Nat /\ WeightRetain \in Nat
    BY CommitteeAssumption DEF Epochs
  <1>2. \A v \in Voters :
          /\ [bonded |-> v \in Bonded, activity |-> 0, slashed |-> FALSE] \in Entries
          /\ [bonded |-> v \in Bonded, activity |-> 0, slashed |-> FALSE] = EntryAt(v, 0)
    BY <1>1 DEF Entries, EntryAt, AtMost
  <1>3. BookTypes
    BY <1>1, <1>2 DEF Init, BookTypes
  <1>4. <<>> = [e \in Retained(0) |-> WeightsAt(e)]
    <2>1. Retained(0) = {}
      BY DEF Retained
    <2> QED BY <2>1
  <1>5. SameBooks
    BY <1>1, <1>2, <1>4 DEF Init, SameBooks
  <1> QED BY <1>3, <1>5 DEF Init, LateInv, VotesDrawn

\* A kept snapshot has the weights the vote was drawn with.
LEMMA LateVerified == LateInv => LateVotesVerify
  <1> SUFFICES ASSUME LateInv, NEW m \in cast, NEW n \in Nodes, m.epoch >= 1,
                      m.epoch \in (epoch[n] - WeightRetain)..epoch[n]
               PROVE  Verified(n, m)
    BY DEF LateVotesVerify
  <1>1. epoch[n] \in Nat /\ WeightRetain \in Nat /\ m.epoch \in Int
    <2>1. epoch[n] \in Epochs
      BY DEF LateInv, SameBooks
    <2>2. epoch[n] \in Nat /\ WeightRetain \in Nat
      BY <2>1, CommitteeAssumption DEF Epochs
    <2> QED BY <2>2
  <1>2. m.epoch \in Retained(epoch[n])
    BY <1>1 DEF Retained
  <1>3. Weights(n, m.epoch) = WeightsAt(m.epoch)
    BY <1>2 DEF Weights, LateInv, SameBooks
  <1> QED BY <1>1, <1>3 DEF Verified, LateInv, VotesDrawn, DrawnSeats

\* The registries stay the same function of the epoch.
LEMMA LateInvariant ==
    ASSUME MayBond = {}, \A n, k \in Nodes : Key[n] = Key[k] => n = k
    PROVE  Spec => []LateInv
  <1>1. OneDeviceNeverSlashed' => \A n \in Nodes, v \in Voters : ~reg'[n][v].slashed
    BY DEF OneDeviceNeverSlashed
  <1>2. LateInv /\ VerdictInv /\ OneDeviceNeverSlashed' /\ [Next]_vars => LateInv'
    BY <1>1, LateStep
  <1> QED BY <1>2, LateInit, OneDeviceSafe, VerdictInvariant, PTL DEF Spec

\* With one device per validator and no bond made late, a vote verifies
\* wherever its epoch has been reached and its weights are still kept, in
\* whatever order the nodes close their epochs (makeCommittee,
\* snapshotWeights).
THEOREM LateVotes ==
    ASSUME MayBond = {}, \A n, k \in Nodes : Key[n] = Key[k] => n = k
    PROVE  Spec => []LateVotesVerify
  BY LateInvariant, LateVerified, PTL

(***************************************************************************)
(* Counting seats.  While a position is open, its tally is the seats of    *)
(* the votes counted for it, a vote of each voter; a verdict is taken when *)
(* that sum reaches the quorum and later steps leave its votes alone.      *)
(***************************************************************************)
SeatsIn(P) == [m \in P |-> m.seats]

\* The seats of a set of votes are a sum of weights.
LEMMA SeatSum ==
    ASSUME NEW P, IsFiniteSet(P), \A m \in P : m.seats \in Int
    PROVE  SeatsOf(P) = SumOver(SeatsIn(P), P)
  <1> DEFINE w == SeatsIn(P)
             U(f) == f = [s \in SUBSET P |-> IF s = {} THEN 0 ELSE Pick(s).seats + f[s \ {Pick(s)}]]
             g == CHOOSE f : U(f)
  <1>1. \A m \in P : w[m] = m.seats /\ w[m] \in Int
    BY DEF SeatsIn
  <1>2. SeatsOf(P) = g[P]
    BY DEF SeatsOf, MapThenSumSet, MapThenFoldSet, Pick
  <1>3. \A s \in SUBSET P : s # {} => w[Pick(s)] = Pick(s).seats
    BY <1>1, PickIn
  <1>4. \A f : U(f) <=> Unfolds(f, w, P)
    BY <1>3 DEF Unfolds, Step
  <1> HIDE DEF w, U, g
  <1>5. PICK f : Unfolds(f, w, P) /\ SumOver(w, P) = f[P]
    BY <1>1, SumsOfSubsets
  <1>6. U(g)
    BY <1>4, <1>5 DEF g
  <1>7. g[P] = f[P]
    BY <1>1, <1>4, <1>5, <1>6, RecursionsAgree
  <1> QED BY <1>2, <1>5, <1>7 DEF w

\* No votes, no seats.
LEMMA SeatsOfNone == SeatsOf({}) = 0
  <1>1. IsFiniteSet({}) /\ \A m \in {} : m.seats \in Int
    BY FS_EmptySet
  <1> QED BY <1>1, SeatSum, SumEmpty

\* One more vote adds its seats.
LEMMA SeatsOfMore ==
    ASSUME NEW P, IsFiniteSet(P), \A x \in P : x.seats \in Nat, NEW m, m \notin P, m.seats \in Nat
    PROVE  SeatsOf(P) \in Nat /\ SeatsOf(P \cup {m}) = SeatsOf(P) + m.seats
  <1> DEFINE Q == P \cup {m}
             v == SeatsIn(P)
             w == SeatsIn(Q)
  <1>1. /\ IsFiniteSet(Q) /\ \A x \in Q : x.seats \in Int /\ w[x] = x.seats /\ w[x] \in Int
        /\ \A x \in P : x.seats \in Int /\ v[x] = x.seats /\ v[x] \in Nat /\ w[x] = v[x]
        /\ m \in Q /\ Q \ {m} = P
    BY FS_AddElement DEF SeatsIn
  <1>2. SeatsOf(P) = SumOver(v, P)
    BY <1>1, SeatSum
  <1> HIDE DEF Q
  <1>3. SeatsOf(Q) = SumOver(w, Q)
    BY <1>1, SeatSum
  <1> HIDE DEF v, w
  <1>4. SumOver(w, Q) = w[m] + SumOver(w, P)
    <2>1. SumOver(w, Q) = w[m] + SumOver(w, Q \ {m})
      BY <1>1, SumRemove
    <2> QED BY <1>1, <2>1
  <1>5. SumOver(w, P) = SumOver(v, P)
    BY <1>1, SumSame
  <1>6. SumOver(v, P) \in Nat
    BY <1>1, SumNat
  <1> QED BY <1>1, <1>2, <1>3, <1>4, <1>5, <1>6 DEF Q

\* A draw hands out a number of seats.
LEMMA SeatsType ==
    ASSUME NEW v \in Voters, NEW e \in Epochs, NEW w \in Nat, NEW total \in Nat
    PROVE  Seats(v, e, w, total) \in Nat
  <1>1. CommitteeSize \in Nat /\ CommitteeSize # 0 /\ Luck[v][e] \in Int
    BY CommitteeAssumption
  <1>2. Tickets(w) \in Nat
    BY DEF Tickets
  <1>3. CASE total > CommitteeSize
    <2> DEFINE x == Tickets(w) * CommitteeSize
    <2>1. x \in Nat /\ total > 0
      BY <1>1, <1>2, <1>3
    <2> HIDE DEF x
    <2>2. x \div total \in Int
      BY <2>1
    <2> DEFINE y == x \div total
    <2>3. y \in Int
      BY <2>2
    <2> HIDE DEF y
    <2>4. Seats(v, e, w, total) = IF y + Luck[v][e] < 0 THEN 0 ELSE AtMost(y + Luck[v][e], Tickets(w))
      BY <1>1, <1>3 DEF Seats, x, y
    <2> QED BY <1>1, <1>2, <2>3, <2>4 DEF AtMost
  <1>4. CASE total <= CommitteeSize
    BY <1>1, <1>2, <1>4 DEF Seats
  <1> QED BY <1>1, <1>3, <1>4

\* Live weights are numbers, and so is their total.
LEMMA LiveType ==
    ASSUME IsFiniteSet(Voters), NEW n \in Nodes, reg \in [Nodes -> [Voters -> Entries]]
    PROVE  LiveWeights(n) \in [Voters -> Nat] /\ Total(LiveWeights(n)) \in Nat
  <1>1. ASSUME NEW r \in Entries PROVE WeightOfEntry(r) \in Nat
    <2>1. r.activity \in 0..MaxAge /\ MaxAge \in Nat /\ StakeUnits \in Nat
      BY CommitteeAssumption DEF Entries
    <2> DEFINE a == 1 + AtMost(r.activity, MaxAge)
    <2>2. a \in Nat
      BY <2>1 DEF AtMost
    <2> HIDE DEF a
    <2>3. StakeUnits * a \in Nat
      BY <2>1, <2>2
    <2> QED BY <2>3 DEF WeightOfEntry, a
  <1> DEFINE w == LiveWeights(n)
  <1>2. w \in [Voters -> Nat]
    BY <1>1 DEF LiveWeights
  <1> HIDE DEF w
  <1>3. SumOver(w, Voters) \in Nat
    BY <1>2, SumNat
  <1>4. Total(w) = SumOver(w, Voters)
    BY DEF Total, SumOver
  <1> QED BY <1>2, <1>3, <1>4 DEF w

\* The seats of a vote that is cast.
LEMMA VoteSeats ==
    ASSUME IsFiniteSet(Voters), NEW n \in Nodes, NEW b \in Blocks,
           reg \in [Nodes -> [Voters -> Entries]], epoch[n] \in Epochs
    PROVE  VoteOf(n, b).seats \in Nat /\ VoteOf(n, b).epoch \in Epochs
  <1> DEFINE w == LiveWeights(n)
             t == Total(w)
  <1>1. Key[n] \in Voters
    BY CommitteeAssumption
  <1>2. w[Key[n]] \in Nat /\ t \in Nat
    BY <1>1, LiveType
  <1> HIDE DEF w, t
  <1>3. Seats(Key[n], epoch[n], w[Key[n]], t) \in Nat
    BY <1>1, <1>2, SeatsType
  <1> QED BY <1>3 DEF VoteOf, w, t

\* The votes of a position that is still open, and a vote that may count.
Admits(C, ch, wi, m) ==
    /\ \A x \in C : x.seats \in Nat /\ x.block \in Blocks
    /\ m.seats \in Nat /\ m.block \in Blocks
    /\ wi[Group[m.block]] = None
    /\ \A b \in Blocks : <<m.voter, b>> \in ch => Group[b] # Group[m.block]

Joins(C, D, m, t) ==
    /\ IsFiniteSet(D)
    /\ \A x, y \in D : x.voter = y.voter /\ Group[x.block] = Group[y.block] => x = y
    /\ \A b \in Blocks \ {m.block} : BackingIn(D, b) = BackingIn(C, b)
    /\ SeatsOf(BackingIn(D, m.block)) = t + m.seats

\* Such a vote is new, its voter has no other one for the position, and it
\* adds its seats to its block's.
LEMMA AdmittedVote ==
    ASSUME NEW C, NEW ch, NEW ta, NEW wi, NEW fi, NEW m,
           Tallied(C, ch, ta, wi, fi), Admits(C, ch, wi, m)
    PROVE  Joins(C, C \cup {m}, m, ta[m.block])
  <1>1. \A x \in C : x.voter = m.voter => Group[x.block] # Group[m.block]
    <2>1. ASSUME NEW x \in C, x.voter = m.voter, Group[x.block] = Group[m.block]
          PROVE  FALSE
      <3>1. wi[Group[x.block]] = None /\ x.block \in Blocks
        BY <2>1 DEF Admits
      <3>2. <<x.voter, x.block>> \in ch
        BY <3>1 DEF Tallied
      <3> QED BY <2>1, <3>1, <3>2 DEF Admits
    <2> QED BY <2>1
  <1>2. m \notin C
    BY <1>1
  <1>3. IsFiniteSet(C) /\ IsFiniteSet(C \cup {m})
    BY FS_AddElement DEF Tallied
  <1>4. \A x, y \in C \cup {m} : x.voter = y.voter /\ Group[x.block] = Group[y.block] => x = y
    <2>1. \A x, y \in C : x.voter = y.voter /\ Group[x.block] = Group[y.block] => x = y
      BY DEF Tallied
    <2> QED BY <1>1, <2>1
  <1>5. \A b \in Blocks \ {m.block} : BackingIn(C \cup {m}, b) = BackingIn(C, b)
    BY DEF BackingIn
  <1>6. SeatsOf(BackingIn(C \cup {m}, m.block)) = ta[m.block] + m.seats
    <2> DEFINE P == BackingIn(C, m.block)
    <2>1. BackingIn(C \cup {m}, m.block) = P \cup {m} /\ m \notin P
      BY <1>2 DEF BackingIn
    <2>2. IsFiniteSet(P) /\ \A x \in P : x.seats \in Nat
      BY <1>3, FS_Subset DEF BackingIn, Admits
    <2>3. ta[m.block] = SeatsOf(P) /\ m.seats \in Nat
      BY DEF Tallied, Admits
    <2> HIDE DEF P
    <2>4. SeatsOf(P \cup {m}) = SeatsOf(P) + m.seats
      BY <2>1, <2>2, <2>3, SeatsOfMore
    <2> QED BY <2>1, <2>3, <2>4
  <1> QED BY <1>3, <1>4, <1>5, <1>6 DEF Joins

\* A vote below the quorum.
LEMMA AddKeepsTally ==
    ASSUME NEW C, NEW ch, NEW ta, NEW wi, NEW fi, NEW m,
           Tallied(C, ch, ta, wi, fi), Admits(C, ch, wi, m),
           \A b \in fi : b \in Blocks /\ wi[Group[b]] # None,
           NEW tb, \A b \in Blocks : tb[b] = IF b = m.block THEN ta[b] + m.seats ELSE ta[b]
    PROVE  Tallied(C \cup {m}, ch \cup {<<m.voter, m.block>>}, tb, wi, fi)
  <1> DEFINE D == C \cup {m}
             dh == ch \cup {<<m.voter, m.block>>}
  <1>1. /\ IsFiniteSet(D)
        /\ \A x, y \in D : x.voter = y.voter /\ Group[x.block] = Group[y.block] => x = y
        /\ \A b \in Blocks \ {m.block} : BackingIn(D, b) = BackingIn(C, b)
        /\ SeatsOf(BackingIn(D, m.block)) = ta[m.block] + m.seats
        /\ m.block \in Blocks /\ wi[Group[m.block]] = None
    <2>1. Joins(C, D, m, ta[m.block])
      BY AdmittedVote
    <2>2. m.block \in Blocks /\ wi[Group[m.block]] = None
      BY DEF Admits
    <2> HIDE DEF D
    <2> QED BY <2>1, <2>2 DEF Joins
  <1>2. \A x \in D : wi[Group[x.block]] = None => <<x.voter, x.block>> \in dh
    BY DEF Tallied
  <1> HIDE DEF D, dh
  <1>3. ASSUME NEW b \in Blocks, wi[Group[b]] = None
        PROVE  tb[b] = SeatsOf(BackingIn(D, b))
    <2>1. CASE b = m.block
      BY <1>1, <2>1
    <2>2. CASE b # m.block
      BY <1>1, <1>3, <2>2 DEF Tallied
    <2> QED BY <2>1, <2>2
  <1>4. ASSUME NEW b \in fi
        PROVE  SeatsOf(BackingIn(D, b)) >= Quorum
    <2>1. b \in Blocks \ {m.block}
      BY <1>1
    <2> QED BY <1>1, <2>1 DEF Tallied
  <1> QED BY <1>1, <1>2, <1>3, <1>4 DEF Tallied, D, dh

\* The vote that reaches the quorum closes the position.
LEMMA FinalizeKeepsTally ==
    ASSUME NEW C, NEW ch, NEW ta, NEW wi, NEW fi, NEW m,
           Tallied(C, ch, ta, wi, fi), Admits(C, ch, wi, m),
           \A b \in fi : b \in Blocks /\ wi[Group[b]] # None,
           ta[m.block] + m.seats >= Quorum,
           NEW dh, \A p \in ch : Group[p[2]] # Group[m.block] => p \in dh,
           NEW tb, \A b \in Blocks : Group[b] # Group[m.block] => tb[b] = ta[b],
           NEW wj, \A g \in Groups : wj[g] = IF g = Group[m.block] THEN m.block ELSE wi[g]
    PROVE  Tallied(C \cup {m}, dh, tb, wj, fi \cup {m.block})
  <1> DEFINE D == C \cup {m}
  <1>1. /\ IsFiniteSet(D)
        /\ \A x, y \in D : x.voter = y.voter /\ Group[x.block] = Group[y.block] => x = y
        /\ \A b \in Blocks \ {m.block} : BackingIn(D, b) = BackingIn(C, b)
        /\ SeatsOf(BackingIn(D, m.block)) = ta[m.block] + m.seats
        /\ m.block \in Blocks /\ wi[Group[m.block]] = None
    <2>1. Joins(C, D, m, ta[m.block])
      BY AdmittedVote
    <2>2. m.block \in Blocks /\ wi[Group[m.block]] = None
      BY DEF Admits
    <2> HIDE DEF D
    <2> QED BY <2>1, <2>2 DEF Joins
  <1>2. \A b \in Blocks : Group[b] \in Groups
    BY CommitteeAssumption
  <1>3. ASSUME NEW b \in Blocks, wj[Group[b]] = None
        PROVE  Group[b] # Group[m.block] /\ wi[Group[b]] = None /\ b # m.block
    BY <1>1, <1>2, <1>3, CommitteeAssumption
  <1>4. ASSUME NEW x \in D, wj[Group[x.block]] = None
        PROVE  <<x.voter, x.block>> \in dh
    <2>1. x.block \in Blocks
      BY DEF Admits
    <2>2. Group[x.block] # Group[m.block] /\ wi[Group[x.block]] = None
      BY <1>3, <1>4, <2>1
    <2>3. x \in C
      BY <2>2
    <2>4. <<x.voter, x.block>> \in ch
      BY <2>2, <2>3 DEF Tallied
    <2> QED BY <2>2, <2>4
  <1> HIDE DEF D
  <1>5. ASSUME NEW b \in Blocks, wj[Group[b]] = None
        PROVE  tb[b] = SeatsOf(BackingIn(D, b))
    <2>1. Group[b] # Group[m.block] /\ wi[Group[b]] = None /\ b # m.block
      BY <1>3, <1>5
    <2> QED BY <1>1, <2>1 DEF Tallied
  <1>6. ASSUME NEW b \in fi \cup {m.block}
        PROVE  SeatsOf(BackingIn(D, b)) >= Quorum
    <2>1. CASE b = m.block
      BY <1>1, <2>1
    <2>2. CASE b # m.block
      <3>1. b \in Blocks \ {m.block} /\ b \in fi
        BY <2>2
      <3> QED BY <1>1, <3>1 DEF Tallied
    <2> QED BY <2>1, <2>2
  <1> QED BY <1>1, <1>4, <1>5, <1>6 DEF Tallied, D

\* Pruning forgets whole positions, all of them open.
LEMMA PruneKeepsTally ==
    ASSUME NEW C, NEW ch, NEW ta, NEW wi, NEW fi, Tallied(C, ch, ta, wi, fi),
           NEW st, \A g \in st : wi[g] = None,
           \A b \in fi : b \in Blocks /\ wi[Group[b]] # None,
           NEW dh, \A p \in ch : Group[p[2]] \notin st => p \in dh,
           NEW tb, \A b \in Blocks : tb[b] = IF Group[b] \in st THEN 0 ELSE ta[b]
    PROVE  Tallied({m \in C : Group[m.block] \notin st}, dh, tb, wi, fi)
  <1> DEFINE D == {m \in C : Group[m.block] \notin st}
  <1>1. IsFiniteSet(D)
    BY FS_Subset DEF Tallied
  <1>2. /\ \A x, y \in D : x.voter = y.voter /\ Group[x.block] = Group[y.block] => x = y
        /\ \A m \in D : wi[Group[m.block]] = None => <<m.voter, m.block>> \in dh
    BY DEF Tallied
  <1>3. ASSUME NEW b \in Blocks
        PROVE  BackingIn(D, b) = IF Group[b] \in st THEN {} ELSE BackingIn(C, b)
    BY DEF BackingIn
  <1> HIDE DEF D
  <1>4. ASSUME NEW b \in Blocks, wi[Group[b]] = None
        PROVE  tb[b] = SeatsOf(BackingIn(D, b))
    <2>1. CASE Group[b] \in st
      BY <1>3, <2>1, SeatsOfNone
    <2>2. CASE Group[b] \notin st
      BY <1>3, <1>4, <2>2 DEF Tallied
    <2> QED BY <2>1, <2>2
  <1>5. ASSUME NEW b \in fi
        PROVE  SeatsOf(BackingIn(D, b)) >= Quorum
    <2>1. b \in Blocks /\ Group[b] \notin st
      OBVIOUS
    <2> QED BY <1>3, <2>1 DEF Tallied
  <1> QED BY <1>1, <1>2, <1>4, <1>5 DEF Tallied, D

\* What counting a vote leaves of the tallies, on its node and elsewhere.
LEMMA ApplyCount ==
    ASSUME Shape, Decided, CountInv, NEW n \in Nodes, NEW m \in cast', NEW blocks,
           m.block \in Blocks, cast \subseteq cast',
           \A x \in cast' : x.seats \in Nat /\ x.epoch \in Epochs,
           UNCHANGED epoch, ApplyVote(n, m, blocks)
    PROVE  CountInv'
  <1>1. /\ epoch \in [Nodes -> Epochs] /\ tally \in [Nodes -> [Blocks -> Nat]]
        /\ counted \in [Nodes -> SUBSET cast]
        /\ \A k \in Nodes : Tallied(counted[k], choice[k], tally[k], winner[k], final[k])
    BY DEF CountInv
  <1>2. /\ choice \in [Nodes -> SUBSET (Voters \X Blocks)] /\ final \in [Nodes -> SUBSET Blocks]
        /\ winner \in [Nodes -> [Groups -> Blocks \cup {None}]]
        /\ \A x \in cast : x.block \in Blocks
    BY DEF Shape
  <1>3. epoch' \in [Nodes -> Epochs]
    BY <1>1
  <1>4. \A k \in Nodes : \A b \in final[k] : b \in Blocks /\ winner[k][Group[b]] # None
    BY <1>2, CommitteeAssumption DEF Decided
  <1>5. m.block \in Blocks /\ m.seats \in Nat /\ m.seats \in Int
    OBVIOUS
  <1>6. Group[m.block] \in Groups
    BY CommitteeAssumption
  <1>7. ASSUME Countable(n, m), FirstChoice(n, m)
        PROVE  Admits(counted[n], choice[n], winner[n], m)
    <2>1. \A x \in counted[n] : x.seats \in Nat /\ x.block \in Blocks
      BY <1>1, <1>2
    <2>2. winner[n][Group[m.block]] = None
      BY <1>7 DEF Countable
    <2>3. \A b \in Blocks : <<m.voter, b>> \in choice[n] => Group[b] # Group[m.block]
      BY <1>7 DEF FirstChoice, Prior
    <2> QED BY <1>5, <2>1, <2>2, <2>3 DEF Admits
  <1>8. CASE Countable(n, m) /\ FirstChoice(n, m) /\ AddSeats(n, m)
    <2> DEFINE tb == [tally[n] EXCEPT ![m.block] = @ + m.seats]
    <2>1. tb \in [Blocks -> Nat]
          /\ \A b \in Blocks : tb[b] = IF b = m.block THEN tally[n][b] + m.seats ELSE tally[n][b]
      BY <1>1, <1>5
    <2>2. tally' = [tally EXCEPT ![n] = tb]
      BY <1>1, <1>8 DEF AddSeats
    <2> HIDE DEF tb
    <2>3. /\ tally'[n] = tb /\ counted'[n] = counted[n] \cup {m}
          /\ choice'[n] = choice[n] \cup {<<m.voter, m.block>>}
          /\ winner' = winner /\ final' = final
          /\ \A k \in Nodes \ {n} : /\ tally'[k] = tally[k] /\ counted'[k] = counted[k]
                                    /\ choice'[k] = choice[k]
      BY <1>1, <1>2, <1>8, <2>2 DEF AddSeats
    <2>4. Admits(counted[n], choice[n], winner[n], m)
      BY <1>7, <1>8
    <2>5. Tallied(counted[n] \cup {m}, choice[n] \cup {<<m.voter, m.block>>}, tb, winner[n], final[n])
      BY <1>1, <1>4, <2>1, <2>4, AddKeepsTally
    <2>6. \A k \in Nodes : Tallied(counted'[k], choice'[k], tally'[k], winner'[k], final'[k])
      BY <1>1, <2>3, <2>5
    <2>7. tally' \in [Nodes -> [Blocks -> Nat]]
      BY <1>1, <2>1, <2>2
    <2>8. counted' \in [Nodes -> SUBSET cast']
      BY <1>1, <1>8 DEF AddSeats
    <2> QED BY <1>3, <2>6, <2>7, <2>8 DEF CountInv
  <1>9. CASE /\ Countable(n, m) /\ FirstChoice(n, m) /\ Finalize(n, m)
             /\ tally[n][m.block] + m.seats >= Quorum
    <2> DEFINE g == Group[m.block]
               tb == [b \in Blocks |-> IF Group[b] = g THEN 0 ELSE tally[n][b]]
               dh == {p \in choice[n] : Group[p[2]] # g}
               wj == [winner[n] EXCEPT ![g] = m.block]
    <2>1. tb \in [Blocks -> Nat] /\ \A b \in Blocks : Group[b] # g => tb[b] = tally[n][b]
      BY <1>1
    <2>2. \A h \in Groups : wj[h] = IF h = g THEN m.block ELSE winner[n][h]
      BY <1>2, <1>6
    <2>3. \A p \in choice[n] : Group[p[2]] # g => p \in dh
      OBVIOUS
    <2>4. tally' = [tally EXCEPT ![n] = tb]
      BY <1>1, <1>9 DEF Finalize
    <2>5. winner' = [winner EXCEPT ![n] = wj] /\ choice' = [choice EXCEPT ![n] = dh]
      BY <1>2, <1>9 DEF Finalize
    <2> HIDE DEF tb, dh, wj
    <2>6. /\ tally'[n] = tb /\ counted'[n] = counted[n] \cup {m} /\ choice'[n] = dh
          /\ winner'[n] = wj /\ final'[n] = final[n] \cup {m.block}
          /\ \A k \in Nodes \ {n} : /\ tally'[k] = tally[k] /\ counted'[k] = counted[k]
                                    /\ choice'[k] = choice[k] /\ winner'[k] = winner[k]
                                    /\ final'[k] = final[k]
      BY <1>1, <1>2, <1>9, <2>4, <2>5 DEF Finalize
    <2>7. Admits(counted[n], choice[n], winner[n], m)
      BY <1>7, <1>9
    <2>8. Tallied(counted[n] \cup {m}, dh, tb, wj, final[n] \cup {m.block})
      <3>1. Tallied(counted[n], choice[n], tally[n], winner[n], final[n])
        BY <1>1
      <3>2. \A b \in final[n] : b \in Blocks /\ winner[n][Group[b]] # None
        BY <1>4
      <3> QED BY <1>9, <2>1, <2>2, <2>3, <2>7, <3>1, <3>2, FinalizeKeepsTally
    <2>9. \A k \in Nodes : Tallied(counted'[k], choice'[k], tally'[k], winner'[k], final'[k])
      BY <1>1, <2>6, <2>8
    <2>10. tally' \in [Nodes -> [Blocks -> Nat]]
      BY <1>1, <2>1, <2>4
    <2>11. counted' \in [Nodes -> SUBSET cast']
      BY <1>1, <1>9 DEF Finalize
    <2> QED BY <1>3, <2>9, <2>10, <2>11 DEF CountInv
  <1>10. CASE UNCHANGED results
    <2>1. UNCHANGED <<choice, tally, winner, final, counted>>
      BY <1>10 DEF results
    <2>2. counted' \in [Nodes -> SUBSET cast']
      BY <1>1, <2>1
    <2> QED BY <1>1, <1>3, <2>1, <2>2 DEF CountInv
  <1> QED BY <1>8, <1>9, <1>10 DEF ApplyVote

\* The tallies are empty at the start.
LEMMA CountInit == Init => CountInv
  <1> SUFFICES ASSUME Init PROVE CountInv
    OBVIOUS
  <1>1. 0 \in Epochs
    BY CommitteeAssumption DEF Epochs
  <1>2. \A b \in Blocks : BackingIn({}, b) = {}
    BY DEF BackingIn
  <1>3. Tallied({}, {}, [b \in Blocks |-> 0], [g \in Groups |-> None], {})
    BY <1>2, SeatsOfNone, FS_EmptySet DEF Tallied
  <1>4. /\ epoch \in [Nodes -> Epochs] /\ tally \in [Nodes -> [Blocks -> Nat]]
        /\ counted \in [Nodes -> SUBSET cast] /\ cast = {}
    BY <1>1 DEF Init
  <1>5. \A n \in Nodes : Tallied(counted[n], choice[n], tally[n], winner[n], final[n])
    BY <1>3 DEF Init
  <1> QED BY <1>4, <1>5 DEF CountInv

\* A node's own vote is counted like any other.
LEMMA CountAddBlock ==
    ASSUME IsFiniteSet(Voters), VerdictInv, CountInv,
           NEW n \in Nodes, NEW b \in Blocks, AddBlock(n, b)
    PROVE  CountInv'
  <1> DEFINE m == VoteOf(n, b)
  <1>1. Shape /\ Decided /\ UNCHANGED epoch
    BY DEF VerdictInv, AddBlock
  <1>2. m.voter \in Voters /\ m.block \in Blocks
    BY VoteShape
  <1>3. m.seats \in Nat /\ m.epoch \in Epochs
    <2>1. reg \in [Nodes -> [Voters -> Entries]] /\ epoch[n] \in Epochs
      BY <1>1 DEF Shape, CountInv
    <2> QED BY <2>1, VoteSeats
  <1> HIDE DEF m
  <1>4. ASSUME UNCHANGED <<tallies, network>> PROVE CountInv'
    BY <1>1, <1>4 DEF CountInv, tallies, results, network
  <1>5. ASSUME NEW blocks, ApplyVote(n, m, blocks), cast' = cast \cup {m} PROVE CountInv'
    <2>1. m \in cast' /\ cast \subseteq cast' /\ \A x \in cast' : x.seats \in Nat /\ x.epoch \in Epochs
      BY <1>3, <1>5 DEF CountInv
    <2> QED BY <1>1, <1>2, <1>5, <2>1, ApplyCount
  <1> QED BY <1>4, <1>5 DEF AddBlock, CastVote, m

\* A delivered vote was cast.
LEMMA CountDeliverVote ==
    ASSUME VerdictInv, CountInv, NEW n \in Nodes, NEW m \in inbox[n], DeliverVote(n, m)
    PROVE  CountInv'
  <1>1. Shape /\ Decided /\ UNCHANGED <<epoch, cast>> /\ ApplyVote(n, m, held[n])
    BY DEF VerdictInv, DeliverVote
  <1>2. m \in cast /\ m.block \in Blocks /\ \A x \in cast : x.seats \in Nat /\ x.epoch \in Epochs
    BY <1>1 DEF Shape, CountInv
  <1>3. m \in cast' /\ cast \subseteq cast' /\ \A x \in cast' : x.seats \in Nat /\ x.epoch \in Epochs
    BY <1>1, <1>2
  <1> QED BY <1>1, <1>2, <1>3, ApplyCount

\* Closing an epoch prunes open positions only.
LEMMA CountAdvanceEpoch ==
    ASSUME VerdictInv, CountInv, NEW n \in Nodes, AdvanceEpoch(n)
    PROVE  CountInv'
  <1> DEFINE e  == epoch[n] + 1
             st == {g \in Groups : Stale(n, g, e)}
             tb == [b \in Blocks |-> IF Group[b] \in st THEN 0 ELSE tally[n][b]]
             dh == {p \in choice[n] : Group[p[2]] \notin st}
             D  == {m \in counted[n] : Group[m.block] \notin st}
             wj == [g \in Groups |-> IF g \in st THEN None ELSE winner[n][g]]
  <1>1. /\ epoch \in [Nodes -> Epochs] /\ tally \in [Nodes -> [Blocks -> Nat]]
        /\ counted \in [Nodes -> SUBSET cast] /\ (\A x \in cast : x.seats \in Nat /\ x.epoch \in Epochs)
        /\ \A k \in Nodes : Tallied(counted[k], choice[k], tally[k], winner[k], final[k])
    BY DEF CountInv
  <1>2. /\ choice \in [Nodes -> SUBSET (Voters \X Blocks)] /\ final \in [Nodes -> SUBSET Blocks]
        /\ winner \in [Nodes -> [Groups -> Blocks \cup {None}]]
    BY DEF VerdictInv, Shape
  <1>3. epoch' \in [Nodes -> Epochs]
    <2>1. epoch[n] \in 0..MaxEpoch /\ epoch[n] < MaxEpoch /\ MaxEpoch \in Nat
      BY <1>1, CommitteeAssumption DEF Epochs, AdvanceEpoch
    <2>2. e \in Epochs
      BY <2>1 DEF Epochs
    <2> QED BY <1>1, <2>2 DEF AdvanceEpoch
  <1>4. PruneStale(n, e) /\ UNCHANGED cast
    BY DEF AdvanceEpoch, network
  <1>5. \A g \in st : winner[n][g] = None
    BY DEF Stale
  <1>6. /\ tally' = [tally EXCEPT ![n] = tb] /\ choice' = [choice EXCEPT ![n] = dh]
        /\ counted' = [counted EXCEPT ![n] = D] /\ final' = final
    BY <1>4 DEF PruneStale
  <1>7. winner' = winner
    <2>1. winner' = [winner EXCEPT ![n] = wj]
      BY <1>4 DEF PruneStale
    <2>2. wj = winner[n]
      BY <1>2, <1>5
    <2> QED BY <1>2, <2>1, <2>2
  <1>8. \A b \in final[n] : b \in Blocks /\ winner[n][Group[b]] # None
    BY <1>2, CommitteeAssumption DEF VerdictInv, Decided
  <1>9. tb \in [Blocks -> Nat] /\ D \subseteq counted[n]
    BY <1>1
  <1>10. Tallied(D, dh, tb, winner[n], final[n])
    <2>1. /\ \A b \in Blocks : tb[b] = IF Group[b] \in st THEN 0 ELSE tally[n][b]
          /\ \A p \in choice[n] : Group[p[2]] \notin st => p \in dh
      OBVIOUS
    <2>2. Tallied(counted[n], choice[n], tally[n], winner[n], final[n])
      BY <1>1
    <2> HIDE DEF st, tb, dh
    <2>3. Tallied({m \in counted[n] : Group[m.block] \notin st}, dh, tb, winner[n], final[n])
      BY <1>5, <1>8, <2>1, <2>2, PruneKeepsTally
    <2> QED BY <2>3
  <1> HIDE DEF e, st, tb, dh, D, wj
  <1>11. /\ tally' \in [Nodes -> [Blocks -> Nat]] /\ counted' \in [Nodes -> SUBSET cast']
    BY <1>1, <1>4, <1>6, <1>9
  <1>12. \A k \in Nodes : Tallied(counted'[k], choice'[k], tally'[k], winner'[k], final'[k])
    BY <1>1, <1>2, <1>6, <1>7, <1>10
  <1> QED BY <1>1, <1>3, <1>4, <1>11, <1>12 DEF CountInv

LEMMA CountStep ==
    ASSUME IsFiniteSet(Voters), VerdictInv, CountInv, [Next]_vars
    PROVE  CountInv'
  <1>1. CASE UNCHANGED vars
    BY <1>1 DEF CountInv, vars, validators, tallies, results, network
  <1>2. ASSUME NEW n \in Nodes, NEW v \in Voters, BondStake(n, v) PROVE CountInv'
    BY <1>2 DEF BondStake, CountInv, tallies, results, network
  <1> QED BY <1>1, <1>2, CountAddBlock, CountDeliverVote, CountAdvanceEpoch DEF Next

\* Besides the verdicts, choices and slashes of every node its tallies are
\* sound: an open position's tally is the seats of the votes counted for it,
\* one of each voter, and a final block keeps a quorum of them
\* (applyCommitteeVote, pruneStale).
THEOREM FinalityInvariant ==
    ASSUME IsFiniteSet(Voters)
    PROVE  Spec => []FinalityInv
  <1>1. CountInv /\ VerdictInv /\ [Next]_vars => CountInv'
    BY CountStep
  <1>2. VerdictInv /\ CountInv => FinalityInv
    BY DEF FinalityInv
  <1> QED BY <1>1, <1>2, CountInit, VerdictInvariant, PTL DEF Spec

\* A final block has an absolute quorum of seats behind it, of votes of
\* different validators, in whatever order, how often and in which epochs the
\* votes came and however the nodes' books drift apart (applyVote: "an
\* ABSOLUTE quorum of the expected committee").
THEOREM QuorumStands ==
    ASSUME IsFiniteSet(Voters)
    PROVE  Spec => []QuorumBehindFinal
  <1>1. ASSUME FinalityInv, NEW n \in Nodes, NEW b \in final[n]
        PROVE  /\ SeatsOf(Backing(n, b)) >= Quorum
               /\ \A x, y \in Backing(n, b) : x.voter = y.voter => x = y
    <2>1. Tallied(counted[n], choice[n], tally[n], winner[n], final[n])
      BY <1>1 DEF FinalityInv, CountInv
    <2>2. Backing(n, b) = BackingIn(counted[n], b)
      BY DEF Backing
    <2>3. SeatsOf(Backing(n, b)) >= Quorum
      BY <2>1, <2>2 DEF Tallied
    <2>4. \A x, y \in Backing(n, b) : x.voter = y.voter => x = y
      BY <2>1 DEF Tallied, Backing, BackingIn
    <2> QED BY <2>3, <2>4
  <1>2. FinalityInv => QuorumBehindFinal
    BY <1>1 DEF QuorumBehindFinal
  <1> QED BY <1>2, FinalityInvariant, PTL

(***************************************************************************)
(* Agreement.  While a node's registry is the one it started from, its     *)
(* votes of an epoch are parts of one draw.  Two quorums of different      *)
(* voters do not fit into a draw of less than two quorums.                 *)
(***************************************************************************)
OwnBooks ==
    \A n \in Nodes : ~BooksMoved(n) => \A v \in Voters : reg[n][v] = EntryAt(v, epoch[n])

OwnDraws ==
    \A m \in cast : m.from \in Nodes /\ (~BooksMoved(m.from) => m.seats = DrawnSeats(m))

DrawInv == BookTypes /\ OwnBooks /\ OwnDraws

LEMMA DrawInit == Init => DrawInv
  <1> SUFFICES ASSUME Init PROVE DrawInv
    OBVIOUS
  <1>1. LateInv
    BY LateInit
  <1> QED BY <1>1 DEF Init, DrawInv, LateInv, SameBooks, OwnBooks, OwnDraws

\* A vote counted on a node changes its books only by a slash, which moves them.
LEMMA VoteMovesBooks ==
    ASSUME BookTypes, NEW n \in Nodes, NEW m, m.voter \in Voters, NEW blocks,
           ApplyVote(n, m, blocks)
    PROVE  /\ reg' \in [Nodes -> [Voters -> Entries]]
           /\ \A k \in Nodes : reg'[k] = reg[k] \/ BooksMoved(k)'
           /\ \A k \in Nodes : BooksMoved(k) => BooksMoved(k)'
  <1>1. CASE UNCHANGED reg
    BY <1>1 DEF BookTypes, BooksMoved
  <1>2. CASE Slash(n, m.voter)
    <2> DEFINE r == [reg[n][m.voter] EXCEPT !.bonded = FALSE, !.slashed = TRUE]
    <2>5. reg[n] \in [Voters -> Entries] /\ reg[n][m.voter] \in Entries
      BY DEF BookTypes
    <2>6. r \in Entries /\ r.slashed
      BY <2>5, BondedEntry DEF Entries
    <2>7. reg' = [reg EXCEPT ![n] = [reg[n] EXCEPT ![m.voter] = r]]
      BY <1>2, <2>5 DEF Slash, BookTypes, Entries
    <2> HIDE DEF r
    <2>8. [reg[n] EXCEPT ![m.voter] = r] \in [Voters -> Entries]
      BY <2>5, <2>6
    <2>1. reg' \in [Nodes -> [Voters -> Entries]]
      BY <2>7, <2>8 DEF BookTypes
    <2>2. reg'[n][m.voter].slashed /\ \A k \in Nodes : k # n => reg'[k] = reg[k]
      BY <2>5, <2>6, <2>7 DEF BookTypes
    <2>3. BooksMoved(n)'
      BY <2>2 DEF BooksMoved
    <2>4. \A k \in Nodes : k # n => (BooksMoved(k) => BooksMoved(k)')
      BY <2>2 DEF BooksMoved
    <2> QED BY <2>1, <2>2, <2>3, <2>4
  <1> QED BY <1>1, <1>2 DEF ApplyVote

\* The books of every node that changed no registry stay its own.
LEMMA OwnBooksKept ==
    ASSUME BookTypes, OwnBooks, UNCHANGED epoch,
           \A k \in Nodes : reg'[k] = reg[k] \/ BooksMoved(k)'
    PROVE  OwnBooks'
  <1> SUFFICES ASSUME NEW k \in Nodes, ~BooksMoved(k)', NEW v \in Voters
               PROVE  reg'[k][v] = EntryAt(v, epoch'[k])
    BY DEF OwnBooks
  <1>1. reg'[k] = reg[k] /\ epoch'[k] = epoch[k]
    OBVIOUS
  <1>2. ~BooksMoved(k)
    BY <1>1 DEF BooksMoved
  <1> QED BY <1>1, <1>2 DEF OwnBooks

LEMMA OwnDrawsKept ==
    ASSUME OwnDraws, UNCHANGED cast, \A k \in Nodes : BooksMoved(k) => BooksMoved(k)'
    PROVE  OwnDraws'
  BY DEF OwnDraws, DrawnSeats

\* A vote is drawn with the caster's live weights.
LEMMA DrawAddBlock ==
    ASSUME DrawInv, NEW n \in Nodes, NEW b \in Blocks, AddBlock(n, b)
    PROVE  DrawInv'
  <1> DEFINE m == VoteOf(n, b)
  <1>1. BookTypes /\ OwnBooks /\ OwnDraws
    BY DEF DrawInv
  <1>2. UNCHANGED <<epoch, snap>>
    BY DEF AddBlock
  <1>3. m.voter \in Voters /\ m.from = n
    BY CommitteeAssumption DEF VoteOf
  <1>4. CASE UNCHANGED <<reg, cast>>
    <2>1. BookTypes'
      BY <1>1, <1>2, <1>4 DEF BookTypes
    <2>2. OwnBooks'
      BY <1>1, <1>2, <1>4, OwnBooksKept
    <2>3. OwnDraws'
      BY <1>1, <1>4 DEF OwnDraws, BooksMoved, DrawnSeats
    <2> QED BY <2>1, <2>2, <2>3 DEF DrawInv
  <1>5. CASE ApplyVote(n, m, held[n] \cup {b}) /\ cast' = cast \cup {m}
    <2> HIDE DEF m
    <2>1. /\ reg' \in [Nodes -> [Voters -> Entries]]
          /\ \A k \in Nodes : reg'[k] = reg[k] \/ BooksMoved(k)'
          /\ \A k \in Nodes : BooksMoved(k) => BooksMoved(k)'
      BY <1>1, <1>3, <1>5, VoteMovesBooks
    <2>2. BookTypes'
      BY <1>1, <1>2, <2>1 DEF BookTypes
    <2>3. OwnBooks'
      BY <1>1, <1>2, <2>1, OwnBooksKept
    <2>4. ~BooksMoved(n) => m.seats = DrawnSeats(m)
      <3>1. SUFFICES ASSUME ~BooksMoved(n) PROVE m.seats = DrawnSeats(m)
        OBVIOUS
      <3>2. LiveWeights(n) = WeightsAt(epoch[n])
        BY <1>1, <3>1 DEF OwnBooks, LiveWeights, WeightsAt
      <3> QED BY <3>2 DEF VoteOf, DrawnSeats, m
    <2>5. OwnDraws'
      BY <1>1, <1>3, <1>5, <2>1, <2>4 DEF OwnDraws, DrawnSeats
    <2> QED BY <2>2, <2>3, <2>5 DEF DrawInv
  <1> QED BY <1>4, <1>5 DEF AddBlock, CastVote, network

LEMMA DrawAdvance ==
    ASSUME DrawInv, NEW n \in Nodes, AdvanceEpoch(n)
    PROVE  DrawInv'
  <1> DEFINE e   == epoch[n] + 1
             now == [v \in Voters |-> Aged(reg[n][v])]
  <1>1. BookTypes /\ OwnBooks /\ OwnDraws
    BY DEF DrawInv
  <1>2. epoch[n] \in Epochs /\ epoch[n] < MaxEpoch /\ MaxEpoch \in Nat
    BY <1>1, CommitteeAssumption DEF BookTypes, AdvanceEpoch
  <1>3. e \in Epochs /\ e \in Nat /\ epoch[n] \in Nat
    BY <1>2 DEF Epochs
  <1>4. /\ epoch' = [epoch EXCEPT ![n] = e]
        /\ reg' = [reg EXCEPT ![n] = now]
        /\ DOMAIN snap' = DOMAIN snap
        /\ UNCHANGED cast
    BY DEF AdvanceEpoch, network
  <1>5. \A v \in Voters : /\ now[v] \in Entries
                          /\ now[v].bonded = reg[n][v].bonded
                          /\ now[v].slashed = reg[n][v].slashed
    <2> SUFFICES ASSUME NEW v \in Voters
                 PROVE  /\ now[v] \in Entries
                        /\ now[v].bonded = reg[n][v].bonded
                        /\ now[v].slashed = reg[n][v].slashed
      OBVIOUS
    <2>1. reg[n][v] \in Entries
      BY <1>1 DEF BookTypes
    <2> QED BY <2>1, AgedEntry DEF Aged, Entries
  <1>6. BookTypes'
    BY <1>1, <1>3, <1>4, <1>5 DEF BookTypes
  <1>7. \A k \in Nodes : BooksMoved(k)' <=> BooksMoved(k)
    <2>1. \A k \in Nodes : reg'[k] = IF k = n THEN now ELSE reg[k]
      BY <1>1, <1>4 DEF BookTypes
    <2> HIDE DEF now
    <2> QED BY <1>5, <2>1 DEF BooksMoved
  <1>8. OwnBooks'
    <2> SUFFICES ASSUME NEW k \in Nodes, ~BooksMoved(k)', NEW v \in Voters
                 PROVE  reg'[k][v] = EntryAt(v, epoch'[k])
      BY DEF OwnBooks
    <2>1. reg[k][v] = EntryAt(v, epoch[k])
      BY <1>1, <1>7 DEF OwnBooks
    <2>2. CASE k = n
      <3>1. reg'[k][v] = Aged(EntryAt(v, epoch[n])) /\ epoch'[k] = epoch[n] + 1
        BY <1>1, <1>4, <2>1, <2>2 DEF BookTypes
      <3> QED BY <1>3, <3>1, AgedEntryAt
    <2>3. CASE k # n
      BY <1>1, <1>4, <2>1, <2>3 DEF BookTypes
    <2> QED BY <2>2, <2>3
  <1>9. OwnDraws'
    BY <1>1, <1>4, <1>7, OwnDrawsKept
  <1> QED BY <1>6, <1>8, <1>9 DEF DrawInv

LEMMA DrawBond ==
    ASSUME DrawInv, NEW n \in Nodes, NEW v \in Voters, BondStake(n, v)
    PROVE  DrawInv'
  <1>1. BookTypes /\ OwnBooks /\ OwnDraws
    BY DEF DrawInv
  <1>2. /\ ~reg[n][v].bonded /\ ~reg[n][v].slashed
        /\ reg' = [reg EXCEPT ![n][v].bonded = TRUE]
        /\ UNCHANGED <<epoch, snap, cast>>
    BY DEF BondStake, network
  <1>3. /\ reg' \in [Nodes -> [Voters -> Entries]]
        /\ \A k \in Nodes : k # n => reg'[k] = reg[k]
        /\ \A u \in Voters : u # v => reg'[n][u] = reg[n][u]
        /\ reg'[n][v].bonded
        /\ reg'[n][v].slashed = reg[n][v].slashed
    <2> DEFINE r == [reg[n][v] EXCEPT !.bonded = TRUE]
    <2>1. reg[n] \in [Voters -> Entries] /\ reg[n][v] \in Entries
      BY <1>1 DEF BookTypes
    <2>2. r \in Entries /\ r.slashed = reg[n][v].slashed
      BY <2>1, BondedEntry
    <2>3. r.bonded
      BY <2>1 DEF Entries
    <2>4. reg' = [reg EXCEPT ![n] = [reg[n] EXCEPT ![v] = r]]
      BY <1>1, <1>2, <2>1 DEF BookTypes
    <2> HIDE DEF r
    <2>5. [reg[n] EXCEPT ![v] = r] \in [Voters -> Entries]
      BY <2>1, <2>2
    <2>6. /\ reg'[n] = [reg[n] EXCEPT ![v] = r]
          /\ \A k \in Nodes : k # n => reg'[k] = reg[k]
      BY <1>1, <2>4 DEF BookTypes
    <2>7. reg' \in [Nodes -> [Voters -> Entries]]
      BY <1>1, <2>4, <2>5 DEF BookTypes
    <2>8. reg'[n][v] = r /\ \A u \in Voters : u # v => reg'[n][u] = reg[n][u]
      BY <2>1, <2>6
    <2> QED BY <2>2, <2>3, <2>6, <2>7, <2>8
  <1>4. BooksMoved(n)'
    <2>1. CASE BooksMoved(n)
      BY <1>2, <1>3, <2>1 DEF BooksMoved
    <2>2. CASE ~BooksMoved(n)
      <3>1. v \notin Bonded
        <4>1. reg[n][v] = EntryAt(v, epoch[n])
          BY <1>1, <2>2 DEF OwnBooks
        <4>2. EntryAt(v, epoch[n]).bonded = (v \in Bonded)
          BY DEF EntryAt
        <4> QED BY <1>2, <4>1, <4>2
      <3> QED BY <1>3, <3>1 DEF BooksMoved
    <2> QED BY <2>1, <2>2
  <1>5. \A k \in Nodes : BooksMoved(k) => BooksMoved(k)'
    BY <1>3, <1>4 DEF BooksMoved
  <1>6. BookTypes'
    BY <1>1, <1>2, <1>3 DEF BookTypes
  <1>7. OwnBooks'
    BY <1>1, <1>2, <1>3, <1>4, OwnBooksKept
  <1>8. OwnDraws'
    BY <1>1, <1>2, <1>5, OwnDrawsKept
  <1> QED BY <1>6, <1>7, <1>8 DEF DrawInv

\* Wherever nobody bonded late or was slashed, the books are those of the
\* start and the votes are drawn from them.
LEMMA DrawInvariant == Spec => []DrawInv
  <1>1. ASSUME DrawInv, VerdictInv, [Next]_vars PROVE DrawInv'
    <2>1. CASE UNCHANGED vars
      BY <1>1, <2>1 DEF DrawInv, BookTypes, OwnBooks, OwnDraws, BooksMoved, DrawnSeats,
         vars, validators, network
    <2>2. ASSUME NEW n \in Nodes, NEW m \in inbox[n], DeliverVote(n, m)
          PROVE  DrawInv'
      <3>1. m.voter \in Voters /\ ApplyVote(n, m, held[n]) /\ UNCHANGED <<epoch, snap, cast>>
        BY <1>1, <2>2 DEF DeliverVote, VerdictInv, Shape
      <3>2. /\ reg' \in [Nodes -> [Voters -> Entries]]
            /\ \A k \in Nodes : reg'[k] = reg[k] \/ BooksMoved(k)'
            /\ \A k \in Nodes : BooksMoved(k) => BooksMoved(k)'
        BY <1>1, <3>1, VoteMovesBooks DEF DrawInv
      <3>3. BookTypes' /\ OwnBooks'
        BY <1>1, <3>1, <3>2, OwnBooksKept DEF DrawInv, BookTypes
      <3>4. OwnDraws'
        BY <1>1, <3>1, <3>2, OwnDrawsKept DEF DrawInv
      <3> QED BY <3>3, <3>4 DEF DrawInv
    <2> QED BY <1>1, <2>1, <2>2, DrawAddBlock, DrawAdvance, DrawBond DEF Next
  <1>2. DrawInv /\ VerdictInv /\ [Next]_vars => DrawInv'
    BY <1>1
  <1> QED BY <1>2, DrawInit, VerdictInvariant, PTL DEF Spec

LEMMA DrawType ==
    ASSUME IsFiniteSet(Voters), NEW e \in Epochs
    PROVE  DrawAt(e) \in [Voters -> Nat]
  <1> DEFINE w == WeightsAt(e)
             t == Total(w)
  <1>1. /\ e \in Nat /\ MaxAge \in Nat /\ StakeUnits \in Nat
    BY CommitteeAssumption DEF Epochs
  <1>2. ASSUME NEW v \in Voters PROVE WeightOfEntry(EntryAt(v, e)) \in Nat
    <2> DEFINE r == EntryAt(v, e)
               a == 1 + AtMost(r.activity, MaxAge)
    <2>1. a \in Nat
      BY <1>1 DEF EntryAt, AtMost
    <2> HIDE DEF a
    <2>2. StakeUnits * a \in Nat
      BY <1>1, <2>1
    <2> HIDE DEF r
    <2> QED BY <2>2 DEF WeightOfEntry, a, r
  <1>3. w \in [Voters -> Nat]
    BY <1>2 DEF WeightsAt
  <1> HIDE DEF w
  <1>4. SumOver(w, Voters) \in Nat
    BY <1>3, SumNat
  <1>5. t \in Nat
    BY <1>4 DEF Total, SumOver
  <1> HIDE DEF t
  <1>6. ASSUME NEW v \in Voters PROVE Seats(v, e, w[v], t) \in Nat
    BY <1>3, <1>5, SeatsType
  <1> QED BY <1>6 DEF DrawAt, w, t

\* The votes of one epoch weigh what the draw gave their voters.
LEMMA SeatsAreDrawn ==
    ASSUME IsFiniteSet(Voters), NEW e \in Epochs, NEW P, IsFiniteSet(P),
           \A m \in P : /\ m.voter \in Voters /\ m.epoch = e
                        /\ m.seats \in Nat /\ m.seats = DrawnSeats(m),
           \A x, y \in P : x.voter = y.voter => x = y
    PROVE  SeatsOf(P) = SumOver(DrawAt(e), {m.voter : m \in P})
  <1> DEFINE g == [m \in P |-> m.voter]
             w == SeatsIn(P)
             d == DrawAt(e)
  <1>1. \A x, y \in P : g[x] = g[y] => x = y
    OBVIOUS
  <1>2. \A m \in P : w[m] \in Int /\ w[m] = d[g[m]]
    <2>1. ASSUME NEW m \in P PROVE m.seats = d[m.voter]
      BY DEF DrawnSeats, DrawAt
    <2> QED BY <2>1 DEF SeatsIn
  <1>3. {g[m] : m \in P} = {m.voter : m \in P}
    OBVIOUS
  <1>4. SeatsOf(P) = SumOver(w, P)
    <2>1. \A m \in P : m.seats \in Int
      OBVIOUS
    <2> QED BY <2>1, SeatSum
  <1> HIDE DEF g, w, d
  <1>5. SumOver(w, P) = SumOver(d, {g[m] : m \in P})
    BY <1>1, <1>2, SumImage
  <1> QED BY <1>3, <1>4, <1>5 DEF d

\* A final block keeps a quorum of votes, each drawn in its epoch.
LEMMA BackingOfFinal ==
    ASSUME DrawInv, FinalityInv, NEW n \in Nodes, NEW b \in final[n]
    PROVE  /\ IsFiniteSet(Backing(n, b)) /\ SeatsOf(Backing(n, b)) >= Quorum
           /\ \A m \in Backing(n, b) : /\ m \in cast /\ m.block = b /\ m.voter \in Voters
                                       /\ m.epoch \in Epochs /\ m.seats \in Nat
                                       /\ ~BooksMoved(m.from) => m.seats = DrawnSeats(m)
           /\ \A x, y \in Backing(n, b) : x.voter = y.voter => x = y
  <1>1. Tallied(counted[n], choice[n], tally[n], winner[n], final[n])
    BY DEF FinalityInv, CountInv
  <1>2. IsFiniteSet(Backing(n, b)) /\ SeatsOf(Backing(n, b)) >= Quorum
    BY <1>1, FS_Subset DEF Tallied, Backing, BackingIn
  <1>3. \A x, y \in Backing(n, b) : x.voter = y.voter => x = y
    BY <1>1 DEF Tallied, Backing, BackingIn
  <1>4. counted[n] \subseteq cast
    BY DEF FinalityInv, CountInv
  <1>5. \A m \in Backing(n, b) : m \in cast /\ m.block = b
    BY <1>4 DEF Backing, BackingIn
  <1>6. \A m \in cast : /\ m.voter \in Voters /\ m.epoch \in Epochs /\ m.seats \in Nat
                        /\ ~BooksMoved(m.from) => m.seats = DrawnSeats(m)
    BY DEF FinalityInv, VerdictInv, Shape, CountInv, DrawInv, OwnDraws
  <1> QED BY <1>2, <1>3, <1>5, <1>6

LEMMA SplitHasCause ==
    ASSUME IsFiniteSet(Voters), DrawInv, FinalityInv
    PROVE  SplitsAreExplained
  <1> SUFFICES ASSUME NEW n \in Nodes, NEW k \in Nodes, NEW b \in final[n],
                      NEW c \in SiblingsOf(b, final[k]),
                      \A x \in Backing(n, b), y \in Backing(k, c) : x.voter # y.voter,
                      \A x, y \in Backing(n, b) \cup Backing(k, c) : x.epoch = y.epoch,
                      \A x \in Backing(n, b) \cup Backing(k, c) :
                          ~BooksMoved(x.from) /\ ~(Total(DrawAt(x.epoch)) >= 2 * Quorum)
               PROVE  FALSE
    BY DEF SplitsAreExplained
  <1> DEFINE P == Backing(n, b)
             Q == Backing(k, c)
  <1>1. c \in final[k]
    BY DEF SiblingsOf
  <1>2. /\ IsFiniteSet(P) /\ SeatsOf(P) >= Quorum
        /\ \A m \in P : /\ m \in cast /\ m.block = b /\ m.voter \in Voters
                        /\ m.epoch \in Epochs /\ m.seats \in Nat
                        /\ ~BooksMoved(m.from) => m.seats = DrawnSeats(m)
        /\ \A x, y \in P : x.voter = y.voter => x = y
    BY BackingOfFinal
  <1>3. /\ IsFiniteSet(Q) /\ SeatsOf(Q) >= Quorum
        /\ \A m \in Q : /\ m \in cast /\ m.block = c /\ m.voter \in Voters
                        /\ m.epoch \in Epochs /\ m.seats \in Nat
                        /\ ~BooksMoved(m.from) => m.seats = DrawnSeats(m)
        /\ \A x, y \in Q : x.voter = y.voter => x = y
    BY <1>1, BackingOfFinal
  <1>4. Quorum \in Nat /\ Quorum >= 1
    <2>1. CommitteeSize \in Nat /\ CommitteeSize >= 1
      BY CommitteeAssumption
    <2> QED BY <2>1 DEF Quorum
  <1>5. PICK p \in P : TRUE
    <2> HIDE DEF P
    <2>1. P # {}
      BY <1>2, <1>4, SeatsOfNone
    <2> QED BY <2>1
  <1> DEFINE e == p.epoch
             d == DrawAt(e)
             VP == {m.voter : m \in P}
             VQ == {m.voter : m \in Q}
  <1>6. e \in Epochs /\ (\A m \in P : m.epoch = e) /\ (\A m \in Q : m.epoch = e)
    BY <1>2, <1>5
  <1>7. VP \in SUBSET Voters /\ VQ \in SUBSET Voters /\ VP \cap VQ = {}
    BY <1>2, <1>3
  <1>13. ~(Total(d) >= 2 * Quorum)
    BY <1>5
  <1>14. /\ \A m \in P : m.seats = DrawnSeats(m)
         /\ \A m \in Q : m.seats = DrawnSeats(m)
    BY <1>2, <1>3
  <1>8. d \in [Voters -> Nat]
    BY <1>6, DrawType
  <1> HIDE DEF P, Q, e
  <1>9. SeatsOf(P) = SumOver(d, VP)
    BY <1>2, <1>6, <1>14, SeatsAreDrawn
  <1>10. SeatsOf(Q) = SumOver(d, VQ)
    BY <1>3, <1>6, <1>14, SeatsAreDrawn
  <1>11. Total(d) = SumOver(d, Voters)
    BY DEF Total, SumOver
  <1> HIDE DEF d, VP, VQ
  <1>12. /\ SumOver(d, VP) \in Nat /\ SumOver(d, VQ) \in Nat /\ SumOver(d, Voters) \in Nat
         /\ SumOver(d, VP) + SumOver(d, VQ) <= SumOver(d, Voters)
    BY <1>7, <1>8, SumParts
  <1> QED BY <1>2, <1>3, <1>4, <1>9, <1>10, <1>11, <1>12, <1>13

\* Two nodes finalize two siblings only by a voter on both sides, with votes
\* of several epochs, by a draw from a registry that somebody joined late or
\* was slashed in, or by a draw of two quorums, in whatever order, how often
\* and where the votes arrive and however the nodes' epochs drift apart
\* (applyVote, bondStake, slash).
THEOREM SplitsExplained ==
    ASSUME IsFiniteSet(Voters)
    PROVE  Spec => []SplitsAreExplained
  BY SplitHasCause, DrawInvariant, FinalityInvariant, PTL
====
