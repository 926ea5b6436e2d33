---------------------------- MODULE HistoryProofs ----------------------------
(* The Merkle accumulator over an account chain (engine/core/accumulator.ts)  *)
(* and the packets that prove a block to someone who holds nothing of the     *)
(* chain (light-verify.ts, counterparty-proof.ts).  One account grows a chain *)
(* and, from some height, a second branch of it; a prover may put together    *)
(* parts of both.  Hashes are the terms they are taken of, so that they       *)
(* collide exactly when their inputs are equal.                               *)
EXTENDS Integers, Sequences, FiniteSets, FiniteSetsExt, SequencesExt

CONSTANTS
    MaxLength,  \* bound: blocks of a chain
    TypeAt      \* index -> type of the blocks at that index

VARIABLES main, fork    \* the account's chain and a second branch of it

historyVars == <<main, fork>>

\* A block: its place, and the branch it was signed on.
Block(i, branch) == [index |-> i, branch |-> branch, type |-> TypeAt[i]]

---------------------------------------------------------------------------
\* accumulator.ts

SplitPoint(n) == Max({k \in {2 ^ i : i \in 0..n} : k < n})

LeafHash(data) == <<"leaf", data>>
NodeHash(left, right) == <<"node", left, right>>

\* merkleRoot of the leaves lo + 1 .. hi
MerkleRoot(leaves, lo, hi) ==
    LET root[a \in 0..Len(leaves), b \in 0..Len(leaves)] ==
            IF b - a = 1 THEN LeafHash(leaves[b])
            ELSE LET k == SplitPoint(b - a) IN NodeHash(root[a, a + k], root[a + k, b])
    IN root[lo, hi]

\* merkleProof of the leaf at index (from 0) among the first n
MerkleProof(leaves, index, n) ==
    LET path[a \in 0..Len(leaves), b \in 0..Len(leaves)] ==
            IF b - a = 1 THEN <<>>
            ELSE LET k == SplitPoint(b - a) IN
                 IF index < a + k
                 THEN Append(path[a, a + k], MerkleRoot(leaves, a + k, b))
                 ELSE Append(path[a + k, b], MerkleRoot(leaves, a, a + k))
    IN path[0, n]

\* The loop of verifyMerkleProof: fn and sn are the index and the last index
\* at the current level; an even fn on the right edge climbs to its next turn.
Climb(st, p) ==
    LET turn == Min({k \in 0..MaxLength : (st.fn \div 2 ^ k) % 2 = 1})
        up == IF st.fn % 2 = 0 THEN turn ELSE 0
    IN IF ~st.ok \/ st.sn = 0 THEN [st EXCEPT !.ok = FALSE]
       ELSE IF st.fn % 2 = 1 \/ st.fn = st.sn
       THEN [ok |-> TRUE, fn |-> st.fn \div 2 ^ (up + 1), sn |-> st.sn \div 2 ^ (up + 1),
             r |-> NodeHash(p, st.r)]
       ELSE [ok |-> TRUE, fn |-> st.fn \div 2, sn |-> st.sn \div 2, r |-> NodeHash(st.r, p)]

VerifyInclusion(root, leaf, index, treeSize, proof) ==
    IF index < 0 \/ index >= treeSize THEN FALSE
    ELSE IF treeSize = 1 THEN proof = <<>> /\ LeafHash(leaf) = root
    ELSE LET end == FoldLeft(Climb, [ok |-> TRUE, fn |-> index, sn |-> treeSize - 1,
                                     r |-> LeafHash(leaf)], proof)
         IN end.ok /\ end.sn = 0 /\ end.r = root

---------------------------------------------------------------------------
\* The account appends to its chain, and to the other branch of it.

HistoryInit == main = <<Block(0, "main")>> /\ fork = <<>>

Extend ==
    /\ Len(main) < MaxLength
    /\ main' = Append(main, Block(Len(main), "main"))
    /\ UNCHANGED fork
ForkOff ==
    /\ fork = <<>>
    /\ \E at \in 1..(Len(main) - 1) : fork' = Append(SubSeq(main, 1, at), Block(at, "fork"))
    /\ UNCHANGED main
ExtendFork ==
    /\ fork # <<>> /\ Len(fork) < MaxLength
    /\ fork' = Append(fork, Block(Len(fork), "fork"))
    /\ UNCHANGED main

HistoryNext == Extend \/ ForkOff \/ ExtendFork
HistorySpec == HistoryInit /\ [][HistoryNext]_historyVars

---------------------------------------------------------------------------
\* Packets

ChainOf(block) == IF block.branch = "fork" THEN fork ELSE main
\* accumulatorRoot: signed into the block when it was made
AccumulatorRoot(block) == MerkleRoot(ChainOf(block), 0, block.index + 1)

\* buildPacketFromChain, buildMintProofFromChain over the first n blocks
BuildPacket(chain, n, i) ==
    [open |-> chain[1], head |-> chain[n], openProof |-> MerkleProof(chain, 0, n),
     block |-> chain[i + 1], proof |-> MerkleProof(chain, i, n)]

\* verifyAccountHead, verifyChainInclusion
CommittedBy_Own(packet) ==
    VerifyInclusion(AccumulatorRoot(packet.block), packet.block, packet.block.index,
                    packet.block.index + 1, packet.proof)
CommittedBy(packet) ==
    VerifyInclusion(AccumulatorRoot(packet.head), packet.block, packet.block.index,
                    packet.head.index + 1, packet.proof)
HeadVerified(packet) ==
    /\ packet.open.type = "open" /\ packet.open.index = 0
    /\ VerifyInclusion(AccumulatorRoot(packet.head), packet.open, 0,
                       packet.head.index + 1, packet.openProof)
VerifyPacket(packet, type) ==
    packet.block.type = type /\ HeadVerified(packet) /\ CommittedBy(packet)

---------------------------------------------------------------------------

AllBlocks == ToSet(main) \cup ToSet(fork)
Chains == {main, fork} \ {<<>>}
PathsIn(c) == UNION {{MerkleProof(c, i, n) : i \in 0..(n - 1)} : n \in 1..Len(c)}
Paths == UNION {PathsIn(c) : c \in Chains}
Prefix(block) == ToSet(SubSeq(ChainOf(block), 1, block.index + 1))

\* The branches grow from one genesis block.
HistoryTypeOK == \A c \in Chains : c[1] = Block(0, "main") /\ Len(c) <= MaxLength

\* "nobody has to be TRUSTED to build one": every packet built from a chain
\* verifies, at every height and for every block under it; and whatever
\* audit path is put beside a head and a block, the packet verifies only when
\* that head commits the block, so that a block of one branch is never proved
\* under a head of the other.
PacketsProveMembership ==
    /\ \A c \in Chains : \A n \in 1..Len(c), i \in 0..(Len(c) - 1) :
           i < n => VerifyPacket(BuildPacket(c, n, i), TypeAt[i])
    /\ \A head, block \in AllBlocks : block \notin Prefix(head) =>
           \A path \in Paths :
               ~VerifyPacket([open |-> main[1], head |-> head, block |-> block, proof |-> path,
                              openProof |-> MerkleProof(ChainOf(head), 0, head.index + 1)],
                             block.type)
=============================================================================
