------------------------------ MODULE DagLedger ------------------------------
(* The block-lattice ledger of src/core/dag-ledger.ts, which                 *)
(* NeuronNode.switchNetwork installs, with the vote manager of core/vote.ts  *)
(* and the handlers of node.ts that feed it.  A block is confirmed the       *)
(* moment it passes local validation; when two blocks of an account share a  *)
(* parent both confirmations are revoked, every node votes on the block that *)
(* reached it second, and a sweep picks a winner by approving stake or after *)
(* a timeout.                                                                *)
(*                                                                           *)
(* A block's hash is its position in `made`, which is also the order of the  *)
(* timestamps (a tie is broken by the hash, so the order is total).  Gossip  *)
(* delivers a block or a vote at any time, any number of times, or never.    *)
(* Time is not modelled: the ten-second timeout of a conflict may have       *)
(* passed or not whenever the sweep looks.                                   *)
EXTENDS Integers, Sequences, FiniteSets, SequencesExt

CONSTANTS
    Nodes,          \* clients that hold the ledger
    Accounts,       \* accounts, each opened before the behaviour starts
    KeysOf,         \* node -> the accounts whose keys it holds (localKeys)
    LockedOut,      \* node -> the accounts its lockout list names
    Mint,           \* VERIFICATION_MINT_AMOUNT
    Amounts,        \* amounts a send may carry
    MaxBlocks,      \* bound: blocks ever created, the open blocks included
    MaxSiblings     \* bound: blocks created on one parent

VARIABLES
    made,           \* every block ever signed; its index is its hash
    has,            \* node -> hashes in allBlocks
    chain,          \* node -> account -> accountChains, in order of arrival
    unclaimed,      \* node -> hashes of the sends in unclaimedSends
    registered,     \* node -> parentToBlocks: hashes in order of registration
    confirmed,      \* node -> confirmedBlocks
    rejected,       \* node -> rejectedBlocks
    tallies,        \* node -> hash -> the votes counted, by conflicted block
    votes           \* votes published

vars == <<made, has, chain, unclaimed, registered, confirmed, rejected, tallies, votes>>

Hashes == DOMAIN made
NoHash == 0

\* The registered blocks of b's account with b's parent.
SiblingsOf(n, b) ==
    SelectSeq(registered[n], LAMBDA g : made[g].acct = b.acct /\ made[g].prev = b.prev)
Siblings(n, h) == SiblingsOf(n, made[h])

\* getAccountHead and getAccountBalance: the block that ARRIVED last.
Head_(n, a) == Last(chain[n][a])
Balance(n, a) == made[Head_(n, a)].bal

Status(n, h) == CASE h \in confirmed[n] -> "confirmed"
                  [] h \in rejected[n] -> "rejected"
                  [] h \in DOMAIN tallies[n] -> "conflict"
                  [] OTHER -> "pending"

\* What validateBlockStructure and the receive check of addBlock ask of a block
\* whose hash and signature are good.  A second receive of the same send is
\* not refused here.
Valid(n, b) ==
    /\ b.prev \in has[n]
    /\ b.idx = made[b.prev].idx + 1
    /\ CASE b.type = "send" -> b.amt > 0 /\ made[b.prev].bal >= b.amt
                               /\ b.bal = made[b.prev].bal - b.amt
         [] b.type = "receive" -> /\ b.src \in has[n]
                                  /\ made[b.src].type = "send"
                                  /\ made[b.src].to = b.acct
                                  /\ made[b.src].amt = b.amt
                                  /\ b.bal = made[b.prev].bal + b.amt
         [] OTHER -> FALSE

\* registerBlock's revocation: what stays confirmed when h joins its siblings.
Revoked(n, h, b) ==
    IF SiblingsOf(n, b) = << >> THEN confirmed[n] \cup {h}
    ELSE confirmed[n] \ (ToSet(SiblingsOf(n, b)) \cup {h})

Tallied(n, h, b) ==
    LET older == ToSet(SiblingsOf(n, b))
        conflicted == IF older = {} THEN {} ELSE older \cup {h}
    IN
    [g \in DOMAIN tallies[n] \cup conflicted |->
        IF g \in DOMAIN tallies[n] THEN tallies[n][g] ELSE {}]

\* registerBlock: a hash the manager has decided keeps its verdict.
RegisterBlock(n, h, b) ==
    IF h \in confirmed[n] \cup rejected[n]
    THEN UNCHANGED <<registered, confirmed, tallies>>
    ELSE /\ registered' = [registered EXCEPT ![n] =
                               IF h \in ToSet(@) THEN @ ELSE Append(@, h)]
         /\ confirmed' = [confirmed EXCEPT ![n] = Revoked(n, h, b)]
         /\ tallies' = [tallies EXCEPT ![n] = Tallied(n, h, b)]

\* addBlock of block b with hash h, which node n does not hold yet.
AddBlock(n, h, b) ==
    /\ h \notin has[n]
    /\ Valid(n, b)
    /\ RegisterBlock(n, h, b)
    /\ has' = [has EXCEPT ![n] = @ \cup {h}]
    /\ chain' = [chain EXCEPT ![n][b.acct] = Append(@, h)]
    /\ unclaimed' = [unclaimed EXCEPT ![n] = IF b.type = "send" THEN @ \cup {h} ELSE @ \ {b.src}]
    /\ UNCHANGED rejected

\* voteIfConflict's preference: never a locked account, else the earliest of
\* the siblings this node still holds.
Approves_Newcomer(n, h) == made[h].acct \notin LockedOut[n]
Approves(n, h) ==
    /\ made[h].acct \notin LockedOut[n]
    /\ \A g \in ToSet(Siblings(n, h)) \cap has[n] : g >= h

\* voteIfConflict, run for the block that has just been added: one vote for
\* each local account with a balance.  The branch that abstains for a missing
\* parent cannot be taken, since addBlock has just required the parent.
Ballots(n, h) ==
    {[on |-> h, voter |-> v, approve |-> Approves(n, h)', head |-> Head_(n, v)'] :
        v \in {a \in KeysOf[n] : Balance(n, a)' > 0}}

---------------------------------------------------------------------------

OpenBlock(a) == [acct |-> a, type |-> "open", prev |-> NoHash, idx |-> 0, bal |-> Mint,
                 amt |-> 0, to |-> a, src |-> NoHash]

Init ==
    /\ made = [i \in 1..Cardinality(Accounts) |-> OpenBlock(SetToSeq(Accounts)[i])]
    /\ has = [n \in Nodes |-> DOMAIN made]
    /\ chain = [n \in Nodes |-> [a \in Accounts |-> <<CHOOSE h \in DOMAIN made : made[h].acct = a>>]]
    /\ unclaimed = [n \in Nodes |-> {}]
    /\ registered = [n \in Nodes |-> [i \in DOMAIN made |-> i]]
    /\ confirmed = [n \in Nodes |-> DOMAIN made]
    /\ rejected = [n \in Nodes |-> {}]
    /\ tallies = [n \in Nodes |-> << >>]
    /\ votes = {}

\* createAccountBlock on the head this node sees, added to its own ledger and
\* published; nothing votes on a block of one's own.
Author(n, b) ==
    LET h == Len(made) + 1 IN
    /\ Len(made) < MaxBlocks
    /\ Cardinality({g \in Hashes : made[g].acct = b.acct /\ made[g].prev = b.prev}) < MaxSiblings
    /\ made' = Append(made, b)
    /\ AddBlock(n, h, b)
    /\ UNCHANGED votes

\* createSend, for an account whose key the node holds.
CreateSend(n, a, to, amt) ==
    /\ a \in KeysOf[n]
    /\ amt > 0 /\ Balance(n, a) >= amt
    /\ Author(n, [acct |-> a, type |-> "send", prev |-> Head_(n, a), idx |-> made[Head_(n, a)].idx + 1,
                  bal |-> Balance(n, a) - amt, amt |-> amt, to |-> to, src |-> NoHash])

\* autoReceive's timer, and a claim by hand: createReceive.
CreateReceive(n, send) ==
    LET a == made[send].to IN
    /\ a \in KeysOf[n]
    /\ send \in unclaimed[n]
    /\ Author(n, [acct |-> a, type |-> "receive", prev |-> Head_(n, a), idx |-> made[Head_(n, a)].idx + 1,
                  bal |-> Balance(n, a) + made[send].amt, amt |-> made[send].amt, to |-> a, src |-> send])

\* handleIncomingBlock.  A block whose parent is missing is refused with
\* 'Non-open block requires a parent', which is not the error the handler
\* queues on, so it is dropped and may be delivered again.
Incoming(n, h) ==
    /\ UNCHANGED made
    /\ AddBlock(n, h, made[h])
    /\ votes' = IF Status(n, h)' = "conflict" THEN votes \cup Ballots(n, h) ELSE votes

\* castVote: the stake is the balance of the head the vote names when this
\* node holds it, and this node's balance of the voter when it does not.
VerifiedStake(n, v) == IF v.head \in has[n] THEN made[v.head].bal ELSE Balance(n, v.voter)

\* castVote and addVote: only a conflicted block counts votes, one per voter.
CastVote(n, v) ==
    /\ VerifiedStake(n, v) > 0
    /\ v.on \in DOMAIN tallies[n]
    /\ \A w \in tallies[n][v.on] : w.voter # v.voter
    /\ tallies' = [tallies EXCEPT ![n][v.on] =
                       @ \cup {[voter |-> v.voter, stake |-> VerifiedStake(n, v), approve |-> v.approve]}]
    /\ UNCHANGED <<made, has, chain, unclaimed, registered, confirmed, rejected, votes>>

StakeOf(ballots) == FoldSet(LAMBDA w, sum : w.stake + sum, 0, ballots)
ApproveStake(n, h) == StakeOf({w \in tallies[n][h] : w.approve})

\* The sibling resolveConflicts picks: most approving stake, the one
\* registered first among equals.
Best(n, group) ==
    LET first == CHOOSE i \in DOMAIN group :
                     /\ \A j \in DOMAIN group : ApproveStake(n, group[j]) <= ApproveStake(n, group[i])
                     /\ \A j \in 1..(i - 1) : ApproveStake(n, group[j]) < ApproveStake(n, group[i])
    IN group[first]

\* resolveConflicts decides: two thirds of the best sibling's stake approve it,
\* or the timeout has passed and there is an approval, or votes on every sibling.
Decides(n, group, timedOut) ==
    LET best == Best(n, group)
        total == StakeOf(tallies[n][best])
    IN \/ total > 0 /\ 3 * ApproveStake(n, best) >= 2 * total
       \/ timedOut /\ ApproveStake(n, best) > 0
       \/ timedOut /\ \A h \in ToSet(group) : tallies[n][h] # {}

\* One conflict of processConflicts' sweep, handleRejectedBlock for every loser
\* included: the loser leaves the ledger, what was built on it stays.
Resolve(n, h, timedOut) ==
    LET group == Siblings(n, h)
        losers == ToSet(group) \ {Best(n, group)}
        gone == losers \cap has[n]
        refunds == {made[g].src : g \in {r \in gone : made[r].type = "receive"}} \cap (has[n] \ gone)
    IN /\ Len(group) > 1
       /\ ToSet(group) \subseteq DOMAIN tallies[n]
       /\ Decides(n, group, timedOut)
       /\ confirmed' = [confirmed EXCEPT ![n] = @ \cup {Best(n, group)}]
       /\ rejected' = [rejected EXCEPT ![n] = @ \cup losers]
       /\ tallies' = [tallies EXCEPT ![n] = [g \in DOMAIN @ \ ToSet(group) |-> @[g]]]
       /\ has' = [has EXCEPT ![n] = @ \ losers]
       /\ chain' = [chain EXCEPT ![n][made[h].acct] = SelectSeq(@, LAMBDA g : g \notin losers)]
       /\ unclaimed' = [unclaimed EXCEPT ![n] = @ \cup refunds]
       /\ UNCHANGED <<made, registered, votes>>

Next ==
    \E n \in Nodes :
        \/ \E a, to \in Accounts, amt \in Amounts : a # to /\ CreateSend(n, a, to, amt)
        \/ \E send \in unclaimed[n] : CreateReceive(n, send)
        \/ \E h \in Hashes : Incoming(n, h)
        \/ \E v \in votes : CastVote(n, v)
        \/ \E h \in DOMAIN tallies[n], timedOut \in BOOLEAN : Resolve(n, h, timedOut)

Spec == Init /\ [][Next]_vars

---------------------------------------------------------------------------

\* The variables have their types.
DagTypeOK ==
    /\ Len(made) <= MaxBlocks
    /\ \A n \in Nodes :
        /\ has[n] \cup confirmed[n] \cup rejected[n] \subseteq Hashes
        /\ unclaimed[n] \subseteq {h \in Hashes : made[h].type = "send"}
        /\ DOMAIN tallies[n] \subseteq ToSet(registered[n])
        /\ \A a \in Accounts : chain[n][a] # << >> /\ ToSet(chain[n][a]) \subseteq has[n]

Won(n, h) == h \in confirmed[n] /\ \E g \in ToSet(Siblings(n, h)) : g \in rejected[n]

\* A fork of two blocks is decided the same way everywhere (voteIfConflict and
\* resolveConflicts): no node confirms one sibling after a conflict while
\* another node confirms the other, whatever order the blocks and the votes
\* arrived in and whether or not the timeout decided.
WinnersAgree ==
    \A n, m \in Nodes : \A h \in confirmed[n], g \in confirmed[m] :
        (Won(n, h) /\ Won(m, g) /\ made[h].acct = made[g].acct /\ made[h].prev = made[g].prev) => h = g

\* vote.ts says of the vote that "Loser is rejected and rolled back": a block
\* a node rejected, and whatever was built on it, is not in its ledger.
LoserRolledBack ==
    \A n \in Nodes : \A h \in has[n] : h \notin rejected[n] /\ made[h].prev \in has[n] \cup {NoHash}
=============================================================================
