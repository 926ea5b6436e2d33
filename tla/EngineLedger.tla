--------------------------- MODULE EngineLedger ---------------------------
(***************************************************************************)
(* The account-chain ledger of ledger/engine-ledger.ts as the nodes of     *)
(* network/node.ts drive it: every node keeps its own replica of every     *)
(* account chain it has been shown, an account's owner extends it on the   *)
(* devices that hold its key, blocks and double-spend evidence are         *)
(* gossiped without order or delivery guarantee, a relay archives what it  *)
(* sees, and a node that restarts rebuilds its replica from the blocks it  *)
(* persisted.                                                              *)
(*                                                                         *)
(* This module has the payment half of the ledger (open, send, receive),   *)
(* bonding, the freezing of equivocators, the four claim paths and the     *)
(* boot-time replay.  NFT, storage and committee blocks have modules of    *)
(* their own.                                                              *)
(*                                                                         *)
(* A block's content hash is injective, so a hash is the triple            *)
(* <<account, index, tag>> where the tag separates blocks signed at the    *)
(* same height.  The accumulator root commits to every block of the chain  *)
(* up to the block, so it is the sequence of their hashes.                 *)
(***************************************************************************)
EXTENDS Integers, Sequences, FiniteSets

CONSTANTS
    Nodes,          \* devices running a node
    Accounts,       \* account ids, numbers because replay sorts by them
    Devices,        \* Devices[a]: the nodes that may ever hold the key of a
    Mint,           \* VERIFICATION_MINT_AMOUNT
    Amounts,        \* amounts a user sends
    Bonds,          \* amounts a user bonds
    LastIndex,      \* bound: the last index each account signs
    Tags,           \* bound: how many blocks may be signed at one height
    MaxRestarts,    \* bound: restarts of each node
    RelayAnswers,   \* whether a /pending-sends request can be answered (TRUE)
                    \* or fail on every relay (FALSE)
    Rebroadcast     \* whether the 20 s publishLocalData tick is modelled

ASSUME AccountsAssumption == Accounts \subseteq Nat
ASSUME DevicesAssumption == Devices \in [Accounts -> SUBSET Nodes]
ASSUME MintAssumption == Mint \in Nat
ASSUME AmountsAssumption == Amounts \subseteq Nat \ {0}
ASSUME BondsAssumption == Bonds \subseteq Nat \ {0}
ASSUME LastIndexAssumption == LastIndex \in [Accounts -> Nat]
ASSUME TagsAssumption == Tags \subseteq Nat
ASSUME MaxRestartsAssumption == MaxRestarts \in [Nodes -> Nat]
ASSUME RelayAssumption == RelayAnswers \in (SUBSET BOOLEAN) \ {{}}
ASSUME RebroadcastAssumption == Rebroadcast \in BOOLEAN

VARIABLES
    signed,     \* every block an owner has signed
    chain,      \* chain[n][a]: held.get(a).chain on node n
    all,        \* allBlocks: chains, retained siblings, proven sends
    unclaimed,  \* unclaimedSends, as the send blocks themselves
    claimed,    \* claimedSends: hashes a receive has consumed
    frozen,     \* keys of equivocated
    bonded,     \* validatorRegistry: stake locked by each account
    timers,     \* sends whose challenge-window timer is armed
    cleared,    \* accounts with an unused "your chain is current" answer
    keys,       \* localKeys: accounts whose key the device holds
    wallet,     \* open blocks kept in the device's wallet
    disk,       \* the engineblocks store of the device
    unsaved,    \* blocks published whose IndexedDB write has not finished
    phase,      \* "running", "booting", or "replaying" persisted blocks
    toReplay,   \* persisted blocks start() has yet to replay
    restarts,   \* how often the node restarted
    wire,       \* blocks gossiped so far: any node may get any of them
    evidence,   \* double-spend evidence gossiped so far
    archive     \* engineBlockStore of the relay

ledger  == <<chain, all, unclaimed, claimed, frozen, bonded>>
device  == <<keys, wallet, disk, unsaved, phase, toReplay, restarts>>
network == <<wire, evidence, archive>>
claims  == <<timers, cleared>>
vars    == <<signed, ledger, claims, device, network>>

(***************************************************************************)
(* Blocks                                                                  *)
(***************************************************************************)
NoHash == <<>>
Hashes == Accounts \X Nat \X Tags

BlockTypes == {"open", "send", "receive"}

\* A receive names the send it claims.
Blocks ==
    {b \in [acct: Accounts, idx: Nat, tag: Tags, prev: Hashes \cup {NoHash},
            type: BlockTypes, bal: Int, amt: Nat, to: Accounts,
            src: Hashes \cup {NoHash}, root: Seq(Hashes)] :
        b.type = "receive" => b.src \in Hashes}

Hash(b) == <<b.acct, b.idx, b.tag>>

HashesOf(c) == [i \in 1..Len(c) |-> Hash(c[i])]

IsSend(b)    == b.type = "send"
IsReceive(b) == b.type = "receive"

\* proveDoubleSpend and verifyDoubleSpend: one account signed two blocks
\* at one height on the same predecessor.
DoubleSpend(x, y) ==
    /\ x.acct = y.acct
    /\ Hash(x) # Hash(y)
    /\ x.idx = y.idx
    /\ x.prev = y.prev

\* Content differs at least in the timestamp, so a hash is never signed twice.
FreshTag(a, i, t) ==
    /\ \A b \in signed : Hash(b) # <<a, i, t>>
    /\ \A u \in Tags : u < t => \E b \in signed : Hash(b) = <<a, i, u>>

\* createBlock: the next block of the chain c of account a.
NextBlock(a, c, t, type, bal, amt, to, src) ==
    [acct |-> a, idx |-> Len(c), tag |-> t,
     prev |-> IF c = <<>> THEN NoHash ELSE Hash(c[Len(c)]),
     type |-> type, bal |-> bal, amt |-> amt, to |-> to, src |-> src,
     root |-> Append(HashesOf(c), <<a, Len(c), t>>)]

Head_(n, a) == chain[n][a][Len(chain[n][a])]
Opened(n, a) == chain[n][a] # <<>>
Balance(n, a) == Head_(n, a).bal

(***************************************************************************)
(* Initial state: fresh nodes, no account yet.                             *)
(***************************************************************************)
Init ==
    /\ signed = {}
    /\ chain = [n \in Nodes |-> [a \in Accounts |-> <<>>]]
    /\ all = [n \in Nodes |-> {}]
    /\ unclaimed = [n \in Nodes |-> {}]
    /\ claimed = [n \in Nodes |-> {}]
    /\ frozen = [n \in Nodes |-> {}]
    /\ bonded = [n \in Nodes |-> [a \in Accounts |-> 0]]
    /\ timers = [n \in Nodes |-> {}]
    /\ cleared = [n \in Nodes |-> {}]
    /\ keys = [n \in Nodes |-> {}]
    /\ wallet = [n \in Nodes |-> {}]
    /\ disk = [n \in Nodes |-> {}]
    /\ unsaved = [n \in Nodes |-> {}]
    /\ phase = [n \in Nodes |-> "running"]
    /\ toReplay = [n \in Nodes |-> {}]
    /\ restarts = [n \in Nodes |-> 0]
    /\ wire = {}
    /\ evidence = {}
    /\ archive = {}

(***************************************************************************)
(* The ledger's own steps.  Each describes one replica; `ledger' is all    *)
(* of chain, all, unclaimed, claimed, frozen and bonded.                   *)
(***************************************************************************)

\* Mutants of Enter: a send is offered although a receive consumed it; a
\* receive leaves its source unclaimed.
Enter_OffersClaimed(n, b) ==
    /\ chain' = [chain EXCEPT ![n][b.acct] = Append(@, b)]
    /\ all' = [all EXCEPT ![n] = @ \cup {b}]
    /\ claimed' = [claimed EXCEPT ![n] =
                     IF IsReceive(b) THEN @ \cup {b.src} ELSE @]
    /\ unclaimed' = [unclaimed EXCEPT ![n] =
                     IF IsSend(b) THEN @ \cup {b} ELSE {s \in @ : Hash(s) # b.src}]
    /\ UNCHANGED <<frozen, bonded>>

Enter_KeepsSource(n, b) ==
    /\ chain' = [chain EXCEPT ![n][b.acct] = Append(@, b)]
    /\ all' = [all EXCEPT ![n] = @ \cup {b}]
    /\ claimed' = [claimed EXCEPT ![n] =
                     IF IsReceive(b) THEN @ \cup {b.src} ELSE @]
    /\ unclaimed' = [unclaimed EXCEPT ![n] = IF IsSend(b) THEN @ \cup {b} ELSE @]
    /\ UNCHANGED <<frozen, bonded>>

\* The effects of a block that enters its chain, the tail of addBlock: a
\* send is offered unless a receive that replayed earlier consumed it, a
\* receive consumes its source.
Enter(n, b) ==
    /\ chain' = [chain EXCEPT ![n][b.acct] = Append(@, b)]
    /\ all' = [all EXCEPT ![n] = @ \cup {b}]
    /\ claimed' = [claimed EXCEPT ![n] =
                     IF IsReceive(b) THEN @ \cup {b.src} ELSE @]
    /\ unclaimed' = [unclaimed EXCEPT ![n] =
                     IF IsSend(b) /\ Hash(b) \notin claimed[n] THEN @ \cup {b}
                     ELSE IF IsReceive(b) THEN {s \in @ : Hash(s) # b.src}
                     ELSE @]
    /\ UNCHANGED <<frozen, bonded>>

\* Mutants of Freeze: what is in flight stays claimable; the recipient of
\* the conflicting send is frozen too.
Freeze_KeepsSends(n, x, y, restored) ==
    /\ frozen' = [frozen EXCEPT ![n] = @ \cup {x.acct}]
    /\ unclaimed' = [unclaimed EXCEPT ![n] = @ \cup restored]
    /\ bonded' = [bonded EXCEPT ![n][x.acct] = 0]
    /\ evidence' = evidence \cup {[by |-> n, pair |-> {x, y}]}

Freeze_BothParties(n, x, y, restored) ==
    /\ frozen' = [frozen EXCEPT ![n] = @ \cup {x.acct, y.to}]
    /\ unclaimed' = [unclaimed EXCEPT ![n] =
                       {s \in @ : s.acct # x.acct} \cup restored]
    /\ bonded' = [bonded EXCEPT ![n][x.acct] = 0]
    /\ evidence' = evidence \cup {[by |-> n, pair |-> {x, y}]}

\* freezeEquivocator: freeze, void what the account has in flight, burn
\* its bond, and announce the evidence (the account:equivocated listener).
\* `restored' is what the caller offers again afterwards.
Freeze(n, x, y, restored) ==
    /\ frozen' = [frozen EXCEPT ![n] = @ \cup {x.acct}]
    /\ unclaimed' = [unclaimed EXCEPT ![n] =
                       {s \in @ : s.acct # x.acct} \cup restored]
    /\ bonded' = [bonded EXCEPT ![n][x.acct] = 0]
    /\ evidence' = evidence \cup {[by |-> n, pair |-> {x, y}]}

\* Balance conservation of a block on the head it claims to extend.
Arithmetic(n, b) ==
    \/ /\ IsSend(b)
       /\ b.amt > 0
       /\ b.bal >= 0
       /\ b.bal = Balance(n, b.acct) - b.amt
    \/ /\ IsReceive(b)
       /\ b.amt > 0
       /\ b.bal = Balance(n, b.acct) + b.amt
       /\ \A s \in all[n] : Hash(s) = b.src =>
             IsSend(s) /\ s.to = b.acct /\ s.amt = b.amt

\* Mutant of Extends: the height is checked, the link to the head is not.
Extends_Unlinked(n, b) ==
    /\ b.acct \notin frozen[n]
    /\ b.idx = Len(chain[n][b.acct])
    /\ b.idx = 0 => b.type = "open" /\ b.prev = NoHash /\ b.bal = Mint
    /\ b.idx > 0 => Arithmetic(n, b)

\* The checks of addBlock that let a block extend its chain.
Extends(n, b) ==
    /\ b.acct \notin frozen[n]
    /\ b.idx = Len(chain[n][b.acct])
    /\ b.idx = 0 => b.type = "open" /\ b.prev = NoHash /\ b.bal = Mint
    /\ b.idx > 0 => b.prev = Hash(Head_(n, b.acct)) /\ Arithmetic(n, b)
    /\ b.root = Append(HashesOf(chain[n][b.acct]), Hash(b))

\* The block is already in the chain: addBlock answers success.
Holds(n, b) ==
    /\ b.acct \notin frozen[n]
    /\ b.idx < Len(chain[n][b.acct])
    /\ chain[n][b.acct][b.idx + 1] = b

\* Another block sits at its height: flagEquivocation, and the sibling is
\* retained whether or not the pair is evidence.
Conflicts(n, b) ==
    /\ b.acct \notin frozen[n]
    /\ b.idx < Len(chain[n][b.acct])
    /\ chain[n][b.acct][b.idx + 1] # b

\* Mutant of Retain: the sibling is kept, the account is not frozen.
Retain_OnlyKeeps(n, b, restored) ==
    /\ all' = [all EXCEPT ![n] = @ \cup {b}]
    /\ unclaimed' = [unclaimed EXCEPT ![n] = @ \cup restored]
    /\ UNCHANGED <<chain, claimed, frozen, bonded, evidence>>

Retain(n, b, restored) ==
    LET held == chain[n][b.acct][b.idx + 1] IN
    /\ all' = [all EXCEPT ![n] = @ \cup {b}]
    /\ IF DoubleSpend(held, b)
       THEN Freeze(n, held, b, restored)
       ELSE /\ unclaimed' = [unclaimed EXCEPT ![n] = @ \cup restored]
            /\ UNCHANGED <<frozen, bonded, evidence>>
    /\ UNCHANGED <<chain, claimed>>

Accepted(n, b) == Extends(n, b) \/ Holds(n, b)

\* addBlock as a whole.
AddBlock(n, b) ==
    \/ Extends(n, b) /\ Enter(n, b) /\ UNCHANGED evidence
    \/ Conflicts(n, b) /\ Retain(n, b, {})
    \/ ~Extends(n, b) /\ ~Conflicts(n, b) /\ UNCHANGED <<ledger, evidence>>

\* restoreVerifiedBlock, the fallback of start() for a payment block that
\* addBlock refused: a send comes back as unclaimed, whoever sent it.
Restored(n, b) ==
    IF IsSend(b) /\ Hash(b) \notin claimed[n] THEN {b} ELSE {}

AddOrRestoreBlock(n, b) ==
    \/ Accepted(n, b) /\ AddBlock(n, b)
    \/ Conflicts(n, b) /\ Retain(n, b, Restored(n, b))
    \/ /\ ~Accepted(n, b) /\ ~Conflicts(n, b)
       /\ all' = [all EXCEPT ![n] = IF IsSend(b) THEN @ \cup {b} ELSE @]
       /\ unclaimed' = [unclaimed EXCEPT ![n] = @ \cup Restored(n, b)]
       /\ UNCHANGED <<chain, claimed, frozen, bonded, evidence>>

\* publishEngineBlock: gossip the block and start its IndexedDB write, which
\* is not awaited.  What the disk holds matters only to a later restart.
MayRestart(n) == restarts[n] < MaxRestarts[n]

Publish(n, b) ==
    /\ wire' = wire \cup {b}
    /\ unsaved' = [unsaved EXCEPT ![n] = IF MayRestart(n) THEN @ \cup {b} ELSE @]

Persist(n, B) ==
    disk' = [disk EXCEPT ![n] = IF MayRestart(n) THEN @ \cup B ELSE @]

\* A block signed on the node itself: appended without going through
\* addBlock.
SignAndEnter(n, b) ==
    /\ signed' = signed \cup {b}
    /\ Enter(n, b)

Running(n) == phase[n] = "running"

(***************************************************************************)
(* What a user does.                                                       *)
(***************************************************************************)

Exists(a) == \E b \in signed : b.acct = a

\* Account creation: openAccount under a key pair generated for it, then
\* submitBlock; the wallet keeps the open block and the node the key.
OpenAccount(n, a) ==
    /\ Running(n) /\ n \in Devices[a]
    /\ ~Exists(a)
    /\ \E t \in Tags :
         LET b == NextBlock(a, <<>>, t, "open", Mint, 0, a, NoHash) IN
         /\ FreshTag(a, 0, t)
         /\ SignAndEnter(n, b)
         /\ Publish(n, b)
         /\ wallet' = [wallet EXCEPT ![n] = @ \cup {b}]
    /\ keys' = [keys EXCEPT ![n] = @ \cup {a}]
    /\ UNCHANGED <<claims, disk, phase, toReplay, restarts, evidence, archive>>

\* Recovery of an existing account on another device: addLocalKey.
RecoverAccount(n, a) ==
    /\ Running(n) /\ n \in Devices[a] \ {m \in Nodes : a \in keys[m]}
    /\ Exists(a)
    /\ keys' = [keys EXCEPT ![n] = @ \cup {a}]
    /\ UNCHANGED <<signed, ledger, claims, wallet, disk, unsaved, phase,
                   toReplay, restarts, network>>

\* Mutant of CreateSend: bonded stake can be spent.
CreateSend_SpendsBond(n, a, to, amt) ==
    /\ Running(n) /\ a \in keys[n] /\ Opened(n, a)
    /\ Exists(to)
    /\ Len(chain[n][a]) <= LastIndex[a]
    /\ Balance(n, a) >= amt
    /\ \E t \in Tags :
         LET b == NextBlock(a, chain[n][a], t, "send", Balance(n, a) - amt,
                            amt, to, NoHash) IN
         /\ FreshTag(a, b.idx, t)
         /\ SignAndEnter(n, b)
         /\ Publish(n, b)
    /\ UNCHANGED <<claims, keys, wallet, disk, phase, toReplay, restarts,
                   evidence, archive>>

\* createSend: the recipient resolves (the account directory runs ahead of
\* the chains), bonded stake is locked, and there is no check that the
\* sender is frozen.  submitBlock then refuses to publish the block of a
\* frozen account.
CreateSend(n, a, to, amt) ==
    /\ Running(n) /\ a \in keys[n] /\ Opened(n, a)
    /\ Exists(to)
    /\ Len(chain[n][a]) <= LastIndex[a]
    /\ Balance(n, a) - bonded[n][a] >= amt
    /\ \E t \in Tags :
         LET b == NextBlock(a, chain[n][a], t, "send", Balance(n, a) - amt,
                            amt, to, NoHash) IN
         /\ FreshTag(a, b.idx, t)
         /\ SignAndEnter(n, b)
         /\ IF a \in frozen[n] THEN UNCHANGED <<wire, unsaved>> ELSE Publish(n, b)
    /\ UNCHANGED <<claims, keys, wallet, disk, phase, toReplay, restarts,
                   evidence, archive>>

\* createReceive, the common part of the claim paths: the send must be
\* unclaimed and addressed to the account; no check that either party is
\* frozen.
CreateReceive(n, a, s) ==
    /\ s \in unclaimed[n] /\ s.to = a
    /\ Opened(n, a)
    /\ Len(chain[n][a]) <= LastIndex[a]
    /\ \E t \in Tags :
         LET b == NextBlock(a, chain[n][a], t, "receive", Balance(n, a) + s.amt,
                            s.amt, a, Hash(s)) IN
         /\ FreshTag(a, b.idx, t)
         /\ SignAndEnter(n, b)

Claimable(n, a, s) == s \in unclaimed[n] /\ s.to = a /\ Opened(n, a)

\* The block just appended to the chain of a.
NewBlock(n, a) == chain'[n][a][Len(chain'[n][a])]

\* bondStake: locks free balance up to the mint.
BondStake(n, a, amt) ==
    /\ Running(n) /\ a \in keys[n] /\ Opened(n, a)
    /\ a \notin frozen[n]
    /\ amt <= Balance(n, a) - bonded[n][a]
    /\ bonded[n][a] + amt <= Mint
    /\ bonded' = [bonded EXCEPT ![n][a] = @ + amt]
    /\ UNCHANGED <<signed, chain, all, unclaimed, claimed, frozen, claims,
                   device, network>>

(***************************************************************************)
(* The claim paths.  ownChainIsCurrent asks the archive for its newest     *)
(* block of the account; the answer is awaited, so blocks can arrive or be *)
(* signed elsewhere before it is used.  When no relay answers the claim    *)
(* goes through.                                                           *)
(***************************************************************************)
\* Mutant of ChainIsCurrent: the local head must be past the archive's.
ChainIsCurrent_PastHead(n, a) ==
    \A b \in archive : b.acct = a => b.idx + 1 < Len(chain[n][a])

ChainIsCurrent(n, a) ==
    \A b \in archive : b.acct = a => b.idx < Len(chain[n][a])

\* A relay found the chain of an account with something to claim current.
RelayAnswer(n, a) ==
    /\ Running(n) /\ a \in keys[n]
    /\ TRUE \in RelayAnswers
    /\ a \notin cleared[n]
    /\ \E s \in unclaimed[n] \cup archive : IsSend(s) /\ s.to = a
    /\ ChainIsCurrent(n, a)
    /\ cleared' = [cleared EXCEPT ![n] = @ \cup {a}]
    /\ UNCHANGED <<signed, ledger, timers, device, network>>

\* Mutant of OwnChainIsCurrent: with no relay to answer, no claim is made.
OwnChainIsCurrent_NeedsAnswer(n, a) == a \in cleared[n]

OwnChainIsCurrent(n, a) == FALSE \in RelayAnswers \/ a \in cleared[n]
OwnChainIsBehind(n, a)  == TRUE \in RelayAnswers /\ ~ChainIsCurrent(n, a)

UseAnswer(n, a) == cleared' = [cleared EXCEPT ![n] = @ \ {a}]

\* A claim the node makes itself is published even when addBlock refuses it.
ClaimAndPublish(n, a, s) ==
    /\ CreateReceive(n, a, s)
    /\ Publish(n, NewBlock(n, a))
    /\ UNCHANGED <<keys, wallet, disk, phase, toReplay, restarts, evidence, archive>>

\* autoReceiveEngine after the challenge window: nothing for a sender proven
\* fraudulent meanwhile or behind a stale own chain, else the claim.
ChallengeTimer(n, s) ==
    /\ Running(n) /\ s \in timers[n]
    /\ timers' = [timers EXCEPT ![n] = @ \ {s}]
    /\ \/ /\ s.acct \notin frozen[n]
          /\ OwnChainIsCurrent(n, s.to)
          /\ ClaimAndPublish(n, s.to, s)
          /\ UseAnswer(n, s.to)
       \/ /\ \/ s.acct \in frozen[n]
             \/ OwnChainIsBehind(n, s.to)
             \/ ~Claimable(n, s.to, s)
          /\ UNCHANGED <<signed, ledger, cleared, device, network>>

\* sweepUnclaimedReceives: gated on the own chain, not on the sender.
Sweep(n, a, s) ==
    /\ Running(n) /\ a \in keys[n]
    /\ OwnChainIsCurrent(n, a)
    /\ ClaimAndPublish(n, a, s)
    /\ UseAnswer(n, a)
    /\ UNCHANGED timers

\* autoClaimPending of the wallet view: no gate at all, and submitBlock
\* drops the block of a frozen claimant.
AutoClaimPending(n, a, s) ==
    /\ Running(n) /\ a \in keys[n]
    /\ CreateReceive(n, a, s)
    /\ IF a \in frozen[n] THEN UNCHANGED <<wire, unsaved>>
       ELSE Publish(n, NewBlock(n, a))
    /\ UNCHANGED <<claims, keys, wallet, disk, phase, toReplay, restarts,
                   evidence, archive>>

\* claimViaProof: with the own chain current, a packet from an archive that
\* holds exactly one chain of the sender registers the send alone, keeps
\* it on disk and arms the challenge timer.
ServesChain(a) ==
    /\ \A x, y \in archive : x.acct = a /\ y.acct = a /\ x.idx = y.idx => x = y
    /\ \A x \in archive : x.acct = a /\ x.idx > 0 =>
          \E y \in archive : Hash(y) = x.prev

ClaimViaProof(n, a, s) ==
    /\ Running(n) /\ a \in keys[n]
    /\ TRUE \in RelayAnswers
    /\ s \in archive /\ IsSend(s) /\ s.to = a
    /\ s \notin all[n]
    /\ OwnChainIsCurrent(n, a)
    /\ ServesChain(s.acct)
    /\ s.acct \notin frozen[n]
    /\ Hash(s) \notin claimed[n]
    /\ all' = [all EXCEPT ![n] = @ \cup {s}]
    /\ unclaimed' = [unclaimed EXCEPT ![n] = @ \cup {s}]
    /\ Persist(n, {s})
    /\ timers' = [timers EXCEPT ![n] = @ \cup {s}]
    /\ UseAnswer(n, a)
    /\ UNCHANGED <<signed, chain, claimed, frozen, bonded, keys, wallet, unsaved,
                   phase, toReplay, restarts, network>>

(***************************************************************************)
(* Gossip.                                                                 *)
(***************************************************************************)

\* An engine block arrives: persisted first, then handleIncomingEngineBlock.
\* A send to a local account arms the challenge timer.  A block whose parent
\* is missing stays on the wire, which is where the orphan queue, the delta
\* pulls and the re-broadcasts find it again.
Deliver(n, b) ==
    /\ phase[n] \in {"running", "booting"}
    /\ b \in wire
    /\ Persist(n, {b})
    /\ AddBlock(n, b)
    /\ timers' = [timers EXCEPT ![n] =
                    IF Accepted(n, b) /\ IsSend(b) /\ b.to \in keys[n]
                    THEN @ \cup {b} ELSE @]
    /\ UNCHANGED <<signed, cleared, keys, wallet, unsaved, phase, toReplay, restarts,
                   wire, archive>>

\* applyEvidenceFromBlocks.
DeliverEvidence(n, x, y) ==
    /\ phase[n] \in {"running", "booting"}
    /\ DoubleSpend(x, y)
    /\ x.acct \notin frozen[n]
    /\ Freeze(n, x, y, {})
    /\ UNCHANGED <<signed, chain, all, claimed, claims, device, wire, archive>>

\* archiveEngineBlock and indexEngineRow: the first sibling that joins a
\* height is announced with the block it meets there, later ones are not.
ArchiveBlock(b) ==
    LET peers == {x \in archive : x.acct = b.acct /\ x.idx = b.idx} IN
    /\ TRUE \in RelayAnswers
    /\ b \in wire \ archive
    /\ archive' = archive \cup {b}
    /\ evidence' = evidence \cup
          {[by |-> "relay", pair |-> {x, b}] : x \in {p \in peers : peers = {p}}}
    /\ UNCHANGED <<signed, ledger, claims, device, wire>>

\* publishLocalData: every block the ledger knows is published again.
PublishLocalData(n) ==
    /\ Rebroadcast /\ Running(n)
    /\ wire' = wire \cup all[n]
    /\ unsaved' = [unsaved EXCEPT ![n] = IF MayRestart(n) THEN @ \cup all[n] ELSE @]
    /\ UNCHANGED <<signed, ledger, claims, keys, wallet, disk, phase, toReplay,
                   restarts, evidence, archive>>

(***************************************************************************)
(* Persistence and restart.                                                *)
(***************************************************************************)

\* The pending IndexedDB writes complete.
SaveDone(n) ==
    /\ unsaved[n] # {}
    /\ disk' = [disk EXCEPT ![n] = @ \cup unsaved[n]]
    /\ unsaved' = [unsaved EXCEPT ![n] = {}]
    /\ UNCHANGED <<signed, ledger, claims, keys, wallet, phase, toReplay,
                   restarts, network>>

\* The tab is closed or reloaded: memory and unfinished writes are gone.
Restart(n) ==
    /\ Running(n) /\ MayRestart(n)
    /\ chain' = [chain EXCEPT ![n] = [a \in Accounts |-> <<>>]]
    /\ all' = [all EXCEPT ![n] = {}]
    /\ unclaimed' = [unclaimed EXCEPT ![n] = {}]
    /\ claimed' = [claimed EXCEPT ![n] = {}]
    /\ frozen' = [frozen EXCEPT ![n] = {}]
    /\ bonded' = [bonded EXCEPT ![n] = [a \in Accounts |-> 0]]
    /\ timers' = [timers EXCEPT ![n] = {}]
    /\ cleared' = [cleared EXCEPT ![n] = {}]
    /\ unsaved' = [unsaved EXCEPT ![n] = {}]
    /\ phase' = [phase EXCEPT ![n] = "booting"]
    /\ restarts' = [restarts EXCEPT ![n] = @ + 1]
    /\ UNCHANGED <<signed, keys, wallet, disk, toReplay, network>>

\* start() has loaded the engineblocks store; what gossip delivered while
\* the load was pending is already in the ledger.
LoadBlocks(n) ==
    /\ phase[n] = "booting"
    /\ phase' = [phase EXCEPT ![n] = IF disk[n] = {} THEN "running" ELSE "replaying"]
    /\ toReplay' = [toReplay EXCEPT ![n] = disk[n]]
    /\ UNCHANGED <<signed, ledger, claims, keys, wallet, disk, unsaved, restarts,
                   network>>

\* Mutant of ReplaysBefore: by account only.
ReplaysBefore_Account(x, y) == x.acct < y.acct

\* sortEngineBlocks: by account, then by index.
ReplaysBefore(x, y) == x.acct < y.acct \/ (x.acct = y.acct /\ x.idx < y.idx)

\* One turn of the replay loop of start().
Replay(n, b) ==
    /\ phase[n] = "replaying"
    /\ b \in toReplay[n] /\ \A c \in toReplay[n] : ~ReplaysBefore(c, b)
    /\ toReplay' = [toReplay EXCEPT ![n] = @ \ {b}]
    /\ phase' = [phase EXCEPT ![n] = IF toReplay[n] = {b} THEN "running" ELSE @]
    /\ AddOrRestoreBlock(n, b)
    /\ UNCHANGED <<signed, claims, keys, wallet, disk, unsaved, restarts, wire, archive>>

\* startNode of the wallet: an account without a chain gets its open block.
WalletOpen(n, b) ==
    /\ Running(n) /\ b \in wallet[n] /\ ~Opened(n, b.acct)
    /\ AddBlock(n, b)
    /\ IF Accepted(n, b) THEN Publish(n, b) ELSE UNCHANGED <<wire, unsaved>>
    /\ UNCHANGED <<signed, claims, keys, wallet, disk, phase, toReplay, restarts, archive>>

UserStep(n) ==
    \E a \in Accounts :
        \/ OpenAccount(n, a)
        \/ RecoverAccount(n, a)
        \/ \E to \in Accounts, amt \in Amounts : CreateSend(n, a, to, amt)
        \/ \E amt \in Bonds : BondStake(n, a, amt)

ClaimStep(n) ==
    \/ \E a \in keys[n] : RelayAnswer(n, a)
    \/ \E s \in timers[n] : ChallengeTimer(n, s)
    \/ \E s \in unclaimed[n] : Sweep(n, s.to, s) \/ AutoClaimPending(n, s.to, s)
    \/ \E s \in archive : ClaimViaProof(n, s.to, s)

GossipStep(n) ==
    \/ \E b \in wire : Deliver(n, b)
    \/ \E e \in evidence : \E x, y \in e.pair : DeliverEvidence(n, x, y)
    \/ PublishLocalData(n)

DeviceStep(n) ==
    \/ SaveDone(n)
    \/ Restart(n)
    \/ LoadBlocks(n)
    \/ \E b \in toReplay[n] : Replay(n, b)
    \/ \E b \in wallet[n] : WalletOpen(n, b)

Next ==
    \/ \E n \in Nodes : UserStep(n) \/ ClaimStep(n) \/ GossipStep(n) \/ DeviceStep(n)
    \/ \E b \in wire : ArchiveBlock(b)

Spec == Init /\ [][Next]_vars

(***************************************************************************)
(* Fairness.  A block stays available to every node: its holders           *)
(* re-broadcast all they have every 20 s and answer delta requests.  The   *)
(* sweep runs every 20 s and asks the relay first, the replay loop and the *)
(* wallet's start run to their end, an IndexedDB write completes.  Users   *)
(* owe nothing, no node has to restart, and no relay has to archive.       *)
(***************************************************************************)
Heights == UNION {{a} \X (0..LastIndex[a]) \X Tags : a \in Accounts}

Fairness ==
    \A n \in Nodes :
        /\ \A h \in Heights :
              /\ WF_vars(\E b \in wire : Hash(b) = h /\ Deliver(n, b))
              /\ WF_vars(\E s \in unclaimed[n] : Hash(s) = h /\ Sweep(n, s.to, s))
        /\ \A a \in Accounts : WF_vars(RelayAnswer(n, a))
        /\ WF_vars(LoadBlocks(n))
        /\ WF_vars(\E b \in toReplay[n] : Replay(n, b))
        /\ WF_vars(\E b \in wallet[n] : WalletOpen(n, b))
        /\ WF_vars(SaveDone(n))

LiveSpec == Spec /\ Fairness

(***************************************************************************)
(* Properties                                                              *)
(***************************************************************************)
TypeOK ==
    /\ signed \subseteq Blocks
    /\ chain \in [Nodes -> [Accounts -> Seq(Blocks)]]
    /\ all \in [Nodes -> SUBSET Blocks]
    /\ unclaimed \in [Nodes -> SUBSET Blocks]
    /\ claimed \in [Nodes -> SUBSET Hashes]
    /\ frozen \in [Nodes -> SUBSET Accounts]
    /\ bonded \in [Nodes -> [Accounts -> Nat]]
    /\ timers \in [Nodes -> SUBSET Blocks]
    /\ cleared \in [Nodes -> SUBSET Accounts]
    /\ keys \in [Nodes -> SUBSET Accounts]
    /\ wallet \in [Nodes -> SUBSET Blocks]
    /\ disk \in [Nodes -> SUBSET Blocks]
    /\ unsaved \in [Nodes -> SUBSET Blocks]
    /\ phase \in [Nodes -> {"running", "booting", "replaying"}]
    /\ toReplay \in [Nodes -> SUBSET Blocks]
    /\ restarts \in [Nodes -> Nat]
    /\ wire \subseteq Blocks
    /\ evidence \subseteq [by: Nodes \cup {"relay"}, pair: SUBSET Blocks]
    /\ archive \subseteq Blocks

\* One transfer pays once: no chain on any node holds two receives of one
\* send, whatever the order in which claims, gossip, proofs, replays of
\* persisted blocks and other devices of the account interleave
\* (claimedSends, engine-ledger.ts:118).
NoDoubleClaim ==
    \A n \in Nodes, a \in Accounts : \A i, j \in 1..Len(chain[n][a]) :
        i # j /\ IsReceive(chain[n][a][i]) /\ IsReceive(chain[n][a][j])
            => chain[n][a][i].src # chain[n][a][j].src

\* An account written by one device that never restarted is frozen on no
\* node: neither late gossip, nor the relay's height index, nor another
\* node's replay ever produces evidence against it (fraud.ts, freezeEquivocator).
HonestNeverFrozen ==
    \A h \in Nodes, a \in Accounts :
        Devices[a] = {h} /\ restarts[h] = 0 => \A n \in Nodes : a \notin frozen[n]

\* The account signed two blocks on one predecessor.
Forked(a) == \E x, y \in signed : x.acct = a /\ DoubleSpend(x, y)

\* Replicas that hold the same block at one height hold the same history
\* below it, forked account or not: a transfer was made from one history
\* only (the linkage and accumulator checks of addBlock).
SameHistory ==
    \A n, m \in Nodes, a \in Accounts :
        \A i \in 1..Len(chain[n][a]) :
            i <= Len(chain[m][a]) /\ chain[n][a][i] = chain[m][a][i] =>
                \A j \in 1..i : chain[n][a][j] = chain[m][a][j]

\* A send a node took in without the chain below it, from a proof or from a
\* replay that could not place it, and offers or has let be claimed.
Unplaced(n, y) == IsSend(y) /\ (y \in unclaimed[n] \/ Hash(y) \in claimed[n])

\* A node that holds both sides of a fork has frozen the account
\* (engine-ledger.ts:154, "it freezes the account on every node that sees it").
\* The one side it may hold without a freeze is a send that never went
\* through addBlock.
SeenForkIsFrozen ==
    \A n \in Nodes, a \in Accounts : \A i \in 1..Len(chain[n][a]), y \in all[n] :
        DoubleSpend(chain[n][a][i], y) => a \in frozen[n] \/ Unplaced(n, y)

\* What a frozen account has in flight cannot be claimed: a node that froze
\* it voids its sends and never offers one again (freezeEquivocator, "Void
\* the account's unclaimed sends"), except a send its user signs on that very
\* node afterwards (createSend does not look at the freeze) and one that the
\* replay of a restart puts back (restoreVerifiedBlock).
FrozenSendsVoid ==
    [][\A n \in Nodes : \A s \in unclaimed'[n] :
          s.acct \in frozen'[n] =>
             \/ s \in signed' \ signed
             \/ s \in unclaimed[n] /\ s.acct \in frozen[n]
             \/ phase[n] = "replaying" /\ s \in toReplay[n]]_vars

\* Bonded stake is locked: on the one device that writes an account, and
\* until it restarts, the bond never exceeds the balance (createSend,
\* bondStake, freezeEquivocator).
BondBacked ==
    \A h \in Nodes, a \in Accounts :
        Devices[a] = {h} /\ restarts[h] = 0 /\ bonded[h][a] > 0
            => Opened(h, a) /\ bonded[h][a] <= Balance(h, a)

\* A reload rebuilds the chains: once the persisted blocks are replayed, an
\* unforked account has every block whose whole history is on disk
\* (docs/TESTPLAN.md:201, "balances identical after reload").
ReloadRestores ==
    [][\A n \in Nodes :
          phase[n] = "replaying" /\ phase'[n] = "running" =>
            \A b \in disk[n] :
                ~Forked(b.acct)
                  /\ (\A i \in DOMAIN b.root : \E x \in disk[n] : Hash(x) = b.root[i])
                => \E i \in DOMAIN chain'[n][b.acct] : chain'[n][b.acct][i] = b]_vars

\* Every claim path first confirms that the local chain is as fresh as the
\* archive's view of it (docs/ARCHITECTURE.md:1778).
ClaimsOnCurrentHead ==
    [][\A b \in signed' \ signed : IsReceive(b) =>
          \A x \in archive : x.acct = b.acct => x.idx < b.idx]_vars

\* A payment arrives: a send is received by its addressee, whatever the
\* gossip, restarts and gate answers in between (sweepUnclaimedReceives is
\* the path that catches what the others miss).
\* Excepted are forked accounts and an addressee whose chain is full, which
\* is a bound of the model.
SendsArrive ==
    \A a \in Accounts, t \in Tags : \A i \in 1..LastIndex[a] :
        (\E s \in signed : Hash(s) = <<a, i, t>> /\ IsSend(s))
          ~> (\E s \in signed : /\ Hash(s) = <<a, i, t>>
                                /\ \/ \E r \in signed : r.src = Hash(s)
                                   \/ \E x \in signed : x.acct = s.to /\ x.idx = LastIndex[s.to]
                                   \/ Forked(a) \/ Forked(s.to))

(***************************************************************************)
(* EngineLedger implements Payments when every account has one device and  *)
(* none restarts: the balance is that of the newest block signed, and a    *)
(* transfer is in flight until a receive of it is signed.                  *)
(***************************************************************************)
SignedOf(a) == {b \in signed : b.acct = a}
Newest(a) == CHOOSE b \in SignedOf(a) : \A c \in SignedOf(a) : c.idx <= b.idx

Money == INSTANCE Payments WITH
    Ids      <- Heights,
    opened   <- {b.acct : b \in signed},
    balance  <- [a \in Accounts |-> IF SignedOf(a) = {} THEN 0 ELSE Newest(a).bal],
    inflight <- {[id |-> Hash(s), to |-> s.to, amt |-> s.amt] :
                   s \in {x \in signed : IsSend(x) /\ \A r \in signed : r.src # Hash(x)}},
    used     <- {Hash(s) : s \in {x \in signed : IsSend(x)}}

\* The ledger's steps are payments, or invisible to them.
ImplementsPayments == Money!Spec

\* The money in the system is one mint per account (Payments!Conserved).
MoneyConserved == Money!Conserved

(***************************************************************************)
(* The inductive invariant behind the safety properties (proved in         *)
(* EngineLedgerProofs).  It says where blocks come from (only from their   *)
(* owners), what position in a chain a signed block vouches for, and how a *)
(* replica's record of consumed sends relates to its chains.               *)
(***************************************************************************)
\* Everything a node, the relay or the network holds was signed by its
\* owner (verifyBlock at every entry point).
HeldBlocks(n) ==
    all[n] \cup unclaimed[n] \cup disk[n] \cup unsaved[n] \cup toReplay[n]
        \cup wallet[n] \cup timers[n]

OnlySigned ==
    /\ wire \subseteq signed /\ archive \subseteq signed
    /\ \A n \in Nodes : HeldBlocks(n) \subseteq signed
    /\ \A e \in evidence : e.pair \subseteq signed

\* A hash names one block.
UniqueHash == \A x, y \in signed : Hash(x) = Hash(y) => x = y

\* A chain is a sequence of signed blocks of its account, each at its own
\* height and committing to all before it.
LinkedChain(a, c, blocks) ==
    \A i \in 1..Len(c) :
        /\ c[i] \in blocks
        /\ c[i].acct = a
        /\ c[i].idx = i - 1
        /\ c[i].root = [j \in 1..i |-> Hash(c[j])]

Linked == \A n \in Nodes, a \in Accounts : LinkedChain(a, chain[n][a], signed)

\* The hashes a block commits to are those of blocks signed before it.
RootsKnown ==
    \A b \in signed : \A j \in DOMAIN b.root : \E y \in signed : Hash(y) = b.root[j]

\* claimedSends has the source of every receive the replica holds, and
\* nothing in it is offered again.
ClaimsRecorded ==
    \A n \in Nodes :
        /\ \A a \in Accounts : \A i \in 1..Len(chain[n][a]) :
              IsReceive(chain[n][a][i]) => chain[n][a][i].src \in claimed[n]
        /\ \A s \in unclaimed[n] : Hash(s) \notin claimed[n]

\* No owner signs a second receive of a send on top of the first.
SingleUse ==
    \A b, x \in signed : \A j \in DOMAIN b.root :
        b # x /\ IsReceive(b) /\ IsReceive(x) /\ Hash(x) = b.root[j] => b.src # x.src

\* Keys and timers belong to devices of their account.
KeysOnDevices ==
    \A n \in Nodes :
        /\ \A a \in keys[n] : n \in Devices[a]
        /\ \A s \in timers[n] : s.to \in keys[n]

\* The only device of an account, as long as it has not restarted, holds
\* every block the account signed, at its height.
SingleWriter ==
    \A h \in Nodes, a \in Accounts :
        Devices[a] = {h} /\ restarts[h] = 0 =>
            \A b \in signed : b.acct = a =>
                b.idx < Len(chain[h][a]) /\ chain[h][a][b.idx + 1] = b

\* An account is frozen only where it really signed two blocks on one
\* predecessor (flagEquivocation, applyEvidence).
FrozenSound == \A n \in Nodes : \A a \in frozen[n] : Forked(a)

IndInv ==
    /\ TypeOK
    /\ OnlySigned
    /\ UniqueHash
    /\ Linked
    /\ RootsKnown
    /\ ClaimsRecorded
    /\ SingleUse
    /\ KeysOnDevices
    /\ SingleWriter
    /\ FrozenSound

(***************************************************************************)
(* The rest of what the ledger keeps: what its owners sign is what every   *)
(* replica accepts, and what a replica holds it holds for a reason.        *)
(***************************************************************************)

\* The arithmetic of a block on its predecessor.
Moves(p, b) ==
    \/ IsSend(b) /\ b.amt > 0 /\ b.bal >= 0 /\ b.bal = p.bal - b.amt
    \/ /\ IsReceive(b) /\ b.amt > 0 /\ b.bal = p.bal + b.amt
       /\ \E s \in signed : Hash(s) = b.src /\ IsSend(s) /\ s.to = b.acct /\ s.amt = b.amt

Follows(b, p) ==
    /\ p.acct = b.acct /\ b.idx = p.idx + 1
    /\ b.prev = Hash(p)
    /\ b.root = Append(p.root, Hash(b))

\* An owner signs the genesis or the next block of a chain it holds, with the
\* balance that follows (openAccount, createSend, createReceive).
WellSigned ==
    \A b \in signed :
        /\ Len(b.root) = b.idx + 1 /\ b.root[b.idx + 1] = Hash(b)
        /\ ~IsReceive(b) => b.src = NoHash
        /\ b.idx = 0 => b.type = "open" /\ b.prev = NoHash /\ b.bal = Mint
        /\ b.idx > 0 => \E p \in signed : Follows(b, p) /\ Moves(p, b)

\* Only sends are offered.
OffersSends == \A n \in Nodes : \A s \in unclaimed[n] : IsSend(s)

\* A block beyond the end of its chain came in unplaced.
BeyondIsUnplaced ==
    \A n \in Nodes : \A y \in all[n] :
        y.idx >= Len(chain[n][y.acct]) => y.acct \in frozen[n] \/ Unplaced(n, y)

InChain(n, b) == b.idx < Len(chain[n][b.acct]) /\ chain[n][b.acct][b.idx + 1] = b

HistoryOnDisk(n, b) == \A i \in DOMAIN b.root : \E x \in disk[n] : Hash(x) = b.root[i]

\* The replay loop leaves nothing behind: what it has been through and can
\* be placed is in its chain.
ReplayPlaces ==
    \A n \in Nodes :
        /\ phase[n] # "running" => unsaved[n] = {}
        /\ phase[n] = "replaying" =>
              \A b \in disk[n] \ toReplay[n] :
                  ~Forked(b.acct) /\ HistoryOnDisk(n, b) => InChain(n, b)

LedgerInv ==
    /\ IndInv
    /\ WellSigned
    /\ OffersSends
    /\ BeyondIsUnplaced
    /\ SeenForkIsFrozen
    /\ ReplayPlaces
====
