---------------------------- MODULE NftCustody ----------------------------
(***************************************************************************)
(* NFTs on account chains: a token is minted, sent, received and burned by *)
(* blocks on the chains of its successive owners, and every node derives   *)
(* who owns it from the blocks it has, in the order in which gossip, proof *)
(* packets or the replay of its own disk bring them.                       *)
(*                                                                         *)
(* Every account signs on one device.  The rest of the ledger is in        *)
(* EngineLedger: balances, bonds, fork evidence as such and lost writes    *)
(* are left out here.  A hash is <<account, index, tag>>; it commits to    *)
(* the predecessor's hash and so to the whole chain.                       *)
(***************************************************************************)
EXTENDS Integers, FiniteSets, Sequences

CONSTANTS
    Nodes,
    Accounts,       \* numbers: the replay sorts by account id
    Home,           \* Home[a]: the device with a's key
    Follows,        \* Follows[n]: accounts whose open block n has
    Minters,        \* accounts that mint
    Burners,        \* accounts that burn
    LastIndex,      \* bound: the last index an account signs
    Tags,           \* bound: blocks signed at one height
    MaxRestarts     \* bound: restarts of each node

\* A token is named by its minter and the index of the mint.
Tokens == UNION {{<<a, i>> : i \in 1..LastIndex[a]} : a \in Minters}
Hashes == Accounts \X Nat \X Tags
NoOne  == -1

ASSUME CustodyAssumption ==
    /\ Accounts \subseteq Nat /\ IsFiniteSet(Accounts)
    /\ Minters \subseteq Accounts /\ Burners \subseteq Accounts
    /\ Home \in [Accounts -> Nodes]
    /\ Follows \in [Nodes -> SUBSET Accounts]
    /\ \A a \in Accounts : a \in Follows[Home[a]]
    /\ LastIndex \in [Accounts -> Nat]
    /\ Tags \subseteq Nat /\ 0 \in Tags
    /\ MaxRestarts \in [Nodes -> Nat]

VARIABLES
    wire,       \* blocks published: gossiped and archived by the relays
    chain,      \* chain[n][a]: held
    all,        \* allBlocks
    info,       \* nftInfo: tokens whose mint is known
    custody,    \* nftCustody: custody[n][t][a], the account's latest word
    owner,      \* nftOwner
    offered,    \* unclaimedNftTransfers, as the send blocks
    claimed,    \* claimedNftTransfers
    burned,     \* burnedNfts
    frozen,     \* keys of equivocated
    disk,       \* the engineblocks store
    toReplay,   \* persisted blocks start() has yet to replay
    restarts

tokens == <<info, custody, owner, offered, claimed, burned>>
ledger == <<chain, all, tokens, frozen>>
device == <<disk, toReplay, restarts>>
vars   == <<wire, ledger, device>>

(***************************************************************************)
(* Blocks and custody records.                                             *)
(***************************************************************************)
Hash(b) == <<b.acct, b.idx, b.tag>>

IsMint(b)    == b.type = "nft-mint"
IsSend(b)    == b.type = "nft-send"
IsReceive(b) == b.type = "nft-receive"
IsBurn(b)    == b.type = "nft-burn"

\* A mint or a receive leaves its account holding the token.
Holding(b) == IsMint(b) \/ IsReceive(b)

DoubleSpend(x, y) ==
    x.acct = y.acct /\ x.idx = y.idx /\ x.prev = y.prev /\ Hash(x) # Hash(y)

OpenBlock(a) ==
    [acct |-> a, idx |-> 0, tag |-> 0, prev |-> <<>>, type |-> "open",
     token |-> <<>>, to |-> a, src |-> <<>>]

\* An account's entry in a token's custody Map.  `left' keeps the Map's order:
\* how many accounts had no entry when this one came; the fewer, the later.
NoRecord == [idx |-> -1, holds |-> FALSE, left |-> 0]

\* recordNftCustody: an account's record only moves up its own chain.
Record(c, a, i, h) ==
    IF c[a].idx >= i THEN c
    ELSE [c EXCEPT ![a] = [idx |-> i, holds |-> h,
                           left |-> IF c[a].idx = -1 THEN Cardinality({x \in Accounts : c[x].idx = -1})
                                    ELSE c[a].left]]

Holders(c) == {a \in Accounts : c[a].holds}

\* Mutant of OwnerOf: a token nobody holds stays with the incumbent.
OwnerOf_Keeps(c, incumbent) ==
    IF incumbent \in Holders(c) \/ Holders(c) = {} THEN incumbent
    ELSE CHOOSE a \in Holders(c) : \A x \in Holders(c) : c[a].left <= c[x].left

\* recomputeNftOwner of a token that is not burned: the holder; of several
\* the incumbent, or else the one last entered.
OwnerOf(c, incumbent) ==
    IF Holders(c) = {} THEN NoOne
    ELSE IF incumbent \in Holders(c) THEN incumbent
    ELSE CHOOSE a \in Holders(c) : \A x \in Holders(c) : c[a].left <= c[x].left

Init ==
    /\ wire = {}
    /\ chain = [n \in Nodes |-> [a \in Accounts |->
                    IF a \in Follows[n] THEN <<OpenBlock(a)>> ELSE <<>>]]
    /\ all = [n \in Nodes |-> {OpenBlock(a) : a \in Follows[n]}]
    /\ info = [n \in Nodes |-> {}]
    /\ custody = [n \in Nodes |-> [t \in Tokens |-> [a \in Accounts |-> NoRecord]]]
    /\ owner = [n \in Nodes |-> [t \in Tokens |-> NoOne]]
    /\ offered = [n \in Nodes |-> {}]
    /\ claimed = [n \in Nodes |-> {}]
    /\ burned = [n \in Nodes |-> {}]
    /\ frozen = [n \in Nodes |-> {}]
    /\ disk = [n \in Nodes |-> {OpenBlock(a) : a \in Follows[n]}]
    /\ toReplay = [n \in Nodes |-> {}]
    /\ restarts = [n \in Nodes |-> 0]

(***************************************************************************)
(* The ledger of one node.                                                 *)
(***************************************************************************)
HeadOf(n, a) == chain[n][a][Len(chain[n][a])]
Running(n)  == toReplay[n] = {}

\* Mutant of ApplyCustody: the last block to arrive names the owner.
ApplyCustody_LastWins(n, b) ==
    /\ custody' = [custody EXCEPT ![n][b.token] = Record(@, b.acct, b.idx, Holding(b))]
    /\ owner' = [owner EXCEPT ![n][b.token] = IF Holding(b) THEN b.acct ELSE NoOne]

\* The custody half of applyNftMint, applyNftSend, applyNftReceive and
\* applyNftBurn.
ApplyCustody(n, b) ==
    LET old  == custody[n][b.token]
        new  == Record(old, b.acct, b.idx, Holding(b))
        gone == b.token \in burned[n]
    IN  /\ custody' = [custody EXCEPT ![n][b.token] = new]
        /\ owner' = [owner EXCEPT ![n][b.token] =
                        IF IsBurn(b) \/ (gone /\ new # old) THEN NoOne
                        ELSE IF new = old THEN @ ELSE OwnerOf(new, @)]

\* Mutant of Offer: a send that follows its receive is offered again.
Offer_Always(n, b) == IF IsSend(b) THEN {b} ELSE {}

\* A send is offered unless a receive that came first has claimed it.
Offer(n, b) == IF IsSend(b) /\ Hash(b) \notin claimed[n] THEN {b} ELSE {}

\* The effects of a block that enters its chain.
Enter(n, b) ==
    /\ chain' = [chain EXCEPT ![n][b.acct] = Append(@, b)]
    /\ all' = [all EXCEPT ![n] = @ \cup {b}]
    /\ IF b.type = "open" THEN UNCHANGED <<custody, owner>> ELSE ApplyCustody(n, b)
    /\ info' = [info EXCEPT ![n] = IF IsMint(b) THEN @ \cup {b.token} ELSE @]
    /\ claimed' = [claimed EXCEPT ![n] = IF IsReceive(b) THEN @ \cup {b.src} ELSE @]
    /\ offered' = [offered EXCEPT ![n] =
                     {s \in @ : ~(IsReceive(b) /\ Hash(s) = b.src)} \cup Offer(n, b)]
    /\ burned' = [burned EXCEPT ![n] = IF IsBurn(b) THEN @ \cup {b.token} ELSE @]
    /\ UNCHANGED frozen

\* addBlock's ownership rule of each type.
OwnershipAllows(n, b) ==
    /\ IsMint(b) => b.token \notin info[n] \cup burned[n]
    /\ IsSend(b) => owner[n][b.token] = b.acct \/ Hash(b) \in claimed[n]
    /\ IsReceive(b) => \A s \in all[n] : Hash(s) = b.src =>
                          IsSend(s) /\ s.to = b.acct /\ s.token = b.token
    /\ IsBurn(b) => owner[n][b.token] = b.acct

Extends(n, b) ==
    /\ b.acct \notin frozen[n]
    /\ b.idx = Len(chain[n][b.acct])
    /\ b.idx > 0 => b.prev = Hash(HeadOf(n, b.acct)) /\ OwnershipAllows(n, b)

Conflicts(n, b) ==
    /\ b.acct \notin frozen[n]
    /\ b.idx < Len(chain[n][b.acct])
    /\ chain[n][b.acct][b.idx + 1] # b

InChain(n, b) == b.idx < Len(chain[n][b.acct]) /\ chain[n][b.acct][b.idx + 1] = b

\* freezeEquivocator voids the account's transfers.
AfterFreeze(n, a) == {s \in offered[n] : s.acct # a}

\* flagEquivocation of a sibling, retained in any case; `stay' is what is
\* offered besides.
Retain(n, b, stay) ==
    LET fork == DoubleSpend(chain[n][b.acct][b.idx + 1], b) IN
    /\ all' = [all EXCEPT ![n] = @ \cup {b}]
    /\ frozen' = [frozen EXCEPT ![n] = IF fork THEN @ \cup {b.acct} ELSE @]
    /\ offered' = [offered EXCEPT ![n] = (IF fork THEN AfterFreeze(n, b.acct) ELSE @) \cup stay]

AddBlock(n, b) ==
    \/ Extends(n, b) /\ Enter(n, b)
    \/ /\ Conflicts(n, b)
       /\ Retain(n, b, {})
       /\ UNCHANGED <<chain, info, custody, owner, claimed, burned>>
    \/ ~Extends(n, b) /\ ~Conflicts(n, b) /\ UNCHANGED ledger

\* restoreVerifiedBlock takes a send, and the mint of a token not burned.
Reseats(n, b) == IsSend(b) \/ (IsMint(b) /\ b.token \notin burned[n])

\* A turn of start()'s loop on a block that addBlock refuses.
Restore(n, b) ==
    /\ info' = [info EXCEPT ![n] = IF IsMint(b) /\ Reseats(n, b) THEN @ \cup {b.token} ELSE @]
    /\ IF IsSend(b) /\ Reseats(n, b) THEN ApplyCustody(n, b) ELSE UNCHANGED <<custody, owner>>
    /\ IF Conflicts(n, b)
       THEN Retain(n, b, IF Reseats(n, b) THEN Offer(n, b) ELSE {})
       ELSE /\ all' = [all EXCEPT ![n] = IF Reseats(n, b) THEN @ \cup {b} ELSE @]
            /\ offered' = [offered EXCEPT ![n] = IF Reseats(n, b) THEN @ \cup Offer(n, b) ELSE @]
            /\ UNCHANGED frozen
    /\ UNCHANGED <<chain, claimed, burned>>

(***************************************************************************)
(* The owners, each on its device.                                         *)
(***************************************************************************)
Persist(n, B) == disk' = [disk EXCEPT ![n] = @ \cup B]

\* createBlock, the append of the create* operations, publishEngineBlock.
Sign(a, type, token, to, src) ==
    LET n == Home[a] IN
    \E t \in Tags :
        LET b == [acct |-> a, idx |-> Len(chain[n][a]), tag |-> t, prev |-> Hash(HeadOf(n, a)),
                  type |-> type, token |-> token, to |-> to, src |-> src] IN
        /\ b.idx <= LastIndex[a]
        /\ \A x \in wire : Hash(x) # Hash(b)
        /\ \A u \in Tags : u < t => \E x \in wire : Hash(x) = <<a, b.idx, u>>
        /\ wire' = wire \cup {b}
        /\ Enter(n, b)
        /\ Persist(n, {b})
        /\ UNCHANGED <<toReplay, restarts>>

May(a) == Running(Home[a]) /\ a \notin frozen[Home[a]] /\ chain[Home[a]][a] # <<>>

\* The token id is made of the minter, the index and the content, of which
\* one is enough here.
CreateMintNft(a) ==
    /\ a \in Minters /\ May(a)
    /\ Sign(a, "nft-mint", <<a, Len(chain[Home[a]][a])>>, a, <<>>)

\* Mutant of CreateTransferNft: any known token can be sent.
CreateTransferNft_Any(a, t, to) ==
    May(a) /\ t \in info[Home[a]] /\ Sign(a, "nft-send", t, to, <<>>)

CreateTransferNft(a, t, to) ==
    May(a) /\ owner[Home[a]][t] = a /\ Sign(a, "nft-send", t, to, <<>>)

\* autoReceiveEngine and the sweep, with no relay holding a claim back.
CreateReceiveNft(a, s) ==
    /\ May(a)
    /\ s \in offered[Home[a]] /\ s.to = a
    /\ Sign(a, "nft-receive", s.token, a, Hash(s))

CreateBurnNft(a, t) ==
    a \in Burners /\ May(a) /\ owner[Home[a]][t] = a /\ Sign(a, "nft-burn", t, a, <<>>)

(***************************************************************************)
(* Gossip, proof packets, evidence.  A relay archives what is published,   *)
(* and can prove it.                                                       *)
(***************************************************************************)

\* An incoming block is persisted first, accepted or not.
Deliver(n, b) ==
    /\ Running(n) /\ b \in wire
    /\ Persist(n, {b})
    /\ AddBlock(n, b)
    /\ UNCHANGED <<wire, toReplay, restarts>>

\* A transfer to a local account that the node has not seen.
Wanted(n, s) == IsSend(s) /\ s \in wire /\ Home[s.to] = n /\ s \notin all[n]

\* claimViaProof, first part: registerVerifiedMint.
RegisterMint(n, s, m) ==
    /\ Running(n) /\ Wanted(n, s)
    /\ IsMint(m) /\ m \in wire /\ m.token = s.token
    /\ m.token \notin info[n] \cup burned[n]
    /\ m.acct \notin frozen[n]
    /\ info' = [info EXCEPT ![n] = @ \cup {m.token}]
    /\ all' = [all EXCEPT ![n] = @ \cup {m}]
    /\ Persist(n, {m})
    /\ UNCHANGED <<wire, chain, custody, owner, offered, claimed, burned, frozen,
                   toReplay, restarts>>

\* claimViaProof, second part: registerVerifiedSend.
RegisterSend(n, s) ==
    /\ Running(n) /\ Wanted(n, s)
    /\ s.token \in info[n] \ burned[n]
    /\ s.acct \notin frozen[n]
    /\ Hash(s) \notin claimed[n]
    /\ offered' = [offered EXCEPT ![n] = @ \cup {s}]
    /\ all' = [all EXCEPT ![n] = @ \cup {s}]
    /\ Persist(n, {s})
    /\ UNCHANGED <<wire, chain, info, custody, owner, claimed, burned, frozen,
                   toReplay, restarts>>

\* Evidence of a fork, announced by a relay or a node that has both sides.
DeliverEvidence(n, x, y) ==
    /\ Running(n)
    /\ DoubleSpend(x, y) /\ x.acct \notin frozen[n]
    /\ frozen' = [frozen EXCEPT ![n] = @ \cup {x.acct}]
    /\ offered' = [offered EXCEPT ![n] = AfterFreeze(n, x.acct)]
    /\ UNCHANGED <<wire, chain, all, info, custody, owner, claimed, burned, device>>

(***************************************************************************)
(* Reload.                                                                 *)
(***************************************************************************)
Restart(n) ==
    /\ Running(n) /\ restarts[n] < MaxRestarts[n]
    /\ chain' = [chain EXCEPT ![n] = [a \in Accounts |-> <<>>]]
    /\ all' = [all EXCEPT ![n] = {}]
    /\ info' = [info EXCEPT ![n] = {}]
    /\ custody' = [custody EXCEPT ![n] = [t \in Tokens |-> [a \in Accounts |-> NoRecord]]]
    /\ owner' = [owner EXCEPT ![n] = [t \in Tokens |-> NoOne]]
    /\ offered' = [offered EXCEPT ![n] = {}]
    /\ claimed' = [claimed EXCEPT ![n] = {}]
    /\ burned' = [burned EXCEPT ![n] = {}]
    /\ frozen' = [frozen EXCEPT ![n] = {}]
    /\ toReplay' = [toReplay EXCEPT ![n] = disk[n]]
    /\ restarts' = [restarts EXCEPT ![n] = @ + 1]
    /\ UNCHANGED <<wire, disk>>

\* sortEngineBlocks: by account, then by index.
ReplaysBefore(x, y) == x.acct < y.acct \/ (x.acct = y.acct /\ x.idx < y.idx)

Replay(n, b) ==
    /\ b \in toReplay[n] /\ \A x \in toReplay[n] : ~ReplaysBefore(x, b)
    /\ toReplay' = [toReplay EXCEPT ![n] = @ \ {b}]
    /\ IF Extends(n, b) THEN Enter(n, b)
       ELSE IF b.acct \notin frozen[n] /\ InChain(n, b) THEN UNCHANGED ledger
       ELSE Restore(n, b)
    /\ UNCHANGED <<wire, disk, restarts>>

OwnerStep ==
    \E a \in Accounts :
        \/ CreateMintNft(a)
        \/ \E t \in Tokens, to \in Accounts : CreateTransferNft(a, t, to)
        \/ \E s \in offered[Home[a]] : CreateReceiveNft(a, s)
        \/ \E t \in Tokens : CreateBurnNft(a, t)

NodeStep(n) ==
    \/ \E b \in wire : Deliver(n, b)
    \/ \E s, m \in wire : RegisterMint(n, s, m)
    \/ \E s \in wire : RegisterSend(n, s)
    \/ \E x, y \in wire : DeliverEvidence(n, x, y)
    \/ Restart(n)
    \/ \E b \in toReplay[n] : Replay(n, b)

Next == OwnerStep \/ \E n \in Nodes : NodeStep(n)

Spec == Init /\ [][Next]_vars

(***************************************************************************)
(* Properties                                                              *)
(***************************************************************************)
BlockFields ==
    [acct: Accounts, idx: Nat, tag: Tags, prev: Hashes \cup {<<>>},
     type: {"open", "nft-mint", "nft-send", "nft-receive", "nft-burn"},
     token: Tokens \cup {<<>>}, to: Accounts, src: Hashes \cup {<<>>}]

Blocks == {b \in BlockFields : /\ b.type # "open" <=> b.token \in Tokens
                               /\ IsReceive(b) => b.src \in Hashes}

Sends == {b \in Blocks : IsSend(b)}

Records == [idx: Nat \cup {-1}, holds: BOOLEAN, left: Nat]

\* Types of the variables.
TypeOK ==
    /\ wire \subseteq Blocks
    /\ chain \in [Nodes -> [Accounts -> Seq(Blocks)]]
    /\ all \in [Nodes -> SUBSET Blocks]
    /\ info \in [Nodes -> SUBSET Tokens]
    /\ custody \in [Nodes -> [Tokens -> [Accounts -> Records]]]
    /\ owner \in [Nodes -> [Tokens -> Accounts \cup {NoOne}]]
    /\ offered \in [Nodes -> SUBSET Sends]
    /\ claimed \in [Nodes -> SUBSET Hashes]
    /\ burned \in [Nodes -> SUBSET Tokens]
    /\ frozen \in [Nodes -> SUBSET Accounts]
    /\ disk \in [Nodes -> SUBSET Blocks]
    /\ toReplay \in [Nodes -> SUBSET Blocks]
    /\ restarts \in [Nodes -> Nat]

BlocksOf(n, a) == {chain[n][a][i] : i \in 1..Len(chain[n][a])}
View(n) == UNION {BlocksOf(n, a) : a \in Accounts}
Forked(a) == \E x, y \in wire : x.acct = a /\ DoubleSpend(x, y)

\* What the blocks of a set tell of a token: the accounts whose own last word
\* about it leaves them holding it, none once it is burned.
LastWord(S, a, t) == {b \in S : /\ b.acct = a /\ b.token = t
                                /\ \A x \in S : x.acct = a /\ x.token = t => x.idx <= b.idx}
OwnersTold(S, t) ==
    IF \E b \in S : IsBurn(b) /\ b.token = t THEN {}
    ELSE {a \in Accounts : \E b \in LastWord(S, a, t) : Holding(b)}

\* Chains are filled from index 0, each with its own account's blocks.
ChainShape ==
    \A n \in Nodes, a \in Accounts : \A i \in 1..Len(chain[n][a]) :
        chain[n][a][i].acct = a /\ chain[n][a][i].idx = i - 1

\* An account's custody record is never behind its chain: no delivery or
\* replay order lets an older block of the account have the last word
\* (recordNftCustody).
NeverRewound ==
    \A n \in Nodes, a \in Accounts : \A i \in 1..Len(chain[n][a]) :
        LET b == chain[n][a][i] IN
        b.token \in Tokens => b.idx <= custody[n][b.token][a].idx

\* Nor does it say what no block of the account said.
WordOfABlock ==
    \A n \in Nodes, t \in Tokens, a \in Accounts :
        LET c == custody[n][t][a] IN
        IF c.idx = -1 THEN ~c.holds
        ELSE \E b \in all[n] : b.acct = a /\ b.token = t /\ b.idx = c.idx /\ Holding(b) = c.holds

\* A node names an owner exactly when some account's record holds the token
\* and no burn was applied, and then it names such an account.
OwnerHolds ==
    \A n \in Nodes, t \in Tokens :
        IF t \in burned[n] \/ Holders(custody[n][t]) = {} THEN owner[n][t] = NoOne
        ELSE owner[n][t] \in Holders(custody[n][t])

\* The records and the owner derived from them stay tied to the chains,
\* whatever order blocks, proofs and replays come in.
CustodyInv == ChainShape /\ NeverRewound /\ WordOfABlock /\ OwnerHolds

\* Ownership does not depend on that order ("well-defined and
\* order-independent", the comment on nftCustody): a node whose chains
\* have all it knows of a token, with the source of every receive, names
\* the one owner that the chains tell.
OwnerByHistory ==
    \A n \in Nodes, t \in Tokens :
        /\ Running(n) /\ frozen[n] = {}
        /\ \A b \in all[n] : b.token = t => b \in View(n)
        /\ \A b \in View(n) : b.token = t /\ IsReceive(b) => \E s \in View(n) : Hash(s) = b.src
        => {owner[n][t]} \ {NoOne} = OwnersTold(View(n), t)

\* No chain has two receives of one transfer, though addBlock does not look
\* for an earlier one: the claimed set survives any order of replay.
NoDoubleClaim ==
    \A n \in Nodes : \A x, y \in View(n) :
        IsReceive(x) /\ IsReceive(y) /\ x.src = y.src => x = y

\* While no account has forked, a token is in one place: with one account or
\* in one transfer that nobody has received.
OneOwner ==
    (\A a \in Accounts : ~Forked(a)) =>
      \A t \in Tokens :
        Cardinality(OwnersTold(wire, t)
            \cup {Hash(s) : s \in {x \in wire : IsSend(x) /\ x.token = t
                                        /\ \A r \in wire : r.src # Hash(x)}}) <= 1

\* A reload rebuilds every chain that was persisted from its open block on.
\* The comment in addBlock and nft.test.ts describe a mint refused in the
\* replay, and the chain truncated by it, as a thing of the past.
ReloadRestores ==
    [][\A n \in Nodes :
          ~Running(n) /\ Running(n)' =>
            \A b \in disk[n] :
                ~Forked(b.acct) /\ (\A i \in 0..b.idx : \E x \in disk[n] : x.acct = b.acct /\ x.idx = i)
                => InChain(n, b)']_vars
=============================================================================
