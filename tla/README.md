# NeuronChain / neuron-web: a TLA+ verification project

The repository is a browser-based network: every device runs a node (`src/src/network/node.ts`) that
keeps *account chains* (one signed chain per account, `src/src/ledger/engine-ledger.ts`), gossips
blocks over libp2p, persists them in IndexedDB and asks archive relays (`src/relay/server.ts`) for
what it missed. There is no global order: an account's owner is the only writer of its chain, a
transfer is a `send` block on one chain and a `receive` block on another, and an owner that signs
two blocks at one height is frozen by everybody who sees the pair. Around the ledger are a storage
market (files handed to providers, reads paid by receipts), an identity system (faces, attesters,
recovery shares) and the machinery that keeps a page connected.

This directory models that system, checks the models with TLC and proves with TLAPS the safety
properties of the ledger, its NFTs, its finality gadget and its storage market, and the main ones of
the components that keep content, people, resets and connections. Every definition that stands for code
names its lines in `PROJECT.json` ("map").

## 1. Inventory

| Component | State it keeps | Operations | Interacts with | What makes it correct | Modules |
|---|---|---|---|---|---|
| Account-chain ledger (`ledger/engine-ledger.ts`, `engine/core/block.ts`, `engine/consensus/fraud.ts`) | per node: chains, `allBlocks`, `unclaimedSends`, `claimedSends`, `equivocated`, bonds | open, send, receive, bond; addBlock, restoreVerifiedBlock, registerVerifiedSend; applyEvidence | called by the node driver and the wallet; emits events | money is conserved, a transfer pays once, histories never mix, only equivocators are frozen, and every equivocator seen is | `EngineLedger`, `Payments` |
| Node driver (`network/node.ts`) | local keys, timers, boot state | start (load + replay), handleIncomingEngineBlock, the claim paths, publishLocalData, submitBlock, stop | ledger, network, relay | claims race without double claims; a reload restores; a payment arrives; a running node hears its shards | `EngineLedger`, `NodeSession` |
| Network and block persistence (`network/libp2p-network.ts`) | `engineblocks` store, dedup sets, relay table | publish, receive, save, load, dial, evict | gossip topics, IndexedDB | nothing rests on delivery order, on delivery at all, or on a write having finished; nothing saved is stranded | `EngineLedger`, `GossipGate`, `RelayTable`, `NetworkReset` |
| Relay (`relay/server.ts`) | archives, height index, face database, shares, key blobs, generation | archive, proofs, pending sends, attest, store and release, wipe, backfill, save | gossip, HTTP, its peers, its disk | a claim gate answered from it never forks the claimant; a human is counted once; guesses are limited | `EngineLedger`, `Attester`, `RecoveryShares`, `KeyBlobs`, `NetworkReset`, `ArchiveBackfill`, `AtomicFile`, `WindowLimiter`, `FileIndex` |
| Wallet and pages (`main.ts`) | local accounts, their open blocks, dialogs | account creation, autoClaimPending, unlock, publish keys, replace a file, play | ledger, node, service worker | the same claims as the node's; no PIN tested while locked; an old copy undoes no change | `EngineLedger`, `PinGate`, `KeyBlobs`, `Replacement`, `StreamPlayback` |
| Committee finality (`engine/consensus/*`) | vote groups, seats, weight snapshots, bonds | applyVote, registerBlock, pruneStale, advanceEpoch, slash | ledger, node | one final block per position; a quorum behind it; only double voters slashed | `CommitteeFinality` |
| NFT custody (`engine-ledger.ts`) | `nftCustody`, `nftOwner`, unclaimed transfers, burned | mint, send, receive, burn and their replays | ledger | one owner; replays in any order converge | `NftCustody` |
| Storage economy (`read-receipts.ts`, `storage-settlement.ts`, `provider-ledger.ts`) | receipt pairs, settled baselines, leases | record, settle, sweep, validate, apply | ledger, storage manager | bytes are paid once; every peer derives the same payout | `StorageEconomy` |
| Content custody (`network/storage-manager.ts`, `engine/content/*`) | holders, requests, proofs, capacities, domains | distribute, push, audit, repair, release, replace | network, smoke store | a file keeps a copy; counted holders hold | `ContentCustody`, `Replacement`, `FailureDomains`, `Calibration`, `SaturationPlan`, `DemandWindow` |
| Browser content store and playback (`smoke-store.ts`, `stream-sw.ts`, `public/sw.js`) | blocks, markers, range requests | put, get, evict, serve, register, answer ranges | storage manager, service worker | own files intact; ranges exact | `SmokeStore`, `StreamPlayback` |
| Manifests, index, discovery (`chunking.ts`, `file-index.ts`, `provider-discovery.ts`, `dht.ts`) | manifests, records and tombstones, provider caches | chunk, announce, withdraw, look up | relays | addresses lead to their content; withdrawals stick | `Manifests`, `FileIndex`, `ProviderDiscovery`, `ChordRing` |
| Relay block stores (`content-store.ts`, `archiving-store.ts`, `fs-backend.ts`) | blocks, bytes used | put, adopt, delete, archive | disk | nothing archived is lost; the disk stays in its quota | `BlockStore` |
| Recovery shares and key blobs (`recovery-share.ts`, `recovery-challenge.ts`, `pin-crypto.ts`) | shares by generation, blobs by version, attempt counters | split, refresh, release, seal, lock | relays, pages | enough shares of one generation; no free guesses | `RecoveryShares`, `KeyBlobs`, `PinGate` |
| Identity (`core/face-store.ts`, `engine/core/sub-accounts.ts`) | slots, names, delegations | verify, open, sweep, delegate | relay | one human, its slots | `Attester`, `SubAccounts` |
| Partial replication, history proofs (`engine/node/*`, `engine/core/accumulator.ts`) | branches, subscriptions, peaks | store, prune, delta sync, prove, verify | peers | a replica is a branch that was signed; a packet proves membership | `PartialReplica`, `HistoryProofs` |
| Legacy DAG ledger (`core/dag-ledger.ts`, `core/vote.ts`) | blocks, conflicts, votes | add, vote, sweep | node after a network switch | nodes agree on winners | `DagLedger` |
| Single-tab lock (`core/tab-lock.ts`) | a localStorage entry | acquire, beat, steal, release | other tabs | one tab runs | `TabLock` |
| Committee analysis and consensus votes, relay directory and replication helpers, session helpers, face capture, cloud storage and API, simulations | | | | not modelled: see section 7 | |

Hard behaviours: gossip without order or delivery guarantee; two devices of one account; claim paths
that await a network answer between a check and a signature; reloads between a publish and its
IndexedDB write; a replay order (by account, then index) that puts receives before their sends; the
20 s sweep as the only path that must eventually deliver a payment; handlers that read shared state,
await, and write it; saves that are flushed seconds later; resets that reach a page at any step of its
start. `PROJECT.json` "hazards" lists 40 of them, each with its line and the properties that cover it.

## 2. Modules

| Module | What it is |
|---|---|
| `Payments` | the abstract payment system: open, send, claim |
| `EngineLedger` | the ledger on every node, the node driver's claim, gossip and boot paths, persistence, the relay archive; its inductive invariants |
| `CommitteeFinality` | bonds, epochs with frozen weights, sortition, votes, tallies, pruning and slashing on every node |
| `NftCustody` | tokens on account chains: minting, transfers, claims, burns and the replay, on every node |
| `StorageEconomy`, `ContentCustody`, `Replacement` | the storage market: receipts and settlements; a file among its providers; a new version of it |
| 27 small modules | one component each, see "The other components" below |
| `MCEngineLedger`, `MCFinalitySlices`, `MCNftCustody` | instances of the first three for TLC |
| `MCStorage`, `MCComponents` | instances of the others for TLC, one behaviour per component; the second instantiates the modules with proofs, and its last section carries their theorems over to the whole |
| `EngineLedgerProofs` | the ledger's theorems: claims and forks, replicas, refinement of `Payments` |
| `CommitteeFinalityProofs`, `NftCustodyProofs` | the theorems of finality and of NFTs |
| `StorageProofs` | the theorems of the storage economy and of content custody |
| `NetworkProofs` | the theorems of resets, the file index, provider departures, sessions, the tab lock, the relay table, gossip, request limits and backfill |
| `ServiceProofs` | the theorems of the attester, of delegations and of the stores: the browser's, the block archive, a file replaced, a file saved |
| `SumTheorems` | sums over finite sets, for the theorems that count money and seats |

### How EngineLedger corresponds to the code

*Blocks.* A block is a record; its content hash is injective, so a hash is `<<account, index, tag>>`
and the tag separates different blocks signed at one height. The accumulator root commits to the
whole chain, so `root` is the sequence of the hashes below and including the block. Signatures are
modelled by `signed`: only a block in it can exist anywhere. Times are left out except for the order
of events they cause (the challenge window is a timer that fires at any later moment).

*Replicas.* `chain`, `all`, `unclaimed`, `claimed`, `frozen`, `bonded` are the fields of `EngineLedger`
on each node. `Extends`, `Holds`, `Conflicts`, `Enter`, `Retain`, `Freeze` are the branches of
`addBlock`; `AddOrRestoreBlock` is the replay's `addBlock` followed by `restoreVerifiedBlock` when it
refuses. A sibling is kept in `all` whether or not the pair is evidence, as the code does.

*Users and claims.* `OpenAccount`, `RecoverAccount`, `CreateSend`, `BondStake` are what a user does.
The four claim paths are `ChallengeTimer` (autoReceiveEngine), `Sweep`, `AutoClaimPending` (the
wallet) and `ClaimViaProof`. `ownChainIsCurrent` is awaited: `RelayAnswer` is the answer, `cleared` is
an answer not used yet, and any step of any node may come between the answer and its use.
`RelayAnswers` is the set of possible outcomes of the request: `{FALSE}` when no relay ever answers
(the gate is then permissive), `{TRUE}` when one always does, both for either.

*Gossip.* `wire` holds every block published; a node may receive any of it, at any time, again, or
never. `evidence` is the conflict topic. A block whose parent is missing stays on the wire, which
stands for the orphan handling, the delta pulls and the re-broadcasts.

*Persistence.* `Publish` starts the IndexedDB write (`unsaved`), `SaveDone` completes it, `Restart`
loses memory and unfinished writes, `LoadBlocks` and `Replay` are `start()`: what gossip delivers
while the load is pending (`phase = "booting"`) is in the ledger before the replay.

*Relay.* `ArchiveBlock` archives a block, and announces a conflict only for the first sibling of a
height.

### How CommitteeFinality corresponds to the code

The module is the committee part of every `EngineLedger` (`makeCommittee`, `applyCommitteeVote`,
`advanceEpoch`) over `finality.ts`, `validators.ts`, `sortition.ts` and `weight.ts`, with the node
driver's `maybeCastCommitteeVotes` as the tail of `AddBlock`. It is separate from `EngineLedger`
because the two share no state but the blocks: the ledger confirms a block without waiting for
finality, and finality reads only a block's position. A position (`accountId:previousHash`) is a
`Group`, `adopted` the blocks that entered their chain, `held` those and the siblings kept in
`allBlocks`.

*Votes.* `AddBlock` casts, counts and publishes a vote in one step, as the synchronous code does: the
draw uses the live weights (`VoteOf`), the count those of the vote's epoch (`Weights`). `DeliverVote`
takes a vote from the wire in any order, once per node: nothing re-broadcasts votes, and one whose
block is missing is gone. `ApplyVote` has the branches of `applyCommitteeVote` in order; a group with a
`winner` refuses everything, and finalization frees its `choice` and `tally`.

*Draws.* A VRF output cannot be chosen by its owner and is the same on every node, so `Seats` is the
mean of the binomial draw plus a constant `Luck[v][e]`. `WeightOfEntry` keeps the shape of
`votingWeight` (a bond that ages to saturation) in small units.

*Epochs.* `AdvanceEpoch` credits activity, snapshots the weights, forgets old snapshots and prunes, on
each node when it likes. Epoch 0 has no snapshot, so its votes are checked against live weights.

*History variables.* `cast` and `counted` are not read by any action.

### How NftCustody corresponds to the code

The module is the NFT part of `EngineLedger` on every node. NFT blocks move no balance, and of the rest
of the ledger they depend only on chains, siblings and freezing, so these are repeated here in short
(`Extends`, `Conflicts`, `Retain`) and balances, bonds, gates and unfinished writes are left to
`EngineLedger`. Each account lives on one device.

*State.* `custody[n][t][a]` is the entry of account `a` in `nftCustody`: the index of its last block
about the token and whether that left it holding; `left` keeps the Map's insertion order, which
`recomputeNftOwner` uses when there are several holders. `owner`, `info`, `offered`, `claimed`,
`burned` are `nftOwner`, `nftInfo`, `unclaimedNftTransfers`, `claimedNftTransfers`, `burnedNfts`.

*Operations.* `Sign` is the common tail of the four `create*` operations. `OwnershipAllows` holds
addBlock's rule of each type: a mint must be new, a send comes from the owner or follows its own
receive, a receive is checked against its source when that is known, a burn comes from the owner.
`RegisterMint` and `RegisterSend` are the two halves of `claimViaProof`, with a request between them.
`Replay` takes the persisted blocks by account and index; what addBlock refuses goes to `Restore`.

### How the storage modules correspond to the code

`StorageEconomy` is one provider account with its readers, the devices that hold it and its peers.
`book` is each reader's `ReaderReceiptBook`, `wire` the envelopes gossiped, `inbound` a device's
`ReceiptLedger`, `pending` its `pendingEnvelopes`, `ledger` every node's `ProviderLedger` and chain.
Bytes are small numbers: `Credit[k]` is what the taper leaves of a reader's k-th read, `ReaderCap`,
`MinReaders`, `MinSettle` and `MaxReceipts` are the code's limits. `SettleIfDue` is `settleIfDue` with
everything it calls; a settle block is gossiped by the next `PublishLocalData`, not when it is
signed, so `ProviderReload` may come between. Nobody awaits the save that goes with the gossip
(`publishEngineBlock`): a block is `unsaved` until `SaveDone`, and a reload before that loses it on the
device that signed it. `Sign` applies a device's own block unvalidated, as
`appendStorageBlock` does; `AddBlock` is what every other way into a chain does, `Valid` the checks of a
block and `Apply` what is derived from it. `writers`, `refused` and `dropped` are history variables: the
devices that signed, the blocks that `Valid` refuses on the chain they were signed on, and the gossiped
blocks whose save a reload cut off.

`ContentCustody` is one published file: `disk` what each device stores, `requests`, `pushes`, `deletes`,
`receipts` the gossip, `confirmed` the owner's holder set with its persisted copy, `pending` the open
distribution, `proofs` and `fails` the audit and its consecutive failures. Actions are the handlers of
`storage-manager.ts` and its timers (retry, custody tick, lapse sweep, rejoin), each whole. `Budgets` says
how many losses, crashes, reloads, lapses, withdrawals and demand peaks a behaviour may have.

`Replacement` is `btnReplaceConfirm` and `replaceContent` on the owner against `handleReplaceRequest` and
`handleCacheRequest` on the holders, which interleave at their awaits.

### The other components

| Module | State and steps worth knowing |
|---|---|
| `SmokeStore` | blocks, markers and pins of one browser; reads race several peers; OPFS files exist empty until closed |
| `BlockStore` | each asynchronous call of the relay's stores is a program counter, and several are under way at once; quota against a directory adopted at start; `raced` remembers that a reading of the byte count was overtaken |
| `AtomicFile` | tmp file, flush, backup and rename over inodes; a crash at any step; saves of one file that overlap, which `crowded` and `suspect` remember |
| `FileIndex`, `ProviderDiscovery` | newest record per key at each relay; tombstones that expire; restarts between two saves, with `kept` the newest withdrawal a relay took and `forgotten` the newest one a restart lost; a client folds several relays' answers |
| `Manifests`, `StreamPlayback`, `ChordRing` | chunking and the wire form; range requests over a service worker that may stop; finger-table lookups |
| `HistoryProofs`, `PartialReplica` | Merkle peaks and packets over two branches; deltas between partial replicas and the interest routing |
| `Attester`, `SubAccounts` | visits, several of which may be of one account; provisional slots and names that expire; the await in the middle of a verification; restarts and wipes; `overtaken`, the uses that a later visit of the account overwrote; delegations presented again |
| `RecoveryShares`, `KeyBlobs`, `PinGate` | splits by time stamp over relays; a blob and its anchored directory record; dialogs that overlap, lockouts and their notices |
| `NetworkReset`, `RelayTable`, `NodeSession`, `GossipGate` | generations at relays and pages; failure counts and eviction; awaits inside start and stop; token bucket, dedup set, save and watermark |
| `ArchiveBackfill`, `WindowLimiter`, `TabLock` | in-flight slots, cooldowns and wipes as ages; two logs, one swept; heartbeats of tabs that are killed |
| `FailureDomains`, `Calibration`, `SaturationPlan`, `DemandWindow` | co-failure history and its cached closure; samples of a load ladder; the planned holder count with hysteresis; a ring of read buckets under a clock that may be set back |
| `DagLedger` | the block lattice that a network switch installs, its conflict votes and sweep |

Each module's header states its abstractions; its constants are the code's parameters and the bounds.

### How the composed instances work

The components of `MCStorage` share no modelled state with each other, nor do those of `MCComponents`.
Checking them apart is therefore the same as checking them together, and cheaper: the variable `part`
names the component a behaviour is of, the slots `v1, v2, ...` are that component's variables, and every
component is an `INSTANCE` with its own constants. A property of these modules is a conjunction of
`part = "X" => X!Property`: one guarantee the rest of the system relies on, and the parts of it that
each component owes. `MCEngineLedger` and `MCFinalitySlices` use the same form for narrower instances
("slices") of one module, which share its variables.

### Bounds

The ledger: two nodes, two accounts, a mint of 1 or 2, amounts of 1, chains of at most three blocks
(`LastIndex`), two blocks per height where forks matter (`Tags`), at most one restart
(`MaxRestarts`). That is enough for a transfer each way, two devices forking one account at two
heights, a restart between any two steps, a receive replayed before its send, and re-delivery. In
`ledger_live_relay` account 1 is on both devices, which may sign apart, so that the archive is ahead of
one of them and the gate refuses; its relay archives account 1 only and payments go to the other account
(`RelayStep`), steps that owe nothing.

NFTs: two devices, three accounts, chains long enough for one token to travel from the minter to both
others and back, the middle account the minter so that the replay order (1, 2, 3) is not the order of
history, a burner, and one reload of the minter's device. Two tags, because a chain that the reload
truncated goes on to fork.

The committee: two or three nodes, one contended position with two siblings (and, where epochs
matter, a second position), a committee of 4, at most two epoch changes per node. `WeightRetain` and
`VoteRetain` are 4 and 2 in the code and smaller here, so that pruning happens within the bound. The
draws are all on the mean, two validators lucky, or seats that move from one validator to the other. Two
validators bond late on devices that do not tell each other in the slice "bonds", and one draw deals two
quorums in "lottery".

Storage: two readers with two reads each, the second worth less (a read worth nothing, which only the
proofs cover, sends no receipt), two devices of the account and a peer, two settlement periods, one
reload. The economy is checked in three slices of these, because their product is too large: "Receipts"
(one device, three blocks, two periods, every loss, reordering and reload of a page, saves done at once),
"Writers" (both devices sign, publish and reload with saves under way, three blocks in one period, one read
of each reader, receipts handed over at once) and "Again" (one device, four blocks, no reload: a
registration in a period already settled). The theorems are about the specification without slices. Up to
three providers of a file and one or two disturbances of each kind per behaviour
(`EachEvent` lists the combinations); two holders of a replaced version. The components have the bounds
written at their instance in `MCComponents`: two or three actors, each disturbance once or twice, and
every limit of the code scaled down until it is reached.

The proved theorems hold for every value of these constants.

### Fairness

`LiveSpec` assumes weak fairness of: delivery of each published block to each running node (holders
re-broadcast everything every 20 s and answer delta pulls), the sweep (every 20 s), the relay's
answer, and the boot steps (`LoadBlocks`, `Replay`, `WalletOpen`, `SaveDone`). Users, restarts and the
relay's archiving owe nothing. `Heights` caps the fairness conjuncts at index 10, above every
`LastIndex` used.

No other module claims liveness: a vote is sent once and finality is optional in the code, an NFT is
claimed on the same timers as a payment, and what the storage manager must eventually do depends on
peers that owe nothing.

## 3. Runs

| Run | Instance | Shows |
|---|---|---|
| `ledger_core` | two single-device accounts, chains of 3, bonds of 1 and 2, re-broadcast on | the ledger implements `Payments`, conserves money and never spends stake |
| `ledger_replicas` | slice "devices": account 1 on both devices, two tags; slice "reload": a device each, the first restarts, late gossip during the load | the inductive invariant `LedgerInv`; one history below a shared block; a fork seen is frozen; sends of a frozen account stay void; no double claim; a reload restores the chains |
| `ledger_live` | no relay, one device restarts before its writes finish and may fork its account | a payment is received eventually; the honest counterparty is never frozen |
| `ledger_live_relay` | account 1 on both devices, claims gated by an archive that may be ahead of one of them, proof packets | the gate refuses at times and never blocks a payment for good |
| `finality` | slices "core", "devices", "epochs", "bonds", "lottery" | one final block per position and node, siblings on two nodes only by a double voter, by votes of several epochs, by a vote drawn where somebody bonded late or was slashed, or by a draw of two quorums; a quorum of different voters behind each, only double voters slashed, late votes verify |
| `nft_custody` | a round trip of a token through three accounts, any delivery order, proofs, a reload, the fork it leads to | the custody invariant, ownership told by history, no double claim, one owner |
| `storage` | slices Receipts, Writers, Again of the economy; part Custody | the books agree and a byte is paid once; nodes with one chain derive one payout; an account is frozen for no cause but the three that are known, and a device issues nothing a peer refuses but a period settled again; no disks that are lost take the last copy of a root; counted holders hold |
| `components` | 33 parts of 27 modules | one property per guarantee the rest relies on: stores, withdrawals, placement, addresses, people, secrets, resets, replicas, connections |
| `find_*` | see Findings | violations of a documented promise |

The eight passing runs check 39 properties, one of them (`SendsArrive`) in two runs; each of the 40 checks
has a mutant in `PROJECT.json` that breaks the property the way a bug in that code would. Four more runs
find violations. Deadlock checking is off: users may stop, and a bounded chain ends.

## 4. Findings

* `find_stale_claim`: `autoClaimPending` (`main.ts:1764`) signs receives without the own-chain gate
  that ARCHITECTURE.md:1778 promises for every claim path.
* `find_split_finality`: the committees of two epochs add up in one tally, so that two nodes finalize
  different sides of a fork without a double vote, against `finality.ts:20`. It is one of four causes of a
  split: `SplitsExplained` proves that there is no other (section 5).
* `find_nft_truncated`: account ids decide the replay order; when the burner's sorts before the minter's
  the replayed burn makes addBlock refuse the minter's own mint (`engine-ledger.ts:827`), and every
  later block of that chain with it. The comments at `engine-ledger.ts:819` and `nft.test.ts:145`
  describe that symptom as cured. The same happens to a send whose token was passed on twice and came
  to an account that sorts first (`engine-ledger.ts:836`): the send is not yet claimed when the current
  owner is already known. There a later delivery repairs the chain; after a burn nothing does.
* `find_replacement`: `replaceContent` (`node.ts:1291`) deletes every block of the old version, those the
  new version shares included, on the owner and on every holder: a public file replaced by one that
  keeps a block loses that block everywhere.

### Divergences without a run

The models reproduce these; no run is spent on them, and the properties they limit say so.

Ledger:

* after a reload `restoreVerifiedBlock` offers the sends of a frozen account again (`node.ts:745`,
  `engine-ledger.ts:985`), against the comment at `engine-ledger.ts:1074`: the exception of the replay in
  `FrozenSendsVoid`;
* a send proven by a packet, or restored by a replay, is taken in without being compared with the chain,
  so that its fork is unseen until addBlock meets it, against `engine-ledger.ts:154` ("it freezes the
  account on every node that sees it"): `Unplaced` in `SeenForkIsFrozen`;
* `createSend` and `createReceive` ignore the freeze (`engine-ledger.ts:331`), against the comment at
  `engine-ledger.ts:500`;
* a freeze taken from gossiped evidence does not survive a reload, against CUSTODY-PROOFS.md:790;
* a recipient that holds the previous owner's receive but not its send claims a token and its own node
  names the previous owner until that send arrives (`engine-ledger.ts:568`, against `:498`):
  `OwnerByHistory` is about nodes that have the source of every receive.

Finality:

* a sibling that joins the tally after the decision is never rejected (`finality.ts:146`, `:180`),
  against `finality.ts:20`, and a double vote completed then leaves no evidence, against `finality.ts:21`;
* after a bond within an epoch a vote drawn with live weights (`node.ts:525`) fails the check against the
  snapshot on the node that cast it, against `finality.ts:54`: `LateVotesVerify` is about nodes without
  late bonds;
* `bondStake` (`engine-ledger.ts:1095`) is one node's own and never gossiped: nodes that know different late
  validators can each see a quorum for one side of a fork in one epoch, with no double voter and no draw above
  the mean. The slice "bonds" reaches it, and it is the third cause in `SplitsAreExplained`.

Storage:

* a settlement refused by peers can be signed and gossiped, against `engine-ledger.ts:658`: a second
  registration rebuilds the profile without `lastSettledPeriod` (`provider-ledger.ts:529`), so that the
  trigger settles the period again. The slice "Again" reaches it, and `IssuedBlocksAccepted` excepts exactly
  that block (`SettlesAgain`);
* `settleIfDue` (`storage-manager.ts:387`) does not ask whether this device serves: an account that is
  held by two devices forks its own chain; and the save of a gossiped block is not awaited
  (`libp2p-network.ts:1303`), so that a reload makes one device fork it. The slice "Writers" reaches both;
  they are causes in `FreezesHaveCauses`, with blocks that peers refuse;
* envelopes beyond `MAX_RECEIPTS_PER_SETTLEMENT` are dropped, though `storage-manager.ts:473` says the rest
  roll over; `inboundReceipts.settle()` is never called, so the trigger counts what was paid already;
* a provider is counted, and the owner's copy released, on a receipt and an answer about the root alone,
  though a push sends its receipt when the root arrives and before the chunks (`storage-manager.ts:1648`
  says a holder of the root completed the transfer; `:650`); a hand-off whose answer is lost can stay unfinished (`storage-manager.ts:1498`); evictions are not
  persisted (`:2140`); `reclaimLapsedLeases` (`:1055`) plans without the released flag.

Identity, recovery, resets:

* two accounts can take one name or one nullifier while a verification awaits the face database
  (`server.ts`, the verify handler); an open block archived after the sweep has lost its slot; a restart
  loses provisional uses;
* a second verification of one account takes a second slot and overwrites the entry that would have returned
  the first (`server.ts:1786`, `:1815`), against the comment at `server.ts:295`: one slot is burnt for each
  visit in `overtaken`, the exception of `NoSlotBurnt`;
* two sessions that refresh at once can leave no pair of shares of one generation, against
  `recovery-share.ts:244`; a share is acknowledged five seconds before it is on disk;
* a second device republishes the record of an old anchor every 20 s (`node.ts:925`);
* the start of a page hears of a reset before it listens to it (`libp2p-network.ts:675`, `node.ts:712`);
* peers ignore a later lockout when it has a lower attempt count, which a right PIN restarts
  (`libp2p-network.ts:1211`), and attempts of two dialogs at once count as one (`pin-crypto.ts:132`).

Network, stores and the rest:

* two saves of one file at the relay share a temporary file (`server.ts:193`, against the comment above it):
  what the first of them to finish puts in place may be torn or older. The run has two savers;
  `CrashReadsASave` excepts a file put in place by a save that another one overlapped, until a save that ran
  alone has finished;
* a withdrawal that a relay took after its last `saveFiles` (every five seconds, `server.ts:752`) is gone when
  it restarts, and the older announcement stands again, against `server.ts:778`: `forgotten` in
  `NoStaleRevival`, until the relay takes the withdrawal again;
* an empty answer of all relays makes a client forget its providers (`node.ts:1101`); a device that was
  offline counts its own outage against its relays (`node.ts:1336`); a relay evicted after three
  failures (`libp2p-network.ts:343`) comes back with the next gossip; the resync watermark can pass a block not yet saved
  (`node.ts:875`);
* a read races several peers and writes what each of them sends as it arrives, before anything hashes it
  (`smoke-store.ts:639`): a peer that is late can put a torn copy in place of a block that the device uploaded
  meanwhile. `OwnFilesIntact` is about files for whose blocks no torn copy was delivered (`Unharmed`);
* the comment at `smoke-store.ts:622` says that peers which lose the race never reach the assignment of
  `servedBy`; every peer whose bytes arrive reaches it, so the one credited is one that delivered
  (`CreditDelivered`), not always the one whose bytes were returned;
* the archive loses a block that its quota refuses, against `archiving-store.ts:13`; `bytesUsed` is read before an
  awaited put (`content-store.ts:73`), so that concurrent puts and releases are lost from the count and the
  quota can be exceeded: `raced` in `DiskWithinQuota`;
* the legacy ledger does not always roll a loser back, against `vote.ts:12`; an irregular manifest changes its address on
  the wire; a saturation plan may release a holder it then misses (`device-capacity.ts:203`); a stopped
  service worker loses its registry (`sw.js:6`).

## 5. Proofs

All theorems are of the unbounded specifications: any nodes, accounts, devices, amounts, tags, heights,
draws, epochs and orders of delivery. The assumptions on the constants are those their modules declare:
they give types, and finitely many accounts where custody Maps are ordered. A theorem that needs more
says so in its statement.

### The ledger

`TypeCorrect` (`[]TypeOK`) goes action by action over lemmas for each ledger operator.

`IndInvariant` (`[]IndInv`) is the induction behind claims and forks. None of the
safety properties is inductive alone: that a chain holds two receives of one send is excluded only
because the first put its source into `claimedSends`, what is claimed is not offered
(`ClaimsRecorded`), and a *signed* block vouches for the whole chain it was signed on, on whatever node
it is replayed (`Linked`, `RootsKnown`, `SingleUse`). Every step has one of four shapes as far as those
variables go: an owner signs, a signed block enters a chain, sends are offered, a node forgets
(`StepHasShape`); the parts about chains and claims are proved shape by shape, `OnlySigned`,
`KeysOnDevices` and `FrozenSound` action by action. Without further induction follow `DoubleClaimFree`,
`HistoryAgreed` and `HonestSafe`.

`LedgerInvariant` (`[]LedgerInv`) adds what replicas make of signed blocks:
`WellSigned` (what an owner signs follows its predecessor with the right balance), `BeyondIsUnplaced` (a
block that a node holds outside its chains is the side of a fork it froze, or came in without
comparison, `Unplaced`) and `ReplayPlaces` (what the replay has been through is placed, or cannot be).
It is checked by `ledger_replicas` before it is proved. From it:

* `SeenForkFrozen`: a node that holds both sides of a fork has frozen the account;
* `FrozenStayVoid` (an action property): what a frozen account sent is offered again only by its signer
  or by the replay;
* `ReloadRestored` (an action property): when the replay ends, every block of an unforked account whose
  predecessors are all on the disk is in its chain. The replay is in order of height within an account,
  and `ReplayPlaces` says that no lower block of the chain is still to come;
* `BondsBacked`: on the only device of an account that never restarted, stake never exceeds the balance.

`Refinement` proves that the ledger implements `Payments` under
`OneSteadyDevice`: every account has at most one device, and that one does not restart. A second device
or a restarted one may sign on a stale chain, and the refinement is false then, so the hypothesis is the
exact condition the code depends on, not a convenience. The mapping depends only on `signed`; each of the
shapes is an opening, a send, a claim or a stutter of `Payments`. The claim is the hard case: an offered
send must still be in flight, which needs that no *signed* receive, wherever it is, uses it
(`OfferIsInFlight`). `Conservation` follows through `Payments`, for finitely many accounts: balances and
transfers in flight add up to one mint per account.

### Sums

Money and seats are sums over finite sets, which the community modules define by a recursion that takes
the elements in an arbitrary order. The library's induction theorems take a predicate as an operator
parameter, which the provers cannot instantiate; `SumTheorems` states induction for *sets* instead
(`NatSetInduction`, `FiniteSetInduction`: a set of finite sets that has the empty one and is closed under
adding an element has all), and derives from it that the order does not matter and how a sum changes
when an element is added, removed or changed, when the set is split, or mapped one to one.

### Committee finality

`VerdictInv` (a final block is its group's winner, a rejected one a sibling of it; a recorded choice is a
vote that was cast; a slashed validator voted twice) gives `OneFinal` and `SlashedVotedTwice`. That no
second block of a group becomes final rests on the winner surviving every epoch change, that is on
`pruneStale` sparing decided groups. `OneDeviceSafe` adds that a device adopts one block per position
and votes for it alone.

`FinalityInvariant` (`[]FinalityInv`, for finitely many voters) adds `CountInv`: the tally of every open
block is exactly the seats of the votes the node counted for it, the voters of these differ, and a final
block keeps a quorum of them. `QuorumStands` (`QuorumBehindFinal`) is its consequence.

`SplitsExplained` (`[]SplitsAreExplained`) is the agreement argument, of keys, bonds, draws and epochs as
they may be: when two nodes finalize siblings, a voter voted for both (a validator on two devices), or the
votes are of several epochs (`find_split_finality`), or one of them was drawn from a registry that
somebody had bonded in late or been slashed in (`BooksMoved`: bonds are each node's own), or the draw of the
epoch dealt two quorums (sortition is a lottery whose mean is the committee size). The proof takes the four
away: votes of one epoch, drawn from the books everybody has, by different voters, are seats of one draw, and
two quorums of them do not fit in it. It needs finitely many voters and nothing else.

`LateVotes` proves that a vote of a closed epoch verifies on every node that keeps its snapshot.

### NFTs

`CustodySound` (`[]CustodyInv`) is the custody induction: `NeverRewound` (an account's record is at or
past every block of its chain about the token), `WordOfABlock` (it says what a block the node has said),
`OwnerHolds` (an owner is named exactly when a record holds the token and no burn was applied). It needs
`ChainShape`, because a record that moves up by index follows the chain only when the chain has its own
account's blocks in order.

`HistorySound` is the induction over the history of all accounts. A *line* is a set of
published blocks with at most one block at each height of an account and the predecessor of each of its
blocks: a chain of a node is one, and the whole wire is one as long as nobody forks. `LinesSound` says of
*every* line that has the sources of its receives that a token has at most one tip (its last holder, or a
transfer nobody received) and was minted in it. Quantifying over all lines is what makes it inductive: a
device extends its own chain, and with it every line the new block can be in. From it
`NftClaimedOnce` (`NoDoubleClaim`), `NftOwnedOnce` (`OneOwner`) and `NftOwnerByHistory` (`OwnerByHistory`).

### The storage economy

`EconomySound` (`[]EconomyInv`) needs nothing but the types of the constants: any number of devices,
credits, caps, periods and reloads. The induction (`BooksAgree`) follows a receipt from the read to the
block: wherever it is, on the wire, in an inbox, in the queue of envelopes, in a gossiped block or in a
chain, it claims no more than its reader attested. Each ledger is what applying its chain to an empty one
gives (`LedgersDerived`), whether its blocks came validated, replayed or as they were signed; the steps of
that recursive function are derived once (`DerivedAppend`, `ReplayedIsSound`) by induction over sets of
numbers. The payment itself is `CreditIsMoved`: what a settlement may mint is at most what it raises the
baselines by, reader by reader, although the payment counts the *first* envelope of a reader and the
baseline moves to the *greatest*. `PaidOnce` (`PaidIsAttested`) and `LedgersAgree`
(`SameChainSameBaselines`) are its consequences.

`AccountFreezesForCause` (`FreezesHaveCauses`) and `IssuedStorageBlocksValid` (`IssuedBlocksAccepted`) need
no more: any number of devices, with reloads between every two steps. The invariant (`ChainInv`) has two
halves. `BlocksInOrder` holds of any devices: whatever was gossiped or is in a device's own chain was
signed on the chain it names, so that whoever derives that chain and extends it with the block finds it
valid, unless it is the second settlement of a period on a profile that a registration rebuilt.
`AccountUndivided` holds while none of the causes has occurred, of the one device that signed:
no two blocks it may build on or meet again follow the same block, what is gossiped is on its disk or
about to be, and nothing gossiped extends its own chain. The last of these is what a reload could break:
`ReplayFinds` proves that the replay in order of height finds the whole path of the saved blocks, so what
the device signs next follows a block that nothing else follows. The trigger reads `shown` of the profile
and the validity rule `lastPeriod`; `ShownRight` is what makes them agree.

### Content custody

`ContentTypeCorrect` and `CustodyKept` (`[]InCustodyInv`) hold for any providers, devices, blocks, targets
and events. A device is `Backed` when it has the root or lost it with its whole disk: until the file is
withdrawn nothing else takes a root from a provider. The induction follows the root from the transfer to
the release. A transfer that has not failed has the root or fetches it next (`TransfersBacked`; the root
is the first block of a request), so that receipts come from backed devices (`ReceiptsBacked`) and the
owner's books, in memory and on disk, name backed devices (`BooksBacked`); and before the owner asks for
proofs, and from then on, `MinReplicas` devices are backed or the owner has its copy (`EnoughBacked`: the
books count accounts, and the proofs are asked of accounts on different devices). `CountedAreBacked`
(`CountedHoldersHold`) follows. `RootIsNeverLost` (`RootNeverLost`) assumes `FewLosses`: fewer disks are
lost than there are replicas. With as many, the replicas can be the ones lost.

All this is about the root, the block the code counts. That every *chunk* has a copy is false: see the
divergences under Storage.

### The network

`ResetSound` (`[]ResetInv`): a generation that anybody is in was signed by an operator, and an account in
the wallet of a browser that learnt of every reset while its page listened is not older than its
generation, in each phase of a start and a reload. From it `OperatorsReset` and `ResetClears`, for any
relays, browsers and accounts, with a natural number of operators and of generations.

`WithdrawalsCovered` (`[]WithdrawalInv`): a relay that took a withdrawal inside its retention, and did not
lose it at a restart (`forgotten`), has a record at least as new in memory, since records are replaced by
newer ones only and only expired withdrawals are dropped. `WithdrawalsNotRevived` follows, for any retention, at
least one announcement per record, and times that are natural numbers. `DeparturesSettle` needs no
assumption: the blocks a relay has of a provider's chain were signed by that provider
(`SignedOnly`), so a departure that ends the chain is the newest of every union of answers.

Sessions and connections, each with an invariant of its own:

* `ShardsKept`: a network that is up is subscribed to what was accumulated, which has the shards of the
  accounts and of the senders asked for. No assumption.
* `RunsInOneTab`: a running tab owns the entry, and its heartbeat keeps the entry younger than the age at
  which another tab takes it (`Owning`), as long as no clock jump, frozen tab or race of two starts
  excuses it. Any heartbeat and any positive stale age.
* `EvictedInARow`: table and database count no more than the failures in a row, and an open page has in
  its table what is in the database (`TablesMirrored`); without the second a reload would be a second
  account of the same failures.
* `BurstsBounded`: tokens left and messages let in at one moment add up to no more than the capacity.
* `BlocksNotStranded`: a block in the dedup set that the ledger has not taken is being written, so that
  forgetting it, losing its place in the set or a resync that passes it strand nothing. No assumption
  on the size of the set.
* `SweepsDecideNothing`: the swept log and the one nobody sweeps have the same running window of every
  address.
* `AsksBounded`: the bookkeeping of a key has as many attempts as the key was asked in its memory
  (`KeptAsks`), the minute window covers the last minute, and each fetch under way has its slot
  (`FetchesInFlight`). The last needs that a fetch ends before its slot expires. A fetch asks the peers one after
  the other for five seconds each and a slot lasts 15: with three relays to ask it may not end in time,
  so the bound on fetches under way is one for at most two peers (`BackfillConstants`).

### People

`AttesterSound` (`[]AttesterInv`): a human's slots in memory are at least its visits that are being
verified or whose use was not given back (`Holding`), and those on disk at least the same without the ones
being verified; until the relay restarts the slots in memory are no more than these. An account may be verified any
number of times, and what it has beside its last visit is in `overtaken` (`Settles`). `FacesHoldSlots` and `FacesBurnNoSlot` follow, for finitely
many accounts and any limit per face. `SubAccountsSound` (`[]SubInv`): the registry keeps signed delegations between keys
of one human, one per child, without chains; `DelegationDepthIsOne` and `DelegationHidesNoHuman`
follow, and that a cleaned name reads back as it was written, from what the regular expression accepts
(no empty name).

### The stores

What a store promises is broken, if at all, between two awaits of one call and by another call in
between. Each invariant therefore speaks of what a suspended call carries.

* `ReplacedInFull` (`[]CountedHoldTheNew`, from `SwapInv`): what a handler of a holder has not fetched of the
  new version is in what it has left to do, a receipt goes out with the last fetch, and no
  deletion names a block the new version has too. No assumption: any holders, and any two versions, which may share blocks.
* `SavesAreAtomic` (`[]CrashReadsASave`): the file under the name is, whole, what the last save that finished
  wrote, unless another save overlapped that one (`suspect`). Any number of savers: the induction follows
  the inode of a save that runs alone from its opening to its rename, whatever overlapping saves before it
  left in the temporary file and the target.
* `DiskKeepsQuota` (`[]DiskWithinQuota`): with any number of calls at once, until one of them reads or lowers the
  byte count while another holds a reading of it (`raced`), the count is exact but for what the calls under way
  have done and not yet counted. After that the quota can be exceeded (`content-store.ts:73`), until the store is
  opened again.
* `ArchiveLosesNothing` (`[]NothingLost`) allows any number of calls at once: every body is in memory, archived
  and on the disk, or in a call that has yet to write it (`Everywhere`); no block is archived by two
  calls; the count is never *above* what is on the disk (`Undercounted`), so that an archive in which the whole
  chain and the other content fit (`ArchiveConstants`) refuses nothing. One that does not fit loses blocks,
  see the divergences.
* `OwnFilesStay` (`[](OwnFilesIntact /\ CreditDelivered)`): the bytes a read has in hand were delivered
  (`ReadsDelivered`), what is cached stays on record, and a deletion of another root, of a group or of the
  cache takes no block of a file that shares none with them and was never cached (`OthersApart`). The proof
  showed that these conditions are not enough: a read under way when the file is uploaded can
  overwrite it with what a peer sends. `Unharmed` is the condition that was missing, and the run has peers
  with torn copies of the content blocks since.

### The composition

A step of `MCComponents` is a step of the part that runs, under the names of that part's variables
(`PartStep`, `NodeMoves`, `StoresMoves`). The inductive invariants proved for every value of the constants
therefore hold of the parts with the constants of the run, whose assumptions are proved there and not
checked (`PeopleConstants`, `NodeConstants`, `StoresConstants`). `ResetsComplete`, `WithdrawalsHold`,
`PeopleCounted`, `NodeConnected` and `StoresKept` state the run's own
properties this way. What they add to the run is that they hold at any depth; the general statements
are the theorems above.

### Model-checked only

* Liveness (`SendsArrive`): out of the prover's reach, with the fairness and ENABLED it needs.
* `ComponentsTypeOK`: the types of the components without a theorem, and of those whose invariants need only some of them.
* `SecretsAreKept`: that a session leaves two shares of one generation holds within the run's budgets of
  failures only, see the divergences; the limit on guesses is about a relay between two crashes, since a crash
  forgets the guesses of the last five seconds (`server.ts:585`), in the code as in the model.
* `PlacementIsSound`, `AddressesResolve`: what a union-find, a sort, a greedy plan, a chunking or an
  accumulator of peaks computes is a fold or a recursion over data, and the induction over it takes an
  operator as a parameter.
* `ReplicasAgree`: the legacy ledger's votes are weighed over the conflicts of a bounded number of
  siblings.
* That the mutants break the properties, and the findings.

## 6. How to read the theorems against the runs

Of the 39 properties that the passing runs check, 32 are stated by a theorem that names the same definition:
all those of the ledger but its liveness, of finality but one, of NFTs and of storage, and those of people,
resets, withdrawals, connections and stores. `EverySplitExplained` is `SplitsAreExplained` with the books and
draws of each slice, and `SplitsExplained` proves that of every one of them; the other six are in the list above.
A run tells that the definition is not vacuous on a small instance and that its mutant breaks it; the
theorem that the bounds of the run hide nothing.

## 7. Not modelled

Committee analysis (`betas`), the consensus vote path and its rate limit, slashing helpers and VRF
cryptography; `replication.ts` and `relay-directory.ts` (only tests use them); session helpers, face capture
and matching (numerical), key derivation and ciphers, S3 and API adapters, proxies, simulations and
end-to-end drivers; most of the user interface in `main.ts`; libp2p's connections and transports; `update`
blocks (profile metadata: they change no balance, claim or freeze); in the committee unbonding. Snapshots
of a node (`node.ts:997`) are left out because `JSON.stringify` throws on the bigint balances, so that none
is ever written. No production caller bonds stake or advances the epoch at this commit; both are
modelled as operations of the ledger.

## 8. Plan

Done: the ledger with its node driver, committee finality, NFTs, the storage market, the other
components, and the theorems above. Left:

1. The types of the components whose theorems do not need them, for `ComponentsTypeOK`.
2. Shares and key blobs, for `SecretsAreKept`, within a budget of failures.
3. Snapshots of a node, once the code writes them.
