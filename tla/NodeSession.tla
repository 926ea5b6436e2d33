----------------------------- MODULE NodeSession -----------------------------
(***************************************************************************)
(* One page's node through its starts and stops: what it is subscribed to, *)
(* whose inboxes it hears, and which of its blocks reach the wire and the  *)
(* disk.  network/node.ts start, stop, wireEvents, addLocalKey and the     *)
(* inbox watch, over the topics of network/libp2p-network.ts, driven by    *)
(* startNode, the Stop button and the watchdog of main.ts.                 *)
(*                                                                         *)
(* node.start() awaits between bringing the network up, wiring the events  *)
(* and setting its status, and node.stop() between taking the network down *)
(* and clearing what the session kept; other handlers run in between.  A   *)
(* libp2p instance is new at every start and has only the topics it was    *)
(* subscribed to since.                                                    *)
(***************************************************************************)
EXTENDS Naturals, FiniteSets

CONSTANTS
    Accounts,       \* the accounts of the wallet
    Sends,          \* sends of other devices
    To,             \* Sends -> the local account each one is addressed to
    From,           \* Sends -> the shard of its sender
    ShardOf,        \* Accounts -> shard
    Blocks,         \* bound: the blocks this device submits
    MaxStarts,      \* bound on node.start()
    MaxLoads        \* bound on page loads

VARIABLES
    phase,          \* where the session is, see above
    localKeys,      \* NeuronNode.localKeys
    nodeWatched,    \* NeuronNode.watchedInboxes
    netWatched,     \* Libp2pNetwork.watchedInboxes
    callbacks,      \* the accounts with an 'inbox:signal' listener
    inboxSubs,      \* inbox topics of the live libp2p instance
    shards,         \* Libp2pNetwork.subscribedEngineShards
    shardSubs,      \* engine topics of the live libp2p instance
    processed,      \* processedInbox
    signal,         \* Sends -> "unsent", "flying" or "gone": the one-shot signal
    claiming,       \* sends whose proof packet is being fetched
    asked,          \* sends whose sender's chain was asked for
    mem,            \* what the in-memory ledger holds: sends and own blocks
    wire,           \* own blocks that were gossiped
    saving, disk,   \* 'engineblocks' rows being written, and written
    starts, loads

inboxVars == <<nodeWatched, netWatched, callbacks, inboxSubs>>
shardVars == <<shards, shardSubs>>
claimVars == <<processed, signal, claiming, asked>>
blockVars == <<mem, wire, saving, disk>>
sessionVars == <<phase, localKeys, inboxVars, shardVars, claimVars, blockVars, starts, loads>>

NetUp  == phase \in {"starting", "loading", "running"}    \* net.running
Status == IF phase \in {"running", "stopping"} THEN "running" ELSE "stopped"

SessionInit ==
    /\ phase = "stopped" /\ localKeys = {}
    /\ nodeWatched = {} /\ netWatched = {} /\ callbacks = {} /\ inboxSubs = {}
    /\ shards = {} /\ shardSubs = {}
    /\ processed = {} /\ signal = [s \in Sends |-> "unsent"] /\ claiming = {} /\ asked = {}
    /\ mem = {} /\ wire = {} /\ saving = {} /\ disk = {}
    /\ starts = 0 /\ loads = 0

-----------------------------------------------------------------------------
\* startInboxWatch of each account, down to net.watchInbox.
Watch(S) ==
    LET fresh == (S \ nodeWatched) \ netWatched IN
    /\ nodeWatched' = nodeWatched \cup S
    /\ netWatched'  = netWatched \cup S
    /\ callbacks'   = callbacks \cup fresh
    /\ inboxSubs'   = IF NetUp THEN inboxSubs \cup fresh ELSE inboxSubs

\* subscribeEngineShard of each shard.
Subscribe(S) ==
    /\ shards' = shards \cup S
    /\ shardSubs' = IF NetUp THEN shardSubs \cup (S \ shards) ELSE shardSubs

\* publishEngineBlock: gossiped, then written without waiting.
PublishEngineBlocks(S) ==
    IF NetUp THEN wire' = wire \cup (S \cap Blocks) /\ saving' = saving \cup (S \ disk)
             ELSE UNCHANGED <<wire, saving>>

-----------------------------------------------------------------------------
\* node.start(): a new libp2p instance, subscribed to the accumulated shards.
NetStart ==
    /\ phase = "stopped" /\ starts < MaxStarts
    /\ phase' = "starting" /\ starts' = starts + 1
    /\ inboxSubs' = {} /\ shardSubs' = shards
    /\ UNCHANGED <<localKeys, nodeWatched, netWatched, callbacks, shards, claimVars, blockVars, loads>>

WireEvents ==
    /\ phase = "starting" /\ phase' = "loading"
    /\ Watch(localKeys) /\ Subscribe({ShardOf[a] : a \in localKeys})
    /\ UNCHANGED <<localKeys, claimVars, blockVars, starts, loads>>

\* The replay of the persisted blocks, and the end of start().
Running ==
    /\ phase = "loading" /\ phase' = "running"
    /\ mem' = mem \cup disk
    /\ UNCHANGED <<localKeys, inboxVars, shardVars, claimVars, wire, saving, disk, starts, loads>>

\* addLocalKey: registerLocalKeys after start(), and the end of a creation or
\* a recovery, which may have begun in an earlier phase.
AddLocalKey(a) ==
    /\ localKeys' = localKeys \cup {a}
    /\ Subscribe({ShardOf[a]})
    /\ IF Status # "stopped" THEN Watch({a}) ELSE UNCHANGED inboxVars
    /\ UNCHANGED <<phase, claimVars, blockVars, starts, loads>>

\* node.stop(): the network first ...
StopNet ==
    /\ phase = "running" /\ phase' = "stopping"
    /\ inboxSubs' = {} /\ shardSubs' = {}
    /\ UNCHANGED <<localKeys, nodeWatched, netWatched, callbacks, shards, claimVars, blockVars, starts, loads>>

\* ... then its listeners and the node's own sets.
StopNode ==
    /\ phase = "stopping" /\ phase' = "stopped"
    /\ callbacks' = {} /\ nodeWatched' = {} /\ processed' = {}
    /\ UNCHANGED <<localKeys, netWatched, inboxSubs, shardVars, signal, claiming, asked,
                   blockVars, starts, loads>>

\* The page is closed or reloaded: only the disk stays.
Load ==
    /\ loads < MaxLoads /\ loads' = loads + 1
    /\ phase' = "stopped" /\ localKeys' = {}
    /\ nodeWatched' = {} /\ netWatched' = {} /\ callbacks' = {} /\ inboxSubs' = {}
    /\ shards' = {} /\ shardSubs' = {} /\ processed' = {} /\ claiming' = {} /\ asked' = {}
    /\ mem' = {} /\ saving' = {}
    /\ UNCHANGED <<signal, wire, disk, starts>>

-----------------------------------------------------------------------------
\* Someone sends: the block is in the archives and the signal is published once.
Send(s) ==
    /\ signal[s] = "unsent" /\ signal' = [signal EXCEPT ![s] = "flying"]
    /\ UNCHANGED <<phase, localKeys, inboxVars, shardVars, processed, claiming, asked, blockVars, starts, loads>>
SignalLost(s) ==
    /\ signal[s] = "flying" /\ signal' = [signal EXCEPT ![s] = "gone"]
    /\ UNCHANGED <<phase, localKeys, inboxVars, shardVars, processed, claiming, asked, blockVars, starts, loads>>

\* The listener of its account takes the signal; the others' fail its check.
SignalArrives(s) ==
    /\ signal[s] = "flying" /\ signal' = [signal EXCEPT ![s] = "gone"]
    /\ To[s] \in inboxSubs \cap callbacks /\ s \notin processed
    /\ processed' = processed \cup {s}
    /\ claiming' = IF s \in mem THEN claiming ELSE claiming \cup {s}
    /\ UNCHANGED <<phase, localKeys, inboxVars, shardVars, asked, blockVars, starts, loads>>

\* checkPendingInbound, each minute and after start and addLocalKey.
CheckPendingInbound(a) ==
    /\ Status # "stopped" /\ a \in localKeys
    /\ claiming' = claiming \cup {s \in Sends : To[s] = a /\ signal[s] # "unsent" /\ s \notin mem}
    /\ UNCHANGED <<phase, localKeys, inboxVars, shardVars, processed, signal, asked, blockVars, starts, loads>>

\* claimViaProof: the proven send is registered, written, and its shard
\* watched; or no relay serves a packet and the chain is asked for.
ClaimViaProof(s) ==
    /\ s \in claiming /\ claiming' = claiming \ {s}
    /\ mem' = mem \cup {s} /\ saving' = saving \cup ({s} \ disk)
    /\ Subscribe({From[s]})
    /\ UNCHANGED <<phase, localKeys, inboxVars, processed, signal, asked, wire, disk, starts, loads>>
EngineResyncAccount(s) ==
    /\ s \in claiming /\ claiming' = claiming \ {s}
    /\ Subscribe({From[s]})
    /\ asked' = IF NetUp THEN asked \cup {s} ELSE asked
    /\ UNCHANGED <<phase, localKeys, inboxVars, processed, signal, blockVars, starts, loads>>

\* A holder serves the delta on the shard's topic: written, then applied.
DeltaArrives(s) ==
    /\ s \in asked /\ asked' = asked \ {s}
    /\ NetUp /\ From[s] \in shardSubs
    /\ mem' = mem \cup {s} /\ disk' = disk \cup {s} /\ saving' = saving \ {s}
    /\ UNCHANGED <<phase, localKeys, inboxVars, shardVars, processed, signal, claiming, wire, starts, loads>>

-----------------------------------------------------------------------------
\* submitBlock of a new own block, the next of its chain.
SubmitBlock(b) ==
    /\ b \notin mem \cup wire /\ phase = "running"
    /\ mem' = mem \cup {b} /\ PublishEngineBlocks({b})
    /\ UNCHANGED <<phase, localKeys, inboxVars, shardVars, claimVars, disk, starts, loads>>

\* publishLocalData: every block the ledger holds.
PublishLocalData ==
    /\ phase = "running" /\ PublishEngineBlocks(mem)
    /\ UNCHANGED <<phase, localKeys, inboxVars, shardVars, claimVars, mem, disk, starts, loads>>

SaveEngineBlock(x) ==
    /\ x \in saving /\ saving' = saving \ {x} /\ disk' = disk \cup {x}
    /\ UNCHANGED <<phase, localKeys, inboxVars, shardVars, claimVars, mem, wire, starts, loads>>

SessionNext ==
    \/ NetStart \/ WireEvents \/ Running \/ StopNet \/ StopNode \/ Load \/ PublishLocalData
    \/ \E a \in Accounts : AddLocalKey(a) \/ CheckPendingInbound(a)
    \/ \E s \in Sends : \/ Send(s) \/ SignalLost(s) \/ SignalArrives(s)
                        \/ ClaimViaProof(s) \/ EngineResyncAccount(s) \/ DeltaArrives(s)
    \/ \E b \in Blocks : SubmitBlock(b)
    \/ \E x \in Sends \cup Blocks : SaveEngineBlock(x)

SessionSpec == SessionInit /\ [][SessionNext]_sessionVars

-----------------------------------------------------------------------------
SessionTypeOK ==
    /\ phase \in {"stopped", "starting", "loading", "running", "stopping"}
    /\ localKeys \cup nodeWatched \cup netWatched \cup callbacks \cup inboxSubs \subseteq Accounts
    /\ signal \in [Sends -> {"unsent", "flying", "gone"}]
    /\ processed \cup claiming \cup asked \subseteq Sends
    /\ mem \cup saving \cup disk \subseteq Sends \cup Blocks /\ wire \subseteq Blocks

\* Through stops, restarts and keys added at any moment, a node that is up
\* hears the shard of every account it holds, and of every sender whose chain
\* it asked for or whose fraud evidence it watches for.
ShardsHeld ==
    NetUp => /\ shardSubs = shards
             /\ phase # "starting" => \A a \in localKeys : ShardOf[a] \in shardSubs
             /\ \A s \in asked : From[s] \in shardSubs

\* A running node hears the inbox of every account it holds: fails after a
\* stop and a start in one page.
InboxHeard == phase = "running" => localKeys \subseteq inboxSubs \cap callbacks

\* A block the network has seen is one its author still has: fails when the
\* page goes between the gossip and the write.
GossipedIsKept == phase = "running" => wire \subseteq mem
=============================================================================
