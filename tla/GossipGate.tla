------------------------------- MODULE GossipGate -------------------------------
(***************************************************************************)
(* The way of an engine block into a device: libp2p-network.ts              *)
(* handleMessage with its per-peer token bucket, the dedup set (insertion   *)
(* ordered and capped), the save with its version, the event; the device's  *)
(* own publishing; and node.ts resyncFromNet, the minute timer that reads   *)
(* the versions above its watermark.  Verification is taken as done.        *)
(***************************************************************************)
EXTENDS Naturals, FiniteSets, FiniteSetsExt

CONSTANTS
    Senders,      \* peers that forward gossip
    Blocks,       \* engine blocks of the current generation
    Capacity,     \* BUCKET_CAPACITY
    Refill,       \* BUCKET_REFILL_PER_SEC
    MaxProcessed, \* MAX_PROCESSED
    MaxTime,      \* bound: the clock
    MaxVersion    \* bound: writes of engine blocks

VARIABLES
    now,
    bucket,       \* sender -> [tokens, last]
    admitted,     \* sender -> messages let in at this moment
    processed,    \* the dedup set: block -> the version it got when it was added, 0 when absent
    saving,       \* writes begun and not durable: set of [block, version, emits]
    counter,      \* engineBlockVersionCounter
    rows,         \* block -> its stored version, 0 when absent
    delivered,    \* blocks the ledger has taken
    dirty,        \* dirtyAccounts is not empty
    watermark,    \* lastSyncedEngineBlockVersion
    resyncing,    \* a resync is under way
    batch         \* the blocks it has read

gateVars == <<now, bucket, admitted, processed, saving, counter, rows, delivered,
              dirty, watermark, resyncing, batch>>

GateInit ==
    /\ now = 0
    /\ bucket = [s \in Senders |-> [tokens |-> Capacity, last |-> 0]]
    /\ admitted = [s \in Senders |-> 0]
    /\ processed = [b \in Blocks |-> 0]
    /\ saving = {}
    /\ counter = 0
    /\ rows = [b \in Blocks |-> 0]
    /\ delivered = {}
    /\ dirty = FALSE
    /\ watermark = 0
    /\ resyncing = FALSE /\ batch = {}

(* consumePeerToken: refill for the time since the last message, then take. *)
Refilled(k) == Min({Capacity, k.tokens + (now - k.last) * Refill})
Consume(s) ==
    /\ bucket' = [bucket EXCEPT ![s] =
         [tokens |-> IF Refilled(@) >= 1 THEN Refilled(@) - 1 ELSE Refilled(@), last |-> now]]
    /\ admitted' = [admitted EXCEPT ![s] = IF Refilled(bucket[s]) >= 1 THEN @ + 1 ELSE @]
Admits(s) == Refilled(bucket[s]) >= 1

(* processedEngineBlocks.add, which keeps the place of what is in the set;  *)
(* and capSet: what is over the cap goes, oldest first.                     *)
Add(q, b) == IF q[b] > 0 THEN q ELSE [q EXCEPT ![b] = counter + 1]
Capped(q) ==
    [b \in Blocks |-> IF Cardinality({c \in Blocks : q[c] > q[b]}) < MaxProcessed THEN q[b] ELSE 0]

Refuse(s) ==
    /\ ~Admits(s) /\ Consume(s)
    /\ UNCHANGED <<now, processed, saving, counter, rows, delivered, dirty, watermark, resyncing, batch>>

(* Something else the sender may spend a token on: a vote, a delta request, *)
(* a block already seen.                                                    *)
OtherMessage(s) ==
    /\ Admits(s) /\ Consume(s)
    /\ UNCHANGED <<now, processed, saving, counter, rows, delivered, dirty, watermark, resyncing, batch>>

(* A block not seen: saveEngineBlock takes a version, and the event follows *)
(* when the write is durable.                                               *)
BlockArrives(s, b) ==
    /\ Admits(s) /\ Consume(s)
    /\ processed[b] = 0 /\ counter < MaxVersion
    /\ processed' = Capped(Add(processed, b))
    /\ counter' = counter + 1
    /\ saving' = saving \cup {[block |-> b, version |-> counter + 1, emits |-> TRUE]}
    /\ UNCHANGED <<now, rows, delivered, dirty, watermark, resyncing, batch>>

(* publishEngineBlock: the ledger has its own block already. *)
PublishOwn(b) ==
    /\ b \notin delivered /\ counter < MaxVersion
    /\ delivered' = delivered \cup {b}
    /\ processed' = Add(processed, b)
    /\ counter' = counter + 1
    /\ saving' = saving \cup {[block |-> b, version |-> counter + 1, emits |-> FALSE]}
    /\ UNCHANGED <<now, bucket, admitted, rows, dirty, watermark, resyncing, batch>>

(* forgetEngineBlock, once for each block the handler could not take. *)
Forgotten(q, refused) == [b \in Blocks |-> IF b \in refused THEN 0 ELSE q[b]]

(* The write is durable.  The event reaches handleIncomingEngineBlock, which *)
(* takes the block or cannot yet.                                           *)
Saved(w, taken) ==
    /\ w \in saving
    /\ saving' = saving \ {w}
    /\ rows' = [rows EXCEPT ![w.block] = w.version]
    /\ taken => w.emits
    /\ delivered' = IF taken THEN delivered \cup {w.block} ELSE delivered
    /\ dirty' = (dirty \/ taken)
    /\ processed' = IF w.emits /\ ~taken THEN Forgotten(processed, {w.block}) ELSE processed
    /\ UNCHANGED <<now, bucket, admitted, counter, watermark, resyncing, batch>>

(* resyncFromNet: the rows above the watermark are read... *)
ResyncReads ==
    /\ dirty /\ ~resyncing
    /\ dirty' = FALSE /\ resyncing' = TRUE
    /\ batch' = {b \in Blocks : rows[b] > watermark} \ delivered
    /\ UNCHANGED <<now, bucket, admitted, processed, saving, counter, rows, delivered, watermark>>

(* ...handed to the ledger one by one, other events running in between, and *)
(* the watermark moves to where the counter is by then.                     *)
ResyncApplies(taken) ==
    /\ resyncing /\ taken \subseteq batch
    /\ delivered' = delivered \cup taken
    /\ processed' = Forgotten(processed, batch \ (taken \cup delivered))
    /\ dirty' = (dirty \/ taken # {})
    /\ watermark' = counter
    /\ resyncing' = FALSE /\ batch' = {}
    /\ UNCHANGED <<now, bucket, admitted, saving, counter, rows>>

Tick ==
    /\ now < MaxTime
    /\ now' = now + 1
    /\ admitted' = [s \in Senders |-> 0]
    /\ UNCHANGED <<bucket, processed, saving, counter, rows, delivered,
                   dirty, watermark, resyncing, batch>>

GateNext ==
    \/ \E s \in Senders : Refuse(s)
    \/ \E s \in Senders : OtherMessage(s)
    \/ \E s \in Senders, b \in Blocks : BlockArrives(s, b)
    \/ \E b \in Blocks : PublishOwn(b)
    \/ \E w \in saving, taken \in BOOLEAN : Saved(w, taken)
    \/ ResyncReads
    \/ \E taken \in SUBSET Blocks : ResyncApplies(taken)
    \/ Tick

GateSpec == GateInit /\ [][GateNext]_gateVars

----------------------------------------------------------------------------
(* Types. *)
GateTypeOK ==
    /\ now \in 0..MaxTime
    /\ bucket \in [Senders -> [tokens : 0..Capacity, last : 0..MaxTime]]
    /\ counter \in 0..MaxVersion /\ watermark \in 0..counter
    /\ processed \in [Blocks -> 0..counter] /\ rows \in [Blocks -> 0..counter]
    /\ delivered \subseteq Blocks /\ batch \subseteq Blocks
    /\ dirty \in BOOLEAN

(* A sender gets no more than its capacity through at once, however long it  *)
(* was quiet before and however it spaced its messages ("drop if peer       *)
(* exceeds burst capacity", consumePeerToken).                              *)
BurstIsBounded == \A s \in Senders : admitted[s] <= Capacity

(* A block that was received is not lost to the session: it is delivered,   *)
(* or on its way, or gossip may bring it again (forgetEngineBlock), or the  *)
(* next resync reads it, whose watermark may pass it by (resyncFromNet).    *)
NothingIsStranded ==
    \A b \in Blocks :
        rows[b] > 0 /\ b \notin delivered =>
            \/ processed[b] = 0
            \/ \E w \in saving : w.block = b
            \/ rows[b] > watermark \/ b \in batch
=============================================================================
