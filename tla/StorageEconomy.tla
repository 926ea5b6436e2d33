--------------------------- MODULE StorageEconomy ---------------------------
(***************************************************************************)
(* The storage economy of one provider account.  Readers fold what the     *)
(* provider served them into cumulative receipts (ReaderReceiptBook), the  *)
(* provider collects the newest one per reader (ReceiptLedger), and once   *)
(* per period it signs a storage-settle block that carries the receipts.   *)
(* Every node re-derives the payment from the block and from the baselines *)
(* of the settlements before it (ProviderLedger).  A settle block is not   *)
(* gossiped when it is signed: the 20 s re-publication is what gossips and *)
(* saves it, so a reload may fall in between; and the save of what was     *)
(* gossiped is not awaited, so a reload may come before it too.  The       *)
(* evidence of a fork, which freezes the account on nodes that hold one    *)
(* side only, is modelled in EngineLedger.                                 *)
(***************************************************************************)
EXTENDS Integers, Sequences, FiniteSets, FiniteSetsExt, Functions

CONSTANTS
  Readers,            \* accounts of other people that read from the provider
  Devices,            \* devices that hold the provider's account
  Serving,            \* those on which its owner presses Serve
  Peers,              \* other nodes that hold the provider's chain
  Credit,             \* Credit[k]: bytes a reader's k-th read of the file is worth
  ReaderCap,          \* PER_READER_EPOCH_CAP_BYTES
  MinReaders,         \* MIN_DISTINCT_READERS
  MinSettle,          \* MIN_SETTLE_BYTES
  MaxReceipts,        \* MAX_RECEIPTS_PER_SETTLEMENT
  MaxPeriod, MaxSigned, MaxReloads     \* bounds of the runs

ASSUME EconomyAssumption ==
  /\ IsFiniteSet(Readers)
  /\ Devices # {} /\ Devices \cap Peers = {} /\ Serving \subseteq Devices
  /\ Credit \in Seq(Nat)
  /\ {ReaderCap, MinReaders, MinSettle, MaxReceipts} \subseteq Nat
  /\ {MaxPeriod, MaxSigned, MaxReloads} \subseteq Nat

Nodes == Peers \cup Devices
Never == -1                                   \* no period was settled

VARIABLES
  period,     \* the settlement period the clock is in
  reads,      \* reads[r]: reads of the file by r's page (readsPerCid)
  book,       \* book[r]: r's running tally for this provider
  attested,   \* attested[r]: bytes r ever attested, over all its sessions
  wire,       \* receipts on their way to the provider
  inbound,    \* inbound[d][r]: the newest totals device d holds from r
  pending,    \* pending[d]: envelopes waiting for a settlement, in insertion order
  ledger,     \* ledger[n]: what node n derived from the provider's chain
  saved,      \* saved[d]: blocks on the disk of device d
  unsaved,    \* unsaved[d]: gossiped blocks whose write to the disk is under way
  gossiped,   \* blocks that have left the provider's device
  signed,     \* blocks signed so far
  writers,    \* history: the devices that signed
  refused,    \* history: blocks that validate refuses on the chain they were signed on
  dropped,    \* history: gossiped blocks whose write a reload cut off
  reloads     \* reloads so far, of the provider or of a reader

readerVars == <<reads, book, attested>>
inboxVars == <<inbound, pending>>
chainVars == <<ledger, saved, unsaved, gossiped, signed, writers, refused, dropped>>
vars == <<period, readerVars, wire, inboxVars, chainVars, reloads>>

Minimum(a, b) == IF a < b THEN a ELSE b
Maximum(a, b) == IF a < b THEN b ELSE a
Total(f) == MapThenSumSet(LAMBDA x : f[x], DOMAIN f)

Receipt == [reader : Readers, counter : Nat, bytes : Nat]
Tally == [counter : Nat, bytes : Nat]
NoTally == [counter |-> 0, bytes |-> 0]
NoTallies == [r \in Readers |-> NoTally]
(***************************************************************************)
(* Of a block: its height, a stand-in for its hash and for the previous    *)
(* one, its kind, and a settlement's period, receipts and amount.          *)
(***************************************************************************)
Block == [index : Nat, id : Nat, prev : Nat, kind : {"register", "deregister", "settle"},
          period : Nat, receipts : Seq(Receipt), amount : Nat]

Ledgers == [chain : Seq(Block), baseline : [Readers -> Nat], lastPeriod : Nat \cup {Never},
            registered : BOOLEAN, shown : Nat \cup {Never}, frozen : BOOLEAN]
EmptyLedger == [chain |-> <<>>, baseline |-> [r \in Readers |-> 0], lastPeriod |-> Never,
                registered |-> FALSE, shown |-> Never, frozen |-> FALSE]

Init ==
  /\ period = 0
  /\ reads = [r \in Readers |-> 0]
  /\ book = [r \in Readers |-> NoTally]
  /\ attested = [r \in Readers |-> 0]
  /\ wire = {}
  /\ inbound = [d \in Devices |-> NoTallies]
  /\ pending = [d \in Devices |-> <<>>]
  /\ ledger = [n \in Nodes |-> EmptyLedger]
  /\ saved = [d \in Devices |-> {}] /\ unsaved = [d \in Devices |-> {}] /\ gossiped = {}
  /\ writers = {} /\ refused = {} /\ dropped = {}
  /\ signed = 0 /\ reloads = 0

-----------------------------------------------------------------------------
(* The payment rule: creditFromSignedReceipts and ReceiptLedger.earnings.  *)

FromReader(rs, r) == {i \in DOMAIN rs : rs[i].reader = r}
FirstOf(rs, r) == IF FromReader(rs, r) = {} THEN NoTally ELSE rs[Min(FromReader(rs, r))]

Owed(tally, baseline) == [r \in Readers |-> Maximum(0, tally[r].bytes - baseline[r])]

Payable(owed) ==
  LET paying == {r \in Readers : owed[r] > 0}
  IN IF Cardinality(paying) < MinReaders THEN 0
     ELSE Total([r \in paying |-> Minimum(owed[r], ReaderCap)])

SettlementCredit(l, receipts) ==
  Payable(Owed([r \in Readers |-> FirstOf(receipts, r)], l.baseline))

\* inboundReceipts.settle is never called: what the trigger counts as pending
\* is everything the readers attested since the page was loaded.
PendingBytes(d) == Payable(Owed(inbound[d], [r \in Readers |-> 0]))

-----------------------------------------------------------------------------
(* ProviderLedger: validate and apply.                                     *)

Valid(l, b) ==
  CASE b.kind = "register" -> TRUE
    [] b.kind = "deregister" -> l.registered
    [] b.kind = "settle" ->
         /\ b.period > l.lastPeriod
         /\ Len(b.receipts) <= MaxReceipts
         /\ b.amount > 0
         /\ b.amount <= SettlementCredit(l, b.receipts)

\* Mutant: the baselines stay behind.
MoveBaselines_Never(baseline, receipts) == baseline
MoveBaselines(baseline, receipts) ==
  [r \in Readers |->
     Max({baseline[r]} \cup {receipts[i].bytes : i \in FromReader(receipts, r)})]

Apply(l, b) ==
  LET kept == [l EXCEPT !.chain = Append(@, b)]
  IN CASE b.kind = "register" -> [kept EXCEPT !.registered = TRUE, !.shown = Never]
       [] b.kind = "deregister" -> [kept EXCEPT !.registered = FALSE, !.shown = Never]
       [] b.kind = "settle" ->
            [kept EXCEPT !.baseline = MoveBaselines(@, b.receipts),
                         !.lastPeriod = b.period,
                         !.shown = IF l.registered THEN b.period ELSE @]

HeadId(l) == IF l.chain = <<>> THEN 0 ELSE l.chain[Len(l.chain)].id

AddBlock(l, b) ==
  CASE l.frozen -> l
    [] ~l.frozen /\ b.index <= Len(l.chain) ->
         [l EXCEPT !.frozen = l.chain[b.index].id # b.id /\ l.chain[b.index].prev = b.prev]
    [] ~l.frozen /\ b.index > Len(l.chain) ->
         IF b.index = Len(l.chain) + 1 /\ b.prev = HeadId(l) /\ Valid(l, b)
         THEN Apply(l, b) ELSE l

-----------------------------------------------------------------------------
(* Readers.                                                                *)

\* creditServingPeer: a read is folded into the reader's tally and the new
\* receipt is sent, unless the taper leaves nothing to credit.
Read(r) ==
  /\ reads[r] < Len(Credit)
  /\ reads' = [reads EXCEPT ![r] = @ + 1]
  /\ LET worth == Credit[reads[r] + 1]
         next == [counter |-> book[r].counter + 1, bytes |-> book[r].bytes + worth]
     IN IF worth = 0 THEN UNCHANGED <<book, attested, wire>>
        ELSE /\ book' = [book EXCEPT ![r] = next]
             /\ attested' = [attested EXCEPT ![r] = @ + worth]
             /\ wire' = wire \cup {[reader |-> r, counter |-> next.counter, bytes |-> next.bytes]}
  /\ UNCHANGED <<period, inboxVars, chainVars, reloads>>

\* A reader's page is reloaded: readerBooks and readsPerCid are in memory.
ReaderReload(r) ==
  /\ reloads < MaxReloads /\ book[r] # NoTally
  /\ reads' = [reads EXCEPT ![r] = 0]
  /\ book' = [book EXCEPT ![r] = NoTally]
  /\ reloads' = reloads + 1
  /\ UNCHANGED <<period, attested, wire, inboxVars, chainVars>>

LoseReceipt(rc) ==
  /\ wire' = wire \ {rc}
  /\ UNCHANGED <<period, readerVars, inboxVars, chainVars, reloads>>

-----------------------------------------------------------------------------
(* The provider's devices.                                                 *)

\* ReceiptLedger.record: a receipt counts only if it supersedes the pair's.
Supersedes(d, rc) ==
  rc.counter > inbound[d][rc.reader].counter /\ rc.bytes >= inbound[d][rc.reader].bytes

\* Mutant: an envelope joins the queue beside the older one of its reader.
Filed_Appends(queue, rc) == Append(queue, rc)
\* pendingEnvelopes.set: a reader that has an envelope keeps its place.
Filed(queue, rc) ==
  IF \E i \in DOMAIN queue : queue[i].reader = rc.reader
  THEN [i \in DOMAIN queue |-> IF queue[i].reader = rc.reader THEN rc ELSE queue[i]]
  ELSE Append(queue, rc)

AcceptReadReceipt(d, rc) ==
  /\ wire' = wire \ {rc}
  /\ IF Supersedes(d, rc)
     THEN /\ inbound' = [inbound EXCEPT ![d][rc.reader] = [counter |-> rc.counter, bytes |-> rc.bytes]]
          /\ pending' = [pending EXCEPT ![d] = Filed(@, rc)]
     ELSE UNCHANGED inboxVars
  /\ UNCHANGED <<period, readerVars, chainVars, reloads>>

\* appendStorageBlock: the device applies its own block without validating it.
Sign(d, kind, receipts, amount) ==
  LET own == ledger[d]
      b == [index |-> Len(own.chain) + 1, id |-> signed + 1, prev |-> HeadId(own),
            kind |-> kind, period |-> period, receipts |-> receipts, amount |-> amount]
  IN /\ signed < MaxSigned
     /\ signed' = signed + 1 /\ writers' = writers \cup {d}
     /\ refused' = IF Valid(own, b) THEN refused ELSE refused \cup {b}
     /\ ledger' = [ledger EXCEPT ![d] = Apply(own, b)]

\* Mutant: the block is gossiped without being saved.
Submitted_Unsaved(d) ==
  LET out == IF ledger[d].frozen THEN {} ELSE {ledger'[d].chain[Len(ledger'[d].chain)]}
  IN gossiped' = gossiped \cup out /\ UNCHANGED unsaved
\* registerStorage and deregisterStorage hand the block to submitBlock, which
\* gossips it and starts to save it, unless addBlock refuses the account.
Submitted(d) ==
  LET out == IF ledger[d].frozen THEN {} ELSE {ledger'[d].chain[Len(ledger'[d].chain)]}
  IN gossiped' = gossiped \cup out /\ unsaved' = [unsaved EXCEPT ![d] = @ \cup out]

Register(d) ==
  /\ ~ledger[d].frozen
  /\ Sign(d, "register", <<>>, 0) /\ Submitted(d)
  /\ UNCHANGED <<period, readerVars, wire, inboxVars, saved, dropped, reloads>>

Deregister(d) ==
  /\ ledger[d].registered
  /\ Sign(d, "deregister", <<>>, 0) /\ Submitted(d)
  /\ UNCHANGED <<period, readerVars, wire, inboxVars, saved, dropped, reloads>>

SettlementReceipts(d) == SubSeq(pending[d], 1, Minimum(Len(pending[d]), MaxReceipts))

\* Mutant: due again in the period that was settled.
SettlementDue_Again(d) == period >= ledger[d].shown /\ PendingBytes(d) >= MinSettle
\* settlementDue: a period later than the one shown, and enough to settle.  The
\* slot is a floor inside the period, so when it is reached is left open.
SettlementDue(d) == period > ledger[d].shown /\ PendingBytes(d) >= MinSettle

\* settleIfDue and createStorageSettle: any device that holds the account and
\* sees it registered settles; the block is neither saved nor gossiped here.
SettleIfDue(d) ==
  LET own == ledger[d]
      credit == SettlementCredit(own, SettlementReceipts(d))
  IN /\ own.registered
     /\ pending[d] # <<>>
     /\ SettlementDue(d)
     /\ credit > 0
     /\ Sign(d, "settle", SettlementReceipts(d), credit)
     /\ pending' = [pending EXCEPT ![d] = <<>>]
     /\ UNCHANGED <<period, readerVars, wire, inbound, saved, unsaved, gossiped, dropped, reloads>>

\* publishLocalData, every 20 s: every block in memory is gossiped, and saved
\* unless it is on the disk already.
PublishLocalData(d) ==
  LET chain == Range(ledger[d].chain)
  IN /\ ~(chain \subseteq gossiped \cap (saved[d] \cup unsaved[d]))
     /\ gossiped' = gossiped \cup chain
     /\ unsaved' = [unsaved EXCEPT ![d] = @ \cup (chain \ saved[d])]
  /\ UNCHANGED <<period, readerVars, wire, inboxVars, ledger, saved, signed, writers, refused, dropped, reloads>>

\* saveEngineBlock, which publishEngineBlock does not await: one write is done.
\* The browser finishes them in the order they began; here any may be next, and
\* one that fails is never done.
SaveDone(d) ==
  /\ \E b \in unsaved[d] : /\ saved' = [saved EXCEPT ![d] = @ \cup {b}]
                           /\ unsaved' = [unsaved EXCEPT ![d] = @ \ {b}]
  /\ UNCHANGED <<period, readerVars, wire, inboxVars, ledger, gossiped, signed, writers, refused, dropped, reloads>>

\* start: the saved blocks are offered to addBlock by height; two blocks of one
\* height come in either order.
ReplayOrders(blocks) ==
  {s \in [1..Cardinality(blocks) -> blocks] :
     \A i, j \in DOMAIN s : i < j => s[i] # s[j] /\ s[i].index <= s[j].index}

\* Mutant: the baselines outlive the chain they were derived from.
Replayed_KeepsBaselines(d, s) ==
  LET kept == [EmptyLedger EXCEPT !.baseline = ledger[d].baseline,
                                  !.lastPeriod = ledger[d].lastPeriod]
      after[i \in 0..Len(s)] == IF i = 0 THEN kept ELSE AddBlock(after[i - 1], s[i])
  IN after[Len(s)]
Replayed(d, s) ==
  LET after[i \in 0..Len(s)] == IF i = 0 THEN EmptyLedger ELSE AddBlock(after[i - 1], s[i])
  IN after[Len(s)]

\* A page reload of device d: receipts, and the writes under way, were only in memory.
ProviderReload(d) ==
  /\ reloads < MaxReloads
  /\ \E s \in ReplayOrders(saved[d]) : ledger' = [ledger EXCEPT ![d] = Replayed(d, s)]
  /\ unsaved' = [unsaved EXCEPT ![d] = {}] /\ dropped' = dropped \cup (unsaved[d] \ saved[d])
  /\ inbound' = [inbound EXCEPT ![d] = NoTallies]
  /\ pending' = [pending EXCEPT ![d] = <<>>]
  /\ reloads' = reloads + 1
  /\ UNCHANGED <<period, readerVars, wire, saved, gossiped, signed, writers, refused>>

-----------------------------------------------------------------------------
(* The other nodes, and the clock.                                         *)

\* handleIncomingEngineBlock; a device has saved what it receives.
NodeReceives(n, b) ==
  /\ AddBlock(ledger[n], b) # ledger[n]
  /\ ledger' = [ledger EXCEPT ![n] = AddBlock(@, b)]
  /\ saved' = [d \in Devices |-> saved[d] \cup IF d = n THEN {b} ELSE {}]
  /\ UNCHANGED <<period, readerVars, wire, inboxVars, unsaved, gossiped, signed, writers, refused, dropped, reloads>>

NextPeriod ==
  /\ period < MaxPeriod
  /\ period' = period + 1
  /\ UNCHANGED <<readerVars, wire, inboxVars, chainVars, reloads>>

Next ==
  \/ \E r \in Readers : Read(r) \/ ReaderReload(r)
  \/ \E rc \in wire : LoseReceipt(rc) \/ \E d \in Devices : AcceptReadReceipt(d, rc)
  \/ \E d \in Serving : Register(d) \/ Deregister(d)
  \/ \E d \in Devices : SettleIfDue(d) \/ PublishLocalData(d) \/ SaveDone(d) \/ ProviderReload(d)
  \/ \E n \in Nodes, b \in gossiped : NodeReceives(n, b)
  \/ NextPeriod

Spec == Init /\ [][Next]_vars

-----------------------------------------------------------------------------
(* Properties.                                                             *)

TypeOK ==
  /\ period \in 0..MaxPeriod
  /\ reads \in [Readers -> 0..Len(Credit)]
  /\ book \in [Readers -> Tally] /\ attested \in [Readers -> Nat]
  /\ wire \subseteq Receipt
  /\ inbound \in [Devices -> [Readers -> Tally]] /\ pending \in [Devices -> Seq(Receipt)]
  /\ ledger \in [Nodes -> Ledgers]
  /\ saved \in [Devices -> SUBSET Block] /\ unsaved \in [Devices -> SUBSET Block]
  /\ gossiped \subseteq Block /\ writers \subseteq Devices /\ refused \cup dropped \subseteq Block
  /\ signed \in 0..MaxSigned /\ reloads \in 0..MaxReloads

\* A receipt claims no more than its reader attested, wherever it is by now.
Genuine(rc) == rc.bytes <= attested[rc.reader]
AttestedBlock(b) ==
  /\ b.kind # "settle" => b.amount = 0
  /\ \A i \in 1..Len(b.receipts) : Genuine(b.receipts[i])

ReceiptsGenuine ==
  /\ \A r \in Readers : book[r].bytes <= attested[r]
  /\ \A rc \in wire : Genuine(rc)
  /\ \A d \in Devices, r \in Readers : inbound[d][r].bytes <= attested[r]
  /\ \A d \in Devices : \A i \in 1..Len(pending[d]) : Genuine(pending[d][i])
  /\ \A b \in gossiped : AttestedBlock(b)
  /\ \A n \in Nodes : \A i \in 1..Len(ledger[n].chain) : AttestedBlock(ledger[n].chain[i])

\* An envelope waits for one reader at most once, and what a device has on its
\* disk, or is about to have, has been gossiped.
OneEnvelopeEach ==
  \A d \in Devices : \A i, j \in 1..Len(pending[d]) :
    pending[d][i].reader = pending[d][j].reader => i = j
SavedIsGossiped == IsFiniteSet(gossiped) /\ \A d \in Devices : saved[d] \cup unsaved[d] \subseteq gossiped

\* What a node derived is what applying its chain gives, however the blocks
\* came: validated one by one, replayed, or applied as they were signed.
Derived(chain) ==
  LET after[i \in 0..Len(chain)] == IF i = 0 THEN EmptyLedger ELSE Apply(after[i - 1], chain[i])
  IN after[Len(chain)]
LedgersDerived == \A n \in Nodes : [ledger[n] EXCEPT !.frozen = FALSE] = Derived(ledger[n].chain)
ChainsNumbered ==
  \A n \in Nodes : \A i \in 1..Len(ledger[n].chain) : ledger[n].chain[i].index = i

Paid(chain) == Total([i \in 1..Len(chain) |-> chain[i].amount])

\* However often receipts are resent, reordered, replayed after a reload or
\* carried again by a later settlement, the chain of the provider mints no more
\* than the baselines have moved, and no baseline is above what its reader ever
\* attested: no served byte is paid twice (settleIfDue, applySettle).
PaidIsAttested ==
  \A n \in Nodes :
    /\ Paid(ledger[n].chain) <= Total(ledger[n].baseline)
    /\ \A r \in Readers : ledger[n].baseline[r] <= attested[r]

\* The books of readers, provider and nodes agree: on every way from a read to
\* a payment a receipt claims what was attested, and every node's ledger is
\* what its chain says (read-receipts.ts, provider-ledger.ts).
EconomyInv ==
  /\ TypeOK /\ ReceiptsGenuine /\ OneEnvelopeEach /\ SavedIsGossiped
  /\ ChainsNumbered /\ LedgersDerived /\ PaidIsAttested

\* provider-ledger.ts: "Two nodes holding the same chain cannot disagree" -- the
\* device that applied its blocks unvalidated and forgot its receipts in a reload
\* derives the same baselines and period as a peer that validated each of them.
SameChainSameBaselines ==
  \A n, m \in Nodes : ledger[n].chain = ledger[m].chain =>
    /\ ledger[n].baseline = ledger[m].baseline
    /\ ledger[n].lastPeriod = ledger[m].lastPeriod

\* storage-manager.ts, servesFromThisDevice: two unattended writers on one chain
\* fork it, and a fork freezes the account for good.  Although a settle block
\* exists only in memory until it is published, and reloads fall in between,
\* only three things freeze an account: a second device signed; a reload came
\* between the gossip of a block and its save, which publishEngineBlock does not
\* await; or a block was signed that the other nodes refuse.
FreezesHaveCauses ==
  (\E n \in Nodes : ledger[n].frozen) =>
    (\E d, e \in writers : d # e) \/ dropped # {} \/ refused # {}

\* engine-ledger.ts, createStorageSettle: "issuing something a peer would reject
\* is not possible by construction".  A block that left a device is valid at any
\* node whose chain it extends, whoever signed it and after whatever reload, with
\* one exception that the code has: a provider that registers again in a period
\* it has settled settles it once more, and provider-ledger.ts (529) refuses that.
SettlesAgain(l, b) == b.kind = "settle" /\ b.period = l.lastPeriod /\ l.shown = Never

IssuedBlocksAccepted ==
  \A n \in Nodes, b \in gossiped :
    (b.index = Len(ledger[n].chain) + 1 /\ b.prev = HeadId(ledger[n])) =>
      Valid(ledger[n], b) \/ SettlesAgain(ledger[n], b)
=============================================================================
