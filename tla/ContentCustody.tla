--------------------------- MODULE ContentCustody ---------------------------
(***************************************************************************)
(* Handing one published file over to the network.  The owner's storage    *)
(* manager selects providers, asks them over gossip to cache the file,     *)
(* pushes its small blocks to them, counts the receipts of live holders,   *)
(* lets them prove that they serve the file, and deletes its own copy.     *)
(* Spot checks and a retry loop repair what is missing.  Gossip is lossy,  *)
(* providers go away and come back, a device may lose its disk, and the    *)
(* owner's page may be reloaded at any moment.                             *)
(***************************************************************************)
EXTENDS Integers, FiniteSets, Sequences, SequencesExt

CONSTANTS
  Providers,          \* registered provider accounts, none of them the owner's
  Hosts,            \* the devices they run on
  DeviceOf,           \* DeviceOf[p]: the device of provider p
  Owner,              \* the device of the file's owner
  Root,               \* the file's primary CID
  Parts,              \* the sequence of its additional CIDs
  Pushed,             \* the blocks small enough to be pushed
  MinReplicas,        \* MIN_REPLICAS
  Target,             \* REDUNDANCY_TARGET
  HotTarget,          \* the holder count that demand asks for
  ReleaseHysteresis,  \* RELEASE_HYSTERESIS
  FailuresBeforeEviction,
  Longstanding,       \* providers registered longer ago than one lease
  Budgets,            \* bounds of a run: how often each event may strike
  MaxProofs           \* bound: custody proofs under way at a time

Events == {"losses", "crashes", "reloads", "lapses", "withdrawals", "peaks",
           "registered", "newcomers", "lossy", "small"}

ASSUME CustodyAssumption ==
  /\ IsFiniteSet(Providers) /\ IsFiniteSet(Hosts) /\ Owner \notin Hosts \cup Providers
  /\ DeviceOf \in [Providers -> Hosts] /\ Parts \in Seq(Range(Parts))
  /\ {MinReplicas, Target, HotTarget, ReleaseHysteresis, FailuresBeforeEviction} \subseteq Nat
  /\ Longstanding \subseteq Providers
  /\ Budgets \subseteq [Events -> Nat]
  /\ MaxProofs \in Nat

Blocks == {Root} \cup Range(Parts)
Untracked == {Owner}                  \* stands for: no entry in trackedCids
Idle == [todo |-> <<>>, failed |-> FALSE, busy |-> FALSE]

VARIABLES
  disk,       \* disk[d]: blocks stored on device d
  online,     \* devices of providers that are running
  lost,       \* devices that lost their disk
  requests,   \* providers with a cache request on its way to them
  pushes,     \* <<p, c>>: block c is being pushed to provider p
  receipts,   \* providers with a receipt for the file on its way to the owner
  deletes,    \* devices with a delete request on its way to them
  caching,    \* caching[p]: what p has still to fetch for a cache request
  published,  \* was the file published?
  withdrawn,  \* was it removed by its owner?
  confirmed,  \* trackedCids: the confirmed providers, or Untracked
  savedConfirmed,  \* the same, as persisted
  pendingCids,    \* is the file in pendingCids?
  released,   \* is the file in releasedCids?
  proofs,     \* custody proofs under way: who is asked, who has served
  misses,     \* CustodySignals: consecutive failures of p for this file
  fails,      \* CustodyLiveness: consecutive failures of p
  seen,       \* was p observed, or did it register, within the last lease?
  warmup,     \* is the owner's session shorter than one heartbeat interval?
  registered, \* the providers that are registered
  target,     \* targetFor: the holders the current demand asks for
  budget      \* the events that may still strike

wireVars == <<requests, pushes, receipts, deletes>>
ownerVars == <<published, withdrawn, confirmed, savedConfirmed, pendingCids, released, proofs>>
evidenceVars == <<misses, fails, seen, warmup, registered, target>>
faultVars == <<online, lost, budget>>
custodyVars == <<disk, wireVars, caching, ownerVars, evidenceVars, faultVars>>

Holds(d, c) == c \in disk[d]
Serves(d, c) == d \in online /\ Holds(d, c)
Strikes(event) == budget[event] > 0 /\ budget' = [budget EXCEPT ![event] = @ - 1]
Available(c) == Holds(Owner, c) \/ \E d \in online : Holds(d, c)

CustodyInit ==
  /\ disk = [d \in Hosts \cup {Owner} |-> IF d = Owner THEN Blocks ELSE {}]
  /\ online = Hosts /\ lost = {}
  /\ requests = {} /\ pushes = {} /\ receipts = {} /\ deletes = {}
  /\ caching = [p \in Providers |-> Idle]
  /\ published = FALSE /\ withdrawn = FALSE
  /\ confirmed = Untracked /\ savedConfirmed = Untracked
  /\ pendingCids = FALSE /\ released = FALSE /\ proofs = {}
  /\ misses = [p \in Providers |-> 0] /\ fails = [p \in Providers |-> 0]
  /\ budget \in Budgets
  /\ registered \in {R \in SUBSET Providers : Cardinality(R) = budget["registered"]}
  /\ seen = [p \in Providers |-> p \in registered \ Longstanding]
  /\ warmup = TRUE /\ target = Target

-----------------------------------------------------------------------------
(* Who counts: CustodyLiveness, liveHolderCount, selectProviders.          *)

Tracked == confirmed # Untracked
Holders == IF Tracked THEN confirmed ELSE {}

IsLive(p) == fails[p] < FailuresBeforeEviction /\ seen[p]
Domains(S) == {DeviceOf[p] : p \in S}
LiveDomains(S) == Cardinality(Domains({p \in S : IsLive(p)}))

Candidates == {p \in registered : warmup \/ IsLive(p)}

\* A weighted random choice, never two of one device.
Selections(candidates) ==
  LET size == IF target < Cardinality(Domains(candidates)) THEN target
              ELSE Cardinality(Domains(candidates))
  IN {S \in SUBSET candidates : Cardinality(S) = size /\ Cardinality(Domains(S)) = size}

-----------------------------------------------------------------------------
(* The owner: distribution, repair and release.                            *)

\* The cache request and, unless the copy was released, the pushes.
Send(S, pushing) ==
  /\ requests' = requests \cup S
  /\ pushes' = IF pushing /\ budget["small"] > 0 THEN pushes \cup (S \X (Pushed \cap disk[Owner])) ELSE pushes

\* distributeContent of a file nobody holds yet: an empty choice stages it.
DistributeContent(candidates) ==
  /\ \E S \in Selections(candidates) : Send(S, ~released) /\ pendingCids' = (S = {})
  /\ confirmed' = Holders /\ savedConfirmed' = Holders

Publish ==
  /\ ~published
  /\ published' = TRUE
  /\ DistributeContent(Candidates)
  /\ UNCHANGED <<disk, receipts, deletes, caching, withdrawn, released, proofs, evidenceVars, faultVars>>

\* A storage-register block arrives: retryPendingDistributions.
ProviderRegisters(p) ==
  /\ p \in Providers \ registered /\ Strikes("newcomers")
  /\ registered' = registered \cup {p}
  /\ seen' = [seen EXCEPT ![p] = p \notin Longstanding]
  /\ IF pendingCids THEN DistributeContent(Candidates \cup {p})
     ELSE UNCHANGED <<requests, pushes, confirmed, savedConfirmed, pendingCids>>
  /\ UNCHANGED <<disk, receipts, deletes, caching, published, withdrawn, released, proofs,
                 misses, fails, warmup, target, online, lost>>

\* Readers come, or go again.
DemandChanges ==
  /\ \/ target = Target /\ Strikes("peaks") /\ target' = HotTarget
     \/ target = HotTarget /\ target' = Target /\ UNCHANGED budget
  /\ UNCHANGED <<disk, wireVars, caching, ownerVars, misses, fails, seen, warmup, registered, online, lost>>

\* planRepair: as many of the offered providers as the target lacks, each on a
\* device that holds no live copy.
KeptHolders == {p \in confirmed : IsLive(p)}
PlanRepair(offered) ==
  LET need == target - LiveDomains(confirmed)
      open == {p \in offered \ confirmed : DeviceOf[p] \notin Domains(KeptHolders)}
  IN {add \in SUBSET open :
        Cardinality(add) = IF need < Cardinality(open) THEN need ELSE Cardinality(open)}

\* retryUnconfirmedDistributions: lapsed holders are dropped, in memory only.
Repair ==
  /\ Tracked /\ Candidates # {} /\ LiveDomains(confirmed) < target
  /\ \E S \in Selections(Candidates) : \E add \in PlanRepair(S) : Send(add, TRUE)
  /\ confirmed' = KeptHolders
  /\ UNCHANGED <<disk, receipts, deletes, caching, published, withdrawn, savedConfirmed,
                 pendingCids, released, proofs, evidenceVars, faultVars>>

\* Surplus holders are released from the assignment; they keep the bytes.
ShedSurplus ==
  /\ Tracked
  /\ LET surplus == LiveDomains(confirmed) - target
     IN /\ surplus > ReleaseHysteresis
        /\ \E shed \in SUBSET KeptHolders :
             /\ Cardinality(shed) = surplus - ReleaseHysteresis
             /\ confirmed' = confirmed \ shed /\ savedConfirmed' = confirmed \ shed
  /\ UNCHANGED <<disk, wireVars, caching, published, withdrawn, pendingCids, released, proofs,
                 evidenceVars, faultVars>>

MayRelease_One(holders) == holders >= MinReplicas - 1
\* mayReleasePublisherCopy
MayRelease(holders) == holders >= MinReplicas

\* What a success receipt of p does to the owner's books; from MinReplicas live
\* holders on, releasePublisherCopy asks them to prove custody.
Confirm(p) ==
  /\ misses' = [misses EXCEPT ![p] = 0]
  /\ fails' = [fails EXCEPT ![p] = 0]
  /\ seen' = [seen EXCEPT ![p] = TRUE]
  /\ confirmed' = confirmed \cup {p} /\ savedConfirmed' = confirmed \cup {p}
  /\ LET live == {q \in confirmed' : fails'[q] < FailuresBeforeEviction /\ seen'[q]}
     IN proofs' = IF /\ MayRelease(Cardinality(Domains(live))) /\ ~released
                     /\ Cardinality(proofs) < MaxProofs
                  THEN proofs \cup {[asked |-> live, served |-> {}]}
                  ELSE proofs

HandleReceipt(p) ==
  /\ p \in receipts
  /\ receipts' = receipts \ {p}
  /\ IF Tracked THEN Confirm(p)
     ELSE UNCHANGED <<misses, fails, seen, confirmed, savedConfirmed, proofs>>
  /\ UNCHANGED <<disk, requests, pushes, deletes, caching, published, withdrawn, pendingCids,
                 released, warmup, registered, target, faultVars>>

\* proveCustody: a holder is asked for the root and nothing else.
ProofAnswer(pr, p) ==
  /\ p \in pr.asked
  /\ LET answered == IF Serves(DeviceOf[p], Root) THEN pr.served \cup {p} ELSE pr.served
     IN proofs' = (proofs \ {pr}) \cup {[asked |-> pr.asked \ {p}, served |-> answered]}
  /\ UNCHANGED <<disk, wireVars, caching, published, withdrawn, confirmed, savedConfirmed,
                 pendingCids, released, evidenceVars, faultVars>>

ReleasePublisherCopy(pr) ==
  /\ pr.asked = {}
  /\ proofs' = proofs \ {pr}
  /\ IF MayRelease(Cardinality(pr.served))
     THEN /\ released' = TRUE
          /\ disk' = [disk EXCEPT ![Owner] = @ \ Blocks]
     ELSE UNCHANGED <<released, disk>>
  /\ UNCHANGED <<wireVars, caching, published, withdrawn, confirmed, savedConfirmed, pendingCids,
                 evidenceVars, faultVars>>

\* runSpotChecks of one provider: of confirmed ones, and of all when too few are.
SpotCheck(p) ==
  /\ Tracked /\ p \in registered
  /\ p \in confirmed \/ LiveDomains(confirmed) < target
  /\ \/ /\ Serves(DeviceOf[p], Root)
        /\ Confirm(p)
     \/ /\ ~Serves(DeviceOf[p], Root) /\ p \in confirmed
        /\ misses' = [misses EXCEPT ![p] = IF @ < FailuresBeforeEviction THEN @ + 1 ELSE @]
        /\ fails' = [fails EXCEPT ![p] = IF @ < FailuresBeforeEviction THEN @ + 1 ELSE @]
        /\ seen' = [seen EXCEPT ![p] = TRUE]
        /\ confirmed' = IF misses'[p] >= FailuresBeforeEviction THEN confirmed \ {p} ELSE confirmed
        /\ UNCHANGED <<savedConfirmed, proofs>>
  /\ UNCHANGED <<disk, wireVars, caching, published, withdrawn, pendingCids, released, warmup,
                 registered, target, faultVars>>

\* retrieve: a read of a block the owner no longer has brings it back.
OwnerReads(c) ==
  /\ ~Holds(Owner, c)
  /\ \E p \in Providers :
       /\ Serves(DeviceOf[p], c)
       /\ disk' = [disk EXCEPT ![Owner] = @ \cup {c}]
       /\ fails' = [fails EXCEPT ![p] = 0]
       /\ seen' = [seen EXCEPT ![p] = TRUE]
  /\ UNCHANGED <<wireVars, caching, ownerVars, misses, warmup, registered, target, faultVars>>

\* deleteContent and removeFileAnnouncement.
Withdraw ==
  /\ published /\ Strikes("withdrawals")
  /\ withdrawn' = TRUE
  /\ disk' = [disk EXCEPT ![Owner] = @ \ Blocks]
  /\ deletes' = Hosts
  /\ confirmed' = Untracked /\ savedConfirmed' = Untracked
  /\ misses' = [p \in Providers |-> 0]
  /\ UNCHANGED <<requests, pushes, receipts, caching, published, pendingCids, released, proofs,
                 fails, seen, warmup, registered, target, online, lost>>

\* A reload of the owner's page: trackedCids come back from disk, the pending and
\* released notes, the proofs and the evidence were in memory.
OwnerReload ==
  /\ published /\ Strikes("reloads")
  /\ confirmed' = savedConfirmed
  /\ pendingCids' = FALSE /\ released' = FALSE /\ proofs' = {} /\ pushes' = {}
  /\ misses' = [p \in Providers |-> 0] /\ fails' = [p \in Providers |-> 0]
  /\ seen' = [p \in Providers |-> p \in registered \ Longstanding]
  /\ warmup' = TRUE
  /\ UNCHANGED <<disk, requests, receipts, deletes, caching, published, withdrawn, savedConfirmed,
                 registered, target, online, lost>>

\* The first heartbeat interval of the session is over; a lease passes in which
\* p was not observed.
WarmupEnds ==
  /\ warmup /\ budget["lapses"] > 0
  /\ warmup' = FALSE
  /\ UNCHANGED <<disk, wireVars, caching, ownerVars, misses, fails, seen, registered, target, faultVars>>

LeaseLapses(p) ==
  /\ ~warmup /\ seen[p] /\ Strikes("lapses")
  /\ seen' = [seen EXCEPT ![p] = FALSE]
  /\ UNCHANGED <<disk, wireVars, caching, ownerVars, misses, fails, warmup, registered, target, online, lost>>

-----------------------------------------------------------------------------
(* The providers.                                                          *)

\* A pushed block is stored; for the root, the receipt goes out at once.
PushArrives(p, c) ==
  /\ <<p, c>> \in pushes
  /\ pushes' = pushes \ {<<p, c>>}
  /\ IF DeviceOf[p] \in online /\ Holds(Owner, c)
     THEN /\ disk' = [disk EXCEPT ![DeviceOf[p]] = @ \cup {c}]
          /\ receipts' = IF c = Root THEN receipts \cup {p} ELSE receipts
     ELSE UNCHANGED <<disk, receipts>>
  /\ UNCHANGED <<requests, deletes, caching, ownerVars, evidenceVars, faultVars>>

\* handleCacheRequest: a request that comes while one is served is dropped.
HandleCacheRequest(p) ==
  /\ p \in requests /\ DeviceOf[p] \in online
  /\ requests' = requests \ {p}
  /\ caching' = [caching EXCEPT ![p] =
       IF @.busy THEN @ ELSE [todo |-> <<Root>> \o Parts, failed |-> FALSE, busy |-> TRUE]]
  /\ UNCHANGED <<disk, pushes, receipts, deletes, ownerVars, evidenceVars, faultVars>>

\* One block of the loop: held already, fetched, or failed.
CacheBlock(p) ==
  /\ caching[p].busy /\ caching[p].todo # <<>>
  /\ LET c == Head(caching[p].todo)
         d == DeviceOf[p]
         rest == [caching[p] EXCEPT !.todo = Tail(@)]
     IN \/ /\ Holds(d, c) \/ Available(c)
           /\ disk' = [disk EXCEPT ![d] = @ \cup {c}]
           /\ caching' = [caching EXCEPT ![p] = rest]
        \/ /\ ~Holds(d, c)
           /\ caching' = [caching EXCEPT ![p] = [rest EXCEPT !.failed = TRUE]]
           /\ UNCHANGED disk
  /\ UNCHANGED <<wireVars, ownerVars, evidenceVars, faultVars>>

ReceiptDue_Always(p) == TRUE
\* All or nothing: no receipt unless every block was held or fetched.
ReceiptDue(p) == ~caching[p].failed

CacheDone(p) ==
  /\ caching[p].busy /\ caching[p].todo = <<>>
  /\ caching' = [caching EXCEPT ![p] = Idle]
  /\ receipts' = IF ReceiptDue(p) THEN receipts \cup {p} ELSE receipts
  /\ UNCHANGED <<disk, requests, pushes, deletes, ownerVars, evidenceVars, faultVars>>

\* handleDeleteRequest; a transfer under way goes on.
HandleDeleteRequest(d) ==
  /\ d \in deletes /\ d \in online
  /\ deletes' = deletes \ {d}
  /\ disk' = [disk EXCEPT ![d] = @ \ Blocks]
  /\ UNCHANGED <<requests, pushes, receipts, caching, ownerVars, evidenceVars, faultVars>>

-----------------------------------------------------------------------------
(* Faults: lost gossip, devices that stop and start, disks that are lost.  *)

LoseMessage(p) ==
  /\ budget["lossy"] > 0
  /\ \/ p \in requests /\ requests' = requests \ {p} /\ UNCHANGED receipts
     \/ p \in receipts /\ receipts' = receipts \ {p} /\ UNCHANGED requests
  /\ UNCHANGED <<disk, pushes, deletes, caching, ownerVars, evidenceVars, faultVars>>

GoOffline(d) ==
  /\ d \in online /\ Strikes("crashes")
  /\ online' = online \ {d}
  /\ caching' = [p \in Providers |-> IF DeviceOf[p] = d THEN Idle ELSE caching[p]]
  /\ UNCHANGED <<disk, wireVars, ownerVars, evidenceVars, lost>>

ComeBack(d) ==
  /\ d \notin online
  /\ online' = online \cup {d}
  /\ UNCHANGED <<disk, wireVars, caching, ownerVars, evidenceVars, lost, budget>>

LoseDisk(d) ==
  /\ Strikes("losses")
  /\ lost' = lost \cup {d}
  /\ disk' = [disk EXCEPT ![d] = {}]
  /\ UNCHANGED <<wireVars, caching, ownerVars, evidenceVars, online>>

CustodyNext ==
  \/ Publish \/ DemandChanges \/ Repair \/ ShedSurplus \/ Withdraw \/ OwnerReload \/ WarmupEnds
  \/ \E p \in Providers :
       \/ ProviderRegisters(p)
       \/ HandleReceipt(p) \/ SpotCheck(p) \/ LeaseLapses(p) \/ LoseMessage(p)
       \/ HandleCacheRequest(p) \/ CacheBlock(p) \/ CacheDone(p)
       \/ \E c \in Pushed : PushArrives(p, c)
  \/ \E pr \in proofs : ReleasePublisherCopy(pr) \/ \E p \in Providers : ProofAnswer(pr, p)
  \/ \E c \in Blocks : OwnerReads(c)
  \/ \E d \in Hosts : HandleDeleteRequest(d) \/ GoOffline(d) \/ ComeBack(d) \/ LoseDisk(d)

CustodySpec == CustodyInit /\ [][CustodyNext]_custodyVars

(***************************************************************************)
(* Fairness: the retry loop and the spot checks run on timers that are     *)
(* always re-armed (30 s, one hour), a provider's handler runs to its end, *)
(* a device comes back, and a message, a fetch or a push that is tried     *)
(* again and again gets through in the end.                                *)
(***************************************************************************)
Fetched(p) == CacheBlock(p) /\ ~caching'[p].failed
Fairness ==
  /\ WF_custodyVars(Publish) /\ SF_custodyVars(Repair)
  /\ \A p \in Providers :
       /\ SF_custodyVars(HandleCacheRequest(p)) /\ SF_custodyVars(HandleReceipt(p))
       /\ WF_custodyVars(CacheBlock(p)) /\ SF_custodyVars(Fetched(p)) /\ WF_custodyVars(CacheDone(p))
       /\ SF_custodyVars(SpotCheck(p))
  /\ \A d \in Hosts : WF_custodyVars(ComeBack(d))

CustodyLiveSpec == CustodySpec /\ Fairness

-----------------------------------------------------------------------------
(* Properties.                                                             *)

Transfers == [todo : Seq(Blocks), failed : BOOLEAN, busy : BOOLEAN]
Streaks == [Providers -> 0..FailuresBeforeEviction]

StoresTyped ==
  /\ disk \in [Hosts \cup {Owner} -> SUBSET Blocks]
  /\ online \subseteq Hosts /\ lost \subseteq Hosts
WireTyped ==
  /\ requests \cup receipts \subseteq Providers /\ pushes \subseteq Providers \X Pushed
  /\ deletes \subseteq Hosts /\ caching \in [Providers -> Transfers]
BooksTyped ==
  /\ {confirmed, savedConfirmed} \subseteq (SUBSET Providers) \cup {Untracked}
  /\ \A pr \in proofs : pr.asked \cup pr.served \subseteq Providers /\ pr.asked \cap pr.served = {}
  /\ {published, withdrawn, pendingCids, released} \subseteq BOOLEAN
EvidenceTyped ==
  /\ misses \in Streaks /\ fails \in Streaks /\ seen \in [Providers -> BOOLEAN] /\ warmup \in BOOLEAN
  /\ registered \subseteq Providers /\ target \in {Target, HotTarget} /\ budget \in [Events -> Nat]

\* Every variable has its type, and an idle provider has nothing left to do.
CustodyTypeOK ==
  /\ StoresTyped /\ WireTyped /\ BooksTyped /\ EvidenceTyped
  /\ \A p \in Providers : caching[p].busy \/ caching[p] = Idle

InCustody(c) == \E d \in Hosts \cup {Owner} : Holds(d, c)

\* storage-manager.ts, releasePublisherCopy: whatever is lost, reloaded, evicted
\* or shed, and although one device may lose its disk, the root of a published
\* file that was not withdrawn is stored somewhere.
RootNeverLost == published /\ ~withdrawn => InCustody(Root)

\* storage-manager.ts:1646-1649, "a holder that serves the root is a holder that
\* completed the transfer": no block of a published file is gone from every disk.
FileNeverLost == published /\ ~withdrawn /\ lost = {} => \A c \in Blocks : InCustody(c)

\* storage-manager.ts, handleReceipt and runSpotChecks: the owner counts no
\* provider that does not store the root, unless its disk was lost since.
CountedHoldersHold ==
  ~withdrawn => \A p \in Holders : Holds(DeviceOf[p], Root) \/ DeviceOf[p] \in lost

\* ARCHITECTURE.md, publish handoff: a published file is staged and retried until
\* MIN_REPLICAS live holders have it.
HandedOff == LiveDomains(Holders) >= MinReplicas
HandoffHappens == <>(HandedOff \/ withdrawn)
=============================================================================
