----------------------------- MODULE MCComponents -----------------------------
(***************************************************************************)
(* The other components of the node, its page and its relays, for TLC.     *)
(* They share no state that the models have, so they are checked apart: a  *)
(* behaviour of this module is one of one of them, and the variables v1,   *)
(* v2, ... are that component's, in the order it declares them.  The       *)
(* constants of each instance are its bounds.                              *)
(*                                                                         *)
(* Components whose invariants are proved are instances of the module with *)
(* the proofs (NetworkProofs and ServiceProofs are about several), and the   *)
(* last section says of the whole what those modules say of each: a step   *)
(* of the system is a step of the component that runs, so the inductive    *)
(* invariant proved for every value of the constants holds for the part.   *)
(***************************************************************************)
EXTENDS Integers, Sequences, FiniteSets, TLC, TLAPS

CONSTANTS r1, r2, r3, p1, p2, p3, a1, a2, a3, m1, m2, c1, c2, x1, nobody


VARIABLES
    part,   \* the component that runs in this behaviour
    v1, v2, v3, v4, v5, v6, v7, v8, v9, v10, v11, v12, v13, v14, v15, v16,
    v17, v18   \* its variables

slots == <<v1, v2, v3, v4, v5, v6, v7, v8, v9, v10, v11, v12, v13, v14,
           v15, v16, v17, v18>>

\* The second node of the legacy ledger holds the first one's key too.
DagKeys == p1 :> {a1} @@ p2 :> {a1, a2}
\* Two visits for one account and one for another, of one human or of two.
VisitsFor == "v1" :> a1 @@ "v2" :> a1 @@ "v3" :> a2
OneFace == [v \in {"v1", "v2", "v3"} |-> m1]
TwoFaces == "v1" :> m1 @@ "v2" :> m1 @@ "v3" :> m2

\* One block each for the content of the two files.
OnePart == [m \in {m1, m2} |-> IF m = m1 THEN {c1} ELSE {c2}]
\* p1 has everything, p2 the content blocks alone, whole or torn.
Copies(p, b, copy) == IF p = p1 THEN "whole" ELSE IF b \in {c1, c2} THEN copy ELSE "none"
FullAndPart == {[p \in {p1, p2} |-> [b \in {m1, m2, c1, c2} |-> Copies(p, b, copy)]] :
                  copy \in {"whole", "torn"}}

\* Two accounts on one machine, one of a device that names none.
InOrder == <<p1, p2, p3>>
TwoOnOne == p1 :> "m1" @@ p2 :> "m1" @@ p3 :> "none"
\* A genesis, then a mint and sends.
MintAtOne == [i \in 0..6 |-> CASE i = 0 -> "open" [] i = 1 -> "nft-mint" [] OTHER -> "send"]
\* Versions of growing and of shrinking size: a wipe empties the store.
GrowsThenShrinks == [v \in 0..2 |-> IF v = 1 THEN 2 ELSE 1]

\* Two people: k1, k2 and k3 are keys of the first.
TwoPeople == [k \in {"k1", "k2", "k3", "k4"} |-> IF k = "k4" THEN "bob" ELSE "ann"]

\* The events of a recovery-share run, and how often each may strike.
ShareEvents == {"splits", "outages", "crashes", "cuts", "lost", "guesses", "wipes"}
Strikes(n) == [e \in ShareEvents |-> IF e \in DOMAIN n THEN n[e] ELSE 0]
ShareBudgets == {Strikes([splits |-> 2, outages |-> 1, lost |-> 1, cuts |-> 1]),
                 Strikes([splits |-> 1, guesses |-> 4, wipes |-> 1]),
                 Strikes([guesses |-> 2, crashes |-> 1, wipes |-> 1])}

Services == INSTANCE ServiceProofs WITH
    count <- v1, session <- v2, verifying <- v3, pending <- v4,
    registry <- v5, opened <- v6, operators <- v7, disk <- v8,
    attested <- v9, swept <- v10, overtaken <- v11, interrupted <- v12,
    restarts <- v13, wipes <- v14, signed <- v1, parentOf <- v2,
    childrenOf <- v3, revoked <- v4, now <- v5, hasOpfs <- v1, holds <- v2,
    fs <- v3, opfs <- v4, marks <- v5, index <- v6, groups <- v7,
    fallbacks <- v8, reads <- v9, lastServedBy <- v10, own <- v11,
    taken <- v12, delivered <- v13, ops <- v14, started <- v15,
    owner <- v1, stage <- v2, held <- v3, mail <- v4, work <- v5,
    counted <- v6, stored <- v1, temporary <- v2, used <- v3, calls <- v4,
    length <- v5, hot <- v6, archived <- v7, raced <- v8, found <- v9,
    storeCrashes <- v10, inMemory <- v1, saved <- v2, crowded <- v3,
    suspect <- v4, step <- v5, data <- v6, fd <- v7, tmp <- v8, file <- v9,
    bak <- v10, content <- v11, versions <- v12, fileCrashes <- v13,
    Visits <- {"v1", "v2", "v3"}, AccountOf <- VisitsFor,
    HumanOf <- OneFace, Names <- {x1}, FaceMax <- 2, OperatorCount <- 2,
    MaxRestarts <- 1, MaxWipes <- 0, Keys <- {"k1", "k2", "k3", "k4"},
    PersonOf <- TwoPeople, Expiries <- {1}, MaxTime <- 1,
    Parts <- {"ann", "phone", "Bad"}, Clean <- {"ann", "phone"},
    Roots <- {m1, m2}, Contents <- {c1, c2}, BlocksOf <- OnePart,
    LargeFiles <- {m1}, BigBlocks <- {c1, c2}, PublicFiles <- {m1},
    Peers <- {p1, p2}, Nobody <- nobody, Holdings <- FullAndPart,
    Priorities <- {<<>>, <<p1>>}, Readers <- {r1}, MaxFallbacks <- 1,
    MaxParallel <- 2, MaxOps <- 3, MaxReads <- 1, Holders <- {p1, p2},
    Old <- {m1, c1}, New <- {m2, c1}, OldRoot <- m1, Enough <- 1,
    Callers <- {p1, p2}, Chunks <- {c1, c2}, Releasable <- {c1},
    Quota <- 2, HotWindow <- 1, MaxLength <- 2, MaxDrift <- 0,
    MaxStoreCrashes <- 1, Writers <- {p1, p2}, MaxVersion <- 2,
    Size <- GrowsThenShrinks, MaxFileCrashes <- 1

Net == INSTANCE NetworkProofs WITH
    epoch <- v1, operators <- v2, phase <- v3, generation <- v4,
    known <- v5, database <- v6, ledger <- v7, wallet <- v8, inbox <- v9,
    issued <- v10, created <- v11, told <- v12, reloads <- v13, now <- v1,
    index <- v2, loops <- v3, archive <- v4, onDisk <- v5, held <- v6,
    kept <- v7, forgotten <- v8, restarts <- v9, chain <- v1,
    archived <- v2, applied <- v3, discovered <- v4, beacons <- v5,
    presence <- v6, smokeAddr <- v7, clock <- v8, session <- v1,
    localKeys <- v2, nodeWatched <- v3, netWatched <- v4, callbacks <- v5,
    inboxSubs <- v6, shards <- v7, shardSubs <- v8, processedInbox <- v9,
    signal <- v10, claiming <- v11, chainAsked <- v12, memory <- v13,
    wire <- v14, ownSaving <- v15, disk <- v16, starts <- v17,
    loads <- v18, owner <- v1, age <- v2, tab <- v3, beating <- v4,
    since <- v5, excused <- v6, up <- v1, online <- v2, fails <- v3,
    stored <- v4, stale <- v5, list <- v6, linked <- v7, running <- v8,
    missed <- v9, announced <- v10, outages <- v11, seconds <- v1,
    bucket <- v2, admitted <- v3, processed <- v4, saving <- v5,
    counter <- v6, rows <- v7, delivered <- v8, dirty <- v9,
    watermark <- v10, resyncing <- v11, batch <- v12, ticks <- v1,
    log <- v2, unswept <- v3, answers <- v4, keys <- v1, recent <- v2,
    fetches <- v3, asks <- v4, lastMinute <- v5, wipes <- v6,
    Relays <- {r1, r2}, Devices <- {p1, p2}, Accounts <- {a1},
    OperatorCount <- 1, MaxGeneration <- 1, MaxReloads <- 1,
    Owners <- {m1}, FileRelays <- {r1, r2}, Retain <- 1, Attempts <- 1,
    MaxTime <- 3, MaxRelayRestarts <- 2, Providers <- {p1}, Held <- {p1},
    Archives <- {r1, r2}, Limit <- 1, Window <- 1, Announcing <- {p1},
    MaxChain <- 2, MaxClock <- 2, Wallet <- {"a1", "a2"}, Sends <- {"s1"},
    To <- [s \in {"s1"} |-> "a1"], From <- [s \in {"s1"} |-> 2],
    ShardOf <- [a \in {"a1", "a2"} |-> IF a = "a1" THEN 1 ELSE 3],
    OwnBlocks <- {"b1"}, MaxStarts <- 2, MaxLoads <- 1,
    Tabs <- {"t1", "t2", "t3"}, Heartbeat <- 2, Stale <- 5,
    Clients <- {p1}, KnownRelays <- {r1, r2}, RelayFailEvict <- 2,
    DialWidth <- 1, MaxAnnounce <- 2, MaxOutages <- 2, Senders <- {"s1"},
    GossipBlocks <- {m1, m2}, BucketSize <- 2, RefillRate <- 1,
    MaxProcessed <- 1, MaxSeconds <- 2, MaxWrites <- 3,
    Addresses <- {p1, p2}, Local <- {p2}, MaxPerWindow <- 2,
    LimitWindow <- 1, MaxTicks <- 3, MaxCount <- 3,
    RecordKeys <- {"k1", "k2"}, ChainKeys <- {"k3"}, MaxInFlight <- 1,
    MaxPerMinute <- 2, MaxAttempts <- 2, AskMinute <- 2, FlightTtl <- 2,
    ForgetAfter <- 6, FetchTime <- 1, MaxWipes <- 1

OtherServices == INSTANCE ServiceProofs WITH
    count <- v1, session <- v2, verifying <- v3, pending <- v4,
    registry <- v5, opened <- v6, operators <- v7, disk <- v8,
    attested <- v9, swept <- v10, overtaken <- v11, interrupted <- v12,
    restarts <- v13, wipes <- v14, signed <- v1, parentOf <- v2,
    childrenOf <- v3, revoked <- v4, now <- v5, hasOpfs <- v1, holds <- v2,
    fs <- v3, opfs <- v4, marks <- v5, index <- v6, groups <- v7,
    fallbacks <- v8, reads <- v9, lastServedBy <- v10, own <- v11,
    taken <- v12, delivered <- v13, ops <- v14, started <- v15,
    owner <- v1, stage <- v2, held <- v3, mail <- v4, work <- v5,
    counted <- v6, stored <- v1, temporary <- v2, used <- v3, calls <- v4,
    length <- v5, hot <- v6, archived <- v7, raced <- v8, found <- v9,
    storeCrashes <- v10, inMemory <- v1, saved <- v2, crowded <- v3,
    suspect <- v4, step <- v5, data <- v6, fd <- v7, tmp <- v8, file <- v9,
    bak <- v10, content <- v11, versions <- v12, fileCrashes <- v13,
    Visits <- {"v1", "v2", "v3"}, AccountOf <- VisitsFor,
    HumanOf <- TwoFaces, Names <- {x1}, FaceMax <- 2, OperatorCount <- 2,
    MaxRestarts <- 0, MaxWipes <- 1, Keys <- {"k1", "k2", "k3", "k4"},
    PersonOf <- TwoPeople, Expiries <- {1}, MaxTime <- 1,
    Parts <- {"ann", "phone", "Bad"}, Clean <- {"ann", "phone"},
    Roots <- {m1, m2}, Contents <- {c1, c2}, BlocksOf <- OnePart,
    LargeFiles <- {m1}, BigBlocks <- {c1, c2}, PublicFiles <- {m1},
    Peers <- {p1, p2}, Nobody <- nobody, Holdings <- FullAndPart,
    Priorities <- {<<>>, <<p1>>}, Readers <- {r1}, MaxFallbacks <- 1,
    MaxParallel <- 2, MaxOps <- 3, MaxReads <- 1, Holders <- {p1, p2},
    Old <- {m1, c1}, New <- {m2, c1}, OldRoot <- m1, Enough <- 1,
    Callers <- {p1, p2}, Chunks <- {c1}, Releasable <- {}, Quota <- 5,
    HotWindow <- 1, MaxLength <- 4, MaxDrift <- 0, MaxStoreCrashes <- 1,
    Writers <- {p1, p2}, MaxVersion <- 2, Size <- GrowsThenShrinks,
    MaxFileCrashes <- 1

Domains == INSTANCE FailureDomains WITH
    known <- v1, up <- v2, down <- v3, calibrated <- v4, cache <- v5,
    bucket <- v6,
    InOrder <- InOrder, DeviceOf <- TwoOnOne, MinJoint <- 1, Retain <- 1,
    MaxBucket <- 1, CountedSets <- {{p1}}

Calib == INSTANCE Calibration WITH
    samples <- v1, measuredAt <- v2, rung <- v3, now <- v4,
    Ladder <- <<1, 2, 4>>, MinSamples <- 3, MinProbers <- 3,
    MaxPerLevel <- 4, Latencies <- {1, 4}, Me <- "me", Ttl <- 1,
    MaxTime <- 2

Plan == INSTANCE SaturationPlan WITH
    caps <- v1, demand <- v2, last <- v3,
    Capacities <- {2, 8}, Floor <- 1, Cap <- 5, Hysteresis <- 1,
    MaxDemand <- 9

Content == INSTANCE Manifests WITH
    content <- v1, manifest <- v2, wire <- v3, decoded <- v4, held <- v5,
    read <- v6,
    Bytes <- {0, 1}, MaxLength <- 3, ChunkSizes <- {1, 2}

Ring == INSTANCE ChordRing WITH
    nodes <- v1, index <- v2, at <- v3, target <- v4, hops <- v5,
    found <- v6,
    Bits <- 3, MaxNodes <- 6, Cids <- {0, 3}, K <- 2

History == INSTANCE HistoryProofs WITH
    main <- v1, fork <- v2,
    MaxLength <- 6, TypeAt <- MintAtOne

Shares == INSTANCE RecoveryShares WITH
    share <- v1, saved <- v2, fails <- v3, locked <- v4, up <- v5,
    clock <- v6, cached <- v7, job <- v8, wire <- v9, guessed <- v10,
    budget <- v11,
    Relays <- {r1, r2, r3}, Bases <- <<r1, r2, r3>>, Attesting <- {r2, r3},
    Familiar <- {r1}, Devices <- {a1}, FreeAttempts <- 2,
    Budgets <- ShareBudgets

Blobs == INSTANCE KeyBlobs WITH
    blobs <- v1, recs <- v2, dev <- v3, pc <- v4, clock <- v5, seals <- v6,
    faults <- v7, changed <- v8,
    Relays <- {r1, r2}, Devices <- {a1}, FirstKinds <- {"face", "split"},
    MaxSeals <- 3, MaxClock <- 3, MaxVersion <- 2, MaxFaults <- 1,
    FreeAttempts <- 0

NetPages == INSTANCE NetworkProofs WITH
    epoch <- v1, operators <- v2, phase <- v3, generation <- v4,
    known <- v5, database <- v6, ledger <- v7, wallet <- v8, inbox <- v9,
    issued <- v10, created <- v11, told <- v12, reloads <- v13, now <- v1,
    index <- v2, loops <- v3, archive <- v4, onDisk <- v5, held <- v6,
    kept <- v7, forgotten <- v8, restarts <- v9, chain <- v1,
    archived <- v2, applied <- v3, discovered <- v4, beacons <- v5,
    presence <- v6, smokeAddr <- v7, clock <- v8, session <- v1,
    localKeys <- v2, nodeWatched <- v3, netWatched <- v4, callbacks <- v5,
    inboxSubs <- v6, shards <- v7, shardSubs <- v8, processedInbox <- v9,
    signal <- v10, claiming <- v11, chainAsked <- v12, memory <- v13,
    wire <- v14, ownSaving <- v15, disk <- v16, starts <- v17,
    loads <- v18, owner <- v1, age <- v2, tab <- v3, beating <- v4,
    since <- v5, excused <- v6, up <- v1, online <- v2, fails <- v3,
    stored <- v4, stale <- v5, list <- v6, linked <- v7, running <- v8,
    missed <- v9, announced <- v10, outages <- v11, seconds <- v1,
    bucket <- v2, admitted <- v3, processed <- v4, saving <- v5,
    counter <- v6, rows <- v7, delivered <- v8, dirty <- v9,
    watermark <- v10, resyncing <- v11, batch <- v12, ticks <- v1,
    log <- v2, unswept <- v3, answers <- v4, keys <- v1, recent <- v2,
    fetches <- v3, asks <- v4, lastMinute <- v5, wipes <- v6,
    Relays <- {r1}, Devices <- {p1, p2}, Accounts <- {a1, a2},
    OperatorCount <- 1, MaxGeneration <- 1, MaxReloads <- 1,
    Owners <- {m1}, FileRelays <- {r1, r2}, Retain <- 1, Attempts <- 1,
    MaxTime <- 3, MaxRelayRestarts <- 2, Providers <- {p1}, Held <- {p1},
    Archives <- {r1, r2}, Limit <- 1, Window <- 1, Announcing <- {p1},
    MaxChain <- 2, MaxClock <- 2, Wallet <- {"a1", "a2"}, Sends <- {"s1"},
    To <- [s \in {"s1"} |-> "a1"], From <- [s \in {"s1"} |-> 2],
    ShardOf <- [a \in {"a1", "a2"} |-> IF a = "a1" THEN 1 ELSE 3],
    OwnBlocks <- {"b1"}, MaxStarts <- 2, MaxLoads <- 1,
    Tabs <- {"t1", "t2", "t3"}, Heartbeat <- 2, Stale <- 5,
    Clients <- {p1, p2}, KnownRelays <- {r1}, RelayFailEvict <- 2,
    DialWidth <- 1, MaxAnnounce <- 1, MaxOutages <- 1, Senders <- {"s1"},
    GossipBlocks <- {m1, m2}, BucketSize <- 2, RefillRate <- 1,
    MaxProcessed <- 1, MaxSeconds <- 2, MaxWrites <- 3,
    Addresses <- {p1, p2}, Local <- {p2}, MaxPerWindow <- 2,
    LimitWindow <- 1, MaxTicks <- 3, MaxCount <- 3,
    RecordKeys <- {"k1", "k2"}, ChainKeys <- {"k3"}, MaxInFlight <- 1,
    MaxPerMinute <- 2, MaxAttempts <- 2, AskMinute <- 2, FlightTtl <- 2,
    ForgetAfter <- 6, FetchTime <- 1, MaxWipes <- 1

Dag == INSTANCE DagLedger WITH
    made <- v1, has <- v2, chain <- v3, unclaimed <- v4, registered <- v5,
    confirmed <- v6, rejected <- v7, tallies <- v8, votes <- v9,
    Nodes <- {p1, p2}, Accounts <- {a1, a2}, KeysOf <- DagKeys,
    LockedOut <- [n \in {p1, p2} |-> {}], Mint <- 2, Amounts <- {1},
    MaxBlocks <- 5, MaxSiblings <- 2

Replica == INSTANCE PartialReplica WITH
    source <- v1, replica <- v2, wants <- v3, turns <- v4,
    Devices <- {p1, p2}, Labels <- {"x", "y"}, MaxLength <- 3,
    WrongAt <- {1, 2}, MaxTurns <- 2

Demand == INSTANCE DemandWindow WITH
    now <- v1, back <- v2, entry <- v3, made <- v4, sampled <- v5,
    Buckets <- 3, MaxTime <- 7, MaxBack <- 2, MaxReads <- 3

Stream == INSTANCE StreamPlayback WITH
    page <- v1, keys <- v2, playing <- v3, listeners <- v4, emptying <- v5,
    posts <- v6, registry <- v7, gone <- v8, request <- v9, answer <- v10,
    pull <- v11, faults <- v12,
    Size <- 5, ChunkSize <- 2, Encrypted <- TRUE, MaxLoads <- 1,
    MaxPosts <- 1, MaxFaults <- 1

StreamReload == INSTANCE StreamPlayback WITH
    page <- v1, keys <- v2, playing <- v3, listeners <- v4, emptying <- v5,
    posts <- v6, registry <- v7, gone <- v8, request <- v9, answer <- v10,
    pull <- v11, faults <- v12,
    Size <- 1, ChunkSize <- 1, Encrypted <- FALSE, MaxLoads <- 2,
    MaxPosts <- 2, MaxFaults <- 1

Pin == INSTANCE PinGate WITH
    now <- v1, record <- v2, cached <- v3, dialog <- v4, read <- v5,
    guesses <- v6, sent <- v7, notices <- v8,
    Dialogs <- {"d1"}, Peers <- {"p1"}, FreeAttempts <- 1, MaxDelay <- 4,
    CacheTtl <- 1, Fresh <- 2, MaxFails <- 3, MaxTime <- 5

\* The components, and which of the variables are their own.
Own == [Smoke |-> 1..15, Index |-> 1..9, ChunkStore |-> 1..10,
        ChainStore |-> 1..10, Domains |-> 1..6, Calib |-> 1..4,
        Plan |-> 1..3, Discovery |-> 1..8, Content |-> 1..6, Ring |-> 1..6,
        History |-> 1..2, File |-> 1..13, Faces |-> 1..14,
        WipedFaces |-> 1..14, Shares |-> 1..11, Blobs |-> 1..8,
        Reset |-> 1..13, ResetPages |-> 1..13, Dag |-> 1..9,
        RelayNews |-> 1..11, RelayDials |-> 1..11, Backfill |-> 1..6,
        Replica |-> 1..4, Subs |-> 1..5, Session |-> 1..18,
        Demand |-> 1..5, Stream |-> 1..12, StreamReload |-> 1..12,
        Limiter |-> 1..4, Tab |-> 1..6, Pin |-> 1..8, Gate |-> 1..12,
        Swap |-> 1..6]

Free(k) == k \notin Own[part]
NoneUsed ==
    /\ (Free(3) => v3 = 0) /\ (Free(4) => v4 = 0) /\ (Free(5) => v5 = 0)
    /\ (Free(6) => v6 = 0) /\ (Free(7) => v7 = 0) /\ (Free(8) => v8 = 0)
    /\ (Free(9) => v9 = 0) /\ (Free(10) => v10 = 0) /\ (Free(11) => v11 = 0)
    /\ (Free(12) => v12 = 0) /\ (Free(13) => v13 = 0) /\ (Free(14) => v14 = 0)
    /\ (Free(15) => v15 = 0) /\ (Free(16) => v16 = 0) /\ (Free(17) => v17 = 0)
    /\ (Free(18) => v18 = 0)
NoneChanged ==
    /\ (Free(3) => UNCHANGED v3) /\ (Free(4) => UNCHANGED v4) /\ (Free(5) => UNCHANGED v5)
    /\ (Free(6) => UNCHANGED v6) /\ (Free(7) => UNCHANGED v7) /\ (Free(8) => UNCHANGED v8)
    /\ (Free(9) => UNCHANGED v9) /\ (Free(10) => UNCHANGED v10) /\ (Free(11) => UNCHANGED v11)
    /\ (Free(12) => UNCHANGED v12) /\ (Free(13) => UNCHANGED v13) /\ (Free(14) => UNCHANGED v14)
    /\ (Free(15) => UNCHANGED v15) /\ (Free(16) => UNCHANGED v16) /\ (Free(17) => UNCHANGED v17)
    /\ (Free(18) => UNCHANGED v18)

Init ==
    /\ part \in DOMAIN Own
    /\ CASE part = "Smoke" -> Services!Smoke!Init
         [] part = "Index" -> Net!IndexInit
         [] part = "ChunkStore" -> Services!Archive!StoreInit
         [] part = "ChainStore" -> OtherServices!Archive!StoreInit
         [] part = "Domains" -> Domains!DomainInit
         [] part = "Calib" -> Calib!CalibrationInit
         [] part = "Plan" -> Plan!PlanInit
         [] part = "Discovery" -> Net!DiscoveryInit
         [] part = "Content" -> Content!ManifestInit
         [] part = "Ring" -> Ring!RingInit
         [] part = "History" -> History!HistoryInit
         [] part = "File" -> Services!File!FileInit
         [] part = "Faces" -> Services!AttesterInit
         [] part = "WipedFaces" -> OtherServices!AttesterInit
         [] part = "Shares" -> Shares!SharesInit
         [] part = "Blobs" -> Blobs!Init
         [] part = "Reset" -> Net!ResetInit
         [] part = "ResetPages" -> NetPages!ResetInit
         [] part = "Dag" -> Dag!Init
         [] part = "RelayNews" -> NetPages!Table!RelayInit
         [] part = "RelayDials" -> Net!Table!RelayInit
         [] part = "Backfill" -> Net!Asking!BackfillInit
         [] part = "Replica" -> Replica!ReplicaInit
         [] part = "Subs" -> Services!SubInit
         [] part = "Session" -> Net!Session!SessionInit
         [] part = "Demand" -> Demand!DemandInit
         [] part = "Stream" -> Stream!StreamInit
         [] part = "StreamReload" -> StreamReload!StreamInit
         [] part = "Limiter" -> Net!Limiter!LimiterInit
         [] part = "Tab" -> Net!Tab!TabInit
         [] part = "Pin" -> Pin!PinInit
         [] part = "Gate" -> Net!Gate!GateInit
         [] part = "Swap" -> Services!Swap!ReplaceInit
    /\ NoneUsed
Next ==
    /\ \/ part = "Smoke" /\ Services!Smoke!Next
       \/ part = "Index" /\ Net!IndexNext
       \/ part = "ChunkStore" /\ Services!Archive!StoreNext
       \/ part = "ChainStore" /\ OtherServices!Archive!StoreNext
       \/ part = "Domains" /\ Domains!DomainNext
       \/ part = "Calib" /\ Calib!CalibrationNext
       \/ part = "Plan" /\ Plan!PlanNext
       \/ part = "Discovery" /\ Net!DiscoveryNext
       \/ part = "Content" /\ Content!ManifestNext
       \/ part = "Ring" /\ Ring!RingNext
       \/ part = "History" /\ History!HistoryNext
       \/ part = "File" /\ Services!File!FileNext
       \/ part = "Faces" /\ Services!AttesterNext
       \/ part = "WipedFaces" /\ OtherServices!AttesterNext
       \/ part = "Shares" /\ Shares!SharesNext
       \/ part = "Blobs" /\ Blobs!Next
       \/ part = "Reset" /\ Net!ResetNext
       \/ part = "ResetPages" /\ NetPages!ResetNext
       \/ part = "Dag" /\ Dag!Next
       \/ part = "RelayNews" /\ NetPages!Table!RelayNext
       \/ part = "RelayDials" /\ Net!Table!RelayNext
       \/ part = "Backfill" /\ Net!Asking!BackfillNext
       \/ part = "Replica" /\ Replica!ReplicaNext
       \/ part = "Subs" /\ Services!SubNext
       \/ part = "Session" /\ Net!Session!SessionNext
       \/ part = "Demand" /\ Demand!DemandNext
       \/ part = "Stream" /\ Stream!StreamNext
       \/ part = "StreamReload" /\ StreamReload!StreamNext
       \/ part = "Limiter" /\ Net!Limiter!LimiterNext
       \/ part = "Tab" /\ Net!Tab!TabNext
       \/ part = "Pin" /\ Pin!PinNext
       \/ part = "Gate" /\ Net!Gate!GateNext
       \/ part = "Swap" /\ Services!Swap!ReplaceNext
    /\ UNCHANGED part
    /\ NoneChanged


Spec == Init /\ [][Next]_<<part, slots>>

----------------------------------------------------------------------------
(* Every component keeps its types.                                         *)
ComponentsTypeOK ==
    /\ part = "Smoke" => Services!Smoke!SmokeTypeOK
    /\ part = "Index" => Net!IndexTypeOK
    /\ part = "ChunkStore" => Services!Archive!StoreTypeOK
    /\ part = "ChainStore" => OtherServices!Archive!StoreTypeOK
    /\ part = "Domains" => Domains!DomainTypeOK
    /\ part = "Calib" => Calib!CalibrationTypeOK
    /\ part = "Plan" => Plan!PlanTypeOK
    /\ part = "Discovery" => Net!DiscoveryTypeOK
    /\ part = "Ring" => Ring!RingTypeOK
    /\ part = "History" => History!HistoryTypeOK
    /\ part = "File" => Services!File!FileTypeOK
    /\ part = "Faces" => Services!AttesterTypeOK
    /\ part = "WipedFaces" => OtherServices!AttesterTypeOK
    /\ part = "Shares" => Shares!SharesTypeOK
    /\ part = "Blobs" => Blobs!KeyBlobsTypeOK
    /\ part = "Reset" => Net!ResetTypeOK
    /\ part = "ResetPages" => NetPages!ResetTypeOK
    /\ part = "Dag" => Dag!DagTypeOK
    /\ part = "RelayNews" => NetPages!Table!RelayTypeOK
    /\ part = "RelayDials" => Net!Table!RelayTypeOK
    /\ part = "Backfill" => Net!Asking!BackfillTypeOK
    /\ part = "Replica" => Replica!ReplicaTypeOK
    /\ part = "Subs" => Services!SubTypeOK
    /\ part = "Session" => Net!Session!SessionTypeOK
    /\ part = "Limiter" => Net!Limiter!LimiterTypeOK
    /\ part = "Demand" => Demand!DemandTypeOK
    /\ part = "Stream" => Stream!StreamTypeOK
    /\ part = "StreamReload" => StreamReload!StreamTypeOK
    /\ part = "Tab" => Net!Tab!TabTypeOK
    /\ part = "Pin" => Pin!PinTypeOK
    /\ part = "Gate" => Net!Gate!GateTypeOK

(* A store keeps what it said it keeps: the device its own files, a peer is *)
(* credited only for blocks it delivered, the block archive keeps every     *)
(* block, and its quota while calls do not overlap, a holder whose receipt  *)
(* for a replacement is out has what is new in it, the relay's file reads   *)
(* as one whole saved version at every crash, and as the last one, while    *)
(* its saves do not overlap (smoke-store.ts, content-store.ts, archiving-   *)
(* store.ts, storage-manager.ts handleReplaceRequest, relay/server.ts       *)
(* saveJSON).                                                               *)
StoresKeepTheirWord ==
    /\ part = "Smoke" => Services!Smoke!OwnFilesIntact
    /\ part = "Smoke" => Services!Smoke!CreditDelivered
    /\ part = "ChunkStore" => Services!Archive!DiskWithinQuota
    /\ part = "ChainStore" => OtherServices!Archive!NothingLost
    /\ part = "Swap" => Services!Swap!CountedHoldTheNew
    /\ part = "File" => Services!File!CrashReadsASave

(* A withdrawal is not undone by what was said before it: of a file from    *)
(* the index, unless a restart lost it before it was flushed, of a provider *)
(* that deregistered (relay/server.ts archiveFileRecord, account-           *)
(* resolver.ts fetchProviders, provider-discovery.ts).                      *)
WithdrawalsStick ==
    /\ part = "Index" => Net!NoStaleRevival
    /\ part = "Discovery" => Net!DepartureSettles

(* What placement is decided from: the failure domains are the closure of   *)
(* the pairs that fail together, the knee is a level that was served, a     *)
(* plan has the capacity it was asked for, and a read rate is what was read *)
(* in its window (failure-domain.ts, calibration.ts, device-capacity.ts,    *)
(* custody.ts).                                                             *)
PlacementIsSound ==
    /\ part = "Domains" => Domains!DomainsAreClosures
    /\ part = "Calib" => Calib!KneeHolds
    /\ part = "Plan" => Plan!PlanIsEnough
    /\ part = "Demand" => Demand!DemandIsMeasured

(* An address leads to its content: a manifest read back gives the bytes    *)
(* that were stored and keeps its address on the wire, a lookup ends at the *)
(* node that keeps the record in at most one hop per bit, a packet of a     *)
(* pruned history proves it, and a range of a large file is exactly those   *)
(* bytes (chunking.ts, dht.ts, accumulator.ts, smoke-store.ts               *)
(* getChunkBytes, sw.js).                                                   *)
AddressesResolve ==
    /\ part = "Content" => Content!ReadsAreTheContent
    /\ part = "Content" => Content!OwnAddressSurvives
    /\ part = "Ring" => Ring!RoutesInLogHops
    /\ part = "Ring" => Ring!RoutesToTheRecord
    /\ part = "History" => History!PacketsProveMembership
    /\ part = "Stream" => Stream!RangesAreExact
    /\ part = "StreamReload" => StreamReload!RangesAreExact

(* People are counted once: a face holds the slots it was given, and burns  *)
(* none but to a repeated verification of one account, whatever fails or    *)
(* expires between a verification and its open block; a delegation has      *)
(* depth one and hides no human (relay/server.ts verify and archive         *)
(* handlers, sub-accounts.ts).                                              *)
PeopleAreCounted ==
    /\ part = "Faces" => Services!SlotsHeld
    /\ part = "WipedFaces" => OtherServices!SlotsHeld
    /\ part = "Faces" => Services!NoSlotBurnt
    /\ part = "WipedFaces" => OtherServices!NoSlotBurnt
    /\ part = "Subs" => Services!DepthIsOne
    /\ part = "Subs" => Services!NoHumanLost
    /\ part = "Subs" => Services!NamesAgree

(* A secret stays recoverable and is not guessed freely: a session that     *)
(* distributes recovery shares leaves two holders of one generation, a      *)
(* changed PIN or face is not undone by an older copy of the key blob, a    *)
(* relay releases no share to a guess it did not count, and the page tests  *)
(* no PIN while the account is locked (recovery-share.ts, main.ts           *)
(* saveKeyBlob and requirePin, pin-crypto.ts, relay/server.ts).             *)
SecretsAreKept ==
    /\ part = "Shares" => Shares!SessionKeepsPair
    /\ part = "Blobs" => Blobs!ChangeSticks
    /\ part = "Shares" => Shares!NoFreeGuesses
    /\ part = "Pin" => Pin!NoTestWhileLocked

(* A reset that a running page hears clears the wallet with the rest, and   *)
(* only the operators' quorum starts one (relay/server.ts                   *)
(* performNetworkWipe, main.ts applyReset).                                 *)
ResetsAreComplete ==
    /\ part = "Reset" => Net!HeardResetClears
    /\ part = "ResetPages" => NetPages!HeardResetClears
    /\ part = "Reset" => Net!OnlyOperatorsReset
    /\ part = "ResetPages" => NetPages!OnlyOperatorsReset

(* Replicas agree: nodes that saw every vote keep the same winner of a      *)
(* conflict, a partial replica is a branch its account signed and starts at *)
(* the genesis (dag-ledger.ts, vote.ts, account-store.ts).                  *)
ReplicasAgree ==
    /\ part = "Dag" => Dag!WinnersAgree
    /\ part = "Replica" => Replica!ReplicaIsBranch
    /\ part = "Replica" => Replica!EntryHasGenesis

(* A node keeps what keeps it connected, at the rates it allows: a running  *)
(* node has its shards, one tab runs, no block that was delivered is        *)
(* stranded outside the ledger, a relay is evicted on consecutive failures  *)
(* only; questions to peers and bursts from them are bounded, and sweeping  *)
(* expired windows changes no decision (node.ts, tab-lock.ts, archive       *)
(* backfill, window-limiter.ts, libp2p-network.ts).                         *)
NodeStaysConnected ==
    /\ part = "Session" => Net!Session!ShardsHeld
    /\ part = "Tab" => Net!Tab!OneTabRuns
    /\ part = "Gate" => Net!Gate!NothingIsStranded
    /\ part = "Gate" => Net!Gate!BurstIsBounded
    /\ part = "RelayNews" => NetPages!Table!CountIsConsecutive
    /\ part = "RelayDials" => Net!Table!CountIsConsecutive
    /\ part = "Backfill" => Net!Asking!AsksAreBounded
    /\ part = "Limiter" => Net!Limiter!SweepPreservesDecisions

-----------------------------------------------------------------------------
ResetsInv ==
  /\ part = "Reset" => Net!ResetInv
  /\ part = "ResetPages" => NetPages!ResetInv

WithdrawalsInv ==
  /\ part = "Index" => Net!WithdrawalInv
  /\ part = "Discovery" => Net!SignedOnly

PeopleInv ==
  /\ part = "Faces" => Services!AttesterInv
  /\ part = "WipedFaces" => OtherServices!AttesterInv
  /\ part = "Subs" => Services!SubInv

NodeInv ==
  /\ part = "Session" => Net!SessionInv
  /\ part = "Tab" => Net!TabInv
  /\ part = "RelayNews" => NetPages!TableInv
  /\ part = "RelayDials" => Net!TableInv
  /\ part = "Gate" => Net!BucketInv /\ Net!DedupInv
  /\ part = "Limiter" => Net!LimiterInv
  /\ part = "Backfill" => Net!BackfillInv

\* The constants of the parts: a user name differs from the mark for no name.
LEMMA PeopleConstants ==
  ASSUME x1 # "none"
  PROVE  Services!AttesterConstants /\ OtherServices!AttesterConstants /\ Services!SubConstants /\ Services!CleanConstants
<1> DEFINE A == <<"v1", "v2", "v3">>
           K == <<"k1", "k2", "k3", "k4">>
<1>1. /\ A \in Seq({"v1", "v2", "v3"}) /\ \A x \in {"v1", "v2", "v3"} : \E i \in 1..Len(A) : A[i] = x
      /\ K \in Seq({"k1", "k2", "k3", "k4"}) /\ \A x \in {"k1", "k2", "k3", "k4"} : \E i \in 1..Len(K) : K[i] = x
  OBVIOUS
<1> HIDE DEF A, K
<1>2. /\ Services!IsFiniteSet({"v1", "v2", "v3"}) /\ OtherServices!IsFiniteSet({"v1", "v2", "v3"})
      /\ Services!IsFiniteSet({"k1", "k2", "k3", "k4"})
  BY <1>1, Services!ListedIsFinite, OtherServices!ListedIsFinite
<1> QED
  BY <1>2 DEF Services!AttesterConstants, OtherServices!AttesterConstants, Services!SubConstants,
              Services!CleanConstants, Services!None, OtherServices!None

\* What a part does from the first state on, and the names of the variables.
LEMMA PartInit ==
  ASSUME Init
  PROVE  /\ part = "Reset" => Net!ResetInit
         /\ part = "ResetPages" => NetPages!ResetInit
         /\ part = "Index" => Net!IndexInit
         /\ part = "Discovery" => Net!DiscoveryInit
         /\ part = "Faces" => Services!AttesterInit
         /\ part = "WipedFaces" => OtherServices!AttesterInit
         /\ part = "Subs" => Services!SubInit
BY DEF Init

LEMMA PartStep ==
  ASSUME [Next]_<<part, slots>>
  PROVE  /\ UNCHANGED part
         /\ part = "Reset" => [Net!ResetNext]_Net!resetVars
         /\ part = "ResetPages" => [NetPages!ResetNext]_NetPages!resetVars
         /\ part = "Index" => [Net!IndexNext]_Net!indexVars
         /\ part = "Discovery" => [Net!DiscoveryNext]_Net!discoveryVars
         /\ part = "Faces" => [Services!AttesterNext]_Services!attVars
         /\ part = "WipedFaces" => [OtherServices!AttesterNext]_OtherServices!attVars
         /\ part = "Subs" => [Services!SubNext]_Services!subVars
BY DEF Next, slots, Net!resetVars, NetPages!resetVars, Net!indexVars, Net!discoveryVars, Services!attVars, OtherServices!attVars, Services!subVars

-----------------------------------------------------------------------------
LEMMA ResetsInvInit == ASSUME Init PROVE ResetsInv
BY PartInit, Net!ResetInitInv, NetPages!ResetInitInv DEF ResetsInv

LEMMA ResetsInvStep == ASSUME ResetsInv, [Next]_<<part, slots>> PROVE ResetsInv'
BY PartStep, Net!ResetStep, NetPages!ResetStep DEF ResetsInv

LEMMA ResetsInvHolds == ASSUME ResetsInv PROVE ResetsAreComplete
BY Net!YoungAreHeard, NetPages!YoungAreHeard DEF ResetsInv, ResetsAreComplete, Net!ResetInv, NetPages!ResetInv

\* A reset that a running page hears clears its wallet, and only an operator
\* raises a generation, on the networks of the run.
THEOREM ResetsComplete == Spec => []ResetsAreComplete
<1>1. Init => ResetsInv
  BY ResetsInvInit
<1>2. ResetsInv /\ [Next]_<<part, slots>> => ResetsInv'
  BY ResetsInvStep
<1>3. ResetsInv => ResetsAreComplete
  BY ResetsInvHolds
<1> QED BY <1>1, <1>2, <1>3, PTL DEF Spec

-----------------------------------------------------------------------------
LEMMA IndexConstants == Net!FileConstants
BY DEF Net!FileConstants

LEMMA WithdrawalsInvInit == ASSUME Init PROVE WithdrawalsInv
BY PartInit, IndexConstants, Net!IndexInitInv, Net!DiscoveryInitInv DEF WithdrawalsInv

LEMMA WithdrawalsInvStep == ASSUME WithdrawalsInv, [Next]_<<part, slots>> PROVE WithdrawalsInv'
<1>1. (part = "Index" => Net!WithdrawalInv') /\ (part = "Discovery" => Net!SignedOnly')
  BY PartStep, IndexConstants, Net!IndexStep, Net!DiscoveryStep DEF WithdrawalsInv
<1> QED BY <1>1, PartStep DEF WithdrawalsInv

\* A relay revives no file that it remembers as withdrawn, and an answer with
\* the end of a provider's chain in it settles that the provider left, in the
\* index and the chains of the run.
THEOREM WithdrawalsHold == Spec => []WithdrawalsStick
<1>1. Init => WithdrawalsInv
  BY WithdrawalsInvInit
<1>2. WithdrawalsInv /\ [Next]_<<part, slots>> => WithdrawalsInv'
  BY WithdrawalsInvStep
<1>3. WithdrawalsInv => WithdrawalsStick
  BY Net!CoveredIsNotRevived, Net!SignedSettles DEF WithdrawalsInv, WithdrawalsStick
<1> QED BY <1>1, <1>2, <1>3, PTL DEF Spec

-----------------------------------------------------------------------------
LEMMA PeopleInvInit == ASSUME x1 # "none", Init PROVE PeopleInv
BY PeopleConstants, PartInit, Services!AttesterInit_Inv, OtherServices!AttesterInit_Inv, Services!SubInitInv DEF PeopleInv

LEMMA PeopleInvStep == ASSUME x1 # "none", PeopleInv, [Next]_<<part, slots>> PROVE PeopleInv'
BY PeopleConstants, PartStep, Services!AttesterStep, OtherServices!AttesterStep, Services!SubStep DEF PeopleInv

LEMMA PeopleInvHolds == ASSUME x1 # "none", PeopleInv PROVE PeopleAreCounted
<1>1. (part = "Faces" => Services!SlotsHeld /\ Services!NoSlotBurnt)
      /\ (part = "WipedFaces" => OtherServices!SlotsHeld /\ OtherServices!NoSlotBurnt)
  BY PeopleConstants, Services!AttesterInvHolds, OtherServices!AttesterInvHolds DEF PeopleInv
<1>2. part = "Subs" => Services!DepthIsOne /\ Services!NoHumanLost /\ Services!NamesAgree
  BY PeopleConstants, Services!KeysCountPeople, Services!NamesDoAgree DEF PeopleInv, Services!SubInv
<1> QED BY <1>1, <1>2 DEF PeopleAreCounted

\* Faces hold the slots of their accounts and burn none, and delegations have
\* depth one and hide nobody, for the people of the run.
THEOREM PeopleCounted == ASSUME x1 # "none" PROVE Spec => []PeopleAreCounted
<1>1. Init => PeopleInv
  BY PeopleInvInit
<1>2. PeopleInv /\ [Next]_<<part, slots>> => PeopleInv'
  BY PeopleInvStep
<1>3. PeopleInv => PeopleAreCounted
  BY PeopleInvHolds
<1> QED BY <1>1, <1>2, <1>3, PTL DEF Spec

-----------------------------------------------------------------------------
LEMMA NodeConstants == Net!TabConstants /\ Net!GateConstants /\ Net!BackfillConstants
<1>1. \A a, b, d : Net!IsFiniteSet({a, b} \cup {d})
  <2> SUFFICES ASSUME NEW a, NEW b, NEW d PROVE Net!IsFiniteSet({a, b} \cup {d})
    OBVIOUS
  <2>1. {a, b} \cup {d} = {a, b, d}
    OBVIOUS
  <2>2. Net!IsFiniteSet({a, b, d})
    BY Net!ThreeAreFinite
  <2> QED BY <2>1, <2>2
<1>2. Net!IsFiniteSet({"k1", "k2"} \cup {"k3"}) /\ {"k1", "k2"} \cap {"k3"} = {}
  BY <1>1
<1>3. "none" \notin {"t1", "t2", "t3"}
  OBVIOUS
<1> QED BY <1>1, <1>2, <1>3 DEF Net!TabConstants, Net!GateConstants, Net!BackfillConstants

\* What the parts of a node do, and the names of their variables.
LEMMA NodeInit ==
  ASSUME Init
  PROVE  /\ part = "Session" => Net!Session!SessionInit
         /\ part = "Tab" => Net!Tab!TabInit
         /\ part = "RelayNews" => NetPages!Table!RelayInit
         /\ part = "RelayDials" => Net!Table!RelayInit
         /\ part = "Gate" => Net!Gate!GateInit
         /\ part = "Limiter" => Net!Limiter!LimiterInit
         /\ part = "Backfill" => Net!Asking!BackfillInit
BY DEF Init

LEMMA NodeMoves ==
  ASSUME [Next]_<<part, slots>>
  PROVE  /\ UNCHANGED part
         /\ part = "Session" => [Net!Session!SessionNext]_Net!Session!sessionVars
         /\ part = "Tab" => [Net!Tab!TabNext]_Net!Tab!tabVars
         /\ part = "RelayNews" => [NetPages!Table!RelayNext]_NetPages!Table!relayVars
         /\ part = "RelayDials" => [Net!Table!RelayNext]_Net!Table!relayVars
         /\ part = "Gate" => [Net!Gate!GateNext]_Net!Gate!gateVars
         /\ part = "Limiter" => [Net!Limiter!LimiterNext]_Net!Limiter!limiterVars
         /\ part = "Backfill" => [Net!Asking!BackfillNext]_Net!Asking!backfillVars
BY DEF Next, slots, Net!Session!sessionVars, Net!Session!inboxVars, Net!Session!shardVars, Net!Session!claimVars,
       Net!Session!blockVars, Net!Tab!tabVars, NetPages!Table!relayVars, Net!Table!relayVars, Net!Gate!gateVars,
       Net!Limiter!limiterVars, Net!Asking!backfillVars

LEMMA NodeInvInit == ASSUME Init PROVE NodeInv
BY NodeInit, NodeConstants, Net!SessionInitInv, Net!TabInitInv, NetPages!TableInitInv, Net!TableInitInv,
   Net!BucketInitInv, Net!DedupInitInv, Net!LimiterInitInv, Net!BackfillInitInv DEF NodeInv

LEMMA NodeInvStep == ASSUME NodeInv, [Next]_<<part, slots>> PROVE NodeInv'
<1>1. (part = "Session" => Net!SessionInv') /\ (part = "Tab" => Net!TabInv')
  BY NodeMoves, NodeConstants, Net!SessionStep, Net!TabStep DEF NodeInv
<1>2. (part = "RelayNews" => NetPages!TableInv') /\ (part = "RelayDials" => Net!TableInv')
  BY NodeMoves, NetPages!TableStep, Net!TableStep DEF NodeInv
<1>3. part = "Gate" => Net!BucketInv' /\ Net!DedupInv'
  BY NodeMoves, NodeConstants, Net!BucketStep, Net!DedupStep DEF NodeInv
<1>4. (part = "Limiter" => Net!LimiterInv') /\ (part = "Backfill" => Net!BackfillInv')
  BY NodeMoves, NodeConstants, Net!LimiterStep, Net!BackfillStep DEF NodeInv
<1> QED BY <1>1, <1>2, <1>3, <1>4, NodeMoves DEF NodeInv

LEMMA NodeInvHolds == ASSUME NodeInv PROVE NodeStaysConnected
BY NodeConstants, Net!ShardsAreHeld, Net!OwnerRunsAlone, NetPages!CountsAreConsecutive, Net!CountsAreConsecutive,
   Net!SpentWithinBurst, Net!DedupStrandsNothing, Net!SweepsAgree, Net!AsksFewEnough DEF NodeInv, NodeStaysConnected

\* A running node holds its shards in one tab, drops relays only for failures
\* in a row, strands no block it stored, and lets in and asks no more than its
\* limits, on the devices and relays of the run.
THEOREM NodeConnected == Spec => []NodeStaysConnected
<1>1. Init => NodeInv
  BY NodeInvInit
<1>2. NodeInv /\ [Next]_<<part, slots>> => NodeInv'
  BY NodeInvStep
<1>3. NodeInv => NodeStaysConnected
  BY NodeInvHolds
<1> QED BY <1>1, <1>2, <1>3, PTL DEF Spec

-----------------------------------------------------------------------------
\* The constants of the stores: roots and blocks differ, and no content block
\* is a number of the chain's blocks.
BlocksApart == {m1, m2} \cap {c1, c2} = {} /\ c1 \notin 0..3

LEMMA SmokeCopies == FullAndPart \subseteq [{p1, p2} -> [Services!Smoke!Cids -> Services!Smoke!Copies]]
<1>1. Services!Smoke!Cids = {m1, m2, c1, c2} /\ Services!Smoke!Copies = {"none", "torn", "whole"}
  BY DEF Services!Smoke!Cids, Services!Smoke!Copies
<1>2. \A p, b : \A copy \in {"whole", "torn"} : Copies(p, b, copy) \in {"none", "torn", "whole"}
  BY DEF Copies
<1> HIDE DEF Copies
<1> QED BY <1>1, <1>2 DEF FullAndPart

LEMMA StoresConstants ==
  ASSUME BlocksApart
  PROVE  /\ Services!SmokeConstants /\ Services!FileConstants
         /\ Services!StoreConstants
         /\ OtherServices!ArchiveConstants
<1>1. Services!SmokeConstants
  <2>1. \A r \in {m1, m2} : OnePart[r] \subseteq {c1, c2}
    BY DEF OnePart
  <2> QED BY <2>1, SmokeCopies DEF Services!SmokeConstants, BlocksApart
<1>2. Services!IsFiniteSet({p1, p2}) /\ OtherServices!IsFiniteSet({p1, p2}) /\ Services!FileConstants
  <2> DEFINE P == <<p1, p2>>
  <2>1. P \in Seq({p1, p2}) /\ \A x \in {p1, p2} : \E i \in 1..Len(P) : P[i] = x
    OBVIOUS
  <2> HIDE DEF P
  <2>2. Services!IsFiniteSet({p1, p2}) /\ OtherServices!IsFiniteSet({p1, p2})
    BY <2>1, Services!ListedIsFinite, OtherServices!ListedIsFinite
  <2> QED BY <2>2 DEF Services!FileConstants
<1>3. Services!StoreConstants
  <2> DEFINE C == <<c1, c2>>
  <2>1. C \in Seq({c1, c2}) /\ \A x \in {c1, c2} : \E i \in 1..Len(C) : C[i] = x
    OBVIOUS
  <2> HIDE DEF C
  <2>2. Services!IsFiniteSet({c1, c2})
    BY <2>1, Services!ListedIsFinite
  <2> QED BY <1>2, <2>2 DEF Services!StoreConstants
<1>4. OtherServices!ArchiveConstants
  <2>1. 3 \in Nat /\ c1 \notin 0..3 /\ (0..3) \cap {c1} = {}
    BY DEF BlocksApart
  <2>2. OtherServices!IsFiniteSet({c1}) /\ OtherServices!Cardinality((0..3) \cup {c1}) = 3 + 2
    BY <2>1, OtherServices!NumbersAndOne
  <2>3. OtherServices!StoreConstants
    BY <1>2, <2>2 DEF OtherServices!StoreConstants
  <2>4. OtherServices!Bodies = (0..3) \cup {c1}
    BY DEF OtherServices!Bodies
  <2> QED BY <2>1, <2>2, <2>3, <2>4 DEF OtherServices!ArchiveConstants
<1> QED BY <1>1, <1>2, <1>3, <1>4

StoresInv ==
  /\ part = "Smoke" => Services!SmokeInv
  /\ part = "ChunkStore" => Services!QuotaInv
  /\ part = "ChainStore" => OtherServices!ArchiveInv
  /\ part = "Swap" => Services!SwapInv
  /\ part = "File" => Services!FileInv

\* What a store does from the first state on, and the names of its variables.
LEMMA StoresInit ==
  ASSUME Init
  PROVE  /\ part = "Smoke" => Services!Smoke!Init
         /\ part = "ChunkStore" => Services!Archive!StoreInit
         /\ part = "ChainStore" => OtherServices!Archive!StoreInit
         /\ part = "Swap" => Services!Swap!ReplaceInit
         /\ part = "File" => Services!File!FileInit
BY DEF Init

LEMMA StoresMoves ==
  ASSUME [Next]_<<part, slots>>
  PROVE  /\ UNCHANGED part
         /\ part = "Smoke" => [Services!Smoke!Next]_Services!Smoke!vars
         /\ part = "ChunkStore" => [Services!Archive!StoreNext]_Services!Archive!storeVars
         /\ part = "ChainStore" => [OtherServices!Archive!StoreNext]_OtherServices!Archive!storeVars
         /\ part = "Swap" => [Services!Swap!ReplaceNext]_Services!Swap!replaceVars
         /\ part = "File" => [Services!File!FileNext]_Services!File!fileVars
BY DEF Next, slots, Services!Smoke!vars, Services!Smoke!disk, Services!Smoke!net, Services!Smoke!history,
       Services!Archive!storeVars, OtherServices!Archive!storeVars, Services!Swap!replaceVars, Services!File!fileVars

LEMMA StoresInvInit == ASSUME BlocksApart, Init PROVE StoresInv
BY StoresConstants, StoresInit, Services!SmokeInitInv, Services!QuotaInitInv, OtherServices!ArchiveInitInv,
   Services!SwapInitInv, Services!FileInitInv DEF StoresInv

LEMMA StoresInvStep == ASSUME BlocksApart, StoresInv, [Next]_<<part, slots>> PROVE StoresInv'
<1>1. (part = "Smoke" => Services!SmokeInv') /\ (part = "ChunkStore" => Services!QuotaInv')
  BY StoresConstants, StoresMoves, Services!SmokeStep, Services!QuotaStep DEF StoresInv
<1>2. part = "ChainStore" => OtherServices!ArchiveInv'
  BY StoresConstants, StoresMoves, OtherServices!ArchiveStep DEF StoresInv
<1>3. (part = "Swap" => Services!SwapInv') /\ (part = "File" => Services!FileInv')
  BY StoresConstants, StoresMoves, Services!SwapStep, Services!FileStep DEF StoresInv
<1> QED BY <1>1, <1>2, <1>3, StoresMoves DEF StoresInv

LEMMA StoresInvHolds == ASSUME BlocksApart, StoresInv PROVE StoresKeepTheirWord
BY StoresConstants, Services!WholeAndCredited, Services!QuotaIsKept, OtherServices!NothingIsLost,
   Services!CountedHold, Services!ReadsAreSaves DEF StoresInv, StoresKeepTheirWord

\* The device keeps its own files, a peer is credited for what it delivered,
\* the archive keeps its blocks and its quota, a counted holder has the new
\* version and a crash leaves a saved one, on the disks and peers of the run.
THEOREM StoresKept == ASSUME BlocksApart PROVE Spec => []StoresKeepTheirWord
<1>1. Init => StoresInv
  BY StoresInvInit
<1>2. StoresInv /\ [Next]_<<part, slots>> => StoresInv'
  BY StoresInvStep
<1>3. StoresInv => StoresKeepTheirWord
  BY StoresInvHolds
<1> QED BY <1>1, <1>2, <1>3, PTL DEF Spec
============================================================================
