---------------------------- MODULE FailureDomains ----------------------------
(***************************************************************************)
(* Which replicas count as independent: the co-failure history and the     *)
(* domain inference of engine/content/failure-domain.ts, with the cache,   *)
(* the feeding and the sweeping of storage-manager.ts.                     *)
(*                                                                         *)
(* Time is the observation bucket.  The inferred map is cached for a       *)
(* quarter of a bucket, so a count may use a map made in this bucket or in *)
(* the one before, and may find it expired at any time.                    *)
(***************************************************************************)
EXTENDS Integers, Sequences, FiniteSets, FiniteSetsExt, SequencesExt

CONSTANTS
    InOrder,        \* the provider accounts, in the insertion order of a Map
    DeviceOf,       \* Holders -> the deviceId each one registers with, or None
    MinJoint,       \* MIN_JOINT_FAILURES
    Retain,         \* retainBuckets
    MaxBucket,      \* bound on the clock
    CountedSets     \* bound: the sets of providers a count makes a map of

VARIABLES
    known,          \* the providers whose chain is held
    up, down,       \* FailureCorrelation.up and .down: Holders -> sets of buckets
    calibrated,     \* the providers with a CalibrationRun
    cache,          \* domainCache: None or the map and the bucket it was made in
    bucket

domainVars == <<known, up, down, calibrated, cache, bucket>>

None     == "none"
Holders  == ToSet(InOrder)
NoCache  == [at |-> -2, map |-> <<>>]
Buckets  == 0 .. MaxBucket

DomainInit ==
    /\ known = {} /\ calibrated = {}
    /\ up = [h \in Holders |-> {}] /\ down = [h \in Holders |-> {}]
    /\ cache = NoCache /\ bucket = 0

-----------------------------------------------------------------------------
(* FailureCorrelation.record of one observation, and its pruning.          *)
Pruned(S) == {b \in S : b >= bucket - Retain}
Record(h, ok) ==
    /\ up'   = [up EXCEPT ![h] = Pruned(IF ok THEN @ \cup {bucket} ELSE @ \ {bucket})]
    /\ down' = [down EXCEPT ![h] = Pruned(IF ok THEN @ \ {bucket} ELSE @ \cup {bucket})]
Forget(S) ==
    /\ up' = [h \in Holders |-> IF h \in S THEN {} ELSE up[h]]
    /\ down' = [h \in Holders |-> IF h \in S THEN {} ELSE down[h]]

(* evidence and sameDomain: the phi coefficient over the buckets in which   *)
(* both were seen, at least 0.8, and undefined under MinJoint joint         *)
(* failures or when one of the two never varied.                           *)
SameDomain(a, b) ==
    LET n11 == Cardinality(down[a] \cap down[b])  n10 == Cardinality(down[a] \cap up[b])
        n01 == Cardinality(up[a] \cap down[b])    n00 == Cardinality(up[a] \cap up[b])
        num == n11 * n00 - n10 * n01
        den2 == (n11 + n10) * (n01 + n00) * (n11 + n01) * (n10 + n00)
    IN n11 >= MinJoint /\ den2 # 0 /\ num > 0 /\ 25 * num * num >= 16 * den2

Groupable == {h \in Holders : Cardinality(down[h]) >= MinJoint}

(* inferDomains: union-find, first over the declared devices (the root is   *)
(* the first provider on a machine), then over the pairs of groupable      *)
(* holders.  parent maps a holder to its set's root once every find has    *)
(* been carried through.                                                   *)
Union_NoFind(parent, x, y) == [parent EXCEPT ![x] = y]
Union(parent, x, y) ==
    [h \in DOMAIN parent |-> IF parent[h] = parent[x] THEN parent[y] ELSE parent[h]]

Declared == [h \in known |->
    IF DeviceOf[h] = None THEN h
    ELSE InOrder[Min({i \in DOMAIN InOrder : /\ InOrder[i] \in known
                                            /\ DeviceOf[InOrder[i]] = DeviceOf[h]})]]

Swept(parent, p) ==
    IF SameDomain(InOrder[p[1]], InOrder[p[2]])
    THEN Union(parent, InOrder[p[1]], InOrder[p[2]]) ELSE parent
InferDomains ==
    LET n == Len(InOrder)
        all == [k \in 1 .. n * n |-> <<((k - 1) \div n) + 1, ((k - 1) % n) + 1>>]
        pairs == SelectSeq(all, LAMBDA p : /\ p[1] < p[2]
                                           /\ InOrder[p[1]] \in known \cap Groupable
                                           /\ InOrder[p[2]] \in known \cap Groupable)
    IN FoldLeft(Swept, Declared, pairs)

-----------------------------------------------------------------------------
(* domainOf: a stale map is remade; a holder it does not have stands for    *)
(* its own device, or for itself.                                          *)
ProviderDomain(h) ==
    IF h \in known /\ DeviceOf[h] # None THEN <<"dev", DeviceOf[h]>> ELSE <<"pub", h>>
DomainOf(map, h) == IF h \in DOMAIN map THEN <<"root", map[h]>> ELSE ProviderDomain(h)
Fresh == cache.at >= bucket - 1
LiveHolderCount(map, S) == Cardinality({DomainOf(map, h) : h \in S})

Count ==
    /\ known \in CountedSets
    /\ cache' = [at |-> bucket, map |-> InferDomains]
    /\ UNCHANGED <<known, up, down, calibrated, bucket>>

\* runSpotChecks and reads: a served block is also a calibration sample.
SpotCheck(h, ok) ==
    /\ h \in known
    /\ Record(h, ok)
    /\ calibrated' = IF ok THEN calibrated \cup {h} ELSE calibrated
    /\ UNCHANGED <<known, cache, bucket>>

\* handleReceipt: a holder says that it has the bytes.
HandleReceipt(h) == Record(h, TRUE) /\ UNCHANGED <<known, calibrated, cache, bucket>>

\* storage-register and storage-deregister blocks of a chain the node holds.
RegisterProvider(h) ==
    /\ h \notin known /\ known' = known \cup {h}
    /\ UNCHANGED <<up, down, calibrated, cache, bucket>>
DeregisterProvider(h) ==
    /\ h \in known
    /\ known' = known \ {h}
    /\ UNCHANGED <<up, down, calibrated, cache, bucket>>

(* sweepProviderState: keyed by the calibrations.                          *)
Departed == calibrated \ known
SweepProviderState ==
    /\ Departed # {}
    /\ Forget(Departed) /\ calibrated' = calibrated \ Departed /\ cache' = NoCache
    /\ UNCHANGED <<known, bucket>>

NextBucket ==
    /\ bucket < MaxBucket /\ bucket' = bucket + 1
    /\ UNCHANGED <<known, up, down, calibrated, cache>>

DomainNext ==
    \/ \E h \in Holders : \/ \E ok \in BOOLEAN : SpotCheck(h, ok)
                          \/ HandleReceipt(h)
                          \/ RegisterProvider(h) \/ DeregisterProvider(h)
    \/ Count \/ SweepProviderState \/ NextBucket

DomainSpec == DomainInit /\ [][DomainNext]_domainVars

-----------------------------------------------------------------------------
DomainTypeOK ==
    /\ known \subseteq Holders /\ calibrated \subseteq Holders
    /\ \A h \in Holders : up[h] \subseteq Buckets /\ down[h] \subseteq Buckets
                          /\ up[h] \cap down[h] = {}
    /\ cache.at <= bucket /\ DOMAIN cache.map \subseteq Holders

\* Domains are the transitive closure of what is declared and what is
\* observed, in whatever order the pairs are swept: two holders share a root
\* exactly when a chain of them links the two, each link a common device or a
\* proven co-failure.
Linked(a, b) ==
    \/ DeviceOf[a] # None /\ DeviceOf[a] = DeviceOf[b]
    \/ {a, b} \subseteq Groupable /\ (SameDomain(a, b) \/ SameDomain(b, a))
DomainsAreClosures ==
    LET map == InferDomains
        closed(S) == \A a \in S, b \in known \ S : ~Linked(a, b)
    IN \A a, b \in known :
         map[a] = map[b] <=> \A S \in SUBSET known : a \in S /\ closed(S) => b \in S

\* "two accounts on one machine must not count as separate replicas": fails
\* when one of them registered after the cached map was made.
OneMachineOneReplica ==
    \A a, b \in known :
        DeviceOf[a] # None /\ DeviceOf[a] = DeviceOf[b] /\ Fresh
            => LiveHolderCount(cache.map, {a, b}) = 1

\* "names what removes an entry": no history is kept of a provider that is
\* gone once the sweep has run.
DepartedAreForgotten == \A h \in Holders \ known : Departed = {} => up[h] \cup down[h] = {}
=============================================================================
