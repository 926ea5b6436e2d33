---------------------------- MODULE ArchiveBackfill ----------------------------
(* How a relay asks its peers for what it was asked for and does not hold     *)
(* (relay/server.ts), and the limiter that keeps a scan of made-up addresses  *)
(* from becoming traffic (engine/net/archive-backfill.ts).  Records are       *)
(* fetched over HTTP by a coroutine that ends within FetchTime; chains are    *)
(* asked for on gossip, and any new block of the account settles the ask.     *)
(* Every time is kept as an age, in ticks, up to the largest that matters.    *)
EXTENDS Integers, FiniteSets, FiniteSetsExt

CONSTANTS
    RecordKeys,     \* keys of records: accounts, files, inbound transfers
    ChainKeys,      \* keys of chains
    MaxInFlight, MaxPerMinute, MaxAttempts,
    Minute,         \* the window of `recent`, and cooldownMs
    FlightTtl,      \* inFlightTtlMs
    ForgetAfter,    \* forgetAfterMs
    FetchTime,      \* the longest fetchFromPeers: five seconds per peer
    MaxWipes        \* bound: network wipes

VARIABLES
    keys,       \* key -> [age, attempts, flight]: flight < 0 when none is out
    recent,     \* age -> asks of that age in `recent`
    fetches,    \* the fetches under way: [key, age, fresh]
    asked,      \* key -> ages of its asks since it was last settled (history)
    lastMinute, \* age -> asks of that age since the last wipe (history)
    wipes       \* bound counter

backfillVars == <<keys, recent, fetches, asked, lastMinute, wipes>>

Keys == RecordKeys \cup ChainKeys
Ages == 0..ForgetAfter
Unknown == [age |-> 0, attempts |-> 0, flight |-> -1]
NoAsks == [a \in 0..Minute |-> 0]
Older(a) == IF a < ForgetAfter THEN a + 1 ELSE a

\* backoffFor, cooldownMs being a minute
BackoffFor(attempts) == Minute * 2 ^ (IF attempts > 1 THEN attempts - 1 ELSE 0)

\* expire: frees the slots nothing answered and forgets old keys.
Expired(st) ==
    LET freed == IF st.flight >= FlightTtl THEN [st EXCEPT !.flight = -1] ELSE st IN
    IF freed.flight < 0 /\ freed.age >= ForgetAfter THEN Unknown ELSE freed
InMinute(log) == [a \in 0..Minute |-> IF a < Minute THEN log[a] ELSE 0]
Count(log) == MapThenSumSet(LAMBDA a : log[a], 0..Minute)
InFlight(ks) == Cardinality({k \in Keys : ks[k].flight >= 0})

\* request: what it decides once expire has run
Asks(ks, log, k) ==
    /\ ks[k].flight < 0
    /\ ks[k].attempts < MaxAttempts
    /\ ks[k].attempts > 0 => ks[k].age >= BackoffFor(ks[k].attempts)
    /\ InFlight(ks) < MaxInFlight
    /\ Count(log) < MaxPerMinute
Request(k) ==
    LET ks == [x \in Keys |-> Expired(keys[x])]
        log == InMinute(recent) IN
    /\ Asks(ks, log, k)
    /\ keys' = [ks EXCEPT ![k] = [age |-> 0, attempts |-> ks[k].attempts + 1, flight |-> 0]]
    /\ recent' = [log EXCEPT ![0] = @ + 1]
    /\ asked' = [asked EXCEPT ![k] = @ \cup {0}]
    /\ lastMinute' = [InMinute(lastMinute) EXCEPT ![0] = @ + 1]
Refuse(k) ==
    LET ks == [x \in Keys |-> Expired(keys[x])]
        log == InMinute(recent) IN
    /\ ~Asks(ks, log, k)
    /\ keys' = ks /\ recent' = log
    /\ UNCHANGED <<asked, lastMinute>>

BackfillInit ==
    /\ keys = [k \in Keys |-> Unknown]
    /\ recent = NoAsks /\ lastMinute = NoAsks
    /\ fetches = {}
    /\ asked = [k \in Keys |-> {}]
    /\ wipes = 0

\* requestRecordBackfill, requestInboundBackfill: ask, then fetch
RequestRecord(k) ==
    /\ \/ Request(k) /\ fetches' = fetches \cup {[key |-> k, age |-> 0, fresh |-> TRUE]}
       \/ Refuse(k) /\ UNCHANGED fetches
    /\ UNCHANGED wipes

\* requestArchiveBackfill: the ask is published a moment later
RequestChain(k) ==
    /\ Request(k) \/ Refuse(k)
    /\ UNCHANGED <<fetches, wipes>>

\* fetchFromPeers ends with nothing: the slot is freed by its age only.
FetchEmpty(f) ==
    /\ fetches' = fetches \ {f}
    /\ UNCHANGED <<keys, recent, asked, lastMinute, wipes>>

Settled(k) ==
    /\ keys' = [keys EXCEPT ![k] = Unknown]
    /\ asked' = [asked EXCEPT ![k] = {}]

\* fetchFromPeers ends with rows, which are archived: settle(key).
FetchFound(f) ==
    /\ fetches' = fetches \ {f}
    /\ Settled(f.key)
    /\ UNCHANGED <<recent, lastMinute, wipes>>

\* archiveEngineBlock: a new block of the account, asked for or not.
BlockArrives(k) ==
    /\ Settled(k)
    /\ UNCHANGED <<recent, fetches, lastMinute, wipes>>

\* performNetworkWipe: clear(); the fetches go on.
Wipe ==
    /\ wipes < MaxWipes
    /\ wipes' = wipes + 1
    /\ keys' = [k \in Keys |-> Unknown]
    /\ recent' = NoAsks /\ lastMinute' = NoAsks
    /\ asked' = [k \in Keys |-> {}]
    /\ fetches' = {[f EXCEPT !.fresh = FALSE] : f \in fetches}

\* Time passes, but not beyond the end of a fetch.
Tick ==
    /\ \A f \in fetches : f.age < FetchTime
    /\ keys' = [k \in Keys |-> IF keys[k].attempts = 0 THEN keys[k]
                                ELSE [keys[k] EXCEPT !.age = Older(@),
                                                     !.flight = IF @ < 0 THEN @ ELSE Older(@)]]
    /\ recent' = [a \in 0..Minute |-> IF a = 0 THEN 0 ELSE IF a < Minute THEN recent[a - 1]
                                       ELSE recent[Minute - 1] + recent[Minute]]
    /\ lastMinute' = [a \in 0..Minute |-> IF a \in {0, Minute} THEN 0 ELSE lastMinute[a - 1]]
    /\ fetches' = {[f EXCEPT !.age = @ + 1] : f \in fetches}
    /\ asked' = [k \in Keys |-> {a + 1 : a \in asked[k] \ {ForgetAfter - 1}}]
    /\ UNCHANGED wipes

BackfillNext ==
    \/ Tick \/ Wipe
    \/ \E k \in RecordKeys : RequestRecord(k)
    \/ \E k \in ChainKeys : RequestChain(k) \/ BlockArrives(k)
    \/ \E f \in fetches : FetchEmpty(f) \/ FetchFound(f)

BackfillSpec == BackfillInit /\ [][BackfillNext]_backfillVars

---------------------------------------------------------------------------

\* The variables have their types.
BackfillTypeOK ==
    /\ keys \in [Keys -> [age : Ages, attempts : 0..MaxAttempts, flight : -1..ForgetAfter]]
    /\ \A f \in fetches : f.key \in RecordKeys /\ f.age \in 0..FetchTime
    /\ wipes \in 0..MaxWipes

\* A key nothing answers is asked for MaxAttempts times in any ForgetAfter and
\* no minute has more than MaxPerMinute asks, although the state behind both
\* is expired only when the next request comes; and while no wipe has thrown
\* the bookkeeping away, no more than MaxInFlight fetches run at once.
AsksAreBounded ==
    /\ \A k \in Keys : Cardinality(asked[k]) <= MaxAttempts
    /\ Count(lastMinute) <= MaxPerMinute
    /\ wipes = 0 => Cardinality(fetches) <= MaxInFlight

\* performNetworkWipe: what was asked before it "no longer means anything";
\* an answer to it is never archived afterwards.
NoAnswerOutlivesWipe ==
    [][\A f \in fetches : ~f.fresh /\ f \notin fetches' => keys'[f.key] = keys[f.key]]_backfillVars
=============================================================================
