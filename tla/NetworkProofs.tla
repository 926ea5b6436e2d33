----------------------------- MODULE NetworkProofs -----------------------------
(***************************************************************************)
(* What keeps the network together, proved for any relays, browsers and    *)
(* accounts.  The first three components are in this module's name space,  *)
(* the others are instances.                                               *)
(*                                                                         *)
(* Resets (NetworkReset).  Every generation above the first that anybody   *)
(* is in was signed by an operator, and a browser that learnt of every     *)
(* reset while its page listened holds no account older than its           *)
(* generation, whatever phase it is in.                                    *)
(*                                                                         *)
(* Withdrawn files (FileIndex).  A relay that remembers a withdrawal       *)
(* inside its retention has a record at least as new: what a record can be *)
(* replaced by is newer, a relay drops only withdrawals that expired, and  *)
(* what it reloads is older only when it forgot the withdrawal.            *)
(*                                                                         *)
(* Departed providers (ProviderDiscovery).  A relay has blocks the         *)
(* provider signed, so a departure it has at the end of the chain is the   *)
(* newest it can know of, and the newest in every union of answers.        *)
(*                                                                         *)
(* A node's session (NodeSession) holds its shards, in one tab (TabLock),  *)
(* drops relays for failures in a row only (RelayTable), and keeps every   *)
(* block it stored within reach of its ledger (GossipGate).  A relay       *)
(* limits what it is asked (WindowLimiter) and what it asks                *)
(* (ArchiveBackfill): each log it keeps is at least as long as the history *)
(* it has to bound.                                                        *)
(***************************************************************************)
EXTENDS NetworkReset, FileIndex, ProviderDiscovery, SumTheorems, WellFoundedInduction, TLAPS

\* A session, and the tab that runs it.
CONSTANTS Wallet, Sends, To, From, ShardOf, OwnBlocks, MaxStarts, MaxLoads
VARIABLES session, localKeys, nodeWatched, netWatched, callbacks, inboxSubs, shards, shardSubs,
  processedInbox, signal, claiming, chainAsked, memory, wire, ownSaving, disk, starts, loads
Session == INSTANCE NodeSession WITH
    Accounts <- Wallet, Blocks <- OwnBlocks, phase <- session, processed <- processedInbox,
    asked <- chainAsked, saving <- ownSaving, mem <- memory

CONSTANTS Tabs, Heartbeat, Stale
VARIABLES owner, age, tab, beating, since, excused
Tab == INSTANCE TabLock

\* The relays a client knows, and the blocks that come to it.
CONSTANTS Clients, KnownRelays, RelayFailEvict, DialWidth, MaxAnnounce, MaxOutages
VARIABLES up, online, fails, stored, stale, list, linked, running, missed, announced, outages
Table == INSTANCE RelayTable WITH Relays <- KnownRelays

CONSTANTS Senders, GossipBlocks, BucketSize, RefillRate, MaxProcessed, MaxSeconds, MaxWrites
VARIABLES seconds, bucket, admitted, processed, saving, counter, rows, delivered, dirty, watermark, resyncing, batch
Gate == INSTANCE GossipGate WITH
    Blocks <- GossipBlocks, Capacity <- BucketSize, Refill <- RefillRate, MaxTime <- MaxSeconds,
    MaxVersion <- MaxWrites, now <- seconds

\* What a relay answers, and what it asks.
CONSTANTS Addresses, Local, MaxPerWindow, LimitWindow, MaxTicks, MaxCount
VARIABLES ticks, log, unswept, answers
Limiter == INSTANCE WindowLimiter WITH
    Window <- LimitWindow, MaxTime <- MaxTicks, now <- ticks, kept <- unswept

CONSTANTS RecordKeys, ChainKeys, MaxInFlight, MaxPerMinute, MaxAttempts, AskMinute, FlightTtl, ForgetAfter, FetchTime, MaxWipes
VARIABLES keys, recent, fetches, asks, lastMinute, wipes
Asking == INSTANCE ArchiveBackfill WITH Minute <- AskMinute, asked <- asks

-----------------------------------------------------------------------------
\* Resets, and the messages that carry them.
Resets == [generation : 0..MaxGeneration, operator : Accounts]
Phases == {"off", "node", "page", "reloading"}

\* The types of the variables the two facts are about.
RelaysTyped ==
  /\ epoch \in [Relays -> 0..MaxGeneration]
  /\ operators \in [Relays -> Seq(Accounts)]
  /\ \A r \in Relays : Len(operators[r]) <= OperatorCount
BrowsersTyped ==
  /\ phase \in [Devices -> Phases] /\ generation \in [Devices -> 0..MaxGeneration]
  /\ known \in [Devices -> SUBSET Accounts] /\ database \in [Devices -> SUBSET Accounts]
  /\ ledger \in [Devices -> SUBSET Accounts] /\ wallet \in [Devices -> Seq(Accounts)]
  /\ told \subseteq Devices
HistoryTyped ==
  /\ issued \subseteq Resets /\ inbox \subseteq issued \X (Relays \cup Devices)
  /\ created \in [Accounts -> -1..MaxGeneration]
ResetTypes == RelaysTyped /\ BrowsersTyped /\ HistoryTyped

\* An account in a wallet was created, and not before the generation of a
\* browser that heard of every reset.
WalletsYoung ==
  \A d \in Devices : \A i \in 1..Len(wallet[d]) :
    /\ created[wallet[d][i]] >= 0
    /\ d \notin told => created[wallet[d][i]] >= generation[d]

ResetInv == ResetTypes /\ OnlyOperatorsReset /\ WalletsYoung

-----------------------------------------------------------------------------
(* Operators. *)

\* A set of numbers below a bound has a greatest one.
LEMMA GreatestExists ==
  ASSUME NEW n \in Nat, NEW S \in SUBSET (0..n), S # {}
  PROVE  \E g \in S : \A h \in S : h <= g
<1> DEFINE T == {k \in Nat : n - k \in S}
<1>1. PICK s \in S : TRUE
  OBVIOUS
<1>2. n - s \in T
  BY <1>1
<1>3. PICK m \in T : \A k \in T : ~ (<<k, m>> \in OpToRel(<, Nat))
  <2> HIDE DEF T
  <2>1. T \subseteq Nat
    BY DEF T
  <2> QED BY <1>2, <2>1, NatLessThanWellFounded, WFMin
<1>4. \A h \in S : h <= n - m
  <2> SUFFICES ASSUME NEW h \in S PROVE h <= n - m
    OBVIOUS
  <2>1. n - h \in T
    OBVIOUS
  <2>2. ~ (n - h < m)
    BY <1>3, <2>1 DEF OpToRel
  <2> QED BY <2>2
<1>5. n - m \in S
  OBVIOUS
<1> QED BY <1>4, <1>5

LEMMA LatestIsGreatest ==
  ASSUME MaxGeneration \in Nat, NEW S \in SUBSET (0..MaxGeneration), S # {}
  PROVE  Latest(S) \in S /\ \A h \in S : h <= Latest(S)
<1>1. \E g \in S : \A h \in S : h <= g
  BY GreatestExists
<1> QED BY <1>1 DEF Latest

LEMMA RangeIsIndexed ==
  ASSUME NEW S, NEW q \in Seq(S)
  PROVE  /\ Range(q) = {q[i] : i \in 1..Len(q)}
         /\ Range(q) \subseteq S
BY DEF Range

LEMMA AppendedIndex ==
  ASSUME NEW S, NEW q \in Seq(S), NEW e \in S, NEW i \in 1..Len(Append(q, e))
  PROVE  Append(q, e)[i] = e \/ (i \in 1..Len(q) /\ Append(q, e)[i] = q[i])
OBVIOUS

\* Where a generation that the relays are asked for comes from.
LEMMA NetworkGenerationIsTheirs ==
  ASSUME MaxGeneration \in Nat, RelaysTyped, NEW answering \in SUBSET Relays
  PROVE  \/ NetworkGeneration(answering) = -1
         \/ \E r \in Relays : NetworkGeneration(answering) = epoch[r]
<1> DEFINE S == {epoch[r] : r \in answering}
<1>1. S \subseteq 0..MaxGeneration
  BY DEF RelaysTyped
<1>2. CASE answering = {}
  BY <1>2 DEF NetworkGeneration
<1>3. CASE answering # {}
  <2>1. S # {}
    BY <1>3
  <2>2. Latest(S) \in S
    <3> HIDE DEF S
    <3> QED BY <1>1, <2>1, LatestIsGreatest
  <2> QED BY <1>3, <2>2 DEF NetworkGeneration
<1> QED BY <1>2, <1>3

LEMMA NetworkOperatorsTyped ==
  ASSUME RelaysTyped, NEW answering \in SUBSET Relays
  PROVE  NetworkOperators(answering) \in SUBSET Accounts
BY RangeIsIndexed DEF NetworkOperators, RelaysTyped

-----------------------------------------------------------------------------
(* Types. *)

LEMMA TypesInit ==
  ASSUME MaxGeneration \in Nat, OperatorCount \in Nat, ResetInit PROVE ResetTypes
BY DEF ResetInit, ResetTypes, RelaysTyped, BrowsersTyped, HistoryTyped, Phases

LEMMA WipeTyped ==
  ASSUME OperatorCount \in Nat, RelaysTyped, NEW r \in Relays, NEW g \in 0..MaxGeneration, Wipe(r, g)
  PROVE  RelaysTyped'
BY DEF RelaysTyped, Wipe

LEMMA AdoptTyped ==
  ASSUME BrowsersTyped, NEW d \in Devices, NEW g \in 0..MaxGeneration, phase[d] \in {"node", "page"},
         ApplyReset(d, g), Announced(d), known' \in [Devices -> SUBSET Accounts]
  PROVE  BrowsersTyped'
<1>1. <<>> \in Seq(Accounts) /\ {} \in SUBSET Accounts
  OBVIOUS
<1>2. /\ generation' \in [Devices -> 0..MaxGeneration]
      /\ database' \in [Devices -> SUBSET Accounts]
  BY <1>1 DEF BrowsersTyped, ApplyReset
<1>3. CASE phase[d] = "page"
  BY <1>1, <1>2, <1>3 DEF BrowsersTyped, Announced, Phases
<1>4. CASE phase[d] = "node"
  BY <1>1, <1>2, <1>4 DEF BrowsersTyped, Announced, Phases
<1> QED BY <1>3, <1>4

LEMMA TypesStep ==
  ASSUME MaxGeneration \in Nat, OperatorCount \in Nat, ResetTypes, ResetNext PROVE ResetTypes'
<1> USE DEF ResetTypes
<1>1. ASSUME NEW r \in Relays, NEW m, RelayReset(r, m) PROVE ResetTypes'
  <2>1. m \in Resets /\ inbox' \subseteq inbox
    BY <1>1 DEF RelayReset, HistoryTyped
  <2>2. RelaysTyped'
    BY <1>1, <2>1, WipeTyped DEF RelayReset, relayVars, RelaysTyped, Resets
  <2>3. BrowsersTyped' /\ HistoryTyped'
    BY <1>1, <2>1 DEF RelayReset, BrowsersTyped, HistoryTyped
  <2> QED BY <2>2, <2>3
<1>2. ASSUME NEW r \in Relays, NEW q \in Relays, Follow(r, q) PROVE ResetTypes'
  <2>1. epoch[q] \in 0..MaxGeneration
    BY DEF RelaysTyped
  <2>2. RelaysTyped'
    BY <1>2, <2>1, WipeTyped DEF Follow
  <2> QED BY <1>2, <2>2 DEF Follow, BrowsersTyped, HistoryTyped
<1>3. ASSUME NEW d \in Devices, NEW m, DeviceReset(d, m) PROVE ResetTypes'
  <2>1. m \in Resets /\ inbox' \subseteq inbox
    BY <1>3 DEF DeviceReset, HistoryTyped
  <2>2. BrowsersTyped'
    BY <1>3, <2>1, AdoptTyped DEF DeviceReset, BrowsersTyped, Resets
  <2> QED BY <1>3, <2>1, <2>2 DEF DeviceReset, relayVars, RelaysTyped, HistoryTyped
<1>4. ASSUME NEW d \in Devices, NEW answering \in SUBSET Relays, Poll(d, answering) PROVE ResetTypes'
  <2>1. NetworkGeneration(answering) = -1 \/ NetworkGeneration(answering) \in 0..MaxGeneration
    BY NetworkGenerationIsTheirs DEF RelaysTyped
  <2>2. known' \in [Devices -> SUBSET Accounts]
    BY <1>4, NetworkOperatorsTyped DEF Poll, BrowsersTyped
  <2>3. BrowsersTyped'
    <3>1. CASE NetworkGeneration(answering) > generation[d]
      <4>1. NetworkGeneration(answering) \in 0..MaxGeneration
        BY <2>1, <3>1 DEF BrowsersTyped
      <4> QED BY <1>4, <2>2, <3>1, <4>1, AdoptTyped DEF Poll
    <3>2. CASE ~ (NetworkGeneration(answering) > generation[d])
      BY <1>4, <2>2, <3>2 DEF Poll, BrowsersTyped
    <3> QED BY <3>1, <3>2
  <2> QED BY <1>4, <2>3 DEF Poll, relayVars, RelaysTyped, HistoryTyped
<1>5. ASSUME NEW d \in Devices, NEW answering \in SUBSET Relays, Start(d, answering) PROVE ResetTypes'
  <2>1. NetworkGeneration(answering) = -1 \/ NetworkGeneration(answering) \in 0..MaxGeneration
    BY NetworkGenerationIsTheirs DEF RelaysTyped
  <2>2. known' \in [Devices -> SUBSET Accounts]
    BY <1>5, NetworkOperatorsTyped DEF Start, BrowsersTyped
  <2>3. database' \in [Devices -> SUBSET Accounts] /\ generation' \in [Devices -> 0..MaxGeneration]
    <3> DEFINE g == NetworkGeneration(answering)
    <3>1. generation[d] \in 0..MaxGeneration
      BY DEF BrowsersTyped
    <3>2. CASE g > generation[d]
      <4>1. g \in 0..MaxGeneration
        BY <2>1, <3>1, <3>2
      <4>2. ApplyReset(d, g)
        BY <1>5, <3>2 DEF Start
      <4> QED BY <4>1, <4>2 DEF ApplyReset, BrowsersTyped
    <3>3. CASE ~ (g > generation[d])
      <4>1. /\ generation' = [generation EXCEPT ![d] = IF 0 <= g /\ g < @ THEN g ELSE @]
            /\ UNCHANGED database
        BY <1>5, <3>3 DEF Start
      <4>2. (IF 0 <= g /\ g < generation[d] THEN g ELSE generation[d]) \in 0..MaxGeneration
        BY <2>1, <3>1
      <4> HIDE DEF g
      <4> QED BY <4>1, <4>2 DEF BrowsersTyped
    <3> QED BY <3>2, <3>3
  <2>4. BrowsersTyped'
    BY <1>5, <2>2, <2>3 DEF Start, BrowsersTyped, Phases
  <2> QED BY <1>5, <2>4 DEF Start, relayVars, RelaysTyped, HistoryTyped
<1>6. ASSUME NEW d \in Devices, Wired(d) PROVE ResetTypes'
  <2>1. Range(wallet[d]) \in SUBSET Accounts
    BY RangeIsIndexed DEF BrowsersTyped
  <2>2. ledger' \in [Devices -> SUBSET Accounts]
    BY <1>6, <2>1 DEF Wired, BrowsersTyped
  <2> QED BY <1>6, <2>2 DEF Wired, relayVars, RelaysTyped, BrowsersTyped, HistoryTyped, Phases
<1>7. ASSUME NEW d \in Devices, Reload(d) PROVE ResetTypes'
  BY <1>7 DEF Reload, Gone, relayVars, RelaysTyped, BrowsersTyped, HistoryTyped, Phases
<1>8. ASSUME NEW d \in Devices, Close(d) PROVE ResetTypes'
  BY <1>8 DEF Close, Gone, relayVars, RelaysTyped, BrowsersTyped, HistoryTyped, Phases
<1>9. ASSUME NEW d \in Devices, ClearAll(d) PROVE ResetTypes'
  <2> DEFINE m == [generation |-> generation[d] + 1, operator |-> wallet[d][1]]
  <2>1. CASE wallet[d] /= <<>> /\ wallet[d][1] \in known[d]
    <3>1. /\ issued' = issued \cup {m} /\ generation[d] + 1 <= MaxGeneration
          /\ inbox' \subseteq inbox \cup ({m} \X (Relays \cup Devices))
          /\ ApplyReset(d, generation[d] + 1)
      BY <1>9, <2>1 DEF ClearAll
    <3>2. m \in Resets
      BY <2>1, <3>1 DEF Resets, BrowsersTyped
    <3>3. HistoryTyped'
      <4> HIDE DEF m
      <4> QED BY <1>9, <3>1, <3>2 DEF ClearAll, HistoryTyped
    <3>4. BrowsersTyped'
      BY <1>9, <3>1 DEF ClearAll, ApplyReset, BrowsersTyped, Phases
    <3> QED BY <1>9, <3>3, <3>4 DEF ClearAll, relayVars, RelaysTyped
  <2>2. CASE ~ (wallet[d] /= <<>> /\ wallet[d][1] \in known[d])
    <3>1. ApplyReset(d, generation[d]) /\ UNCHANGED <<issued, inbox>>
      BY <1>9, <2>2 DEF ClearAll
    <3>2. BrowsersTyped'
      BY <1>9, <3>1 DEF ClearAll, ApplyReset, BrowsersTyped, Phases
    <3> QED BY <1>9, <3>1, <3>2 DEF ClearAll, relayVars, RelaysTyped, HistoryTyped
  <2> QED BY <2>1, <2>2
<1>10. ASSUME NEW d \in Devices, NEW a \in Accounts, CreateAccount(d, a) PROVE ResetTypes'
  <2> DEFINE S == {generation[d]} \cup {epoch[r] : r \in Relays}
  <2>1. Latest(S) \in 0..MaxGeneration
    <3>1. S \in SUBSET (0..MaxGeneration) /\ S # {}
      BY DEF RelaysTyped, BrowsersTyped
    <3> HIDE DEF S
    <3> QED BY <3>1, LatestIsGreatest
  <2>2. created' \in [Accounts -> -1..MaxGeneration]
    BY <1>10, <2>1 DEF CreateAccount, HistoryTyped
  <2>3. RelaysTyped'
    BY <1>10 DEF CreateAccount, RelaysTyped
  <2>4. BrowsersTyped'
    BY <1>10 DEF CreateAccount, BrowsersTyped
  <2> QED BY <1>10, <2>2, <2>3, <2>4 DEF CreateAccount, HistoryTyped
<1> QED BY <1>1, <1>2, <1>3, <1>4, <1>5, <1>6, <1>7, <1>8, <1>9, <1>10 DEF ResetNext

-----------------------------------------------------------------------------
(* Who resets. *)

\* A generation that was signed, or the first one.
Signed(g) == g > 0 => \E m \in issued : m.generation = g

LEMMA OperatorsStep ==
  ASSUME MaxGeneration \in Nat, ResetTypes, OnlyOperatorsReset, ResetNext PROVE OnlyOperatorsReset'
<1>1. /\ \A d \in Devices : Signed(generation[d])
      /\ \A r \in Relays : Signed(epoch[r])
  BY DEF OnlyOperatorsReset, Signed
<1>2. ASSUME NEW answering \in SUBSET Relays PROVE Signed(NetworkGeneration(answering))
  BY <1>1, NetworkGenerationIsTheirs DEF ResetTypes, Signed
<1>3. ASSUME NEW m, NEW x, <<m, x>> \in inbox PROVE Signed(m.generation)
  BY <1>3 DEF Signed, ResetTypes, HistoryTyped
<1>4. ASSUME issued \subseteq issued', NEW g, Signed(g) PROVE Signed(g)'
  BY <1>4 DEF Signed
<1>5. ASSUME issued \subseteq issued',
             \A d \in Devices : generation'[d] = generation[d] \/ Signed(generation'[d])
                                \/ \E m \in issued' : m.generation = generation'[d],
             \A r \in Relays : epoch'[r] = epoch[r] \/ Signed(epoch'[r])
      PROVE  OnlyOperatorsReset'
  BY <1>1, <1>5 DEF Signed, OnlyOperatorsReset
<1> USE DEF ResetTypes
<1>6. ASSUME NEW r \in Relays, NEW m, RelayReset(r, m) PROVE OnlyOperatorsReset'
  <2>1. \A q \in Relays : epoch'[q] = epoch[q] \/ epoch'[q] = m.generation
    BY <1>6 DEF RelayReset, Wipe, relayVars, RelaysTyped
  <2> QED BY <1>3, <1>5, <1>6, <2>1 DEF RelayReset
<1>7. ASSUME NEW r \in Relays, NEW q \in Relays, Follow(r, q) PROVE OnlyOperatorsReset'
  <2>1. \A s \in Relays : epoch'[s] = epoch[s] \/ epoch'[s] = epoch[q]
    BY <1>7 DEF Follow, Wipe, RelaysTyped
  <2> QED BY <1>1, <1>5, <1>7, <2>1 DEF Follow
<1>8. ASSUME NEW d \in Devices, NEW m, DeviceReset(d, m) PROVE OnlyOperatorsReset'
  <2>1. \A e \in Devices : generation'[e] = generation[e] \/ generation'[e] = m.generation
    BY <1>8 DEF DeviceReset, ApplyReset, BrowsersTyped
  <2> QED BY <1>3, <1>5, <1>8, <2>1 DEF DeviceReset, relayVars
<1>9. ASSUME NEW d \in Devices, NEW answering \in SUBSET Relays, Poll(d, answering) \/ Start(d, answering)
      PROVE  OnlyOperatorsReset'
  <2>1. \A e \in Devices : generation'[e] = generation[e] \/ generation'[e] = NetworkGeneration(answering)
    <3>1. CASE Poll(d, answering)
      BY <3>1 DEF Poll, ApplyReset, BrowsersTyped
    <3>2. CASE Start(d, answering)
      BY <3>2 DEF Start, ApplyReset, BrowsersTyped
    <3> QED BY <1>9, <3>1, <3>2
  <2>2. UNCHANGED <<epoch, issued>>
    BY <1>9 DEF Poll, Start, relayVars
  <2> QED BY <1>2, <1>5, <2>1, <2>2
<1>10. ASSUME NEW d \in Devices, Wired(d) \/ Reload(d) \/ Close(d) PROVE OnlyOperatorsReset'
  BY <1>5, <1>10 DEF Wired, Reload, Close, Gone, relayVars
<1>11. ASSUME NEW d \in Devices, ClearAll(d) PROVE OnlyOperatorsReset'
  <2>1. issued \subseteq issued' /\ UNCHANGED epoch
    BY <1>11 DEF ClearAll, relayVars
  <2>2. \A e \in Devices : generation'[e] = generation[e] \/ \E m \in issued' : m.generation = generation'[e]
    <3>1. CASE wallet[d] /= <<>> /\ wallet[d][1] \in known[d]
      <4> DEFINE m == [generation |-> generation[d] + 1, operator |-> wallet[d][1]]
      <4>1. m \in issued' /\ generation' = [generation EXCEPT ![d] = generation[d] + 1]
        BY <1>11, <3>1 DEF ClearAll, ApplyReset
      <4> QED BY <4>1 DEF BrowsersTyped
    <3>2. CASE ~ (wallet[d] /= <<>> /\ wallet[d][1] \in known[d])
      BY <1>11, <3>2 DEF ClearAll, ApplyReset, BrowsersTyped
    <3> QED BY <3>1, <3>2
  <2> QED BY <1>5, <2>1, <2>2
<1>12. ASSUME NEW d \in Devices, NEW a \in Accounts, CreateAccount(d, a) PROVE OnlyOperatorsReset'
  BY <1>5, <1>12 DEF CreateAccount
<1> QED BY <1>6, <1>7, <1>8, <1>9, <1>10, <1>11, <1>12 DEF ResetNext

-----------------------------------------------------------------------------
(* What a reset clears. *)

\* A step that empties d's wallet, or keeps it and raises d's generation only
\* while nobody hears it.
WalletKept(d) ==
  \/ wallet'[d] = <<>>
  \/ wallet'[d] = wallet[d] /\ (generation'[d] <= generation[d] \/ d \in told')

LEMMA YoungStays ==
  ASSUME MaxGeneration \in Nat, ResetTypes, ResetTypes', WalletsYoung, UNCHANGED created, told \subseteq told',
         \A d \in Devices : WalletKept(d)
  PROVE  WalletsYoung'
BY DEF WalletsYoung, WalletKept, ResetTypes, BrowsersTyped, HistoryTyped

LEMMA WalletsStep ==
  ASSUME MaxGeneration \in Nat, OperatorCount \in Nat, ResetTypes, WalletsYoung, ResetNext PROVE WalletsYoung'
<1>1. ResetTypes'
  BY TypesStep
<1>2. \A d \in Devices : wallet[d] \in Seq(Accounts) /\ generation[d] \in Nat
  BY DEF ResetTypes, BrowsersTyped
<1>3. ASSUME UNCHANGED <<wallet, generation, created, told>> PROVE WalletsYoung'
  BY <1>1, <1>2, <1>3, YoungStays DEF WalletKept
<1>4. ASSUME NEW d \in Devices, NEW g \in 0..MaxGeneration, phase[d] \in {"node", "page"},
             ApplyReset(d, g), Announced(d), UNCHANGED created
      PROVE  WalletsYoung'
  <2>1. told \subseteq told' /\ \A e \in Devices \ {d} : WalletKept(e)
    <3>1. told \subseteq told' /\ \A e \in Devices \ {d} : wallet'[e] = wallet[e]
      BY <1>4 DEF Announced, ResetTypes, BrowsersTyped
    <3>2. \A e \in Devices \ {d} : generation'[e] = generation[e]
      BY <1>4 DEF ApplyReset, ResetTypes, BrowsersTyped
    <3> QED BY <1>2, <3>1, <3>2 DEF WalletKept
  <2>2. WalletKept(d)
    BY <1>4 DEF Announced, WalletKept, ResetTypes, BrowsersTyped
  <2> QED BY <1>1, <1>4, <2>1, <2>2, YoungStays
<1>5. ASSUME NEW r \in Relays, NEW m, RelayReset(r, m) PROVE WalletsYoung'
  BY <1>3, <1>5 DEF RelayReset
<1>6. ASSUME NEW r \in Relays, NEW q \in Relays, Follow(r, q) PROVE WalletsYoung'
  BY <1>3, <1>6 DEF Follow
<1>7. ASSUME NEW d \in Devices, NEW m, DeviceReset(d, m) PROVE WalletsYoung'
  <2>1. m.generation \in 0..MaxGeneration
    BY <1>7 DEF DeviceReset, ResetTypes, HistoryTyped, Resets
  <2> QED BY <1>3, <1>4, <1>7, <2>1 DEF DeviceReset
<1>8. ASSUME NEW d \in Devices, NEW answering \in SUBSET Relays, Poll(d, answering) PROVE WalletsYoung'
  <2>1. CASE NetworkGeneration(answering) > generation[d]
    <3>1. NetworkGeneration(answering) \in 0..MaxGeneration
      BY <1>2, <2>1, NetworkGenerationIsTheirs DEF ResetTypes, RelaysTyped
    <3> QED BY <1>4, <1>8, <2>1, <3>1 DEF Poll
  <2>2. CASE ~ (NetworkGeneration(answering) > generation[d])
    BY <1>3, <1>8, <2>2 DEF Poll
  <2> QED BY <2>1, <2>2
<1>9. ASSUME NEW d \in Devices, NEW answering \in SUBSET Relays, Start(d, answering) PROVE WalletsYoung'
  <2> DEFINE g == NetworkGeneration(answering)
  <2>1. /\ UNCHANGED <<wallet, created>> /\ told \subseteq told'
        /\ g > generation[d] => d \in told'
        /\ \A e \in Devices \ {d} : generation'[e] = generation[e]
    BY <1>9 DEF Start, ApplyReset, ResetTypes, BrowsersTyped
  <2>2. ~ (g > generation[d]) => generation'[d] <= generation[d]
    <3> SUFFICES ASSUME ~ (g > generation[d]) PROVE generation'[d] <= generation[d]
      OBVIOUS
    <3>1. generation' = [generation EXCEPT ![d] = IF 0 <= g /\ g < @ THEN g ELSE @]
      BY <1>9 DEF Start
    <3>2. g \in Int
      BY NetworkGenerationIsTheirs DEF ResetTypes, RelaysTyped
    <3> HIDE DEF g
    <3> QED BY <1>2, <3>1, <3>2 DEF ResetTypes, BrowsersTyped
  <2>3. \A e \in Devices : WalletKept(e)
    BY <1>2, <2>1, <2>2 DEF WalletKept
  <2> QED BY <1>1, <2>1, <2>3, YoungStays
<1>10. ASSUME NEW d \in Devices, Wired(d) \/ Reload(d) \/ Close(d) PROVE WalletsYoung'
  BY <1>3, <1>10 DEF Wired, Reload, Close, Gone
<1>11. ASSUME NEW d \in Devices, ClearAll(d) PROVE WalletsYoung'
  <2>1. /\ UNCHANGED <<created, told>> /\ wallet'[d] = <<>>
        /\ \A e \in Devices \ {d} : wallet'[e] = wallet[e]
    BY <1>11 DEF ClearAll, ResetTypes, BrowsersTyped
  <2>2. \A e \in Devices \ {d} : generation'[e] = generation[e]
    BY <1>11 DEF ClearAll, ApplyReset, ResetTypes, BrowsersTyped
  <2>3. \A e \in Devices : WalletKept(e)
    BY <1>2, <2>1, <2>2 DEF WalletKept
  <2> QED BY <1>1, <2>1, <2>3, YoungStays
<1>12. ASSUME NEW d \in Devices, NEW a \in Accounts, CreateAccount(d, a) PROVE WalletsYoung'
  <2> DEFINE S == {generation[d]} \cup {epoch[r] : r \in Relays}
  <2>1. Latest(S) \in Nat /\ generation[d] <= Latest(S)
    <3>1. S \in SUBSET (0..MaxGeneration) /\ generation[d] \in S
      BY DEF ResetTypes, RelaysTyped, BrowsersTyped
    <3> HIDE DEF S
    <3>2. S # {}
      BY <3>1
    <3>3. Latest(S) \in S /\ \A h \in S : h <= Latest(S)
      BY <3>1, <3>2, LatestIsGreatest
    <3>4. Latest(S) \in 0..MaxGeneration
      BY <3>1, <3>3
    <3>5. generation[d] <= Latest(S)
      BY <3>1, <3>3
    <3> QED BY <3>4, <3>5
  <2>2. /\ created' = [created EXCEPT ![a] = Latest(S)] /\ created[a] = -1
        /\ wallet' = [wallet EXCEPT ![d] = Append(@, a)] /\ UNCHANGED <<generation, told>>
    BY <1>12 DEF CreateAccount
  <2> HIDE DEF S
  <2>3. \A e \in Devices : \A i \in 1..Len(wallet[e]) :
          wallet[e][i] # a /\ created'[wallet[e][i]] = created[wallet[e][i]]
    BY <1>2, <2>2 DEF WalletsYoung, ResetTypes, HistoryTyped
  <2>4. created'[a] = Latest(S)
    BY <2>2 DEF ResetTypes, HistoryTyped
  <2>5. \A i \in 1..Len(wallet'[d]) :
          wallet'[d][i] = a \/ (i \in 1..Len(wallet[d]) /\ wallet'[d][i] = wallet[d][i])
    <3>1. wallet'[d] = Append(wallet[d], a)
      BY <2>2 DEF ResetTypes, BrowsersTyped
    <3>2. wallet[d] \in Seq(Accounts)
      BY <1>2
    <3>3. \A i \in 1..Len(Append(wallet[d], a)) :
            Append(wallet[d], a)[i] = a \/ (i \in 1..Len(wallet[d]) /\ Append(wallet[d], a)[i] = wallet[d][i])
      BY <3>2, AppendedIndex
    <3> QED BY <3>1, <3>3
  <2>6. \A e \in Devices \ {d} : wallet'[e] = wallet[e]
    BY <2>2 DEF ResetTypes, BrowsersTyped
  <2> QED
    <3> SUFFICES ASSUME NEW e \in Devices, NEW i \in (1..Len(wallet[e]))'
                 PROVE  /\ created'[wallet'[e][i]] >= 0
                        /\ e \notin told' => created'[wallet'[e][i]] >= generation'[e]
      BY DEF WalletsYoung
    <3>1. CASE e = d /\ wallet'[d][i] = a
      BY <2>1, <2>2, <2>4, <3>1
    <3>2. CASE e = d /\ wallet'[d][i] # a
      BY <2>2, <2>3, <2>5, <3>2 DEF WalletsYoung
    <3>3. CASE e # d
      BY <2>2, <2>3, <2>6, <3>3 DEF WalletsYoung
    <3> QED BY <3>1, <3>2, <3>3
<1> QED BY <1>5, <1>6, <1>7, <1>8, <1>9, <1>10, <1>11, <1>12 DEF ResetNext

-----------------------------------------------------------------------------
(* The theorems. *)

LEMMA ResetInitInv ==
  ASSUME MaxGeneration \in Nat, OperatorCount \in Nat, ResetInit PROVE ResetInv
<1>1. ResetTypes
  BY TypesInit
<1>2. OnlyOperatorsReset /\ WalletsYoung
  BY DEF ResetInit, OnlyOperatorsReset, WalletsYoung
<1> QED BY <1>1, <1>2 DEF ResetInv

LEMMA ResetStep ==
  ASSUME MaxGeneration \in Nat, OperatorCount \in Nat, ResetInv, [ResetNext]_resetVars PROVE ResetInv'
<1>1. CASE ResetNext
  BY <1>1, TypesStep, OperatorsStep, WalletsStep DEF ResetInv
<1>2. CASE UNCHANGED resetVars
  BY <1>2 DEF resetVars, ResetInv, ResetTypes, RelaysTyped, BrowsersTyped, HistoryTyped, OnlyOperatorsReset,
              WalletsYoung
<1> QED BY <1>1, <1>2

\* What a listening browser has in its wallet.
LEMMA YoungAreHeard == ASSUME ResetInv PROVE HeardResetClears
<1> SUFFICES ASSUME NEW d \in Devices \ told, NEW a \in Range(wallet[d]) PROVE created[a] >= generation[d]
  BY DEF HeardResetClears
<1>1. PICK i \in 1..Len(wallet[d]) : a = wallet[d][i]
  BY RangeIsIndexed DEF ResetInv, ResetTypes, BrowsersTyped
<1> QED BY <1>1 DEF ResetInv, WalletsYoung

LEMMA TypesAreResetTypes == ASSUME ResetInv PROVE ResetTypeOK
<1>1. \A r \in Relays : Range(operators[r]) \subseteq Accounts
  BY RangeIsIndexed DEF ResetInv, ResetTypes, RelaysTyped
<1>2. \A d \in Devices : Range(wallet[d]) \subseteq Accounts
  BY RangeIsIndexed DEF ResetInv, ResetTypes, BrowsersTyped
<1>3. \A p \in inbox : p[1] \in issued /\ p[2] \in Relays \cup Devices
  BY DEF ResetInv, ResetTypes, HistoryTyped
<1> QED BY <1>1, <1>2, <1>3 DEF ResetInv, ResetTypes, RelaysTyped, BrowsersTyped, Phases, ResetTypeOK

(* For any relays, browsers and accounts: generations come from operators,  *)
(* and wallets are younger than the resets their pages heard of (relay/     *)
(* server.ts performNetworkWipe, libp2p-network.ts clearAll, main.ts        *)
(* applyReset).                                                             *)
THEOREM ResetSound ==
  ASSUME MaxGeneration \in Nat, OperatorCount \in Nat PROVE ResetSpec => []ResetInv
<1>1. ResetInit => ResetInv
  BY ResetInitInv
<1>2. ResetInv /\ [ResetNext]_resetVars => ResetInv'
  BY ResetStep
<1> QED BY <1>1, <1>2, PTL DEF ResetSpec

(* A browser that no operator's reset reached is in the first generation,   *)
(* and so is a relay (libp2p-network.ts clearAll).                          *)
THEOREM OperatorsReset ==
  ASSUME MaxGeneration \in Nat, OperatorCount \in Nat PROVE ResetSpec => []OnlyOperatorsReset
<1>1. ResetInv => OnlyOperatorsReset
  BY DEF ResetInv
<1> QED BY <1>1, ResetSound, PTL

(* A reset that a listening page hears of leaves no older account in the    *)
(* wallet (main.ts applyReset).                                             *)
THEOREM ResetClears ==
  ASSUME MaxGeneration \in Nat, OperatorCount \in Nat PROVE ResetSpec => []HeardResetClears
BY ResetSound, YoungAreHeard, PTL

-----------------------------------------------------------------------------
(* Withdrawn files. *)

\* The types of the variables that decide what a relay serves.
RecordsTyped ==
  /\ now \in 0..MaxTime
  /\ index \in [Owners -> 0..MaxTime]
  /\ loops \subseteq [rec : Records, left : 1..Attempts]
  /\ archive \in [FileRelays -> Records] /\ onDisk \in [FileRelays -> Records]
  /\ kept \in [FileRelays -> Nat] /\ forgotten \in [FileRelays -> Nat]

\* A retained withdrawal that no restart lost is at most as new as what the
\* relay has.
RetainedCovered ==
  \A r \in FileRelays : kept[r] > forgotten[r] /\ now - kept[r] <= Retain => archive[r].time >= kept[r]

WithdrawalInv == RecordsTyped /\ RetainedCovered

FileConstants == MaxTime \in Nat /\ Retain \in Int /\ Attempts \in Nat \ {0}

LEMMA RecordTimes ==
  ASSUME FileConstants, NEW rec \in Records
  PROVE  rec.time \in Nat /\ rec.removed \in BOOLEAN
<1>1. CASE rec \in [owner : Owners, time : 1..MaxTime, removed : BOOLEAN]
  BY <1>1 DEF FileConstants
<1>2. CASE rec = NoRecord
  BY <1>2 DEF NoRecord
<1> QED BY <1>1, <1>2 DEF Records

\* archiveFileRecord keeps its type and, with the history, the coverage.
LEMMA ArchivedCovers ==
  ASSUME FileConstants, RecordsTyped, NEW r \in FileRelays, NEW rec \in Records, NEW t \in Int, t >= now,
         kept[r] > forgotten[r] /\ now - kept[r] <= Retain => archive[r].time >= kept[r],
         NEW new, new = Archived(rec, archive[r]),
         NEW mem, mem = Remembered(r, new), NEW lost, lost = Forgotten(r, new)
  PROVE  /\ new \in Records /\ mem \in Nat /\ lost \in Nat
         /\ mem > lost /\ t - mem <= Retain => new.time >= mem
<1>1. /\ rec.time \in Nat /\ archive[r].time \in Nat /\ kept[r] \in Nat /\ forgotten[r] \in Nat /\ now \in Nat /\ Retain \in Int
      /\ archive[r] \in Records /\ NoRecord \in Records /\ NoRecord.time = 0 /\ NoRecord.removed = FALSE
  <2>1. archive[r] \in Records /\ kept[r] \in Nat /\ forgotten[r] \in Nat /\ now \in Nat /\ Retain \in Int
    BY DEF RecordsTyped, FileConstants
  <2>2. NoRecord \in Records
    BY DEF Records
  <2>3. NoRecord.time = 0 /\ NoRecord.removed = FALSE
    BY DEF NoRecord
  <2> QED BY <2>1, <2>2, <2>3, RecordTimes
<1>2. CASE new = archive[r]
  BY <1>1, <1>2 DEF Remembered, Forgotten
<1>3. CASE new = NoRecord /\ new # archive[r]
  BY <1>1, <1>3 DEF Remembered, Forgotten, Archived, TombstoneExpired
<1>4. CASE new = rec /\ new # archive[r]
  BY <1>1, <1>4 DEF Remembered, Forgotten, Archived
<1> QED BY <1>2, <1>3, <1>4 DEF Archived

LEMMA PublishCovers ==
  ASSUME FileConstants, WithdrawalInv, NEW rec \in Records, NEW S \in SUBSET FileRelays, Publish(rec, S),
         now' \in Int, now' >= now
  PROVE  /\ archive' \in [FileRelays -> Records] /\ kept' \in [FileRelays -> Nat] /\ forgotten' \in [FileRelays -> Nat]
         /\ RetainedCovered'
<1>1. /\ archive \in [FileRelays -> Records] /\ kept \in [FileRelays -> Nat] /\ forgotten \in [FileRelays -> Nat] /\ now \in Int /\ Retain \in Int
      /\ \A r \in FileRelays : archive[r].time \in Nat
  BY RecordTimes DEF WithdrawalInv, RecordsTyped, FileConstants
<1>2. /\ archive' = [r \in FileRelays |-> IF r \in S THEN Archived(rec, archive[r]) ELSE archive[r]]
      /\ kept' = [r \in FileRelays |-> IF r \in S THEN Remembered(r, archive'[r]) ELSE kept[r]]
      /\ forgotten' = [r \in FileRelays |-> IF r \in S THEN Forgotten(r, archive'[r]) ELSE forgotten[r]]
  BY DEF Publish
<1>3. ASSUME NEW r \in FileRelays
      PROVE  /\ archive'[r] \in Records /\ kept'[r] \in Nat /\ forgotten'[r] \in Nat
             /\ kept'[r] > forgotten'[r] /\ now' - kept'[r] <= Retain => archive'[r].time >= kept'[r]
  <2>1. CASE r \in S
    <3>1. /\ archive'[r] = Archived(rec, archive[r]) /\ kept'[r] = Remembered(r, archive'[r])
          /\ forgotten'[r] = Forgotten(r, archive'[r])
      BY <1>2, <2>1
    <3> QED BY <3>1, ArchivedCovers DEF WithdrawalInv, RetainedCovered
  <2>2. CASE r \notin S
    <3>1. archive'[r] = archive[r] /\ kept'[r] = kept[r] /\ forgotten'[r] = forgotten[r]
      BY <1>2, <2>2
    <3> QED BY <1>1, <3>1 DEF WithdrawalInv, RetainedCovered
  <2> QED BY <2>1, <2>2
<1>4. archive' \in [FileRelays -> Records] /\ kept' \in [FileRelays -> Nat] /\ forgotten' \in [FileRelays -> Nat]
  <2>1. DOMAIN archive' = FileRelays /\ DOMAIN kept' = FileRelays /\ DOMAIN forgotten' = FileRelays
    BY <1>2
  <2> QED BY <1>2, <1>3
<1> QED BY <1>3, <1>4 DEF RetainedCovered

LEMMA IndexInitInv == ASSUME FileConstants, IndexInit PROVE WithdrawalInv
<1>1. NoRecord \in Records
  BY DEF Records
<1>2. NoRecord.time = 0
  BY DEF NoRecord
<1> QED BY <1>1, <1>2 DEF FileConstants, IndexInit, WithdrawalInv, RecordsTyped, RetainedCovered

LEMMA AnnounceCovers ==
  ASSUME FileConstants, WithdrawalInv, NEW o \in Owners, NEW S \in SUBSET FileRelays, NEW arrives,
         AnnounceFile(o, S) \/ RemoveFile(o, S, arrives)
  PROVE  WithdrawalInv'
<1>1. /\ now \in 0..MaxTime /\ now < MaxTime /\ now' = now + 1 /\ MaxTime \in Nat
  BY DEF AnnounceFile, RemoveFile, WithdrawalInv, RecordsTyped, FileConstants
<1>2. PICK rec \in {Announcement(o, now + 1), Withdrawal(o, now + 1)} :
        Publish(rec, S) /\ loops' = loops \cup {[rec |-> rec, left |-> Attempts]}
  BY DEF AnnounceFile, RemoveFile
<1>3. rec \in Records
  <2>1. now + 1 \in 1..MaxTime
    BY <1>1
  <2>2. Announcement(o, now + 1) \in Records /\ Withdrawal(o, now + 1) \in Records
    BY <2>1 DEF Records, Announcement, Withdrawal
  <2> QED BY <1>2, <2>2
<1>4. /\ archive' \in [FileRelays -> Records] /\ kept' \in [FileRelays -> Nat] /\ forgotten' \in [FileRelays -> Nat]
      /\ RetainedCovered'
  BY <1>1, <1>2, <1>3, PublishCovers
<1>5. loops' \subseteq [rec : Records, left : 1..Attempts]
  BY <1>2, <1>3 DEF WithdrawalInv, RecordsTyped, FileConstants
<1>6. index' \in [Owners -> 0..MaxTime] /\ onDisk' \in [FileRelays -> Records]
  BY <1>1 DEF AnnounceFile, RemoveFile, WithdrawalInv, RecordsTyped
<1> QED BY <1>1, <1>4, <1>5, <1>6 DEF WithdrawalInv, RecordsTyped

LEMMA ConfirmCovers ==
  ASSUME FileConstants, WithdrawalInv, NEW loop \in loops, NEW S \in SUBSET FileRelays,
         NEW T \in SUBSET FileRelays, ConfirmAnnouncement(loop, S, T)
  PROVE  WithdrawalInv'
<1>1. /\ now' = now /\ index' = index /\ onDisk' = onDisk /\ now \in Int
      /\ loop.rec \in Records
  BY DEF ConfirmAnnouncement, WithdrawalInv, RecordsTyped
<1>2. loops' \subseteq [rec : Records, left : 1..Attempts]
  <2>1. loops \subseteq [rec : Records, left : 1..Attempts] /\ loop \in [rec : Records, left : 1..Attempts]
    BY DEF WithdrawalInv, RecordsTyped
  <2>2. loop.left # 1 => [loop EXCEPT !.left = @ - 1] \in [rec : Records, left : 1..Attempts]
    BY <2>1 DEF FileConstants
  <2>3. \/ loops' = loops \ {loop}
        \/ loop.left # 1 /\ loops' = (loops \ {loop}) \cup {[loop EXCEPT !.left = @ - 1]}
    BY DEF ConfirmAnnouncement
  <2> QED BY <2>1, <2>2, <2>3
<1>3. Publish(loop.rec, T) \/ UNCHANGED <<archive, kept, forgotten>>
  BY DEF ConfirmAnnouncement
<1>4. CASE Publish(loop.rec, T)
  BY <1>1, <1>2, <1>4, PublishCovers DEF WithdrawalInv, RecordsTyped
<1>5. CASE UNCHANGED <<archive, kept, forgotten>>
  BY <1>1, <1>2, <1>5 DEF WithdrawalInv, RecordsTyped, RetainedCovered
<1> QED BY <1>3, <1>4, <1>5

LEMMA ReannounceCovers ==
  ASSUME FileConstants, WithdrawalInv, NEW o \in Owners, NEW S \in SUBSET FileRelays, Reannounce(o, S)
  PROVE  WithdrawalInv'
<1>1. /\ UNCHANGED <<now, index, loops, onDisk>> /\ now \in Int
      /\ Publish(Announcement(o, index[o]), S)
      /\ index[o] \in 1..MaxTime
  BY DEF Reannounce, WithdrawalInv, RecordsTyped, FileConstants
<1>2. Announcement(o, index[o]) \in Records
  BY <1>1 DEF Announcement, Records
<1> QED BY <1>1, <1>2, PublishCovers DEF WithdrawalInv, RecordsTyped

LEMMA BackfillCovers ==
  ASSUME FileConstants, WithdrawalInv, NEW r \in FileRelays, NEW p \in FileRelays, Backfill(r, p)
  PROVE  WithdrawalInv'
<1>1. /\ UNCHANGED <<now, index, loops, onDisk>> /\ now \in Int /\ Retain \in Int
      /\ archive \in [FileRelays -> Records] /\ kept \in [FileRelays -> Nat] /\ forgotten \in [FileRelays -> Nat]
      /\ archive' = [archive EXCEPT ![r] = Archived(archive[p], archive[r])]
      /\ kept' = [kept EXCEPT ![r] = Remembered(r, archive'[r])]
      /\ forgotten' = [forgotten EXCEPT ![r] = Forgotten(r, archive'[r])]
  BY DEF Backfill, WithdrawalInv, RecordsTyped, FileConstants
<1>2. /\ archive'[r] \in Records /\ kept'[r] \in Nat /\ forgotten'[r] \in Nat
      /\ kept'[r] > forgotten'[r] /\ now' - kept'[r] <= Retain => archive'[r].time >= kept'[r]
  <2>1. /\ archive'[r] = Archived(archive[p], archive[r]) /\ kept'[r] = Remembered(r, archive'[r])
        /\ forgotten'[r] = Forgotten(r, archive'[r])
    BY <1>1
  <2> QED BY <1>1, <2>1, ArchivedCovers DEF WithdrawalInv, RetainedCovered
<1>3. archive' \in [FileRelays -> Records] /\ kept' \in [FileRelays -> Nat] /\ forgotten' \in [FileRelays -> Nat]
  BY <1>1, <1>2
<1>4. RetainedCovered'
  BY <1>1, <1>2 DEF WithdrawalInv, RetainedCovered
<1> QED BY <1>1, <1>3, <1>4 DEF WithdrawalInv, RecordsTyped

\* A record that retires is an expired withdrawal, so none is retained.
LEMMA RetireCovers ==
  ASSUME FileConstants, WithdrawalInv, NEW r \in FileRelays, Retire(r)
  PROVE  WithdrawalInv'
<1>1. /\ UNCHANGED <<now, index, loops, onDisk, kept, forgotten>> /\ now \in Int /\ Retain \in Int
      /\ archive \in [FileRelays -> Records] /\ kept \in [FileRelays -> Nat] /\ forgotten \in [FileRelays -> Nat]
      /\ archive' = [archive EXCEPT ![r] = NoRecord] /\ NoRecord \in Records
      /\ now - archive[r].time > Retain /\ archive[r].time \in Nat
  BY RecordTimes DEF Retire, TombstoneExpired, WithdrawalInv, RecordsTyped, FileConstants, Records
<1>2. RetainedCovered'
  BY <1>1 DEF WithdrawalInv, RetainedCovered
<1> QED BY <1>1, <1>2 DEF WithdrawalInv, RecordsTyped

LEMMA RelayCovers ==
  ASSUME FileConstants, WithdrawalInv, NEW r \in FileRelays, SaveFiles(r) \/ RestartRelay(r)
  PROVE  WithdrawalInv'
<1>1. /\ UNCHANGED <<now, index, loops>> /\ now \in Int /\ Retain \in Int
      /\ archive \in [FileRelays -> Records] /\ kept \in [FileRelays -> Nat] /\ forgotten \in [FileRelays -> Nat]
      /\ onDisk \in [FileRelays -> Records]
      /\ onDisk[r].time \in Nat
  BY RecordTimes DEF SaveFiles, RestartRelay, WithdrawalInv, RecordsTyped, FileConstants
<1>2. CASE SaveFiles(r)
  BY <1>1, <1>2 DEF SaveFiles, WithdrawalInv, RecordsTyped, RetainedCovered
<1>3. CASE RestartRelay(r)
  BY <1>1, <1>3 DEF RestartRelay, WithdrawalInv, RecordsTyped, RetainedCovered
<1> QED BY <1>2, <1>3

\* Steps that no relay notices; time can only take withdrawals out of retention.
LEMMA QuietCovers ==
  ASSUME FileConstants, WithdrawalInv, UNCHANGED <<index, loops, archive, onDisk, kept, forgotten>>,
         now' = now \/ (now < MaxTime /\ now' = now + 1)
  PROVE  WithdrawalInv'
<1>1. now \in 0..MaxTime /\ now' \in 0..MaxTime /\ now' >= now /\ Retain \in Int /\ kept \in [FileRelays -> Nat] /\ forgotten \in [FileRelays -> Nat]
  BY DEF WithdrawalInv, RecordsTyped, FileConstants
<1>2. RetainedCovered'
  BY <1>1 DEF WithdrawalInv, RetainedCovered
<1> QED BY <1>1, <1>2 DEF WithdrawalInv, RecordsTyped

LEMMA IndexStep ==
  ASSUME FileConstants, WithdrawalInv, [IndexNext]_indexVars PROVE WithdrawalInv'
<1>1. CASE Tick
  BY <1>1, QuietCovers DEF Tick
<1>2. ASSUME NEW o \in Owners, HolderCaches(o) PROVE WithdrawalInv'
  BY <1>2, QuietCovers DEF HolderCaches
<1>3. ASSUME NEW o \in Owners, NEW S \in SUBSET FileRelays, AnnounceFile(o, S) \/ Reannounce(o, S)
      PROVE  WithdrawalInv'
  BY <1>3, AnnounceCovers, ReannounceCovers
<1>4. ASSUME NEW o \in Owners, NEW S \in SUBSET FileRelays, NEW arrives \in BOOLEAN, RemoveFile(o, S, arrives)
      PROVE  WithdrawalInv'
  BY <1>4, AnnounceCovers
<1>5. ASSUME NEW loop \in loops, NEW S \in SUBSET FileRelays, NEW T \in SUBSET FileRelays,
             ConfirmAnnouncement(loop, S, T)
      PROVE  WithdrawalInv'
  BY <1>5, ConfirmCovers
<1>6. ASSUME NEW S \in SUBSET FileRelays, Sweep(S) PROVE WithdrawalInv'
  BY <1>6, QuietCovers DEF Sweep
<1>7. ASSUME NEW r \in FileRelays, NEW p \in FileRelays, Backfill(r, p) PROVE WithdrawalInv'
  BY <1>7, BackfillCovers
<1>8. ASSUME NEW r \in FileRelays, Retire(r) \/ SaveFiles(r) \/ RestartRelay(r) PROVE WithdrawalInv'
  BY <1>8, RetireCovers, RelayCovers
<1>9. CASE UNCHANGED indexVars
  BY <1>9, QuietCovers DEF indexVars
<1> QED BY <1>1, <1>2, <1>3, <1>4, <1>5, <1>6, <1>7, <1>8, <1>9 DEF IndexNext

(* A retained withdrawal is covered by what its relay has, for any owners,  *)
(* relays and retention (relay/server.ts archiveFileRecord, file-index.ts). *)
THEOREM WithdrawalsCovered == ASSUME FileConstants PROVE IndexSpec => []WithdrawalInv
<1>1. IndexInit => WithdrawalInv
  BY IndexInitInv
<1>2. WithdrawalInv /\ [IndexNext]_indexVars => WithdrawalInv'
  BY IndexStep
<1> QED BY <1>1, <1>2, PTL DEF IndexSpec

LEMMA CoveredIsNotRevived == ASSUME WithdrawalInv PROVE NoStaleRevival
BY DEF WithdrawalInv, RetainedCovered, NoStaleRevival

(* "a stale re-announcement can never revive a withdrawal" (relay/server.ts *)
(* archiveFileRecord), whatever relays hear, reload and hand each other, but *)
(* for the withdrawals a restart lost before saveFiles had written them.     *)
THEOREM WithdrawalsNotRevived == ASSUME FileConstants PROVE IndexSpec => []NoStaleRevival
BY WithdrawalsCovered, CoveredIsNotRevived, PTL

-----------------------------------------------------------------------------
(* Departed providers. *)

StorageBlocks == [type : {"register", "deregister"}, time : Nat]

\* Chains are of storage blocks, and a relay archives what was signed.
SignedOnly ==
  /\ clock \in Nat
  /\ chain \in [Providers -> Seq(StorageBlocks)]
  /\ archived \in [Archives -> SUBSET (Providers \X Nat)]
  /\ \A r \in Archives : \A b \in archived[r] : b[2] \in 1..Len(chain[b[1]])

\* Blocks of a chain, as an answer names them.
SignedBlocks(B) == B \subseteq Providers \X Nat /\ \A b \in B : b[2] \in 1..Len(chain[b[1]])

LEMMA DiscoveryInitInv == ASSUME DiscoveryInit PROVE SignedOnly
BY DEF DiscoveryInit, SignedOnly

LEMMA SignsKeeps ==
  ASSUME SignedOnly, NEW p \in Providers, RegisterStorage(p) \/ DeregisterStorage(p)
  PROVE  SignedOnly'
<1>1. PICK type \in {"register", "deregister"} :
        /\ chain' = [chain EXCEPT ![p] = Append(@, [type |-> type, time |-> clock])]
        /\ archived' = archived /\ clock' = clock
  BY DEF RegisterStorage, DeregisterStorage, Signs
<1>2. [type |-> type, time |-> clock] \in StorageBlocks
  BY DEF StorageBlocks, SignedOnly
<1> DEFINE blk == [type |-> type, time |-> clock]
<1> HIDE DEF blk
<1>3. /\ chain' = [chain EXCEPT ![p] = Append(chain[p], blk)] /\ blk \in StorageBlocks
      /\ chain \in [Providers -> Seq(StorageBlocks)]
  BY <1>1, <1>2 DEF SignedOnly, blk
<1>4. chain' \in [Providers -> Seq(StorageBlocks)]
  BY <1>3
<1>5. \A q \in Providers : Len(chain[q]) \in Nat /\ Len(chain'[q]) \in Nat /\ Len(chain[q]) <= Len(chain'[q])
  <2> TAKE q \in Providers
  <2>1. CASE q = p
    BY <1>3, <2>1
  <2>2. CASE q # p
    BY <1>3, <2>2
  <2> QED BY <2>1, <2>2
<1>6. \A r \in Archives : \A b \in archived[r] : b[2] \in 1..Len(chain'[b[1]])
  <2> TAKE r \in Archives
  <2> TAKE b \in archived[r]
  <2>1. b[1] \in Providers /\ b[2] \in 1..Len(chain[b[1]])
    BY DEF SignedOnly
  <2> QED BY <1>5, <2>1
<1> QED BY <1>1, <1>4, <1>6 DEF SignedOnly

LEMMA ArchiveKeeps ==
  ASSUME SignedOnly, NEW r \in Archives, NEW p \in Providers, ArchiveBlock(r, p)
  PROVE  SignedOnly'
<1>1. PICK i \in 1..Len(chain[p]) : archived' = [archived EXCEPT ![r] = @ \cup {<<p, i>>}]
  BY DEF ArchiveBlock
<1>2. chain' = chain /\ clock' = clock /\ i \in Nat
  BY DEF ArchiveBlock, SignedOnly
<1>3. archived' \in [Archives -> SUBSET (Providers \X Nat)]
  BY <1>1, <1>2 DEF SignedOnly
<1>4. \A s \in Archives : \A b \in archived'[s] : b[2] \in 1..Len(chain[b[1]])
  BY <1>1 DEF SignedOnly
<1> QED BY <1>2, <1>3, <1>4 DEF SignedOnly

LEMMA DiscoveryStep ==
  ASSUME SignedOnly, [DiscoveryNext]_discoveryVars PROVE SignedOnly'
<1>1. ASSUME NEW p \in Providers, RegisterStorage(p) \/ DeregisterStorage(p) PROVE SignedOnly'
  BY <1>1, SignsKeeps
<1>2. ASSUME NEW p \in Providers, NEW r \in Archives, ArchiveBlock(r, p) PROVE SignedOnly'
  BY <1>2, ArchiveKeeps
<1>3. ASSUME NEW p \in Providers, BroadcastStorageStats(p) \/ AcceptPresence(p) PROVE SignedOnly'
  BY <1>3 DEF BroadcastStorageStats, AcceptPresence, SignedOnly
<1>4. ASSUME NEW p \in Held, ApplyStorageBlock(p) PROVE SignedOnly'
  BY <1>4 DEF ApplyStorageBlock, SignedOnly
<1>5. ASSUME NEW R \in SUBSET Archives, RefreshStorageProviders(R) PROVE SignedOnly'
  BY <1>5 DEF RefreshStorageProviders, SignedOnly
<1>6. CASE TimePasses
  BY <1>6 DEF TimePasses, SignedOnly
<1>7. CASE UNCHANGED discoveryVars
  BY <1>7 DEF discoveryVars, SignedOnly
<1> QED BY <1>1, <1>2, <1>3, <1>4, <1>5, <1>6, <1>7 DEF DiscoveryNext

\* The newest block of a type is one of the blocks.
LEMMA NewestIsOneOf ==
  ASSUME SignedOnly, NEW B, SignedBlocks(B), NEW p \in Providers, NEW type
  PROVE  /\ Of(B, p, type) \subseteq 1..Len(chain[p]) /\ Len(chain[p]) \in Nat
         /\ \A i \in Of(B, p, type) : <<p, i>> \in B /\ chain[p][i].type = type
         /\ Of(B, p, type) # {} => /\ NewestOf(Of(B, p, type)) \in Of(B, p, type)
                                   /\ \A i \in Of(B, p, type) : i <= NewestOf(Of(B, p, type))
         /\ Of(B, p, type) = {} => NewestOf(Of(B, p, type)) = 0
<1>1. /\ Of(B, p, type) \subseteq 1..Len(chain[p]) /\ Len(chain[p]) \in Nat
      /\ \A i \in Of(B, p, type) : <<p, i>> \in B /\ chain[p][i].type = type
  <2>1. Len(chain[p]) \in Nat
    BY DEF SignedOnly
  <2>2. ASSUME NEW i \in Of(B, p, type)
        PROVE  i \in 1..Len(chain[p]) /\ <<p, i>> \in B /\ chain[p][i].type = type
    <3>1. PICK c \in B : c[1] = p /\ chain[p][c[2]].type = type /\ i = c[2]
      BY DEF Of
    <3>2. c = <<p, i>> /\ c[2] \in 1..Len(chain[c[1]])
      BY <3>1 DEF SignedBlocks
    <3> QED BY <3>1, <3>2
  <2> QED BY <2>1, <2>2
<1> DEFINE O == Of(B, p, type)
<1> HIDE DEF O
<1>2. O # {} => \E g \in O : \A h \in O : h <= g
  <2>1. Len(chain[p]) \in Nat /\ O \in SUBSET (0..Len(chain[p]))
    BY <1>1 DEF O
  <2> QED BY <2>1, GreatestExists
<1>3. O \subseteq Int
  BY <1>1 DEF O
<1>4. O # {} => NewestOf(O) \in O /\ \A i \in O : i <= NewestOf(O)
  BY <1>2, <1>3 DEF NewestOf, Max
<1>5. O = {} => NewestOf(O) = 0
  BY DEF NewestOf
<1> QED BY <1>1, <1>4, <1>5 DEF O

\* What an answer describes is in the archive it comes from.
LEMMA AnswersAreArchived ==
  ASSUME SignedOnly, NEW B, SignedBlocks(B), NEW s \in SelectDiscoveryBlocks(B)
  PROVE  s \subseteq B
<1>1. PICK S \in Ranked(B) : s = {<<p, Registered(B, p)>> : p \in S}
                               \cup {<<p, NewestOf(Of(B, p, "deregister"))>> : p \in Departures(B)}
  BY DEF SelectDiscoveryBlocks
<1>2. \A p \in S : <<p, Registered(B, p)>> \in B
  <2> TAKE p \in S
  <2>1. p \in Providers /\ Of(B, p, "register") # {}
    BY DEF Ranked, Listed
  <2> QED BY <2>1, NewestIsOneOf DEF Registered
<1>3. \A p \in Departures(B) : <<p, NewestOf(Of(B, p, "deregister"))>> \in B
  <2> TAKE p \in Departures(B)
  <2>1. p \in Providers /\ NewestOf(Of(B, p, "deregister")) > NewestOf(Of(B, p, "register"))
    BY DEF Departures, Departed
  <2>2. NewestOf(Of(B, p, "register")) \in Nat
    BY <2>1, NewestIsOneOf
  <2>3. Of(B, p, "deregister") # {}
    BY <2>1, <2>2, NewestIsOneOf
  <2> QED BY <2>1, <2>3, NewestIsOneOf
<1> QED BY <1>1, <1>2, <1>3

\* Blocks that hold the departure at the end of a chain fold to a departure.
LEMMA LastIsNewest ==
  ASSUME SignedOnly, NEW B, SignedBlocks(B), NEW p \in Providers, chain[p] # <<>>, ~IsProvider(p),
         <<p, Len(chain[p])>> \in B
  PROVE  Departed(B, p) /\ NewestOf(Of(B, p, "deregister")) = Len(chain[p])
<1> DEFINE n == Len(chain[p])
           D == NewestOf(Of(B, p, "deregister"))
           G == NewestOf(Of(B, p, "register"))
<1>1. n \in Nat /\ n > 0 /\ chain[p][n] \in StorageBlocks
  BY DEF SignedOnly
<1>2. chain[p][n].type = "deregister"
  BY <1>1 DEF IsProvider, StorageBlocks
<1>3. n \in Of(B, p, "deregister") /\ n \notin Of(B, p, "register")
  BY <1>2 DEF Of
<1>4. D \in 1..n /\ n <= D
  BY <1>1, <1>3, NewestIsOneOf
<1>5. G \in 0..n /\ G # n
  BY <1>1, <1>3, NewestIsOneOf
<1> QED BY <1>1, <1>4, <1>5 DEF Departed

LEMMA SignedSettles == ASSUME SignedOnly PROVE DepartureSettles
<1> SUFFICES ASSUME NEW p \in Providers, NEW R \in SUBSET Archives,
                    chain[p] # <<>>, ~IsProvider(p),
                    clock - TimeOf(p, Len(chain[p])) <= Window,
                    NEW r \in R, <<p, Len(chain[p])>> \in archived[r],
                    NEW B \in Answers(R)
             PROVE  p \notin FoldProviderBlocks(B)
  BY DEF DepartureSettles
<1>1. \A q \in R : SignedBlocks(archived[q])
  BY DEF SignedOnly, SignedBlocks
<1>2. PICK f : /\ \A q \in R : f[q] \in SelectDiscoveryBlocks(archived[q])
               /\ B = UNION {f[q] : q \in R}
  BY DEF Answers
<1>3. \A q \in R : f[q] \subseteq archived[q]
  BY <1>1, <1>2, AnswersAreArchived
<1>4. SignedBlocks(B)
  BY <1>1, <1>2, <1>3 DEF SignedBlocks
<1>5. <<p, Len(chain[p])>> \in B
  <2>1. Departed(archived[r], p) /\ NewestOf(Of(archived[r], p, "deregister")) = Len(chain[p])
    BY <1>1, LastIsNewest
  <2>2. p \in Departures(archived[r])
    BY <2>1 DEF Departures
  <2>3. <<p, Len(chain[p])>> \in f[r]
    <3>1. f[r] \in SelectDiscoveryBlocks(archived[r])
      BY <1>2
    <3> QED BY <2>1, <2>2, <3>1 DEF SelectDiscoveryBlocks
  <2> QED BY <1>2, <2>3
<1>6. Departed(B, p)
  BY <1>4, <1>5, LastIsNewest
<1> QED BY <1>6 DEF FoldProviderBlocks

(* "a single relay carrying the departure is enough to settle it"           *)
(* (provider-discovery.ts): whichever relays answer, whatever they miss and *)
(* however they rank the others, for any providers, relays and limits.      *)
THEOREM DeparturesSettle == DiscoverySpec => []DepartureSettles
<1>1. DiscoveryInit => SignedOnly
  BY DiscoveryInitInv
<1>2. SignedOnly /\ [DiscoveryNext]_discoveryVars => SignedOnly'
  BY DiscoveryStep
<1>3. SignedOnly => DepartureSettles
  BY SignedSettles
<1> QED BY <1>1, <1>2, <1>3, PTL DEF DiscoverySpec

-----------------------------------------------------------------------------
(* A node and its shards. *)

\* The shards a node accumulates have those of its accounts, once their events
\* are wired, and of the senders it asked about; a network that is up is
\* subscribed to what was accumulated.
SessionInv ==
  /\ Session!NetUp => shardSubs = shards
  /\ session \in {"loading", "running"} => \A a \in localKeys : ShardOf[a] \in shards
  /\ \A s \in chainAsked : From[s] \in shards

LEMMA SessionInitInv == ASSUME Session!SessionInit PROVE SessionInv
BY DEF Session!SessionInit, SessionInv, Session!NetUp

LEMMA SubscribeKeeps ==
  ASSUME SessionInv, NEW S, Session!Subscribe(S), UNCHANGED session
  PROVE  shards' = shards \cup S /\ (Session!NetUp' => shardSubs' = shards')
BY DEF Session!Subscribe, Session!NetUp, SessionInv

LEMMA SessionStep == ASSUME SessionInv, [Session!SessionNext]_Session!sessionVars PROVE SessionInv'
<1>1. CASE Session!NetStart
  BY <1>1 DEF Session!NetStart, Session!NetUp, SessionInv, Session!claimVars
<1>2. CASE Session!WireEvents
  BY <1>2 DEF Session!WireEvents, Session!Subscribe, Session!NetUp, SessionInv, Session!claimVars
<1>3. CASE Session!Running
  BY <1>3 DEF Session!Running, Session!NetUp, SessionInv, Session!claimVars, Session!shardVars
<1>4. ASSUME NEW a \in Wallet, Session!AddLocalKey(a) PROVE SessionInv'
  <2>1. UNCHANGED <<session, chainAsked>> /\ localKeys' = localKeys \cup {a} /\ Session!Subscribe({ShardOf[a]})
    BY <1>4 DEF Session!AddLocalKey, Session!claimVars
  <2> QED BY <2>1, SubscribeKeeps DEF SessionInv
<1>5. CASE Session!StopNet \/ Session!StopNode \/ Session!Load
  BY <1>5 DEF Session!StopNet, Session!StopNode, Session!Load, Session!NetUp, SessionInv, Session!claimVars, Session!shardVars
<1>6. ASSUME UNCHANGED <<session, localKeys, shards, shardSubs>>,
             chainAsked' \subseteq chainAsked
      PROVE  SessionInv'
  BY <1>6 DEF SessionInv, Session!NetUp
<1>7. ASSUME NEW s \in Sends, Session!ClaimViaProof(s) PROVE SessionInv'
  <2>1. UNCHANGED <<session, chainAsked, localKeys>> /\ Session!Subscribe({From[s]})
    BY <1>7 DEF Session!ClaimViaProof
  <2> QED BY <2>1, SubscribeKeeps DEF SessionInv
<1>8. ASSUME NEW s \in Sends, Session!EngineResyncAccount(s) PROVE SessionInv'
  <2>1. UNCHANGED <<session, localKeys>> /\ Session!Subscribe({From[s]}) /\ chainAsked' \subseteq chainAsked \cup {s}
    BY <1>8 DEF Session!EngineResyncAccount
  <2> QED BY <2>1, SubscribeKeeps DEF SessionInv
<1>9. ASSUME NEW s \in Sends, Session!Send(s) \/ Session!SignalLost(s) \/ Session!SignalArrives(s) \/ Session!DeltaArrives(s)
      PROVE  SessionInv'
  BY <1>6, <1>9 DEF Session!Send, Session!SignalLost, Session!SignalArrives, Session!DeltaArrives, Session!shardVars
<1>10. ASSUME NEW a \in Wallet, Session!CheckPendingInbound(a) PROVE SessionInv'
  BY <1>6, <1>10 DEF Session!CheckPendingInbound, Session!shardVars
<1>11. ASSUME NEW b \in OwnBlocks, Session!SubmitBlock(b) PROVE SessionInv'
  BY <1>6, <1>11 DEF Session!SubmitBlock, Session!shardVars, Session!claimVars
<1>12. ASSUME NEW x \in Sends \cup OwnBlocks, Session!SaveEngineBlock(x) PROVE SessionInv'
  BY <1>6, <1>12 DEF Session!SaveEngineBlock, Session!shardVars, Session!claimVars
<1>13. CASE Session!PublishLocalData \/ UNCHANGED Session!sessionVars
  BY <1>6, <1>13 DEF Session!PublishLocalData, Session!shardVars, Session!claimVars, Session!sessionVars
<1> QED BY <1>1, <1>2, <1>3, <1>4, <1>5, <1>7, <1>8, <1>9, <1>10, <1>11, <1>12, <1>13 DEF Session!SessionNext

LEMMA ShardsAreHeld == ASSUME SessionInv PROVE Session!ShardsHeld
BY DEF SessionInv, Session!ShardsHeld, Session!NetUp

(* A running node listens on the shards of its wallet's accounts, however   *)
(* often it is stopped and started again (node.ts start, subscribeAccount).  *)
THEOREM ShardsKept == Session!SessionSpec => []Session!ShardsHeld
<1>1. Session!SessionInit => SessionInv
  BY SessionInitInv
<1>2. SessionInv /\ [Session!SessionNext]_Session!sessionVars => SessionInv'
  BY SessionStep
<1>3. SessionInv => Session!ShardsHeld
  BY ShardsAreHeld
<1> QED BY <1>1, <1>2, <1>3, PTL DEF Session!SessionSpec

-----------------------------------------------------------------------------
(* One tab. *)

TabConstants == Stale \in Nat \ {0} /\ "none" \notin Tabs

TabTypes ==
  /\ age \in 0..Stale /\ since \in [Tabs -> 0..Stale] /\ excused \in BOOLEAN
  /\ tab \in [Tabs -> {"closed", "passed", "running", "refused"}]

\* While nothing excuses it, a running tab has the entry, which its heartbeat
\* keeps younger than the age at which another tab takes it.
Owning(t) == t \in beating /\ owner = t /\ age <= since[t] /\ since[t] < Stale
RunningOwns ==
  /\ \A t \in Tabs : t \in beating => tab[t] = "running"
  /\ excused \/ \A t \in Tabs : tab[t] = "running" => Owning(t)

TabInv == TabTypes /\ RunningOwns

LEMMA TabInitInv == ASSUME TabConstants, Tab!TabInit PROVE TabInv
<1>1. age = 0 /\ since = [t \in Tabs |-> 0] /\ tab = [t \in Tabs |-> "closed"] /\ excused = FALSE
  BY DEF Tab!TabInit
<1>2. age \in 0..Stale /\ since \in [Tabs -> 0..Stale]
  BY <1>1 DEF TabConstants
<1>3. \A t \in Tabs : t \notin beating /\ tab[t] # "running"
  BY <1>1 DEF Tab!TabInit
<1> QED BY <1>1, <1>2, <1>3 DEF TabInv, TabTypes, RunningOwns

LEMMA TabTypesStep == ASSUME TabConstants, TabTypes, [Tab!TabNext]_Tab!tabVars PROVE TabTypes'
<1>1. ASSUME NEW t \in Tabs, Tab!Check(t) PROVE TabTypes'
  BY <1>1 DEF Tab!Check, TabTypes
<1>2. 0 \in 0..Stale
  BY DEF TabConstants
<1>3. ASSUME NEW t \in Tabs, Tab!writeLock(t), tab' \in [Tabs -> {"closed", "passed", "running", "refused"}],
             excused' \in BOOLEAN
      PROVE  TabTypes'
  BY <1>2, <1>3 DEF Tab!writeLock, TabTypes
<1>4. ASSUME NEW t \in Tabs, Tab!Acquire(t) PROVE TabTypes'
  <2>1. tab' \in [Tabs -> {"closed", "passed", "running", "refused"}] /\ excused' \in BOOLEAN
    BY <1>4 DEF Tab!Acquire, TabTypes
  <2> QED BY <1>3, <1>4, <2>1 DEF Tab!Acquire
<1>5. ASSUME NEW t \in Tabs, Tab!Beat(t) PROVE TabTypes'
  BY <1>3, <1>5 DEF Tab!Beat, TabTypes
<1>6. ASSUME NEW t \in Tabs, NEW stays \in BOOLEAN, Tab!Unload(t, stays) PROVE TabTypes'
  BY <1>6 DEF Tab!Unload, TabTypes
<1>7. ASSUME NEW t \in Tabs, Tab!Killed(t) PROVE TabTypes'
  BY <1>7 DEF Tab!Killed, TabTypes
<1>8. CASE Tab!Tick
  <2>1. age' \in 0..Stale /\ since' \in [Tabs -> 0..Stale]
    BY <1>8 DEF Tab!Tick, TabTypes, TabConstants
  <2> QED BY <1>8, <2>1 DEF Tab!Tick, TabTypes
<1>9. CASE UNCHANGED Tab!tabVars
  BY <1>9 DEF Tab!tabVars, TabTypes
<1> QED BY <1>1, <1>4, <1>5, <1>6, <1>7, <1>8, <1>9 DEF Tab!TabNext

LEMMA BeatersRunStep == ASSUME TabInv, [Tab!TabNext]_Tab!tabVars PROVE (\A t \in Tabs : t \in beating => tab[t] = "running")'
<1> USE DEF TabInv, TabTypes, RunningOwns
<1>1. ASSUME NEW t \in Tabs, Tab!Check(t) PROVE \A u \in Tabs : u \in beating' => tab'[u] = "running"
  BY <1>1 DEF Tab!Check
<1>2. ASSUME NEW t \in Tabs, Tab!Acquire(t) PROVE \A u \in Tabs : u \in beating' => tab'[u] = "running"
  BY <1>2 DEF Tab!Acquire
<1>3. ASSUME NEW t \in Tabs, Tab!Beat(t) PROVE \A u \in Tabs : u \in beating' => tab'[u] = "running"
  BY <1>3 DEF Tab!Beat
<1>4. ASSUME NEW t \in Tabs, NEW stays \in BOOLEAN, Tab!Unload(t, stays) PROVE \A u \in Tabs : u \in beating' => tab'[u] = "running"
  BY <1>4 DEF Tab!Unload
<1>5. ASSUME NEW t \in Tabs, Tab!Killed(t) PROVE \A u \in Tabs : u \in beating' => tab'[u] = "running"
  BY <1>5 DEF Tab!Killed
<1>6. CASE Tab!Tick \/ UNCHANGED Tab!tabVars
  BY <1>6 DEF Tab!Tick, Tab!tabVars
<1> QED BY <1>1, <1>2, <1>3, <1>4, <1>5, <1>6 DEF Tab!TabNext

LEMMA RunningOwnsStep == ASSUME TabConstants, TabInv, [Tab!TabNext]_Tab!tabVars PROVE RunningOwns'
<1> SUFFICES ASSUME ~excused', NEW u \in Tabs, tab'[u] = "running" PROVE Owning(u)'
  BY BeatersRunStep DEF RunningOwns
<1> USE DEF TabInv, TabTypes
\* A tab that ran before the step had the entry.
<1>1. ASSUME ~excused, tab[u] = "running" PROVE Owning(u)
  BY <1>1 DEF RunningOwns
<1>2. ASSUME NEW t \in Tabs, Tab!Check(t) PROVE Owning(u)'
  <2>1. ~excused /\ tab[u] = "running"
    BY <1>2 DEF Tab!Check
  <2> QED BY <1>1, <1>2, <2>1 DEF Tab!Check, Owning
<1>3. ASSUME NEW t \in Tabs, Tab!Acquire(t) PROVE Owning(u)'
  <2>1. ~excused /\ ~Tab!LockedByOther
    BY <1>3 DEF Tab!Acquire
  <2>2. ~ (tab[u] = "running")
    <3> SUFFICES ASSUME tab[u] = "running" PROVE FALSE
      OBVIOUS
    <3>1. owner = u /\ age < Stale
      BY <1>1, <2>1 DEF Owning, TabConstants
    <3>2. owner # "none"
      BY <3>1 DEF TabConstants
    <3> QED BY <2>1, <3>1, <3>2 DEF Tab!LockedByOther
  <2>3. u = t
    BY <1>3, <2>2 DEF Tab!Acquire
  <2>4. t \in beating' /\ owner' = t /\ age' = 0 /\ since'[t] = 0
    BY <1>3 DEF Tab!Acquire, Tab!writeLock
  <2> QED BY <2>3, <2>4 DEF Owning, TabConstants
<1>4. ASSUME NEW t \in Tabs, Tab!Beat(t) PROVE Owning(u)'
  <2>1. UNCHANGED <<tab, beating, excused>> /\ owner' = t /\ age' = 0 /\ since' = [since EXCEPT ![t] = 0] /\ t \in beating
    BY <1>4 DEF Tab!Beat, Tab!writeLock
  <2>2. Owning(u) /\ owner = t
    BY <1>1, <2>1 DEF RunningOwns, Owning
  <2> QED BY <2>1, <2>2 DEF Owning, TabConstants
<1>5. ASSUME NEW t \in Tabs, NEW stays \in BOOLEAN, Tab!Unload(t, stays) PROVE Owning(u)'
  <2>1. ~excused /\ ~stays
    BY <1>5 DEF Tab!Unload
  <2>2. tab[u] = "running" /\ u # t
    BY <1>5, <2>1 DEF Tab!Unload
  <2>3. Owning(u) /\ Owning(t)
    BY <1>1, <1>5, <2>1, <2>2 DEF Tab!Unload, RunningOwns
  <2> QED BY <2>2, <2>3 DEF Owning
<1>6. ASSUME NEW t \in Tabs, Tab!Killed(t) PROVE Owning(u)'
  <2>1. ~excused /\ tab[u] = "running" /\ u # t
    BY <1>6 DEF Tab!Killed
  <2>2. Owning(u)
    BY <1>1, <2>1
  <2> QED BY <1>6, <2>1, <2>2 DEF Tab!Killed, Owning
<1>7. CASE Tab!Tick
  <2>1. ~excused /\ tab[u] = "running" /\ \A t \in beating : since'[t] # Stale
    BY <1>7 DEF Tab!Tick
  <2>2. Owning(u)
    BY <1>1, <2>1
  <2>3. since'[u] # Stale /\ UNCHANGED <<owner, beating>>
    BY <1>7, <2>1, <2>2 DEF Tab!Tick, Owning
  <2>4. age' <= since'[u] /\ since'[u] < Stale
    BY <1>7, <2>2, <2>3 DEF Tab!Tick, Owning, TabConstants
  <2> QED BY <2>2, <2>3, <2>4 DEF Owning
<1>8. CASE UNCHANGED Tab!tabVars
  BY <1>1, <1>8 DEF Tab!tabVars, Owning
<1> QED BY <1>2, <1>3, <1>4, <1>5, <1>6, <1>7, <1>8 DEF Tab!TabNext

LEMMA TabStep == ASSUME TabConstants, TabInv, [Tab!TabNext]_Tab!tabVars PROVE TabInv'
BY TabTypesStep, RunningOwnsStep DEF TabInv

LEMMA OwnerRunsAlone == ASSUME TabInv PROVE Tab!OneTabRuns
BY DEF TabInv, RunningOwns, Owning, Tab!OneTabRuns

(* No two tabs run the node at once, unless one of them was suspended for   *)
(* longer than its heartbeat lasts (tab-lock.ts).                           *)
THEOREM RunsInOneTab == ASSUME TabConstants PROVE Tab!TabSpec => []Tab!OneTabRuns
<1>1. Tab!TabInit => TabInv
  BY TabInitInv
<1>2. TabInv /\ [Tab!TabNext]_Tab!tabVars => TabInv'
  BY TabStep
<1>3. TabInv => Tab!OneTabRuns
  BY OwnerRunsAlone
<1> QED BY <1>1, <1>2, <1>3, PTL DEF Tab!TabSpec

-----------------------------------------------------------------------------
(* The relay table. *)

Counts == [KnownRelays -> Int]
TableTypes == fails \in [Clients -> Counts] /\ stored \in [Clients -> Counts] /\ missed \in [Clients -> Counts]

\* The table and the database count no more than the failures in a row, and an
\* open page has in its table what is in the database.
CountedOnce ==
  \A c \in Clients, r \in KnownRelays :
    missed[c][r] >= 0 /\ fails[c][r] <= missed[c][r] /\ stored[c][r] <= missed[c][r]
TablesMirrored == \A c \in Clients \cap running : stored[c] = fails[c]

TableInv == TableTypes /\ CountedOnce /\ TablesMirrored

LEMMA TableInitInv == ASSUME Table!RelayInit PROVE TableInv
BY DEF Table!RelayInit, TableInv, TableTypes, CountedOnce, TablesMirrored, Counts

\* A contact of an open page with one relay: its record is set in the table and
\* in the database alike.
LEMMA ContactCounts ==
  ASSUME TableInv, NEW c \in Clients \cap running, NEW r \in KnownRelays, NEW n \in Int, NEW m \in Nat, n <= m,
         fails' = [fails EXCEPT ![c][r] = n], stored' = [stored EXCEPT ![c][r] = n],
         missed' = [missed EXCEPT ![c][r] = m], UNCHANGED running
  PROVE  TableInv'
<1> USE DEF TableInv, TableTypes, Counts
<1>1. TableTypes'
  OBVIOUS
<1>2. ASSUME NEW d \in Clients, NEW q \in KnownRelays
      PROVE  missed'[d][q] >= 0 /\ fails'[d][q] <= missed'[d][q] /\ stored'[d][q] <= missed'[d][q]
  BY DEF CountedOnce
<1>3. ASSUME NEW d \in Clients \cap running' PROVE stored'[d] = fails'[d]
  BY <1>3 DEF TablesMirrored
<1> QED BY <1>1, <1>2, <1>3 DEF CountedOnce, TablesMirrored

LEMMA TableStep == ASSUME RelayFailEvict \in Int, TableInv, [Table!RelayNext]_Table!relayVars PROVE TableInv'
<1>0. /\ \A c \in Clients, r \in KnownRelays : fails[c][r] \in Int /\ stored[c][r] \in Int /\ missed[c][r] \in Nat
      /\ \A c \in Clients, r \in KnownRelays : fails[c][r] <= missed[c][r] /\ stored[c][r] <= missed[c][r]
      /\ 0 \in Int /\ 0 \in Nat /\ 0 <= 0 /\ -1 \in Int /\ \A m \in Nat : -1 <= m /\ 0 <= m
  BY DEF TableInv, TableTypes, Counts, CountedOnce
\* The count that a contact leaves.
<1>1. ASSUME NEW c \in Clients \cap running, NEW r \in KnownRelays, NEW ok \in BOOLEAN, Table!Contact(c, r, ok)
      PROVE  \E m \in Nat : /\ missed' = [missed EXCEPT ![c][r] = m]
                            /\ m = IF ok THEN 0 ELSE IF missed[c][r] < RelayFailEvict THEN missed[c][r] + 1 ELSE missed[c][r]
  <2> DEFINE m == IF ok THEN 0 ELSE IF missed[c][r] < RelayFailEvict THEN missed[c][r] + 1 ELSE missed[c][r]
  <2>1. missed[c][r] \in Nat
    BY <1>0
  <2>2. m \in Nat
    BY <2>1
  <2>3. missed' = [missed EXCEPT ![c][r] = m]
    BY <1>1 DEF Table!Contact
  <2> HIDE DEF m
  <2> QED BY <2>2, <2>3 DEF m
<1>2. ASSUME NEW c \in Clients \cap running, NEW r \in KnownRelays, NEW ok \in BOOLEAN, UNCHANGED running,
             Table!Contact(c, r, ok), Table!Upsert(c, r)
      PROVE  TableInv'
  <2>1. PICK m \in Nat : missed' = [missed EXCEPT ![c][r] = m]
    BY <1>1, <1>2
  <2>2. fails' = [fails EXCEPT ![c][r] = 0] /\ stored' = [stored EXCEPT ![c][r] = 0] /\ 0 <= m
    BY <1>2 DEF Table!Upsert
  <2> QED BY <1>0, <1>2, <2>1, <2>2, ContactCounts
<1>3. ASSUME NEW c \in Clients \cap running, NEW r \in KnownRelays, UNCHANGED running,
             Table!Contact(c, r, TRUE), Table!RelaySeen(c, r)
      PROVE  TableInv'
  <2>1. missed' = [missed EXCEPT ![c][r] = 0]
    BY <1>3 DEF Table!Contact
  <2>2. CASE fails[c][r] \in {Table!Unknown, 0}
    <3>1. fails' = [fails EXCEPT ![c][r] = fails[c][r]] /\ stored' = [stored EXCEPT ![c][r] = fails[c][r]]
      BY <1>3, <2>2 DEF Table!RelaySeen, TablesMirrored, TableInv, TableTypes, Counts
    <3>2. fails[c][r] \in Int /\ fails[c][r] <= 0
      BY <1>0, <2>2 DEF Table!Unknown
    <3> QED BY <1>0, <1>3, <2>1, <3>1, <3>2, ContactCounts
  <2>3. CASE fails[c][r] \notin {Table!Unknown, 0}
    BY <1>0, <1>3, <2>1, <2>3, ContactCounts DEF Table!RelaySeen
  <2> QED BY <2>2, <2>3
<1>4. ASSUME NEW c \in Clients \cap running, NEW r \in KnownRelays, UNCHANGED running, r \in Table!Known(c),
             Table!Contact(c, r, FALSE), Table!RelayFailed(c, r)
      PROVE  TableInv'
  <2> DEFINE count == fails[c][r] + 1
  <2>1. PICK m \in Nat : /\ missed' = [missed EXCEPT ![c][r] = m]
                         /\ m = IF missed[c][r] < RelayFailEvict THEN missed[c][r] + 1 ELSE missed[c][r]
    BY <1>1, <1>4
  <2>2. CASE count >= RelayFailEvict \/ r \in stale[c]
    <3>1. fails' = [fails EXCEPT ![c][r] = -1] /\ stored' = [stored EXCEPT ![c][r] = -1]
      BY <1>4, <2>2 DEF Table!RelayFailed, Table!Known, Table!Unknown
    <3> QED BY <1>0, <1>4, <2>1, <3>1, ContactCounts
  <2>3. CASE ~(count >= RelayFailEvict \/ r \in stale[c])
    <3>1. fails' = [fails EXCEPT ![c][r] = count] /\ stored' = [stored EXCEPT ![c][r] = count]
      BY <1>4, <2>3 DEF Table!RelayFailed, Table!Known
    <3>2. count \in Int /\ count <= m
      BY <1>0, <2>1, <2>3
    <3> QED BY <1>4, <2>1, <3>1, <3>2, ContactCounts
  <2> QED BY <2>2, <2>3
<1>5. ASSUME NEW c \in Clients, NEW r \in KnownRelays, Table!Query(c, r) PROVE TableInv'
  <2>1. c \in Clients \cap running /\ UNCHANGED running /\ r \in Table!Known(c)
    BY <1>5 DEF Table!Query
  <2>2. CASE Table!Reaches(c, r)
    <3>1. Table!Contact(c, r, TRUE) /\ Table!RelaySeen(c, r)
      BY <1>5, <2>2 DEF Table!Query, Table!Contact
    <3> QED BY <1>3, <2>1, <3>1
  <2>3. CASE ~Table!Reaches(c, r)
    <3>1. Table!Contact(c, r, FALSE) /\ Table!RelayFailed(c, r)
      BY <1>5, <2>3 DEF Table!Query, Table!Contact
    <3> QED BY <1>4, <2>1, <3>1
  <2> QED BY <2>2, <2>3
<1>6. ASSUME NEW c \in Clients, NEW r \in KnownRelays, Table!CheckLiveness(c, r) PROVE TableInv'
  <2>1. c \in Clients \cap running /\ UNCHANGED running /\ r \in Table!Known(c) /\ Table!Contact(c, r, Table!Reaches(c, r))
    BY <1>6 DEF Table!CheckLiveness
  <2>2. CASE r \in linked[c] \/ Table!Reaches(c, r)
    <3>1. Table!Upsert(c, r) /\ Table!Reaches(c, r) \in BOOLEAN
      BY <1>6, <2>2 DEF Table!CheckLiveness, Table!Reaches
    <3> QED BY <1>2, <2>1, <3>1
  <2>3. CASE ~(r \in linked[c] \/ Table!Reaches(c, r))
    <3>1. Table!Contact(c, r, FALSE) /\ Table!RelayFailed(c, r)
      BY <1>6, <2>3 DEF Table!CheckLiveness, Table!Contact
    <3> QED BY <1>4, <2>1, <3>1
  <2> QED BY <2>2, <2>3
<1>7. ASSUME NEW c \in Clients, NEW from \in Clients, NEW r \in KnownRelays, Table!Announce(from, c, r) PROVE TableInv'
  <2>1. c \in Clients \cap running /\ UNCHANGED running /\ Table!Upsert(c, r) /\ missed' = [missed EXCEPT ![c][r] = 0]
    BY <1>7 DEF Table!Announce
  <2> QED BY <1>0, <2>1, ContactCounts DEF Table!Upsert
<1>8. ASSUME NEW c \in Clients, Table!Close(c) PROVE TableInv'
  <2>1. /\ running' = running \ {c} /\ UNCHANGED <<stored, missed>>
        /\ fails' = [fails EXCEPT ![c] = [r \in KnownRelays |-> -1]]
    BY <1>8 DEF Table!Close, Table!Unknown
  <2>2. TableTypes' /\ TablesMirrored'
    BY <2>1 DEF TablesMirrored, TableInv, TableTypes, Counts
  <2>3. CountedOnce'
    BY <1>0, <2>1 DEF CountedOnce, TableInv, TableTypes, Counts
  <2> QED BY <2>2, <2>3 DEF TableInv
<1>9. ASSUME NEW c \in Clients, Table!Open(c) PROVE TableInv'
  <2>1. PICK loaded \in SUBSET KnownRelays :
              fails' = [fails EXCEPT ![c] = [r \in KnownRelays |-> IF r \in loaded THEN stored[c][r] ELSE -1]]
    BY <1>9 DEF Table!Open, Table!Unknown
  <2>2. running' = running \cup {c} /\ stored' = [stored EXCEPT ![c] = fails'[c]] /\ UNCHANGED missed
    BY <1>9 DEF Table!Open
  <2>3. fails' \in [Clients -> Counts]
    BY <2>1 DEF TableInv, TableTypes, Counts
  <2>4. TableTypes' /\ TablesMirrored'
    BY <2>1, <2>2, <2>3 DEF TablesMirrored, TableInv, TableTypes, Counts
  <2>5. ASSUME NEW d \in Clients, NEW q \in KnownRelays
        PROVE  fails'[d][q] <= missed[d][q] /\ stored'[d][q] <= missed[d][q]
    <3>1. fails'[d][q] <= missed[d][q]
      BY <1>0, <2>1 DEF TableInv, TableTypes, Counts
    <3> QED BY <1>0, <2>2, <2>3, <3>1 DEF TableInv, TableTypes, Counts
  <2> QED BY <1>0, <2>2, <2>4, <2>5 DEF CountedOnce, TableInv
<1>10. ASSUME UNCHANGED <<fails, stored, missed, running>> PROVE TableInv'
  BY <1>10 DEF CountedOnce, TablesMirrored, TableInv, TableTypes, Counts
<1>11. ASSUME NEW c \in Clients, Table!Reconnect(c) \/ Table!Offline(c) \/ Table!BackOnline(c) PROVE TableInv'
  BY <1>10, <1>11 DEF Table!Reconnect, Table!Offline, Table!BackOnline
<1>12. ASSUME NEW c \in Clients, NEW r \in KnownRelays, Table!TimePasses(c, r) PROVE TableInv'
  BY <1>10, <1>12 DEF Table!TimePasses
<1>13. ASSUME NEW r \in KnownRelays, Table!RelayDies(r) PROVE TableInv'
  BY <1>10, <1>13 DEF Table!RelayDies
<1>14. CASE UNCHANGED Table!relayVars
  BY <1>10, <1>14 DEF Table!relayVars
<1> QED BY <1>5, <1>6, <1>7, <1>8, <1>9, <1>11, <1>12, <1>13, <1>14 DEF Table!RelayNext

LEMMA CountsAreConsecutive == ASSUME TableInv PROVE Table!CountIsConsecutive
BY DEF TableInv, CountedOnce, Table!CountIsConsecutive

(* What a client counts against a relay are failures in a row, in its table *)
(* and in its database (libp2p-network.ts recordRelayFail, upsertRelay).    *)
THEOREM EvictedInARow == ASSUME RelayFailEvict \in Int PROVE Table!RelaySpec => []Table!CountIsConsecutive
<1>1. Table!RelayInit => TableInv
  BY TableInitInv
<1>2. TableInv /\ [Table!RelayNext]_Table!relayVars => TableInv'
  BY TableStep
<1>3. TableInv => Table!CountIsConsecutive
  BY CountsAreConsecutive
<1> QED BY <1>1, <1>2, <1>3, PTL DEF Table!RelaySpec

-----------------------------------------------------------------------------
(* Gossip. *)

GateConstants == BucketSize \in Nat /\ RefillRate \in Nat

Buckets == [tokens : Nat, last : Nat]
BucketsTyped == seconds \in Nat /\ bucket \in [Senders -> Buckets] /\ admitted \in [Senders -> Nat]

\* What a bucket let in at this moment and what is left in it.
Spent ==
  \A s \in Senders :
    /\ bucket[s].tokens <= BucketSize /\ bucket[s].last <= seconds
    /\ bucket[s].last = seconds => admitted[s] + bucket[s].tokens <= BucketSize
    /\ bucket[s].last < seconds => admitted[s] = 0

Writes == [block : GossipBlocks, version : Nat, emits : BOOLEAN]
DedupTyped == counter \in Nat /\ processed \in [GossipBlocks -> Nat] /\ saving \subseteq Writes

\* A block in the dedup set that the ledger has not taken is being written, and
\* what the device publishes itself its ledger has.
BeingWritten == \A b \in GossipBlocks : processed[b] > 0 /\ b \notin delivered => \E w \in saving : w.block = b
OwnIsTaken == \A w \in saving : ~w.emits => w.block \in delivered

BucketInv == BucketsTyped /\ Spent
DedupInv == DedupTyped /\ BeingWritten /\ OwnIsTaken

LEMMA LesserOfTwo == ASSUME NEW a \in Nat, NEW b \in Nat PROVE Gate!Min({a, b}) = IF a <= b THEN a ELSE b
<1> DEFINE m == IF a <= b THEN a ELSE b
<1>1. m \in {a, b} /\ \A y \in {a, b} : m <= y
  OBVIOUS
<1>2. ASSUME NEW x \in {a, b}, \A y \in {a, b} : x <= y PROVE x = m
  BY <1>2
<1> HIDE DEF m
<1> QED BY <1>1, <1>2 DEF Gate!Min, m

LEMMA ProductsAreNat == \A m \in Nat, n \in Nat : m * n \in Nat /\ 0 * n = 0
OBVIOUS

LEMMA RefilledTyped ==
  ASSUME GateConstants, seconds \in Nat, NEW k \in Buckets, k.tokens <= BucketSize, k.last <= seconds
  PROVE  /\ Gate!Refilled(k) \in Nat /\ Gate!Refilled(k) <= BucketSize
         /\ k.last = seconds => Gate!Refilled(k) = k.tokens
<1>1. k.tokens \in Nat /\ k.last \in Nat /\ seconds - k.last \in Nat /\ BucketSize \in Nat /\ RefillRate \in Nat
  BY DEF Buckets, GateConstants
<1> DEFINE gained == (seconds - k.last) * RefillRate
<1>2. gained \in Nat
  BY <1>1, ProductsAreNat
<1>3. k.last = seconds => gained = 0
  <2>1. k.last = seconds => seconds - k.last = 0
    BY <1>1
  <2> QED BY <1>1, <2>1, ProductsAreNat
<1>4. Gate!Refilled(k) = Gate!Min({BucketSize, k.tokens + gained})
  BY DEF Gate!Refilled
<1> HIDE DEF gained
<1>5. Gate!Refilled(k) = IF BucketSize <= k.tokens + gained THEN BucketSize ELSE k.tokens + gained
  BY <1>1, <1>2, <1>4, LesserOfTwo
<1> QED BY <1>1, <1>2, <1>3, <1>5

LEMMA BucketInitInv == ASSUME GateConstants, Gate!GateInit PROVE BucketInv
BY DEF GateConstants, Gate!GateInit, BucketInv, BucketsTyped, Buckets, Spent

LEMMA ConsumeSpends ==
  ASSUME GateConstants, BucketInv, NEW s \in Senders, Gate!Consume(s), UNCHANGED seconds
  PROVE  BucketInv'
<1> DEFINE r == Gate!Refilled(bucket[s])
           left == IF r >= 1 THEN r - 1 ELSE r
           let == IF r >= 1 THEN admitted[s] + 1 ELSE admitted[s]
<1>1. /\ seconds \in Nat /\ bucket[s] \in Buckets /\ admitted[s] \in Nat
      /\ bucket[s].tokens <= BucketSize /\ bucket[s].last <= seconds
      /\ bucket[s].last = seconds => admitted[s] + bucket[s].tokens <= BucketSize
      /\ bucket[s].last < seconds => admitted[s] = 0
  BY DEF BucketInv, BucketsTyped, Spent
<1>2. r \in Nat /\ r <= BucketSize /\ (bucket[s].last = seconds => r = bucket[s].tokens)
  BY <1>1, RefilledTyped
<1>3. /\ bucket' = [bucket EXCEPT ![s] = [tokens |-> left, last |-> seconds]]
      /\ admitted' = [admitted EXCEPT ![s] = let]
  BY DEF Gate!Consume
<1>4. bucket[s].last \in Nat /\ bucket[s].tokens \in Nat /\ BucketSize \in Nat
  BY <1>1 DEF Buckets, GateConstants
<1> HIDE DEF r
<1>5. left \in Nat /\ let \in Nat /\ left <= BucketSize /\ let + left <= BucketSize
  BY <1>1, <1>2, <1>4
<1> HIDE DEF left, let
<1>6. BucketsTyped'
  BY <1>3, <1>5 DEF BucketInv, BucketsTyped, Buckets
<1>7. Spent'
  BY <1>1, <1>3, <1>5 DEF BucketInv, BucketsTyped, Buckets, Spent
<1> QED BY <1>6, <1>7 DEF BucketInv

LEMMA BucketStep == ASSUME GateConstants, BucketInv, [Gate!GateNext]_Gate!gateVars PROVE BucketInv'
<1>1. CASE \E s \in Senders : Gate!Consume(s) /\ UNCHANGED seconds
  BY <1>1, ConsumeSpends
<1>2. CASE UNCHANGED <<seconds, bucket, admitted>>
  BY <1>2 DEF BucketInv, BucketsTyped, Spent
<1>3. CASE Gate!Tick
  BY <1>3 DEF Gate!Tick, BucketInv, BucketsTyped, Buckets, Spent
<1> QED
  BY <1>1, <1>2, <1>3 DEF Gate!GateNext, Gate!gateVars, Gate!Refuse, Gate!OtherMessage, Gate!BlockArrives,
     Gate!PublishOwn, Gate!Saved, Gate!ResyncReads, Gate!ResyncApplies

LEMMA SpentWithinBurst == ASSUME GateConstants, BucketInv PROVE Gate!BurstIsBounded
BY DEF GateConstants, BucketInv, BucketsTyped, Buckets, Spent, Gate!BurstIsBounded

LEMMA DedupInitInv == ASSUME Gate!GateInit PROVE DedupInv
BY DEF Gate!GateInit, DedupInv, DedupTyped, BeingWritten, OwnIsTaken

LEMMA AddedTyped ==
  ASSUME DedupTyped, NEW b \in GossipBlocks
  PROVE  /\ Gate!Add(processed, b) \in [GossipBlocks -> Nat]
         /\ \A c \in GossipBlocks \ {b} : Gate!Add(processed, b)[c] = processed[c]
BY DEF DedupTyped, Gate!Add

LEMMA CappedKeeps ==
  ASSUME NEW q \in [GossipBlocks -> Nat]
  PROVE  /\ Gate!Capped(q) \in [GossipBlocks -> Nat]
         /\ \A c \in GossipBlocks : Gate!Capped(q)[c] \in {0, q[c]}
BY DEF Gate!Capped

\* A block enters the dedup set with a write, and others may leave it.
LEMMA WriteBegins ==
  ASSUME DedupInv, NEW b \in GossipBlocks, NEW e \in BOOLEAN, counter' = counter + 1,
         saving' = saving \cup {[block |-> b, version |-> counter + 1, emits |-> e]},
         processed' \in [GossipBlocks -> Nat], \A c \in GossipBlocks \ {b} : processed'[c] \in {0, processed[c]},
         delivered \subseteq delivered', e \/ b \in delivered'
  PROVE  DedupInv'
<1>1. DedupTyped'
  BY DEF DedupInv, DedupTyped, Writes
<1>2. BeingWritten'
  <2> DEFINE new == [block |-> b, version |-> counter + 1, emits |-> e]
  <2>1. new \in saving' /\ saving \subseteq saving' /\ new.block = b
    OBVIOUS
  <2> HIDE DEF new
  <2>2. ASSUME NEW c \in GossipBlocks, c # b, processed'[c] > 0, c \notin delivered'
        PROVE  \E w \in saving' : w.block = c
    <3>1. processed[c] > 0 /\ c \notin delivered
      BY <2>2
    <3>2. PICK w \in saving : w.block = c
      BY <3>1 DEF DedupInv, BeingWritten
    <3> QED BY <2>1, <3>2
  <2> QED BY <2>1, <2>2 DEF BeingWritten
<1>3. OwnIsTaken'
  BY DEF DedupInv, OwnIsTaken
<1> QED BY <1>1, <1>2, <1>3 DEF DedupInv

LEMMA DedupStep == ASSUME DedupInv, [Gate!GateNext]_Gate!gateVars PROVE DedupInv'
<1>0. DedupTyped /\ saving \subseteq Writes
  BY DEF DedupInv, DedupTyped
<1>1. ASSUME NEW s \in Senders, NEW b \in GossipBlocks, Gate!BlockArrives(s, b) PROVE DedupInv'
  <2>1. /\ processed' = Gate!Capped(Gate!Add(processed, b))
        /\ counter' = counter + 1 /\ delivered' = delivered
        /\ saving' = saving \cup {[block |-> b, version |-> counter + 1, emits |-> TRUE]}
    BY <1>1 DEF Gate!BlockArrives
  <2>2. processed' \in [GossipBlocks -> Nat] /\ \A c \in GossipBlocks \ {b} : processed'[c] \in {0, processed[c]}
    BY <1>0, <2>1, AddedTyped, CappedKeeps
  <2> QED BY <2>1, <2>2, WriteBegins
<1>2. ASSUME NEW b \in GossipBlocks, Gate!PublishOwn(b) PROVE DedupInv'
  <2>1. /\ processed' = Gate!Add(processed, b)
        /\ counter' = counter + 1 /\ delivered' = delivered \cup {b}
        /\ saving' = saving \cup {[block |-> b, version |-> counter + 1, emits |-> FALSE]}
    BY <1>2 DEF Gate!PublishOwn
  <2>2. processed' \in [GossipBlocks -> Nat] /\ \A c \in GossipBlocks \ {b} : processed'[c] \in {0, processed[c]}
    BY <1>0, <2>1, AddedTyped
  <2> QED BY <2>1, <2>2, WriteBegins
<1>3. ASSUME NEW w \in saving, NEW taken \in BOOLEAN, Gate!Saved(w, taken) PROVE DedupInv'
  <2>1. /\ saving' = saving \ {w} /\ UNCHANGED counter
        /\ delivered' = IF taken THEN delivered \cup {w.block} ELSE delivered
        /\ processed' = IF w.emits /\ ~taken THEN Gate!Forgotten(processed, {w.block}) ELSE processed
    BY <1>3 DEF Gate!Saved
  <2>2. /\ processed' \in [GossipBlocks -> Nat] /\ \A c \in GossipBlocks : processed'[c] \in {0, processed[c]}
        /\ (~taken /\ w.emits => processed'[w.block] = 0) /\ w.block \in GossipBlocks
    BY <1>0, <2>1 DEF Gate!Forgotten, Writes, DedupTyped
  <2>3. w.block \in delivered' \/ processed'[w.block] = 0
    <3>1. CASE taken
      <4>1. delivered' = delivered \cup {w.block}
        BY <2>1, <3>1
      <4> QED BY <4>1
    <3>2. CASE ~taken
      <4>1. ~w.emits => w.block \in delivered /\ delivered' = delivered
        BY <2>1, <3>2 DEF DedupInv, OwnIsTaken
      <4>2. w.emits => processed'[w.block] = 0
        BY <2>2, <3>2
      <4> QED BY <4>1, <4>2
    <3> QED BY <3>1, <3>2
  <2>4. delivered \subseteq delivered'
    BY <2>1
  <2>5. ASSUME NEW c \in GossipBlocks, processed'[c] > 0, c \notin delivered'
        PROVE  \E u \in saving' : u.block = c
    <3>1. processed[c] > 0 /\ c \notin delivered /\ c # w.block
      BY <2>2, <2>3, <2>4, <2>5
    <3>2. PICK u \in saving : u.block = c
      BY <3>1 DEF DedupInv, BeingWritten
    <3> QED BY <2>1, <3>1, <3>2
  <2>6. OwnIsTaken'
    BY <2>1, <2>4 DEF DedupInv, OwnIsTaken
  <2> QED BY <1>0, <2>1, <2>2, <2>5, <2>6 DEF DedupInv, DedupTyped, BeingWritten
<1>4. ASSUME NEW taken \in SUBSET GossipBlocks, Gate!ResyncApplies(taken) PROVE DedupInv'
  <2>1. /\ processed' \in [GossipBlocks -> Nat] /\ \A c \in GossipBlocks : processed'[c] \in {0, processed[c]}
        /\ UNCHANGED <<saving, counter>> /\ delivered' = delivered \cup taken
    BY <1>0, <1>4 DEF Gate!ResyncApplies, Gate!Forgotten, DedupTyped
  <2> QED BY <2>1 DEF DedupInv, DedupTyped, BeingWritten, OwnIsTaken
<1>5. CASE UNCHANGED <<processed, saving, counter, delivered>>
  BY <1>5 DEF DedupInv, DedupTyped, BeingWritten, OwnIsTaken
<1> QED
  BY <1>1, <1>2, <1>3, <1>4, <1>5 DEF Gate!GateNext, Gate!gateVars, Gate!Refuse, Gate!OtherMessage, Gate!ResyncReads, Gate!Tick

LEMMA DedupStrandsNothing == ASSUME DedupInv PROVE Gate!NothingIsStranded
BY DEF DedupInv, DedupTyped, BeingWritten, Gate!NothingIsStranded

(* A peer gets no more messages through at a moment than its bucket holds,  *)
(* whatever it did before (libp2p-network.ts consumePeerToken).             *)
THEOREM BurstsBounded == ASSUME GateConstants PROVE Gate!GateSpec => []Gate!BurstIsBounded
<1>1. Gate!GateInit => BucketInv
  BY BucketInitInv
<1>2. BucketInv /\ [Gate!GateNext]_Gate!gateVars => BucketInv'
  BY BucketStep
<1>3. BucketInv => Gate!BurstIsBounded
  BY SpentWithinBurst
<1> QED BY <1>1, <1>2, <1>3, PTL DEF Gate!GateSpec

(* A block that was stored is taken by the ledger, or may still come to it: *)
(* the dedup set keeps it away only while its write is under way            *)
(* (libp2p-network.ts handleMessage, node.ts handleIncomingEngineBlock).    *)
THEOREM BlocksNotStranded == Gate!GateSpec => []Gate!NothingIsStranded
<1>1. Gate!GateInit => DedupInv
  BY DedupInitInv
<1>2. DedupInv /\ [Gate!GateNext]_Gate!gateVars => DedupInv'
  BY DedupStep
<1>3. DedupInv => Gate!NothingIsStranded
  BY DedupStrandsNothing
<1> QED BY <1>1, <1>2, <1>3, PTL DEF Gate!GateSpec

-----------------------------------------------------------------------------
(* Request windows. *)

Charges == [count : Nat, start : Nat]
LimiterTypes == ticks \in Nat /\ log \in [Addresses -> Charges] /\ unswept \in [Addresses -> Charges]

\* The swept log has the window of the one nobody sweeps, or both have none
\* that still runs.
SameWindows ==
  \A a \in Addresses : log[a] = unswept[a] \/ (Limiter!Expired(log[a], ticks) /\ Limiter!Expired(unswept[a], ticks))

LimiterInv == LimiterTypes /\ SameWindows /\ Limiter!SweepPreservesDecisions

LEMMA LimiterInitInv == ASSUME Limiter!LimiterInit PROVE LimiterInv
BY DEF Limiter!LimiterInit, LimiterInv, LimiterTypes, Charges, SameWindows, Limiter!None, Limiter!SweepPreservesDecisions

LEMMA ChargeTyped ==
  ASSUME ticks \in Nat, NEW e \in Charges
  PROVE  Limiter!Charge(e) \in Charges
BY DEF Charges, Limiter!Charge

\* An address is answered the same from both logs, and charged the same.
LEMMA AnsweredAlike ==
  ASSUME LimiterInv, NEW a \in Addresses
  PROVE  /\ Limiter!Admits(log[a]) <=> Limiter!Admits(unswept[a])
         /\ Limiter!Charge(log[a]) = Limiter!Charge(unswept[a])
<1>1. CASE log[a] = unswept[a]
  BY <1>1
<1>2. CASE Limiter!Expired(log[a], ticks) /\ Limiter!Expired(unswept[a], ticks)
  BY <1>2 DEF Limiter!Expired, Limiter!Admits, Limiter!Charge, LimiterInv, LimiterTypes, Charges
<1> QED BY <1>1, <1>2 DEF LimiterInv, SameWindows

LEMMA LimiterStep == ASSUME LimitWindow \in Int, LimiterInv, [Limiter!LimiterNext]_Limiter!limiterVars PROVE LimiterInv'
<1> USE DEF LimiterInv, LimiterTypes
<1>1. ASSUME NEW a \in Addresses, NEW charged \in BOOLEAN, UNCHANGED ticks,
             log' = [log EXCEPT ![a] = IF charged THEN Limiter!Charge(@) ELSE @],
             unswept' = [unswept EXCEPT ![a] = IF charged THEN Limiter!Charge(@) ELSE @],
             answers'[1] = answers'[2]
      PROVE  LimiterInv'
  <2>1. LimiterTypes'
    BY <1>1, ChargeTyped
  <2>2. SameWindows'
    <3> SUFFICES ASSUME NEW b \in Addresses
                 PROVE  \/ log'[b] = unswept'[b]
                        \/ Limiter!Expired(log'[b], ticks') /\ Limiter!Expired(unswept'[b], ticks')
      BY DEF SameWindows, Limiter!Expired
    <3>1. CASE b = a /\ charged
      BY <1>1, <3>1, AnsweredAlike
    <3>2. CASE ~(b = a /\ charged)
      <4>1. log'[b] = log[b] /\ unswept'[b] = unswept[b]
        BY <1>1, <3>2
      <4> QED BY <1>1, <4>1 DEF SameWindows
    <3> QED BY <3>1, <3>2
  <2> QED BY <1>1, <2>1, <2>2 DEF Limiter!SweepPreservesDecisions
<1>2. ASSUME NEW a \in Addresses, Limiter!Request(a) PROVE LimiterInv'
  <2> DEFINE charged == Limiter!Admits(log[a])
  <2>1. charged = Limiter!Admits(unswept[a])
    BY AnsweredAlike DEF Limiter!Admits
  <2>2. charged \in BOOLEAN
    BY DEF Limiter!Admits
  <2>3. /\ UNCHANGED ticks
        /\ log' = [log EXCEPT ![a] = IF charged THEN Limiter!Charge(@) ELSE @]
        /\ unswept' = [unswept EXCEPT ![a] = IF charged THEN Limiter!Charge(@) ELSE @]
        /\ answers' = <<charged, charged>>
    BY <1>2, <2>1 DEF Limiter!Request
  <2> HIDE DEF charged
  <2> QED BY <1>1, <2>2, <2>3
<1>3. ASSUME NEW a \in Addresses, Limiter!Ask(a) PROVE LimiterInv'
  <2>1. answers'[1] = answers'[2]
    BY <1>3, AnsweredAlike DEF Limiter!Ask, Limiter!Admits
  <2>2. UNCHANGED <<ticks, log, unswept>>
    BY <1>3 DEF Limiter!Ask
  <2> QED BY <2>1, <2>2 DEF SameWindows, Limiter!Expired, Limiter!SweepPreservesDecisions
<1>4. ASSUME NEW a \in Addresses, NEW passes \in BOOLEAN, Limiter!Verify(a, passes) PROVE LimiterInv'
  <2> DEFINE passing == a \in Local \/ Limiter!Admits(log[a])
             charged == passing /\ passes
  <2>1. passing = (a \in Local \/ Limiter!Admits(unswept[a]))
    BY AnsweredAlike DEF Limiter!Admits
  <2>2. charged \in BOOLEAN
    BY DEF Limiter!Admits
  <2>3. answers' = <<passing, passing>> /\ UNCHANGED ticks
    BY <1>4, <2>1 DEF Limiter!Verify
  <2>5. answers'[1] = passing /\ answers'[2] = passing
    BY <2>3
  <2>6. /\ log' = [log EXCEPT ![a] = IF answers'[1] /\ passes THEN Limiter!Charge(@) ELSE @]
        /\ unswept' = [unswept EXCEPT ![a] = IF answers'[2] /\ passes THEN Limiter!Charge(@) ELSE @]
    BY <1>4 DEF Limiter!Verify
  <2> HIDE DEF passing
  <2>4. /\ log' = [log EXCEPT ![a] = IF charged THEN Limiter!Charge(@) ELSE @]
        /\ unswept' = [unswept EXCEPT ![a] = IF charged THEN Limiter!Charge(@) ELSE @]
    BY <2>5, <2>6
  <2> HIDE DEF charged
  <2> QED BY <1>1, <2>2, <2>3, <2>4, <2>5
<1>5. CASE Limiter!Sweep
  <2>1. UNCHANGED <<ticks, unswept, answers>>
        /\ log' = [a \in Addresses |-> IF Limiter!Expired(log[a], ticks) THEN Limiter!None ELSE log[a]]
    BY <1>5 DEF Limiter!Sweep
  <2>2. LimiterTypes'
    BY <2>1 DEF Limiter!None, Charges
  <2>3. ASSUME NEW a \in Addresses
        PROVE  log'[a] = unswept'[a] \/ (Limiter!Expired(log'[a], ticks') /\ Limiter!Expired(unswept'[a], ticks'))
    <3>1. CASE Limiter!Expired(log[a], ticks)
      <4>1. Limiter!Expired(unswept[a], ticks)
        BY <3>1 DEF SameWindows
      <4>2. log'[a].count = 0
        BY <2>1, <3>1 DEF Limiter!None
      <4> QED BY <2>1, <4>1, <4>2 DEF Limiter!Expired
    <3>2. CASE ~Limiter!Expired(log[a], ticks)
      BY <2>1, <3>2 DEF SameWindows
    <3> QED BY <3>1, <3>2
  <2> QED BY <2>1, <2>2, <2>3 DEF SameWindows, Limiter!Expired, Limiter!SweepPreservesDecisions
<1>6. CASE Limiter!Tick
  <2>1. ticks' = ticks + 1 /\ UNCHANGED <<log, unswept, answers>>
    BY <1>6 DEF Limiter!Tick
  <2> SUFFICES LimiterTypes' /\ SameWindows'
    BY <2>1 DEF Limiter!SweepPreservesDecisions
  <2>2. \A e \in Charges : Limiter!Expired(e, ticks) => Limiter!Expired(e, ticks')
    BY <2>1 DEF Limiter!Expired, Charges
  <2> QED BY <2>1, <2>2 DEF SameWindows, Limiter!Expired
<1>7. CASE UNCHANGED Limiter!limiterVars
  BY <1>7 DEF Limiter!limiterVars, SameWindows, Limiter!Expired, Limiter!SweepPreservesDecisions
<1> QED BY <1>2, <1>3, <1>4, <1>5, <1>6, <1>7 DEF Limiter!LimiterNext

LEMMA SweepsAgree == ASSUME LimiterInv PROVE Limiter!SweepPreservesDecisions
BY DEF LimiterInv

(* Dropping expired windows from the log changes no answer of the limiter   *)
(* (window-limiter.ts sweep).                                               *)
THEOREM SweepsDecideNothing == ASSUME LimitWindow \in Int PROVE Limiter!LimiterSpec => []Limiter!SweepPreservesDecisions
<1>1. Limiter!LimiterInit => LimiterInv
  BY LimiterInitInv
<1>2. LimiterInv /\ [Limiter!LimiterNext]_Limiter!limiterVars => LimiterInv'
  BY LimiterStep
<1>3. LimiterInv => Limiter!SweepPreservesDecisions
  BY SweepsAgree
<1> QED BY <1>1, <1>2, <1>3, PTL DEF Limiter!LimiterSpec

-----------------------------------------------------------------------------
(* Questions to other relays. *)

\* Record keys and chain keys are spelled differently, and a fetch ends before
\* the slot of its key is given up.
BackfillConstants ==
  /\ IsFiniteSet(RecordKeys \cup ChainKeys) /\ RecordKeys \cap ChainKeys = {}
  /\ MaxInFlight \in Nat /\ MaxPerMinute \in Nat /\ MaxAttempts \in Nat
  /\ AskMinute \in Nat \ {0} /\ ForgetAfter \in Nat \ {0}
  /\ FetchTime \in Nat /\ FlightTtl \in Int /\ FetchTime < FlightTtl /\ FlightTtl <= ForgetAfter

\* A few keys are finitely many.
LEMMA ThreeAreFinite == ASSUME NEW a, NEW b, NEW d PROVE IsFiniteSet({a, b, d})
<1>1. IsFiniteSet({a})
  BY FS_Singleton
<1>2. IsFiniteSet({a} \cup {b}) /\ {a} \cup {b} = {a, b}
  BY <1>1, FS_AddElement
<1>3. IsFiniteSet({a, b} \cup {d}) /\ {a, b} \cup {d} = {a, b, d}
  BY <1>2, FS_AddElement
<1> QED BY <1>3

BKeys == RecordKeys \cup ChainKeys
KeyStates == [age : Nat, attempts : Nat, flight : Int]
Fetches == [key : RecordKeys, age : Nat, fresh : BOOLEAN]
Minutes == 0..AskMinute

\* A key's asks, by age: as many as it has attempts, none younger than the last
\* and none that is old enough to be forgotten.
KeptAsks(st, A) ==
  /\ st \in KeyStates /\ -1 <= st.flight /\ st.attempts <= MaxAttempts
  /\ st.flight >= 0 => st.attempts >= 1
  /\ A \in SUBSET Nat /\ IsFiniteSet(A) /\ Cardinality(A) <= st.attempts
  /\ \A a \in A : st.age <= a /\ a < ForgetAfter

KeysInv ==
  /\ keys \in [BKeys -> KeyStates] /\ asks \in [BKeys -> SUBSET Nat]
  /\ \A k \in BKeys : KeptAsks(keys[k], asks[k])

\* The asks of the last minute are among the recent ones, of every age.
MinuteInv ==
  /\ recent \in [Minutes -> Nat] /\ lastMinute \in [Minutes -> Nat]
  /\ lastMinute[AskMinute] = 0 /\ \A a \in Minutes : lastMinute[a] <= recent[a]
  /\ SumOver(lastMinute, Minutes) <= MaxPerMinute

\* Until the first wipe a fetch is the only one for its key and is as old as
\* the flight of the key.
FetchesInFlight ==
  /\ \A f \in fetches : keys[f.key].flight = f.age /\ f.age <= FetchTime
  /\ \A f \in fetches, g \in fetches : f.key = g.key => f = g
  /\ Cardinality(fetches) <= MaxInFlight
FetchInv ==
  /\ wipes \in Nat /\ fetches \subseteq Fetches /\ IsFiniteSet(fetches)
  /\ wipes = 0 => FetchesInFlight

BackfillInv == KeysInv /\ MinuteInv /\ FetchInv

-----------------------------------------------------------------------------
LEMMA SameCardinality == ASSUME NEW S PROVE Asking!Cardinality(S) = Cardinality(S)
BY DEF Asking!Cardinality, Cardinality

\* Sums over the ages of a minute, as the model writes them.
LEMMA CountIsSum == ASSUME NEW w PROVE Asking!Count(w) = SumOver(w, Minutes)
BY DEF Asking!Count, Asking!MapThenSumSet, Asking!MapThenFoldSet, SumOver, MapThenSumSet, MapThenFoldSet, Minutes

LEMMA MinutesFinite == ASSUME BackfillConstants PROVE IsFiniteSet(Minutes)
BY FS_Interval DEF BackfillConstants, Minutes

\* Smaller weights, smaller sum.
LEMMA SumGrows ==
    ASSUME NEW S, IsFiniteSet(S), NEW w, NEW v, \A x \in S : w[x] \in Nat /\ v[x] \in Nat /\ w[x] <= v[x]
    PROVE  SumOver(w, S) \in Nat /\ SumOver(v, S) \in Nat /\ SumOver(w, S) <= SumOver(v, S)
  <1> DEFINE C == {T \in SUBSET S : SumOver(w, T) <= SumOver(v, T)}
  <1>0. \A T \in SUBSET S : SumOver(w, T) \in Nat /\ SumOver(v, T) \in Nat
    <2> TAKE T \in SUBSET S
    <2>1. IsFiniteSet(T)
      BY FS_Subset
    <2>2. \A x \in T : w[x] \in Nat /\ v[x] \in Nat
      OBVIOUS
    <2> QED BY <2>1, <2>2, SumNat
  <1>1. C \in SUBSET SUBSET S /\ {} \in C
    BY SumEmpty
  <1>2. ASSUME NEW T \in C, NEW x \in S \ T
        PROVE  T \cup {x} \in C
    <2>1. /\ IsFiniteSet(T) /\ T \in SUBSET S /\ SumOver(w, T) <= SumOver(v, T)
          /\ x \notin T /\ w[x] \in Int /\ v[x] \in Int /\ w[x] <= v[x]
          /\ \A y \in T : w[y] \in Int /\ v[y] \in Int
      BY FS_Subset
    <2>2. SumOver(w, T \cup {x}) = w[x] + SumOver(w, T) /\ SumOver(v, T \cup {x}) = v[x] + SumOver(v, T)
      BY <2>1, SumAdd
    <2>3. SumOver(w, T) \in Int /\ SumOver(v, T) \in Int
      BY <1>0, <2>1
    <2> QED BY <2>1, <2>2, <2>3
  <1> HIDE DEF C
  <1>3. C = SUBSET S
    BY <1>1, <1>2, FiniteSetInduction
  <1> QED BY <1>0, <1>3 DEF C

\* A minute that moves on by a tick counts no more asks.
LEMMA TickCountsLess ==
  ASSUME BackfillConstants, NEW w \in [Minutes -> Nat],
         NEW v, v = [a \in Minutes |-> IF a \in {0, AskMinute} THEN 0 ELSE w[a - 1]]
  PROVE  SumOver(v, Minutes) <= SumOver(w, Minutes)
<1> DEFINE R == 1..(AskMinute - 1)
           g == [a \in R |-> a - 1]
           T == {g[x] : x \in R}
<1>1. /\ AskMinute \in Nat /\ AskMinute > 0 /\ IsFiniteSet(Minutes)
      /\ R \in SUBSET Minutes /\ T \in SUBSET Minutes
  BY MinutesFinite DEF BackfillConstants, Minutes
<1>2. /\ \A x \in Minutes : w[x] \in Nat /\ v[x] \in Nat /\ w[x] \in Int /\ v[x] \in Int
      /\ \A x \in Minutes \ R : v[x] = 0
      /\ \A x \in R : v[x] = w[g[x]]
      /\ \A x \in R : \A y \in R : g[x] = g[y] => x = y
  BY <1>1 DEF Minutes
<1> HIDE DEF g, R
<1>3. IsFiniteSet(R) /\ IsFiniteSet(Minutes \ R)
  BY <1>1, FS_Subset
<1>4. SumOver(v, Minutes) = SumOver(v, R) + SumOver(v, Minutes \ R)
  BY <1>1, <1>2, SumDisjoint
<1>5. SumOver(v, Minutes \ R) = 0
  BY <1>2, <1>3, SumZero
<1>6. SumOver(v, R) = SumOver(w, T)
  <2>1. \A x \in R : v[x] \in Int /\ v[x] = w[g[x]]
    BY <1>1, <1>2
  <2>2. \A x, y \in R : g[x] = g[y] => x = y
    BY <1>2
  <2>3. SumOver(v, R) = SumOver(w, {g[x] : x \in R})
    BY <1>3, <2>1, <2>2, SumImage
  <2> QED BY <2>3
<1> HIDE DEF T
<1>7. SumOver(w, T) \in Nat /\ SumOver(w, T) <= SumOver(w, Minutes)
  <2>1. {} \in SUBSET Minutes /\ T \cap {} = {}
    OBVIOUS
  <2>2. SumOver(w, T) \in Nat /\ SumOver(w, {}) \in Nat /\ SumOver(w, Minutes) \in Nat
        /\ SumOver(w, T) + SumOver(w, {}) <= SumOver(w, Minutes)
    BY <1>1, <1>2, <2>1, SumParts
  <2> QED BY <2>2
<1> QED BY <1>4, <1>5, <1>6, <1>7

LEMMA MinuteInitInv == ASSUME BackfillConstants, Asking!BackfillInit PROVE MinuteInv
<1>1. SumOver(lastMinute, Minutes) = 0
  <2>1. \A a \in Minutes : lastMinute[a] = 0
    BY DEF Asking!BackfillInit, Asking!NoAsks, Minutes
  <2> QED BY <2>1, MinutesFinite, SumZero
<1> QED BY <1>1 DEF BackfillConstants, Asking!BackfillInit, Asking!NoAsks, MinuteInv, Minutes

LEMMA MinuteWiped ==
  ASSUME BackfillConstants, recent' = Asking!NoAsks, lastMinute' = Asking!NoAsks
  PROVE  MinuteInv'
<1>1. \A a \in Minutes : lastMinute'[a] = 0
  BY DEF Asking!NoAsks, Minutes
<1>2. SumOver(lastMinute', Minutes) = 0
  BY <1>1, MinutesFinite, SumZero
<1> QED BY <1>2 DEF BackfillConstants, Asking!NoAsks, MinuteInv, Minutes

\* What a request reads of the minute: the oldest no longer counts.
LEMMA InMinuteKeeps ==
  ASSUME BackfillConstants, MinuteInv, NEW noted, noted = Asking!InMinute(recent), NEW last, last = Asking!InMinute(lastMinute)
  PROVE  /\ noted \in [Minutes -> Nat] /\ last = lastMinute
         /\ \A a \in Minutes : last[a] <= noted[a]
<1>1. noted \in [Minutes -> Nat]
  BY DEF BackfillConstants, MinuteInv, Minutes, Asking!InMinute
<1>2. last = lastMinute
  <2>1. lastMinute \in [Minutes -> Nat] /\ last \in [Minutes -> Nat]
    BY DEF BackfillConstants, MinuteInv, Minutes, Asking!InMinute
  <2>2. \A a \in Minutes : last[a] = lastMinute[a]
    BY DEF BackfillConstants, MinuteInv, Minutes, Asking!InMinute
  <2> QED BY <2>1, <2>2
<1>3. ASSUME NEW a \in Minutes PROVE last[a] <= noted[a]
  BY <1>2 DEF BackfillConstants, MinuteInv, Minutes, Asking!InMinute
<1> QED BY <1>1, <1>2, <1>3

LEMMA MinuteRefused ==
  ASSUME BackfillConstants, MinuteInv, recent' = Asking!InMinute(recent), UNCHANGED lastMinute
  PROVE  MinuteInv'
<1> DEFINE noted == Asking!InMinute(recent)
           last == Asking!InMinute(lastMinute)
<1>1. /\ noted \in [Minutes -> Nat] /\ last = lastMinute
      /\ \A a \in Minutes : last[a] <= noted[a]
  BY InMinuteKeeps
<1> HIDE DEF noted, last
<1>2. recent' = noted
  BY DEF noted
<1> QED BY <1>1, <1>2 DEF MinuteInv

\* One more ask, now.
LEMMA OneMore ==
  ASSUME BackfillConstants, NEW w \in [Minutes -> Nat], NEW v, v = [w EXCEPT ![0] = @ + 1]
  PROVE  /\ v \in [Minutes -> Nat] /\ v[0] = w[0] + 1 /\ \A a \in Minutes \ {0} : v[a] = w[a]
         /\ SumOver(w, Minutes) \in Nat /\ SumOver(v, Minutes) = SumOver(w, Minutes) + 1
<1>1. 0 \in Minutes /\ IsFiniteSet(Minutes)
  BY MinutesFinite DEF BackfillConstants, Minutes
<1>2. v \in [Minutes -> Nat] /\ v[0] = w[0] + 1 /\ \A a \in Minutes \ {0} : v[a] = w[a]
  BY <1>1
<1>3. \A a \in Minutes : w[a] \in Nat /\ w[a] \in Int /\ v[a] \in Int
  BY <1>2
<1>4. SumOver(w, Minutes) \in Nat
  BY <1>1, <1>3, SumNat
<1>5. SumOver(v, Minutes) = SumOver(w, Minutes) - w[0] + v[0]
  <2>1. \A z \in Minutes : w[z] \in Int /\ v[z] \in Int
    BY <1>3
  <2>2. PICK i \in Minutes : i = 0
    BY <1>1
  <2>3. \A z \in Minutes \ {i} : v[z] = w[z]
    BY <1>2, <2>2
  <2>4. \A z \in Minutes : w[z] \in Int
    BY <2>1
  <2>5. \A z \in Minutes : v[z] \in Int
    BY <2>1
  <2>6. SumOver(w, Minutes) = w[i] + SumOver(w, Minutes \ {i})
    BY <1>1, <2>4, SumRemove
  <2>7. SumOver(v, Minutes) = v[i] + SumOver(v, Minutes \ {i})
    BY <1>1, <2>5, SumRemove
  <2>8. SumOver(v, Minutes \ {i}) = SumOver(w, Minutes \ {i}) /\ SumOver(w, Minutes \ {i}) \in Int
    <3>1. IsFiniteSet(Minutes \ {i}) /\ \A z \in Minutes \ {i} : w[z] \in Int
      BY <1>1, <2>4, FS_Subset
    <3> QED BY <2>3, <3>1, SumSame, SumType
  <2>9. w[i] \in Int /\ v[i] \in Int
    BY <2>1
  <2> QED BY <2>2, <2>6, <2>7, <2>8, <2>9
<1> QED BY <1>1, <1>2, <1>3, <1>4, <1>5

LEMMA MinuteAsked ==
  ASSUME BackfillConstants, MinuteInv, Asking!Count(Asking!InMinute(recent)) < MaxPerMinute,
         recent' = [Asking!InMinute(recent) EXCEPT ![0] = @ + 1],
         lastMinute' = [Asking!InMinute(lastMinute) EXCEPT ![0] = @ + 1]
  PROVE  MinuteInv'
<1> DEFINE noted == Asking!InMinute(recent)
           last == Asking!InMinute(lastMinute)
<1>1. /\ noted \in [Minutes -> Nat] /\ last = lastMinute
      /\ \A a \in Minutes : last[a] <= noted[a]
  BY InMinuteKeeps
<1>2. SumOver(noted, Minutes) < MaxPerMinute
  BY CountIsSum
<1>3. recent' = [noted EXCEPT ![0] = @ + 1] /\ lastMinute' = [lastMinute EXCEPT ![0] = @ + 1]
  BY <1>1
<1> HIDE DEF noted, last
<1>4. /\ lastMinute \in [Minutes -> Nat] /\ lastMinute[AskMinute] = 0
      /\ 0 \in Minutes /\ AskMinute \in Minutes \ {0} /\ MaxPerMinute \in Nat
  BY DEF MinuteInv, BackfillConstants, Minutes
<1>5. /\ recent' \in [Minutes -> Nat] /\ recent'[0] = noted[0] + 1 /\ \A a \in Minutes \ {0} : recent'[a] = noted[a]
  BY <1>1, <1>3, OneMore
<1>6. /\ lastMinute' \in [Minutes -> Nat] /\ lastMinute'[0] = lastMinute[0] + 1
      /\ \A a \in Minutes \ {0} : lastMinute'[a] = lastMinute[a]
      /\ SumOver(lastMinute', Minutes) = SumOver(lastMinute, Minutes) + 1
  BY <1>3, <1>4, OneMore
<1>7. SumOver(lastMinute, Minutes) \in Nat /\ SumOver(noted, Minutes) \in Nat
      /\ SumOver(lastMinute, Minutes) <= SumOver(noted, Minutes)
  <2>1. \A x \in Minutes : lastMinute[x] \in Nat /\ noted[x] \in Nat /\ lastMinute[x] <= noted[x]
    BY <1>1, <1>4
  <2> QED BY <2>1, MinutesFinite, SumGrows
<1>8. SumOver(lastMinute', Minutes) <= MaxPerMinute
  BY <1>2, <1>4, <1>6, <1>7
<1>9. ASSUME NEW a \in Minutes PROVE lastMinute'[a] <= recent'[a]
  <2>1. lastMinute[a] <= noted[a] /\ lastMinute[a] \in Nat /\ noted[a] \in Nat
    BY <1>1, <1>4
  <2> QED BY <1>4, <1>5, <1>6, <2>1
<1> QED BY <1>4, <1>5, <1>6, <1>8, <1>9 DEF MinuteInv

LEMMA MinuteTicks ==
  ASSUME BackfillConstants, MinuteInv, Asking!Tick
  PROVE  MinuteInv'
<1>1. /\ AskMinute \in Nat \ {0} /\ MaxPerMinute \in Nat
      /\ recent \in [Minutes -> Nat] /\ lastMinute \in [Minutes -> Nat]
      /\ \A a \in Minutes : lastMinute[a] <= recent[a]
  BY DEF BackfillConstants, MinuteInv
<1>2. /\ recent' = [a \in Minutes |-> IF a = 0 THEN 0 ELSE IF a < AskMinute THEN recent[a - 1]
                                       ELSE recent[AskMinute - 1] + recent[AskMinute]]
      /\ lastMinute' = [a \in Minutes |-> IF a \in {0, AskMinute} THEN 0 ELSE lastMinute[a - 1]]
  BY DEF Asking!Tick, Minutes
<1>3. recent' \in [Minutes -> Nat] /\ lastMinute' \in [Minutes -> Nat]
  BY <1>1, <1>2 DEF Minutes
<1>4. lastMinute'[AskMinute] = 0 /\ \A a \in Minutes : lastMinute'[a] <= recent'[a]
  BY <1>1, <1>2 DEF Minutes
<1>5. SumOver(lastMinute', Minutes) <= SumOver(lastMinute, Minutes)
  BY <1>1, <1>2, TickCountsLess
<1>6. SumOver(lastMinute, Minutes) \in Int /\ SumOver(lastMinute', Minutes) \in Int
  <2>1. \A a \in Minutes : lastMinute[a] \in Int /\ lastMinute'[a] \in Int
    BY <1>1, <1>3
  <2> QED BY <2>1, MinutesFinite, SumType
<1>7. SumOver(lastMinute', Minutes) <= MaxPerMinute
  <2>1. SumOver(lastMinute, Minutes) <= MaxPerMinute
    BY DEF MinuteInv
  <2> QED BY <1>1, <1>5, <1>6, <2>1
<1> QED BY <1>3, <1>4, <1>7 DEF MinuteInv

-----------------------------------------------------------------------------
\* An expired record keeps what it counts, or counted nothing any more.
LEMMA ExpiredKeeps ==
  ASSUME BackfillConstants, NEW st, NEW A, KeptAsks(st, A)
  PROVE  /\ KeptAsks(Asking!Expired(st), A)
         /\ Asking!Expired(st).flight <= st.flight
         /\ st.flight >= 0 /\ st.flight < FlightTtl => Asking!Expired(st) = st
<1> DEFINE freed == IF st.flight >= FlightTtl THEN [st EXCEPT !.flight = -1] ELSE st
           new == IF freed.flight < 0 /\ freed.age >= ForgetAfter THEN Asking!Unknown ELSE freed
<1>0. st \in KeyStates /\ st.flight \in Int /\ st.age \in Nat /\ st.attempts \in Nat /\ FlightTtl \in Int /\ ForgetAfter \in Nat
  BY DEF KeptAsks, KeyStates, BackfillConstants
<1>1. Asking!Expired(st) = new
  BY DEF Asking!Expired
<1>2. KeptAsks(freed, A) /\ freed.flight <= st.flight /\ (st.flight >= 0 /\ st.flight < FlightTtl => freed = st)
  <2>1. CASE st.flight >= FlightTtl
    BY <1>0, <2>1 DEF KeptAsks, KeyStates
  <2>2. CASE ~(st.flight >= FlightTtl)
    BY <1>0, <2>2
  <2> QED BY <2>1, <2>2
<1> HIDE DEF freed
<1>3. CASE freed.flight < 0 /\ freed.age >= ForgetAfter
  <2>1. A = {}
    <3>1. \A a \in A : a \in Nat /\ freed.age <= a /\ a < ForgetAfter
      BY <1>2 DEF KeptAsks
    <3>2. freed.age \in Nat
      BY <1>2 DEF KeptAsks, KeyStates
    <3> QED BY <1>0, <1>3, <3>1, <3>2
  <2>2. new = [age |-> 0, attempts |-> 0, flight |-> -1]
    BY <1>3 DEF Asking!Unknown
  <2>3. -1 <= freed.flight /\ freed.flight \in Int
    BY <1>2 DEF KeptAsks, KeyStates
  <2>4. KeptAsks(new, A)
    <3>1. IsFiniteSet({}) /\ Cardinality({}) = 0 /\ MaxAttempts \in Nat
      BY FS_EmptySet DEF BackfillConstants
    <3> QED BY <2>1, <2>2, <3>1 DEF KeptAsks, KeyStates
  <2>5. new.flight <= st.flight /\ ~(st.flight >= 0 /\ st.flight < FlightTtl)
    BY <1>0, <1>2, <1>3, <2>2, <2>3
  <2> QED BY <1>1, <2>4, <2>5
<1>4. CASE ~(freed.flight < 0 /\ freed.age >= ForgetAfter)
  BY <1>1, <1>2, <1>4
<1> QED BY <1>3, <1>4

\* A key that is asked for once more.
LEMMA AskedOnceMore ==
  ASSUME BackfillConstants, NEW st, NEW A, KeptAsks(st, A), st.attempts < MaxAttempts
  PROVE  KeptAsks([age |-> 0, attempts |-> st.attempts + 1, flight |-> 0], A \cup {0})
<1>1. /\ st.attempts \in Nat /\ MaxAttempts \in Nat /\ ForgetAfter \in Nat \ {0}
      /\ A \in SUBSET Nat /\ IsFiniteSet(A) /\ Cardinality(A) <= st.attempts
      /\ \A a \in A : a \in Nat /\ a < ForgetAfter
  BY DEF KeptAsks, KeyStates, BackfillConstants
<1>2. IsFiniteSet(A \cup {0}) /\ Cardinality(A \cup {0}) <= st.attempts + 1
  <2>1. Cardinality(A) \in Nat
    BY <1>1, FS_CardinalityType
  <2>2. Cardinality(A \cup {0}) = IF 0 \in A THEN Cardinality(A) ELSE Cardinality(A) + 1
    BY <1>1, FS_AddElement
  <2>3. IsFiniteSet(A \cup {0})
    BY <1>1, FS_AddElement
  <2> QED BY <1>1, <2>1, <2>2, <2>3
<1>3. \A a \in A \cup {0} : 0 <= a /\ a < ForgetAfter
  BY <1>1
<1> QED BY <1>1, <1>2, <1>3 DEF KeptAsks, KeyStates

\* The image of a finite set has no more elements.
LEMMA ImageBound ==
  ASSUME NEW S, IsFiniteSet(S), NEW g, NEW T, T = {g[x] : x \in S}
  PROVE  IsFiniteSet(T) /\ Cardinality(T) <= Cardinality(S)
<1> DEFINE h == [x \in S |-> g[x]]
<1>1. h \in Surjection(S, T)
  BY DEF Surjection
<1> QED BY <1>1, FS_Surjection

\* A key grows older by a tick, and so do its asks.
LEMMA AgedByOne ==
  ASSUME BackfillConstants, NEW st, NEW A, KeptAsks(st, A), NEW B, B = {a + 1 : a \in A \ {ForgetAfter - 1}},
         NEW new, new = IF st.attempts = 0 THEN st
                        ELSE [st EXCEPT !.age = Asking!Older(@), !.flight = IF @ < 0 THEN @ ELSE Asking!Older(@)]
  PROVE  KeptAsks(new, B)
<1> DEFINE aged == [st EXCEPT !.age = Asking!Older(@), !.flight = IF @ < 0 THEN @ ELSE Asking!Older(@)]
<1>1. /\ st \in KeyStates /\ st.attempts \in Nat /\ st.age \in Nat /\ st.flight \in Int /\ ForgetAfter \in Nat \ {0}
      /\ A \in SUBSET Nat /\ IsFiniteSet(A) /\ Cardinality(A) <= st.attempts /\ -1 <= st.flight
      /\ st.attempts <= MaxAttempts /\ (st.flight >= 0 => st.attempts >= 1)
      /\ \A a \in A : a \in Nat /\ st.age <= a /\ a < ForgetAfter
  BY DEF KeptAsks, KeyStates, BackfillConstants
<1>2. IsFiniteSet(B) /\ Cardinality(B) <= st.attempts
  <2> DEFINE R == A \ {ForgetAfter - 1}
             g == [a \in R |-> a + 1]
  <2>1. IsFiniteSet(R) /\ Cardinality(R) <= Cardinality(A)
    BY <1>1, FS_Subset
  <2>2. B = {g[x] : x \in R}
    OBVIOUS
  <2> HIDE DEF g, R
  <2>3. IsFiniteSet(B) /\ Cardinality(B) <= Cardinality(R)
    BY <2>1, <2>2, ImageBound
  <2>4. Cardinality(A) \in Nat /\ Cardinality(R) \in Nat /\ Cardinality(B) \in Nat
    BY <1>1, <2>1, <2>3, FS_CardinalityType
  <2> QED BY <1>1, <2>1, <2>3, <2>4
<1>3. ASSUME NEW b \in B PROVE b \in Nat /\ b < ForgetAfter /\ Asking!Older(st.age) <= b
  <2>1. PICK a \in A \ {ForgetAfter - 1} : b = a + 1
    OBVIOUS
  <2>2. a \in Nat /\ st.age <= a /\ a < ForgetAfter /\ a # ForgetAfter - 1
    BY <1>1
  <2> QED BY <1>1, <2>1, <2>2 DEF Asking!Older
<1>4. CASE st.attempts = 0
  <2>1. A = {}
    BY <1>1, <1>4, FS_EmptySet, FS_CardinalityType
  <2>2. B = A
    BY <2>1
  <2> QED BY <1>4, <2>2
<1>5. CASE st.attempts # 0
  <2>1. /\ aged \in KeyStates /\ aged.attempts = st.attempts /\ aged.age = Asking!Older(st.age)
        /\ -1 <= aged.flight
    <3> DEFINE ag == Asking!Older(st.age)
               fl == IF st.flight < 0 THEN st.flight ELSE Asking!Older(st.flight)
    <3>1. ag \in Nat /\ fl \in Int /\ -1 <= fl
      BY <1>1 DEF Asking!Older
    <3>2. aged = [st EXCEPT !.age = ag, !.flight = fl]
      OBVIOUS
    <3> HIDE DEF ag, fl, aged
    <3>3. aged.age = ag /\ aged.attempts = st.attempts /\ aged.flight = fl /\ aged \in KeyStates
      BY <1>1, <3>1, <3>2 DEF KeyStates
    <3> QED BY <3>1, <3>3 DEF ag
  <2> HIDE DEF aged
  <2>2. B \in SUBSET Nat
    BY <1>3
  <2>3. st.attempts >= 1
    BY <1>1, <1>5
  <2>4. KeptAsks(aged, B)
    BY <1>1, <1>2, <1>3, <2>1, <2>2, <2>3 DEF KeptAsks
  <2> QED BY <1>5, <2>4 DEF aged
<1> QED BY <1>4, <1>5

LEMMA NothingKept == ASSUME BackfillConstants PROVE KeptAsks(Asking!Unknown, {}) /\ Asking!Unknown \in KeyStates
<1>1. IsFiniteSet({}) /\ Cardinality({}) = 0 /\ MaxAttempts \in Nat
  BY FS_EmptySet DEF BackfillConstants
<1> QED BY <1>1 DEF KeptAsks, KeyStates, Asking!Unknown

LEMMA KeysTogether == Asking!Keys = BKeys
BY DEF Asking!Keys, BKeys

LEMMA KeysExpired ==
  ASSUME BackfillConstants, KeysInv, NEW ks, ks = [x \in Asking!Keys |-> Asking!Expired(keys[x])]
  PROVE  /\ ks \in [BKeys -> KeyStates]
         /\ \A x \in BKeys : /\ KeptAsks(ks[x], asks[x])
                             /\ keys[x].flight >= 0 /\ keys[x].flight < FlightTtl => ks[x] = keys[x]
<1>1. ASSUME NEW x \in BKeys
      PROVE  /\ KeptAsks(ks[x], asks[x]) /\ ks[x] \in KeyStates
             /\ keys[x].flight >= 0 /\ keys[x].flight < FlightTtl => ks[x] = keys[x]
  <2>1. KeptAsks(keys[x], asks[x]) /\ ks[x] = Asking!Expired(keys[x])
    BY KeysTogether DEF KeysInv
  <2>2. /\ KeptAsks(ks[x], asks[x])
        /\ keys[x].flight >= 0 /\ keys[x].flight < FlightTtl => ks[x] = keys[x]
    BY <2>1, ExpiredKeeps
  <2> QED BY <2>2 DEF KeptAsks
<1> QED BY <1>1, KeysTogether

LEMMA KeysInit ==
  ASSUME BackfillConstants, keys' = [k \in Asking!Keys |-> Asking!Unknown], asks' = [k \in Asking!Keys |-> {}]
  PROVE  KeysInv'
BY KeysTogether, NothingKept DEF KeysInv

LEMMA KeysAsked ==
  ASSUME BackfillConstants, KeysInv, NEW k \in BKeys, Asking!Request(k)
  PROVE  KeysInv'
<1> DEFINE ks == [x \in Asking!Keys |-> Asking!Expired(keys[x])]
           new == [age |-> 0, attempts |-> ks[k].attempts + 1, flight |-> 0]
<1>1. ks \in [BKeys -> KeyStates] /\ \A x \in BKeys : KeptAsks(ks[x], asks[x])
  BY KeysExpired
<1>2. /\ ks[k].attempts < MaxAttempts
      /\ keys' = [ks EXCEPT ![k] = new]
      /\ asks' = [asks EXCEPT ![k] = @ \cup {0}]
  BY DEF Asking!Request, Asking!Asks
<1> HIDE DEF ks
<1>3. KeptAsks(new, asks[k] \cup {0})
  BY <1>1, <1>2, AskedOnceMore
<1> HIDE DEF new
<1>4. new \in KeyStates /\ asks[k] \cup {0} \in SUBSET Nat
  BY <1>3 DEF KeptAsks
<1>5. asks \in [BKeys -> SUBSET Nat]
  BY DEF KeysInv
<1>6. \A x \in BKeys : KeptAsks(keys'[x], asks'[x])
  <2> TAKE x \in BKeys
  <2>1. CASE x = k
    BY <1>1, <1>2, <1>3, <1>5, <2>1
  <2>2. CASE x # k
    <3>1. keys'[x] = ks[x] /\ asks'[x] = asks[x]
      BY <1>1, <1>2, <1>5, <2>2
    <3> QED BY <1>1, <3>1
  <2> QED BY <2>1, <2>2
<1>7. keys' \in [BKeys -> KeyStates] /\ asks' \in [BKeys -> SUBSET Nat]
  BY <1>1, <1>2, <1>4, <1>5
<1> QED BY <1>6, <1>7 DEF KeysInv

LEMMA KeysRefused ==
  ASSUME BackfillConstants, KeysInv, NEW k \in BKeys, Asking!Refuse(k)
  PROVE  KeysInv'
<1>1. keys' = [x \in Asking!Keys |-> Asking!Expired(keys[x])] /\ asks' = asks
  BY DEF Asking!Refuse
<1>2. keys' \in [BKeys -> KeyStates] /\ \A x \in BKeys : KeptAsks(keys'[x], asks[x])
  BY <1>1, KeysExpired
<1> QED BY <1>1, <1>2 DEF KeysInv

LEMMA KeysSettled ==
  ASSUME BackfillConstants, KeysInv, NEW k \in BKeys, Asking!Settled(k)
  PROVE  KeysInv'
<1>1. /\ keys' = [keys EXCEPT ![k] = Asking!Unknown] /\ asks' = [asks EXCEPT ![k] = {}]
      /\ KeptAsks(Asking!Unknown, {}) /\ Asking!Unknown \in KeyStates
  BY NothingKept DEF Asking!Settled
<1>2. \A x \in BKeys : KeptAsks(keys'[x], asks'[x])
  <2> TAKE x \in BKeys
  <2>1. CASE x = k
    BY <1>1, <2>1 DEF KeysInv
  <2>2. CASE x # k
    <3>1. keys'[x] = keys[x] /\ asks'[x] = asks[x]
      BY <1>1, <2>2 DEF KeysInv
    <3> QED BY <3>1 DEF KeysInv
  <2> QED BY <2>1, <2>2
<1>3. keys' \in [BKeys -> KeyStates] /\ asks' \in [BKeys -> SUBSET Nat]
  BY <1>1 DEF KeysInv
<1> QED BY <1>2, <1>3 DEF KeysInv

LEMMA KeysTick ==
  ASSUME BackfillConstants, KeysInv, Asking!Tick
  PROVE  KeysInv'
<1>1. ASSUME NEW x \in BKeys
      PROVE  KeptAsks(keys'[x], asks'[x])
  <2>1. KeptAsks(keys[x], asks[x])
    BY DEF KeysInv
  <2>2. /\ keys'[x] = IF keys[x].attempts = 0 THEN keys[x]
                      ELSE [keys[x] EXCEPT !.age = Asking!Older(@), !.flight = IF @ < 0 THEN @ ELSE Asking!Older(@)]
        /\ asks'[x] = {a + 1 : a \in asks[x] \ {ForgetAfter - 1}}
    BY KeysTogether DEF Asking!Tick
  <2> QED BY <2>1, <2>2, AgedByOne
<1>2. \A x \in BKeys : keys'[x] \in KeyStates /\ asks'[x] \in SUBSET Nat
  BY <1>1 DEF KeptAsks
<1>3. /\ keys' = [x \in BKeys |-> keys'[x]] /\ asks' = [x \in BKeys |-> asks'[x]]
  BY KeysTogether DEF Asking!Tick
<1> QED BY <1>1, <1>2, <1>3 DEF KeysInv

LEMMA KeysStep == ASSUME BackfillConstants, KeysInv, FetchInv, [Asking!BackfillNext]_Asking!backfillVars PROVE KeysInv'
<1>1. CASE UNCHANGED <<keys, asks>>
  BY <1>1 DEF KeysInv
<1>2. CASE \E k \in BKeys : Asking!Request(k) \/ Asking!Refuse(k) \/ Asking!Settled(k)
  BY <1>2, KeysAsked, KeysRefused, KeysSettled
<1>3. CASE Asking!Tick
  BY <1>3, KeysTick
<1>4. CASE Asking!Wipe
  BY <1>4, KeysInit DEF Asking!Wipe
<1>5. CASE \E f \in fetches : Asking!FetchFound(f)
  <2>1. PICK f \in fetches : Asking!FetchFound(f)
    BY <1>5
  <2>2. f.key \in BKeys /\ Asking!Settled(f.key)
    BY <2>1 DEF Asking!FetchFound, FetchInv, Fetches, BKeys
  <2> QED BY <2>2, KeysSettled
<1> QED
  BY <1>1, <1>2, <1>3, <1>4, <1>5 DEF Asking!BackfillNext, Asking!backfillVars, Asking!RequestRecord,
     Asking!RequestChain, Asking!BlockArrives, Asking!FetchEmpty, BKeys

-----------------------------------------------------------------------------
\* A fetch in flight keeps its slot when the others expire.
LEMMA FlightsStay ==
  ASSUME BackfillConstants, KeysInv, FetchInv, wipes = 0, NEW f \in fetches,
         NEW ks, ks = [x \in Asking!Keys |-> Asking!Expired(keys[x])]
  PROVE  f.key \in BKeys /\ ks[f.key] = keys[f.key] /\ ks[f.key].flight >= 0
<1>1. /\ f.key \in BKeys /\ f.age \in Nat /\ keys[f.key].flight = f.age /\ f.age <= FetchTime
      /\ FetchTime \in Int /\ FlightTtl \in Int /\ FetchTime < FlightTtl
  BY DEF FetchInv, FetchesInFlight, Fetches, BKeys, BackfillConstants
<1>2. keys[f.key].flight >= 0 /\ keys[f.key].flight < FlightTtl
  BY <1>1
<1> QED BY <1>1, <1>2, KeysExpired

\* Fetches for different keys are no more than the keys in flight.
LEMMA FetchesFitFlights ==
  ASSUME BackfillConstants, KeysInv, FetchInv, wipes = 0,
         NEW ks, ks = [x \in Asking!Keys |-> Asking!Expired(keys[x])]
  PROVE  Cardinality(fetches) <= Asking!InFlight(ks)
<1> DEFINE F == {x \in BKeys : ks[x].flight >= 0}
           g == [f \in fetches |-> f.key]
<1>1. \A f \in fetches : f.key \in F
  BY FlightsStay
<1>2. \A f \in fetches, h \in fetches : f.key = h.key => f = h
  BY DEF FetchInv, FetchesInFlight
<1>3. IsFiniteSet(F)
  <2>1. IsFiniteSet(BKeys) /\ F \in SUBSET BKeys
    BY DEF BackfillConstants, BKeys
  <2> QED BY <2>1, FS_Subset
<1>4. Asking!InFlight(ks) = Cardinality(F)
  BY KeysTogether, SameCardinality DEF Asking!InFlight
<1> HIDE DEF F
<1>5. g \in Injection(fetches, F)
  BY <1>1, <1>2 DEF Injection, IsInjective
<1> HIDE DEF g
<1> QED BY <1>3, <1>4, <1>5, FS_Injection

LEMMA FetchInitInv == ASSUME BackfillConstants, Asking!BackfillInit PROVE FetchInv
BY FS_EmptySet DEF Asking!BackfillInit, FetchInv, FetchesInFlight, BackfillConstants

\* Fewer fetches, with the same flights of those that are left.
LEMMA FewerFetches ==
  ASSUME BackfillConstants, FetchInv, fetches' \in SUBSET fetches, UNCHANGED wipes,
         wipes = 0 => \A f \in fetches' : keys'[f.key].flight = keys[f.key].flight
  PROVE  FetchInv'
<1>1. IsFiniteSet(fetches') /\ Cardinality(fetches') <= Cardinality(fetches)
  BY FS_Subset DEF FetchInv
<1>2. Cardinality(fetches) \in Nat /\ Cardinality(fetches') \in Nat /\ MaxInFlight \in Nat
  BY <1>1, FS_CardinalityType DEF FetchInv, BackfillConstants
<1>3. ASSUME wipes = 0 PROVE FetchesInFlight'
  <2>1. FetchesInFlight
    BY <1>3 DEF FetchInv
  <2>2. Cardinality(fetches') <= MaxInFlight
    BY <1>1, <1>2, <2>1 DEF FetchesInFlight
  <2>3. \A f \in fetches' : keys'[f.key].flight = f.age /\ f.age <= FetchTime
    BY <1>3, <2>1 DEF FetchesInFlight
  <2>4. \A f \in fetches', g \in fetches' : f.key = g.key => f = g
    BY <2>1 DEF FetchesInFlight
  <2> QED BY <2>2, <2>3, <2>4 DEF FetchesInFlight
<1> QED BY <1>1, <1>3 DEF FetchInv

LEMMA FetchRefused ==
  ASSUME BackfillConstants, KeysInv, FetchInv, NEW k \in BKeys, Asking!Refuse(k), UNCHANGED <<fetches, wipes>>
  PROVE  FetchInv'
<1>1. keys' = [x \in Asking!Keys |-> Asking!Expired(keys[x])]
  BY DEF Asking!Refuse
<1>2. ASSUME wipes = 0, NEW f \in fetches PROVE keys'[f.key] = keys[f.key]
  BY <1>1, <1>2, FlightsStay
<1> QED BY <1>2, FewerFetches

\* What a key that is asked for leaves of the flights of the others.
LEMMA OthersFly ==
  ASSUME BackfillConstants, KeysInv, FetchInv, wipes = 0, NEW k \in BKeys, Asking!Request(k), NEW f \in fetches
  PROVE  f.key # k /\ keys'[f.key].flight = keys[f.key].flight
<1> DEFINE ks == [x \in Asking!Keys |-> Asking!Expired(keys[x])]
<1>1. f.key \in BKeys /\ ks[f.key] = keys[f.key] /\ ks[f.key].flight >= 0
  BY FlightsStay
<1>2. /\ ks[k].flight < 0 /\ keys' = [ks EXCEPT ![k] = [age |-> 0, attempts |-> ks[k].attempts + 1, flight |-> 0]]
  BY DEF Asking!Request, Asking!Asks
<1>3. ks \in [BKeys -> KeyStates]
  BY KeysExpired
<1> HIDE DEF ks
<1>4. ks[k].flight \in Int /\ ks[f.key].flight \in Int
  BY <1>1, <1>3 DEF KeyStates
<1>5. f.key # k
  BY <1>1, <1>2, <1>4
<1> QED BY <1>1, <1>2, <1>3, <1>5

LEMMA FetchBegins ==
  ASSUME BackfillConstants, KeysInv, FetchInv, NEW k \in RecordKeys, Asking!Request(k), UNCHANGED wipes,
         fetches' = fetches \cup {[key |-> k, age |-> 0, fresh |-> TRUE]}
  PROVE  FetchInv'
<1> DEFINE ks == [x \in Asking!Keys |-> Asking!Expired(keys[x])]
           new == [key |-> k, age |-> 0, fresh |-> TRUE]
<1>1. new \in Fetches /\ new.key = k /\ new.age = 0 /\ fetches' = fetches \cup {new} /\ k \in BKeys
  BY DEF Fetches, BKeys
<1>2. Asking!InFlight(ks) < MaxInFlight /\ keys' = [ks EXCEPT ![k] = [age |-> 0, attempts |-> ks[k].attempts + 1, flight |-> 0]]
  BY DEF Asking!Request, Asking!Asks
<1>3. ks \in [BKeys -> KeyStates]
  BY KeysExpired
<1>4. wipes = 0 => Cardinality(fetches) <= Asking!InFlight(ks)
  BY FetchesFitFlights
<1>5. Asking!InFlight(ks) \in Int
  <2>1. {x \in BKeys : ks[x].flight >= 0} \in SUBSET BKeys /\ IsFiniteSet(BKeys)
    BY DEF BackfillConstants, BKeys
  <2>2. Cardinality({x \in BKeys : ks[x].flight >= 0}) \in Nat
    BY <2>1, FS_Subset, FS_CardinalityType
  <2> QED BY <2>2, KeysTogether, SameCardinality DEF Asking!InFlight
<1> HIDE DEF ks, new
<1>6. keys'[k].flight = 0
  BY <1>1, <1>2, <1>3
<1>7. IsFiniteSet(fetches') /\ Cardinality(fetches') <= Cardinality(fetches) + 1 /\ Cardinality(fetches) \in Nat
  <2>1. /\ IsFiniteSet(fetches \cup {new}) /\ Cardinality(fetches) \in Nat
        /\ Cardinality(fetches \cup {new}) = IF new \in fetches THEN Cardinality(fetches) ELSE Cardinality(fetches) + 1
    BY FS_AddElement, FS_CardinalityType DEF FetchInv
  <2>2. fetches' = fetches \cup {new}
    BY <1>1
  <2>3. IsFiniteSet(fetches')
    BY <2>1, <2>2
  <2>4. Cardinality(fetches') = IF new \in fetches THEN Cardinality(fetches) ELSE Cardinality(fetches) + 1
    BY <2>1, <2>2
  <2>5. Cardinality(fetches) \in Nat
    BY <2>1
  <2>6. Cardinality(fetches') <= Cardinality(fetches) + 1
    BY <2>4, <2>5
  <2> QED BY <2>3, <2>5, <2>6
<1>8. fetches' \subseteq Fetches /\ wipes' \in Nat
  BY <1>1 DEF FetchInv
<1>9. ASSUME wipes = 0 PROVE FetchesInFlight'
  <2>1. FetchesInFlight
    BY <1>9 DEF FetchInv
  <2>2. \A f \in fetches : f.key # k /\ keys'[f.key].flight = keys[f.key].flight
    BY <1>1, <1>9, OthersFly
  <2>3. Cardinality(fetches') \in Nat /\ MaxInFlight \in Nat
    BY <1>7, FS_CardinalityType DEF BackfillConstants
  <2>4. Cardinality(fetches') <= MaxInFlight
    BY <1>2, <1>4, <1>5, <1>7, <1>9, <2>3
  <2>5. 0 <= FetchTime
    BY DEF BackfillConstants
  <2>6. \A f \in fetches' : keys'[f.key].flight = f.age /\ f.age <= FetchTime
    BY <1>1, <1>6, <2>1, <2>2, <2>5 DEF FetchesInFlight
  <2>7. \A f \in fetches', g \in fetches' : f.key = g.key => f = g
    BY <1>1, <2>1, <2>2 DEF FetchesInFlight
  <2> QED BY <2>4, <2>6, <2>7 DEF FetchesInFlight
<1> QED BY <1>7, <1>8, <1>9 DEF FetchInv

\* A key that is settled, with its fetch or with none.
LEMMA FetchSettled ==
  ASSUME BackfillConstants, KeysInv, FetchInv, NEW k \in BKeys, Asking!Settled(k), UNCHANGED wipes,
         fetches' \in SUBSET fetches, wipes = 0 => \A f \in fetches' : f.key # k
  PROVE  FetchInv'
<1>1. ASSUME wipes = 0, NEW f \in fetches' PROVE keys'[f.key].flight = keys[f.key].flight
  <2>1. f.key \in BKeys /\ f.key # k
    BY <1>1 DEF FetchInv, Fetches, BKeys
  <2> QED BY <2>1 DEF Asking!Settled, KeysInv
<1> QED BY <1>1, FewerFetches

\* The fetches after a step that changes each of them, and not its key.
LEMMA FetchesMapped ==
  ASSUME FetchInv, NEW g, \A f \in fetches : g[f] \in Fetches, fetches' = {g[f] : f \in fetches}
  PROVE  fetches' \subseteq Fetches /\ IsFiniteSet(fetches') /\ Cardinality(fetches') <= Cardinality(fetches)
<1>1. IsFiniteSet(fetches)
  BY DEF FetchInv
<1>2. IsFiniteSet(fetches') /\ Cardinality(fetches') <= Cardinality(fetches)
  BY <1>1, ImageBound
<1> QED BY <1>2

LEMMA FetchWiped ==
  ASSUME FetchInv, Asking!Wipe
  PROVE  FetchInv'
<1> DEFINE g == [f \in fetches |-> [f EXCEPT !.fresh = FALSE]]
<1>1. \A f \in fetches : g[f] \in Fetches
  BY DEF FetchInv, Fetches
<1>2. fetches' = {g[f] : f \in fetches} /\ wipes' = wipes + 1
  BY DEF Asking!Wipe
<1> HIDE DEF g
<1>3. fetches' \subseteq Fetches /\ IsFiniteSet(fetches')
  BY <1>1, <1>2, FetchesMapped
<1>4. wipes' \in Nat /\ wipes' # 0
  BY <1>2 DEF FetchInv
<1> QED BY <1>3, <1>4 DEF FetchInv

LEMMA FetchTicks ==
  ASSUME BackfillConstants, KeysInv, FetchInv, Asking!Tick
  PROVE  FetchInv'
<1> DEFINE g == [f \in fetches |-> [f EXCEPT !.age = @ + 1]]
<1>1. \A f \in fetches : f \in Fetches /\ g[f] \in Fetches /\ g[f].key = f.key /\ g[f].age = f.age + 1 /\ f.age \in Nat /\ f.key \in BKeys
  BY DEF FetchInv, Fetches, BKeys
<1>2. fetches' = {g[f] : f \in fetches} /\ wipes' = wipes
  BY DEF Asking!Tick
<1> HIDE DEF g
<1>3. fetches' \subseteq Fetches /\ IsFiniteSet(fetches') /\ Cardinality(fetches') <= Cardinality(fetches)
  BY <1>1, <1>2, FetchesMapped
<1>4. ASSUME wipes = 0 PROVE FetchesInFlight'
  <2>1. FetchesInFlight
    BY <1>4 DEF FetchInv
  <2>2. /\ Cardinality(fetches) \in Nat /\ Cardinality(fetches') \in Nat /\ MaxInFlight \in Nat
        /\ FetchTime \in Int /\ FlightTtl \in Int /\ ForgetAfter \in Nat /\ FetchTime < FlightTtl /\ FlightTtl <= ForgetAfter
    BY <1>3, FS_CardinalityType DEF FetchInv, BackfillConstants
  <2>3. Cardinality(fetches') <= MaxInFlight
    BY <1>3, <2>1, <2>2 DEF FetchesInFlight
  <2>4. ASSUME NEW f \in fetches PROVE keys'[g[f].key].flight = g[f].age /\ g[f].age <= FetchTime
    <3>1. keys[f.key].flight = f.age /\ f.age < FetchTime /\ f.age \in Nat
      BY <1>1, <2>1 DEF FetchesInFlight, Asking!Tick
    <3>2. keys[f.key] \in KeyStates /\ keys[f.key].attempts >= 1 /\ keys[f.key].attempts # 0
      <4>1. KeptAsks(keys[f.key], asks[f.key])
        BY <1>1 DEF KeysInv
      <4> QED BY <3>1, <4>1 DEF KeptAsks, KeyStates
    <3>3. keys'[f.key] = [keys[f.key] EXCEPT !.age = Asking!Older(@), !.flight = IF @ < 0 THEN @ ELSE Asking!Older(@)]
      BY <1>1, <3>2, KeysTogether DEF Asking!Tick
    <3>4. keys'[f.key].flight = IF keys[f.key].flight < 0 THEN keys[f.key].flight ELSE Asking!Older(keys[f.key].flight)
      BY <3>2, <3>3 DEF KeyStates
    <3>5. keys'[f.key].flight = f.age + 1
      BY <2>2, <3>1, <3>4 DEF Asking!Older
    <3> QED BY <1>1, <2>2, <3>1, <3>5
  <2>5. \A f \in fetches' : keys'[f.key].flight = f.age /\ f.age <= FetchTime
    BY <1>2, <2>4
  <2>6. \A f \in fetches', h \in fetches' : f.key = h.key => f = h
    BY <1>1, <1>2, <2>1 DEF FetchesInFlight
  <2> QED BY <2>3, <2>5, <2>6 DEF FetchesInFlight
<1> QED BY <1>2, <1>3, <1>4 DEF FetchInv

LEMMA FetchStep ==
  ASSUME BackfillConstants, KeysInv, FetchInv, [Asking!BackfillNext]_Asking!backfillVars PROVE FetchInv'
<1>1. CASE UNCHANGED Asking!backfillVars
  BY <1>1 DEF Asking!backfillVars, FetchInv, FetchesInFlight
<1>2. ASSUME NEW k \in RecordKeys, Asking!RequestRecord(k) PROVE FetchInv'
  BY <1>2, FetchBegins, FetchRefused DEF Asking!RequestRecord, BKeys
<1>3. ASSUME NEW k \in ChainKeys, Asking!RequestChain(k) PROVE FetchInv'
  <2>1. CASE Asking!Refuse(k)
    BY <1>3, <2>1, FetchRefused DEF Asking!RequestChain, BKeys
  <2>2. CASE Asking!Request(k)
    <3>1. k \in BKeys /\ UNCHANGED <<fetches, wipes>>
      BY <1>3 DEF Asking!RequestChain, BKeys
    <3> QED BY <2>2, <3>1, OthersFly, FewerFetches
  <2> QED BY <1>3, <2>1, <2>2 DEF Asking!RequestChain
<1>4. ASSUME NEW k \in ChainKeys, Asking!BlockArrives(k) PROVE FetchInv'
  <2>1. k \in BKeys /\ UNCHANGED <<fetches, wipes>> /\ Asking!Settled(k)
    BY <1>4 DEF Asking!BlockArrives, BKeys
  <2>2. \A f \in fetches : f.key # k
    BY DEF FetchInv, Fetches, BackfillConstants
  <2> QED BY <2>1, <2>2, FetchSettled
<1>5. ASSUME NEW f \in fetches, Asking!FetchEmpty(f) PROVE FetchInv'
  BY <1>5, FewerFetches DEF Asking!FetchEmpty
<1>6. ASSUME NEW f \in fetches, Asking!FetchFound(f) PROVE FetchInv'
  <2>1. f.key \in BKeys /\ UNCHANGED wipes /\ fetches' = fetches \ {f} /\ Asking!Settled(f.key)
    BY <1>6 DEF Asking!FetchFound, FetchInv, Fetches, BKeys
  <2>2. wipes = 0 => \A h \in fetches' : h.key # f.key
    BY <2>1 DEF FetchInv, FetchesInFlight
  <2> QED BY <2>1, <2>2, FetchSettled
<1> QED
  BY <1>1, <1>2, <1>3, <1>4, <1>5, <1>6, FetchWiped, FetchTicks DEF Asking!BackfillNext

LEMMA MinuteStep == ASSUME BackfillConstants, MinuteInv, [Asking!BackfillNext]_Asking!backfillVars PROVE MinuteInv'
<1>1. CASE UNCHANGED <<recent, lastMinute>>
  BY <1>1 DEF MinuteInv
<1>2. CASE \E k \in BKeys : Asking!Request(k) \/ Asking!Refuse(k)
  BY <1>2, MinuteAsked, MinuteRefused DEF Asking!Request, Asking!Refuse, Asking!Asks
<1>3. CASE Asking!Tick
  BY <1>3, MinuteTicks
<1>4. CASE Asking!Wipe
  BY <1>4, MinuteWiped DEF Asking!Wipe
<1> QED
  BY <1>1, <1>2, <1>3, <1>4 DEF Asking!BackfillNext, Asking!backfillVars, Asking!RequestRecord,
     Asking!RequestChain, Asking!BlockArrives, Asking!FetchEmpty, Asking!FetchFound, BKeys

LEMMA BackfillInitInv == ASSUME BackfillConstants, Asking!BackfillInit PROVE BackfillInv
<1>1. KeysInv
  BY KeysTogether, NothingKept DEF Asking!BackfillInit, KeysInv
<1> QED BY <1>1, MinuteInitInv, FetchInitInv DEF BackfillInv

LEMMA BackfillStep ==
  ASSUME BackfillConstants, BackfillInv, [Asking!BackfillNext]_Asking!backfillVars PROVE BackfillInv'
BY KeysStep, MinuteStep, FetchStep DEF BackfillInv

LEMMA AsksFewEnough == ASSUME BackfillConstants, BackfillInv PROVE Asking!AsksAreBounded
<1>1. ASSUME NEW k \in BKeys PROVE Cardinality(asks[k]) <= MaxAttempts
  <2>1. KeptAsks(keys[k], asks[k])
    BY DEF BackfillInv, KeysInv
  <2>2. Cardinality(asks[k]) \in Nat
    BY <2>1, FS_CardinalityType DEF KeptAsks
  <2> QED BY <2>1, <2>2 DEF KeptAsks, KeyStates, BackfillConstants
<1>2. Asking!Count(lastMinute) <= MaxPerMinute
  BY CountIsSum DEF BackfillInv, MinuteInv
<1>3. wipes = 0 => Cardinality(fetches) <= MaxInFlight
  BY DEF BackfillInv, FetchInv, FetchesInFlight
<1> QED BY <1>1, <1>2, <1>3, KeysTogether, SameCardinality DEF Asking!AsksAreBounded

(* A key nothing answers is asked for a bounded number of times, a minute   *)
(* has a bounded number of asks and so has a moment, until a wipe, of       *)
(* fetches (archive-backfill.ts request, relay/server.ts).                  *)
THEOREM AsksBounded == ASSUME BackfillConstants PROVE Asking!BackfillSpec => []Asking!AsksAreBounded
<1>1. Asking!BackfillInit => BackfillInv
  BY BackfillInitInv
<1>2. BackfillInv /\ [Asking!BackfillNext]_Asking!backfillVars => BackfillInv'
  BY BackfillStep
<1>3. BackfillInv => Asking!AsksAreBounded
  BY AsksFewEnough
<1> QED BY <1>1, <1>2, <1>3, PTL DEF Asking!BackfillSpec
=============================================================================
