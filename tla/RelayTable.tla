------------------------------ MODULE RelayTable ------------------------------
(* The community relay registry of src/network/libp2p-network.ts and the      *)
(* reports that feed it from node.ts: which relays a client knows, how often  *)
(* each has failed in a row, the copy in IndexedDB, the address list in       *)
(* localStorage, the gossip that spreads a known relay to every other client, *)
(* and the reconnect that dials the first addresses of the list.              *)
(*                                                                            *)
(* lastSeen is kept only as "more than 48 hours ago" (`stale`), which becomes *)
(* true at any time and false whenever the code stamps lastSeen.  The cap of  *)
(* 30 on the address list is above every instance and left out.               *)
EXTENDS Integers, Sequences, FiniteSets, SequencesExt

CONSTANTS
    Clients,
    Relays,
    RelayFailEvict,     \* RELAY_FAIL_EVICT: consecutive failures before eviction
    DialWidth,          \* addresses one reconnect dials (slice(0, 5) in the code)
    MaxAnnounce,        \* bound: relay announcements delivered
    MaxOutages          \* bound: times a relay dies or a client is cut off

VARIABLES
    up,         \* relays that are alive
    online,     \* clients whose own connection works
    fails,      \* client -> relay -> failCount in knownRelayMap, Unknown if absent
    stored,     \* client -> relay -> failCount in IndexedDB, Unknown if absent
    stale,      \* client -> relays last seen more than RELAY_STALE_MS ago
    list,       \* client -> the addresses in localStorage, oldest first
    linked,     \* client -> relays it is connected to
    running,    \* clients whose page is open
    missed,     \* client -> relay -> failed contacts since the last good one (history)
    announced,  \* bound counter
    outages     \* bound counter

relayVars == <<up, online, fails, stored, stale, list, linked, running, missed, announced, outages>>

Unknown == -1
Known(c) == {r \in Relays : fails[c][r] # Unknown}
Reaches(c, r) == c \in online /\ r \in up

\* lsAddRelayAddr
Listed(addrs, r) == IF r \in ToSet(addrs) THEN addrs ELSE Append(addrs, r)

\* upsertKnownRelay: the record starts over, whoever vouches for the relay.
Upsert(c, r) ==
    /\ fails' = [fails EXCEPT ![c][r] = 0]
    /\ stored' = [stored EXCEPT ![c][r] = 0]
    /\ stale' = [stale EXCEPT ![c] = @ \ {r}]
    /\ list' = [list EXCEPT ![c] = Listed(@, r)]

\* recordRelaySeen: a record without failures is left alone, lastSeen included.
RelaySeen(c, r) ==
    IF fails[c][r] \in {Unknown, 0} THEN UNCHANGED <<fails, stored, stale, list>>
    ELSE /\ fails' = [fails EXCEPT ![c][r] = 0]
         /\ stored' = [stored EXCEPT ![c][r] = 0]
         /\ stale' = [stale EXCEPT ![c] = @ \ {r}]
         /\ UNCHANGED list

\* markRelayFailed
RelayFailed(c, r) ==
    IF fails[c][r] = Unknown THEN UNCHANGED <<fails, stored, stale, list>>
    ELSE LET count == fails[c][r] + 1 IN
         IF count >= RelayFailEvict \/ r \in stale[c]
         THEN /\ fails' = [fails EXCEPT ![c][r] = Unknown]
              /\ stored' = [stored EXCEPT ![c][r] = Unknown]
              /\ list' = [list EXCEPT ![c] = SelectSeq(@, LAMBDA a : a # r)]
              /\ UNCHANGED stale
         ELSE /\ fails' = [fails EXCEPT ![c][r] = count]
              /\ stored' = [stored EXCEPT ![c][r] = count]
              /\ UNCHANGED <<stale, list>>

Contact(c, r, ok) == missed' = [missed EXCEPT ![c][r] = IF ok THEN 0 ELSE IF @ < RelayFailEvict THEN @ + 1 ELSE @]

---------------------------------------------------------------------------

RelayInit ==
    /\ up = Relays
    /\ online = Clients
    /\ fails = [c \in Clients |-> [r \in Relays |-> 0]]
    /\ stored = fails
    /\ stale = [c \in Clients |-> {}]
    /\ list \in [Clients -> SetToSeqs(Relays)]
    /\ linked = [c \in Clients |-> {}]
    /\ running = Clients
    /\ missed = [c \in Clients |-> [r \in Relays |-> 0]]
    /\ announced = 0
    /\ outages = 0

\* An archive query's outcome for one relay (reportRelayBase).
Query(c, r) ==
    /\ c \in running /\ r \in Known(c)
    /\ IF Reaches(c, r) THEN RelaySeen(c, r) ELSE RelayFailed(c, r)
    /\ Contact(c, r, Reaches(c, r))
    /\ UNCHANGED <<up, online, linked, running, announced, outages>>

\* One relay of checkRelayLiveness.  A relay still connected is stamped without
\* a dial; any other is dialled.
CheckLiveness(c, r) ==
    /\ c \in running /\ r \in Known(c)
    /\ IF r \in linked[c] \/ Reaches(c, r)
       THEN /\ Upsert(c, r)
            /\ linked' = [linked EXCEPT ![c] = @ \cup {r}]
       ELSE RelayFailed(c, r) /\ UNCHANGED linked
    /\ Contact(c, r, Reaches(c, r))
    /\ UNCHANGED <<up, online, running, announced, outages>>

\* The twenty-minute re-announcement of client `from` reaches client c: no
\* signature is asked of it, and the receiver stamps the relay as seen NOW.
Announce(from, c, r) ==
    /\ from # c /\ {from, c} \subseteq running \cap online
    /\ r \in Known(from)
    /\ announced < MaxAnnounce
    /\ announced' = announced + 1
    /\ Upsert(c, r)
    /\ linked' = [linked EXCEPT ![c] = IF r \in up THEN @ \cup {r} ELSE @]
    /\ missed' = [missed EXCEPT ![c][r] = 0]
    /\ UNCHANGED <<up, online, running, outages>>

\* What tryRelayReconnect and scheduleRelayReconnect dial: the stored list
\* first, then the table, cut to DialWidth.
DialOrder(c) ==
    LET addrs == list[c] \o SetToSeq(Known(c) \ ToSet(list[c]))
    IN SubSeq(addrs, 1, IF Len(addrs) < DialWidth THEN Len(addrs) ELSE DialWidth)

Reconnect(c) ==
    /\ c \in running
    /\ linked[c] = {}
    /\ \E r \in ToSet(DialOrder(c)) :
           Reaches(c, r) /\ linked' = [linked EXCEPT ![c] = {r}]
    /\ UNCHANGED <<up, online, fails, stored, stale, list, running, missed, announced, outages>>

\* 48 hours go by without a stamp on the record.
TimePasses(c, r) ==
    /\ r \notin stale[c]
    /\ stored[c][r] # Unknown
    /\ stale' = [stale EXCEPT ![c] = @ \cup {r}]
    /\ UNCHANGED <<up, online, fails, stored, list, linked, running, missed, announced, outages>>

Close(c) ==
    /\ c \in running
    /\ running' = running \ {c}
    /\ linked' = [linked EXCEPT ![c] = {}]
    /\ fails' = [fails EXCEPT ![c] = [r \in Relays |-> Unknown]]
    /\ UNCHANGED <<up, online, stored, stale, list, missed, announced, outages>>

\* loadKnownRelaysFromDB: a failed or stale record leaves the database but not
\* the address list.
Open(c) ==
    LET kept == {r \in Relays : stored[c][r] \in 0..(RelayFailEvict - 1) /\ r \notin stale[c]} IN
    /\ c \notin running
    /\ running' = running \cup {c}
    /\ fails' = [fails EXCEPT ![c] = [r \in Relays |-> IF r \in kept THEN stored[c][r] ELSE Unknown]]
    /\ stored' = [stored EXCEPT ![c] = fails'[c]]
    /\ list' = [list EXCEPT ![c] = @ \o SetToSeq(kept \ ToSet(@))]
    /\ UNCHANGED <<up, online, stale, linked, missed, announced, outages>>

\* A relay's machine goes for good, or a client loses its connection and gets it back.
RelayDies(r) ==
    /\ r \in up /\ outages < MaxOutages
    /\ up' = up \ {r}
    /\ linked' = [c \in Clients |-> linked[c] \ {r}]
    /\ outages' = outages + 1
    /\ UNCHANGED <<online, fails, stored, stale, list, running, missed, announced>>

Offline(c) ==
    /\ c \in online /\ outages < MaxOutages
    /\ online' = online \ {c}
    /\ linked' = [linked EXCEPT ![c] = {}]
    /\ outages' = outages + 1
    /\ UNCHANGED <<up, fails, stored, stale, list, running, missed, announced>>

BackOnline(c) ==
    /\ c \notin online
    /\ online' = online \cup {c}
    /\ UNCHANGED <<up, fails, stored, stale, list, linked, running, missed, announced, outages>>

RelayNext ==
    \/ \E c \in Clients : Reconnect(c) \/ Close(c) \/ Open(c) \/ Offline(c) \/ BackOnline(c)
    \/ \E c \in Clients, r \in Relays : Query(c, r) \/ CheckLiveness(c, r) \/ TimePasses(c, r)
    \/ \E c, from \in Clients, r \in Relays : Announce(from, c, r)
    \/ \E r \in Relays : RelayDies(r)

RelaySpec == RelayInit /\ [][RelayNext]_relayVars

---------------------------------------------------------------------------

\* The variables have their types; the database mirrors the table of an open page.
RelayTypeOK ==
    /\ up \subseteq Relays /\ online \subseteq Clients /\ running \subseteq Clients
    /\ \A c \in Clients :
        /\ fails[c] \in [Relays -> Unknown..(RelayFailEvict - 1)]
        /\ c \in running => stored[c] = fails[c]
        /\ Known(c) \subseteq ToSet(list[c])

\* recordRelaySeen says the count is of CONSECUTIVE failures, or "a relay that
\* fails twice over a week and works in between is eventually evicted for being
\* reliable": the count never exceeds the contacts that failed since the last
\* one that worked, over queries, liveness checks, announcements and reloads.
CountIsConsecutive ==
    \A c \in Clients, r \in Relays : fails[c][r] # Unknown => fails[c][r] <= missed[c][r]

\* reportRelayBase says "a client that is merely offline for a moment keeps its
\* relays": with every relay alive, one outage of the client evicts nothing.
OfflineMomentKeepsRelays ==
    (up = Relays /\ outages <= 1) => \A c \in running : stale[c] = {} => Known(c) = Relays

\* The registry says "48 h without contact -> evict": a client that has evicted
\* a relay that is gone does not take it back.
DeadStaysEvicted ==
    [][\A c \in Clients, r \in Relays \ up :
           (c \in running \cap running' /\ fails[c][r] = Unknown) => fails'[c][r] = Unknown]_relayVars
=============================================================================
