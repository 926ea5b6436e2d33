-------------------------- MODULE ProviderDiscovery --------------------------
(***************************************************************************)
(* How a node learns of storage providers whose chains it does not hold:   *)
(* the selection a relay answers /providers with and the fold a client     *)
(* makes of the answers (engine/content/provider-discovery.ts), the whole  *)
(* set it replaces by them (provider-ledger.ts setDiscovered), and the     *)
(* beacons that say where a provider is (engine/content/presence.ts).      *)
(*                                                                         *)
(* A provider's chain is the sequence of its storage blocks; a block is    *)
(* its type and its time, and its place in the sequence is its index.      *)
(* Relays archive what gossip brings them, so any of them may miss any     *)
(* block.  A beacon is its timestamp: its address changes every time.      *)
(***************************************************************************)
EXTENDS Integers, Sequences, FiniteSets, FiniteSetsExt

CONSTANTS
    Providers,      \* accounts that offer storage
    Held,           \* those of them whose chain the client holds
    Archives,       \* the relays it asks
    Limit,          \* providers an answer describes (limit, at most 50)
    Window,         \* 2 * MAX_OFFLINE_MS
    Announcing,     \* bound: the providers that announce themselves
    MaxChain,       \* bound on a provider's storage blocks
    MaxClock        \* bound on the clock

VARIABLES
    chain,          \* Providers -> the blocks the provider has signed
    archived,       \* Archives -> the blocks <<provider, index>> it has
    applied,        \* Held -> how many blocks of the chain the client applied
    discovered,     \* ProviderLedger.discovered
    beacons,        \* Providers -> the times at which it announced itself
    presence,       \* PresenceStore.latest: Providers -> a time, or Unknown
    smokeAddr,      \* the address in the client's own profile of a provider
    clock

discoveryVars ==
    <<chain, archived, applied, discovered, beacons, presence, smokeAddr, clock>>

Unknown == -1

DiscoveryInit ==
    /\ chain = [p \in Providers |-> <<>>] /\ archived = [r \in Archives |-> {}]
    /\ applied = [p \in Held |-> 0] /\ discovered = {}
    /\ beacons = [p \in Providers |-> {}]
    /\ presence = [p \in Providers |-> Unknown] /\ smokeAddr = [p \in Held |-> Unknown]
    /\ clock = 0

-----------------------------------------------------------------------------
\* The newest block of a type among those of p in a set of <<provider, index>>.
Of(B, p, type) == {b[2] : b \in {c \in B : c[1] = p /\ chain[p][c[2]].type = type}}
NewestOf(S) == IF S = {} THEN 0 ELSE Max(S)
Departed(B, p) == NewestOf(Of(B, p, "deregister")) > NewestOf(Of(B, p, "register"))
TimeOf(p, i) == chain[p][i].time

(* selectDiscoveryBlocks: the newest register of the Limit providers that   *)
(* registered last, and the departures of the window.  Equal times may be   *)
(* ranked either way.                                                       *)
Listed(B) == {p \in Providers : Of(B, p, "register") # {} /\ ~Departed(B, p)}
Registered(B, p) == NewestOf(Of(B, p, "register"))
Ranked(B) ==
    {S \in SUBSET Listed(B) :
        /\ Cardinality(S) = Min({Limit, Cardinality(Listed(B))})
        /\ \A p \in S, q \in Listed(B) \ S :
               TimeOf(p, Registered(B, p)) >= TimeOf(q, Registered(B, q))}

Departures(B) ==
    {p \in Providers : /\ Departed(B, p)
                       /\ clock - TimeOf(p, NewestOf(Of(B, p, "deregister"))) <= Window}
SelectDiscoveryBlocks(B) ==
    {{<<p, Registered(B, p)>> : p \in S}
       \cup {<<p, NewestOf(Of(B, p, "deregister"))>> : p \in Departures(B)} : S \in Ranked(B)}

(* foldProviderBlocks of the union of the answers (fetchProviders).         *)
FoldProviderBlocks(B) == {p \in Providers : Of(B, p, "register") # {} /\ ~Departed(B, p)}
Answers(R) ==
    {UNION {f[r] : r \in R} : f \in {g \in [R -> UNION {SelectDiscoveryBlocks(archived[r]) : r \in R}] :
                                       \A r \in R : g[r] \in SelectDiscoveryBlocks(archived[r])}}

-----------------------------------------------------------------------------
\* A provider appends a storage block; deregistering needs a registration.
Signs(p, type) ==
    /\ Len(chain[p]) < MaxChain
    /\ chain' = [chain EXCEPT ![p] = Append(@, [type |-> type, time |-> clock])]
    /\ UNCHANGED <<archived, applied, discovered, beacons, presence, smokeAddr, clock>>
IsProvider(p) == chain[p] # <<>> /\ chain[p][Len(chain[p])].type = "register"
RegisterStorage(p) == ~IsProvider(p) /\ Signs(p, "register")
DeregisterStorage(p) == IsProvider(p) /\ Signs(p, "deregister")

ArchiveBlock(r, p) ==
    /\ \E i \in 1 .. Len(chain[p]) :
         archived' = [archived EXCEPT ![r] = @ \cup {<<p, i>>}]
    /\ UNCHANGED <<chain, applied, discovered, beacons, presence, smokeAddr, clock>>

\* The client applies the next block of a chain it holds: applyRegister keeps
\* the routing details of the profile, applyDeregister deletes it.
ApplyStorageBlock(p) ==
    /\ applied[p] < Len(chain[p])
    /\ applied' = [applied EXCEPT ![p] = @ + 1]
    /\ smokeAddr' = IF chain[p][applied'[p]].type = "register" THEN smokeAddr
                    ELSE [smokeAddr EXCEPT ![p] = Unknown]
    /\ UNCHANGED <<chain, archived, discovered, beacons, presence, clock>>
HasProfile(p) == p \in Held /\ applied[p] > 0 /\ chain[p][applied[p]].type = "register"

\* refreshStorageProviders: a relay that does not answer is left out of the
\* union, and the discovered set becomes what the union folds to.
RefreshStorageProviders(R) ==
    /\ \E B \in IF R = {} THEN {{}} ELSE Answers(R) : discovered' = FoldProviderBlocks(B)
    /\ UNCHANGED <<chain, archived, applied, beacons, presence, smokeAddr, clock>>

\* broadcastStorageStats
BroadcastStorageStats(p) ==
    /\ p \in Announcing /\ IsProvider(p)
    /\ beacons' = [beacons EXCEPT ![p] = @ \cup {clock}]
    /\ UNCHANGED <<chain, archived, applied, discovered, presence, smokeAddr, clock>>

\* PresenceStore.record: gossip may bring a beacon late, again, or never.
Newer(p, ts) == ts > presence[p]

\* acceptPresence: only the profile of a chain it holds takes the address.
AcceptPresence(p) ==
    /\ \E ts \in beacons[p] :
         /\ Newer(p, ts)
         /\ presence' = [presence EXCEPT ![p] = ts]
         /\ smokeAddr' = IF HasProfile(p) THEN [smokeAddr EXCEPT ![p] = ts] ELSE smokeAddr
    /\ UNCHANGED <<chain, archived, applied, discovered, beacons, clock>>

TimePasses ==
    /\ clock < MaxClock /\ clock' = clock + 1
    /\ UNCHANGED <<chain, archived, applied, discovered, beacons, presence, smokeAddr>>

DiscoveryNext ==
    \/ \E p \in Providers : \/ RegisterStorage(p) \/ DeregisterStorage(p)
                            \/ BroadcastStorageStats(p) \/ AcceptPresence(p)
                            \/ \E r \in Archives : ArchiveBlock(r, p)
    \/ \E p \in Held : ApplyStorageBlock(p)
    \/ \E R \in SUBSET Archives : RefreshStorageProviders(R)
    \/ TimePasses

DiscoverySpec == DiscoveryInit /\ [][DiscoveryNext]_discoveryVars

-----------------------------------------------------------------------------
DiscoveryTypeOK ==
    /\ \A r \in Archives : archived[r] \subseteq Providers \X (1 .. MaxChain)
    /\ discovered \subseteq Providers /\ clock \in 0 .. MaxClock
    /\ \A p \in Providers : presence[p] \in beacons[p] \cup {Unknown}

\* "a single relay carrying the departure is enough to settle it": whichever
\* relays answer, and whatever the others missed, a provider that has left is
\* not found while one of them has its departure and the window is open.
DepartureSettles ==
    \A p \in Providers, R \in SUBSET Archives :
        (/\ chain[p] # <<>> /\ ~IsProvider(p)
         /\ clock - TimeOf(p, Len(chain[p])) <= Window
         /\ \E r \in R : <<p, Len(chain[p])>> \in archived[r])
        => \A B \in Answers(R) : p \notin FoldProviderBlocks(B)

\* "offline or no archive reachable - keep whatever we had"
OutageKeepsProviders ==
    [][(\A R \in SUBSET Archives \ {{}} : ~RefreshStorageProviders(R)) =>
           discovered \subseteq discovered']_discoveryVars

\* "a caller merges presence over it": a provider the node knows of, and whose
\* fresh beacon it accepted, has an address.
BeaconMakesReachable ==
    /\ \A p \in Held : HasProfile(p) /\ presence[p] # Unknown => smokeAddr[p] # Unknown
    /\ \A p \in discovered \ Held : presence[p] = Unknown
=============================================================================
