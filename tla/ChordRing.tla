------------------------------- MODULE ChordRing -------------------------------
(***************************************************************************)
(* engine/content/dht.ts: provider records on a Chord ring.  The ring is    *)
(* built once from its nodes; a record goes to the k nodes that follow its  *)
(* key, and a lookup is routed by finger tables.  A node is its key here    *)
(* and a cid is the key it hashes to.                                       *)
(***************************************************************************)
EXTENDS Integers, FiniteSets, FiniteSetsExt

CONSTANTS
    Bits,         \* RING_BITS
    MaxNodes,     \* bound: nodes of a ring
    Cids,         \* the keys of the contents announced and looked for
    K             \* records per content

VARIABLES
    nodes,        \* the ring's keys
    index,        \* node -> the keys whose record it holds
    at,           \* the node a lookup has reached
    target,       \* the key it is after, or -1
    hops,
    found         \* the node a finished lookup ended at, or -1

ringVars == <<nodes, index, at, target, hops, found>>

Size == 2 ^ Bits
Ring == 0..(Size - 1)

(* x in (a, b] and x in (a, b), clockwise. *)
InOpenClosed(x, a, b) ==
    a = b \/ IF a < b THEN x > a /\ x <= b ELSE x > a \/ x <= b
InOpenOpen(x, a, b) ==
    IF a = b THEN x # a ELSE IF a < b THEN x > a /\ x < b ELSE x > a \/ x < b

(* successorIndex: the first node at or after a key, wrapping. *)
Successor(x) ==
    IF \E n \in nodes : n >= x THEN Min({n \in nodes : n >= x}) ELSE Min(nodes)

SuccessorOf(n) == Successor((n + 1) % Size)

Finger(n, i) == Successor((n + 2 ^ i) % Size)

(* The farthest finger that still precedes the target; the node itself if none. *)
ClosestPreceding(n, x) ==
    LET ok == {i \in 0..(Bits - 1) : InOpenOpen(Finger(n, i), n, x)}
    IN IF ok = {} THEN n ELSE Finger(n, Max(ok))

(* responsibleNodes: the K nodes first met clockwise from the key. *)
Responsible(x) ==
    {n \in nodes : Cardinality({m \in nodes : (m - x + Size) % Size < (n - x + Size) % Size}) < K}

RingInit ==
    /\ nodes \in {S \in SUBSET Ring : Cardinality(S) \in 1..MaxNodes}
    /\ index = [n \in Ring |-> {}]
    /\ at = -1 /\ target = -1 /\ hops = 0 /\ found = -1

Provide(x) ==
    /\ target = -1
    /\ \E n \in Responsible(x) : x \notin index[n]
    /\ index' = [n \in Ring |-> IF n \in Responsible(x) THEN index[n] \cup {x} ELSE index[n]]
    /\ found' = -1
    /\ UNCHANGED <<nodes, at, target, hops>>

Find(x, from) ==
    /\ target = -1
    /\ target' = x /\ at' = from /\ hops' = 0 /\ found' = -1
    /\ UNCHANGED <<nodes, index>>

Arrived == InOpenClosed(target, at, SuccessorOf(at))

(* findSuccessor's loop. *)
Hop ==
    /\ target # -1 /\ ~Arrived
    /\ ClosestPreceding(at, target) # at
    /\ at' = ClosestPreceding(at, target)
    /\ hops' = hops + 1
    /\ UNCHANGED <<nodes, index, target, found>>

Answer ==
    /\ target # -1
    /\ Arrived \/ ClosestPreceding(at, target) = at
    /\ found' = SuccessorOf(at)
    /\ target' = -1 /\ at' = -1
    /\ UNCHANGED <<nodes, index, hops>>

RingNext ==
    \/ \E x \in Cids : Provide(x)
    \/ \E x \in Cids, from \in nodes : Find(x, from)
    \/ Hop
    \/ Answer

RingSpec == RingInit /\ [][RingNext]_ringVars

----------------------------------------------------------------------------
(* Types. *)
RingTypeOK ==
    /\ nodes \subseteq Ring /\ nodes # {}
    /\ index \in [Ring -> SUBSET Cids]
    /\ at \in nodes \cup {-1} /\ target \in Cids \cup {-1}
    /\ hops \in Nat /\ found \in nodes \cup {-1}

(* A lookup is at most Bits hops from its end, whatever node it starts at   *)
(* and however the ring's keys lie (dht.ts: "discovery routes in O(log N)   *)
(* hops via Chord finger tables").                                          *)
RoutesInLogHops == hops <= Bits

(* A lookup never gives up early, and it ends at the first node clockwise   *)
(* of the key, which holds the record if anyone announced one               *)
(* (findSuccessor against responsibleNodes, two ways to the same node).     *)
RoutesToTheRecord ==
    target # -1 =>
        /\ ~Arrived => ClosestPreceding(at, target) # at
        /\ Arrived /\ (\E n \in nodes : target \in index[n]) => target \in index[SuccessorOf(at)]
=============================================================================
