---------------------------- MODULE SaturationPlan ----------------------------
(***************************************************************************)
(* How many holders a CID should have: planBySaturation of                 *)
(* engine/content/device-capacity.ts, as targetFor of storage-manager.ts   *)
(* calls it, and what planRepair then does with the answer.  The holders   *)
(* are in the order they were confirmed, each in a domain of its own.      *)
(***************************************************************************)
EXTENDS Integers, Sequences, FiniteSets, FiniteSetsExt, SequencesExt

CONSTANTS
    Capacities,         \* concurrent reads a holder can serve
    Floor, Cap,         \* REDUNDANCY_TARGET and MAX_REPLICA_TARGET
    Hysteresis,         \* RELEASE_HYSTERESIS
    MaxDemand           \* bound: concurrent reads of the CID

VARIABLES
    caps,               \* the capacities of the live holders
    demand,             \* concurrentReads of the CID
    last                \* what the last plan made replication do

planVars == <<caps, demand, last>>

PlanInit == caps \in {<<c>> : c \in {Min(Capacities)}} /\ demand = 0 /\ last = "none"

-----------------------------------------------------------------------------
(* planBySaturation over the capacities of the holders; three              *)
(* quarters is the high water mark and 35 hundredths the low one.          *)
Total(cs) == FoldLeft(+, 0, cs)
Capacity == Total(caps)
Ceil(a, b) == (a + b - 1) \div b
Saturated == 4 * demand > 3 * Capacity
Idle == 100 * demand < 35 * Capacity

\* ceil((demand / HIGH_WATER - capacity) / max(1, mean))
Extra == Ceil((4 * demand - 3 * Capacity) * Len(caps), 3 * Capacity)

\* Releasing the smallest first, while what is left stays under high water.
Ordered == SortSeq(caps, <)
Best(k) == SubSeq(Ordered, k + 1, Len(caps))
Kept ==
    Len(caps) - Max({k \in 0 .. Len(caps) :
        \A j \in 1 .. k : Len(caps) - j >= Floor /\ 3 * Total(Best(j)) >= 4 * demand})

\* The target.  Never below Floor; growth, and only growth, stops at Cap.
PlanBySaturation ==
    IF Saturated THEN Min({Cap, Max({Floor, Len(caps) + Extra})})
    ELSE IF Idle /\ Len(caps) > Floor THEN Max({Floor, Kept})
    ELSE Max({Floor, Len(caps)})

-----------------------------------------------------------------------------
\* Readers come and go.
DemandChanges == demand' \in 0 .. MaxDemand /\ last' = "none" /\ UNCHANGED caps

\* targetFor answers from the read-rate curve when nobody reads or nobody holds.
Judges == caps # <<>> /\ demand > 0

\* planRepair adds candidates while the shortfall lasts and selection offers
\* any, whatever they can serve ...
Place ==
    /\ Judges
    /\ \E n \in 1 .. PlanBySaturation - Len(caps) :
         \E new \in [1 .. n -> Capacities] : caps' = caps \o new
    /\ last' = "placed" /\ UNCHANGED demand

\* ... and releases the surplus above the tolerated one, newest first.
Release ==
    /\ Judges /\ Len(caps) - PlanBySaturation > Hysteresis
    /\ caps' = SubSeq(caps, 1, PlanBySaturation + Hysteresis)
    /\ last' = "released" /\ UNCHANGED demand

\* A holder's measurement changes, or it stops being live.
HolderChanges ==
    /\ \E i \in DOMAIN caps : \/ \E c \in Capacities : caps' = [caps EXCEPT ![i] = c]
                               \/ caps' = RemoveAt(caps, i)
    /\ last' = "none" /\ UNCHANGED demand

PlanNext == DemandChanges \/ Place \/ Release \/ HolderChanges
PlanSpec == PlanInit /\ [][PlanNext]_planVars

-----------------------------------------------------------------------------
PlanTypeOK == caps \in BoundedSeq(Capacities, Cap) /\ demand \in 0 .. MaxDemand

\* "Shed only down to where the ratio would still sit below HIGH_WATER", and
\* growth closes "the whole gap": releasing what the plan says, the smallest
\* first, never saturates the CID, and placing what it says, of the mean
\* capacity, ends its saturation unless the cap stops it.
PlanIsEnough ==
    Judges => LET t == PlanBySaturation IN
        /\ t < Len(caps) => 4 * demand <= 3 * Total(Best(Len(caps) - t))
        /\ Len(caps) < t /\ t < Cap => 4 * demand * Len(caps) <= 3 * Capacity * t

\* "releasing cannot itself cause saturation": fails, because what is carried
\* out releases the newest holders and not the smallest.
ReleaseNeverSaturates == last = "released" => ~Saturated
=============================================================================
