----------------------------- MODULE DemandWindow -----------------------------
(***************************************************************************)
(* The read rate of a file (CustodySignals, engine/content/custody.ts), the *)
(* demand its replica target follows.  Reads are counted in a ring of       *)
(* buckets that is rolled forward whenever the file is touched, by a clock  *)
(* that may be set back.  One file, whose entry meets no other's; service   *)
(* times are left out, failure streaks are in ContentCustody.               *)
(***************************************************************************)
EXTENDS Integers, FiniteSetsExt

CONSTANTS
    Buckets,    \* DEMAND_BUCKETS
    MaxTime,    \* bound: the clock, in buckets
    MaxBack,    \* bound: how far the clock is set back, once
    MaxReads    \* bound: reads of one entry

VARIABLES
    now,       \* the bucket the clock is in
    back,      \* whether the clock has been set back
    entry,     \* the file's ring, or NoEntry
    made,      \* bucket -> reads the present entry was told of (no action reads it)
    sampled    \* [rate, due]: the rate last read, and the reads then in its window

demandVars == <<now, back, entry, made, sampled>>

Slots == 0..(Buckets - 1)
Times == 0..MaxTime
NoEntry == [is |-> "none", start |-> 0, ring |-> [s \in Slots |-> 0]]

Sum(f) == FoldSet(LAMBDA x, sum : sum + f[x], 0, DOMAIN f)

\* bucketIndex, advance: every bucket the clock has passed is zeroed; a clock
\* that was set back passes none.
Advance(e, idx) ==
    LET passed == {(e.start + k) % Buckets : k \in 1..(idx - e.start)}
    IN IF e.is = "none" \/ idx <= e.start THEN e
       ELSE [e EXCEPT !.start = idx, !.ring = [s \in Slots |-> IF s \in passed THEN 0 ELSE @[s]]]

Reads(e) == Sum(e.ring)

\* The reads the entry was told of, in the window that ends at its own start.
Due(e) == Sum([t \in {u \in Times : u > e.start - Buckets /\ u <= e.start} |-> made[t]])

DemandInit ==
    /\ now = 0 /\ back = FALSE
    /\ entry = NoEntry /\ made = [t \in Times |-> 0]
    /\ sampled = [rate |-> 0, due |-> 0]

RecordRead ==
    /\ Sum(made) < MaxReads
    /\ LET e == IF entry.is = "none" THEN [NoEntry EXCEPT !.is = "ring", !.start = now]
                ELSE Advance(entry, now)
       IN entry' = [e EXCEPT !.ring[now % Buckets] = @ + 1]
    /\ made' = [made EXCEPT ![now] = @ + 1]
    /\ UNCHANGED <<now, back, sampled>>

\* reads, through targetFor and concurrentReads
TargetFor ==
    LET e == Advance(entry, now) IN
    /\ entry' = e
    /\ sampled' = [rate |-> Reads(e), due |-> IF e.is = "none" THEN 0 ELSE Due(e)]
    /\ UNCHANGED <<now, back, made>>

\* forget: the file is deleted, replaced or no longer tracked
Forget ==
    /\ entry' = NoEntry /\ made' = [t \in Times |-> 0]
    /\ UNCHANGED <<now, back, sampled>>

\* sweepDemand, from the retry loop
SweepDemand ==
    LET e == Advance(entry, now) IN
    IF Reads(e) = 0 THEN Forget
    ELSE entry' = e /\ UNCHANGED <<now, back, made, sampled>>

Tick ==
    /\ now < MaxTime
    /\ now' = now + 1
    /\ UNCHANGED <<back, entry, made, sampled>>

SetBack ==
    /\ ~back /\ back' = TRUE
    /\ \E t \in Times : t < now /\ t >= now - MaxBack /\ now' = t
    /\ UNCHANGED <<entry, made, sampled>>

DemandNext == RecordRead \/ TargetFor \/ Forget \/ SweepDemand \/ Tick \/ SetBack
DemandSpec == DemandInit /\ [][DemandNext]_demandVars

----------------------------------------------------------------------------
DemandTypeOK ==
    /\ now \in Times /\ back \in BOOLEAN
    /\ entry \in [is : {"none", "ring"}, start : Times, ring : [Slots -> 0..MaxReads]]
    /\ made \in [Times -> 0..MaxReads]

(* "Reads in the last demandWindowMs() - a rate, and it falls again": the   *)
(* ring, rolled forward only when somebody looks, counts each read of its   *)
(* window once and none from before it, over any gap between two touches    *)
(* and while the clock is set back by less than a window.                   *)
DemandIsMeasured == sampled.rate = sampled.due
=============================================================================
