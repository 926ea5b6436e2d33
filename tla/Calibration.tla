----------------------------- MODULE Calibration -----------------------------
(***************************************************************************)
(* The measured capacity of one storage provider: the samples and their    *)
(* analysis in engine/content/calibration.ts, and the probing of           *)
(* storage-manager.ts.                                                     *)
(*                                                                         *)
(* A sample is its rung of the ladder, its outcome and its latency, which  *)
(* is a multiple of the slowest acceptable baseline; samples of a rung are *)
(* kept oldest first.  Every sample this node takes carries its own name.  *)
(***************************************************************************)
EXTENDS Integers, Sequences, FiniteSets, FiniteSetsExt, SequencesExt

CONSTANTS
    Ladder,             \* the rungs a calibration walks, ascending
    MinSamples,         \* MIN_SAMPLES_PER_LEVEL
    MinProbers,         \* MIN_DISTINCT_PROBERS
    MaxPerLevel,        \* CalibrationRun.MAX_PER_LEVEL
    Latencies,          \* latencies of a successful probe
    Me,                 \* localPubForProbes
    Ttl,                \* calibrationTtlMs
    MaxTime             \* bound on the clock

VARIABLES
    samples,            \* CalibrationRun.samples: rung -> its samples
    measuredAt,         \* calibratedAt, Never before the first sample
    rung,               \* the rung a calibration will walk next, 0 when idle
    now

calibrationVars == <<samples, measuredAt, rung, now>>

Never == -Ttl - 1
Rungs == ToSet(Ladder)

CalibrationInit ==
    /\ samples = [l \in Rungs |-> <<>>] /\ measuredAt = Never
    /\ rung = 0 /\ now = 0

-----------------------------------------------------------------------------
(* CalibrationRun.analyze                                                  *)

Sample(ok, ms) == [ok |-> ok, ms |-> ms, prober |-> Me]
Probers == UNION {{samples[l][i].prober : i \in DOMAIN samples[l]} : l \in Rungs}
Taken == {l \in Rungs : samples[l] # <<>>}
Judged == {l \in Rungs : Len(samples[l]) >= MinSamples}
Failures(l) == Cardinality({i \in DOMAIN samples[l] : ~samples[l][i].ok})
OkTimes(l) == SortSeq([i \in DOMAIN SelectSeq(samples[l], LAMBDA s : s.ok) |->
                         SelectSeq(samples[l], LAMBDA s : s.ok)[i].ms], <)
\* percentile p of a sorted sequence, p in hundredths
Percentile(s, p) == s[Max({1, (p * Len(s) + 99) \div 100})]

\* More than one in ten failed, or the slow ones take over three times the
\* median of the lowest rung.
Baseline == Percentile(OkTimes(Min(Taken)), 50)
Degraded(l) ==
    \/ 10 * Failures(l) > Len(samples[l]) \/ OkTimes(l) = <<>>
    \/ Percentile(OkTimes(l), 95) > 3 * Baseline
HasBaseline == Taken # {} /\ Min(Taken) \in Judged /\ OkTimes(Min(Taken)) # <<>>

\* Upward, stopping at the first judged rung that is degraded.
Best ==
    IF ~HasBaseline THEN 0
    ELSE FoldLeft(LAMBDA acc, l : IF acc.stop \/ l \notin Judged THEN acc
                                  ELSE IF Degraded(l) THEN [acc EXCEPT !.stop = TRUE]
                                  ELSE [acc EXCEPT !.best = l],
                  [stop |-> FALSE, best |-> 0], Ladder).best
LevelsJudged ==
    IF ~HasBaseline THEN 0
    ELSE Cardinality({l \in Judged : \A k \in Judged : k < l => ~Degraded(k)})
Confident == Cardinality(Probers) >= MinProbers /\ LevelsJudged >= 2 /\ Best > 0

\* effectiveCapacity with requireMeasured
HolderCapacity ==
    IF Confident /\ Best > 0 /\ measuredAt # Never /\ now - measuredAt <= Ttl THEN Best ELSE 1

-----------------------------------------------------------------------------
(* recordProbe, and the trim to the newest samples of the rung.            *)
RecordProbes(l, new) ==
    LET all == samples[l] \o new IN
    /\ samples' = [samples EXCEPT ![l] =
           SubSeq(all, Max({1, Len(all) - MaxPerLevel + 1}), Len(all))]
    /\ measuredAt' = now

Outcomes == {Sample(TRUE, ms) : ms \in Latencies} \cup {Sample(FALSE, 9999)}

\* A spot check that returned the right bytes.
SpotCheck ==
    /\ \E ms \in Latencies : RecordProbes(1, <<Sample(TRUE, ms)>>)
    /\ UNCHANGED <<rung, now>>

\* runDueCalibration picks the provider when its measurement is stale.
Due == now - measuredAt > Ttl
RunDueCalibration == rung = 0 /\ Due /\ rung' = 1 /\ UNCHANGED <<samples, measuredAt, now>>

\* calibrateProvider: as many fetches at once as the rung says; the next rung
\* unless more than one in ten failed.  Fetches of one rung come back with at
\* most one failure here, or all fail.
Walk ==
    /\ rung # 0
    /\ \E o \in Outcomes, p \in Outcomes : LET
           l == Ladder[rung]
           new == [i \in 1 .. l |-> IF i = 1 THEN o ELSE p]
           failed == Cardinality({i \in 1 .. l : ~new[i].ok})
       IN /\ RecordProbes(l, new)
          /\ rung' = IF 10 * failed > l \/ rung = Len(Ladder) THEN 0 ELSE rung + 1
    /\ UNCHANGED now

Tick == now < MaxTime /\ now' = now + 1 /\ UNCHANGED <<samples, measuredAt, rung>>

CalibrationNext == SpotCheck \/ RunDueCalibration \/ Walk \/ Tick
CalibrationSpec == CalibrationInit /\ [][CalibrationNext]_calibrationVars

-----------------------------------------------------------------------------
CalibrationTypeOK ==
    /\ \A l \in Rungs : Len(samples[l]) <= MaxPerLevel
    /\ rung \in 0 .. Len(Ladder) /\ HolderCapacity \in Rungs \cup {0, 1}

\* The capacity is a rung that held: every judged rung up to it was served,
\* whatever better rung samples of an earlier, luckier calibration left above
\* a degraded one.
KneeHolds == \A l \in Judged : Best > 0 /\ l <= Best => ~Degraded(l)

\* "calibrate and be given work proportional to what you demonstrably serve":
\* a provider that has just served the whole ladder is credited with it.
LadderIsCredited ==
    (Judged = Rungs /\ \A l \in Rungs : ~Degraded(l)) => HolderCapacity = Max(Rungs)
=============================================================================
