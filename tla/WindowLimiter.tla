----------------------------- MODULE WindowLimiter -----------------------------
(***************************************************************************)
(* The relay's per-address request windows: the release and blob logs,      *)
(* which charge every admitted request, and ipVerifyLog, which a challenge  *)
(* only reads and a verification is charged to when it succeeds.  A timer   *)
(* drops the windows that have fully elapsed.                               *)
(*                                                                          *)
(* To say what the sweep is promised to be, every request is put to two     *)
(* copies of a log: `log`, which the timer sweeps, and `kept`, which nobody *)
(* sweeps.                                                                  *)
(***************************************************************************)
EXTENDS Naturals

CONSTANTS
    Addresses,    \* client addresses
    Local,        \* the loopback and private ones among them
    MaxPerWindow, \* requests a window admits
    Window,       \* IP_WINDOW_MS
    MaxTime,      \* bound: the clock
    MaxCount      \* bound: what one window of a local address is charged

VARIABLES
    now,
    log,          \* address -> [count, start]; only addresses with a window
    kept,         \* the same log, never swept
    answers       \* the two copies' answers to the last request

limiterVars == <<now, log, kept, answers>>

None == [count |-> 0, start |-> 0]
Entry == [count : 0..MaxCount, start : 0..MaxTime]

(* No entry is not the same as an entry with count 0: count starts at 1. *)
Expired(e, t) == e.count = 0 \/ t - e.start > Window

LimiterInit ==
    /\ now = 0
    /\ log = [a \in Addresses |-> None]
    /\ kept = [a \in Addresses |-> None]
    /\ answers = <<TRUE, TRUE>>

Charge(e) == IF now - e.start > Window \/ e.count = 0
             THEN [count |-> 1, start |-> now] ELSE [e EXCEPT !.count = @ + 1]
Admits(e) == e.count = 0 \/ now - e.start > Window \/ e.count < MaxPerWindow

(* checkAndRecordIp: the release and blob endpoints. *)
Request(a) ==
    /\ a \notin Local
    /\ log' = [log EXCEPT ![a] = IF Admits(@) THEN Charge(@) ELSE @]
    /\ kept' = [kept EXCEPT ![a] = IF Admits(@) THEN Charge(@) ELSE @]
    /\ answers' = <<Admits(log[a]), Admits(kept[a])>>
    /\ UNCHANGED now

(* checkIpLimit alone, for a challenge. *)
Ask(a) ==
    /\ answers' = <<a \in Local \/ Admits(log[a]), a \in Local \/ Admits(kept[a])>>
    /\ UNCHANGED <<now, log, kept>>

(* A verification checks the limit, and charges the window only once the    *)
(* face and the name have passed too; a local address is charged as well,   *)
(* though never refused (checkIpLimit, recordIpVerification).               *)
Verify(a, passes) ==
    /\ kept[a].count < MaxCount
    /\ answers' = <<a \in Local \/ Admits(log[a]), a \in Local \/ Admits(kept[a])>>
    /\ log' = [log EXCEPT ![a] = IF answers'[1] /\ passes THEN Charge(@) ELSE @]
    /\ kept' = [kept EXCEPT ![a] = IF answers'[2] /\ passes THEN Charge(@) ELSE @]
    /\ UNCHANGED now

(* sweepExpiredWindows on the ten-minute timer. *)
Sweep ==
    /\ log' = [a \in Addresses |-> IF Expired(log[a], now) THEN None ELSE log[a]]
    /\ UNCHANGED <<now, kept, answers>>

Tick ==
    /\ now < MaxTime
    /\ now' = now + 1
    /\ UNCHANGED <<log, kept, answers>>

LimiterNext ==
    \/ \E a \in Addresses : Request(a)
    \/ \E a \in Addresses : Ask(a)
    \/ \E a \in Addresses, passes \in BOOLEAN : Verify(a, passes)
    \/ Sweep
    \/ Tick

LimiterSpec == LimiterInit /\ [][LimiterNext]_limiterVars

----------------------------------------------------------------------------
(* Types. *)
LimiterTypeOK ==
    /\ now \in 0..MaxTime
    /\ log \in [Addresses -> Entry] /\ kept \in [Addresses -> Entry]
    /\ answers \in BOOLEAN \X BOOLEAN

(* Sweeping the log changes no answer: the swept log and the one nobody     *)
(* sweeps admit and refuse the same requests (window-limiter.ts,            *)
(* sweepExpiredWindows; relay/server.ts checkAndRecordIp, whose own test of *)
(* expiry is written out again).                                            *)
SweepPreservesDecisions == answers[1] = answers[2]
=============================================================================
