--------------------------- MODULE RecoveryShares ---------------------------
(***************************************************************************)
(* Custody of one account's recovery secret (network/recovery-share.ts and *)
(* the relay's recovery-share endpoints).  The secret is Shamir-split, two *)
(* of n, over relays; shares of different splits do not combine.  Every    *)
(* session of a device that holds the secret may split it again to reach   *)
(* more relays, and a device without it asks two relays for their shares,  *)
(* which a relay hands to the enrolled face only, with a backoff.          *)
(*                                                                         *)
(* A split is its time stamp: splits of one account are taken not to share *)
(* a millisecond, and clocks not to run backwards.  A share is the split   *)
(* it comes from, for the relay determines its x coordinate.               *)
(***************************************************************************)
EXTENDS Integers, FiniteSets, Sequences, SequencesExt

CONSTANTS
  Relays,        \* the attesters
  Bases,         \* relayHttpBases: the order in which a client asks them
  Attesting,     \* relays that attested the account at its creation
  Familiar,      \* relays that know the human's face from other enrolments
  Devices,       \* the owner's devices
  FreeAttempts,  \* wrong attempts before the backoff starts
  Budgets        \* bounds of a run: how often each event may strike

Budget == [{"splits", "outages", "crashes", "cuts", "lost", "guesses", "wipes"} -> Nat]

VARIABLES
  share,    \* recoveryShareStore: share[r] is the split that r's share is from, 0 if it has none
  saved,    \* the same, as last written to r's disk
  fails,    \* wrong release attempts counted by r, in memory
  locked,   \* relays that refuse to release until their backoff ends
  up,       \* relays that run and are reachable
  clock,    \* the latest split
  cached,   \* devices that hold the secret
  job,      \* job[d]: the refresh that d is in the middle of
  wire,     \* stores <<r, split, fresh>> that their sender has given up on
  guessed,  \* history: wrong attempts r judged since its last backoff, success or crash
  budget    \* the events that may still strike

shareVars == <<share, saved, fails, locked, up, clock, cached, job, wire, guessed, budget>>

NoJob == [split |-> 0, todo |-> <<>>, holders |-> <<>>, written |-> 0, fresh |-> FALSE, paired |-> FALSE]
Spends(event) == budget[event] > 0 /\ budget' = [budget EXCEPT ![event] = @ - 1]
HoldersOf(split, among) == {r \in among : share[r] = split}

SharesInit ==
  /\ share = [r \in Relays |-> 0] /\ saved = share
  /\ fails = [r \in Relays |-> 0] /\ guessed = fails /\ locked = {}
  /\ up \in {Relays} \cup {Relays \ {r} : r \in Relays}
  /\ clock = 0 /\ cached = {} /\ job = [d \in Devices |-> NoJob] /\ wire = {}
  /\ budget \in Budgets

-----------------------------------------------------------------------------
(* The relay *)

\* POST /recovery-share accepts a newer split, from an account whose human it can recognise.
Accepts(r, split, fresh) ==
  /\ split > share[r]
  /\ share[r] /= 0 \/ r \in Attesting \/ (fresh /\ r \in Familiar)

Store(r, split) == share' = [share EXCEPT ![r] = split] /\ UNCHANGED <<fails, locked>>

\* A request that its sender has given up on is handled after all.
StoreLate(m) ==
  /\ m \in wire /\ m[1] \in up
  /\ wire' = wire \ {m}
  /\ IF Accepts(m[1], m[2], m[3]) THEN Store(m[1], m[2]) ELSE UNCHANGED <<share, fails, locked>>
  /\ UNCHANGED <<saved, up, clock, cached, job, guessed, budget>>

\* saveRecoveryShares, every five seconds; the binding and the backoff are saved with the share.
Flush(r) ==
  /\ r \in up /\ saved[r] /= share[r]
  /\ saved' = [saved EXCEPT ![r] = share[r]]
  /\ UNCHANGED <<share, fails, locked, up, clock, cached, job, wire, guessed, budget>>

GoDown(r) ==
  /\ r \in up /\ Spends("outages") /\ up' = up \ {r}
  /\ UNCHANGED <<share, saved, fails, locked, clock, cached, job, wire, guessed>>

\* The relay process dies with what it had not yet saved, and is started again.
Crash(r) ==
  /\ r \in up /\ Spends("crashes")
  /\ share' = [share EXCEPT ![r] = saved[r]] /\ fails' = [fails EXCEPT ![r] = 0]
  /\ locked' = locked \ {r} /\ guessed' = [guessed EXCEPT ![r] = 0]
  /\ UNCHANGED <<saved, up, clock, cached, job, wire>>

ComeBack(r) ==
  /\ r \notin up /\ up' = up \cup {r}
  /\ UNCHANGED <<share, saved, fails, locked, clock, cached, job, wire, guessed, budget>>

\* POST /recovery-share/release with a face or a trajectory that does not match.
WrongAttempt(r) ==
  /\ r \in up \ locked /\ share[r] /= 0 /\ Spends("guesses")
  /\ fails' = [fails EXCEPT ![r] = @ + 1] /\ guessed' = [guessed EXCEPT ![r] = @ + 1]
  /\ locked' = IF fails[r] + 1 > FreeAttempts THEN locked \cup {r} ELSE locked
  /\ UNCHANGED <<share, saved, up, clock, cached, job, wire>>

BackoffEnds(r) ==
  /\ r \in locked
  /\ locked' = locked \ {r} /\ guessed' = [guessed EXCEPT ![r] = 0]
  /\ UNCHANGED <<share, saved, fails, up, clock, cached, job, wire, budget>>

-----------------------------------------------------------------------------
(* The client *)

\* storeRecoveryShare: the first split, written to all attesters at once.  The account is created
\* when two of them confirm; a confirmation can be lost.
Create(d, stored, confirmed) ==
  /\ clock = 0 /\ stored \subseteq Attesting \cap up /\ confirmed \subseteq stored
  /\ Cardinality(stored \ confirmed) <= budget["lost"] /\ Cardinality(confirmed) >= 2
  /\ clock' = 1 /\ share' = [r \in Relays |-> IF r \in stored THEN 1 ELSE 0]
  /\ cached' = {d}
  /\ UNCHANGED <<saved, fails, locked, up, job, wire, guessed, budget>>

\* planShareRefresh: the holders of the newest split seen, and whether splitting again reaches more.
Newest(seen) == LET s == {share[r] : r \in seen} IN CHOOSE x \in s : \A y \in s : y <= x
PlanHolders(seen) == HoldersOf(Newest(seen), seen) \ HoldersOf(0, seen)
ShouldRefresh(seen) == Cardinality(seen) >= 2 /\ Cardinality(seen) > Cardinality(PlanHolders(seen))

InOrder(S) == SelectSeq(Bases, LAMBDA r : r \in S)

OrderedTargets_HoldersFirst(seen) == <<InOrder(PlanHolders(seen)), InOrder(seen \ PlanHolders(seen))>>

\* orderRefreshTargets: those with nothing to lose, then the holders.
OrderedTargets(seen) == <<InOrder(seen \ PlanHolders(seen)), InOrder(PlanHolders(seen))>>

\* refreshShareRedundancy, up to the first write.  Relays that do not answer are not seen.
StartRefresh(d, seen, fresh) ==
  LET targets == OrderedTargets(seen) IN
  /\ d \in cached /\ job[d] = NoJob
  /\ seen /= {} /\ seen \subseteq up /\ ShouldRefresh(seen) /\ Spends("splits")
  /\ clock' = clock + 1
  /\ job' = [job EXCEPT ![d] = [split |-> clock', todo |-> targets[1], holders |-> targets[2], written |-> 0,
                                fresh |-> fresh, paired |-> Cardinality(PlanHolders(seen)) >= 2]]
  /\ UNCHANGED <<share, saved, fails, locked, up, cached, wire, guessed>>

\* The refresh once a write is over: the holders' turn comes only if another relay took a share.
Proceeds(j, written) ==
  IF Len(j.todo) > 1 THEN [j EXCEPT !.todo = Tail(@), !.written = written]
  ELSE IF written > 0 /\ j.holders /= <<>> THEN [j EXCEPT !.todo = j.holders, !.holders = <<>>, !.written = written]
  ELSE NoJob

\* storeOnRelay, answered: the relay accepted the share or refused it.
Write(d) ==
  LET j == job[d]  r == Head(j.todo) IN
  /\ j /= NoJob /\ r \in up
  /\ IF Accepts(r, j.split, j.fresh)
     THEN Store(r, j.split) /\ job' = [job EXCEPT ![d] = Proceeds(j, j.written + 1)]
     ELSE UNCHANGED <<share, fails, locked>> /\ job' = [job EXCEPT ![d] = Proceeds(j, j.written)]
  /\ UNCHANGED <<saved, up, clock, cached, wire, guessed, budget>>

\* storeOnRelay, given up: the relay is down, or too slow and handles the request later.
WriteFails(d) ==
  LET j == job[d]  r == Head(j.todo) IN
  /\ j /= NoJob
  /\ \/ r \notin up /\ UNCHANGED <<wire, budget>>
     \/ r \in up /\ Spends("lost") /\ wire' = wire \cup {<<r, j.split, j.fresh>>}
  /\ job' = [job EXCEPT ![d] = Proceeds(j, j.written)]
  /\ UNCHANGED <<share, saved, fails, locked, up, clock, cached, guessed>>

\* The page is closed or reloaded in the middle of a refresh.
CutShort(d) ==
  /\ job[d] /= NoJob /\ Spends("cuts")
  /\ job' = [job EXCEPT ![d] = NoJob]
  /\ UNCHANGED <<share, saved, fails, locked, up, clock, cached, wire, guessed>>

\* The device loses its site data, the cached secret with it.
WipeDevice(d) ==
  /\ d \in cached /\ job[d] = NoJob /\ Spends("wipes")
  /\ cached' = cached \ {d}
  /\ UNCHANGED <<share, saved, fails, locked, up, clock, job, wire, guessed>>

\* fetchRecoveryChallenges: the first two relays of the list that answer.
Challenged == LET answering == InOrder(up) IN Range(SubSeq(answering, 1, IF Len(answering) < 2 THEN Len(answering) ELSE 2))

\* releaseRecoveryShare: two shares of one split, from the relays that were asked.
Releases(asked) == {r \in asked \ locked : share[r] /= 0}
Combines(asked) == \E r, q \in Releases(asked) : r /= q /\ share[r] = share[q]

Recover(d) ==
  /\ clock > 0 /\ d \notin cached /\ Combines(Challenged)
  /\ fails' = [r \in Relays |-> IF r \in Releases(Challenged) THEN 0 ELSE fails[r]]
  /\ guessed' = [r \in Relays |-> IF r \in Releases(Challenged) THEN 0 ELSE guessed[r]]
  /\ cached' = cached \cup {d}
  /\ UNCHANGED <<share, saved, locked, up, clock, job, wire, budget>>

SharesNext ==
  \/ \E r \in Relays : Flush(r) \/ GoDown(r) \/ Crash(r) \/ ComeBack(r) \/ WrongAttempt(r) \/ BackoffEnds(r)
  \/ \E m \in wire : StoreLate(m)
  \/ \E d \in Devices, stored, confirmed \in SUBSET Attesting : Create(d, stored, confirmed)
  \/ \E d \in Devices, seen \in SUBSET Relays, fresh \in BOOLEAN : StartRefresh(d, seen, fresh)
  \/ \E d \in Devices : Write(d) \/ WriteFails(d) \/ CutShort(d) \/ WipeDevice(d) \/ Recover(d)

SharesSpec == SharesInit /\ [][SharesNext]_shareVars

-----------------------------------------------------------------------------
(* Properties *)

\* What the stores, the refreshes and the requests on their way look like.
SharesTypeOK ==
  /\ \A r \in Relays : share[r] \in 0..clock /\ saved[r] \in 0..clock /\ fails[r] \in Nat
  /\ locked \subseteq Relays /\ up \subseteq Relays /\ cached \subseteq Devices
  /\ \A d \in Devices : /\ job[d].split \in 0..clock
                        /\ Range(job[d].todo) \cup Range(job[d].holders) \subseteq Relays
                        /\ job[d].written <= Cardinality(HoldersOf(job[d].split, Relays))
  /\ \A m \in wire : m[1] \in Relays /\ m[2] \in 1..clock /\ m[3] \in BOOLEAN

\* Two relays hold shares that combine.
Recoverable == \E r, q \in Relays : r /= q /\ share[r] /= 0 /\ share[r] = share[q]

\* A refresh that starts from two holders of the newest split never leaves the account without a
\* pair while it runs, whichever writes fail, are refused, are late or stay undone (lines 237-262).
SessionKeepsPair == \A d \in Devices : job[d].paired => Recoverable

\* A relay judges at most the free attempts and one more before a wrong face has to wait, whatever
\* the client stores or refreshes in between (server.ts releaseBackoffMs and the kept fails).
NoFreeGuesses == \A r \in Relays : guessed[r] <= FreeAttempts + 1

\* "At every moment, either the old generation still has >=2 holders, or the new generation does."
AlwaysRecoverable == clock > 0 => Recoverable

\* Two challenged relays are enough to recover whenever two reachable relays hold a pair.
TwoRelaysSuffice ==
  (locked = {} /\ \E r, q \in up : r /= q /\ share[r] /= 0 /\ share[r] = share[q]) => Combines(Challenged)
=============================================================================
