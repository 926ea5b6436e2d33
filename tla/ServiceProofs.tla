---------------------------- MODULE ServiceProofs ----------------------------
(***************************************************************************)
(* That people are counted once and stores keep their word, for any        *)
(* accounts, humans, keys, files, blocks and holders: the slots of a face  *)
(* (Attester), the delegations between keys (SubAccounts), the content     *)
(* store of a browser (SmokeStore), a file handed over in place of another *)
(* (Replacement), a block store under a quota and the archive of a chain   *)
(* in it (BlockStore), a store that is one file (AtomicFile).              *)
(*                                                                         *)
(* A slot is taken for good when its account opens, and until then it may  *)
(* go back.  Every visit takes a slot of its own, so the slots of a human  *)
(* are counted by the set of its visits that are being verified, or were   *)
(* attested since the last wipe and not swept.  That set is below the      *)
(* count in memory, and without those that are being verified it is below  *)
(* the count on disk.  The other way round, the visits whose use is of     *)
(* this generation are as many as the count until the relay restarts, and  *)
(* each of them is provisional, overtaken, or the one of an open account.  *)
(*                                                                         *)
(* A store's word is kept by what its calls carry between two awaits: what *)
(* a handler has yet to fetch, the bodies a call has yet to archive, the   *)
(* bytes a read has been given, the version a save is writing.             *)
(***************************************************************************)
EXTENDS Attester, SubAccounts, SumTheorems, FiniteSetTheorems, WellFoundedInduction, TLAPS

\* A set that a sequence lists is finite.
LEMMA ListedIsFinite ==
  ASSUME NEW S, NEW q \in Seq(S), \A x \in S : \E i \in 1..Len(q) : q[i] = x
  PROVE  IsFiniteSet(S)
BY DEF IsFiniteSet

\* How many there are up to a number, with one thing that is no number.
LEMMA NumbersAndOne ==
  ASSUME NEW n \in Nat, NEW c, c \notin 0..n
  PROVE  IsFiniteSet({c}) /\ Cardinality((0..n) \cup {c}) = n + 2
<1>1. IsFiniteSet({c})
  BY FS_Singleton
<1>2. IsFiniteSet(0..n) /\ Cardinality(0..n) = n + 1
  BY FS_Interval
<1>3. Cardinality((0..n) \cup {c}) = Cardinality(0..n) + 1
  BY <1>2, FS_AddElement
<1> QED BY <1>1, <1>2, <1>3

AttesterConstants ==
  /\ IsFiniteSet(Visits) /\ FaceMax \in Nat /\ OperatorCount \in Nat
  /\ None \notin Names \cup Visits

-----------------------------------------------------------------------------
(* The attester: types, and the course of a visit. *)

Sessions == {None, "issued", "used"}
DiskTyped ==
  disk \in [count : [Humans -> 0..FaceMax], registry : [Names -> Visits \cup {None}],
            opened : SUBSET Accounts]
AttesterTypes ==
  /\ count \in [Humans -> 0..FaceMax] /\ DiskTyped
  /\ session \in [Visits -> Sessions]
  /\ verifying \in [Visits -> Uses] /\ attested \in [Visits -> Uses]
  /\ pending \in [Accounts -> Visits \cup {None}]
  /\ registry \in [Names -> Visits \cup {None}]
  /\ operators \in Seq(Accounts) /\ Len(operators) <= OperatorCount
  /\ opened \subseteq Accounts /\ swept \subseteq Visits /\ overtaken \subseteq Visits
  /\ restarts \in Nat /\ wipes \in Nat

Verifying(v) == verifying[v] # NoUse
Attested(v) == attested[v] # NoUse
Provisional(v) == pending[AccountOf[v]] = v

\* One session makes one attestation, of the generation it was verified in;
\* what is pending was attested for that account and is neither given back nor
\* overtaken; a wipe forgets what is pending, and interrupts the humans that
\* are being verified.
Course ==
  \A v \in Visits :
    /\ Verifying(v) => session[v] = "used" /\ ~Attested(v) /\ verifying[v].generation <= wipes
    /\ Attested(v) => session[v] = "used" /\ attested[v].generation <= wipes
    /\ v \in swept \cup overtaken => Attested(v)
    /\ Provisional(v) => Attested(v) /\ v \notin swept \cup overtaken
    /\ HumanOf[v] \notin interrupted =>
         /\ Verifying(v) => verifying[v].generation = wipes
         /\ Provisional(v) => attested[v].generation = wipes

\* What is provisional is so for its own account.
Owned == \A a \in Accounts : pending[a] # None => AccountOf[pending[a]] = a

\* Until a restart, a use that is settled is of an account that opened, and the
\* only one of it.
Settles ==
  restarts = 0 =>
    \A v \in Visits : Settled(v) =>
       /\ AccountOf[v] \in opened
       /\ \A w \in Visits : Settled(w) /\ AccountOf[w] = AccountOf[v] => w = v

LEMMA NoUseIsNone ==
  ASSUME AttesterConstants, NEW u \in Uses, u # NoUse
  PROVE  u.name \in Names /\ u.name # None /\ u.index \in Nat /\ u.generation \in Nat
BY DEF AttesterConstants, Uses

LEMMA ReleasedTyped ==
  ASSUME AttesterConstants, AttesterTypes, NEW stale \in SUBSET Visits, NEW h \in Humans
  PROVE  Released(h, stale) \in 0..FaceMax
<1> DEFINE S == {v \in stale : HumanOf[v] = h}
<1>1. IsFiniteSet(S)
  BY FS_Subset DEF AttesterConstants
<1>2. Cardinality(S) \in Nat
  BY <1>1, FS_CardinalityType
<1>3. count[h] \in 0..FaceMax
  BY DEF AttesterTypes
<1> HIDE DEF S
<1>4. (IF count[h] > Cardinality(S) THEN count[h] - Cardinality(S) ELSE 0) \in 0..FaceMax
  BY <1>2, <1>3 DEF AttesterConstants
<1> QED BY <1>4 DEF Released, S

LEMMA AttesterTypesInit ==
  ASSUME AttesterConstants, AttesterInit PROVE AttesterTypes /\ Course /\ Owned /\ Settles
<1>1. AttesterTypes
  BY DEF AttesterConstants, AttesterInit, AttesterTypes, DiskTyped, Sessions, Uses
<1>2. Course /\ Owned /\ Settles
  BY DEF AttesterConstants, AttesterInit, Course, Verifying, Attested, Provisional, Owned, Settles, Settled, Kept, Accounts
<1> QED BY <1>1, <1>2

LEMMA AttesterTypesStep ==
  ASSUME AttesterConstants, AttesterTypes, Course, AttesterNext PROVE AttesterTypes'
<1> USE DEF AttesterTypes
<1>0. \A v \in Visits : AccountOf[v] \in Accounts
  BY DEF Accounts
<1>1. ASSUME NEW v \in Visits, Challenge(v) PROVE AttesterTypes'
  BY <1>1 DEF Challenge, DiskTyped, Sessions
<1>2. ASSUME NEW v \in Visits, NEW n \in Names, Verify(v, n) PROVE AttesterTypes'
  <2>1. HumanOf[v] \in Humans
    BY DEF Humans
  <2>2. count' \in [Humans -> 0..FaceMax]
    BY <1>2, <2>1 DEF Verify, AttesterConstants
  <2>3. verifying' \in [Visits -> Uses]
    <3>1. [name |-> n, index |-> count[HumanOf[v]], generation |-> wipes] \in Uses
      BY <2>1 DEF Uses
    <3> QED BY <1>2, <3>1 DEF Verify
  <2> QED BY <1>2, <2>2, <2>3 DEF Verify, DiskTyped, Sessions
<1>3. ASSUME NEW v \in Visits, Attest(v) PROVE AttesterTypes'
  <2>1. verifying[v].name \in Names /\ verifying[v] \in Uses /\ NoUse \in Uses
    BY <1>3, NoUseIsNone DEF Attest, Uses
  <2>2. DiskTyped'
    BY <1>3 DEF Attest, DiskTyped
  <2>3. /\ verifying' \in [Visits -> Uses] /\ attested' \in [Visits -> Uses]
        /\ pending' \in [Accounts -> Visits \cup {None}]
        /\ registry' \in [Names -> Visits \cup {None}]
    BY <1>3, <2>1, <1>0 DEF Attest
  <2>4. operators' \in Seq(Accounts) /\ Len(operators') <= OperatorCount
    BY <1>3, <1>0 DEF Attest, AttesterConstants
  <2>5. overtaken' \subseteq Visits
    BY <1>3, <1>0 DEF Attest
  <2> QED BY <1>3, <2>2, <2>3, <2>4, <2>5 DEF Attest
<1>4. ASSUME NEW a \in Accounts, ArchiveOpen(a) PROVE AttesterTypes'
  BY <1>4 DEF ArchiveOpen, DiskTyped
<1>5. ASSUME NEW stale \in SUBSET Visits, ReleaseStale(stale) PROVE AttesterTypes'
  <2>1. count' \in [Humans -> 0..FaceMax]
    BY <1>5, ReleasedTyped DEF ReleaseStale
  <2>2. registry' \in [Names -> Visits \cup {None}] /\ pending' \in [Accounts -> Visits \cup {None}]
    BY <1>5 DEF ReleaseStale
  <2>3. DiskTyped'
    BY <1>5, <2>1, <2>2 DEF ReleaseStale, DiskTyped
  <2> QED BY <1>5, <2>1, <2>2, <2>3 DEF ReleaseStale
<1>6. ASSUME FlushStores PROVE AttesterTypes'
  BY <1>6 DEF FlushStores, DiskTyped
<1>7. ASSUME Restart PROVE AttesterTypes'
  BY <1>7 DEF Restart, DiskTyped, Sessions, Uses
<1>8. ASSUME Wipe PROVE AttesterTypes'
  <2>1. count' \in [Humans -> 0..FaceMax]
    BY <1>8 DEF Wipe, AttesterConstants
  <2>2. DiskTyped'
    BY <1>8, <2>1 DEF Wipe, DiskTyped
  <2> QED BY <1>8, <2>1, <2>2 DEF Wipe, AttesterConstants
<1> QED BY <1>1, <1>2, <1>3, <1>4, <1>5, <1>6, <1>7, <1>8 DEF AttesterNext

LEMMA OwnedStep ==
  ASSUME AttesterTypes, Owned, AttesterNext PROVE Owned'
<1> USE DEF AttesterTypes, Owned
<1>0. \A v \in Visits : AccountOf[v] \in Accounts
  BY DEF Accounts
<1>1. ASSUME NEW v \in Visits, Challenge(v) \/ Attest(v) PROVE Owned'
  BY <1>0, <1>1 DEF Challenge, Attest
<1>2. ASSUME NEW a \in Accounts, ArchiveOpen(a) PROVE Owned'
  BY <1>2 DEF ArchiveOpen
<1>3. ASSUME NEW v \in Visits, NEW n \in Names, Verify(v, n) PROVE Owned'
  BY <1>3 DEF Verify
<1>4. ASSUME NEW stale \in SUBSET Visits, ReleaseStale(stale) PROVE Owned'
  BY <1>4 DEF ReleaseStale
<1>5. (FlushStores \/ Restart \/ Wipe) => Owned'
  BY DEF FlushStores, Restart, Wipe
<1> QED BY <1>1, <1>2, <1>3, <1>4, <1>5 DEF AttesterNext

LEMMA CourseStep ==
  ASSUME AttesterConstants, AttesterTypes, Course, Owned, AttesterNext PROVE Course'
<1> USE DEF AttesterTypes, Course, Verifying, Attested, Provisional
<1>0. \A v \in Visits : AccountOf[v] \in Accounts /\ v # None
  BY DEF Accounts, AttesterConstants
<1>1. ASSUME NEW v \in Visits, Challenge(v) PROVE Course'
  BY <1>1 DEF Challenge, None
<1>2. ASSUME NEW v \in Visits, NEW n \in Names, Verify(v, n) PROVE Course'
  BY <1>2 DEF Verify
<1>3. ASSUME NEW v \in Visits, Attest(v) PROVE Course'
  <2>1. /\ UNCHANGED <<session, swept, interrupted, wipes>>
        /\ verifying' = [verifying EXCEPT ![v] = NoUse] /\ pending' = [pending EXCEPT ![AccountOf[v]] = v]
        /\ attested' = [attested EXCEPT ![v] = verifying[v]]
        /\ overtaken' = overtaken \cup ({pending[AccountOf[v]]} \ {None})
        /\ verifying[v] # NoUse
    BY <1>3 DEF Attest
  <2>2. \A w \in Visits : w \in overtaken' => w # v /\ (w \in overtaken \/ w = pending[AccountOf[v]])
    BY <1>0, <2>1
  <2>3. \A w \in Visits : w = pending[AccountOf[v]] => Provisional(w)
    BY <1>0 DEF Owned
  <2>4. \A w \in Visits \ {v} : Provisional(w)' => Provisional(w) /\ w \notin overtaken'
    BY <1>0, <2>1 DEF Owned
  <2>5. \A w \in Visits \ {v} : verifying'[w] = verifying[w] /\ attested'[w] = attested[w]
    BY <2>1
  <2>6. /\ ~Verifying(v)' /\ Attested(v)' /\ attested'[v].generation = verifying[v].generation
        /\ v \notin swept \cup overtaken
    BY <2>1
  <2> QED BY <2>1, <2>2, <2>3, <2>4, <2>5, <2>6
<1>4. ASSUME NEW a \in Accounts, ArchiveOpen(a) PROVE Course'
  BY <1>0, <1>4 DEF ArchiveOpen
<1>5. ASSUME NEW stale \in SUBSET Visits, ReleaseStale(stale) PROVE Course'
  <2>1. /\ UNCHANGED <<session, verifying, attested, overtaken, interrupted, wipes>>
        /\ \A v \in Visits : Provisional(v)' => Provisional(v) /\ v \notin stale
        /\ swept' = swept \cup stale /\ \A v \in stale : Provisional(v)
    BY <1>0, <1>5 DEF ReleaseStale
  <2> QED BY <2>1
<1>6. ASSUME FlushStores PROVE Course'
  BY <1>6 DEF FlushStores
<1>7. ASSUME Restart PROVE Course'
  BY <1>0, <1>7 DEF Restart
<1>8. ASSUME Wipe PROVE Course'
  <2>1. \A v \in Visits : HumanOf[v] \notin interrupted' => verifying[v] = NoUse
    BY <1>8 DEF Wipe
  <2>2. /\ UNCHANGED <<session, verifying, attested, swept, overtaken>> /\ wipes' = wipes + 1
        /\ \A v \in Visits : ~Provisional(v)'
    BY <1>0, <1>8 DEF Wipe
  <2>3. \A v \in Visits : verifying[v].generation \in Nat /\ attested[v].generation \in Nat
    BY DEF Uses, NoUse
  <2> QED BY <2>1, <2>2, <2>3
<1> QED BY <1>1, <1>2, <1>3, <1>4, <1>5, <1>6, <1>7, <1>8 DEF AttesterNext

LEMMA SettlesStep ==
  ASSUME AttesterConstants, AttesterTypes, Course, Owned, Settles, AttesterNext PROVE Settles'
<1> USE DEF AttesterTypes, Course, Verifying, Attested, Provisional, Settles, Settled, Kept
<1>0. \A v \in Visits : AccountOf[v] \in Accounts /\ v # None
  BY DEF Accounts, AttesterConstants
<1>1. ASSUME NEW v \in Visits, Challenge(v) PROVE Settles'
  BY <1>1 DEF Challenge
<1>2. ASSUME NEW v \in Visits, NEW n \in Names, Verify(v, n) PROVE Settles'
  BY <1>2 DEF Verify
<1>3. ASSUME NEW v \in Visits, Attest(v) PROVE Settles'
  <2>1. /\ UNCHANGED <<swept, opened, restarts, wipes>>
        /\ pending' = [pending EXCEPT ![AccountOf[v]] = v]
        /\ attested' = [attested EXCEPT ![v] = verifying[v]]
        /\ overtaken' = overtaken \cup ({pending[AccountOf[v]]} \ {None})
    BY <1>3 DEF Attest
  <2>2. ASSUME NEW w \in Visits, Settled(w)' PROVE Settled(w)
    <3>1. w # v
      BY <1>0, <2>1, <2>2
    <3>2. pending[AccountOf[w]] # w
      BY <1>0, <2>1, <2>2, <3>1
    <3> QED BY <2>1, <2>2, <3>1, <3>2
  <2> HIDE DEF Settled
  <2> QED BY <2>1, <2>2
<1>4. ASSUME NEW a \in Accounts, ArchiveOpen(a) PROVE Settles'
  <2>1. /\ UNCHANGED <<attested, swept, overtaken, restarts, wipes>> /\ a \notin opened
        /\ opened' = opened \cup {a} /\ pending' = [pending EXCEPT ![a] = None]
    BY <1>4 DEF ArchiveOpen
  <2>2. \A w \in Visits : Settled(w)' => Settled(w) \/ (AccountOf[w] = a /\ pending[a] = w)
    BY <1>0, <2>1
  <2> HIDE DEF Settled
  <2> QED BY <2>1, <2>2
<1>5. ASSUME NEW stale \in SUBSET Visits, ReleaseStale(stale) PROVE Settles'
  <2>1. /\ UNCHANGED <<opened, attested, overtaken, restarts, wipes>>
        /\ pending' = [a \in Accounts |-> IF pending[a] \in stale THEN None ELSE pending[a]]
        /\ swept' = swept \cup stale
    BY <1>5 DEF ReleaseStale
  <2>2. \A w \in Visits : Settled(w)' => Settled(w)
    BY <1>0, <2>1
  <2> HIDE DEF Settled
  <2> QED BY <2>1, <2>2
<1>6. ASSUME FlushStores PROVE Settles'
  BY <1>6 DEF FlushStores
<1>7. ASSUME Restart PROVE Settles'
  BY <1>7 DEF Restart
<1>8. ASSUME Wipe PROVE Settles'
  <2>1. \A v \in Visits : attested[v].generation \in Nat
    BY DEF Uses, NoUse
  <2>2. \A v \in Visits : ~Settled(v)'
    BY <1>8, <2>1 DEF Wipe
  <2> HIDE DEF Settled
  <2> QED BY <2>2
<1> QED BY <1>1, <1>2, <1>3, <1>4, <1>5, <1>6, <1>7, <1>8 DEF AttesterNext

-----------------------------------------------------------------------------
(* The attester: the slots of a human, counted. *)

Of(h) == {v \in Visits : HumanOf[v] = h}

\* The uses of this generation that were not given back, with and without
\* those of visits that are being verified.
KeptOf(h) == {v \in Of(h) : Kept(v)}
Holding(h) == KeptOf(h) \cup {v \in Of(h) : Verifying(v)}

\* Those that count in this generation.
Current(h) == KeptOf(h) \cup {v \in Of(h) : Verifying(v) /\ verifying[v].generation = wipes}

CountsHold ==
  \A h \in Humans \ interrupted :
    count[h] >= Cardinality(Holding(h)) /\ disk.count[h] >= Cardinality(KeptOf(h))
CountsDue == restarts = 0 => \A h \in Humans : count[h] <= Cardinality(Current(h))

AttesterInv == AttesterTypes /\ Course /\ Owned /\ Settles /\ CountsHold /\ CountsDue

LEMMA OfFinite ==
  ASSUME AttesterConstants, NEW h, NEW S, S \subseteq Of(h)
  PROVE  IsFiniteSet(S) /\ Cardinality(S) \in Nat
BY FS_Subset, FS_CardinalityType DEF AttesterConstants, Of

LEMMA FewerOf ==
  ASSUME AttesterConstants, NEW h, NEW S, NEW T, S \subseteq T, T \subseteq Of(h)
  PROVE  Cardinality(S) <= Cardinality(T) /\ Cardinality(S) \in Nat /\ Cardinality(T) \in Nat
BY OfFinite, FS_Subset

\* Numbers: what n slots less b are to the m visits less the k among the b.
LEMMA TakenAway ==
  ASSUME NEW n \in Nat, NEW m \in Nat, NEW b \in Nat, NEW k \in Nat, k <= b,
         NEW r, r = IF n > b THEN n - b ELSE 0, m - k \in Nat
  PROVE  /\ n >= m /\ k = b => r >= m - k
         /\ n <= m => r <= m - k
OBVIOUS

\* What a sweep leaves to a human, in memory and of a set of visits.
LEMMA ReleasedFrom ==
  ASSUME AttesterConstants, AttesterTypes, NEW stale \in SUBSET Visits, NEW h \in Humans,
         NEW S \in SUBSET Of(h)
  PROVE  LET T == S \ stale IN
         /\ (stale \cap Of(h) \subseteq S /\ count[h] >= Cardinality(S)) => Released(h, stale) >= Cardinality(T)
         /\ count[h] <= Cardinality(S) => Released(h, stale) <= Cardinality(T)
<1> DEFINE B == {v \in stale : HumanOf[v] = h}
<1>1. /\ B \subseteq Of(h) /\ S \cap B \subseteq B /\ S \ B = S \ stale /\ S \subseteq Of(h)
      /\ stale \cap Of(h) \subseteq S => S \cap B = B
  BY DEF Of
<1>2. /\ IsFiniteSet(S) /\ Cardinality(S) \in Nat /\ Cardinality(B) \in Nat
      /\ Cardinality(S \cap B) <= Cardinality(B) /\ Cardinality(S \cap B) \in Nat
      /\ Cardinality(S \ B) \in Nat
  <2> HIDE DEF B
  <2>1. S \ B \subseteq Of(h)
    BY <1>1
  <2> QED BY <1>1, <2>1, OfFinite, FewerOf
<1>3. Cardinality(S \ B) = Cardinality(S) - Cardinality(S \cap B)
  BY <1>2, FS_Difference
<1>4. count[h] \in Nat
  BY DEF AttesterTypes, AttesterConstants
<1>5. Released(h, stale) = IF count[h] > Cardinality(B) THEN count[h] - Cardinality(B) ELSE 0
  BY DEF Released
<1> HIDE DEF B
<1>6. ASSUME stale \cap Of(h) \subseteq S, count[h] >= Cardinality(S)
      PROVE  Released(h, stale) >= Cardinality(S \ B)
  <2>1. Cardinality(S \ B) = Cardinality(S) - Cardinality(B)
    BY <1>1, <1>3, <1>6
  <2> QED BY <1>2, <1>4, <1>5, <1>6, <2>1, TakenAway
<1>7. ASSUME count[h] <= Cardinality(S)
      PROVE  Released(h, stale) <= Cardinality(S \ B)
  BY <1>2, <1>3, <1>4, <1>5, <1>7, TakenAway
<1> QED BY <1>1, <1>6, <1>7

\* Steps that keep the counts as they are may only give a human fewer visits
\* to hold, and more that are due.
LEMMA CountsKept ==
  ASSUME AttesterConstants, CountsHold, CountsDue, AttesterTypes, AttesterTypes',
         UNCHANGED <<count, restarts, interrupted>>,
         \A h \in Humans : disk'.count[h] = disk.count[h] \/ disk'.count[h] = count[h],
         \A h \in Humans \ interrupted : Holding(h)' \subseteq Holding(h) /\
               (KeptOf(h)' \subseteq KeptOf(h) \/ disk'.count[h] = count[h]),
         \A h \in Humans : Current(h) \subseteq Current(h)'
  PROVE  CountsHold' /\ CountsDue'
<1>1. \A h : Holding(h) \subseteq Of(h) /\ Holding(h)' \subseteq Of(h) /\ KeptOf(h) \subseteq Holding(h)
             /\ KeptOf(h)' \subseteq Holding(h)' /\ KeptOf(h) \subseteq Of(h)
             /\ Current(h)' \subseteq Of(h)
  BY DEF Holding, KeptOf, Kept, Current, Of
<1>2. \A h \in Humans : count[h] \in Nat /\ disk.count[h] \in Nat
  BY DEF AttesterTypes, DiskTyped, AttesterConstants
<1>3. CountsDue'
  <2> SUFFICES ASSUME restarts = 0, NEW h \in Humans PROVE count'[h] <= Cardinality(Current(h))'
    BY DEF CountsDue
  <2>1. Cardinality(Current(h)) <= Cardinality(Current(h)') /\ Cardinality(Current(h)) \in Nat
        /\ Cardinality(Current(h)') \in Nat
    BY <1>1, FewerOf
  <2>2. count[h] <= Cardinality(Current(h)) /\ count'[h] = count[h]
    BY DEF CountsDue
  <2> QED BY <1>2, <2>1, <2>2
<1>4. CountsHold'
  <2> SUFFICES ASSUME NEW h \in Humans \ interrupted
               PROVE  count'[h] >= Cardinality(Holding(h)') /\ disk'.count[h] >= Cardinality(KeptOf(h)')
    BY DEF CountsHold
  <2>1. count[h] >= Cardinality(Holding(h)) /\ disk.count[h] >= Cardinality(KeptOf(h))
    BY DEF CountsHold
  <2>2. Cardinality(Holding(h)') <= Cardinality(Holding(h)) /\ Cardinality(Holding(h)) \in Nat
        /\ Cardinality(Holding(h)') \in Nat
    BY <1>1, FewerOf
  <2>3. Cardinality(KeptOf(h)') <= Cardinality(Holding(h)) /\ Cardinality(KeptOf(h)') \in Nat
    <3>1. KeptOf(h)' \subseteq Holding(h)
      BY <1>1
    <3> QED BY <1>1, <3>1, FewerOf
  <2>4. KeptOf(h)' \subseteq KeptOf(h) => Cardinality(KeptOf(h)') <= Cardinality(KeptOf(h)) /\ Cardinality(KeptOf(h)) \in Nat
    BY <1>1, FewerOf
  <2> QED BY <1>2, <2>1, <2>2, <2>3, <2>4
<1> QED BY <1>3, <1>4

LEMMA CountsStepQuiet ==
  ASSUME AttesterConstants, AttesterInv, AttesterTypes',
         (\E v \in Visits : Challenge(v) \/ Attest(v)) \/ (\E a \in Accounts : ArchiveOpen(a)) \/ FlushStores
  PROVE  CountsHold' /\ CountsDue'
<1> USE DEF AttesterInv
<1> USE DEF Holding, KeptOf, Kept, Current, Of, Verifying, Attested
<1>1. ASSUME NEW v \in Visits, Challenge(v) PROVE CountsHold' /\ CountsDue'
  <2>1. UNCHANGED <<count, restarts, interrupted, disk, verifying, attested, swept, wipes>>
    BY <1>1 DEF Challenge
  <2>2. \A h : Holding(h)' = Holding(h) /\ KeptOf(h)' = KeptOf(h) /\ Current(h)' = Current(h)
    BY <2>1
  <2> HIDE DEF Holding, KeptOf, Current
  <2> QED BY <2>1, <2>2, CountsKept
<1>2. CASE FlushStores
  <2>1. UNCHANGED <<count, restarts, interrupted, verifying, attested, swept, wipes>>
        /\ disk'.count = disk.count
    BY <1>2 DEF FlushStores, AttesterTypes, DiskTyped
  <2>2. \A h : Holding(h)' = Holding(h) /\ KeptOf(h)' = KeptOf(h) /\ Current(h)' = Current(h)
    BY <2>1
  <2> HIDE DEF Holding, KeptOf, Current
  <2> QED BY <2>1, <2>2, CountsKept
<1>3. ASSUME NEW a \in Accounts, ArchiveOpen(a) PROVE CountsHold' /\ CountsDue'
  <2>1. UNCHANGED <<count, restarts, interrupted, disk, verifying, attested, swept, wipes>>
    BY <1>3 DEF ArchiveOpen
  <2>2. \A h : Holding(h)' = Holding(h) /\ KeptOf(h)' = KeptOf(h) /\ Current(h)' = Current(h)
    BY <2>1
  <2> HIDE DEF Holding, KeptOf, Current
  <2> QED BY <2>1, <2>2, CountsKept
<1>4. ASSUME NEW v \in Visits, Attest(v) PROVE CountsHold' /\ CountsDue'
  <2>1. /\ UNCHANGED <<count, restarts, interrupted, swept, wipes>>
        /\ verifying' = [verifying EXCEPT ![v] = NoUse]
        /\ attested' = [attested EXCEPT ![v] = verifying[v]]
        /\ disk'.count = count
    BY <1>4 DEF Attest, AttesterTypes, DiskTyped
  <2>2. verifying[v] # NoUse /\ v \notin swept
    BY <1>4 DEF Attest, Course
  <2>3. \A h : Holding(h)' \subseteq Holding(h) /\ Current(h) \subseteq Current(h)'
    BY <2>1, <2>2 DEF Course, AttesterTypes
  <2> HIDE DEF Holding, KeptOf, Current
  <2> QED BY <2>1, <2>3, CountsKept
<1> QED BY <1>1, <1>2, <1>3, <1>4

LEMMA CountsStepVerify ==
  ASSUME AttesterConstants, AttesterInv, AttesterTypes', NEW v \in Visits, NEW n \in Names, Verify(v, n)
  PROVE  CountsHold' /\ CountsDue'
<1> DEFINE g == HumanOf[v]
<1>1. /\ UNCHANGED <<pending, opened, disk, attested, swept, interrupted, restarts, wipes>>
      /\ session[v] = "issued" /\ g \in Humans
      /\ count' = [count EXCEPT ![g] = @ + 1]
      /\ verifying' = [verifying EXCEPT ![v] = [name |-> n, index |-> count[g], generation |-> wipes]]
  BY DEF Verify, Humans
<1>2. ~Verifying(v) /\ ~Attested(v)
  BY <1>1 DEF AttesterInv, Course
<1>3. Verifying(v)' /\ verifying'[v].generation = wipes
  <2>1. [name |-> n, index |-> count[g], generation |-> wipes] # NoUse
    BY DEF AttesterConstants, NoUse
  <2> QED BY <1>1, <2>1 DEF Verifying, AttesterInv, AttesterTypes
<1>4. \A w \in Visits : w # v => verifying'[w] = verifying[w]
  BY <1>1 DEF AttesterInv, AttesterTypes
<1> HIDE DEF g
<1>5. \A h : KeptOf(h)' = KeptOf(h) /\ KeptOf(h) \subseteq Of(h)
  BY <1>1 DEF KeptOf, Kept, Of, Attested
<1>6. \A h : Holding(h) \subseteq Of(h) /\ Current(h) \subseteq Of(h) /\ v \notin Holding(h) /\ v \notin Current(h)
  BY <1>2 DEF Holding, KeptOf, Kept, Current, Of, Attested
<1>7. Holding(g)' = Holding(g) \cup {v} /\ Current(g)' = Current(g) \cup {v}
  BY <1>1, <1>2, <1>3, <1>4 DEF Holding, KeptOf, Kept, Current, Of, Verifying, Attested, g
<1>8. \A h : h # g => Holding(h)' = Holding(h) /\ Current(h)' = Current(h)
  BY <1>1, <1>4 DEF Holding, KeptOf, Kept, Current, Of, Verifying, Attested, g
<1>9. /\ Cardinality(Holding(g)') = Cardinality(Holding(g)) + 1
      /\ Cardinality(Current(g)') = Cardinality(Current(g)) + 1
  <2>1. IsFiniteSet(Holding(g)) /\ IsFiniteSet(Current(g))
    BY <1>6, OfFinite
  <2> QED BY <1>6, <1>7, <2>1, FS_AddElement
<1>10. \A h \in Humans : count[h] \in Nat /\ Cardinality(Holding(h)) \in Nat /\ Cardinality(Current(h)) \in Nat
                          /\ count'[h] = IF h = g THEN count[h] + 1 ELSE count[h]
  <2>1. \A h \in Humans : count[h] \in Nat /\ count'[h] = IF h = g THEN count[h] + 1 ELSE count[h]
    BY <1>1 DEF AttesterInv, AttesterTypes, AttesterConstants
  <2>2. \A h \in Humans : Cardinality(Holding(h)) \in Nat /\ Cardinality(Current(h)) \in Nat
    BY <1>6, OfFinite
  <2> QED BY <2>1, <2>2
<1>11. CountsHold'
  BY <1>1, <1>5, <1>8, <1>9, <1>10 DEF CountsHold, AttesterInv
<1>12. CountsDue'
  BY <1>1, <1>8, <1>9, <1>10 DEF CountsDue, AttesterInv
<1> QED BY <1>11, <1>12

LEMMA CountsStepReleaseStale ==
  ASSUME AttesterConstants, AttesterInv, AttesterTypes', NEW stale \in SUBSET Visits, ReleaseStale(stale)
  PROVE  CountsHold' /\ CountsDue'
<1>1. /\ UNCHANGED <<verifying, attested, interrupted, restarts, wipes>>
      /\ \A v \in stale : Provisional(v)
      /\ count' = [h \in Humans |-> Released(h, stale)] /\ disk'.count = count'
      /\ swept' = swept \cup stale
  BY DEF ReleaseStale, AttesterInv, AttesterTypes, DiskTyped, Provisional
<1>2. \A v \in stale : Attested(v) /\ ~Verifying(v) /\ v \notin swept
                     /\ (HumanOf[v] \notin interrupted => attested[v].generation = wipes)
  BY <1>1 DEF AttesterInv, Course
<1>3. \A h : /\ KeptOf(h)' = KeptOf(h) \ stale /\ Holding(h)' = Holding(h) \ stale
              /\ Current(h)' = Current(h) \ stale
  BY <1>1, <1>2 DEF Holding, KeptOf, Kept, Current, Of, Verifying, Attested
<1>4. \A h \in Humans : h \notin interrupted => stale \cap Of(h) \subseteq Holding(h)
  BY <1>2 DEF Holding, KeptOf, Kept, Of, Attested
<1>5. \A h : KeptOf(h) \subseteq Holding(h) /\ Holding(h) \subseteq Of(h) /\ Current(h) \subseteq Of(h)
  BY DEF Holding, KeptOf, Kept, Current, Of
<1>6. AttesterTypes /\ CountsHold /\ CountsDue
  BY DEF AttesterInv
<1>7. CountsHold'
  <2> SUFFICES ASSUME NEW h \in Humans \ interrupted
               PROVE  count'[h] >= Cardinality(Holding(h)') /\ disk'.count[h] >= Cardinality(KeptOf(h)')
    BY <1>1 DEF CountsHold
  <2>1. Released(h, stale) >= Cardinality(Holding(h) \ stale)
    BY <1>4, <1>5, <1>6, ReleasedFrom DEF CountsHold
  <2>2. Cardinality(KeptOf(h) \ stale) <= Cardinality(Holding(h) \ stale)
        /\ Cardinality(KeptOf(h) \ stale) \in Nat /\ Cardinality(Holding(h) \ stale) \in Nat
    <3>1. KeptOf(h) \ stale \subseteq Holding(h) \ stale /\ Holding(h) \ stale \subseteq Of(h)
      BY <1>5
    <3> QED BY <3>1, FewerOf
  <2>3. Released(h, stale) \in Nat
    BY <1>6, ReleasedTyped DEF AttesterConstants
  <2> QED BY <1>1, <1>3, <2>1, <2>2, <2>3
<1>8. CountsDue'
  <2> SUFFICES ASSUME restarts = 0, NEW h \in Humans PROVE count'[h] <= Cardinality(Current(h)')
    BY <1>1 DEF CountsDue
  <2>1. Released(h, stale) <= Cardinality(Current(h) \ stale)
    BY <1>5, <1>6, ReleasedFrom DEF CountsDue
  <2> QED BY <1>1, <1>3, <2>1
<1> QED BY <1>7, <1>8

LEMMA CountsStepRestart ==
  ASSUME AttesterConstants, AttesterInv, AttesterTypes', Restart PROVE CountsHold' /\ CountsDue'
<1>1. /\ restarts' = restarts + 1 /\ count' = disk.count /\ disk' = disk
      /\ UNCHANGED <<attested, swept, interrupted, wipes>> /\ verifying' = [v \in Visits |-> NoUse]
  BY DEF Restart
<1>2. restarts' # 0
  BY <1>1 DEF AttesterInv, AttesterTypes
<1>3. \A h : Holding(h)' = KeptOf(h) /\ KeptOf(h)' = KeptOf(h)
  BY <1>1 DEF Holding, KeptOf, Kept, Of, Verifying, Attested
<1> QED BY <1>1, <1>2, <1>3 DEF CountsHold, CountsDue, AttesterInv

LEMMA CountsStepWipe ==
  ASSUME AttesterConstants, AttesterInv, AttesterTypes', Wipe PROVE CountsHold' /\ CountsDue'
<1>1. /\ wipes' = wipes + 1 /\ count' = [h \in Humans |-> 0] /\ disk'.count = count'
      /\ UNCHANGED <<verifying, attested, swept, restarts>>
      /\ \A v \in Visits : HumanOf[v] \notin interrupted' => ~Verifying(v)
  BY DEF Wipe, AttesterInv, AttesterTypes, DiskTyped, Verifying
<1>2. \A h \in Humans : h \notin interrupted' => Holding(h)' = {} /\ KeptOf(h)' = {}
  <2>1. wipes \in Nat /\ \A v \in Visits : attested[v].generation \in Nat
    BY DEF AttesterInv, AttesterTypes, Uses, NoUse
  <2>2. \A v \in Visits : ~(Attested(v)' /\ attested'[v].generation = wipes')
    BY <1>1, <2>1 DEF AttesterInv, Course, Attested
  <2> QED BY <1>1, <2>2 DEF Holding, KeptOf, Kept, Of, Verifying, Attested
<1>3. CountsHold'
  BY <1>1, <1>2, FS_EmptySet DEF CountsHold
<1>4. CountsDue'
  <2> SUFFICES ASSUME NEW h \in Humans PROVE count'[h] <= Cardinality(Current(h)')
    BY DEF CountsDue
  <2>1. Current(h)' \subseteq Of(h)
    BY DEF Current, KeptOf, Of
  <2>2. Cardinality(Current(h)') \in Nat
    BY <2>1, OfFinite
  <2> QED BY <1>1, <2>2
<1> QED BY <1>3, <1>4

LEMMA AttesterInit_Inv == ASSUME AttesterConstants, AttesterInit PROVE AttesterInv
<1>1. AttesterTypes /\ Course /\ Owned /\ Settles
  BY AttesterTypesInit
<1>2. \A h \in Humans : count[h] = 0 /\ disk.count[h] = 0
  BY DEF AttesterInit
<1>3. \A h : Holding(h) = {} /\ KeptOf(h) = {} /\ Current(h) \subseteq Of(h)
  BY DEF AttesterInit, Holding, KeptOf, Kept, Current, Of, Verifying, Attested
<1>4. \A h : Cardinality(Current(h)) \in Nat
  BY <1>3, OfFinite
<1>5. CountsHold /\ CountsDue
  BY <1>2, <1>3, <1>4, FS_EmptySet DEF CountsHold, CountsDue
<1> QED BY <1>1, <1>5 DEF AttesterInv

LEMMA AttesterStep ==
  ASSUME AttesterConstants, AttesterInv, [AttesterNext]_attVars PROVE AttesterInv'
<1>1. CASE AttesterNext
  <2>1. AttesterTypes' /\ Course' /\ Owned' /\ Settles'
    BY <1>1, AttesterTypesStep, CourseStep, OwnedStep, SettlesStep DEF AttesterInv
  <2>2. (\E v \in Visits : Challenge(v) \/ Attest(v)) \/ (\E a \in Accounts : ArchiveOpen(a)) \/ FlushStores
          => CountsHold' /\ CountsDue'
    BY <2>1, CountsStepQuiet
  <2>3. ASSUME NEW v \in Visits, NEW n \in Names, Verify(v, n) PROVE CountsHold' /\ CountsDue'
    BY <2>1, <2>3, CountsStepVerify
  <2>4. ASSUME NEW stale \in SUBSET Visits, ReleaseStale(stale) PROVE CountsHold' /\ CountsDue'
    BY <2>1, <2>4, CountsStepReleaseStale
  <2>5. (Restart \/ Wipe) => CountsHold' /\ CountsDue'
    BY <2>1, CountsStepRestart, CountsStepWipe
  <2>6. CountsHold' /\ CountsDue'
    BY <1>1, <2>2, <2>3, <2>4, <2>5 DEF AttesterNext
  <2> QED BY <2>1, <2>6 DEF AttesterInv
<1>2. CASE UNCHANGED attVars
  <2>1. UNCHANGED <<count, session, verifying, pending, registry, opened, operators, disk,
                    attested, swept, overtaken, interrupted, restarts, wipes>>
    BY <1>2 DEF attVars
  <2>2. \A h : Holding(h)' = Holding(h) /\ KeptOf(h)' = KeptOf(h) /\ Current(h)' = Current(h)
    BY <2>1 DEF Holding, KeptOf, Kept, Current, Of, Verifying, Attested
  <2>3. CountsHold' /\ CountsDue'
    BY <2>1, <2>2 DEF AttesterInv, CountsHold, CountsDue
  <2>4. AttesterTypes' /\ Course' /\ Owned' /\ Settles'
    BY <2>1 DEF AttesterInv, AttesterTypes, DiskTyped, Course, Verifying, Attested, Provisional, Owned,
                Settles, Settled, Kept
  <2> QED BY <2>3, <2>4 DEF AttesterInv
<1> QED BY <1>1, <1>2

LEMMA AttesterInvHolds ==
  ASSUME AttesterConstants, AttesterInv
  PROVE  AttesterTypeOK /\ SlotsHeld /\ NoSlotBurnt
<1> USE DEF AttesterInv
<1> DEFINE Late(h) == {v \in overtaken : HumanOf[v] = h}
<1>1. AttesterTypeOK
  BY DEF AttesterTypes, DiskTyped, AttesterTypeOK, Sessions
<1>2. \A h : /\ Using(h) \cup Late(h) \subseteq Of(h) /\ Using(h) \subseteq Of(h) /\ Holding(h) \subseteq Of(h)
             /\ h \notin interrupted => Using(h) \subseteq Holding(h)
  BY DEF Using, Holding, KeptOf, Kept, Of, Verifying, Attested, Provisional, Course, AttesterTypes
<1>3. restarts = 0 => \A h : Current(h) \subseteq Using(h) \cup Late(h)
  BY DEF Using, Current, KeptOf, Of, Verifying, Settles, Settled
<1>4. \A h \in Humans : count[h] \in Nat
  BY DEF AttesterTypes, AttesterConstants
<1>5. SlotsHeld
  <2> SUFFICES ASSUME NEW h \in Humans \ interrupted PROVE count[h] >= Cardinality(Using(h))
    BY DEF SlotsHeld
  <2>1. Cardinality(Using(h)) <= Cardinality(Holding(h)) /\ Cardinality(Using(h)) \in Nat
        /\ Cardinality(Holding(h)) \in Nat
    BY <1>2, FewerOf
  <2>2. count[h] >= Cardinality(Holding(h)) /\ count[h] \in Nat
    BY <1>4 DEF CountsHold
  <2> QED BY <2>1, <2>2
<1>6. ASSUME restarts = 0, NEW h \in Humans PROVE count[h] <= Cardinality(Using(h) \cup Late(h))
  <2>1. Cardinality(Current(h)) <= Cardinality(Using(h) \cup Late(h)) /\ Cardinality(Using(h) \cup Late(h)) \in Nat
        /\ Cardinality(Current(h)) \in Nat
    BY <1>2, <1>3, <1>6, FewerOf
  <2>2. count[h] <= Cardinality(Current(h)) /\ count[h] \in Nat
    BY <1>4, <1>6 DEF CountsDue
  <2> QED BY <2>1, <2>2
<1>7. NoSlotBurnt
  BY <1>6 DEF NoSlotBurnt, Settles
<1> QED BY <1>1, <1>5, <1>7

-----------------------------------------------------------------------------
(* The theorems of the attester.                                           *)

\* The inductive invariant holds, for any number of visits, accounts, humans
\* and slots, and however often the relay restarts and is wiped.
THEOREM AttesterSound == ASSUME AttesterConstants PROVE AttesterSpec => []AttesterInv
<1>1. AttesterInit => AttesterInv
  BY AttesterInit_Inv
<1>2. AttesterInv /\ [AttesterNext]_attVars => AttesterInv'
  BY AttesterStep
<1> QED BY <1>1, <1>2, PTL DEF AttesterSpec

\* The slot of an account whose open block is on its way or archived is not
\* given to somebody else (relay/server.ts verify, releaseStaleFaceUses).
THEOREM FacesHoldSlots == ASSUME AttesterConstants PROVE AttesterSpec => []SlotsHeld
<1>1. AttesterInv => SlotsHeld
  BY AttesterInvHolds
<1> QED BY <1>1, AttesterSound, PTL

\* Until a restart, a slot is in use for a visit that is under way, provisional
\* or of an open account, which has one; the exception are the visits that a
\* later verification of their account overtook (relay/server.ts 1815).
THEOREM FacesBurnNoSlot == ASSUME AttesterConstants PROVE AttesterSpec => []NoSlotBurnt
<1>1. AttesterInv => NoSlotBurnt
  BY AttesterInvHolds
<1> QED BY <1>1, AttesterSound, PTL

-----------------------------------------------------------------------------
(* Delegations.  What a parent signs is for another key of its own human;  *)
(* the registry keeps signed delegations only, so following one leads to a *)
(* key of the same human.                                                  *)

SubConstants == IsFiniteSet(Keys) /\ MaxTime \in Nat

\* NAME_RE matches no empty name.
CleanConstants == "" \notin Clean

SubInv ==
  /\ SubTypeOK /\ childrenOf \in [Keys -> SUBSET Keys]
  /\ \A d \in signed : d.parent # d.child /\ PersonOf[d.parent] = PersonOf[d.child]
  /\ DepthIsOne

\* The new entry of a child comes from its old parent, whose list has the child already.
LEMMA RegisterKeepsDepth ==
  ASSUME SubInv, NEW d \in signed, Register(d) PROVE DepthIsOne'
<1>1. /\ d.parent \in Keys /\ d.child \in Keys /\ d.parent # d.child
      /\ parentOf \subseteq Delegations /\ childrenOf \in [Keys -> SUBSET Keys]
  BY DEF SubInv, SubTypeOK, Delegations
<1>2. /\ \A e \in parentOf : e.child # d.parent
      /\ \A e \in parentOf : e.child = d.child => e.parent = d.parent
      /\ childrenOf[d.child] = {}
      /\ parentOf' = {e \in parentOf : e.child # d.child} \cup {d}
      /\ childrenOf' = [childrenOf EXCEPT ![d.parent] = @ \cup {d.child}]
  BY DEF Register, Accepts, DelegationOf
<1>3. \A e \in parentOf : e.parent # d.child
  BY <1>1, <1>2 DEF SubInv, DepthIsOne, Delegations
<1>4. \A e, f \in parentOf' : e.parent # f.child /\ (e.child = f.child => e = f)
  BY <1>1, <1>2, <1>3 DEF SubInv, DepthIsOne
<1>5. ASSUME NEW p \in Keys PROVE childrenOf'[p] = {f.child : f \in {e \in parentOf' : e.parent = p}}
  <2>1. childrenOf[p] = {f.child : f \in {e \in parentOf : e.parent = p}}
    BY DEF SubInv, DepthIsOne
  <2>2. CASE p = d.parent
    BY <1>1, <1>2, <2>1, <2>2
  <2>3. CASE p # d.parent
    BY <1>1, <1>2, <2>1, <2>3
  <2> QED BY <2>2, <2>3
<1> QED BY <1>4, <1>5 DEF DepthIsOne

LEMMA DropKeepsDepth ==
  ASSUME SubInv, NEW C, Drop(C)
  PROVE  DepthIsOne' /\ childrenOf' \in [Keys -> SUBSET Keys] /\ parentOf' \subseteq parentOf
<1>1. /\ parentOf' = {d \in parentOf : d.child \notin C}
      /\ childrenOf' = [k \in Keys |-> childrenOf[k] \ C]
  BY DEF Drop
<1>2. ASSUME NEW p \in Keys PROVE childrenOf'[p] = {f.child : f \in {e \in parentOf' : e.parent = p}}
  <2>1. childrenOf[p] = {f.child : f \in {e \in parentOf : e.parent = p}}
    BY DEF SubInv, DepthIsOne
  <2> QED BY <1>1, <2>1
<1> QED BY <1>1, <1>2 DEF SubInv, DepthIsOne

LEMMA SubInitInv == ASSUME SubConstants, SubInit PROVE SubInv
<1>1. now \in 0..MaxTime
  BY DEF SubInit, SubConstants
<1>2. SubTypeOK
  BY <1>1 DEF SubInit, SubTypeOK
<1>3. DepthIsOne
  BY DEF SubInit, DepthIsOne
<1> QED BY <1>2, <1>3 DEF SubInit, SubInv

LEMMA SubStep == ASSUME SubConstants, SubInv, [SubNext]_subVars PROVE SubInv'
<1>1. ASSUME NEW d \in signed, Register(d) PROVE SubInv'
  <2>1. d \in Delegations
    BY DEF SubInv, SubTypeOK
  <2>2. childrenOf' \in [Keys -> SUBSET Keys] /\ parentOf' \subseteq signed
    BY <1>1, <2>1 DEF SubInv, SubTypeOK, Register, Delegations
  <2> QED BY <1>1, <2>2, RegisterKeepsDepth DEF SubInv, SubTypeOK, Register, Delegations
<1>2. ASSUME NEW k \in Keys, Revoke(k) PROVE SubInv'
  BY <1>2, DropKeepsDepth DEF SubInv, SubTypeOK, Revoke, Delegations
<1>3. ASSUME Sweep PROVE SubInv'
  BY <1>3, DropKeepsDepth DEF SubInv, SubTypeOK, Sweep, Delegations
<1>4. ASSUME Sign PROVE SubInv'
  BY <1>4 DEF SubInv, SubTypeOK, Sign, Delegations, DepthIsOne
<1>5. ASSUME Tick PROVE SubInv'
  <2>1. now' \in 0..MaxTime
    <3>1. now \in 0..MaxTime /\ MaxTime \in Nat
      BY DEF SubInv, SubTypeOK, SubConstants
    <3>2. now < MaxTime /\ now' = now + 1
      BY <1>5 DEF Tick
    <3> QED BY <3>1, <3>2
  <2> QED BY <1>5, <2>1 DEF SubInv, SubTypeOK, Tick, Delegations, DepthIsOne
<1>6. ASSUME UNCHANGED subVars PROVE SubInv'
  BY <1>6 DEF SubInv, SubTypeOK, subVars, Delegations, DepthIsOne
<1> QED BY <1>1, <1>2, <1>3, <1>4, <1>5, <1>6 DEF SubNext

LEMMA RootIsOfThePerson ==
  ASSUME SubInv, NEW k \in Keys PROVE RootOf(k) \in Keys /\ PersonOf[RootOf(k)] = PersonOf[k]
<1>1. \A d \in DelegationOf(k) : d.parent \in Keys /\ PersonOf[d.parent] = PersonOf[k]
  BY DEF SubInv, SubTypeOK, Delegations, DelegationOf
<1>2. CASE \E d \in DelegationOf(k) : ~Expired(d)
  <2>1. (CHOOSE d \in DelegationOf(k) : TRUE) \in DelegationOf(k)
    BY <1>2
  <2> QED BY <1>1, <1>2, <2>1 DEF RootOf
<1>3. CASE ~\E d \in DelegationOf(k) : ~Expired(d)
  BY <1>3 DEF RootOf
<1> QED BY <1>2, <1>3

LEMMA KeysCountPeople == ASSUME SubConstants, SubInv PROVE NoHumanLost
<1> SUFFICES ASSUME NEW S \in SUBSET Keys
             PROVE  DistinctHumans(S) >= Cardinality({PersonOf[k] : k \in S})
  BY DEF NoHumanLost
<1> DEFINE R == {RootOf(k) : k \in S}
           P == {PersonOf[k] : k \in S}
           of == [r \in R |-> PersonOf[r]]
<1>1. R \subseteq Keys /\ P = {PersonOf[r] : r \in R}
  BY RootIsOfThePerson
<1>2. IsFiniteSet(R)
  BY <1>1, FS_Subset DEF SubConstants
<1> HIDE DEF R, P
<1>3. of \in Surjection(R, P)
  BY <1>1 DEF Surjection
<1>4. IsFiniteSet(P) /\ Cardinality(P) <= Cardinality(R)
  BY <1>2, <1>3, FS_Surjection
<1>5. Cardinality(P) \in Nat /\ Cardinality(R) \in Nat
  BY <1>2, <1>4, FS_CardinalityType
<1>6. Cardinality(R) >= Cardinality(P)
  BY <1>4, <1>5
<1> QED BY <1>6 DEF DistinctHumans, R, P

LEMMA NamesDoAgree == ASSUME CleanConstants PROVE NamesAgree
<1> SUFFICES ASSUME NEW r \in Parts, NEW l \in Parts
             PROVE  /\ SubAccountName(r, l) # <<>> => IsUnderRoot(SubAccountName(r, l), r)
                    /\ ~IsUnderRoot(<<r>>, r)
                    /\ \A x \in Parts : IsUnderRoot(<<r, l>>, x) => x = r /\ SubAccountName(r, l) = <<r, l>>
  BY DEF NamesAgree
<1>1. ParseName(<<r>>).label = ""
  BY DEF ParseName, NoName
<1>2. ParseName(<<r, l>>) = IF {r, l} \subseteq Clean THEN [root |-> r, label |-> l] ELSE NoName
  BY DEF ParseName
<1>3. {r, l} \subseteq Clean => l # "" /\ r # ""
  BY DEF CleanConstants
<1>4. NoName.label = "" /\ NoName.root = "" /\ [root |-> r, label |-> l].label = l /\ [root |-> r, label |-> l].root = r
  BY DEF NoName
<1>5. <<r, l>> # <<>>
  OBVIOUS
<1> QED BY <1>1, <1>2, <1>3, <1>4, <1>5 DEF IsUnderRoot, SubAccountName

-----------------------------------------------------------------------------
(* The theorems of the delegations.                                        *)

\* The registry keeps delegations that were signed, of depth one, and its two
\* maps in step, however they are presented, expire, are swept and revoked.
THEOREM SubAccountsSound == ASSUME SubConstants PROVE SubSpec => []SubInv
<1>1. SubInit => SubInv
  BY SubInitInv
<1>2. SubInv /\ [SubNext]_subVars => SubInv'
  BY SubStep
<1> QED BY <1>1, <1>2, PTL DEF SubSpec

\* No sub-account is the parent of another, and a key has one entry
\* (sub-accounts.ts register).
THEOREM DelegationDepthIsOne == ASSUME SubConstants PROVE SubSpec => []DepthIsOne
<1>1. SubInv => DepthIsOne
  BY DEF SubInv
<1> QED BY <1>1, SubAccountsSound, PTL

\* Counting roots never counts two humans as one (sub-accounts.ts rootOf, distinctHumans).
THEOREM DelegationHidesNoHuman == ASSUME SubConstants PROVE SubSpec => []NoHumanLost
<1>1. SubInv => NoHumanLost
  BY KeysCountPeople
<1> QED BY <1>1, SubAccountsSound, PTL

-----------------------------------------------------------------------------
(* The stores, and which of the variables are whose. *)

\* The content store of a browser.
CONSTANTS Roots, Contents, BlocksOf, LargeFiles, BigBlocks, PublicFiles, Peers, Nobody,
          Holdings, Priorities, Readers, MaxFallbacks, MaxParallel, MaxOps, MaxReads
VARIABLES hasOpfs, holds, fs, opfs, marks, index, groups, fallbacks, reads, lastServedBy,
          own, taken, delivered, ops, started
Smoke == INSTANCE SmokeStore WITH Parts <- BlocksOf

\* A version handed over in place of another.
CONSTANTS Holders, Old, New, OldRoot, Enough
VARIABLES owner, stage, held, mail, work, counted
Swap == INSTANCE Replacement

\* The block archive, and a store that is one file.
CONSTANTS Callers, Chunks, Releasable, Quota, HotWindow, MaxLength, MaxDrift, MaxStoreCrashes
VARIABLES stored, temporary, used, calls, length, hot, archived, raced, found, storeCrashes
Archive == INSTANCE BlockStore WITH
    MaxCrashes <- MaxStoreCrashes, disk <- stored, tmp <- temporary, crashes <- storeCrashes

CONSTANTS Writers, MaxVersion, Size, MaxFileCrashes
VARIABLES inMemory, saved, crowded, suspect, step, data, fd, tmp, file, bak, content, versions, fileCrashes
File == INSTANCE AtomicFile WITH MaxCrashes <- MaxFileCrashes, mem <- inMemory, crashes <- fileCrashes

-----------------------------------------------------------------------------
(* A replacement. *)

\* What a handler that fetches still lacks of the new blocks is what it has
\* left to fetch: no deletion takes a block that is new.
Works == [do : {"idle", "swap", "delete", "fetch"}, left : SUBSET (Old \cup New)]
SwapInv ==
  /\ held \in [Holders -> SUBSET (Old \cup New)] /\ counted \subseteq Holders
  /\ work \in [{"replace", "cache"} \X Holders -> Works]
  /\ \A w \in {"replace", "cache"} \X Holders :
       work[w].do = "fetch" => New \ Old \subseteq held[w[2]] \cup work[w].left
  /\ Swap!CountedHoldTheNew

LEMMA WorkWith ==
  ASSUME NEW x \in Works, NEW S PROVE [x EXCEPT !.left = S] = [do |-> x.do, left |-> S]
BY DEF Works

LEMMA SwapInitInv == ASSUME Swap!ReplaceInit PROVE SwapInv
BY DEF Swap!ReplaceInit, SwapInv, Works, Swap!Idle, Swap!Handlers, Swap!CountedHoldTheNew

LEMMA SwapStep == ASSUME SwapInv, [Swap!ReplaceNext]_Swap!replaceVars PROVE SwapInv'
<1> USE DEF SwapInv, Works, Swap!Idle, Swap!Handlers, Swap!CountedHoldTheNew
<1>1. CASE UNCHANGED <<held, work, counted>>
  BY <1>1
<1>2. ASSUME NEW h \in Holders, Swap!ReplaceArrives(h) PROVE SwapInv'
  BY <1>2 DEF Swap!ReplaceArrives
<1>3. ASSUME NEW h \in Holders, NEW b \in Old, Swap!DeleteBlock(h, b) PROVE SwapInv'
  <2> DEFINE w == work[<<"replace", h>>]
             x == IF w.left # {b} THEN [do |-> w.do, left |-> w.left \ {b}]
                  ELSE IF w.do = "swap" THEN [do |-> "fetch", left |-> New] ELSE Swap!Idle
  <2>0. w \in Works
    OBVIOUS
  <2>1. /\ held' = [held EXCEPT ![h] = @ \ {b}] /\ counted' = counted /\ w.do \in {"swap", "delete"}
        /\ work' = [work EXCEPT ![<<"replace", h>>] = x]
    <3>1. [w EXCEPT !.left = @ \ {b}] = [do |-> w.do, left |-> w.left \ {b}]
      BY <2>0, WorkWith
    <3> QED BY <1>3, <3>1 DEF Swap!DeleteBlock
  <2>2. x \in Works /\ (x.do = "fetch" => x.left = New)
    BY <2>0, <2>1
  <2> HIDE DEF x, w
  <2>3. \A g \in Holders : held'[g] \subseteq Old \cup New /\ held[g] \ Old \subseteq held'[g]
    BY <2>1
  <2> QED BY <2>1, <2>2, <2>3
<1>4. ASSUME NEW h \in Holders, Swap!CacheArrives(h) PROVE SwapInv'
  BY <1>4 DEF Swap!CacheArrives
<1>5. ASSUME NEW w \in Swap!Handlers, NEW h \in Holders, NEW b \in New, Swap!Fetch(w, h, b) PROVE SwapInv'
  <2>1. /\ w[2] = h /\ work[w].do = "fetch" /\ held' = [held EXCEPT ![h] = @ \cup {b}]
        /\ work' = [work EXCEPT ![w] = IF work[w].left = {b} THEN Swap!Idle ELSE [do |-> "fetch", left |-> work[w].left \ {b}]]
        /\ counted' = IF work[w].left = {b} THEN counted \cup {h} ELSE counted
    BY <1>5 DEF Swap!Fetch, Swap!Cached
  <2>2. /\ held' \in [Holders -> SUBSET (Old \cup New)] /\ counted' \subseteq Holders
        /\ work' \in [{"replace", "cache"} \X Holders -> Works]
    BY <2>1
  <2>3. \A g \in Holders : held[g] \subseteq held'[g]
    BY <2>1
  <2>4. \A v \in {"replace", "cache"} \X Holders :
          work'[v].do = "fetch" => New \ Old \subseteq held'[v[2]] \cup work'[v].left
    <3> SUFFICES ASSUME NEW v \in {"replace", "cache"} \X Holders, work'[v].do = "fetch"
                 PROVE  New \ Old \subseteq held'[v[2]] \cup work'[v].left
      OBVIOUS
    <3>1. v[2] \in Holders
      OBVIOUS
    <3>2. CASE v = w
      BY <2>1, <3>1, <3>2
    <3>3. CASE v # w
      BY <2>1, <2>3, <3>1, <3>3
    <3> QED BY <3>2, <3>3
  <2>5. \A g \in counted' : New \ Old \subseteq held'[g]
    BY <2>1, <2>3
  <2> QED BY <2>2, <2>4, <2>5
<1>6. ASSUME NEW w \in Swap!Handlers, NEW h \in Holders, NEW b \in New, Swap!FetchFails(w, h, b) PROVE SwapInv'
  BY <1>6 DEF Swap!FetchFails, Swap!Failed
<1> QED BY <1>1, <1>2, <1>3, <1>4, <1>5, <1>6
        DEF Swap!ReplaceNext, Swap!replaceVars, Swap!StoreNew, Swap!OwnerDeletes, Swap!Publish, Swap!Lost, Swap!Release

LEMMA CountedHold == ASSUME SwapInv PROVE Swap!CountedHoldTheNew
BY DEF SwapInv

\* A holder that is counted for the new version has what is new in it.
THEOREM ReplacedInFull == Swap!ReplaceSpec => []Swap!CountedHoldTheNew
<1>1. Swap!ReplaceInit => SwapInv
  BY SwapInitInv
<1>2. SwapInv /\ [Swap!ReplaceNext]_Swap!replaceVars => SwapInv'
  BY SwapStep
<1>3. SwapInv => Swap!CountedHoldTheNew
  BY CountedHold
<1> QED BY <1>1, <1>2, <1>3, PTL DEF Swap!ReplaceSpec

-----------------------------------------------------------------------------
(* A store that is one file. *)

FileConstants == IsFiniteSet(Writers)

Steps == {"idle", "started", "opened", "written", "backed"}
Open == {"opened", "written", "backed"}
FileTypes ==
  /\ inMemory \in Nat /\ saved \in Nat /\ versions \in Nat
  /\ crowded \subseteq Writers /\ suspect \in BOOLEAN
  /\ step \in [Writers -> Steps] /\ data \in [Writers -> Nat]
  /\ fd \in [Writers -> File!Inodes \cup {0}]
  /\ tmp \in File!Inodes \cup {0} /\ file \in File!Inodes \cup {0} /\ content \in [File!Inodes -> Int]

\* A target that a save put there alone has the version of that save, and
\* nobody else has it open.
TargetWhole ==
  ~suspect => /\ IF file = 0 THEN saved = 0 ELSE content[file] = saved
              /\ file # 0 => \A w \in Writers : step[w] \in Open => fd[w] # file
\* The temporary file is another one, and has what a save that runs alone has
\* written.
TmpApart ==
  /\ tmp # 0 => tmp # file
  /\ \A w \in Writers \ crowded :
       /\ step[w] # "idle" => \A v \in Writers \ {w} : step[v] = "idle"
       /\ step[w] \in Open => tmp # 0 /\ fd[w] = tmp
       /\ step[w] = "opened" => content[tmp] = -1
       /\ step[w] \in {"written", "backed"} => content[tmp] = data[w]
FileInv == FileTypes /\ TargetWhole /\ TmpApart

\* There is an inode for every writer and one for the target, so a save that
\* finds no temporary file gets a new one.
LEMMA FreeInode ==
  ASSUME FileConstants, FileTypes, NEW w \in Writers, step[w] = "started", tmp = 0
  PROVE  /\ File!Inodes \subseteq Nat /\ 0 \notin File!Inodes
         /\ \E i \in File!Inodes : i \notin File!InUse
<1> DEFINE n == Cardinality(Writers)
           Others == Writers \ {w}
           Fds == {fd[v] : v \in Others}
<1>1. n \in Nat /\ IsFiniteSet(Others) /\ Cardinality(Others) = n - 1
  BY FS_CardinalityType, FS_RemoveElement DEF FileConstants
<1>2. IsFiniteSet(Fds) /\ Cardinality(Fds) \in Nat /\ Cardinality(Fds) <= n - 1
  <2> DEFINE f == [v \in Others |-> fd[v]]
  <2>1. f \in Surjection(Others, Fds)
    BY DEF Surjection
  <2> HIDE DEF f
  <2>2. IsFiniteSet(Fds) /\ Cardinality(Fds) <= Cardinality(Others)
    BY <1>1, <2>1, FS_Surjection
  <2> QED BY <1>1, <2>2, FS_CardinalityType
<1>3. File!Cardinality(Writers) = n
  BY SMT DEF Cardinality, File!Cardinality
<1>4. File!Inodes = 1..(n + 1) /\ IsFiniteSet(1..(n + 1)) /\ Cardinality(1..(n + 1)) = n + 1
  <2>1. IsFiniteSet(1..(n + 1)) /\ Cardinality(1..(n + 1)) = IF 1 > n + 1 THEN 0 ELSE (n + 1) - 1 + 1
    BY <1>1, FS_Interval
  <2> QED BY <1>1, <1>3, <2>1 DEF File!Inodes
<1> HIDE DEF n, Fds
<1>5. IsFiniteSet(Fds \cup {file}) /\ Cardinality(Fds \cup {file}) <= n
  <2>1. /\ IsFiniteSet(Fds \cup {file})
        /\ Cardinality(Fds \cup {file}) = IF file \in Fds THEN Cardinality(Fds) ELSE Cardinality(Fds) + 1
    BY <1>2, FS_AddElement
  <2> QED BY <1>1, <1>2, <2>1
<1>6. ~(1..(n + 1) \subseteq Fds \cup {file})
  <2> SUFFICES ASSUME 1..(n + 1) \subseteq Fds \cup {file} PROVE FALSE
    OBVIOUS
  <2>1. Cardinality(1..(n + 1)) <= Cardinality(Fds \cup {file}) /\ Cardinality(Fds \cup {file}) \in Nat
    BY <1>5, FS_Subset, FS_CardinalityType
  <2> QED BY <1>1, <1>4, <1>5, <2>1
<1>7. PICK i \in File!Inodes : i \notin Fds \cup {file}
  BY <1>4, <1>6
<1>8. i \notin File!InUse
  BY <1>4, <1>7 DEF File!InUse, Fds
<1> QED BY <1>1, <1>4, <1>7, <1>8

LEMMA FileInitInv == ASSUME FileConstants, File!FileInit PROVE FileInv
<1>1. FileTypes
  <2>1. step \in [Writers -> Steps] /\ crowded \subseteq Writers /\ suspect \in BOOLEAN
    BY DEF File!FileInit, Steps
  <2>2. data \in [Writers -> Nat] /\ content \in [File!Inodes -> Int]
    BY DEF File!FileInit, File!Empty
  <2>3. fd \in [Writers -> File!Inodes \cup {0}]
    BY DEF File!FileInit, File!NoInode
  <2>4. inMemory \in Nat /\ saved \in Nat /\ versions \in Nat /\ tmp = 0 /\ file = 0
    BY DEF File!FileInit, File!NoInode
  <2> QED BY <2>1, <2>2, <2>3, <2>4 DEF FileTypes
<1>2. TargetWhole
  BY DEF File!FileInit, TargetWhole, File!NoInode
<1>3. TmpApart
  BY DEF File!FileInit, TmpApart, Open, File!NoInode
<1> QED BY <1>1, <1>2, <1>3 DEF FileInv

LEMMA FileStep == ASSUME FileConstants, FileInv, [File!FileNext]_File!fileVars PROVE FileInv'
<1> USE DEF FileInv, FileTypes, TargetWhole, TmpApart, Open
<1>1. CASE UNCHANGED File!fileVars
  BY <1>1 DEF File!fileVars
<1>2. CASE File!Change
  BY <1>2 DEF File!Change
<1>3. CASE File!Restart
  BY <1>3 DEF File!Restart, File!OnDisk, File!Parsed, File!NoInode, Steps
<1>4. ASSUME NEW w \in Writers, File!Save(w) PROVE FileInv'
  <2>1. /\ step[w] = "idle" /\ step' = [step EXCEPT ![w] = "started"] /\ data' = [data EXCEPT ![w] = inMemory]
        /\ crowded' = IF File!UnderWay = {} THEN {} ELSE crowded \cup File!UnderWay \cup {w}
        /\ UNCHANGED <<inMemory, saved, suspect, fd, tmp, file, bak, content, versions, fileCrashes>>
    BY <1>4 DEF File!Save
  <2>2. FileTypes' /\ TargetWhole'
    BY <2>1 DEF Steps, File!UnderWay
  <2>3. CASE File!UnderWay = {}
    <3>1. \A v \in Writers : step[v] = "idle" /\ (v # w => step'[v] = "idle")
      BY <2>1, <2>3 DEF File!UnderWay
    <3> QED BY <2>1, <2>2, <3>1
  <2>4. CASE File!UnderWay # {}
    <3>1. \A v \in Writers \ crowded' : step'[v] = "idle"
      BY <2>1, <2>4 DEF File!UnderWay
    <3> QED BY <2>1, <2>2, <3>1
  <2> QED BY <2>3, <2>4
<1>5. ASSUME NEW w \in Writers, File!OpenTmp(w) PROVE FileInv'
  <2> DEFINE inode == IF tmp # File!NoInode THEN tmp ELSE CHOOSE i \in File!Inodes : i \notin File!InUse
  <2>2. inode \in File!Inodes /\ inode # file /\ inode # 0
    <3>1. CASE tmp # 0
      BY <3>1 DEF File!NoInode
    <3>2. CASE tmp = 0
      <4>1. 0 \notin File!Inodes /\ \E i \in File!Inodes : i \notin File!InUse
        BY <1>5, <3>2, FreeInode DEF File!OpenTmp
      <4>2. file \in File!InUse
        BY DEF File!InUse
      <4> QED BY <3>2, <4>1, <4>2 DEF File!NoInode
    <3> QED BY <3>1, <3>2
  <2>3. /\ step[w] = "started" /\ step' = [step EXCEPT ![w] = "opened"] /\ tmp' = inode
        /\ fd' = [fd EXCEPT ![w] = inode] /\ content' = [content EXCEPT ![inode] = -1]
        /\ UNCHANGED <<inMemory, saved, crowded, suspect, data, file, bak, versions, fileCrashes>>
    BY <1>5 DEF File!OpenTmp, File!Empty
  <2> HIDE DEF inode
  <2>4. FileTypes' /\ TargetWhole'
    BY <2>2, <2>3 DEF Steps
  <2>5. TmpApart'
    BY <2>2, <2>3
  <2> QED BY <2>4, <2>5
<1>6. ASSUME NEW w \in Writers, File!WriteTmp(w) PROVE FileInv'
  <2> DEFINE text == File!Overwritten(content[fd[w]], data[w])
  <2>1. /\ step[w] = "opened" /\ step' = [step EXCEPT ![w] = "written"]
        /\ content' = [content EXCEPT ![fd[w]] = text]
        /\ UNCHANGED <<inMemory, saved, crowded, suspect, data, fd, tmp, file, bak, versions, fileCrashes>>
    BY <1>6 DEF File!WriteTmp
  <2>2. text \in Int /\ (w \notin crowded => text = data[w])
    BY <2>1 DEF File!Overwritten, File!Torn
  <2> HIDE DEF text
  <2>3. FileTypes' /\ TargetWhole'
    BY <2>1, <2>2 DEF Steps
  <2>4. TmpApart'
    BY <2>1, <2>2
  <2> QED BY <2>3, <2>4
<1>7. ASSUME NEW w \in Writers, File!Backup(w) PROVE FileInv'
  BY <1>7 DEF File!Backup, Steps
<1>8. ASSUME NEW w \in Writers, File!Rename(w) PROVE FileInv'
  <2>1. /\ step[w] = "backed" /\ step' = [step EXCEPT ![w] = "idle"]
        /\ UNCHANGED <<inMemory, crowded, data, fd, bak, content, versions, fileCrashes>>
    BY <1>8 DEF File!Rename
  <2>2. CASE tmp = 0
    <3>1. UNCHANGED <<file, tmp, saved, suspect>>
      BY <1>8, <2>2 DEF File!Rename, File!NoInode
    <3> QED BY <2>1, <3>1 DEF Steps
  <2>3. CASE tmp # 0
    <3>1. file' = tmp /\ tmp' = 0 /\ saved' = data[w] /\ suspect' = (w \in crowded)
      BY <1>8, <2>3 DEF File!Rename, File!NoInode
    <3>2. FileTypes'
      BY <2>1, <2>3, <3>1 DEF Steps
    <3>3. TargetWhole'
      <4> SUFFICES ASSUME ~suspect' PROVE TargetWhole'
        OBVIOUS
      <4>1. w \notin crowded /\ \A v \in Writers : step'[v] = "idle"
        BY <2>1, <3>1
      <4> QED BY <2>1, <2>3, <3>1, <4>1
    <3>4. TmpApart'
      BY <2>1, <3>1
    <3> QED BY <3>2, <3>3, <3>4
  <2> QED BY <2>2, <2>3
<1> QED BY <1>1, <1>2, <1>3, <1>4, <1>5, <1>6, <1>7, <1>8 DEF File!FileNext

LEMMA ReadsAreSaves == ASSUME FileInv PROVE File!CrashReadsASave
BY DEF FileInv, FileTypes, TargetWhole, File!CrashReadsASave, File!OnDisk, File!Parsed, File!NoInode, File!Empty, File!Torn

\* What a restart reads is, whole, the version the last finished save wrote,
\* whatever their sizes, when no other save overlapped that one.
THEOREM SavesAreAtomic == ASSUME FileConstants PROVE File!FileSpec => []File!CrashReadsASave
<1>1. File!FileInit => FileInv
  BY FileInitInv
<1>2. FileInv /\ [File!FileNext]_File!fileVars => FileInv'
  BY FileStep
<1>3. FileInv => File!CrashReadsASave
  BY ReadsAreSaves
<1> QED BY <1>1, <1>2, <1>3, PTL DEF File!FileSpec
-----------------------------------------------------------------------------
(* The block archive. *)

StoreConstants ==
  /\ IsFiniteSet(Callers) /\ IsFiniteSet(Chunks) /\ Releasable \subseteq Chunks
  /\ HotWindow \in Nat \ {0} /\ MaxLength \in Nat /\ Quota \in Nat
Bodies == (0..MaxLength - 1) \cup Chunks
Calls == [at : {"has", "put", "write", "rename", "delete"}, todo : (SUBSET Bodies) \ {{}}, base : Int, freed : Int]
ArchiveTypes ==
  /\ stored \subseteq Bodies /\ used \in Int /\ length \in 0..MaxLength
  /\ hot \subseteq 0..length - 1 /\ calls \in [Callers -> {[at |-> "idle"]} \cup Calls]

LEMMA BodiesFinite ==
  ASSUME StoreConstants, ArchiveTypes
  PROVE  IsFiniteSet(Bodies) /\ IsFiniteSet(stored) /\ Cardinality(stored) \in Nat
<1>1. IsFiniteSet(0..MaxLength - 1)
  BY FS_Interval DEF StoreConstants
<1>2. IsFiniteSet(Bodies)
  BY <1>1, FS_Union DEF StoreConstants, Bodies
<1> QED BY <1>2, FS_Subset, FS_CardinalityType DEF ArchiveTypes

LEMMA SameSizes == \A S : Archive!Cardinality(S) = Cardinality(S)
BY DEF Archive!Cardinality, Cardinality

LEMMA FirstOfTodo == ASSUME NEW c \in Calls PROVE Archive!First(c) \in c.todo
BY DEF Calls, Archive!First

LEMMA CallMovesOn ==
  ASSUME NEW c \in Calls, NEW at
  PROVE  [c EXCEPT !.at = at] = [at |-> at, todo |-> c.todo, base |-> c.base, freed |-> c.freed]
BY DEF Calls

\* A full hot window has an oldest block.
LEMMA OldestIsHot ==
  ASSUME StoreConstants, ArchiveTypes, Cardinality(hot) = HotWindow
  PROVE  Archive!Oldest(hot) \in hot
<1>1. hot # {} /\ hot \subseteq Nat
  BY FS_EmptySet DEF StoreConstants, ArchiveTypes
<1>2. \E i \in hot : \A j \in hot : i <= j
  <2>1. PICK i \in hot : \A j \in hot : ~ (<<j, i>> \in OpToRel(<, Nat))
    BY <1>1, NatLessThanWellFounded, WFMin
  <2>2. \A j \in hot : i <= j
    <3> SUFFICES ASSUME NEW j \in hot PROVE i <= j
      OBVIOUS
    <3>1. ~ (j < i) /\ i \in Nat /\ j \in Nat
      BY <2>1, <1>1 DEF OpToRel
    <3> QED BY <3>1
  <2> QED BY <2>2
<1> QED BY <1>2 DEF Archive!Oldest

LEMMA NextChunkTyped ==
  ASSUME ArchiveTypes, NEW p \in Callers, calls[p] \in Calls, NEW x \in calls[p].todo, Archive!NextChunk(p, calls[p], x)
  PROVE  calls' \in [Callers -> {[at |-> "idle"]} \cup Calls]
<1>1. CASE calls[p].todo = {x}
  BY <1>1 DEF ArchiveTypes, Archive!NextChunk, Archive!Ends, Archive!Moves, Archive!None
<1>2. CASE calls[p].todo # {x}
  <2>1. [at |-> "has", todo |-> calls[p].todo \ {x}, base |-> 0, freed |-> 0] \in Calls
    BY <1>2 DEF Calls
  <2> QED BY <1>2, <2>1 DEF ArchiveTypes, Archive!NextChunk, Archive!Moves, Archive!Call
<1> QED BY <1>1, <1>2

LEMMA ArchiveTypesStep == ASSUME StoreConstants, ArchiveTypes, [Archive!StoreNext]_Archive!storeVars PROVE ArchiveTypes'
<1> USE DEF Archive!None
<1>1. CASE UNCHANGED Archive!storeVars
  BY <1>1 DEF ArchiveTypes, Archive!storeVars
<1>2. ASSUME NEW p \in Callers, Archive!Apply(p) PROVE ArchiveTypes'
  <2>1. CASE Cardinality(hot) = HotWindow
    <3> DEFINE o == Archive!Oldest(hot)
    <3>1. o \in hot
      BY <2>1, OldestIsHot
    <3> HIDE DEF o
    <3>2. [at |-> "has", todo |-> {o}, base |-> 0, freed |-> 0] \in Calls
      <4>1. o \in Bodies
        BY <3>1 DEF Bodies, ArchiveTypes, StoreConstants
      <4> QED BY <4>1 DEF Calls
    <3>3. /\ length < MaxLength /\ length' = length + 1 /\ hot' = (hot \cup {length}) \ {o}
          /\ calls' = [calls EXCEPT ![p] = [at |-> "has", todo |-> {o}, base |-> 0, freed |-> 0]]
          /\ UNCHANGED <<stored, used>>
      BY <1>2, <2>1, SameSizes DEF Archive!Apply, Archive!Moves, Archive!Call, o
    <3>4. calls' \in [Callers -> {[at |-> "idle"]} \cup Calls]
      BY <3>2, <3>3 DEF ArchiveTypes
    <3>5. length' \in 0..MaxLength /\ hot' \subseteq 0..length' - 1
      <4>1. length \in Nat /\ MaxLength \in Nat /\ \A i \in hot : i \in Nat /\ i < length
        BY DEF ArchiveTypes, StoreConstants
      <4>2. \A i \in hot' : i \in hot \/ i = length
        BY <3>3
      <4>3. \A i \in hot' : i \in 0..length
        BY <4>1, <4>2
      <4> QED BY <3>3, <4>1, <4>3
    <3> QED BY <3>3, <3>4, <3>5 DEF ArchiveTypes
  <2>2. CASE Cardinality(hot) # HotWindow
    <3>1. /\ length < MaxLength /\ length' = length + 1 /\ hot' = hot \cup {length}
          /\ UNCHANGED <<stored, used, calls>>
      BY <1>2, <2>2, SameSizes DEF Archive!Apply
    <3>2. length' \in 0..MaxLength /\ hot' \subseteq 0..length' - 1
      BY <3>1 DEF ArchiveTypes, StoreConstants
    <3> QED BY <3>1, <3>2 DEF ArchiveTypes
  <2> QED BY <2>1, <2>2
<1>3. ASSUME NEW p \in Callers, Archive!StoreContent(p) \/ (Releasable \subseteq Chunks /\ Archive!Release(p))
      PROVE  ArchiveTypes'
  <2>1. PICK S \in (SUBSET Chunks) \ {{}}, a \in {"has", "delete"} :
          /\ calls' = [calls EXCEPT ![p] = [at |-> a, todo |-> S, base |-> 0, freed |-> 0]]
          /\ UNCHANGED <<stored, used, length, hot>>
    <3>1. ASSUME Archive!StoreContent(p)
          PROVE  \E S \in (SUBSET Chunks) \ {{}} :
                   /\ calls' = [calls EXCEPT ![p] = [at |-> "has", todo |-> S, base |-> 0, freed |-> 0]]
                   /\ UNCHANGED <<stored, used, length, hot>>
      BY <3>1 DEF Archive!StoreContent, Archive!Moves, Archive!Call
    <3>2. ASSUME Releasable \subseteq Chunks, Archive!Release(p)
          PROVE  \E S \in (SUBSET Chunks) \ {{}} :
                   /\ calls' = [calls EXCEPT ![p] = [at |-> "delete", todo |-> S, base |-> 0, freed |-> 0]]
                   /\ UNCHANGED <<stored, used, length, hot>>
      BY <3>2 DEF Archive!Release, Archive!Moves, Archive!Call
    <3> QED BY <1>3, <3>1, <3>2
  <2>2. [at |-> a, todo |-> S, base |-> 0, freed |-> 0] \in Calls
    BY DEF Calls, Bodies
  <2> QED BY <2>1, <2>2 DEF ArchiveTypes
<1>4. ASSUME NEW p \in Callers, Archive!Dedup(p) PROVE ArchiveTypes'
  <2>1. calls[p] \in Calls
    BY <1>4 DEF Archive!Dedup, ArchiveTypes
  <2>2. Archive!First(calls[p]) \in calls[p].todo /\ Archive!NextChunk(p, calls[p], Archive!First(calls[p]))
    BY <1>4, <2>1, FirstOfTodo DEF Archive!Dedup
  <2> QED BY <1>4, <2>1, <2>2, NextChunkTyped DEF Archive!Dedup, ArchiveTypes
<1>5. ASSUME NEW p \in Callers, Archive!CheckQuota(p) PROVE ArchiveTypes'
  <2>1. calls[p] \in Calls
    BY <1>5 DEF Archive!CheckQuota, ArchiveTypes
  <2>2. [at |-> "put", todo |-> calls[p].todo, base |-> used, freed |-> 0] \in Calls
    BY <2>1 DEF ArchiveTypes, Calls
  <2> QED BY <1>5, <2>2 DEF Archive!CheckQuota, Archive!Moves, Archive!Call, Archive!Ends, ArchiveTypes
<1>6. ASSUME NEW p \in Callers, Archive!Absent(p) \/ Archive!WriteTmp(p) PROVE ArchiveTypes'
  <2>1. calls[p] \in Calls
    BY <1>6 DEF Archive!Absent, Archive!WriteTmp, ArchiveTypes
  <2>2. PICK a \in {"write", "rename"} : calls' = [calls EXCEPT ![p] = [calls[p] EXCEPT !.at = a]]
        /\ UNCHANGED <<stored, used, length, hot>>
    BY <1>6 DEF Archive!Absent, Archive!WriteTmp, Archive!Moves
  <2>3. [calls[p] EXCEPT !.at = a] \in Calls
    BY <2>1, CallMovesOn DEF Calls
  <2> QED BY <2>2, <2>3 DEF ArchiveTypes
<1>7. ASSUME NEW p \in Callers, Archive!AlreadyThere(p) \/ Archive!Rename(p) PROVE ArchiveTypes'
  <2>1. calls[p] \in Calls
    BY <1>7 DEF Archive!AlreadyThere, Archive!Rename, ArchiveTypes
  <2> DEFINE x == Archive!First(calls[p])
  <2>2. x \in calls[p].todo /\ x \in Bodies /\ calls[p].base \in Int
    BY <2>1, FirstOfTodo DEF Calls
  <2>3. Archive!NextChunk(p, calls[p], x) \/ Archive!Ends(p)
    BY <1>7 DEF Archive!AlreadyThere, Archive!Rename
  <2>4. calls' \in [Callers -> {[at |-> "idle"]} \cup Calls]
    BY <2>1, <2>2, <2>3, NextChunkTyped DEF Archive!Ends, Archive!Moves, ArchiveTypes
  <2>5. stored' \subseteq Bodies /\ used' \in Int /\ UNCHANGED <<length, hot>>
    BY <1>7, <2>2 DEF Archive!AlreadyThere, Archive!Rename, ArchiveTypes
  <2> QED BY <2>4, <2>5 DEF ArchiveTypes
<1>8. ASSUME NEW p \in Callers, Archive!Delete(p) PROVE ArchiveTypes'
  <2>1. calls[p] \in Calls
    BY <1>8 DEF Archive!Delete, ArchiveTypes
  <2> DEFINE x == Archive!First(calls[p])
             freed == calls[p].freed + (IF x \in stored THEN 1 ELSE 0)
  <2>2. x \in calls[p].todo /\ freed \in Int
    BY <2>1, FirstOfTodo DEF Calls
  <2>3. calls[p].todo # {x} => [at |-> "delete", todo |-> calls[p].todo \ {x}, base |-> 0, freed |-> freed] \in Calls
    BY <2>1, <2>2 DEF Calls
  <2>4. /\ stored' = stored \ {x} /\ UNCHANGED <<length, hot>>
        /\ IF calls[p].todo = {x} THEN calls' = [calls EXCEPT ![p] = [at |-> "idle"]] /\ used' = used - freed
           ELSE calls' = [calls EXCEPT ![p] = [at |-> "delete", todo |-> calls[p].todo \ {x}, base |-> 0, freed |-> freed]]
           /\ used' = used
    BY <1>8 DEF Archive!Delete, Archive!Ends, Archive!Moves, Archive!Call
  <2> HIDE DEF x, freed
  <2> QED BY <2>2, <2>3, <2>4 DEF ArchiveTypes
<1>9. CASE Archive!Crash
  BY <1>9, BodiesFinite, SameSizes DEF Archive!Crash, Archive!Adopted, ArchiveTypes, StoreConstants
<1>10. Releasable \subseteq Chunks
  BY DEF StoreConstants
<1> QED BY <1>1, <1>2, <1>3, <1>4, <1>5, <1>6, <1>7, <1>8, <1>9, <1>10 DEF Archive!StoreNext
\* While no call has raced with a reading of the byte count, one call holds such
\* a reading, it still holds when the call writes it, and the count is what is
\* on the disk and what the releases under way have deleted of it.
FreedBy == [p \in Callers |-> IF calls[p].at = "delete" THEN calls[p].freed ELSE 0]
Putting == {"put", "write", "rename"}
CountTypes ==
  /\ raced \in BOOLEAN /\ found \in Nat
  /\ \A p \in Callers : calls[p].at = "delete" => calls[p].freed \in Nat
ReadingHolds ==
  \A p \in Callers : calls[p].at \in Putting =>
    /\ calls[p].base = used /\ used + 1 <= Quota /\ Archive!First(calls[p]) \notin stored
    /\ \A q \in Callers : calls[q].at \in Putting => q = p
SizeCounted ==
  /\ used = Cardinality(stored) + SumOver(FreedBy, Callers)
  /\ Cardinality(stored) <= Quota \/ Cardinality(stored) <= found
QuotaInv == ArchiveTypes /\ CountTypes /\ (~raced => ReadingHolds /\ SizeCounted)

LEMMA ArchiveInitTypes == ASSUME StoreConstants, Archive!StoreInit PROVE ArchiveTypes
BY DEF Archive!StoreInit, Archive!None, ArchiveTypes, StoreConstants

LEMMA FreedTyped ==
  ASSUME ArchiveTypes, CountTypes
  PROVE  \A p \in Callers : FreedBy[p] \in Nat /\ FreedBy[p] \in Int
BY DEF FreedBy, CountTypes

\* No release is under way.
LEMMA NothingFreed ==
  ASSUME StoreConstants, \A p \in Callers : calls[p].at = "idle"
  PROVE  SumOver(FreedBy, Callers) = 0
<1>1. \A p \in Callers : FreedBy[p] = 0
  BY DEF FreedBy
<1> QED BY <1>1, SumZero DEF StoreConstants

LEMMA QuotaInitInv == ASSUME StoreConstants, Archive!StoreInit PROVE QuotaInv
<1>1. stored = {} /\ used = 0 /\ raced = FALSE /\ found = 0 /\ \A p \in Callers : calls[p].at = "idle"
  BY DEF Archive!StoreInit, Archive!None
<1>2. Cardinality(stored) = 0 /\ SumOver(FreedBy, Callers) = 0
  BY <1>1, FS_EmptySet, NothingFreed
<1>3. CountTypes /\ ReadingHolds
  BY <1>1 DEF CountTypes, ReadingHolds, Putting
<1>4. SizeCounted
  BY <1>1, <1>2 DEF SizeCounted, StoreConstants
<1> QED BY <1>3, <1>4, ArchiveInitTypes DEF QuotaInv

\* One call goes on to y: what the sum of the releases becomes.
LEMMA FreedMoves ==
  ASSUME StoreConstants, ArchiveTypes, CountTypes, NEW p \in Callers, NEW y,
         calls' = [calls EXCEPT ![p] = y], y.at = "delete" => y.freed \in Nat,
         raced' \in BOOLEAN, found' \in Nat
  PROVE  /\ CountTypes'
         /\ SumOver(FreedBy, Callers)' = SumOver(FreedBy, Callers)
              - (IF calls[p].at = "delete" THEN calls[p].freed ELSE 0)
              + (IF y.at = "delete" THEN y.freed ELSE 0)
<1>1. calls'[p] = y /\ \A q \in Callers \ {p} : calls'[q] = calls[q]
  BY DEF ArchiveTypes
<1>2. CountTypes'
  <2>1. \A q \in Callers : calls'[q].at = "delete" => calls'[q].freed \in Nat
    BY <1>1 DEF CountTypes
  <2> QED BY <2>1 DEF CountTypes
<1> DEFINE w == FreedBy
           v == [q \in Callers |-> IF q = p THEN IF y.at = "delete" THEN y.freed ELSE 0 ELSE w[q]]
<1>3. FreedBy' = v
  BY <1>1 DEF FreedBy
<1>4. /\ w[p] = (IF calls[p].at = "delete" THEN calls[p].freed ELSE 0)
      /\ v[p] = (IF y.at = "delete" THEN y.freed ELSE 0)
      /\ \A q \in Callers \ {p} : v[q] = w[q]
  BY DEF FreedBy
<1>5. IsFiniteSet(Callers) /\ \A q \in Callers : w[q] \in Int /\ v[q] \in Int
  BY FreedTyped DEF StoreConstants
<1> HIDE DEF v, w
<1>6. SumOver(v, Callers) = SumOver(w, Callers) - w[p] + v[p]
  <2>1. \A q \in Callers \ {p} : v[q] = w[q]
    BY <1>4
  <2>2. p \in Callers /\ IsFiniteSet(Callers)
    BY <1>5
  <2>3. \A q \in Callers : w[q] \in Int /\ v[q] \in Int
    BY <1>5
  <2> QED BY <2>1, <2>2, <2>3, SumUpdate
<1> QED BY <1>2, <1>3, <1>4, <1>6 DEF w

LEMMA NoneFreed ==
  ASSUME StoreConstants, ArchiveTypes, CountTypes, NEW p \in Callers, NEW y,
         calls' = [calls EXCEPT ![p] = y], calls[p].at # "delete", y.at = "delete" => y.freed = 0,
         raced' \in BOOLEAN, found' \in Nat
  PROVE  CountTypes' /\ SumOver(FreedBy, Callers)' = SumOver(FreedBy, Callers)
<1>1. y.at = "delete" => y.freed \in Nat
  OBVIOUS
<1> DEFINE a == IF calls[p].at = "delete" THEN calls[p].freed ELSE 0
           b == IF y.at = "delete" THEN y.freed ELSE 0
<1>2. CountTypes' /\ SumOver(FreedBy, Callers)' = SumOver(FreedBy, Callers) - a + b
  BY <1>1, FreedMoves
<1>3. a = 0 /\ b = 0
  OBVIOUS
<1>4. SumOver(FreedBy, Callers) \in Int
  BY FreedTyped, SumType DEF StoreConstants
<1> HIDE DEF a, b
<1> QED BY <1>2, <1>3, <1>4

\* A step of one call that has no reading afterwards, or keeps the one it had,
\* and that leaves the disk and the count.
LEMMA CountKept ==
  ASSUME StoreConstants, QuotaInv, NEW p \in Callers, NEW y, calls' = [calls EXCEPT ![p] = y] \/ calls' = calls,
         UNCHANGED <<stored, used, raced, found>>, calls[p].at # "delete",
         y.at = "delete" => y.freed = 0,
         y.at \in Putting => calls[p].at \in Putting /\ y.base = calls[p].base /\ Archive!First(y) = Archive!First(calls[p])
  PROVE  CountTypes' /\ (~raced' => ReadingHolds' /\ SizeCounted')
<1>1. CASE calls' = calls
  BY <1>1 DEF QuotaInv, CountTypes, ReadingHolds, SizeCounted, FreedBy
<1>2. CASE calls' = [calls EXCEPT ![p] = y]
  <2>1. calls'[p] = y /\ \A q \in Callers \ {p} : calls'[q] = calls[q]
    BY <1>2 DEF QuotaInv, ArchiveTypes
  <2>2. CountTypes' /\ SumOver(FreedBy, Callers)' = SumOver(FreedBy, Callers)
    <3>1. raced' \in BOOLEAN /\ found' \in Nat
      BY DEF QuotaInv, CountTypes
    <3> QED BY <1>2, <3>1, NoneFreed DEF QuotaInv
  <2>3. ReadingHolds => ReadingHolds'
    BY <2>1 DEF ReadingHolds, Putting
  <2>4. SizeCounted => SizeCounted'
    BY <2>2 DEF SizeCounted
  <2> QED BY <2>2, <2>3, <2>4 DEF QuotaInv
<1> QED BY <1>1, <1>2

LEMMA CountStepQuiet ==
  ASSUME StoreConstants, QuotaInv, NEW p \in Callers,
         Archive!Apply(p) \/ Archive!StoreContent(p) \/ Archive!Release(p) \/ Archive!Dedup(p)
           \/ Archive!Absent(p) \/ Archive!WriteTmp(p)
  PROVE  CountTypes' /\ (~raced' => ReadingHolds' /\ SizeCounted')
<1>1. UNCHANGED <<stored, used, raced, found>>
  BY DEF Archive!Apply, Archive!StoreContent, Archive!Release, Archive!Dedup, Archive!Absent, Archive!WriteTmp
<1>2. CASE Archive!Apply(p) \/ Archive!StoreContent(p) \/ Archive!Release(p) \/ Archive!Dedup(p)
  <2>1. calls[p].at \in {"idle", "has"}
    BY <1>2 DEF Archive!Apply, Archive!StoreContent, Archive!Release, Archive!Dedup, Archive!None
  <2> DEFINE Quiet(y) == /\ calls' = calls \/ calls' = [calls EXCEPT ![p] = y]
                         /\ y.at \notin Putting /\ (y.at = "delete" => y.freed = 0)
  <2>2. \E y : Quiet(y)
    <3>1. CASE Archive!Apply(p)
      <4>1. CASE calls' = calls
        <5>1. Quiet([at |-> "idle"])
          BY <4>1 DEF Putting
        <5> QED BY <5>1
      <4>2. CASE calls' # calls
        <5>1. PICK S : calls' = [calls EXCEPT ![p] = [at |-> "has", todo |-> S, base |-> 0, freed |-> 0]]
          BY <3>1, <4>2 DEF Archive!Apply, Archive!Moves, Archive!Call
        <5>2. Quiet([at |-> "has", todo |-> S, base |-> 0, freed |-> 0])
          BY <5>1 DEF Putting
        <5> QED BY <5>2
      <4> QED BY <4>1, <4>2
    <3>2. CASE Archive!StoreContent(p) \/ Archive!Release(p)
      <4> DEFINE Goes(a, S) == calls' = [calls EXCEPT ![p] = [at |-> a, todo |-> S, base |-> 0, freed |-> 0]]
      <4>1. \E a \in {"has", "delete"} : \E S : Goes(a, S)
        BY <3>2 DEF Archive!StoreContent, Archive!Release, Archive!Moves, Archive!Call
      <4>2. PICK a \in {"has", "delete"} : \E S : Goes(a, S)
        BY <4>1
      <4>3. PICK S : Goes(a, S)
        BY <4>2
      <4>4. Quiet([at |-> a, todo |-> S, base |-> 0, freed |-> 0])
        BY <4>3 DEF Putting
      <4> QED BY <4>4
    <3>3. CASE Archive!Dedup(p)
      BY <3>3 DEF Archive!Dedup, Archive!NextChunk, Archive!Ends, Archive!Moves, Archive!Call, Archive!None, Putting
    <3> QED BY <1>2, <3>1, <3>2, <3>3
  <2> QED BY <1>1, <2>1, <2>2, CountKept
<1>3. CASE Archive!Absent(p) \/ Archive!WriteTmp(p)
  <2>1. calls[p] \in Calls /\ calls[p].at \in {"put", "write"}
    BY <1>3 DEF Archive!Absent, Archive!WriteTmp, QuotaInv, ArchiveTypes
  <2>2. PICK a \in {"write", "rename"} : calls' = [calls EXCEPT ![p] = [calls[p] EXCEPT !.at = a]]
    BY <1>3 DEF Archive!Absent, Archive!WriteTmp, Archive!Moves
  <2> DEFINE y == [at |-> a, todo |-> calls[p].todo, base |-> calls[p].base, freed |-> calls[p].freed]
  <2>3. calls' = [calls EXCEPT ![p] = y]
    BY <2>1, <2>2, CallMovesOn
  <2>4. y.at = a /\ y.base = calls[p].base /\ Archive!First(y) = Archive!First(calls[p])
    BY DEF Archive!First
  <2> HIDE DEF y
  <2> QED BY <1>1, <2>1, <2>3, <2>4, CountKept DEF Putting
<1> QED BY <1>2, <1>3

LEMMA CountStepCheck ==
  ASSUME StoreConstants, QuotaInv, NEW p \in Callers, Archive!CheckQuota(p)
  PROVE  CountTypes' /\ (~raced' => ReadingHolds' /\ SizeCounted')
<1> DEFINE y == [at |-> "put", todo |-> calls[p].todo, base |-> used, freed |-> 0]
<1>1. /\ calls[p].at = "has" /\ Archive!First(calls[p]) \notin stored /\ UNCHANGED <<stored, used, found>>
      /\ \/ /\ used + 1 <= Quota /\ calls' = [calls EXCEPT ![p] = y]
            /\ raced' = (raced \/ \E q \in Callers : calls[q].at \in Putting)
         \/ calls' = [calls EXCEPT ![p] = [at |-> "idle"]] /\ raced' = raced
  BY DEF Archive!CheckQuota, Archive!Fits, Archive!Moves, Archive!Call, Archive!Ends, Archive!None, Archive!Races,
     Archive!Holding, Putting
<1>2. y.at = "put" /\ y.base = used /\ Archive!First(y) = Archive!First(calls[p])
  BY DEF Archive!First
<1> HIDE DEF y
<1>3. CASE calls' = [calls EXCEPT ![p] = [at |-> "idle"]] /\ raced' = raced
  <2>1. [at |-> "idle"].at = "idle"
    OBVIOUS
  <2> QED BY <1>1, <1>3, <2>1, CountKept DEF Putting
<1>4. CASE used + 1 <= Quota /\ calls' = [calls EXCEPT ![p] = y] /\ raced' = (raced \/ \E q \in Callers : calls[q].at \in Putting)
  <2>1. calls'[p] = y /\ \A q \in Callers \ {p} : calls'[q] = calls[q]
    BY <1>4 DEF QuotaInv, ArchiveTypes
  <2>2. CountTypes' /\ SumOver(FreedBy, Callers)' = SumOver(FreedBy, Callers)
    <3>1. raced' \in BOOLEAN /\ found' \in Nat
      BY <1>1, <1>4 DEF QuotaInv, CountTypes
    <3> QED BY <1>1, <1>2, <1>4, <3>1, NoneFreed DEF QuotaInv
  <2>3. ~raced' => ReadingHolds'
    <3> SUFFICES ASSUME ~raced' PROVE ReadingHolds'
      OBVIOUS
    <3>1. \A q \in Callers : calls[q].at \notin Putting
      BY <1>4
    <3> QED BY <1>1, <1>2, <1>4, <2>1, <3>1 DEF ReadingHolds
  <2>4. ~raced' => SizeCounted'
    BY <1>1, <1>4, <2>2 DEF QuotaInv, CountTypes, SizeCounted
  <2> QED BY <2>2, <2>3, <2>4
<1> QED BY <1>1, <1>3, <1>4

\* The call that holds the only reading writes it back.
LEMMA CountStepPut ==
  ASSUME StoreConstants, QuotaInv, NEW p \in Callers, Archive!AlreadyThere(p) \/ Archive!Rename(p)
  PROVE  CountTypes' /\ (~raced' => ReadingHolds' /\ SizeCounted')
<1> DEFINE n == Cardinality(stored)
           x == Archive!First(calls[p])
<1> DEFINE Back(y) == calls' = [calls EXCEPT ![p] = y] /\ y.at \in {"idle", "has"}
<1>0. Archive!Ends(p) \/ Archive!NextChunk(p, calls[p], x) => \E y : Back(y)
  <2>1. ASSUME Archive!Ends(p) PROVE Back([at |-> "idle"])
    BY <2>1 DEF Archive!Ends, Archive!Moves, Archive!None
  <2>2. ASSUME Archive!NextChunk(p, calls[p], x), ~Archive!Ends(p)
        PROVE  Back([at |-> "has", todo |-> calls[p].todo \ {x}, base |-> 0, freed |-> 0])
    BY <2>2 DEF Archive!NextChunk, Archive!Moves, Archive!Call
  <2> HIDE DEF Back
  <2> QED BY <2>1, <2>2
<1>1. calls[p].at \in Putting /\ UNCHANGED <<raced, found>> /\ \E y : Back(y)
  <2>1. calls[p].at \in Putting /\ UNCHANGED <<raced, found>>
    BY DEF Archive!AlreadyThere, Archive!Rename, Putting
  <2>2. Archive!Ends(p) \/ Archive!NextChunk(p, calls[p], x)
    BY DEF Archive!AlreadyThere, Archive!Rename
  <2> HIDE DEF Back
  <2> QED BY <1>0, <2>1, <2>2
<1>2. PICK y : calls' = [calls EXCEPT ![p] = y] /\ y.at \in {"idle", "has"}
  BY <1>1
<1>3. calls'[p] = y /\ \A q \in Callers \ {p} : calls'[q] = calls[q]
  BY <1>2 DEF QuotaInv, ArchiveTypes
<1>4. SumOver(FreedBy, Callers) \in Nat
  BY FreedTyped, SumNat DEF QuotaInv, StoreConstants
<1>5. CountTypes' /\ SumOver(FreedBy, Callers)' = SumOver(FreedBy, Callers)
  <2>1. raced' \in BOOLEAN /\ found' \in Nat
    BY <1>1 DEF QuotaInv, CountTypes
  <2>2. calls[p].at # "delete" /\ y.at # "delete"
    BY <1>1, <1>2 DEF Putting
  <2> QED BY <1>2, <2>1, <2>2, NoneFreed DEF QuotaInv
<1>6. ASSUME ~raced' PROVE ReadingHolds' /\ SizeCounted'
  <2>1. /\ ReadingHolds /\ SizeCounted /\ x \notin stored /\ calls[p].base = used /\ used + 1 <= Quota
    BY <1>1, <1>6 DEF QuotaInv, ReadingHolds
  <2>2. \A q \in Callers : calls'[q].at \notin Putting
    BY <1>1, <1>2, <1>3, <2>1 DEF ReadingHolds, Putting
  <2>3. UNCHANGED <<stored, used>> \/ (stored' = stored \cup {x} /\ used' = used + 1)
    BY <2>1 DEF Archive!AlreadyThere, Archive!Rename
  <2>4. /\ n \in Nat /\ Cardinality(stored \cup {x}) = n + 1 /\ used \in Int /\ Quota \in Nat /\ found \in Nat
    BY <2>1, BodiesFinite, FS_AddElement DEF QuotaInv, ArchiveTypes, CountTypes, StoreConstants
  <2>5. ReadingHolds'
    BY <2>2 DEF ReadingHolds
  <2>6. SizeCounted'
    <3>1. CASE UNCHANGED <<stored, used>>
      BY <1>1, <1>5, <2>1, <3>1 DEF SizeCounted
    <3>2. CASE stored' = stored \cup {x} /\ used' = used + 1
      <4>1. Cardinality(stored') = n + 1
        BY <2>4, <3>2
      <4>2. used = n + SumOver(FreedBy, Callers)
        BY <2>1 DEF SizeCounted
      <4> HIDE DEF n, x
      <4> QED BY <1>1, <1>4, <1>5, <2>1, <2>4, <3>2, <4>1, <4>2 DEF SizeCounted
    <3> QED BY <2>3, <3>1, <3>2
  <2> QED BY <2>5, <2>6
<1> QED BY <1>5, <1>6

LEMMA CountStepDelete ==
  ASSUME StoreConstants, QuotaInv, NEW p \in Callers, Archive!Delete(p)
  PROVE  CountTypes' /\ (~raced' => ReadingHolds' /\ SizeCounted')
<1> DEFINE n == Cardinality(stored)
           c == calls[p]
           x == Archive!First(c)
           gone == IF x \in stored THEN 1 ELSE 0
           freed == c.freed + gone
           y == [at |-> "delete", todo |-> c.todo \ {x}, base |-> 0, freed |-> freed]
<1>1. /\ c.at = "delete" /\ stored' = stored \ {x} /\ found' = found
      /\ \/ /\ calls' = [calls EXCEPT ![p] = [at |-> "idle"]] /\ used' = used - freed
            /\ raced' = (raced \/ \E q \in Callers : calls[q].at \in Putting)
         \/ calls' = [calls EXCEPT ![p] = y] /\ used' = used /\ raced' = raced
  BY DEF Archive!Delete, Archive!Ends, Archive!Moves, Archive!Call, Archive!None, Archive!Races, Archive!Holding, Putting
<1>2. /\ c.freed \in Nat /\ gone \in {0, 1} /\ freed \in Nat /\ y.at = "delete" /\ y.freed = freed
      /\ freed = c.freed + gone
  BY <1>1 DEF QuotaInv, CountTypes
<1>3. n \in Nat /\ Cardinality(stored \ {x}) = n - gone /\ used \in Int /\ Quota \in Nat /\ found \in Nat
  <2>1. IsFiniteSet(stored) /\ n \in Nat /\ used \in Int /\ Quota \in Nat /\ found \in Nat
    BY BodiesFinite DEF QuotaInv, ArchiveTypes, CountTypes, StoreConstants
  <2>2. Cardinality(stored \ {x}) = IF x \in stored THEN n - 1 ELSE n
    BY <2>1, FS_RemoveElement
  <2> HIDE DEF n, x
  <2> QED BY <2>1, <2>2
<1>4. SumOver(FreedBy, Callers) \in Nat
  BY FreedTyped, SumNat DEF QuotaInv, StoreConstants
<1>5. raced' \in BOOLEAN /\ found' \in Nat
  BY <1>1 DEF QuotaInv, CountTypes
<1> HIDE DEF n, x, gone, freed, y
<1>6. ASSUME NEW z, calls' = [calls EXCEPT ![p] = z], z.at \in {"idle", "delete"}, z.at = "delete" => z.freed \in Nat
      PROVE  /\ CountTypes'
             /\ ReadingHolds /\ used' = used => ReadingHolds'
             /\ SumOver(FreedBy, Callers)' = SumOver(FreedBy, Callers) - c.freed + (IF z.at = "delete" THEN z.freed ELSE 0)
  <2>1. calls'[p] = z /\ \A q \in Callers \ {p} : calls'[q] = calls[q]
    BY <1>6 DEF QuotaInv, ArchiveTypes
  <2>2. CountTypes' /\ SumOver(FreedBy, Callers)' = SumOver(FreedBy, Callers) - c.freed + (IF z.at = "delete" THEN z.freed ELSE 0)
    BY <1>1, <1>5, <1>6, FreedMoves DEF QuotaInv
  <2>3. ReadingHolds /\ used' = used => ReadingHolds'
    BY <1>1, <1>6, <2>1 DEF ReadingHolds, Putting
  <2> QED BY <2>2, <2>3
<1>7. CASE calls' = [calls EXCEPT ![p] = y] /\ used' = used /\ raced' = raced
  <2>1. CountTypes' /\ (ReadingHolds => ReadingHolds')
        /\ SumOver(FreedBy, Callers)' = SumOver(FreedBy, Callers) - c.freed + freed
    BY <1>2, <1>6, <1>7
  <2>2. SizeCounted => SizeCounted'
    <3> SUFFICES ASSUME used = n + SumOver(FreedBy, Callers), n <= Quota \/ n <= found PROVE SizeCounted'
      BY DEF SizeCounted, n
    <3>1. Cardinality(stored') = n - gone
      BY <1>1, <1>3
    <3> QED BY <1>1, <1>2, <1>3, <1>4, <1>7, <2>1, <3>1 DEF SizeCounted
  <2> QED BY <1>7, <2>1, <2>2 DEF QuotaInv
<1>8. CASE /\ calls' = [calls EXCEPT ![p] = [at |-> "idle"]] /\ used' = used - freed
           /\ raced' = (raced \/ \E q \in Callers : calls[q].at \in Putting)
  <2>0. [at |-> "idle"].at = "idle"
    OBVIOUS
  <2>1. CountTypes' /\ SumOver(FreedBy, Callers)' = SumOver(FreedBy, Callers) - c.freed
    <3>1. CountTypes' /\ SumOver(FreedBy, Callers)' = SumOver(FreedBy, Callers) - c.freed + 0
      BY <1>6, <1>8, <2>0
    <3> QED BY <1>2, <1>4, <3>1
  <2>2. ASSUME ~raced' PROVE ReadingHolds'
    <3>1. \A q \in Callers : calls'[q].at \notin Putting
      <4>1. calls'[p] = [at |-> "idle"] /\ \A q \in Callers \ {p} : calls'[q] = calls[q]
        BY <1>8 DEF QuotaInv, ArchiveTypes
      <4> QED BY <1>8, <2>0, <2>2, <4>1 DEF Putting
    <3> QED BY <3>1 DEF ReadingHolds
  <2>3. SizeCounted => SizeCounted'
    <3> SUFFICES ASSUME used = n + SumOver(FreedBy, Callers), n <= Quota \/ n <= found PROVE SizeCounted'
      BY DEF SizeCounted, n
    <3>1. Cardinality(stored') = n - gone
      BY <1>1, <1>3
    <3> QED BY <1>1, <1>2, <1>3, <1>4, <1>8, <2>1, <3>1 DEF SizeCounted
  <2> QED BY <1>8, <2>1, <2>2, <2>3 DEF QuotaInv
<1> QED BY <1>1, <1>7, <1>8

LEMMA CountStepCrash ==
  ASSUME StoreConstants, QuotaInv, Archive!Crash
  PROVE  CountTypes' /\ (~raced' => ReadingHolds' /\ SizeCounted')
<1>1. /\ stored' = stored /\ used' = Cardinality(stored) /\ found' = Cardinality(stored) /\ raced' = FALSE
      /\ \A p \in Callers : calls'[p].at = "idle"
  BY SameSizes DEF Archive!Crash, Archive!Adopted, Archive!None
<1>2. Cardinality(stored) \in Nat /\ Quota \in Nat
  BY BodiesFinite DEF QuotaInv, StoreConstants
<1>3. SumOver(FreedBy, Callers)' = 0
  <2> DEFINE v == [p \in Callers |-> IF calls'[p].at = "delete" THEN calls'[p].freed ELSE 0]
  <2>1. (\A p \in Callers : v[p] = 0) /\ SumOver(FreedBy, Callers)' = SumOver(v, Callers)
    BY <1>1 DEF FreedBy
  <2> HIDE DEF v
  <2> QED BY <2>1, SumZero DEF StoreConstants
<1>4. CountTypes' /\ ReadingHolds'
  BY <1>1, <1>2 DEF CountTypes, ReadingHolds, Putting
<1>5. SizeCounted'
  BY <1>1, <1>2, <1>3 DEF SizeCounted
<1> QED BY <1>4, <1>5

LEMMA QuotaStep == ASSUME StoreConstants, QuotaInv, [Archive!StoreNext]_Archive!storeVars PROVE QuotaInv'
<1>1. ArchiveTypes'
  BY ArchiveTypesStep DEF QuotaInv
<1>2. CASE Archive!StoreNext
  <2>1. CountTypes' /\ (~raced' => ReadingHolds' /\ SizeCounted')
    BY <1>2, CountStepQuiet, CountStepCheck, CountStepPut, CountStepDelete, CountStepCrash DEF Archive!StoreNext
  <2> QED BY <1>1, <2>1 DEF QuotaInv
<1>3. CASE UNCHANGED Archive!storeVars
  BY <1>1, <1>3 DEF QuotaInv, CountTypes, ReadingHolds, SizeCounted, FreedBy, Archive!storeVars
<1> QED BY <1>2, <1>3

LEMMA QuotaIsKept == ASSUME StoreConstants, QuotaInv PROVE Archive!DiskWithinQuota
<1> SUFFICES ASSUME ~raced
             PROVE  /\ Cardinality(stored) <= Quota \/ Cardinality(stored) <= found
                    /\ (\A p \in Callers : calls[p] = Archive!None) => used = Cardinality(stored)
  BY SameSizes DEF Archive!DiskWithinQuota
<1>1. SizeCounted /\ Cardinality(stored) \in Nat
  BY BodiesFinite DEF QuotaInv
<1>2. ASSUME \A p \in Callers : calls[p] = Archive!None PROVE SumOver(FreedBy, Callers) = 0
  BY <1>2, NothingFreed DEF Archive!None
<1> QED BY <1>1, <1>2 DEF SizeCounted
\* With any number of calls under way the directory never outgrows the quota, or
\* what the store found there, and between calls the byte count says what is in
\* it, whatever is stored and released and whenever the process dies, as long as
\* no call raced with a reading of the byte count since the store was opened.
THEOREM DiskKeepsQuota == ASSUME StoreConstants PROVE Archive!StoreSpec => []Archive!DiskWithinQuota
<1>1. Archive!StoreInit => QuotaInv
  BY QuotaInitInv
<1>2. QuotaInv /\ [Archive!StoreNext]_Archive!storeVars => QuotaInv'
  BY QuotaStep
<1>3. QuotaInv => Archive!DiskWithinQuota
  BY QuotaIsKept
<1> QED BY <1>1, <1>2, <1>3, PTL DEF Archive!StoreSpec

-----------------------------------------------------------------------------
\* The archive of the whole chain fits, and nothing is given up.
ArchiveConstants ==
  /\ StoreConstants /\ Releasable = {}
  /\ (0..MaxLength - 1) \cap Chunks = {} /\ Cardinality(Bodies) <= Quota

Todo(p) == IF calls[p] = [at |-> "idle"] THEN {} ELSE calls[p].todo
\* A call works on content, or archives one block that has left the window, and
\* no block is archived by two.
OneEach ==
  /\ \A p \in Callers : calls[p].at # "delete"
  /\ \A p \in Callers : Todo(p) \subseteq Chunks \/ \E i \in 0..length - 1 : Todo(p) = {i} /\ i \notin hot
  /\ \A p \in Callers, q \in Callers : \A i \in 0..length - 1 : i \in Todo(p) /\ i \in Todo(q) => p = q
Everywhere == \A i \in 0..length - 1 : i \in hot \/ (i \in archived /\ i \in stored) \/ \E p \in Callers : i \in Todo(p)
\* The block that is renamed has its temporary file.
Renamable ==
  \A p \in Callers : calls[p].at = "rename" /\ Archive!First(calls[p]) \in 0..length - 1 =>
    Archive!First(calls[p]) \in temporary
\* The count is never above what is on the disk, nor what a call has read of it.
Undercounted ==
  /\ used <= Cardinality(stored)
  /\ \A p \in Callers : calls[p].at \in {"put", "write", "rename"} =>
       calls[p].base + (IF Archive!First(calls[p]) \in stored THEN 1 ELSE 0) <= Cardinality(stored)
ArchiveInv == ArchiveTypes /\ OneEach /\ Everywhere /\ Renamable /\ Undercounted

LEMMA ArchiveInitInv == ASSUME ArchiveConstants, Archive!StoreInit PROVE ArchiveInv
<1>1. /\ stored = {} /\ used = 0 /\ length = 0 /\ \A p \in Callers : calls[p] = [at |-> "idle"]
  BY DEF Archive!StoreInit, Archive!None
<1>2. ArchiveTypes /\ Cardinality(stored) = 0
  BY <1>1, FS_EmptySet, ArchiveInitTypes DEF ArchiveConstants
<1>3. OneEach /\ Everywhere
  BY <1>1 DEF OneEach, Everywhere, Todo
<1>4. Renamable /\ Undercounted
  BY <1>1, <1>2 DEF Renamable, Undercounted
<1> QED BY <1>2, <1>3, <1>4 DEF ArchiveInv

LEMMA TodoOfCall ==
  ASSUME ArchiveTypes, NEW p \in Callers
  PROVE  /\ calls[p].at # "idle" => calls[p] \in Calls /\ Todo(p) = calls[p].todo
         /\ calls[p] = [at |-> "idle"] => calls[p].at = "idle" /\ Todo(p) = {}
BY DEF ArchiveTypes, Todo, Calls

\* A turn of one call that leaves the chain and lets go of archived blocks only.
LEMMA TurnKeeps ==
  ASSUME ArchiveTypes, OneEach, Everywhere, NEW p \in Callers, NEW y, calls' = [calls EXCEPT ![p] = y],
         calls'[p].at # "delete", UNCHANGED <<length, hot>>, stored \subseteq stored', archived \subseteq archived',
         Todo(p)' \subseteq Todo(p), \A i \in Todo(p) \ Todo(p)' : i \in 0..length - 1 => i \in archived' /\ i \in stored'
  PROVE  OneEach' /\ Everywhere'
<1>1. \A q \in Callers : q # p => calls'[q] = calls[q] /\ Todo(q)' = Todo(q)
  BY DEF ArchiveTypes, Todo
<1>2. \A q \in Callers : Todo(q)' \subseteq Todo(q) /\ calls'[q].at # "delete"
  BY <1>1 DEF OneEach
<1>3. Everywhere'
  <2> SUFFICES ASSUME NEW i \in 0..length - 1, i \notin hot, ~(i \in archived' /\ i \in stored')
               PROVE  \E q \in Callers : i \in Todo(q)'
    <3>1. length' = length /\ hot' = hot
      OBVIOUS
    <3> QED BY <3>1 DEF Everywhere, Todo
  <2>1. PICK q \in Callers : i \in Todo(q)
    BY DEF Everywhere
  <2>2. i \notin Todo(p) \ Todo(p)'
    OBVIOUS
  <2> QED BY <2>1, <2>2, <1>1
<1>4. \A q \in Callers : Todo(q)' \subseteq Chunks \/ \E i \in 0..length - 1 : Todo(q)' = {i} /\ i \notin hot
  <2> SUFFICES ASSUME NEW q \in Callers, ~ (Todo(q)' \subseteq Chunks)
               PROVE  \E i \in 0..length - 1 : Todo(q)' = {i} /\ i \notin hot
    OBVIOUS
  <2>1. PICK i \in 0..length - 1 : Todo(q) = {i} /\ i \notin hot
    BY <1>2 DEF OneEach
  <2> QED BY <2>1, <1>2
<1>5. \A q \in Callers, s \in Callers : \A i \in 0..length - 1 : i \in Todo(q)' /\ i \in Todo(s)' => q = s
  BY <1>2 DEF OneEach
<1> QED BY <1>2, <1>3, <1>4, <1>5 DEF OneEach
LEMMA FirstIsOne == ASSUME NEW c, c.todo # {} PROVE Archive!First(c) \in c.todo
BY DEF Archive!First

\* What a put leaves the call with: the block is done, whatever comes next.
LEMMA NextTodo ==
  ASSUME ArchiveTypes, NEW p \in Callers, calls[p] \in Calls, NEW x, Archive!NextChunk(p, calls[p], x)
  PROVE  \E y : /\ calls' = [calls EXCEPT ![p] = y] /\ calls'[p] = y /\ y.at \in {"idle", "has"}
                /\ Todo(p)' = calls[p].todo \ {x}
<1>1. CASE calls[p].todo = {x}
  <2>1. calls' = [calls EXCEPT ![p] = [at |-> "idle"]] /\ calls'[p] = [at |-> "idle"]
    BY <1>1 DEF Archive!NextChunk, Archive!Ends, Archive!Moves, Archive!None, ArchiveTypes
  <2>2. Todo(p)' = {}
    BY <2>1 DEF Todo
  <2> QED BY <1>1, <2>1, <2>2
<1>2. CASE calls[p].todo # {x}
  <2> DEFINE y == [at |-> "has", todo |-> calls[p].todo \ {x}, base |-> 0, freed |-> 0]
  <2>1. calls' = [calls EXCEPT ![p] = y] /\ calls'[p] = y
    BY <1>2 DEF Archive!NextChunk, Archive!Call, Archive!Moves, ArchiveTypes
  <2>2. y # [at |-> "idle"] /\ y.at = "has" /\ y.todo = calls[p].todo \ {x}
    OBVIOUS
  <2>3. Todo(p)' = calls[p].todo \ {x}
    BY <2>1, <2>2 DEF Todo
  <2> QED BY <2>1, <2>2, <2>3
<1> QED BY <1>1, <1>2

\* A chain that grows: its new block is hot, and one that leaves the window has
\* the call that archives it.
LEMMA ApplyKeeps ==
  ASSUME ArchiveConstants, ArchiveTypes, OneEach, Everywhere, NEW p \in Callers, Archive!Apply(p)
  PROVE  OneEach' /\ Everywhere'
<1>1. /\ length \in Nat /\ MaxLength \in Nat /\ length' = length + 1 /\ length < MaxLength
      /\ UNCHANGED <<stored, archived>> /\ Todo(p) = {} /\ calls[p] = [at |-> "idle"]
  BY DEF Archive!Apply, Archive!None, ArchiveTypes, Todo, ArchiveConstants, StoreConstants
<1>2. /\ \A i \in 0..length' - 1 : i \in 0..length - 1 \/ i = length
      /\ \A i \in 0..length - 1 : i \in 0..length' - 1 /\ i # length
      /\ length \in 0..length' - 1
  BY <1>1
<1>3. \A q \in Callers : length \notin Todo(q) /\ \A i \in hot : i \notin Todo(q)
  <2>1. \A i \in 0..length : i \in 0..MaxLength - 1 /\ i \notin Chunks
    <3>1. \A i \in 0..length : i \in 0..MaxLength - 1
      BY <1>1
    <3> QED BY <3>1 DEF ArchiveConstants
  <2>2. hot \subseteq 0..length - 1 /\ length \in 0..length /\ \A i \in 0..length - 1 : i \in 0..length
    BY <1>1 DEF ArchiveTypes
  <2> QED BY <1>2, <2>1, <2>2 DEF OneEach
<1>4. CASE Cardinality(hot) = HotWindow
  <2> DEFINE o == Archive!Oldest(hot)
             y == [at |-> "has", todo |-> {o}, base |-> 0, freed |-> 0]
  <2>1. o \in hot /\ o \in 0..length - 1
    BY <1>4, OldestIsHot DEF ArchiveTypes, ArchiveConstants
  <2>2. hot' = (hot \cup {length}) \ {o} /\ calls' = [calls EXCEPT ![p] = y]
    BY <1>4, SameSizes DEF Archive!Apply, Archive!Moves, Archive!Call
  <2>3. calls'[p] = y /\ y # [at |-> "idle"] /\ y.at = "has" /\ y.todo = {o}
    BY <2>2 DEF ArchiveTypes
  <2>4. Todo(p)' = {o}
    BY <2>3 DEF Todo
  <2> HIDE DEF o, y
  <2>5. \A q \in Callers : q # p => calls'[q] = calls[q] /\ Todo(q)' = Todo(q)
    BY <2>2 DEF ArchiveTypes, Todo
  <2>6. \A q \in Callers : calls'[q].at # "delete"
    BY <2>3, <2>5 DEF OneEach
  <2>7. \A q \in Callers : Todo(q)' \subseteq Chunks \/ \E i \in 0..length' - 1 : Todo(q)' = {i} /\ i \notin hot'
    <3> SUFFICES ASSUME NEW q \in Callers, q # p
                 PROVE  Todo(q)' \subseteq Chunks \/ \E i \in 0..length' - 1 : Todo(q)' = {i} /\ i \notin hot'
      BY <1>2, <2>1, <2>2, <2>4
    <3> QED BY <1>2, <2>2, <2>5 DEF OneEach
  <2>8. \A q \in Callers, s \in Callers : \A i \in 0..length' - 1 : i \in Todo(q)' /\ i \in Todo(s)' => q = s
    BY <1>2, <1>3, <2>1, <2>4, <2>5 DEF OneEach
  <2>9. \A i \in 0..length' - 1 : i \in hot' \/ (i \in archived' /\ i \in stored') \/ \E q \in Callers : i \in Todo(q)'
    <3> SUFFICES ASSUME NEW i \in 0..length - 1, i # o, i \notin hot, ~(i \in archived /\ i \in stored)
                 PROVE  \E q \in Callers : i \in Todo(q)'
      BY <1>1, <1>2, <2>1, <2>2, <2>4
    <3>1. PICK q \in Callers : i \in Todo(q)
      BY DEF Everywhere
    <3> QED BY <1>1, <2>5, <3>1
  <2> QED BY <2>6, <2>7, <2>8, <2>9 DEF OneEach, Everywhere
<1>5. CASE Cardinality(hot) # HotWindow
  <2>1. hot' = hot \cup {length} /\ calls' = calls
    BY <1>5, SameSizes DEF Archive!Apply
  <2>2. \A q \in Callers : Todo(q)' = Todo(q)
    BY <2>1 DEF Todo
  <2>3. \A q \in Callers : Todo(q)' \subseteq Chunks \/ \E i \in 0..length' - 1 : Todo(q)' = {i} /\ i \notin hot'
    BY <1>2, <2>1, <2>2 DEF OneEach
  <2>4. \A q \in Callers, s \in Callers : \A i \in 0..length' - 1 : i \in Todo(q)' /\ i \in Todo(s)' => q = s
    BY <1>2, <1>3, <2>2 DEF OneEach
  <2>5. \A i \in 0..length' - 1 : i \in hot' \/ (i \in archived' /\ i \in stored') \/ \E q \in Callers : i \in Todo(q)'
    BY <1>1, <1>2, <2>1, <2>2 DEF Everywhere
  <2>6. \A q \in Callers : calls'[q].at # "delete"
    BY <2>1 DEF OneEach
  <2> QED BY <2>3, <2>4, <2>5, <2>6 DEF OneEach, Everywhere
<1> QED BY <1>4, <1>5

\* What a block that is done leaves: its call has the rest to do, and a block
\* of the chain is on the disk with its reference.
LEMMA PutKeeps ==
  ASSUME ArchiveConstants, ArchiveTypes, OneEach, Everywhere, NEW p \in Callers, calls[p].at # "idle",
         NEW x \in stored', Archive!NextChunk(p, calls[p], x), archived' = Archive!Recorded(x),
         UNCHANGED <<length, hot>>, stored \subseteq stored'
  PROVE  OneEach' /\ Everywhere'
<1>1. calls[p] \in Calls /\ Todo(p) = calls[p].todo
  BY TodoOfCall
<1>2. PICK y : /\ calls' = [calls EXCEPT ![p] = y] /\ calls'[p] = y /\ y.at \in {"idle", "has"}
               /\ Todo(p)' = Todo(p) \ {x}
  BY <1>1, NextTodo
<1>3. archived \subseteq archived' /\ (x \in 0..length - 1 => x \in archived')
  <2>1. \A i \in 0..length - 1 : i \in 0..MaxLength - 1
    BY DEF ArchiveTypes, ArchiveConstants, StoreConstants
  <2> QED BY <2>1 DEF Archive!Recorded, Archive!Indices
<1>4. Todo(p)' \subseteq Todo(p) /\ calls'[p].at # "delete"
  BY <1>2
<1>5. \A i \in Todo(p) \ Todo(p)' : i \in 0..length - 1 => i \in archived' /\ i \in stored'
  BY <1>2, <1>3
<1> QED BY <1>2, <1>3, <1>4, <1>5, TurnKeeps

LEMMA KeptStep ==
  ASSUME ArchiveConstants, ArchiveInv, Archive!StoreNext
  PROVE  OneEach' /\ Everywhere'
<1>0. ArchiveTypes /\ OneEach /\ Everywhere /\ StoreConstants
  BY DEF ArchiveInv, ArchiveConstants
<1>1. ASSUME NEW p \in Callers, Archive!Apply(p) PROVE OneEach' /\ Everywhere'
  BY <1>0, <1>1, ApplyKeeps
<1>2. ASSUME NEW p \in Callers, Archive!StoreContent(p) PROVE OneEach' /\ Everywhere'
  <2>1. PICK S \in (SUBSET Chunks) \ {{}} :
          /\ calls' = [calls EXCEPT ![p] = [at |-> "has", todo |-> S, base |-> 0, freed |-> 0]]
          /\ UNCHANGED <<stored, archived, length, hot>> /\ calls[p] = [at |-> "idle"]
    BY <1>2 DEF Archive!StoreContent, Archive!Moves, Archive!Call, Archive!None
  <2> DEFINE y == [at |-> "has", todo |-> S, base |-> 0, freed |-> 0]
  <2>2. y.at = "has" /\ y.todo = S /\ y # [at |-> "idle"] /\ calls'[p] = y
    BY <1>0, <2>1 DEF ArchiveTypes
  <2>3. Todo(p)' = S /\ Todo(p) = {}
    BY <2>1, <2>2 DEF Todo
  <2> HIDE DEF y
  <2>4. \A q \in Callers : q # p => calls'[q] = calls[q] /\ Todo(q)' = Todo(q)
    BY <1>0, <2>1 DEF ArchiveTypes, Todo
  <2>5. \A q \in Callers : calls'[q].at # "delete"
    BY <1>0, <2>2, <2>4 DEF OneEach
  <2>6. \A q \in Callers : Todo(q)' \subseteq Chunks \/ \E i \in 0..length - 1 : Todo(q)' = {i} /\ i \notin hot
    BY <1>0, <2>3, <2>4 DEF OneEach
  <2>7. \A i \in 0..length - 1 : i \notin S
    <3>1. \A i \in 0..length - 1 : i \in 0..MaxLength - 1
      BY <1>0 DEF ArchiveTypes, StoreConstants
    <3> QED BY <3>1 DEF ArchiveConstants
  <2>8. \A q \in Callers, s \in Callers : \A i \in 0..length - 1 : i \in Todo(q)' /\ i \in Todo(s)' => q = s
    BY <1>0, <2>3, <2>4, <2>7 DEF OneEach
  <2>9. \A q \in Callers : Todo(q) \subseteq Todo(q)'
    BY <2>3, <2>4
  <2>10. \A i \in 0..length - 1 : i \in hot \/ (i \in archived /\ i \in stored) \/ \E q \in Callers : i \in Todo(q)'
    BY <1>0, <2>9 DEF Everywhere
  <2>11. length' = length /\ hot' = hot /\ stored' = stored /\ archived' = archived
    BY <2>1
  <2> QED BY <2>5, <2>6, <2>8, <2>10, <2>11 DEF OneEach, Everywhere
<1>3. ASSUME NEW p \in Callers, Archive!Release(p) \/ Archive!Delete(p) PROVE FALSE
  BY <1>0, <1>3 DEF Archive!Release, Archive!Delete, ArchiveConstants, OneEach
<1>4. ASSUME NEW p \in Callers, Archive!Dedup(p) PROVE OneEach' /\ Everywhere'
  BY <1>0, <1>4, PutKeeps DEF Archive!Dedup
<1>5. ASSUME NEW p \in Callers, Archive!AlreadyThere(p) PROVE OneEach' /\ Everywhere'
  BY <1>0, <1>5, PutKeeps DEF Archive!AlreadyThere
<1>6. ASSUME NEW p \in Callers, Archive!Rename(p) PROVE OneEach' /\ Everywhere'
  <2> DEFINE x == Archive!First(calls[p])
  <2>1. CASE x \in temporary
    <3>1. stored' = stored \cup {x} /\ archived' = Archive!Recorded(x) /\ Archive!NextChunk(p, calls[p], x)
          /\ calls[p].at # "idle" /\ UNCHANGED <<length, hot>>
      BY <1>6, <2>1 DEF Archive!Rename
    <3>2. x \in stored' /\ stored \subseteq stored'
      BY <3>1
    <3> HIDE DEF x
    <3> QED BY <1>0, <3>1, <3>2, PutKeeps
  <2>2. CASE x \notin temporary
    <3>1. /\ calls' = [calls EXCEPT ![p] = [at |-> "idle"]] /\ calls[p].at = "rename"
          /\ UNCHANGED <<stored, archived, length, hot>>
      BY <1>6, <2>2 DEF Archive!Rename, Archive!Ends, Archive!Moves, Archive!None
    <3>2. calls[p] \in Calls /\ Todo(p) = calls[p].todo
      BY <1>0, <3>1, TodoOfCall
    <3>3. x \in Todo(p) /\ x \notin 0..length - 1
      BY <2>2, <3>1, <3>2, FirstOfTodo DEF ArchiveInv, Renamable
    <3> HIDE DEF x
    <3>4. Todo(p) \subseteq Chunks
      BY <1>0, <3>3 DEF OneEach
    <3>5. \A i \in 0..length - 1 : i \notin Chunks
      <4>1. \A i \in 0..length - 1 : i \in 0..MaxLength - 1
        BY <1>0 DEF ArchiveTypes, StoreConstants
      <4> QED BY <4>1 DEF ArchiveConstants
    <3>6. calls'[p] = [at |-> "idle"] /\ calls'[p].at # "delete"
      BY <1>0, <3>1 DEF ArchiveTypes
    <3>7. Todo(p)' = {}
      BY <3>6 DEF Todo
    <3>8. \A i \in Todo(p) \ Todo(p)' : i \in 0..length - 1 => i \in archived' /\ i \in stored'
      BY <3>4, <3>5
    <3> QED BY <1>0, <3>1, <3>6, <3>7, <3>8, TurnKeeps
  <2> QED BY <2>1, <2>2
<1>7. ASSUME NEW p \in Callers, NEW y, calls[p].at # "idle", calls' = [calls EXCEPT ![p] = y], y # [at |-> "idle"],
      y.todo = calls[p].todo, y.at # "delete",
             UNCHANGED <<stored, archived, length, hot>>
      PROVE  OneEach' /\ Everywhere'
  <2>1. Todo(p) = calls[p].todo
    BY <1>0, <1>7, TodoOfCall
  <2>2. calls'[p] = y
    BY <1>0, <1>7 DEF ArchiveTypes
  <2>3. Todo(p)' = Todo(p)
    BY <1>7, <2>1, <2>2 DEF Todo
  <2> QED BY <1>0, <1>7, <2>2, <2>3, TurnKeeps
<1>8. ASSUME NEW p \in Callers, Archive!Absent(p) \/ Archive!WriteTmp(p) PROVE OneEach' /\ Everywhere'
  <2>1. PICK a \in {"write", "rename"} : calls' = [calls EXCEPT ![p] = [calls[p] EXCEPT !.at = a]]
        /\ UNCHANGED <<stored, archived, length, hot>>
    BY <1>8 DEF Archive!Absent, Archive!WriteTmp, Archive!Moves
  <2>2. calls[p].at # "idle" /\ calls[p] \in Calls
    BY <1>0, <1>8, TodoOfCall DEF Archive!Absent, Archive!WriteTmp
  <2> DEFINE y == [at |-> a, todo |-> calls[p].todo, base |-> calls[p].base, freed |-> calls[p].freed]
  <2>3. calls' = [calls EXCEPT ![p] = y]
    BY <2>1, <2>2, CallMovesOn
  <2>4. y.at = a /\ y.todo = calls[p].todo /\ y # [at |-> "idle"] /\ a # "delete"
    OBVIOUS
  <2> HIDE DEF y
  <2> QED BY <1>7, <2>1, <2>2, <2>3, <2>4
<1>9. ASSUME NEW p \in Callers, Archive!CheckQuota(p) PROVE OneEach' /\ Everywhere'
  <2> DEFINE x == Archive!First(calls[p])
             y == [at |-> "put", todo |-> calls[p].todo, base |-> used, freed |-> 0]
  <2>1. calls[p].at = "has" /\ x \notin stored /\ UNCHANGED <<stored, archived, length, hot>>
    BY <1>9 DEF Archive!CheckQuota
  <2>2. calls[p] \in Calls /\ x \in Bodies
    <3>1. calls[p] \in Calls /\ x \in calls[p].todo
      BY <1>0, <2>1, TodoOfCall, FirstOfTodo
    <3> HIDE DEF x
    <3> QED BY <3>1 DEF Calls
  <2>3. used + 1 <= Quota
    <3>1. IsFiniteSet(Bodies) /\ IsFiniteSet(stored) /\ stored \subseteq Bodies /\ Cardinality(stored) \in Nat
      BY <1>0, BodiesFinite DEF ArchiveTypes
    <3>2. Cardinality(stored \cup {x}) = Cardinality(stored) + 1
      BY <2>1, <3>1, FS_AddElement
    <3>3. Cardinality(stored \cup {x}) <= Cardinality(Bodies) /\ Cardinality(Bodies) \in Nat
      <4>1. stored \cup {x} \subseteq Bodies
        BY <2>2, <3>1
      <4> HIDE DEF x
      <4> QED BY <3>1, <4>1, FS_Subset, FS_CardinalityType
    <3>4. used <= Cardinality(stored) /\ used \in Int /\ Quota \in Nat /\ Cardinality(Bodies) <= Quota
      BY <1>0 DEF ArchiveInv, Undercounted, ArchiveConstants, StoreConstants, ArchiveTypes
    <3> QED BY <3>1, <3>2, <3>3, <3>4
  <2>4. calls' = [calls EXCEPT ![p] = y]
    BY <1>9, <2>3 DEF Archive!CheckQuota, Archive!Fits, Archive!Moves, Archive!Call
  <2>5. y.at = "put" /\ y.todo = calls[p].todo /\ y # [at |-> "idle"]
    OBVIOUS
  <2> HIDE DEF y, x
  <2> QED BY <1>7, <2>1, <2>4, <2>5
<1>10. ASSUME Archive!Crash PROVE OneEach' /\ Everywhere'
  <2>1. length' = 0 /\ \A q \in Callers : calls'[q] = [at |-> "idle"]
    BY <1>10 DEF Archive!Crash, Archive!None
  <2>2. \A q \in Callers : Todo(q)' = {}
    BY <2>1 DEF Todo
  <2>3. 0..length' - 1 = {}
    BY <2>1
  <2> QED BY <2>1, <2>2, <2>3 DEF OneEach, Everywhere
<1> QED BY <1>1, <1>2, <1>3, <1>4, <1>5, <1>6, <1>8, <1>9, <1>10 DEF Archive!StoreNext

LEMMA AfterPut ==
  ASSUME NEW p, NEW x, Archive!NextChunk(p, calls[p], x) \/ Archive!Ends(p)
  PROVE  \E y : calls' = [calls EXCEPT ![p] = y] /\ y.at \in {"idle", "has"}
<1>1. ASSUME Archive!Ends(p) PROVE \E y : calls' = [calls EXCEPT ![p] = y] /\ y.at \in {"idle", "has"}
  <2>1. calls' = [calls EXCEPT ![p] = Archive!None] /\ Archive!None.at = "idle"
    BY <1>1 DEF Archive!Ends, Archive!Moves, Archive!None
  <2> QED BY <2>1
<1>2. ASSUME NEW S, Archive!Moves(p, Archive!Call("has", S, 0, 0))
      PROVE  \E y : calls' = [calls EXCEPT ![p] = y] /\ y.at \in {"idle", "has"}
  <2>1. calls' = [calls EXCEPT ![p] = Archive!Call("has", S, 0, 0)] /\ Archive!Call("has", S, 0, 0).at = "has"
    BY <1>2 DEF Archive!Moves, Archive!Call
  <2> QED BY <2>1
<1> QED BY <1>1, <1>2 DEF Archive!NextChunk

\* Only the call that renames a block of the chain takes its temporary file.
LEMMA RenamableStep == ASSUME ArchiveConstants, ArchiveInv, Archive!StoreNext PROVE Renamable'
<1>0. ArchiveTypes /\ OneEach /\ Renamable /\ length \in Nat
  BY DEF ArchiveInv, ArchiveTypes
<1> SUFFICES ASSUME NEW q \in Callers, calls'[q].at = "rename", Archive!First(calls'[q]) \in 0..length' - 1
             PROVE  Archive!First(calls'[q]) \in temporary'
  BY DEF Renamable
<1>1. \A p \in Callers : \A y : calls' = [calls EXCEPT ![p] = y] => calls'[p] = y /\ (q # p => calls'[q] = calls[q])
  BY <1>0 DEF ArchiveTypes
<1>2. ASSUME calls'[q] = calls[q], length' = length, temporary \subseteq temporary'
      PROVE  Archive!First(calls'[q]) \in temporary'
  BY <1>0, <1>2 DEF Renamable
<1>3. ASSUME NEW p \in Callers, Archive!Apply(p) PROVE Archive!First(calls'[q]) \in temporary'
  <2>1. /\ temporary' = temporary /\ calls[p] = [at |-> "idle"] /\ length' = length + 1 /\ length < MaxLength
        /\ \/ calls' = calls
           \/ calls' = [calls EXCEPT ![p] = [at |-> "has", todo |-> {Archive!Oldest(hot)}, base |-> 0, freed |-> 0]]
    BY <1>3 DEF Archive!Apply, Archive!Moves, Archive!Call, Archive!None
  <2>2. calls'[q] = calls[q]
    <3> DEFINE y == [at |-> "has", todo |-> {Archive!Oldest(hot)}, base |-> 0, freed |-> 0]
    <3>1. y.at = "has"
      OBVIOUS
    <3>2. calls' = calls \/ calls' = [calls EXCEPT ![p] = y]
      BY <2>1
    <3> HIDE DEF y
    <3> QED BY <1>1, <3>1, <3>2
  <2>3. calls[q].at = "rename" /\ calls[q] \in Calls /\ Archive!First(calls[q]) \in Todo(q)
    BY <1>0, <2>2, TodoOfCall, FirstOfTodo
  <2>4. Archive!First(calls[q]) # length
    <3>1. length \notin Chunks
      BY <1>0, <2>1 DEF ArchiveConstants, StoreConstants
    <3>2. \A i \in 0..length - 1 : i # length
      BY <1>0
    <3> QED BY <1>0, <2>3, <3>1, <3>2 DEF OneEach
  <2>5. Archive!First(calls[q]) \in 0..length - 1
    BY <1>0, <2>1, <2>2, <2>4
  <2> QED BY <1>0, <2>1, <2>2, <2>3, <2>5 DEF Renamable
<1>4. ASSUME NEW p \in Callers, Archive!StoreContent(p) \/ Archive!CheckQuota(p)
      PROVE  Archive!First(calls'[q]) \in temporary'
  <2>1. /\ UNCHANGED <<temporary, length>>
        /\ \E y : calls' = [calls EXCEPT ![p] = y] /\ y.at # "rename"
    <3>1. \E a \in {"has", "put"} : \E S, n : Archive!Moves(p, Archive!Call(a, S, n, 0)) \/ Archive!Ends(p)
      BY <1>4 DEF Archive!StoreContent, Archive!CheckQuota
    <3>2. \A a, S, n : Archive!Call(a, S, n, 0).at = a /\ Archive!None.at = "idle"
      BY DEF Archive!Call, Archive!None
    <3> QED BY <1>4, <3>1, <3>2 DEF Archive!StoreContent, Archive!CheckQuota, Archive!Moves, Archive!Ends
  <2> QED BY <1>1, <1>2, <2>1
<1>5. ASSUME NEW p \in Callers, Archive!Release(p) \/ Archive!Delete(p) PROVE FALSE
  BY <1>0, <1>5 DEF Archive!Release, Archive!Delete, ArchiveConstants, OneEach
<1>6. ASSUME NEW p \in Callers, NEW x, Archive!NextChunk(p, calls[p], x) \/ Archive!Ends(p)
      PROVE  q # p /\ calls'[q] = calls[q]
  <2>1. \E y : calls' = [calls EXCEPT ![p] = y] /\ y.at # "rename"
    BY <1>6, AfterPut
  <2> QED BY <1>1, <2>1
<1>7. ASSUME NEW p \in Callers, Archive!Dedup(p) \/ Archive!AlreadyThere(p) PROVE Archive!First(calls'[q]) \in temporary'
  BY <1>2, <1>6, <1>7 DEF Archive!Dedup, Archive!AlreadyThere
<1>8. ASSUME NEW p \in Callers, Archive!Absent(p) PROVE Archive!First(calls'[q]) \in temporary'
  <2>1. /\ UNCHANGED <<temporary, length>> /\ calls[p].at = "put"
        /\ calls' = [calls EXCEPT ![p] = [calls[p] EXCEPT !.at = "write"]]
    BY <1>8 DEF Archive!Absent, Archive!Moves
  <2>2. calls[p] \in Calls
    BY <1>0, <2>1, TodoOfCall
  <2>3. [calls[p] EXCEPT !.at = "write"].at = "write"
    BY <2>2, CallMovesOn
  <2> QED BY <1>1, <1>2, <2>1, <2>3
<1>9. ASSUME NEW p \in Callers, Archive!WriteTmp(p) PROVE Archive!First(calls'[q]) \in temporary'
  <2>1. /\ temporary' = temporary \cup {Archive!First(calls[p])} /\ length' = length /\ calls[p].at = "write"
        /\ calls' = [calls EXCEPT ![p] = [calls[p] EXCEPT !.at = "rename"]]
    BY <1>9 DEF Archive!WriteTmp, Archive!Moves
  <2>2. calls[p] \in Calls
    BY <1>0, <2>1, TodoOfCall
  <2>3. [calls[p] EXCEPT !.at = "rename"].todo = calls[p].todo
    BY <2>2, CallMovesOn
  <2>4. Archive!First([calls[p] EXCEPT !.at = "rename"]) = Archive!First(calls[p])
    BY <2>3 DEF Archive!First
  <2>5. CASE q = p
    BY <1>1, <2>1, <2>4, <2>5
  <2>6. CASE q # p
    BY <1>1, <1>2, <2>1, <2>6
  <2> QED BY <2>5, <2>6
<1>10. ASSUME NEW p \in Callers, Archive!Rename(p) PROVE Archive!First(calls'[q]) \in temporary'
  <2> DEFINE x == Archive!First(calls[p])
  <2>1. temporary' = temporary \ {x} /\ length' = length /\ calls[p].at = "rename"
    BY <1>10 DEF Archive!Rename
  <2>2. q # p /\ calls'[q] = calls[q]
    BY <1>6, <1>10 DEF Archive!Rename
  <2>3. calls[q].at = "rename" /\ x \in Todo(p) /\ Archive!First(calls[q]) \in Todo(q)
        /\ Archive!First(calls[q]) \in 0..length - 1
    BY <1>0, <2>1, <2>2, TodoOfCall, FirstOfTodo
  <2> HIDE DEF x
  <2>4. Archive!First(calls[q]) # x
    BY <1>0, <2>2, <2>3 DEF OneEach
  <2>5. Archive!First(calls[q]) \in temporary
    BY <1>0, <2>3 DEF Renamable
  <2> QED BY <2>1, <2>2, <2>4, <2>5
<1>11. CASE Archive!Crash
  BY <1>11 DEF Archive!Crash, Archive!None
<1> QED BY <1>3, <1>4, <1>5, <1>7, <1>8, <1>9, <1>10, <1>11 DEF Archive!StoreNext

\* The count misses what a put added while another had read it: it is low,
\* never high.
LEMMA CountStep == ASSUME ArchiveConstants, ArchiveInv, Archive!StoreNext PROVE Undercounted'
<1> DEFINE n == Cardinality(stored)
           Here(c, S) == IF Archive!First(c) \in S THEN 1 ELSE 0
           Low(c, S, m) == c.at \in {"put", "write", "rename"} => c.base + Here(c, S) <= m
<1>0. /\ ArchiveTypes /\ OneEach /\ StoreConstants /\ IsFiniteSet(stored) /\ n \in Nat /\ used \in Int /\ used <= n
      /\ \A p \in Callers : calls[p].at # "idle" => calls[p] \in Calls
      /\ \A p \in Callers : Low(calls[p], stored, n)
  BY BodiesFinite, TodoOfCall DEF ArchiveInv, ArchiveTypes, ArchiveConstants, Undercounted
<1>2. \A p \in Callers : \A y : calls' = [calls EXCEPT ![p] = y] =>
        calls'[p] = y /\ \A q \in Callers : q # p => calls'[q] = calls[q]
  BY <1>0 DEF ArchiveTypes
<1>3. ASSUME NEW p \in Callers, NEW y, calls' = [calls EXCEPT ![p] = y] \/ calls' = calls, Low(y, stored, n),
             stored' = stored, used' <= n
      PROVE  Undercounted'
  <2>1. \A q \in Callers : Low(calls'[q], stored, n)
    BY <1>0, <1>2, <1>3
  <2> HIDE DEF Low
  <2>2. \A q \in Callers : Low(calls'[q], stored', Cardinality(stored'))
    BY <1>3, <2>1
  <2> QED BY <1>3, <2>2 DEF Undercounted, Low
<1>4. \A y : y.at \notin {"put", "write", "rename"} => Low(y, stored, n)
  OBVIOUS
<1>5. ASSUME NEW p \in Callers, Archive!Apply(p) \/ Archive!StoreContent(p) \/ Archive!Dedup(p) PROVE Undercounted'
  <2>1. /\ stored' = stored /\ used' = used
        /\ \/ calls' = calls
           \/ \E y : calls' = [calls EXCEPT ![p] = y] /\ y.at \notin {"put", "write", "rename"}
    BY <1>5 DEF Archive!Apply, Archive!StoreContent, Archive!Dedup,
       Archive!NextChunk, Archive!Ends, Archive!Moves, Archive!Call, Archive!None
  <2> QED BY <1>0, <1>3, <1>4, <2>1
<1>6. ASSUME NEW p \in Callers, Archive!Release(p) \/ Archive!Delete(p) PROVE FALSE
  BY <1>0, <1>6 DEF Archive!Release, Archive!Delete, ArchiveConstants, OneEach
<1>7. ASSUME NEW p \in Callers, Archive!CheckQuota(p) PROVE Undercounted'
  <2> DEFINE y == [at |-> "put", todo |-> calls[p].todo, base |-> used, freed |-> 0]
  <2>1. /\ stored' = stored /\ used' = used /\ Archive!First(calls[p]) \notin stored
        /\ calls' = [calls EXCEPT ![p] = y] \/ calls' = [calls EXCEPT ![p] = [at |-> "idle"]]
    BY <1>7 DEF Archive!CheckQuota, Archive!Ends, Archive!Moves, Archive!Call, Archive!None
  <2>2. Archive!First(y) = Archive!First(calls[p]) /\ y.base = used
    BY DEF Archive!First
  <2>3. Low(y, stored, n)
    BY <1>0, <2>1, <2>2
  <2>4. Low([at |-> "idle"], stored, n)
    BY <1>4
  <2> HIDE DEF y, Low
  <2> QED BY <1>0, <1>3, <2>1, <2>3, <2>4
<1>8. ASSUME NEW p \in Callers, Archive!Absent(p) \/ Archive!WriteTmp(p) PROVE Undercounted'
  <2>1. PICK a \in {"write", "rename"} : calls' = [calls EXCEPT ![p] = [calls[p] EXCEPT !.at = a]]
    BY <1>8 DEF Archive!Absent, Archive!WriteTmp, Archive!Moves
  <2>2. stored' = stored /\ used' = used /\ calls[p].at \in {"put", "write"}
    BY <1>8 DEF Archive!Absent, Archive!WriteTmp
  <2> DEFINE y == [at |-> a, todo |-> calls[p].todo, base |-> calls[p].base, freed |-> calls[p].freed]
  <2>3. calls' = [calls EXCEPT ![p] = y]
    BY <1>0, <2>1, <2>2, CallMovesOn
  <2>4. Archive!First(y) = Archive!First(calls[p]) /\ y.base = calls[p].base
    BY DEF Archive!First
  <2>5. Low(y, stored, n)
    BY <1>0, <2>2, <2>4
  <2> HIDE DEF y, Low
  <2> QED BY <1>0, <1>3, <2>2, <2>3, <2>5
<1>9. ASSUME NEW p \in Callers, Archive!AlreadyThere(p) PROVE Undercounted'
  <2>1. /\ stored' = stored /\ used' = calls[p].base /\ calls[p].at = "put" /\ Archive!First(calls[p]) \in stored
        /\ \E y : calls' = [calls EXCEPT ![p] = y] /\ y.at \notin {"put", "write", "rename"}
    BY <1>9 DEF Archive!AlreadyThere, Archive!NextChunk, Archive!Ends, Archive!Moves, Archive!Call, Archive!None
  <2>2. used' <= n
    <3>1. calls[p].base \in Int /\ calls[p].base + 1 <= n
      BY <1>0, <2>1 DEF Calls
    <3> QED BY <1>0, <2>1, <3>1
  <2> QED BY <1>3, <1>4, <2>1, <2>2
<1>10. ASSUME NEW p \in Callers, Archive!Rename(p) PROVE Undercounted'
  <2> DEFINE x == Archive!First(calls[p])
  <2>1. calls[p].at = "rename" /\ \E y : calls' = [calls EXCEPT ![p] = y] /\ y.at \notin {"put", "write", "rename"}
    BY <1>10, AfterPut DEF Archive!Rename
  <2>2. CASE stored' = stored /\ used' = used
    BY <1>0, <1>3, <1>4, <2>1, <2>2
  <2>3. CASE stored' = stored \cup {x} /\ used' = calls[p].base + 1
    <3>1. Cardinality(stored \cup {x}) = IF x \in stored THEN n ELSE n + 1
      BY <1>0, FS_AddElement
    <3>2. calls[p].base \in Int /\ calls[p].base + (IF x \in stored THEN 1 ELSE 0) <= n
      BY <1>0, <2>1 DEF Calls
    <3>3. used' <= Cardinality(stored')
      BY <1>0, <2>3, <3>1, <3>2
    <3>4. ASSUME NEW q \in Callers PROVE Low(calls'[q], stored', Cardinality(stored'))
      <4>1. CASE q = p
        BY <1>2, <2>1, <4>1
      <4>2. CASE q # p
        <5>1. calls'[q] = calls[q]
          BY <1>2, <2>1, <4>2
        <5>2. CASE calls[q].at \in {"put", "write", "rename"}
          <6>1. calls[q].base \in Int /\ calls[q].base + Here(calls[q], stored) <= n
            BY <1>0, <5>2 DEF Calls
          <6>2. Here(calls[q], stored') <= Here(calls[q], stored) + (IF x \in stored THEN 0 ELSE 1)
            BY <2>3
          <6>3. Here(calls[q], stored') \in Int /\ Here(calls[q], stored) \in Int
            OBVIOUS
          <6> HIDE DEF x, Here
          <6> QED BY <1>0, <2>3, <3>1, <5>1, <6>1, <6>2, <6>3
        <5>3. CASE calls[q].at \notin {"put", "write", "rename"}
          BY <5>1, <5>3
        <5> QED BY <5>2, <5>3
      <4> QED BY <4>1, <4>2
    <3> QED BY <3>3, <3>4 DEF Undercounted
  <2> QED BY <1>10, <2>2, <2>3 DEF Archive!Rename
<1>11. CASE Archive!Crash
  <2>1. stored' = stored /\ used' = n /\ \A q \in Callers : calls'[q] = [at |-> "idle"]
    BY <1>11, SameSizes DEF Archive!Crash, Archive!Adopted, Archive!None
  <2> QED BY <1>0, <2>1 DEF Undercounted
<1> HIDE DEF n, Here, Low
<1> QED BY <1>5, <1>6, <1>7, <1>8, <1>9, <1>10, <1>11 DEF Archive!StoreNext

LEMMA ArchiveStep == ASSUME ArchiveConstants, ArchiveInv, [Archive!StoreNext]_Archive!storeVars PROVE ArchiveInv'
<1>1. CASE Archive!StoreNext
  <2>1. ArchiveTypes'
    BY <1>1, ArchiveTypesStep DEF ArchiveInv, ArchiveConstants
  <2> QED BY <1>1, <2>1, KeptStep, RenamableStep, CountStep DEF ArchiveInv
<1>2. CASE UNCHANGED Archive!storeVars
  BY <1>2 DEF ArchiveInv, ArchiveTypes, OneEach, Everywhere, Renamable, Undercounted, Todo, Archive!storeVars
<1> QED BY <1>1, <1>2

LEMMA NothingIsLost == ASSUME ArchiveInv PROVE Archive!NothingLost
BY DEF ArchiveInv, Everywhere, Todo, Archive!NothingLost, Archive!None

\* Every block of the replicated chain is in memory, or on the disk with a
\* reference to it, or with a call that archives it, however many calls are
\* under way and wherever a crash cuts them, as long as the bodies fit.
THEOREM ArchiveLosesNothing == ASSUME ArchiveConstants PROVE Archive!StoreSpec => []Archive!NothingLost
<1>1. Archive!StoreInit => ArchiveInv
  BY ArchiveInitInv
<1>2. ArchiveInv /\ [Archive!StoreNext]_Archive!storeVars => ArchiveInv'
  BY ArchiveStep
<1>3. ArchiveInv => Archive!NothingLost
  BY NothingIsLost
<1> QED BY <1>1, <1>2, <1>3, PTL DEF Archive!StoreSpec

-----------------------------------------------------------------------------
(* The content store of one browser. *)

SmokeConstants ==
  /\ Roots \cap Contents = {} /\ LargeFiles \subseteq Roots
  /\ \A r \in Roots : BlocksOf[r] \subseteq Contents
  /\ Holdings \subseteq [Peers -> [Smoke!Cids -> Smoke!Copies]]

Fetched(x) == x = [cid |-> x.cid, left |-> x.left, writing |-> x.writing, servedBy |-> x.servedBy, settled |-> x.settled]
Credited(p) == p # Nobody => \E d \in delivered : d[1] = p
\* What was cached stays on record, its groups too.
DiskTypes ==
  /\ fs \in [Smoke!Cids -> Smoke!Copies] /\ opfs \in [Smoke!Cids -> Smoke!Copies]
  /\ holds \in Holdings /\ own \subseteq Roots
  /\ marks \subseteq taken /\ groups \subseteq Roots /\ \A r \in groups : {r} \cup BlocksOf[r] \subseteq taken
\* A read writes what was delivered, and credits who delivered.
ReadsDelivered ==
  /\ reads = [q \in Readers |-> reads[q]] /\ Credited(lastServedBy)
  /\ \A q \in Readers :
       /\ Fetched(reads[q]) /\ Credited(reads[q].servedBy)
       /\ \A p \in reads[q].writing : <<p, reads[q].cid, holds[p][reads[q].cid]>> \in delivered
\* An own file of which nothing was cached is whole where it was stored.
Spared(m) ==
  /\ Smoke!Apart(m) /\ (hasOpfs \/ m \notin LargeFiles)
  /\ taken \cap ({m} \cup BlocksOf[m]) = {} /\ Smoke!Unharmed(m)
WholeFile(m) ==
  /\ \A c \in Smoke!InSmokeFs(m) : fs[c] = "whole"
  /\ m \in LargeFiles => \A c \in BlocksOf[m] : opfs[c] = "whole"
OwnWhole == \A m \in own : Spared(m) => WholeFile(m)
SmokeInv == DiskTypes /\ ReadsDelivered /\ OwnWhole

LEMMA SmokeInitInv == ASSUME SmokeConstants, Smoke!Init PROVE SmokeInv
<1>1. DiskTypes
  BY DEF Smoke!Init, DiskTypes, Smoke!Copies
<1>2. ReadsDelivered
  BY DEF Smoke!Init, ReadsDelivered, Smoke!NoRead, Fetched, Credited
<1>3. OwnWhole
  BY DEF Smoke!Init, OwnWhole
<1> QED BY <1>1, <1>2, <1>3 DEF SmokeInv

\* An own file is spared only as long as nothing of it is cached and nothing
\* torn is delivered.
LEMMA SparedBefore ==
  ASSUME taken \subseteq taken', delivered \subseteq delivered', hasOpfs' = hasOpfs, NEW m, Spared(m)'
  PROVE  Spared(m)
BY DEF Spared, Smoke!Apart, Smoke!Unharmed, Smoke!InSmokeFs

\* A step that leaves own files as they are: a stored file stays where it is,
\* and no block of a spared file is taken away.
LEMMA SparedStay ==
  ASSUME SmokeConstants, own \subseteq Roots, OwnWhole,
         taken \subseteq taken', delivered \subseteq delivered', hasOpfs' = hasOpfs, own' \subseteq own,
         \A m \in own : Spared(m) /\ Spared(m)' /\ m \in own' => \A c \in Smoke!Cids :
           /\ c \in Smoke!InSmokeFs(m) /\ fs[c] = "whole" => fs'[c] = "whole"
           /\ c \in BlocksOf[m] /\ opfs[c] = "whole" => opfs'[c] = "whole"
  PROVE  OwnWhole'
<1> SUFFICES ASSUME NEW m \in own', Spared(m)' PROVE WholeFile(m)'
  BY DEF OwnWhole
<1>1. m \in own /\ Spared(m) /\ WholeFile(m)
  BY SparedBefore DEF OwnWhole
<1>2. Smoke!InSmokeFs(m)' = Smoke!InSmokeFs(m) /\ Smoke!InSmokeFs(m) \subseteq Smoke!Cids /\ BlocksOf[m] \subseteq Smoke!Cids
  BY <1>1 DEF Smoke!InSmokeFs, Smoke!Cids, SmokeConstants
<1> QED BY <1>1, <1>2 DEF WholeFile

\* The reads: one that changes is still a read of what was delivered.
LEMMA ReadsChange ==
  ASSUME ReadsDelivered, NEW q \in Readers, NEW x, Fetched(x), reads' = [reads EXCEPT ![q] = x],
         holds' = holds, delivered \subseteq delivered',
         x.servedBy # Nobody => \E d \in delivered' : d[1] = x.servedBy,
         lastServedBy' # Nobody => \E d \in delivered' : d[1] = lastServedBy',
         \A p \in x.writing : <<p, x.cid, holds[p][x.cid]>> \in delivered'
  PROVE  ReadsDelivered'
<1>1. \A s \in Readers : reads'[s] = IF s = q THEN x ELSE reads[s]
  BY DEF ReadsDelivered
<1>2. reads' = [s \in Readers |-> reads'[s]]
  BY DEF ReadsDelivered
<1>3. ASSUME NEW s \in Readers
      PROVE  /\ Fetched(reads'[s]) /\ (reads'[s].servedBy # Nobody => \E d \in delivered' : d[1] = reads'[s].servedBy)
             /\ \A p \in reads'[s].writing : <<p, reads'[s].cid, holds'[p][reads'[s].cid]>> \in delivered'
  BY <1>1 DEF ReadsDelivered, Credited
<1> QED BY <1>2, <1>3 DEF ReadsDelivered, Credited, Fetched

LEMMA SettledIs ==
  \A x, v : Fetched(x) =>
    [x EXCEPT !.settled = v] =
           [cid |-> x.cid, left |-> x.left, writing |-> x.writing, servedBy |-> x.servedBy, settled |-> v]
BY DEF Fetched

LEMMA ReadSettled ==
  ASSUME NEW x, Fetched(x)
  PROVE  [x EXCEPT !.settled = TRUE] =
         [cid |-> x.cid, left |-> x.left, writing |-> x.writing, servedBy |-> x.servedBy, settled |-> TRUE]
BY SettledIs, Zenon

LEMMA ReadStored ==
  ASSUME NEW x, Fetched(x), NEW w
  PROVE  [[x EXCEPT !.writing = w] EXCEPT !.settled = TRUE] =
           [cid |-> x.cid, left |-> x.left, writing |-> w, servedBy |-> x.servedBy, settled |-> TRUE]
<1> DEFINE y == [x EXCEPT !.writing = w]
<1>1. y = [cid |-> x.cid, left |-> x.left, writing |-> w, servedBy |-> x.servedBy, settled |-> x.settled]
  BY DEF Fetched
<1>2. Fetched(y) /\ y.cid = x.cid /\ y.left = x.left /\ y.writing = w /\ y.servedBy = x.servedBy
  BY <1>1 DEF Fetched
<1> HIDE DEF y
<1>3. [y EXCEPT !.settled = TRUE] =
             [cid |-> y.cid, left |-> y.left, writing |-> y.writing, servedBy |-> y.servedBy, settled |-> TRUE]
  BY <1>2, ReadSettled
<1> QED BY <1>2, <1>3, Zenon DEF y

LEMMA ReadServed ==
  ASSUME NEW x, Fetched(x), NEW l, NEW w, NEW p
  PROVE  [[[x EXCEPT !.left = l] EXCEPT !.writing = w] EXCEPT !.servedBy = p] =
           [cid |-> x.cid, left |-> l, writing |-> w, servedBy |-> p, settled |-> x.settled]
<1> DEFINE y == [x EXCEPT !.left = l]
           z == [y EXCEPT !.writing = w]
<1>1. y = [cid |-> x.cid, left |-> l, writing |-> x.writing, servedBy |-> x.servedBy, settled |-> x.settled]
  BY DEF Fetched
<1>2. Fetched(y) /\ y.cid = x.cid /\ y.writing = x.writing /\ y.left = l /\ y.servedBy = x.servedBy
  BY <1>1 DEF Fetched
<1>3. y.settled = x.settled
  BY <1>1
<1> HIDE DEF y
<1>4. z = [cid |-> y.cid, left |-> y.left, writing |-> w, servedBy |-> y.servedBy, settled |-> y.settled]
  BY <1>2 DEF Fetched
<1>5. Fetched(z) /\ z.cid = y.cid /\ z.left = y.left /\ z.writing = w
  BY <1>4 DEF Fetched
<1>6. z.settled = y.settled
  BY <1>4
<1> HIDE DEF z
<1>7. [z EXCEPT !.servedBy = p] =
             [cid |-> z.cid, left |-> z.left, writing |-> z.writing, servedBy |-> p, settled |-> z.settled]
  BY <1>5 DEF Fetched
<1> QED BY <1>2, <1>3, <1>5, <1>6, <1>7 DEF y, z

LEMMA Raced ==
  ASSUME NEW x, Fetched(x) PROVE Fetched(Smoke!Racing(x)) /\ Smoke!Racing(x) \in {x, Smoke!NoRead}
BY DEF Smoke!Racing, Smoke!NoRead, Fetched

LEMMA NetStep ==
  ASSUME SmokeInv, UNCHANGED <<hasOpfs, holds, Smoke!disk, Smoke!history>>,
         \/ \E p \in Peers : Smoke!AddPeerFallback(p)
         \/ \E c \in Smoke!Cids : Smoke!RetrieveLocal(c)
         \/ \E q \in Readers, c \in Smoke!Cids : Smoke!RetrieveFromPeers(q, c)
         \/ \E q \in Readers, p \in Peers : Smoke!PeerFails(q, p)
         \/ \E q \in Readers : Smoke!TimedOut(q)
         \/ Smoke!Reload
  PROVE  SmokeInv'
<1>0. DiskTypes /\ ReadsDelivered /\ OwnWhole
      /\ UNCHANGED <<hasOpfs, holds, fs, opfs, marks, index, groups, own, taken, delivered>>
  BY DEF SmokeInv, Smoke!disk, Smoke!history
<1>1. DiskTypes' /\ OwnWhole'
  BY <1>0 DEF DiskTypes, OwnWhole, Spared, WholeFile, Smoke!Apart, Smoke!Unharmed, Smoke!InSmokeFs
<1>2. ASSUME reads' = reads, lastServedBy' \in {lastServedBy, Nobody} PROVE ReadsDelivered'
  BY <1>0, <1>2 DEF ReadsDelivered, Credited, Fetched
<1>3. Fetched(Smoke!NoRead) /\ Smoke!NoRead.writing = {} /\ Smoke!NoRead.servedBy = Nobody
  BY DEF Fetched, Smoke!NoRead
<1>4. ASSUME NEW q \in Readers, NEW x, Fetched(x), reads' = [reads EXCEPT ![q] = x], lastServedBy' = lastServedBy,
             \/ x.servedBy = Nobody /\ x.writing = {}
             \/ x.servedBy = reads[q].servedBy /\ x.writing = reads[q].writing /\ x.cid = reads[q].cid
      PROVE  ReadsDelivered'
  <2>1. lastServedBy' # Nobody => \E d \in delivered' : d[1] = lastServedBy'
    BY <1>0, <1>4 DEF ReadsDelivered, Credited
  <2>2. x.servedBy # Nobody => \E d \in delivered' : d[1] = x.servedBy
    BY <1>0, <1>4 DEF ReadsDelivered, Credited
  <2>3. \A p \in x.writing : <<p, x.cid, holds[p][x.cid]>> \in delivered'
    BY <1>0, <1>4 DEF ReadsDelivered
  <2> QED BY <1>0, <1>4, <2>1, <2>2, <2>3, ReadsChange
<1>5. ASSUME NEW c, Smoke!RetrieveLocal(c) PROVE ReadsDelivered'
  BY <1>2, <1>5 DEF Smoke!RetrieveLocal
<1>6. ASSUME NEW q \in Readers, NEW c, Smoke!RetrieveFromPeers(q, c) PROVE ReadsDelivered'
  <2>1. PICK l : /\ reads' = [reads EXCEPT ![q] =
                       [cid |-> c, left |-> l, writing |-> {}, servedBy |-> Nobody, settled |-> FALSE]]
                 /\ lastServedBy' = lastServedBy
    BY <1>6 DEF Smoke!RetrieveFromPeers
  <2> DEFINE x == [cid |-> c, left |-> l, writing |-> {}, servedBy |-> Nobody, settled |-> FALSE]
  <2>2. Fetched(x) /\ x.writing = {} /\ x.servedBy = Nobody
    BY DEF Fetched
  <2> HIDE DEF x
  <2> QED BY <1>4, <2>1, <2>2 DEF x
<1>7. ASSUME NEW q \in Readers, NEW p, Smoke!PeerFails(q, p) PROVE ReadsDelivered'
  <2> DEFINE r == reads[q]
             f == Smoke!Failed(r, p)
  <2>1. Fetched(r)
    BY <1>0 DEF ReadsDelivered
  <2>2. f = [cid |-> r.cid, left |-> r.left \ {p}, writing |-> r.writing, servedBy |-> r.servedBy, settled |-> r.settled]
    BY <2>1 DEF Fetched, Smoke!Failed
  <2>3. Fetched(f) /\ f.servedBy = r.servedBy /\ f.writing = r.writing /\ f.cid = r.cid
    BY <2>2 DEF Fetched
  <2>4. reads' = [reads EXCEPT ![q] = Smoke!Racing(f)] /\ lastServedBy' = lastServedBy
    BY <1>0, <1>7 DEF Smoke!PeerFails, ReadsDelivered
  <2> HIDE DEF f, r
  <2>5. Fetched(Smoke!Racing(f)) /\ Smoke!Racing(f) \in {f, Smoke!NoRead}
    BY <2>3, Raced
  <2> QED BY <1>3, <1>4, <2>3, <2>4, <2>5 DEF r
<1>8. ASSUME NEW q \in Readers, Smoke!TimedOut(q) PROVE ReadsDelivered'
  <2> DEFINE r == reads[q]
             x == [cid |-> r.cid, left |-> r.left, writing |-> r.writing, servedBy |-> r.servedBy, settled |-> TRUE]
  <2>1. Fetched(r)
    BY <1>0 DEF ReadsDelivered
  <2>2. reads' = [reads EXCEPT ![q] = x] /\ lastServedBy' = lastServedBy
    <3>1. [r EXCEPT !.settled = TRUE] = x
      BY <2>1, ReadSettled
    <3>2. reads' = [reads EXCEPT ![q] = [r EXCEPT !.settled = TRUE]] /\ lastServedBy' = lastServedBy
      BY <1>0, <1>8 DEF Smoke!TimedOut
    <3> QED BY <3>1, <3>2
  <2>3. Fetched(x) /\ x.servedBy = r.servedBy /\ x.writing = r.writing /\ x.cid = r.cid
    BY DEF Fetched
  <2> HIDE DEF x, r
  <2> QED BY <1>4, <2>2, <2>3 DEF r
<1>9. ASSUME Smoke!Reload PROVE ReadsDelivered'
  <2>1. reads' = [s \in Readers |-> Smoke!NoRead] /\ lastServedBy' = Nobody
    BY <1>9 DEF Smoke!Reload
  <2>2. \A s \in Readers : reads'[s] = Smoke!NoRead
    BY <2>1
  <2>3. reads' = [s \in Readers |-> reads'[s]]
    BY <2>1
  <2> QED BY <1>3, <2>1, <2>2, <2>3 DEF ReadsDelivered, Credited, Fetched
<1>10. ASSUME NEW p, Smoke!AddPeerFallback(p) PROVE ReadsDelivered'
  BY <1>2, <1>10 DEF Smoke!AddPeerFallback
<1> QED BY <1>1, <1>5, <1>6, <1>7, <1>8, <1>9, <1>10 DEF SmokeInv

\* Bytes arrive: they are on record before anything is written.
LEMMA DeliverStep ==
  ASSUME SmokeConstants, SmokeInv, NEW q \in Readers, NEW p \in Peers, Smoke!PeerDelivers(q, p)
  PROVE  SmokeInv'
<1> DEFINE r == reads[q]
           c == r.cid
           x == [cid |-> r.cid, left |-> r.left \ {p}, writing |-> r.writing \cup {p}, servedBy |-> p, settled |-> r.settled]
<1>0. DiskTypes /\ ReadsDelivered /\ OwnWhole /\ Fetched(r)
  BY DEF SmokeInv, ReadsDelivered
<1>1. /\ delivered' = delivered \cup {<<p, c, holds[p][c]>>}
      /\ opfs' = opfs \/ (opfs[c] = "none" /\ opfs' = [opfs EXCEPT ![c] = "torn"])
      /\ UNCHANGED <<hasOpfs, holds, fs, marks, groups, lastServedBy, own, taken>>
  BY DEF Smoke!PeerDelivers
<1>2. reads' = [reads EXCEPT ![q] = x]
  <2>1. reads' = [reads EXCEPT ![q] =
            [[[r EXCEPT !.left = r.left \ {p}] EXCEPT !.writing = r.writing \cup {p}] EXCEPT !.servedBy = p]]
    BY <1>0 DEF Smoke!PeerDelivers
  <2>2. [[[r EXCEPT !.left = r.left \ {p}] EXCEPT !.writing = r.writing \cup {p}] EXCEPT !.servedBy = p] = x
    BY <1>0, ReadServed
  <2> QED BY <2>1, <2>2
<1>3. DiskTypes'
  <2>1. opfs' \in [Smoke!Cids -> Smoke!Copies]
    BY <1>0, <1>1 DEF DiskTypes, Smoke!Copies
  <2> QED BY <1>0, <1>1, <2>1 DEF DiskTypes
<1>4. ReadsDelivered'
  <2>1. Fetched(x) /\ x.servedBy = p /\ x.writing = r.writing \cup {p} /\ x.cid = c
    BY DEF Fetched
  <2>2. \A w \in r.writing : <<w, c, holds[w][c]>> \in delivered
    BY <1>0 DEF ReadsDelivered
  <2>3. lastServedBy' # Nobody => \E d \in delivered' : d[1] = lastServedBy'
    BY <1>0, <1>1 DEF ReadsDelivered, Credited
  <2>4. \E d \in delivered' : d[1] = p
    <3>1. <<p, c, holds[p][c]>>[1] = p
      OBVIOUS
    <3> QED BY <1>1, <3>1
  <2> HIDE DEF x, c, r
  <2>5. \A w \in x.writing : <<w, x.cid, holds[w][x.cid]>> \in delivered'
    BY <1>1, <2>1, <2>2
  <2> QED BY <1>0, <1>1, <1>2, <2>1, <2>3, <2>4, <2>5, ReadsChange
<1>5. OwnWhole'
  <2>1. \A b \in Smoke!Cids : opfs[b] = "whole" => opfs'[b] = "whole"
    BY <1>0, <1>1 DEF DiskTypes
  <2>2. own \subseteq Roots /\ UNCHANGED <<hasOpfs, fs, own, taken>> /\ delivered \subseteq delivered'
    BY <1>0, <1>1 DEF DiskTypes
  <2> QED BY <1>0, <2>1, <2>2, SparedStay
<1> QED BY <1>3, <1>4, <1>5 DEF SmokeInv

\* A fetched or pushed copy is written to one of the two.
LEMMA PutOne ==
  ASSUME DiskTypes, NEW c, NEW copy, copy \in Smoke!Copies, fs' = Smoke!PutFs(c, copy), opfs' = Smoke!PutOpfs(c, copy)
  PROVE  /\ fs' \in [Smoke!Cids -> Smoke!Copies] /\ opfs' \in [Smoke!Cids -> Smoke!Copies]
         /\ \A b \in Smoke!Cids : b # c \/ copy = "whole" => (fs[b] = "whole" => fs'[b] = "whole")
         /\ \A b \in Smoke!Cids : opfs[b] = "whole" => opfs'[b] = "whole"
<1>1. fs' = fs \/ fs' = [fs EXCEPT ![c] = copy]
  BY DEF Smoke!PutFs
<1>2. opfs' = opfs \/ (copy = "whole" /\ opfs' = [opfs EXCEPT ![c] = copy])
  BY DEF Smoke!PutOpfs, Smoke!Large
<1> QED BY <1>1, <1>2 DEF DiskTypes

LEMMA StoredStep ==
  ASSUME SmokeConstants, SmokeInv, NEW q \in Readers, NEW p \in Peers, Smoke!PeerStored(q, p)
  PROVE  SmokeInv'
<1> DEFINE r == reads[q]
           c == r.cid
           done == [cid |-> r.cid, left |-> r.left, writing |-> r.writing \ {p}, servedBy |-> r.servedBy, settled |-> TRUE]
<1>0. DiskTypes /\ ReadsDelivered /\ OwnWhole /\ Fetched(r)
  BY DEF SmokeInv, ReadsDelivered
<1>1. /\ p \in r.writing /\ fs' = Smoke!PutFs(c, holds[p][c]) /\ opfs' = Smoke!PutOpfs(c, holds[p][c])
      /\ lastServedBy' \in {lastServedBy, r.servedBy}
      /\ UNCHANGED <<hasOpfs, holds, marks, groups, own, taken, delivered>>
  BY DEF Smoke!PeerStored, Smoke!history
<1>2. reads' = [reads EXCEPT ![q] = Smoke!Racing(done)]
  <2>1. [[r EXCEPT !.writing = r.writing \ {p}] EXCEPT !.settled = TRUE] = done
    BY <1>0, ReadStored
  <2>2. reads' = [reads EXCEPT ![q] = Smoke!Racing([[r EXCEPT !.writing = r.writing \ {p}] EXCEPT !.settled = TRUE])]
    BY DEF Smoke!PeerStored
  <2> QED BY <2>1, <2>2
<1>3. <<p, c, holds[p][c]>> \in delivered
  BY <1>0, <1>1 DEF ReadsDelivered
<1>4. ReadsDelivered'
  <2>1. Fetched(done) /\ done.servedBy = r.servedBy /\ done.cid = c /\ done.writing = r.writing \ {p}
    BY DEF Fetched
  <2>2. \A w \in r.writing : <<w, c, holds[w][c]>> \in delivered
    BY <1>0 DEF ReadsDelivered
  <2>3. Credited(r.servedBy) /\ Credited(lastServedBy)
    BY <1>0 DEF ReadsDelivered
  <2> HIDE DEF done, c, r
  <2> DEFINE x == Smoke!Racing(done)
  <2>4. Fetched(x) /\ x \in {done, Smoke!NoRead}
    BY <2>1, Raced
  <2>5. Smoke!NoRead.servedBy = Nobody /\ Smoke!NoRead.writing = {}
    BY DEF Smoke!NoRead
  <2> HIDE DEF x
  <2>6. \A w \in x.writing : <<w, x.cid, holds[w][x.cid]>> \in delivered'
    BY <1>1, <2>1, <2>2, <2>4, <2>5
  <2>7. x.servedBy # Nobody => \E d \in delivered' : d[1] = x.servedBy
    BY <1>1, <2>1, <2>3, <2>4, <2>5 DEF Credited
  <2>8. lastServedBy' # Nobody => \E d \in delivered' : d[1] = lastServedBy'
    BY <1>1, <2>3 DEF Credited
  <2> QED BY <1>0, <1>1, <1>2, <2>4, <2>6, <2>7, <2>8, ReadsChange DEF x
<1>5. CASE c \notin Smoke!Cids
  <2>1. fs' = fs /\ opfs' = opfs
    BY <1>0, <1>1, <1>5 DEF DiskTypes, Smoke!PutFs, Smoke!PutOpfs
  <2>2. DiskTypes'
    BY <1>0, <1>1, <2>1 DEF DiskTypes
  <2>3. OwnWhole'
    BY <1>0, <1>1, <2>1, SparedStay DEF DiskTypes
  <2> QED BY <1>4, <2>2, <2>3 DEF SmokeInv
<1>6. CASE c \in Smoke!Cids
  <2>1. holds[p][c] \in Smoke!Copies
    BY <1>0, <1>6 DEF DiskTypes, SmokeConstants
  <2>2. /\ fs' \in [Smoke!Cids -> Smoke!Copies] /\ opfs' \in [Smoke!Cids -> Smoke!Copies]
        /\ \A b \in Smoke!Cids : b # c \/ holds[p][c] = "whole" => (fs[b] = "whole" => fs'[b] = "whole")
        /\ \A b \in Smoke!Cids : opfs[b] = "whole" => opfs'[b] = "whole"
    BY <1>0, <1>1, <2>1, PutOne
  <2>3. \A m : Spared(m) => c \notin Smoke!InSmokeFs(m) \/ holds[p][c] = "whole"
    BY <1>3 DEF Spared, Smoke!Unharmed
  <2> HIDE DEF c
  <2>4. OwnWhole'
    BY <1>0, <1>1, <2>2, <2>3, SparedStay DEF DiskTypes
  <2>5. DiskTypes'
    BY <1>0, <1>1, <2>2 DEF DiskTypes
  <2> QED BY <1>4, <2>4, <2>5 DEF SmokeInv
<1> QED BY <1>5, <1>6

\* The operations on the disk leave the reads and what was delivered.
LEMMA SameReads ==
  ASSUME ReadsDelivered, UNCHANGED <<reads, lastServedBy, holds, delivered>>
  PROVE  ReadsDelivered'
BY DEF ReadsDelivered, Credited, Fetched

LEMMA StoreFileStep == ASSUME SmokeConstants, SmokeInv, NEW m \in Roots, Smoke!StoreFile(m) PROVE SmokeInv'
<1>0. /\ DiskTypes /\ ReadsDelivered /\ OwnWhole
      /\ UNCHANGED <<hasOpfs, holds, marks, groups, reads, lastServedBy, taken, delivered>> /\ own' = own \cup {m}
  BY DEF SmokeInv, Smoke!StoreFile, Smoke!net
<1>1. fs' = [c \in Smoke!Cids |-> IF c = m \/ (c \in BlocksOf[m] /\ m \notin LargeFiles) THEN "whole" ELSE fs[c]]
  BY DEF Smoke!StoreFile
<1>2. opfs' = [c \in Smoke!Cids |-> IF c \in BlocksOf[m] /\ m \in LargeFiles /\ hasOpfs THEN "whole" ELSE opfs[c]]
  BY DEF Smoke!StoreFile
<1>3. DiskTypes'
  <2>1. fs' \in [Smoke!Cids -> Smoke!Copies]
    BY <1>0, <1>1 DEF DiskTypes, Smoke!Copies
  <2>2. opfs' \in [Smoke!Cids -> Smoke!Copies]
    BY <1>0, <1>2 DEF DiskTypes, Smoke!Copies
  <2> QED BY <1>0, <2>1, <2>2 DEF DiskTypes
<1>4. \A r \in Roots : r \in Smoke!Cids /\ BlocksOf[r] \subseteq Smoke!Cids /\ Smoke!InSmokeFs(r) \subseteq Smoke!Cids
      /\ Smoke!InSmokeFs(r)' = Smoke!InSmokeFs(r)
  BY DEF SmokeConstants, Smoke!Cids, Smoke!InSmokeFs
<1>5. OwnWhole'
  <2> SUFFICES ASSUME NEW r \in own', Spared(r)' PROVE WholeFile(r)'
    BY DEF OwnWhole
  <2>1. r \in Roots
    BY <1>0 DEF DiskTypes
  <2>2. CASE r = m
    <3>1. \A c \in Smoke!InSmokeFs(m) : fs'[c] = "whole"
      BY <1>1, <1>4 DEF Smoke!InSmokeFs
    <3>2. m \in LargeFiles => \A c \in BlocksOf[m] : opfs'[c] = "whole"
      BY <1>0, <1>2, <1>4, <2>2 DEF Spared
    <3> QED BY <1>4, <2>1, <2>2, <3>1, <3>2 DEF WholeFile
  <2>3. CASE r # m
    <3>1. r \in own /\ Spared(r)
      BY <1>0, <2>3, SparedBefore
    <3>2. WholeFile(r)
      BY <1>0, <3>1 DEF OwnWhole
    <3>3. \A c \in Smoke!Cids : (fs[c] = "whole" => fs'[c] = "whole") /\ (opfs[c] = "whole" => opfs'[c] = "whole")
      BY <1>1, <1>2
    <3> QED BY <1>4, <2>1, <3>2, <3>3 DEF WholeFile
  <2> QED BY <2>2, <2>3
<1>6. ReadsDelivered'
  BY <1>0, SameReads
<1> QED BY <1>3, <1>5, <1>6 DEF SmokeInv

\* A block that is cached or pushed is on record from then on: what is done to
\* it concerns no spared file.
LEMMA TakeStep ==
  ASSUME SmokeConstants, SmokeInv, NEW c \in Smoke!Cids, Smoke!Cache(c) \/ Smoke!PushReceived(c)
  PROVE  SmokeInv'
<1>0. /\ DiskTypes /\ ReadsDelivered /\ OwnWhole
      /\ UNCHANGED <<hasOpfs, holds, groups, reads, lastServedBy, own, delivered>>
      /\ marks' = marks \cup {c} /\ taken' = taken \cup {c}
  BY DEF SmokeInv, Smoke!Cache, Smoke!PushReceived, Smoke!net
<1>1. \/ UNCHANGED <<fs, opfs>>
      \/ \E copy \in Smoke!Copies : fs' = Smoke!PutFs(c, copy) /\ opfs' = Smoke!PutOpfs(c, copy)
  <2>1. \A p \in Peers : holds[p][c] \in Smoke!Copies
    BY <1>0 DEF DiskTypes, SmokeConstants
  <2>2. "whole" \in Smoke!Copies
    BY DEF Smoke!Copies
  <2> QED BY <2>1, <2>2 DEF Smoke!Cache, Smoke!PushReceived
<1>2. /\ fs' \in [Smoke!Cids -> Smoke!Copies] /\ opfs' \in [Smoke!Cids -> Smoke!Copies]
      /\ \A b \in Smoke!Cids : b # c => (fs[b] = "whole" => fs'[b] = "whole")
      /\ \A b \in Smoke!Cids : opfs[b] = "whole" => opfs'[b] = "whole"
  <2>1. CASE UNCHANGED <<fs, opfs>>
    BY <1>0, <2>1 DEF DiskTypes
  <2>2. ASSUME NEW copy \in Smoke!Copies, fs' = Smoke!PutFs(c, copy), opfs' = Smoke!PutOpfs(c, copy)
        PROVE  /\ fs' \in [Smoke!Cids -> Smoke!Copies] /\ opfs' \in [Smoke!Cids -> Smoke!Copies]
               /\ \A b \in Smoke!Cids : b # c => (fs[b] = "whole" => fs'[b] = "whole")
               /\ \A b \in Smoke!Cids : opfs[b] = "whole" => opfs'[b] = "whole"
    BY <1>0, <2>2, PutOne
  <2> QED BY <1>1, <2>1, <2>2
<1>3. DiskTypes'
  BY <1>0, <1>2 DEF DiskTypes
<1>4. OwnWhole'
  <2>1. \A m : Spared(m)' => c \notin Smoke!InSmokeFs(m)
    BY <1>0 DEF Spared, Smoke!InSmokeFs
  <2> QED BY <1>0, <1>2, <2>1, SparedStay DEF DiskTypes
<1>5. ReadsDelivered'
  BY <1>0, SameReads
<1> QED BY <1>3, <1>4, <1>5 DEF SmokeInv

LEMMA GroupStep == ASSUME SmokeInv, NEW m \in Roots, Smoke!SaveCacheGroup(m) PROVE SmokeInv'
<1>0. /\ DiskTypes /\ ReadsDelivered /\ OwnWhole /\ {m} \cup BlocksOf[m] \subseteq marks /\ groups' = groups \cup {m}
      /\ UNCHANGED <<hasOpfs, holds, fs, opfs, marks, reads, lastServedBy, own, taken, delivered>>
  BY DEF SmokeInv, Smoke!SaveCacheGroup, Smoke!net, Smoke!history
<1>1. DiskTypes'
  BY <1>0 DEF DiskTypes
<1>2. OwnWhole'
  BY <1>0 DEF OwnWhole, Spared, WholeFile, Smoke!Apart, Smoke!Unharmed, Smoke!InSmokeFs
<1> QED BY <1>0, <1>1, <1>2, SameReads DEF SmokeInv

\* A deletion that removes nothing of a spared file.
LEMMA RemoveKeeps ==
  ASSUME SmokeConstants, SmokeInv, NEW gone, NEW gone2,
         fs' = Smoke!Without(fs, gone), opfs' = Smoke!Without(opfs, gone2),
         marks' \subseteq marks, groups' \subseteq groups, own' \subseteq own,
         UNCHANGED <<hasOpfs, holds, reads, lastServedBy, taken, delivered>>,
         \A m \in own' : Spared(m) => (gone \cup gone2) \cap ({m} \cup BlocksOf[m]) = {}
  PROVE  SmokeInv'
<1>0. DiskTypes /\ ReadsDelivered /\ OwnWhole
  BY DEF SmokeInv
<1>1. DiskTypes'
  BY <1>0 DEF DiskTypes, Smoke!Without, Smoke!Copies
<1>2. \A c \in Smoke!Cids : /\ c \notin gone /\ fs[c] = "whole" => fs'[c] = "whole"
                            /\ c \notin gone2 /\ opfs[c] = "whole" => opfs'[c] = "whole"
  BY DEF Smoke!Without
<1>3. OwnWhole'
  <2>1. \A m \in own : Spared(m) /\ m \in own' => \A c \in Smoke!Cids :
           /\ c \in Smoke!InSmokeFs(m) => c \notin gone
           /\ c \in BlocksOf[m] => c \notin gone2
    BY DEF Smoke!InSmokeFs
  <2>2. own \subseteq Roots
    BY <1>0 DEF DiskTypes
  <2> QED BY <1>0, <1>2, <2>1, <2>2, SparedStay
<1> QED BY <1>0, <1>1, <1>3, SameReads DEF SmokeInv

\* Blocks of other files, and of groups, are no blocks of a spared file.
LEMMA OthersApart ==
  ASSUME SmokeConstants, DiskTypes, NEW m \in own, Spared(m), NEW r \in Roots, r # m
  PROVE  /\ ({r} \cup BlocksOf[r]) \cap ({m} \cup BlocksOf[m]) = {}
         /\ Smoke!GroupOf(r) \subseteq BlocksOf[r] /\ Smoke!ChunksOf(r) \subseteq BlocksOf[r]
BY DEF SmokeConstants, DiskTypes, Spared, Smoke!Apart, Smoke!GroupOf, Smoke!ChunksOf

LEMMA DeleteFileStep == ASSUME SmokeConstants, SmokeInv, NEW m \in Roots, Smoke!DeleteFile(m) PROVE SmokeInv'
<1>0. DiskTypes /\ own' = own \ {m} /\ UNCHANGED <<hasOpfs, holds, reads, lastServedBy, taken, delivered>>
  BY DEF SmokeInv, Smoke!DeleteFile, Smoke!net
<1>1. PICK rs \in {{m}, {m} \cup BlocksOf[m]} : Smoke!DeleteAll(rs)
  BY DEF Smoke!DeleteFile
<1>2. rs \cap Roots = {m}
  BY DEF SmokeConstants
<1> DEFINE gone == rs \cup Smoke!GroupOf(m)
           gone2 == gone \cup Smoke!ChunksOf(m)
<1>3. /\ fs' = Smoke!Without(fs, gone) /\ opfs' = Smoke!Without(opfs, gone2)
      /\ marks' \subseteq marks /\ groups' \subseteq groups
  <2>1. UNION {Smoke!GroupOf(r) : r \in rs \cap Roots} = Smoke!GroupOf(m)
        /\ UNION {Smoke!ChunksOf(r) : r \in rs \cap Roots} = Smoke!ChunksOf(m)
    BY <1>2
  <2> QED BY <1>1, <2>1 DEF Smoke!DeleteAll
<1>4. \A n \in own' : Spared(n) => (gone \cup gone2) \cap ({n} \cup BlocksOf[n]) = {}
  <2> SUFFICES ASSUME NEW n \in own', Spared(n) PROVE (gone \cup gone2) \cap ({n} \cup BlocksOf[n]) = {}
    OBVIOUS
  <2>1. n \in own /\ n # m
    BY <1>0
  <2> QED BY <1>0, <1>1, <2>1, OthersApart
<1> HIDE DEF gone, gone2
<1>5. own' \subseteq own
  BY <1>0
<1> QED BY <1>0, <1>3, <1>4, <1>5, RemoveKeeps

LEMMA ClearCachedStep == ASSUME SmokeConstants, SmokeInv, Smoke!ClearCached PROVE SmokeInv'
<1>0. DiskTypes /\ UNCHANGED <<hasOpfs, holds, reads, lastServedBy, own, taken, delivered>>
  BY DEF SmokeInv, Smoke!ClearCached, Smoke!net, Smoke!history
<1> DEFINE subs == UNION {Smoke!SubsOf(r) : r \in Smoke!Listed \cap Roots}
           roots == (Smoke!Listed \ subs) \cap Roots
           gone == Smoke!Listed \cup UNION {Smoke!GroupOf(r) : r \in roots}
           gone2 == gone \cup UNION {Smoke!ChunksOf(r) : r \in roots}
<1>1. /\ fs' = Smoke!Without(fs, gone) /\ opfs' = Smoke!Without(opfs, gone2)
      /\ marks' \subseteq marks /\ groups' \subseteq groups
  BY DEF Smoke!ClearCached
<1>2. roots \subseteq Roots /\ roots \subseteq taken /\ Smoke!Listed \subseteq taken
  BY <1>0 DEF DiskTypes, Smoke!Listed
<1> HIDE DEF subs, roots
<1>3. \A m \in own' : Spared(m) => (gone \cup gone2) \cap ({m} \cup BlocksOf[m]) = {}
  <2> SUFFICES ASSUME NEW m \in own', Spared(m), NEW x \in gone \cup gone2 PROVE x \notin {m} \cup BlocksOf[m]
    OBVIOUS
  <2>1. m \in own /\ taken \cap ({m} \cup BlocksOf[m]) = {}
    BY <1>0 DEF Spared
  <2>2. CASE x \in Smoke!Listed
    BY <1>2, <2>1, <2>2
  <2>3. ASSUME NEW r \in roots, x \in Smoke!GroupOf(r) \/ x \in Smoke!ChunksOf(r) PROVE x \notin {m} \cup BlocksOf[m]
    <3>1. r \in Roots /\ r # m
      BY <1>2, <2>1
    <3> QED BY <1>0, <2>1, <2>3, <3>1, OthersApart
  <2> QED BY <2>2, <2>3
<1> HIDE DEF gone, gone2
<1> QED BY <1>0, <1>1, <1>3, RemoveKeeps

LEMMA ClearAllStep == ASSUME SmokeConstants, SmokeInv, Smoke!ClearAllContent PROVE SmokeInv'
<1>0. /\ DiskTypes /\ ReadsDelivered /\ own' = {} /\ marks' = {} /\ groups' = {}
      /\ fs' = [c \in Smoke!Cids |-> "none"] /\ opfs' = [c \in Smoke!Cids |-> "none"]
      /\ UNCHANGED <<hasOpfs, holds, reads, lastServedBy, taken, delivered>>
  BY DEF SmokeInv, Smoke!ClearAllContent, Smoke!net
<1>1. DiskTypes'
  BY <1>0 DEF DiskTypes, Smoke!Copies
<1>2. OwnWhole'
  BY <1>0 DEF OwnWhole
<1> QED BY <1>0, <1>1, <1>2, SameReads DEF SmokeInv

LEMMA SmokeStep == ASSUME SmokeConstants, SmokeInv, [Smoke!Next]_Smoke!vars PROVE SmokeInv'
<1>1. CASE UNCHANGED Smoke!vars
  <2>1. UNCHANGED <<hasOpfs, holds, fs, opfs, marks, groups, reads, lastServedBy, own, taken, delivered>>
    BY <1>1 DEF Smoke!vars, Smoke!disk, Smoke!net, Smoke!history
  <2>2. DiskTypes' /\ OwnWhole'
    BY <2>1 DEF SmokeInv, DiskTypes, OwnWhole, Spared, WholeFile, Smoke!Apart, Smoke!Unharmed, Smoke!InSmokeFs
  <2> QED BY <2>1, <2>2, SameReads DEF SmokeInv
<1>2. CASE \/ \E p \in Peers : Smoke!AddPeerFallback(p)
           \/ \E c \in Smoke!Cids : Smoke!RetrieveLocal(c)
           \/ \E q \in Readers, c \in Smoke!Cids : Smoke!RetrieveFromPeers(q, c)
           \/ \E q \in Readers, p \in Peers : Smoke!PeerFails(q, p)
           \/ \E q \in Readers : Smoke!TimedOut(q)
           \/ Smoke!Reload
  <2>1. UNCHANGED <<hasOpfs, holds, Smoke!disk, Smoke!history>>
    BY <1>2 DEF Smoke!AddPeerFallback, Smoke!RetrieveLocal, Smoke!RetrieveFromPeers, Smoke!PeerFails, Smoke!TimedOut, Smoke!Reload
  <2> QED BY <1>2, <2>1, NetStep
<1> QED BY <1>1, <1>2, DeliverStep, StoredStep, StoreFileStep, TakeStep, GroupStep, DeleteFileStep, ClearCachedStep, ClearAllStep
        DEF Smoke!Next

LEMMA WholeAndCredited == ASSUME SmokeConstants, SmokeInv PROVE Smoke!OwnFilesIntact /\ Smoke!CreditDelivered
<1>1. \A m \in own : WholeFile(m) => \A c \in {m} \cup BlocksOf[m] : "whole" \in {fs[c], opfs[c]}
  BY DEF WholeFile, Smoke!InSmokeFs
<1>2. Smoke!OwnFilesIntact
  BY <1>1 DEF SmokeInv, OwnWhole, Spared, Smoke!OwnFilesIntact
<1> QED BY <1>2 DEF SmokeInv, ReadsDelivered, Credited, Smoke!CreditDelivered

\* An own file that shares no block with another, was never cached and met no
\* torn copy stays whole whatever else is stored, cached, read and deleted; and
\* the peer that is credited for a read did deliver.
THEOREM OwnFilesStay == ASSUME SmokeConstants PROVE Smoke!Spec => [](Smoke!OwnFilesIntact /\ Smoke!CreditDelivered)
<1>1. Smoke!Init => SmokeInv
  BY SmokeInitInv
<1>2. SmokeInv /\ [Smoke!Next]_Smoke!vars => SmokeInv'
  BY SmokeStep
<1>3. SmokeInv => Smoke!OwnFilesIntact /\ Smoke!CreditDelivered
  BY WholeAndCredited
<1> QED BY <1>1, <1>2, <1>3, PTL DEF Smoke!Spec
=============================================================================
