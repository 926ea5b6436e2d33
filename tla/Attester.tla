------------------------------ MODULE Attester ------------------------------
(***************************************************************************)
(* The personhood attester of one relay (relay/server.ts).  A client draws *)
(* a challenge, proves a live face and asks for an attestation of its new  *)
(* account: one visit.  The attestation takes one of the human's face      *)
(* slots and the user name, provisionally: both go back when no open block *)
(* of the account reaches the relay's archive in time.  The handler writes *)
(* the face database in the middle of its work, and other requests run     *)
(* then.  An account may be verified more than once, each time with a      *)
(* challenge of its own.  The relay may restart, and it may be wiped by a  *)
(* network reset.                                                          *)
(*                                                                         *)
(* The face matcher is taken to recognise a human exactly, so a human      *)
(* stands for the nid of the face.  Limits per IP address, expired         *)
(* challenges and malformed requests refuse a request without a trace:     *)
(* here the request is simply not made.                                    *)
(***************************************************************************)
EXTENDS Integers, FiniteSets, Sequences, SequencesExt

CONSTANTS
  Visits,         \* the challenges that clients draw
  AccountOf,      \* AccountOf[v]: the account that visit v asks an attestation for
  HumanOf,        \* HumanOf[v]: the human in front of the camera
  Names,          \* user names
  FaceMax,        \* FACE_MAX of the network
  OperatorCount,  \* OPERATOR_COUNT
  MaxRestarts, MaxWipes  \* bounds of a run

Humans == {HumanOf[v] : v \in Visits}
Accounts == {AccountOf[v] : v \in Visits}
None == "none"
NoUse == [name |-> None, index |-> 0, generation |-> 0]

VARIABLES
  count,       \* faceDescriptorDB: count[h] is the slots that h uses
  session,     \* session[v]: the challenge session drawn for v, issued or used
  verifying,   \* verifying[v]: what the suspended verify handler of v will record
  pending,     \* pendingFaceUses: pending[a] is the visit whose use of a slot is provisional
  registry,    \* usernameRegistry: registry[n] is the visit that claimed n
  opened,      \* accounts whose open block the archive holds
  operators,   \* the operator accounts, in the order they were attested
  disk,        \* the counts, the registry and the archive as last saved
  attested,    \* history: attested[v] is what the attestation of v recorded
  swept,       \* history: visits whose slot was given back
  overtaken,   \* history: visits whose provisional use a later visit overwrote
  interrupted, \* history: humans whose verification a wipe interrupted
  restarts, wipes

attVars == <<count, session, verifying, pending, registry, opened, operators, disk,
             attested, swept, overtaken, interrupted, restarts, wipes>>

AttesterInit ==
  /\ count = [h \in Humans |-> 0] /\ session = [v \in Visits |-> None]
  /\ verifying = [v \in Visits |-> NoUse] /\ pending = [a \in Accounts |-> None]
  /\ registry = [n \in Names |-> None] /\ opened = {} /\ operators = <<>>
  /\ disk = [count |-> count, registry |-> registry, opened |-> {}]
  /\ attested = [v \in Visits |-> NoUse] /\ swept = {} /\ overtaken = {} /\ interrupted = {}
  /\ restarts = 0 /\ wipes = 0

\* POST /face-verify/challenge: a session that one verification will use up.
Challenge(v) ==
  /\ session[v] = None
  /\ session' = [session EXCEPT ![v] = "issued"]
  /\ UNCHANGED <<count, verifying, pending, registry, opened, operators, disk,
                 attested, swept, overtaken, interrupted, restarts, wipes>>

FreeFor(n, h) == registry[n] \in {None} \cup {v \in Visits : HumanOf[v] = h}

\* POST /face-verify/verify, up to the write of the face database.  Nothing
\* asks whether the account was verified before.
Verify(v, n) ==
  LET h == HumanOf[v] IN
  /\ session[v] = "issued"
  /\ count[h] < FaceMax /\ FreeFor(n, h)
  /\ session' = [session EXCEPT ![v] = "used"]
  /\ count' = [count EXCEPT ![h] = @ + 1]
  /\ verifying' = [verifying EXCEPT ![v] = [name |-> n, index |-> count[h], generation |-> wipes]]
  /\ UNCHANGED <<pending, registry, opened, operators, disk,
                 attested, swept, overtaken, interrupted, restarts, wipes>>

\* The rest of the handler, once the face database is written: the use
\* replaces one that is still provisional for the same account.
Attest(v) ==
  LET a == AccountOf[v]  use == verifying[v] IN
  /\ use /= NoUse
  /\ disk' = [disk EXCEPT !.count = count]
  /\ verifying' = [verifying EXCEPT ![v] = NoUse]
  /\ pending' = [pending EXCEPT ![a] = v]
  /\ registry' = [registry EXCEPT ![use.name] = v]
  /\ operators' = IF Len(operators) >= OperatorCount \/ a \in Range(operators)
                  THEN operators ELSE Append(operators, a)
  /\ attested' = [attested EXCEPT ![v] = use]
  /\ overtaken' = overtaken \cup ({pending[a]} \ {None})
  /\ UNCHANGED <<count, session, opened, swept, interrupted, restarts, wipes>>

\* archiveEngineBlock: the open block of an attested account arrives, in time or late.
ArchiveOpen(a) ==
  /\ \E v \in Visits : AccountOf[v] = a /\ attested[v] /= NoUse
  /\ a \notin opened
  /\ opened' = opened \cup {a}
  /\ pending' = [pending EXCEPT ![a] = None]
  /\ UNCHANGED <<count, session, verifying, registry, operators, disk,
                 attested, swept, overtaken, interrupted, restarts, wipes>>

Released_OnePerFace(h, stale) == IF count[h] > 0 /\ \E v \in stale : HumanOf[v] = h THEN count[h] - 1 ELSE count[h]

\* The slots h uses once those of the stale visits are given back, one by one.
Released(h, stale) ==
  LET n == Cardinality({v \in stale : HumanOf[v] = h}) IN IF count[h] > n THEN count[h] - n ELSE 0

\* Only the account of an abandoned attempt that still holds a name gives it back.
HeldBy(n, stale) ==
  \E v \in stale : attested[v].name = n /\ registry[n] /= None /\ AccountOf[registry[n]] = AccountOf[v]

\* releaseStaleFaceUses: the uses that have been pending for too long are given back.
ReleaseStale(stale) ==
  /\ stale /= {} /\ \A v \in stale : pending[AccountOf[v]] = v
  /\ pending' = [a \in Accounts |-> IF pending[a] \in stale THEN None ELSE pending[a]]
  /\ count' = [h \in Humans |-> Released(h, stale)]
  /\ registry' = [n \in Names |-> IF HeldBy(n, stale) THEN None ELSE registry[n]]
  /\ disk' = [disk EXCEPT !.count = count', !.registry = registry']
  /\ swept' = swept \cup stale
  /\ UNCHANGED <<session, verifying, opened, operators, attested, overtaken, interrupted, restarts, wipes>>

\* saveUsernames and saveEngineBlocks, every five seconds.
FlushStores ==
  /\ disk' = [disk EXCEPT !.registry = registry, !.opened = opened]
  /\ disk' /= disk
  /\ UNCHANGED <<count, session, verifying, pending, registry, opened, operators,
                 attested, swept, overtaken, interrupted, restarts, wipes>>

\* The process restarts: sessions, suspended handlers and provisional uses are gone.
Restart ==
  /\ restarts < MaxRestarts /\ restarts' = restarts + 1
  /\ count' = disk.count /\ registry' = disk.registry /\ opened' = disk.opened
  /\ session' = [v \in Visits |-> IF session[v] = "issued" THEN "used" ELSE session[v]]
  /\ verifying' = [v \in Visits |-> NoUse] /\ pending' = [a \in Accounts |-> None]
  /\ UNCHANGED <<operators, disk, attested, swept, overtaken, interrupted, wipes>>

\* performNetworkWipe: an operator's reset, or a peer relay that is a generation ahead.
Wipe ==
  /\ wipes < MaxWipes /\ wipes' = wipes + 1
  /\ count' = [h \in Humans |-> 0] /\ registry' = [n \in Names |-> None]
  /\ opened' = {} /\ pending' = [a \in Accounts |-> None] /\ operators' = <<>>
  /\ disk' = [disk EXCEPT !.count = count']
  /\ interrupted' = interrupted \cup {HumanOf[v] : v \in {w \in Visits : verifying[w] /= NoUse}}
  /\ UNCHANGED <<session, verifying, attested, swept, overtaken, restarts>>

AttesterNext ==
  \/ \E v \in Visits : Challenge(v) \/ Attest(v)
  \/ \E a \in Accounts : ArchiveOpen(a)
  \/ \E v \in Visits, n \in Names : Verify(v, n)
  \/ \E stale \in SUBSET Visits : ReleaseStale(stale)
  \/ FlushStores \/ Restart \/ Wipe

AttesterSpec == AttesterInit /\ [][AttesterNext]_attVars

-----------------------------------------------------------------------------
(* Properties *)

Uses == [name : Names, index : Nat, generation : Nat] \cup {NoUse}

\* The stores have their shapes, and no face ever uses more slots than it has, or fewer than none.
AttesterTypeOK ==
  /\ count \in [Humans -> 0..FaceMax] /\ disk.count \in [Humans -> 0..FaceMax]
  /\ session \in [Visits -> {None, "issued", "used"}]
  /\ verifying \in [Visits -> Uses] /\ attested \in [Visits -> Uses]
  /\ pending \in [Accounts -> Visits \cup {None}]
  /\ registry \in [Names -> Visits \cup {None}] /\ disk.registry \in [Names -> Visits \cup {None}]
  /\ disk.opened \subseteq Accounts /\ opened \subseteq Accounts /\ swept \cup overtaken \subseteq Visits
  /\ operators \in Seq(Accounts) /\ Len(operators) <= OperatorCount

\* The use of a slot that v took in this generation, and nobody gave back.
Kept(v) == attested[v] /= NoUse /\ attested[v].generation = wipes /\ v \notin swept

\* The visits that h holds a slot for: being verified, provisional, or of an account that opened.
Using(h) ==
  {v \in Visits : /\ HumanOf[v] = h
                  /\ \/ verifying[v] /= NoUse
                     \/ pending[AccountOf[v]] = v
                     \/ AccountOf[v] \in opened /\ Kept(v)}

\* While its open block is on its way or archived, an account keeps the slot its attestation took:
\* no sweep of other attempts, repeated verification, restart or reset gives that slot to somebody
\* else (server.ts 301-327).  A verification that a wipe interrupts is the exception.
SlotsHeld == \A h \in Humans \ interrupted : count[h] >= Cardinality(Using(h))

\* A use that is no longer provisional, and neither given back nor overtaken.
Settled(v) == Kept(v) /\ v \notin overtaken /\ pending[AccountOf[v]] /= v

\* Abandoned attempts do not burn a slot: unless the relay restarted and forgot which uses were
\* provisional, every slot in use stands for a visit that is being verified, is provisional or belongs
\* to an account that opened, and an account has one slot for good.  The exception is a visit that a
\* later one of its account overtook: the handler overwrites the entry that would have given the slot
\* back (server.ts 1815), and neither the sweep nor the open block returns it.
NoSlotBurnt ==
  restarts = 0 =>
    /\ \A h \in Humans : count[h] <= Cardinality(Using(h) \cup {v \in overtaken : HumanOf[v] = h})
    /\ \A v, w \in Visits : Settled(v) /\ Settled(w) /\ AccountOf[v] = AccountOf[w] => v = w
=============================================================================
