----------------------------- MODULE KeyBlobs -----------------------------
(***************************************************************************)
(* One account's encrypted key blob, its directory record and the devices  *)
(* that hold them.  The blob seals the keys under PIN, face and (kind      *)
(* "split") a recovery share; its hash, the linked anchor, is repeated in  *)
(* the directory record, and a recovery refuses a blob whose hash is not   *)
(* the record's.  The blob is posted to the relays once, at each write     *)
(* (newest `updatedAt` wins there); the record is gossiped by every device *)
(* of the owner every 20 s, under a version counter that the browser keeps *)
(* (highest version wins at a relay).  Handlers that await in the middle   *)
(* are two actions; a page closed between them loses the second.           *)
(* A seal is named by a number: its anchor and the ciphertexts it covers.  *)
(***************************************************************************)
EXTENDS Naturals, FiniteSets, FiniteSetsExt

CONSTANTS
  Relays,        \* relays the devices know
  Devices,       \* browsers the owner uses
  FirstKinds,    \* kinds of blob an account may start with
  MaxSeals,      \* bound: seals ever made
  MaxClock,      \* bound: timestamps taken by blob writes
  MaxVersion,    \* bound: record versions a browser stamps
  MaxFaults,     \* bound: pages closed and site data cleared
  FreeAttempts   \* wrong PINs before the backoff starts

VARIABLES
  blobs,    \* [Relays -> blob]      keyBlobStore of a relay
  recs,     \* [Relays -> record]    accountStore of a relay
  dev,      \* [Devices -> device]   localStorage, IndexedDB and memory of a browser
  pc,       \* [Devices -> pending]  the handler a browser is in the middle of
  clock,    \* the last timestamp taken
  seals,    \* seals made so far
  faults,   \* pages closed and site data cleared so far
  changed   \* [Devices -> seal]     history: the seal of the last change reported done

vars == <<blobs, recs, dev, pc, clock, seals, faults, changed>>

NoBlob == [id |-> 0, pin |-> 0, kind |-> "none", at |-> 0]
NoRec == [anchor |-> 0, version |-> 0]
Idle == [op |-> "idle", seal |-> NoBlob]
Kinds == {"face", "pin", "split"}

\* wallet: the account's entry in localStorage; pin 0: saved without PIN fields
\* anchor: the ledger's copy, from which the gossiped record is rebuilt
Blank(version) ==
  [wallet |-> FALSE, pin |-> 0, saved |-> 0, blob |-> NoBlob, rec |-> 0,
   anchor |-> 0, version |-> version, share |-> FALSE, session |-> 0,
   fails |-> 0, locked |-> FALSE]

First(kind) == [id |-> 1, pin |-> IF kind = "face" THEN 0 ELSE 1, kind |-> kind, at |-> 1]

\* createEncryptedKeyBlob and the end of account creation, on one device
Created(kind) ==
  [Blank(1) EXCEPT !.wallet = TRUE, !.pin = First(kind).pin, !.saved = 1,
                   !.blob = First(kind), !.rec = 1, !.anchor = 1,
                   !.share = kind = "split"]

Init ==
  /\ \E d \in Devices, kind \in FirstKinds :
       /\ dev = [e \in Devices |-> IF e = d THEN Created(kind) ELSE Blank(0)]
       /\ blobs = [r \in Relays |-> First(kind)]
  /\ recs = [r \in Relays |-> [anchor |-> 1, version |-> 1]]
  /\ pc = [d \in Devices |-> Idle]
  /\ clock = 1 /\ seals = 1 /\ faults = 0
  /\ changed = [d \in Devices |-> 0]

----------------------------------------------------------------------------
\* What the relays keep

\* archiveKeyBlob: an older or equal timestamp is ignored
Newer(new, old) == new.at > old.at
PostBlob(b, reached) ==
  blobs' = [r \in Relays |-> IF r \in reached /\ Newer(b, blobs[r]) THEN b ELSE blobs[r]]

\* archiveAccountRecord: a lower version is ignored
Keeps(old, new) == new.version < old.version
Gossip(rec, reached) ==
  recs' = [r \in Relays |->
             IF r \in reached /\ ~Keeps(recs[r], rec) THEN rec ELSE recs[r]]

\* The newest blob (the highest record) among the relays that answer
NewestBlob(answering) == CHOOSE b \in {blobs[r] : r \in answering} :
                           \A r \in answering : blobs[r].at <= b.at
TopRecord(answering) == CHOOSE rec \in {recs[r] : r \in answering} :
                          \A r \in answering : recs[r].version <= rec.version

----------------------------------------------------------------------------
\* PIN entry

Unlocked(d) == dev[d].session # 0

\* requirePin, first part: a wallet saved without PIN fields takes them from the blob
PatchPin(d) ==
  /\ dev[d].wallet /\ dev[d].pin = 0 /\ dev[d].blob.pin # 0
  /\ dev' = [dev EXCEPT ![d].pin = dev[d].blob.pin]
  /\ UNCHANGED <<blobs, recs, pc, clock, seals, faults, changed>>

\* requirePin: the verifier of the wallet decides; success is cached for a session
EnterPin(d) ==
  /\ dev[d].wallet /\ dev[d].pin # 0 /\ ~Unlocked(d) /\ ~dev[d].locked
  /\ \/ dev' = [dev EXCEPT ![d].session = dev[d].pin, ![d].fails = 0]
     \/ /\ dev[d].fails <= FreeAttempts
        /\ dev' = [dev EXCEPT ![d].fails = @ + 1, ![d].locked = dev[d].fails >= FreeAttempts]
  /\ UNCHANGED <<blobs, recs, pc, clock, seals, faults, changed>>

\* the session cache and the backoff run out
Expire(d) ==
  /\ dev[d].locked \/ Unlocked(d)
  /\ \/ dev' = [dev EXCEPT ![d].session = 0]
     \/ dev' = [dev EXCEPT ![d].locked = FALSE]
  /\ UNCHANGED <<blobs, recs, pc, clock, seals, faults, changed>>

----------------------------------------------------------------------------
\* Fetching and saving a blob

\* findKeyBlobByUsername: the local copy if there is one, else the newest the
\* answering relays hold, which is cached before anyone has verified it
FindKeyBlob(d) ==
  /\ dev[d].blob = NoBlob
  /\ \E answering \in SUBSET Relays \ {{}} :
       dev' = [dev EXCEPT ![d].blob = NewestBlob(answering)]
  /\ UNCHANGED <<blobs, recs, pc, clock, seals, faults, changed>>

\* saveKeyBlob: stored locally, and posted once to whatever relays it reaches
SaveKeyBlob(d, b) ==
  /\ clock < MaxClock
  /\ clock' = clock + 1
  /\ \E reached \in SUBSET Relays : PostBlob([b EXCEPT !.at = clock'], reached)

NextSeal(pin, kind) == [id |-> seals + 1, pin |-> pin, kind |-> kind, at |-> clock + 1]

\* the first half of a change: the new blob is saved, the record is not yet
Rotate(d, new) ==
  /\ seals < MaxSeals /\ seals' = seals + 1
  /\ SaveKeyBlob(d, new)
  /\ dev' = [dev EXCEPT ![d].blob = new]
  /\ pc' = [pc EXCEPT ![d] = [op |-> "change", seal |-> new]]
  /\ changed' = [changed EXCEPT ![d] = 0]
  /\ UNCHANGED <<recs, faults>>

\* The old PIN (and for a split blob the cached share) opens what it sealed
Opens(d, b) == b.pin = dev[d].session /\ (b.kind = "split" => dev[d].share)

\* "Update PIN": re-sealed under a new PIN and salt, of the same kind
ChangePin(d) ==
  /\ pc[d] = Idle /\ dev[d].wallet /\ dev[d].pin # 0 /\ Unlocked(d)
  /\ dev[d].blob.kind \in {"pin", "split"}
  /\ Opens(d, dev[d].blob)
  /\ Rotate(d, NextSeal(seals + 1, dev[d].blob.kind))

\* "Update Face": re-sealed under the session's PIN; a cached share upgrades
\* the blob to split, and without it a split blob is refused
FaceKind(d) == IF ~Unlocked(d) THEN "face" ELSE IF dev[d].share THEN "split" ELSE "pin"
MayRebind(d) ==
  IF Unlocked(d) THEN dev[d].blob.kind = "split" => dev[d].share
                 ELSE dev[d].pin = 0 /\ dev[d].blob.kind = "face"
UpdateFace(d) ==
  /\ pc[d] = Idle /\ dev[d].wallet /\ dev[d].blob # NoBlob
  /\ MayRebind(d)
  /\ Rotate(d, NextSeal(dev[d].session, FaceKind(d)))

\* syncAccountRecord: IndexedDB, gossip, then the ledger's own copy
RefreshLedger(d, anchor) == anchor
SyncAccountRecord(d) ==
  /\ pc[d].op = "change" /\ dev[d].version < MaxVersion
  /\ LET anchor == pc[d].seal.id
     IN /\ dev' = [dev EXCEPT ![d].rec = anchor, ![d].version = @ + 1,
                              ![d].anchor = RefreshLedger(d, anchor),
                              ![d].saved = anchor, ![d].pin = pc[d].seal.pin,
                              ![d].session = pc[d].seal.pin]
        /\ changed' = [changed EXCEPT ![d] = anchor]
        /\ \E reached \in SUBSET Relays :
             Gossip([anchor |-> anchor, version |-> dev[d].version + 1], reached)
  /\ pc' = [pc EXCEPT ![d] = Idle]
  /\ UNCHANGED <<blobs, clock, seals, faults>>

\* publishLocalData: an owned record is rebuilt from the ledger's copy
PublishLocalData(d) ==
  /\ dev[d].wallet /\ dev[d].version < MaxVersion
  /\ dev' = [dev EXCEPT ![d].rec = dev[d].anchor, ![d].version = @ + 1]
  /\ \E reached \in SUBSET Relays :
       Gossip([anchor |-> dev[d].anchor, version |-> dev[d].version + 1], reached)
  /\ UNCHANGED <<blobs, pc, clock, seals, faults, changed>>

----------------------------------------------------------------------------
\* Recovery on a device

\* resolveAccount: the record comes from the relays only when none is cached
ResolveAccount(d) ==
  /\ dev[d].rec = 0
  /\ \E answering \in SUBSET Relays \ {{}} :
       LET anchor == TopRecord(answering).anchor
       IN dev' = [dev EXCEPT ![d].rec = anchor,
                             ![d].anchor = IF @ = 0 THEN anchor ELSE @]
  /\ UNCHANGED <<blobs, recs, pc, clock, seals, faults, changed>>

\* "Recover": the fetched blob must hash to the record's anchor; the camera,
\* the relays' challenges and the PIN prompt follow
RecoverStart(d) ==
  /\ pc[d] = Idle /\ dev[d].blob # NoBlob /\ dev[d].rec = dev[d].blob.id
  /\ pc' = [pc EXCEPT ![d] = [op |-> "recover", seal |-> dev[d].blob]]
  /\ UNCHANGED <<blobs, recs, dev, clock, seals, faults, changed>>

\* a wrong PIN or a face that does not match
RecoverFails(d) ==
  /\ pc[d].op = "recover"
  /\ dev' = [dev EXCEPT ![d].fails = IF @ > FreeAttempts THEN @ ELSE @ + 1,
                        ![d].locked = dev[d].fails >= FreeAttempts]
  /\ pc' = [pc EXCEPT ![d] = Idle]
  /\ UNCHANGED <<blobs, recs, clock, seals, faults, changed>>

\* the recovered blob, its attempt counter reset, is stamped anew and posted
RecoverDone(d) ==
  /\ pc[d].op = "recover"
  /\ LET b == [pc[d].seal EXCEPT !.at = clock + 1]
         e == dev[d]
     IN /\ SaveKeyBlob(d, b)
        /\ dev' = [dev EXCEPT ![d].blob = b, ![d].session = b.pin,
                              ![d].share = @ \/ b.kind = "split", ![d].fails = 0,
                              ![d].locked = FALSE, ![d].wallet = TRUE,
                              ![d].pin = IF e.wallet THEN @ ELSE b.pin,
                              ![d].saved = IF e.wallet THEN @ ELSE b.id,
                              ![d].anchor = IF @ = 0 THEN b.id ELSE @]
  /\ pc' = [pc EXCEPT ![d] = IF pc[d].seal.kind = "face"
                               THEN [op |-> "upgrade", seal |-> pc[d].seal] ELSE Idle]
  /\ UNCHANGED <<recs, seals, faults, changed>>

\* a face-only account may add a PIN at that point: the blob is sealed anew,
\* as split when the relays take a share, and nothing else is written
AddPin(d) ==
  /\ pc[d].op = "upgrade"
  /\ \/ /\ seals < MaxSeals /\ seals' = seals + 1
        /\ \E kind \in {"pin", "split"} :
             LET b == NextSeal(seals + 1, kind)
             IN /\ SaveKeyBlob(d, b)
                /\ dev' = [dev EXCEPT ![d].blob = b, ![d].session = b.pin,
                                      ![d].share = @ \/ kind = "split"]
        /\ changed' = [changed EXCEPT ![d] = 0]
     \/ UNCHANGED <<blobs, dev, clock, seals, changed>>
  /\ pc' = [pc EXCEPT ![d] = Idle]
  /\ UNCHANGED <<recs, faults>>

\* "Recover with Key Pair": the backup code needs no blob integrity check
RecoverKeys(d) ==
  /\ pc[d] = Idle /\ ~dev[d].wallet /\ dev[d].blob # NoBlob
  /\ dev' = [dev EXCEPT ![d].wallet = TRUE, ![d].pin = dev[d].blob.pin,
                        ![d].saved = dev[d].blob.id,
                        ![d].anchor = IF @ = 0 THEN dev[d].blob.id ELSE @]
  /\ UNCHANGED <<blobs, recs, pc, clock, seals, faults, changed>>

----------------------------------------------------------------------------
\* Faults

\* a page closed or reloaded: memory is lost, and the ledger's copy is rebuilt
\* from the cached record, else from the wallet
Reload(d) ==
  /\ faults < MaxFaults /\ faults' = faults + 1
  /\ dev' = [dev EXCEPT ![d].session = 0,
                        ![d].anchor = IF dev[d].rec # 0 THEN dev[d].rec ELSE dev[d].saved]
  /\ pc' = [pc EXCEPT ![d] = Idle]
  /\ UNCHANGED <<blobs, recs, clock, seals, changed>>

\* the browser's site data is cleared, or the owner moves to a new browser
Wipe(d) ==
  /\ faults < MaxFaults /\ faults' = faults + 1
  /\ dev' = [dev EXCEPT ![d] = Blank(0)]
  /\ pc' = [pc EXCEPT ![d] = Idle]
  /\ changed' = [changed EXCEPT ![d] = 0]
  /\ UNCHANGED <<blobs, recs, clock, seals>>

Next ==
  \E d \in Devices :
    \/ PatchPin(d) \/ EnterPin(d) \/ Expire(d) \/ FindKeyBlob(d)
    \/ ChangePin(d) \/ UpdateFace(d) \/ SyncAccountRecord(d) \/ PublishLocalData(d)
    \/ ResolveAccount(d) \/ RecoverStart(d) \/ RecoverFails(d) \/ RecoverDone(d)
    \/ AddPin(d) \/ RecoverKeys(d) \/ Reload(d) \/ Wipe(d)

Spec == Init /\ [][Next]_vars

----------------------------------------------------------------------------
\* Properties

Blobs == [id : 0..MaxSeals, pin : 0..MaxSeals, kind : Kinds \cup {"none"}, at : 0..MaxClock]

\* Type invariant of the stores of relays and browsers.
KeyBlobsTypeOK ==
  /\ blobs \in [Relays -> Blobs]
  /\ recs \in [Relays -> [anchor : 0..MaxSeals, version : 0..MaxVersion]]
  /\ dev \in [Devices -> [wallet : BOOLEAN, pin : 0..MaxSeals, saved : 0..MaxSeals,
                          blob : Blobs, rec : 0..MaxSeals, anchor : 0..MaxSeals,
                          version : 0..MaxVersion, share : BOOLEAN,
                          session : 0..MaxSeals, fails : 0..FreeAttempts + 1,
                          locked : BOOLEAN]]
  /\ pc \in [Devices -> [op : {"idle", "change", "recover", "upgrade"}, seal : Blobs]]
  /\ changed \in [Devices -> 0..MaxSeals]

\* Once "PIN updated" or "Face updated" is shown, the blob, the record, the ledger's copy
\* and the wallet of that browser stay on the change, across publish ticks, reloads and
\* recoveries: nothing rebuilds an older record from memory (syncAccountRecord,
\* updateAccountFields and publishLocalData).
ChangeSticks ==
  \A d \in Devices : changed[d] # 0 =>
    /\ dev[d].blob.id = changed[d] /\ dev[d].rec = changed[d]
    /\ dev[d].anchor = changed[d] /\ dev[d].saved = changed[d]
    /\ dev[d].pin = dev[d].blob.pin

\* What "Persist the rotated blob, then sync the account record's linkedAnchor" is for:
\* on a browser at rest, the blob hashes to the anchor its record is published with.
AnchorFollowsBlob ==
  \A d \in Devices : dev[d].wallet /\ pc[d] = Idle => dev[d].anchor = dev[d].blob.id
============================================================================
