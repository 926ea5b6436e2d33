------------------------------- MODULE FileIndex -------------------------------
(* The index of published files, for one content id that several accounts may *)
(* have uploaded (the id is a hash of the bytes): an owner announces and      *)
(* withdraws it with signed records on one gossip topic                       *)
(* (storage-manager.ts), every relay archives the newest record per id        *)
(* (relay/server.ts, file-index.ts), and a holder of the bytes asks the       *)
(* relays for recent withdrawals and deletes what was withdrawn (node.ts).    *)
(* A gossiped record reaches any set of relays.  Time is counted in steps of  *)
(* a shared clock; a withdrawal is kept for Retain of them.                   *)
EXTENDS Integers, FiniteSets

CONSTANTS
    Owners,         \* accounts that upload these bytes
    FileRelays,     \* the relays
    Retain,         \* TOMBSTONE_RETAIN_MS
    Attempts,       \* length of confirmAnnouncement's list of delays
    MaxTime,        \* bound: reads of the clock
    MaxRelayRestarts \* bound: restarts of a relay

VARIABLES
    now,        \* the clock
    index,      \* owner -> timestamp of its own index record; 0 for none
    loops,      \* the confirmAnnouncement loops under way: a set of [rec, left]
    archive,    \* relay -> fileStore's record of the content id
    onDisk,     \* relay -> what saveFiles last wrote
    held,       \* the uploader named in the holder's cached meta, or Nobody
    kept,       \* relay -> time of the newest withdrawal it ever took (history)
    forgotten,  \* relay -> time of the newest withdrawal a restart lost before
                \* saveFiles had written it, unless the relay took it again (history)
    restarts    \* bound counter

indexVars == <<now, index, loops, archive, onDisk, held, kept, forgotten, restarts>>

Nobody == "nobody"
NoRecord == [owner |-> Nobody, time |-> 0, removed |-> FALSE]
Records == [owner : Owners, time : 1..MaxTime, removed : BOOLEAN] \cup {NoRecord}

Announcement(o, t) == [owner |-> o, time |-> t, removed |-> FALSE]
Withdrawal(o, t) == [owner |-> o, time |-> t, removed |-> TRUE]

TombstoneExpired(rec) == rec.removed /\ now - rec.time > Retain

\* archiveFileRecord: newest wins; storing a record also retires withdrawals
\* past their retention, the stored one included.
Archived_AnyOrder(rec, old) ==
    IF rec = NoRecord THEN old
    ELSE IF TombstoneExpired(rec) THEN NoRecord ELSE rec
Archived(rec, old) ==
    IF rec = NoRecord \/ old.time >= rec.time THEN old
    ELSE IF TombstoneExpired(rec) THEN NoRecord ELSE rec

\* History only: the newest withdrawal relay r has taken once it has rec, and
\* what it has forgotten then.
Remembered(r, rec) == IF rec.removed /\ rec.time > kept[r] THEN rec.time ELSE kept[r]
Forgotten(r, rec) == IF rec.removed /\ rec.time >= kept[r] THEN 0 ELSE forgotten[r]

\* publishFileAnnouncement: the relays in S hear it.
Publish(rec, S) ==
    /\ archive' = [r \in FileRelays |-> IF r \in S THEN Archived(rec, archive[r]) ELSE archive[r]]
    /\ kept' = [r \in FileRelays |-> IF r \in S THEN Remembered(r, archive'[r]) ELSE kept[r]]
    /\ forgotten' = [r \in FileRelays |-> IF r \in S THEN Forgotten(r, archive'[r]) ELSE forgotten[r]]

\* fetchFileRecords: the newest record among the answers.
Newest(answers) ==
    IF answers = {} THEN NoRecord
    ELSE CHOOSE a \in answers : \A b \in answers : b.time <= a.time

\* GET /files with withdrawn=1, and verifiedWithdrawals over the union.
WithdrawalsSeen(S) == Newest({archive[r] : r \in {s \in FileRelays : s \in S /\ archive[s].removed}})

\* setArchiveProbe: lookupFiles drops withdrawals before the probe sees them.
Probe(S) ==
    LET rec == Newest({archive[r] : r \in S}) IN
    [present |-> rec # NoRecord /\ ~rec.removed, removed |-> FALSE]

IndexInit ==
    /\ now = 0 /\ restarts = 0 /\ held = Nobody
    /\ index = [o \in Owners |-> 0]
    /\ loops = {}
    /\ archive = [r \in FileRelays |-> NoRecord]
    /\ onDisk = [r \in FileRelays |-> NoRecord]
    /\ kept = [r \in FileRelays |-> 0]
    /\ forgotten = [r \in FileRelays |-> 0]

\* announceFile
AnnounceFile(o, S) ==
    /\ now < MaxTime
    /\ now' = now + 1
    /\ index' = [index EXCEPT ![o] = now + 1]
    /\ Publish(Announcement(o, now + 1), S)
    /\ loops' = loops \cup {[rec |-> Announcement(o, now + 1), left |-> Attempts]}
    /\ UNCHANGED <<onDisk, held, restarts>>

\* handleDeleteRequest at the holder, when the gossiped request arrives
Deleted(o, arrives) == IF arrives /\ held = o THEN Nobody ELSE held

\* doRemoveFromLibrary: the delete request, then removeFileAnnouncement
RemoveFile(o, S, arrives) ==
    /\ now < MaxTime
    /\ index[o] # 0
    /\ now' = now + 1
    /\ held' = Deleted(o, arrives)
    /\ index' = [index EXCEPT ![o] = 0]
    /\ Publish(Withdrawal(o, now + 1), S)
    /\ loops' = loops \cup {[rec |-> Withdrawal(o, now + 1), left |-> Attempts]}
    /\ UNCHANGED <<onDisk, restarts>>

\* confirmAnnouncement after one of its delays: ask, and publish again when
\* the answer is not the expected one.
ConfirmAnnouncement(loop, S, T) ==
    /\ LET seen == Probe(S)
           rest == loops \ {loop} IN
       IF seen.present /\ seen.removed = loop.rec.removed
       THEN loops' = rest /\ UNCHANGED <<archive, kept, forgotten>>
       ELSE /\ loops' = IF loop.left = 1 THEN rest ELSE rest \cup {[loop EXCEPT !.left = @ - 1]}
            /\ Publish(loop.rec, T)
    /\ UNCHANGED <<now, index, onDisk, held, restarts>>

\* reannounceTrackedFiles: the record again, with the time it was made
Reannounce(o, S) ==
    /\ index[o] # 0
    /\ Publish(Announcement(o, index[o]), S)
    /\ UNCHANGED <<now, index, loops, onDisk, held, restarts>>

\* The holder caches the bytes for an owner that publishes them.
HolderCaches(o) ==
    /\ held = Nobody /\ index[o] # 0
    /\ held' = o
    /\ UNCHANGED <<now, index, loops, archive, onDisk, kept, forgotten, restarts>>

\* sweepWithdrawnContent
Sweep(S) ==
    /\ held # Nobody
    /\ WithdrawalsSeen(S) # NoRecord
    /\ held' = Nobody
    /\ UNCHANGED <<now, index, loops, archive, onDisk, kept, forgotten, restarts>>

\* requestRecordBackfill: a relay that was asked for the id and has nothing
\* takes a peer's row.
Backfill(r, p) ==
    /\ archive[r] = NoRecord /\ archive[p] # NoRecord
    /\ archive' = [archive EXCEPT ![r] = Archived(archive[p], @)]
    /\ kept' = [kept EXCEPT ![r] = Remembered(r, archive'[r])]
    /\ forgotten' = [forgotten EXCEPT ![r] = Forgotten(r, archive'[r])]
    /\ UNCHANGED <<now, index, loops, onDisk, held, restarts>>

\* A record of some other file is stored and retires an expired withdrawal.
Retire(r) ==
    /\ TombstoneExpired(archive[r])
    /\ archive' = [archive EXCEPT ![r] = NoRecord]
    /\ UNCHANGED <<now, index, loops, onDisk, held, kept, forgotten, restarts>>

\* saveFiles, every five seconds
SaveFiles(r) ==
    /\ onDisk' = [onDisk EXCEPT ![r] = archive[r]]
    /\ UNCHANGED <<now, index, loops, archive, held, kept, forgotten, restarts>>

\* The relay stops and loads its file; what it had not written it forgets.
RestartRelay(r) ==
    /\ restarts < MaxRelayRestarts
    /\ restarts' = restarts + 1
    /\ archive' = [archive EXCEPT ![r] = onDisk[r]]
    /\ forgotten' = [forgotten EXCEPT ![r] = IF onDisk[r].time < kept[r] THEN kept[r] ELSE @]
    /\ UNCHANGED <<now, index, loops, onDisk, held, kept>>

Tick ==
    /\ now < MaxTime
    /\ now' = now + 1
    /\ UNCHANGED <<index, loops, archive, onDisk, held, kept, forgotten, restarts>>

IndexNext ==
    \/ Tick
    \/ \E o \in Owners : HolderCaches(o)
    \/ \E o \in Owners, S \in SUBSET FileRelays : AnnounceFile(o, S) \/ Reannounce(o, S)
    \/ \E o \in Owners, S \in SUBSET FileRelays, arrives \in BOOLEAN : RemoveFile(o, S, arrives)
    \/ \E loop \in loops, S, T \in SUBSET FileRelays : ConfirmAnnouncement(loop, S, T)
    \/ \E S \in SUBSET FileRelays : Sweep(S)
    \/ \E r, p \in FileRelays : Backfill(r, p)
    \/ \E r \in FileRelays : Retire(r) \/ SaveFiles(r) \/ RestartRelay(r)

IndexSpec == IndexInit /\ [][IndexNext]_indexVars

---------------------------------------------------------------------------

\* The variables have their types.
IndexTypeOK ==
    /\ now \in 0..MaxTime
    /\ index \in [Owners -> 0..MaxTime]
    /\ loops \subseteq [rec : Records, left : 1..Attempts]
    /\ archive \in [FileRelays -> Records] /\ onDisk \in [FileRelays -> Records]
    /\ held \in Owners \cup {Nobody}

\* archiveFileRecord says "a stale re-announcement can never revive a
\* withdrawal".  While a withdrawal a relay took is inside its retention, the
\* relay serves no announcement older than it, whatever is re-announced with
\* its old timestamp, republished by a confirmation loop, handed over by a
\* peer or reloaded from disk.  The code keeps that word for every withdrawal
\* but one: saveFiles runs every five seconds, and a withdrawal the relay took
\* after the last of them is gone when it restarts, so the older announcement
\* it reloads, or hears again, stands until the withdrawal reaches it again.
NoStaleRevival ==
    \A r \in FileRelays :
        kept[r] > forgotten[r] /\ now - kept[r] <= Retain => archive[r].removed \/ archive[r].time >= kept[r]

\* node.ts, sweepWithdrawnContent: "Drop content whose owner has withdrawn it."
\* The holder keeps what its owner still publishes.
SweepSparesPublished ==
    [][\A o \in Owners : held = o /\ index[o] # 0 /\ index'[o] # 0 => held' = o]_indexVars
=============================================================================
