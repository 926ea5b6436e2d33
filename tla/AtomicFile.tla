------------------------------ MODULE AtomicFile ------------------------------
(* How relay/server.ts keeps a store on disk: atomicWrite writes              *)
(* `<file>.tmp`, flushes it, copies the old file to `.bak` and renames the    *)
(* temporary file over the target; the loader parses the target when the      *)
(* relay starts and takes an empty store when it cannot.  Every step is an    *)
(* await, so the writes of two saves interleave when the caller does not      *)
(* wait for the first (recordOperator and performNetworkWipe call it without  *)
(* await, and two verify requests each await a saveFaceDB of their own).      *)
(*                                                                            *)
(* Directory entries point at inodes, as on any POSIX file system: opening an *)
(* existing `.tmp` truncates the inode another save is still writing.         *)
EXTENDS Integers, FiniteSets

CONSTANTS
    Writers,        \* saves that may be under way at the same time
    MaxVersion,     \* bound: changes of the store in memory
    Size,           \* version -> bytes of its JSON
    MaxCrashes      \* bound: restarts of the relay

VARIABLES
    mem,        \* version of the store in memory; 0 is the empty store
    saved,      \* version of the last save that finished (history)
    crowded,    \* writers whose save was under way with another one (history)
    suspect,    \* the target was put there by a crowded save (history)
    step,       \* writer -> "idle", "started", "opened", "written" or "backed"
    data,       \* writer -> the version it serialised
    fd,         \* writer -> the inode it has open
    tmp,        \* inode of `<file>.tmp`, or NoInode
    file,       \* inode of the target, or NoInode
    bak,        \* content of `<file>.bak`
    content,    \* inode -> a version, Empty or Torn
    versions,   \* bound counter: versions of the store so far
    crashes     \* bound counter

fileVars == <<mem, saved, crowded, suspect, step, data, fd, tmp, file, bak, content, versions, crashes>>

Inodes == 1..(Cardinality(Writers) + 1)
NoInode == 0
Empty == -1
Torn == -2

\* JSON.parse in the loader: an unreadable file is an empty store.
Parsed(c) == IF c < 0 THEN 0 ELSE c
OnDisk == IF file = NoInode THEN 0 ELSE Parsed(content[file])

\* Bytes written over what the inode holds: a shorter text leaves the tail of
\* a longer one behind it.
Overwritten(old, v) == IF old < 0 \/ Size[v] >= Size[old] THEN v ELSE Torn

FileInit ==
    /\ mem = 0 /\ saved = 0 /\ versions = 0 /\ crashes = 0
    /\ crowded = {} /\ suspect = FALSE
    /\ step = [w \in Writers |-> "idle"]
    /\ data = [w \in Writers |-> 0]
    /\ fd = [w \in Writers |-> NoInode]
    /\ tmp = NoInode /\ file = NoInode
    /\ bak = Empty
    /\ content = [i \in Inodes |-> Empty]

\* A handler changes the store; the save is a step of its own.
Change ==
    /\ versions < MaxVersion
    /\ versions' = versions + 1
    /\ mem' = versions + 1
    /\ UNCHANGED <<saved, crowded, suspect, step, data, fd, tmp, file, bak, content, crashes>>

UnderWay == {w \in Writers : step[w] # "idle"}

\* saveFaceDB and the others: the store is serialised before the first await.
Save(w) ==
    /\ step[w] = "idle"
    /\ step' = [step EXCEPT ![w] = "started"]
    /\ data' = [data EXCEPT ![w] = mem]
    /\ crowded' = IF UnderWay = {} THEN {} ELSE crowded \cup UnderWay \cup {w}
    /\ UNCHANGED <<mem, saved, suspect, fd, tmp, file, bak, content, versions, crashes>>

InUse == {tmp, file} \cup {fd[w] : w \in {x \in Writers : step[x] \in {"opened", "written", "backed"}}}

\* fs.open(tmp, 'w')
OpenTmp_InPlace(w) ==
    /\ step[w] = "started"
    /\ step' = [step EXCEPT ![w] = "opened"]
    /\ LET inode == IF file # NoInode THEN file ELSE CHOOSE i \in Inodes : i \notin InUse IN
       /\ file' = inode
       /\ tmp' = inode
       /\ fd' = [fd EXCEPT ![w] = inode]
       /\ content' = [content EXCEPT ![inode] = Empty]
    /\ UNCHANGED <<mem, saved, crowded, suspect, data, bak, versions, crashes>>
OpenTmp(w) ==
    /\ step[w] = "started"
    /\ step' = [step EXCEPT ![w] = "opened"]
    /\ LET inode == IF tmp # NoInode THEN tmp ELSE CHOOSE i \in Inodes : i \notin InUse IN
       /\ tmp' = inode
       /\ fd' = [fd EXCEPT ![w] = inode]
       /\ content' = [content EXCEPT ![inode] = Empty]
    /\ UNCHANGED <<mem, saved, crowded, suspect, data, file, bak, versions, crashes>>

\* fh.writeFile, chmod, sync, close
WriteTmp(w) ==
    /\ step[w] = "opened"
    /\ step' = [step EXCEPT ![w] = "written"]
    /\ content' = [content EXCEPT ![fd[w]] = Overwritten(@, data[w])]
    /\ UNCHANGED <<mem, saved, crowded, suspect, data, fd, tmp, file, bak, versions, crashes>>

\* fs.copyFile(file, bak); its failure is swallowed
Backup(w) ==
    /\ step[w] = "written"
    /\ step' = [step EXCEPT ![w] = "backed"]
    /\ bak' = IF file = NoInode THEN bak ELSE content[file]
    /\ UNCHANGED <<mem, saved, crowded, suspect, data, fd, tmp, file, content, versions, crashes>>

\* fs.rename; without a `.tmp` it fails and the failure is logged
Rename(w) ==
    /\ step[w] = "backed"
    /\ step' = [step EXCEPT ![w] = "idle"]
    /\ IF tmp # NoInode
       THEN file' = tmp /\ tmp' = NoInode /\ saved' = data[w] /\ suspect' = (w \in crowded)
       ELSE UNCHANGED <<file, tmp, saved, suspect>>
    /\ UNCHANGED <<mem, crowded, data, fd, bak, content, versions, crashes>>

\* The relay stops between two awaits and starts again from the file.
Restart ==
    /\ crashes < MaxCrashes
    /\ crashes' = crashes + 1
    /\ mem' = OnDisk
    /\ step' = [w \in Writers |-> "idle"]
    /\ UNCHANGED <<saved, crowded, suspect, data, fd, tmp, file, bak, content, versions>>

FileNext ==
    \/ Change \/ Restart
    \/ \E w \in Writers : Save(w) \/ OpenTmp(w) \/ WriteTmp(w) \/ Backup(w) \/ Rename(w)

FileSpec == FileInit /\ [][FileNext]_fileVars

---------------------------------------------------------------------------

\* The variables have their types.
FileTypeOK ==
    /\ mem \in 0..MaxVersion /\ saved \in 0..MaxVersion
    /\ crowded \subseteq Writers /\ suspect \in BOOLEAN
    /\ \A i \in Inodes : content[i] \in {Empty, Torn} \cup (0..MaxVersion)
    /\ file \in Inodes \cup {NoInode} /\ tmp \in Inodes \cup {NoInode}

\* atomicWrite says "a reader (or a crash) never sees a half-written file":
\* whatever a restart reads at any moment is, whole, the version that the last
\* finished save wrote.  The code keeps that word for saves that run alone,
\* whatever the saves before them did to the file: two saves under way at once
\* share `<file>.tmp`, so what the first of them to finish puts in place may be
\* torn, older or still open in the other, until a save that no other one
\* overlaps has finished.
CrashReadsASave ==
    ~suspect => /\ file # NoInode => content[file] \notin {Empty, Torn}
                /\ OnDisk = saved
=============================================================================
