----------------------------- MODULE BlockStore -----------------------------
(***************************************************************************)
(* The storage of a replica that keeps only recent blocks in memory:       *)
(* engine/node/archiving-store.ts moves older bodies through               *)
(* engine/node/archive.ts into engine/content/content-store.ts, which      *)
(* keeps a quota above a storage/fs-backend.ts directory.                  *)
(*                                                                         *)
(* Every call of these four classes is asynchronous and nothing serialises *)
(* them, so a call is a program counter of its own: the constant Callers   *)
(* is the number of calls that may be suspended at once.  A block body     *)
(* takes one unit of the quota, and its CID is a model value: block number *)
(* i of the replicated account, or a chunk of some other content.          *)
(***************************************************************************)
EXTENDS Integers, FiniteSets

CONSTANTS
    Callers,        \* calls that can be under way at the same time
    Chunks,         \* CIDs of content stored beside the archive
    Releasable,     \* those of them that are given up again
    Quota,          \* ContentStore.quotaBytes, in units of one body
    HotWindow,      \* ArchivingStore.hotWindow
    MaxLength,      \* bound on the replicated chain
    MaxDrift,       \* bound: no content is stored once bytesUsed is this far below nothing
    MaxCrashes      \* bound on the process crashes

VARIABLES
    disk,           \* the files <root>/xx/<cid>
    tmp,            \* the files <root>/xx/<cid>.tmp
    used,           \* ContentStore.bytesUsed
    calls,          \* the suspended calls: Callers -> None or a record
    length, hot,    \* Held.length, and the indices whose bodies are in Held.hot
    archived,       \* the indices with an ArchiveRef in Held.archived
    raced,          \* since the store was opened, a call read or lowered
                    \* bytesUsed while another still held a reading of it (history)
    found,          \* what the directory held when the store was opened (history)
    crashes

storeVars == <<disk, tmp, used, calls, length, hot, archived, raced, found, crashes>>

Indices == 0 .. MaxLength - 1
Cids    == Indices \cup Chunks
None    == [at |-> "idle"]

\* One call: where it is suspended, the CIDs still to do, the value of
\* bytesUsed it has read, the bytes it has freed so far.
Call(at, todo, base, freed) == [at |-> at, todo |-> todo, base |-> base, freed |-> freed]

StoreInit ==
    /\ disk = {} /\ tmp = {} /\ used = 0
    /\ calls = [p \in Callers |-> None]
    /\ length = 0 /\ hot = {} /\ archived = {} /\ crashes = 0
    /\ raced = FALSE /\ found = 0

Moves(p, call) == calls' = [calls EXCEPT ![p] = call]
Ends(p) == Moves(p, None)
First(c) == CHOOSE x \in c.todo : TRUE

-----------------------------------------------------------------------------
(* ArchivingStore.apply: the block is appended and the oldest body leaves  *)
(* the hot window at once; its archival is awaited afterwards.             *)

Oldest(S) == CHOOSE i \in S : \A j \in S : i <= j

Apply(p) ==
    /\ calls[p] = None /\ length < MaxLength
    /\ length' = length + 1
    /\ IF Cardinality(hot) = HotWindow
         THEN /\ hot' = (hot \cup {length}) \ {Oldest(hot)}
              /\ Moves(p, Call("has", {Oldest(hot)}, 0, 0))
         ELSE hot' = hot \cup {length} /\ UNCHANGED calls
    /\ UNCHANGED <<disk, tmp, used, archived, raced, found, crashes>>

(* ContentStore.storeContent: the room its new chunks need is checked      *)
(* once, then they are put one by one.                                     *)
StoreContent(p) ==
    /\ calls[p] = None
    /\ \E S \in (SUBSET Chunks) \ {{}} :
         /\ used + Cardinality(S \ disk) <= Quota /\ used >= 0 - MaxDrift
         /\ Moves(p, Call("has", S, 0, 0))
    /\ UNCHANGED <<disk, tmp, used, length, hot, archived, raced, found, crashes>>

(* ContentStore.release *)
Release(p) ==
    /\ calls[p] = None
    /\ \E S \in (SUBSET Releasable) \ {{}} : Moves(p, Call("delete", S, 0, 0))
    /\ UNCHANGED <<disk, tmp, used, length, hot, archived, raced, found, crashes>>

-----------------------------------------------------------------------------
(* ContentStore.putBlock, step by step.                                    *)

\* The caller's turn after one of its puts: the next chunk, or its return.
NextChunk(p, c, x) == IF c.todo = {x} THEN Ends(p) ELSE Moves(p, Call("has", c.todo \ {x}, 0, 0))

\* ArchivingStore records the reference when its put has returned.
Recorded(x) == IF x \in Indices THEN archived \cup {x} ELSE archived

\* `await backend.has(cid)` said that the block is there already.
Dedup(p) ==
    LET c == calls[p] x == First(c) IN
    /\ c.at = "has" /\ x \in disk
    /\ NextChunk(p, c, x) /\ archived' = Recorded(x)
    /\ UNCHANGED <<disk, tmp, used, length, hot, raced, found, crashes>>

\* The quota check; bytesUsed is read here, before the put is awaited, and
\* written when it has returned.
Fits(c) == used + 1 <= Quota
Holding == {p \in Callers : calls[p].at \in {"put", "write", "rename"}}
Races == raced' = (raced \/ Holding # {})

CheckQuota(p) ==
    LET c == calls[p] IN
    /\ c.at = "has" /\ First(c) \notin disk
    /\ IF Fits(c) THEN Moves(p, Call("put", c.todo, used, 0)) /\ Races
       ELSE Ends(p) /\ UNCHANGED raced
    /\ UNCHANGED <<disk, tmp, used, length, hot, archived, found, crashes>>

\* FileSystemBackend.put: the block is absent; then the temporary file is
\* written; then it is renamed.
Absent(p) ==
    /\ calls[p].at = "put" /\ First(calls[p]) \notin disk
    /\ Moves(p, [calls[p] EXCEPT !.at = "write"])
    /\ UNCHANGED <<disk, tmp, used, length, hot, archived, raced, found, crashes>>

WriteTmp(p) ==
    /\ calls[p].at = "write"
    /\ tmp' = tmp \cup {First(calls[p])}
    /\ Moves(p, [calls[p] EXCEPT !.at = "rename"])
    /\ UNCHANGED <<disk, used, length, hot, archived, raced, found, crashes>>

\* ... another put of the same block got there first: nothing is added.
AlreadyThere(p) ==
    LET c == calls[p] x == First(c) IN
    /\ c.at = "put" /\ x \in disk
    /\ used' = c.base /\ archived' = Recorded(x)
    /\ NextChunk(p, c, x)
    /\ UNCHANGED <<disk, tmp, length, hot, raced, found, crashes>>

\* The rename, and the addition to the value of bytesUsed read before.
Rename(p) ==
    LET c == calls[p] x == First(c) IN
    /\ c.at = "rename"
    /\ tmp' = tmp \ {x}
    /\ IF x \in tmp
         THEN /\ disk' = disk \cup {x} /\ used' = c.base + 1
              /\ archived' = Recorded(x) /\ NextChunk(p, c, x)
         ELSE Ends(p) /\ UNCHANGED <<disk, used, archived>>   \* ENOENT is thrown
    /\ UNCHANGED <<length, hot, raced, found, crashes>>

\* FileSystemBackend.delete of the next block; the last one frees the quota.
Delete(p) ==
    LET c == calls[p] x == First(c)
        freed == c.freed + IF x \in disk THEN 1 ELSE 0
    IN
    /\ c.at = "delete"
    /\ disk' = disk \ {x}
    /\ IF c.todo = {x} THEN Ends(p) /\ used' = used - freed /\ Races
       ELSE Moves(p, Call("delete", c.todo \ {x}, 0, freed)) /\ UNCHANGED <<used, raced>>
    /\ UNCHANGED <<tmp, length, hot, archived, found, crashes>>

(* The process dies; the next one adopts the directory: ContentStore.open  *)
(* scans it and skips the .tmp files.  The replica starts empty.           *)
Adopted == Cardinality(disk)

Crash ==
    /\ crashes < MaxCrashes /\ crashes' = crashes + 1
    /\ calls' = [p \in Callers |-> None]
    /\ used' = Adopted
    /\ raced' = FALSE /\ found' = Adopted
    /\ length' = 0 /\ hot' = {} /\ archived' = {}
    /\ UNCHANGED <<disk, tmp>>

StoreNext ==
    \/ \E p \in Callers : \/ Apply(p) \/ StoreContent(p) \/ Release(p)
                          \/ Dedup(p) \/ CheckQuota(p) \/ Absent(p)
                          \/ WriteTmp(p)
                          \/ AlreadyThere(p) \/ Rename(p) \/ Delete(p)
    \/ Crash

StoreSpec == StoreInit /\ [][StoreNext]_storeVars

-----------------------------------------------------------------------------
StoreTypeOK ==
    /\ disk \subseteq Cids /\ tmp \subseteq Cids
    /\ used \in Int /\ length \in 0 .. MaxLength
    /\ hot \subseteq Indices /\ archived \subseteq Indices
    /\ raced \in BOOLEAN /\ found \in Nat
    /\ \A p \in Callers : calls[p].at \in {"idle", "has", "put", "write", "rename", "delete"}

\* "Keeps the most recent hotWindow block bodies ... while losing nothing":
\* every block of the chain is in memory, or on the disk with a reference to
\* it, or carried by a call that is still archiving it.  It needs a quota that
\* never refuses the archive: the body has left memory by then.
NothingLost ==
    \A i \in 0 .. length - 1 :
        \/ i \in hot
        \/ i \in archived /\ i \in disk
        \/ \E p \in Callers : calls[p] # None /\ i \in calls[p].todo

\* content-store.ts promises that "every write is quota-checked up front" and
\* "fails cleanly": the directory never outgrows the declared capacity, or what
\* it held when the store was opened, and between calls the accounting says
\* exactly what is on the disk, with any number of puts, stores and releases
\* under way.  One thing breaks both until the store is opened again, and
\* nothing else does: bytesUsed is read before the put that is awaited and
\* written after it, so a put or a release that reads or lowers it in between
\* is lost from the count.
DiskWithinQuota ==
    ~raced =>
        /\ Cardinality(disk) <= Quota \/ Cardinality(disk) <= found
        /\ (\A p \in Callers : calls[p] = None) => used = Cardinality(disk)
=============================================================================
