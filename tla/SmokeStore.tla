----------------------------- MODULE SmokeStore -----------------------------
(***************************************************************************)
(* The content store of one browser: blocks by content id in the smoke     *)
(* file system and, from 4 MB up, in OPFS; the markers and indexes that    *)
(* say which blocks are cached for others and which belong together; and   *)
(* the reads that race several peers for a missing block.  The first peer  *)
(* whose bytes are stored answers the read; the others run on.  A file is  *)
(* a manifest (its root) and the blocks the manifest lists; two files may  *)
(* list the same block.  What a peer serves is "whole" or "torn": an OPFS  *)
(* file exists, empty, from its creation until its writer closes it.       *)
(***************************************************************************)
EXTENDS Naturals, Sequences, FiniteSets, SequencesExt

CONSTANTS
  Roots,        \* manifests
  Contents,     \* content blocks
  Parts,        \* [Roots -> SUBSET Contents]  the blocks a manifest lists
  LargeFiles,   \* roots stored as a chunk stream (over 8 MB)
  BigBlocks,    \* contents of 4 MB and more
  PublicFiles,  \* roots whose manifest is not encrypted
  Peers, Nobody,
  Holdings,     \* the possible [Peers -> [Roots \cup Contents -> Copies]]
  Priorities,   \* the holder lists a caller may pass to a read
  Readers,      \* concurrent reads
  MaxFallbacks, \* MAX_PEER_FALLBACKS
  MaxParallel,  \* MAX_PARALLEL_FETCH
  MaxOps,       \* bound: stores, caches, pushes and deletions
  MaxReads      \* bound: reads started

VARIABLES
  hasOpfs,    \* the browser offers OPFS
  holds,      \* what the peers serve
  fs,         \* smoke FS, /blocks
  opfs,       \* OPFS directory
  marks,      \* /cached markers
  index,      \* /chunk-index: roots of the uploader's large files
  groups,     \* /cache-groups: roots cached with their blocks
  fallbacks,  \* peerFallbacks, least recently useful first
  reads,      \* [Readers -> read in progress]
  lastServedBy,
  own,        \* history: own uploads not deleted by the user
  taken,      \* history: blocks ever cached for others
  delivered,  \* history: peers that delivered bytes for a read, and which
  ops, started

disk == <<fs, opfs, marks, index, groups>>
net == <<fallbacks, reads, lastServedBy>>
history == <<own, taken, delivered>>
vars == <<hasOpfs, holds, disk, net, history, ops, started>>

Cids == Roots \cup Contents
Copies == {"none", "torn", "whole"}
NoRead == [cid |-> Nobody, left |-> {}, writing |-> {}, servedBy |-> Nobody, settled |-> TRUE]

Init ==
  /\ hasOpfs \in BOOLEAN /\ holds \in Holdings
  /\ fs = [c \in Cids |-> "none"] /\ opfs = [c \in Cids |-> "none"]
  /\ marks = {} /\ index = {} /\ groups = {}
  /\ fallbacks = <<>> /\ reads = [q \in Readers |-> NoRead] /\ lastServedBy = Nobody
  /\ own = {} /\ taken = {} /\ delivered = {} /\ ops = 0 /\ started = 0

\* the smoke FS is looked at first, by reads and by the block server alike
Local(c) == IF fs[c] # "none" THEN fs[c] ELSE opfs[c]
Present(c) == Local(c) # "none"

\* fetched or pushed bytes: by size, to OPFS (nothing at all without it) or the smoke FS
Large(c, copy) == c \in BigBlocks /\ copy = "whole"
PutFs(c, copy) == IF Large(c, copy) THEN fs ELSE [fs EXCEPT ![c] = copy]
PutOpfs(c, copy) == IF Large(c, copy) /\ hasOpfs THEN [opfs EXCEPT ![c] = copy] ELSE opfs

Without(f, removed) == [c \in Cids |-> IF c \in removed THEN "none" ELSE f[c]]

Op == ops < MaxOps /\ ops' = ops + 1

----------------------------------------------------------------------------
\* Peer fallbacks: an LRU list

AddFallback(list, p) ==
  LET moved == Append(SelectSeq(list, LAMBDA x : x # p), p)
  IN IF Len(moved) > MaxFallbacks THEN Tail(moved) ELSE moved

AddPeerFallback(p) ==
  /\ AddFallback(fallbacks, p) # fallbacks
  /\ fallbacks' = AddFallback(fallbacks, p)
  /\ UNCHANGED <<hasOpfs, holds, disk, reads, lastServedBy, history, ops, started>>

Touched(p) == IF p \in Range(fallbacks) THEN AddFallback(fallbacks, p) ELSE fallbacks

\* named holders first, then the most recently useful fallbacks, cut off
Asked(priority) ==
  LET rest == SelectSeq(Reverse(fallbacks), LAMBDA p : p \notin Range(priority))
      all == priority \o rest
  IN Range(SubSeq(all, 1, IF Len(all) < MaxParallel THEN Len(all) ELSE MaxParallel))

----------------------------------------------------------------------------
\* Reading

RetrieveLocal(c) ==
  /\ Present(c) /\ started < MaxReads /\ started' = started + 1
  /\ lastServedBy' = Nobody
  /\ UNCHANGED <<hasOpfs, holds, disk, fallbacks, reads, history, ops>>

RetrieveFromPeers(q, c) ==
  /\ reads[q] = NoRead /\ ~Present(c) /\ started < MaxReads /\ started' = started + 1
  /\ \E priority \in Priorities :
       /\ Asked(priority) # {}
       /\ reads' = [reads EXCEPT ![q] = [cid |-> c, left |-> Asked(priority), writing |-> {},
                                         servedBy |-> Nobody, settled |-> FALSE]]
  /\ UNCHANGED <<hasOpfs, holds, disk, fallbacks, lastServedBy, history, ops>>

\* a read whose racers have all finished is forgotten
Racing(read) == IF read.left = {} /\ read.writing = {} THEN NoRead ELSE read

\* fetchFromPeer, to the write it awaits: creating the OPFS file makes it visible
PeerDelivers(q, p) ==
  LET read == reads[q]
      c == read.cid
  IN /\ p \in read.left /\ holds[p][c] # "none"
     /\ fallbacks' = Touched(p)
     /\ delivered' = delivered \cup {<<p, c, holds[p][c]>>}
     /\ reads' = [reads EXCEPT ![q].left = @ \ {p}, ![q].writing = @ \cup {p},
                               ![q].servedBy = p]
     /\ opfs' = IF Large(c, holds[p][c]) /\ hasOpfs /\ opfs[c] = "none"
                  THEN [opfs EXCEPT ![c] = "torn"] ELSE opfs
     /\ UNCHANGED <<hasOpfs, holds, fs, marks, index, groups, lastServedBy, own, taken, ops, started>>

\* fetchFromPeer returns; the first to do so settles the read
PeerStored(q, p) ==
  LET read == reads[q]
      c == read.cid
      done == [read EXCEPT !.writing = @ \ {p}, !.settled = TRUE]
  IN /\ p \in read.writing
     /\ fs' = PutFs(c, holds[p][c]) /\ opfs' = PutOpfs(c, holds[p][c])
     /\ lastServedBy' = IF read.settled THEN lastServedBy ELSE read.servedBy
     /\ reads' = [reads EXCEPT ![q] = Racing(done)]
     /\ UNCHANGED <<hasOpfs, holds, marks, index, groups, fallbacks, history, ops, started>>

\* a peer has nothing, or is not reached
Failed(read, p) == [read EXCEPT !.left = @ \ {p}]
PeerFails(q, p) ==
  /\ p \in reads[q].left
  /\ reads' = [reads EXCEPT ![q] = Racing(Failed(@, p))]
  /\ UNCHANGED <<hasOpfs, holds, disk, fallbacks, lastServedBy, history, ops, started>>

\* the caller gives up; the racers do not
TimedOut(q) ==
  /\ ~reads[q].settled
  /\ reads' = [reads EXCEPT ![q].settled = TRUE]
  /\ UNCHANGED <<hasOpfs, holds, disk, fallbacks, lastServedBy, history, ops, started>>

----------------------------------------------------------------------------
\* Storing and caching

\* storeWithMeta, storeWithMetaPublic: chunks to OPFS (or nowhere), then the manifest
StoreFile(m) ==
  /\ Op /\ m \notin own
  /\ fs' = [c \in Cids |-> IF c = m \/ (c \in Parts[m] /\ m \notin LargeFiles)
                             THEN "whole" ELSE fs[c]]
  /\ opfs' = [c \in Cids |-> IF c \in Parts[m] /\ m \in LargeFiles /\ hasOpfs
                               THEN "whole" ELSE opfs[c]]
  /\ index' = IF m \in LargeFiles THEN index \cup {m} ELSE index
  /\ own' = own \cup {m}
  /\ UNCHANGED <<hasOpfs, holds, marks, groups, net, taken, delivered, started>>

\* cache: a block taken for others is fetched when it is not here, and marked
Cache(c) ==
  /\ Op
  /\ \/ Present(c) /\ UNCHANGED <<fs, opfs>>
     \/ /\ ~Present(c)
        /\ \E p \in Peers : /\ holds[p][c] # "none"
                            /\ fs' = PutFs(c, holds[p][c])
                            /\ opfs' = PutOpfs(c, holds[p][c])
  /\ marks' = marks \cup {c} /\ taken' = taken \cup {c}
  /\ UNCHANGED <<hasOpfs, holds, index, groups, net, own, delivered, started>>

SaveCacheGroup(m) ==
  /\ {m} \cup Parts[m] \subseteq marks /\ m \notin groups
  /\ groups' = groups \cup {m}
  /\ UNCHANGED <<hasOpfs, holds, fs, opfs, marks, index, net, history, ops, started>>

\* a pushed block must hash to its id; the push handler marks it
PushReceived(c) ==
  /\ Op
  /\ fs' = PutFs(c, "whole") /\ opfs' = PutOpfs(c, "whole")
  /\ marks' = marks \cup {c} /\ taken' = taken \cup {c}
  /\ UNCHANGED <<hasOpfs, holds, index, groups, net, own, delivered, started>>

----------------------------------------------------------------------------
\* Deleting

\* deleteBlock takes the OPFS chunks of an own file and everything of a cached group
ChunksOf(r) == IF r \in index THEN Parts[r] ELSE {}
GroupOf(r) == IF r \in groups THEN Parts[r] ELSE {}
DeleteAll(rs) ==
  LET grouped == rs \cup UNION {GroupOf(r) : r \in rs \cap Roots}
      chunks == UNION {ChunksOf(r) : r \in rs \cap Roots}
  IN /\ fs' = Without(fs, grouped)
     /\ opfs' = Without(opfs, grouped \cup chunks)
     /\ marks' = marks \ grouped
     /\ index' = index \ rs /\ groups' = groups \ rs

\* the owner's deletion, or a withdrawal handled for it: the root, or every block
DeleteFile(m) ==
  /\ Op /\ Present(m)
  /\ \E rs \in {{m}, {m} \cup Parts[m]} : DeleteAll(rs)
  /\ own' = own \ {m}
  /\ UNCHANGED <<hasOpfs, holds, net, taken, delivered, started>>

\* clearCached: what is marked, the known sub-blocks by themselves, the rest by cascade
Listed == marks
SubsOf(m) ==
  IF m \in groups \cup index \/ (m \in PublicFiles /\ fs[m] = "whole") THEN Parts[m] ELSE {}
ClearCached ==
  /\ Op /\ Listed # {}
  /\ LET subs == UNION {SubsOf(m) : m \in Listed \cap Roots}
         roots == (Listed \ subs) \cap Roots
         grouped == Listed \cup UNION {GroupOf(r) : r \in roots}
     IN /\ fs' = Without(fs, grouped)
        /\ opfs' = Without(opfs, grouped \cup UNION {ChunksOf(r) : r \in roots})
        /\ marks' = marks \ grouped
        /\ index' = index \ roots /\ groups' = groups \ roots
  /\ UNCHANGED <<hasOpfs, holds, net, history, started>>

\* clearAllContent: a network reset
ClearAllContent ==
  /\ Op
  /\ fs' = [c \in Cids |-> "none"] /\ opfs' = [c \in Cids |-> "none"]
  /\ marks' = {} /\ index' = {} /\ groups' = {} /\ own' = {}
  /\ UNCHANGED <<hasOpfs, holds, net, taken, delivered, started>>

\* a page closed: an OPFS file nobody closed stays empty
Reload ==
  /\ Op
  /\ reads' = [q \in Readers |-> NoRead] /\ fallbacks' = <<>> /\ lastServedBy' = Nobody
  /\ UNCHANGED <<hasOpfs, holds, disk, history, started>>

Next ==
  \/ \E p \in Peers : AddPeerFallback(p)
  \/ \E c \in Cids : RetrieveLocal(c) \/ Cache(c) \/ PushReceived(c)
  \/ \E m \in Roots : StoreFile(m) \/ SaveCacheGroup(m) \/ DeleteFile(m)
  \/ \E q \in Readers : TimedOut(q) \/ \E c \in Cids : RetrieveFromPeers(q, c)
  \/ \E q \in Readers, p \in Peers : PeerDelivers(q, p) \/ PeerStored(q, p) \/ PeerFails(q, p)
  \/ ClearCached \/ ClearAllContent \/ Reload

Spec == Init /\ [][Next]_vars

----------------------------------------------------------------------------
\* Properties

\* Type invariant of the disk, the fallback list and the reads.
SmokeTypeOK ==
  /\ fs \in [Cids -> Copies] /\ opfs \in [Cids -> Copies]
  /\ marks \subseteq Cids /\ index \subseteq LargeFiles /\ groups \subseteq Roots
  /\ IsInjective(fallbacks) /\ Range(fallbacks) \subseteq Peers
  /\ Len(fallbacks) <= MaxFallbacks
  /\ \A q \in Readers : Cardinality(reads[q].left \cup reads[q].writing) <= MaxParallel

\* A peer is credited for a read only if it delivered bytes to this browser, whichever
\* racers overlap, fail or come after the deadline (retrieve, creditServingPeer).
CreditDelivered ==
  lastServedBy # Nobody => \E d \in delivered : d[1] = lastServedBy

\* An upload that shares no block with another file and was never cached for others
\* survives everything but its own deletion: caching, clearing the cache, deleting
\* other files and reads (storeWithMeta, deleteBlock, clearCached).
\* What peers send is not hashed before it is written: a file loses a block in the smoke
\* FS to a read that was under way before the upload and gets a torn copy of it.
Apart(m) == \A r \in Roots \ {m} : Parts[m] \cap Parts[r] = {}
InSmokeFs(m) == {m} \cup IF m \in LargeFiles THEN {} ELSE Parts[m]
Unharmed(m) == \A d \in delivered : d[2] \in InSmokeFs(m) => d[3] = "whole"
OwnFilesIntact ==
  \A m \in own :
    Apart(m) /\ (hasOpfs \/ m \notin LargeFiles) /\ taken \cap ({m} \cup Parts[m]) = {} /\ Unharmed(m) =>
      \A c \in {m} \cup Parts[m] : "whole" \in {fs[c], opfs[c]}

\* "the bytes hashed to the CID or `retrieve` would have thrown": a credited peer
\* delivered some block whole (creditServingPeer records it as custody proved).
CreditProvesCustody ==
  lastServedBy # Nobody => \E d \in delivered : d[1] = lastServedBy /\ d[3] = "whole"
============================================================================
