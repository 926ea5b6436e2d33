------------------------------- MODULE Manifests -------------------------------
(***************************************************************************)
(* engine/content/chunking.ts: content cut into chunks under a manifest,    *)
(* the manifest's compact wire form, and reassembly.  A hash is its input:  *)
(* a chunk's cid is its bytes and a manifest's cid its fields.  Manifests   *)
(* come from chunkContent, or from a peer, which may have cut its chunks    *)
(* any way that verifyManifest accepts; wires arrive whole or damaged.      *)
(***************************************************************************)
EXTENDS Naturals, Sequences, FiniteSets, SequencesExt

CONSTANTS
    Bytes,        \* byte values
    MaxLength,    \* bound: bytes of a content
    ChunkSizes    \* chunk sizes in use

VARIABLES
    content,      \* the bytes the manifest is of
    manifest,     \* [cid, size, chunkSize, chunks]
    wire,         \* [size, chunkSize, digests], or NoWire
    decoded,      \* what decodeManifest made of the wire, or NoManifest
    held,         \* the chunks a reader holds under their cids: cid -> bytes
    read          \* [is, bytes]: what reassemble returned: "bytes", "null" or "none" yet

manifestVars == <<content, manifest, wire, decoded, held, read>>

NoWire == [size |-> 0, chunkSize |-> 0, digests |-> <<>>]
NoManifest == [cid |-> <<>>, size |-> 0, chunkSize |-> 0, chunks |-> <<>>]
Contents == UNION {[1..n -> Bytes] : n \in 0..MaxLength}

Ceiling(a, b) == (a + b - 1) \div b
CidOf(size, chunkSize, chunks) == <<size, chunkSize, chunks>>
Manifest(size, chunkSize, chunks) ==
    [cid |-> CidOf(size, chunkSize, chunks), size |-> size,
     chunkSize |-> chunkSize, chunks |-> chunks]

(* chunkContent: equal parts and a remainder. *)
Part(bytes, c, i) ==
    SubSeq(bytes, (i - 1) * c + 1, IF i * c < Len(bytes) THEN i * c ELSE Len(bytes))
Chunks(bytes, c) ==
    [i \in 1..Ceiling(Len(bytes), c) |->
        [cid |-> Part(bytes, c, i), size |-> Len(Part(bytes, c, i))]]

SizeOf(chunks) == FoldLeft(LAMBDA s, r : s + r.size, 0, chunks)

(* verifyManifest: the cid is of these fields and the sizes add up. *)
Verifies(m) ==
    /\ m.cid = CidOf(m.size, m.chunkSize, m.chunks)
    /\ SizeOf(m.chunks) = m.size

(* encodeManifest: a chunk's size is not carried... *)
Encode(m) ==
    [size |-> m.size, chunkSize |-> m.chunkSize,
     digests |-> [i \in 1..Len(m.chunks) |-> m.chunks[i].cid]]

(* ...and decodeManifest derives it, once header and body agree. *)
LastSize(w) == w.size - w.chunkSize * (Len(w.digests) - 1)
Agrees(w) == w.chunkSize > 0 /\ Len(w.digests) = Ceiling(w.size, w.chunkSize)
Decode(w) ==
    IF ~Agrees(w) THEN NoManifest
    ELSE Manifest(w.size, w.chunkSize,
            [i \in 1..Len(w.digests) |->
                [cid |-> w.digests[i],
                 size |-> IF i = Len(w.digests) THEN LastSize(w) ELSE w.chunkSize]])

(* reassemble: every chunk is there, has the size and the cid its reference *)
(* says, and together they are exactly the content's length.                *)
Fits(r) == r.cid \in DOMAIN held /\ Len(held[r.cid]) = r.size /\ held[r.cid] = r.cid
Reassembled(m) ==
    IF (\A i \in 1..Len(m.chunks) : Fits(m.chunks[i])) /\ SizeOf(m.chunks) = m.size
    THEN [is |-> "bytes", bytes |-> FoldLeft(LAMBDA out, r : out \o held[r.cid], <<>>, m.chunks)]
    ELSE [is |-> "null", bytes |-> <<>>]

ManifestInit ==
    /\ content \in Contents
    /\ manifest = NoManifest /\ wire = NoWire /\ decoded = NoManifest
    /\ held = <<>> /\ read = [is |-> "none", bytes |-> <<>>]

Store(chunks) == [c \in {chunks[i].cid : i \in 1..Len(chunks)} |-> c]

Chunk(c) ==
    /\ manifest = NoManifest
    /\ manifest' = Manifest(Len(content), c, Chunks(content, c))
    /\ held' = Store(Chunks(content, c))
    /\ UNCHANGED <<content, wire, decoded, read>>

(* A peer's manifest, cut at some point of its own into two chunks. *)
PeerChunk(c, cut) ==
    /\ manifest = NoManifest
    /\ cut < Len(content)
    /\ LET parts == <<SubSeq(content, 1, cut), SubSeq(content, cut + 1, Len(content))>>
           refs == [i \in 1..2 |-> [cid |-> parts[i], size |-> Len(parts[i])]]
       IN /\ Verifies(Manifest(Len(content), c, refs))
          /\ manifest' = Manifest(Len(content), c, refs)
          /\ held' = Store(refs)
    /\ UNCHANGED <<content, wire, decoded, read>>

Send ==
    /\ manifest # NoManifest /\ wire = NoWire /\ decoded = NoManifest
    /\ wire' = Encode(manifest)
    /\ UNCHANGED <<content, manifest, decoded, held, read>>

(* The wire is cut short by a digest, or its header's length is another's. *)
Damage(size, short) ==
    /\ wire = Encode(manifest) /\ manifest # NoManifest /\ decoded = NoManifest
    /\ wire' = [wire EXCEPT !.size = size,
                            !.digests = IF short /\ @ # <<>> THEN Front(@) ELSE @]
    /\ UNCHANGED <<content, manifest, decoded, held, read>>

Receive ==
    /\ wire # NoWire
    /\ decoded' = Decode(wire) /\ wire' = NoWire
    /\ UNCHANGED <<content, manifest, held, read>>

(* A chunk a reader holds has gone bad, or gone. *)
Spoil(cid, bytes) ==
    /\ cid \in DOMAIN held /\ Len(bytes) = Len(cid) /\ read.is = "none"
    /\ held' = [held EXCEPT ![cid] = bytes]
    /\ UNCHANGED <<content, manifest, wire, decoded, read>>
Lose(cid) ==
    /\ cid \in DOMAIN held /\ read.is = "none"
    /\ held' = [c \in DOMAIN held \ {cid} |-> held[c]]
    /\ UNCHANGED <<content, manifest, wire, decoded, read>>

Reassemble ==
    /\ decoded # NoManifest /\ read.is = "none"
    /\ read' = Reassembled(decoded)
    /\ UNCHANGED <<content, manifest, wire, decoded, held>>

ManifestNext ==
    \/ \E c \in ChunkSizes : Chunk(c)
    \/ \E c \in ChunkSizes, cut \in 1..MaxLength : PeerChunk(c, cut)
    \/ Send
    \/ \E size \in 0..MaxLength, short \in BOOLEAN : Damage(size, short)
    \/ Receive
    \/ \E cid \in DOMAIN held : \E bytes \in [1..Len(cid) -> Bytes] : Spoil(cid, bytes)
    \/ \E cid \in DOMAIN held : Lose(cid)
    \/ Reassemble

ManifestSpec == ManifestInit /\ [][ManifestNext]_manifestVars

----------------------------------------------------------------------------
(* A manifest that reached a reader verifies, and what it reassembles to    *)
(* under the address it was asked for is the content, whatever happened to  *)
(* the wire and to the chunks: a wrong length, a missing digest or a bad    *)
(* chunk gives nothing, never other bytes (decodeManifest, reassemble).     *)
ReadsAreTheContent ==
    /\ decoded # NoManifest => Verifies(decoded)
    /\ decoded.cid = manifest.cid => (read.is = "bytes" => read.bytes = content)

(* The address of a file survives the wire.  TRUE of the manifests          *)
(* chunkContent makes and FALSE of others verifyManifest accepts.           *)
AddressSurvivesTheWire ==
    wire = Encode(manifest) /\ manifest # NoManifest => Decode(wire).cid = manifest.cid
OwnAddressSurvives ==
    manifest.chunkSize > 0 /\ manifest.chunks = Chunks(content, manifest.chunkSize)
        => AddressSurvivesTheWire
=============================================================================
