---------------------------- MODULE StreamPlayback ----------------------------
(***************************************************************************)
(* Large files played or downloaded: a page registers a file with the       *)
(* service worker (stream-sw.ts, main.ts playFromStream), the worker turns  *)
(* the media element's range requests into chunk requests to that page      *)
(* (public/sw.js), the page answers from its chunks (smoke-store.ts         *)
(* getChunkBytes); a download pulls the chunks in turn (retrieveStream).    *)
(* One file, on one media element of a page that may be loaded again.  The  *)
(* bytes of the file are their positions, 0, 1, ...                         *)
(***************************************************************************)
EXTENDS Integers, Sequences, SequencesExt

CONSTANTS
    Size,        \* bytes of the file
    ChunkSize,   \* STREAM_CHUNK_SIZE
    Encrypted,   \* the file is private: its manifest is read with its keys
    MaxLoads,    \* bound: loads of the page
    MaxPosts,    \* bound: messages on their way to the worker
    MaxFaults    \* bound: chunks lost, workers stopped

VARIABLES
    page,       \* the page's client id: one per load
    keys,       \* streamKeys has the file
    playing,    \* the element has the file as its source
    listeners,  \* the element's 'emptied' listeners
    emptying,   \* an 'emptied' event is about to fire
    posts,      \* messages from the page to the worker, in order
    registry,   \* the worker's entry: the client that registered, or 0
    gone,       \* the chunks neither this device nor a peer has
    request,    \* the range request in flight, or NoRequest
    answer,     \* the response to the last one
    pull,       \* the download: [is, next, out]
    faults

streamVars == <<page, keys, playing, listeners, emptying, posts, registry, gone,
                request, answer, pull, faults>>
pageVars == <<keys, playing, listeners, emptying>>

Count == (Size + ChunkSize - 1) \div ChunkSize
Least(a, b) == IF a < b THEN a ELSE b
NoRequest == [client |-> 0, start |-> 0, end |-> 0, status |-> 0]
NoAnswer == [status |-> 0, start |-> 0, end |-> 0, length |-> 0, bytes |-> <<>>]
Failed(status) == [NoAnswer EXCEPT !.status = status]
NoPull == [is |-> "none", next |-> 0, out |-> <<>>]

\* The bytes from a to b - 1 of the file.
Bytes(a, b) == [i \in 1..(IF b > a THEN b - a ELSE 0) |-> a + i - 1]

\* The stored chunk c: all of one size but the last, which is the remainder.
Stored(c) == Bytes(c * ChunkSize, Least((c + 1) * ChunkSize, Size))

\* getChunkBytes: the chunks that overlap the range, each cut to it.
Overlapping(start, end) ==
    {c \in 0..(Count - 1) : /\ c * ChunkSize <= end
                            /\ c * ChunkSize + Least(ChunkSize, Size - c * ChunkSize) - 1 >= start}
Slice(c, start, end) ==
    LET offset == c * ChunkSize
        from == IF start > offset THEN start - offset ELSE 0
    IN SubSeq(Stored(c), from + 1, Least(Len(Stored(c)), end - offset + 1))
ChunkBytes(start, end) ==
    FlattenSeq([c \in 1..Count |-> IF c - 1 \in Overlapping(start, end)
                                   THEN Slice(c - 1, start, end) ELSE <<>>])

StreamInit ==
    /\ page = 1
    /\ keys = FALSE /\ playing = FALSE /\ listeners = 0 /\ emptying = FALSE
    /\ posts = <<>> /\ registry = 0
    /\ gone = {}
    /\ request = NoRequest /\ answer = NoAnswer /\ pull = NoPull /\ faults = 0

----------------------------------------------------------------------------
\* The page

Post(type) == posts' = Append(posts, [type |-> type, client |-> page])

\* playFromStream: a click on Play.  Setting the source of an element that has
\* one empties it.
Play ==
    /\ Len(posts) < MaxPosts
    /\ keys' = TRUE /\ Post("register")
    /\ playing' = TRUE /\ emptying' = (emptying \/ playing)
    /\ listeners' = Least(listeners + 1, 2)
    /\ UNCHANGED <<page, registry, gone, request, answer, pull, faults>>

\* unregisterStreamURL, from the listeners of 'emptied'
Emptied ==
    /\ emptying /\ Len(posts) < MaxPosts
    /\ emptying' = FALSE
    /\ IF listeners = 0 THEN UNCHANGED <<keys, posts>>
       ELSE keys' = FALSE /\ Post("unregister")
    /\ listeners' = 0
    /\ UNCHANGED <<page, playing, registry, gone, request, answer, pull, faults>>

\* The result is shown anew: a new element, and nothing is unregistered.
Rerender ==
    /\ playing /\ ~emptying
    /\ playing' = FALSE /\ listeners' = 0
    /\ UNCHANGED <<page, keys, emptying, posts, registry, gone, request, answer, pull, faults>>

\* initStreamSW: the handler of NC_CHUNK_REQUEST.  Without its keys a private
\* file's manifest does not parse.
ChunkRequest ==
    /\ request.client = page
    /\ answer' =
          IF \/ Encrypted /\ ~keys
             \/ Overlapping(request.start, request.end) \cap gone # {}
          THEN Failed(500)
          ELSE [status |-> request.status, start |-> request.start, end |-> request.end,
                length |-> request.end - request.start + 1,
                bytes |-> ChunkBytes(request.start, request.end)]
    /\ request' = NoRequest
    /\ UNCHANGED <<page, pageVars, posts, registry, gone, pull, faults>>

\* retrieveStream for a download: one chunk at a time.
Download ==
    /\ pull.is # "reading"
    /\ pull' = [NoPull EXCEPT !.is = "reading"]
    /\ UNCHANGED <<page, pageVars, posts, registry, gone, request, answer, faults>>
Pull ==
    /\ pull.is = "reading"
    /\ pull' = IF pull.next = Count THEN [pull EXCEPT !.is = "done"]
               ELSE IF pull.next \in gone THEN [pull EXCEPT !.is = "error"]
               ELSE [pull EXCEPT !.next = @ + 1, !.out = @ \o Stored(pull.next)]
    /\ UNCHANGED <<page, pageVars, posts, registry, gone, request, answer, faults>>

Reload ==
    /\ page < MaxLoads
    /\ page' = page + 1
    /\ keys' = FALSE /\ playing' = FALSE /\ listeners' = 0 /\ emptying' = FALSE
    /\ pull' = NoPull
    /\ UNCHANGED <<posts, registry, gone, request, answer, faults>>

----------------------------------------------------------------------------
\* The service worker

Message ==
    /\ posts # <<>>
    /\ registry' = IF Head(posts).type = "register" THEN Head(posts).client ELSE 0
    /\ posts' = Tail(posts)
    /\ UNCHANGED <<page, pageVars, gone, request, answer, pull, faults>>

\* handleStreamRequest; a file it has no entry of goes to the network.
Fetch(header, from, to) ==
    LET start == IF header = "none" THEN 0 ELSE from
        end == IF header = "closed" THEN Least(to, Size - 1) ELSE Size - 1
        status == IF header = "none" THEN 200 ELSE 206
    IN /\ playing /\ request = NoRequest
       /\ IF registry = 0 THEN answer' = Failed(404) /\ UNCHANGED request
          ELSE IF registry # page THEN answer' = Failed(503) /\ UNCHANGED request
          ELSE /\ request' = [client |-> page, start |-> start, end |-> end, status |-> status]
               /\ answer' = NoAnswer
       /\ UNCHANGED <<page, pageVars, posts, registry, gone, pull, faults>>

\* The 30 s timer; a later answer of the page finds no handler.
Timeout ==
    /\ request # NoRequest
    /\ request' = NoRequest /\ answer' = Failed(500)
    /\ UNCHANGED <<page, pageVars, posts, registry, gone, pull, faults>>

\* The browser stops an idle worker, and its registry with it.
StopWorker ==
    /\ request = NoRequest /\ registry # 0 /\ faults < MaxFaults
    /\ registry' = 0 /\ faults' = faults + 1
    /\ UNCHANGED <<page, pageVars, posts, gone, request, answer, pull>>

\* Storage and peers: a chunk is evicted, or the last peer that had it left.
LoseChunk(c) ==
    /\ c \notin gone /\ faults < MaxFaults
    /\ gone' = gone \cup {c} /\ faults' = faults + 1
    /\ UNCHANGED <<page, pageVars, posts, registry, request, answer, pull>>

StreamNext ==
    \/ Play \/ Emptied \/ Rerender \/ ChunkRequest \/ Download \/ Pull \/ Reload
    \/ Message
    \/ Fetch("none", 0, 0)
    \/ \E from \in 0..Size : Fetch("open", from, 0)
    \/ \E from, to \in 0..Size : Fetch("closed", from, to)
    \/ Timeout \/ StopWorker
    \/ \E c \in 0..(Count - 1) : LoseChunk(c)
StreamSpec == StreamInit /\ [][StreamNext]_streamVars

----------------------------------------------------------------------------
StreamTypeOK ==
    /\ page \in 1..MaxLoads /\ registry \in 0..MaxLoads
    /\ keys \in BOOLEAN /\ playing \in BOOLEAN /\ emptying \in BOOLEAN
    /\ listeners \in 0..2 /\ Len(posts) <= MaxPosts
    /\ gone \subseteq 0..(Count - 1)
    /\ pull.is \in {"none", "reading", "done", "error"} /\ pull.next \in 0..Count

(* A range that begins inside the file is answered with exactly the bytes   *)
(* the response's headers announce, across the chunks it touches and while  *)
(* chunks come and go; a download that ends is the whole file, in order     *)
(* (getChunkBytes, handleStreamRequest, retrieveStream).                    *)
RangesAreExact ==
    /\ answer.status \in {200, 206} /\ answer.start <= answer.end =>
           /\ answer.bytes = Bytes(answer.start, answer.end + 1)
           /\ answer.length = Len(answer.bytes)
    /\ pull.is = "done" => pull.out = Bytes(0, Size)

(* "Fully seekable": the worker knows a file that plays, once the messages  *)
(* have arrived.  FALSE of the code: the only 'emptied' of an element is    *)
(* the one of a second Play, which unregisters what that Play registered,   *)
(* and a worker the browser stopped has forgotten it.                       *)
PlayingIsSeekable == playing /\ posts = <<>> => registry = page /\ keys
=============================================================================
