------------------------------- MODULE Artwork -------------------------------
(***************************************************************************)
(* Artwork: albumart and readpicture (rmpd-protocol/src/commands/          *)
(* database.rs) over AlbumArtExtractor (rmpd-library/src/artwork.rs) and   *)
(* the artwork table (rmpd-library/src/database.rs).                       *)
(*                                                                         *)
(* A client asks for an image chunk by chunk, one request after the other. *)
(* Each request looks the image up anew: a cover file in the song's        *)
(* directory every time, the picture in a song's tags and the one of a     *)
(* source's server through a cache, whose row goes with the song's row     *)
(* (ON DELETE CASCADE).  Between the steps of a request the other client's *)
(* requests, changes of the images and evictions come.                     *)
(*                                                                         *)
(* Files, servers and clients are external.  A read of a file is one step. *)
(***************************************************************************)
EXTENDS Integers, SequencesExt

CONSTANTS
  ArtClients,
  CoverNames,  \* COVER_FILE_NAMES, first first
  Pictures,    \* the images there are: sequences of bytes
  NoPicture,   \* no image
  ChunkSize,   \* CHUNK_SIZE
  MaxSize,     \* MAX_ARTWORK_SIZE
  MaxRepaints, \* bound: changes of the images and evictions
  MaxFetches   \* bound: images a client asks for

ASSUME ArtworkConstants ==
  /\ NoPicture \notin Pictures /\ \A p \in Pictures : p \in Seq(Nat)
  /\ CoverNames \in Seq(STRING)
  /\ ChunkSize \in Nat \ {0} /\ MaxSize \in Nat
  /\ MaxRepaints \in Nat /\ MaxFetches \in Nat

VARIABLES
  image,    \* per place: the image there now
  cache,    \* the artwork table, per kind of image that is cached
  fetch,    \* per client: the image it fetches and where its request is
  repaints  \* changes and evictions so far

artvars == <<image, cache, fetch, repaints>>

Places == ToSet(CoverNames) \union {"tag", "server"}
\* albumart of a local song, readpicture of one, and either for a source's song.
Kinds  == {"cover", "tag", "server"}
Idly   == [at |-> "idle", of |-> "cover", held |-> NoPicture, got |-> <<>>, sure |-> FALSE,
           times |-> 0]

ArtTypeOK ==
  /\ image \in [Places -> Pictures \union {NoPicture}]
  /\ cache \in [Kinds \ {"cover"} -> Pictures \union {NoPicture}]
  /\ \A c \in ArtClients :
       /\ fetch[c].at \in {"idle", "asking", "missed", "holding", "reading", "whole", "refused"}
       /\ fetch[c].of \in Kinds /\ fetch[c].times \in 0 .. MaxFetches
       /\ fetch[c].held \in Pictures \union {NoPicture}
  /\ repaints \in 0 .. MaxRepaints

ArtInit ==
  /\ image \in [Places -> Pictures \union {NoPicture}]
  /\ cache = [k \in Kinds \ {"cover"} |-> NoPicture]
  /\ fetch = [c \in ArtClients |-> Idly]
  /\ repaints = 0

-----------------------------------------------------------------------------
\* Someone has missed the cache and may yet write to it.
Filling(k) == \E c \in ArtClients : fetch[c].of = k /\ fetch[c].at \in {"missed", "holding"}

\* Nothing may change the image a fetch of kind k sees, but a repaint or an eviction.
Settled(k) == k = "cover" \/ ~Filling(k)

\* The fetches of which doubtful holds may see two images.
Doubt(doubtful(_)) ==
  fetch' = [c \in ArtClients |->
    IF doubtful(fetch[c].of)
    THEN [at |-> fetch[c].at, of |-> fetch[c].of, held |-> fetch[c].held, got |-> fetch[c].got,
          sure |-> FALSE, times |-> fetch[c].times]
    ELSE fetch[c]]

\* An image is replaced or goes away.  It may show in a fetch, unless the cache has
\* the old one and nobody is about to write to the cache.
Repaint(place, p) ==
  /\ repaints < MaxRepaints /\ image[place] # p
  /\ image' = [image EXCEPT ![place] = p]
  /\ repaints' = repaints + 1
  /\ Doubt(LAMBDA k : \/ k = "cover" /\ place \in ToSet(CoverNames)
                      \/ k = place /\ (cache[k] = NoPicture \/ Filling(k)))
  /\ UNCHANGED cache

\* The song's row is deleted, by a prune, the watcher or a resync of its source, and
\* the cached image with it; the row comes back at once or later.  It shows when the
\* source has another image by now.
Evict(k) ==
  /\ repaints < MaxRepaints /\ cache[k] # NoPicture
  /\ cache' = [cache EXCEPT ![k] = NoPicture]
  /\ repaints' = repaints + 1
  /\ Doubt(LAMBDA x : x = k /\ cache[k] # image[k])
  /\ UNCHANGED image

\* A client begins to fetch an image.
BeginFetch(c, k) ==
  /\ fetch[c].at \in {"idle", "whole", "refused"} /\ fetch[c].times < MaxFetches
  /\ fetch' = [fetch EXCEPT ![c] = [at |-> "asking", of |-> k, held |-> NoPicture, got |-> <<>>,
                                    sure |-> Settled(k), times |-> fetch[c].times + 1]]
  /\ UNCHANGED <<image, cache, repaints>>

Become(c, at, held, got) ==
  fetch' = [fetch EXCEPT ![c] = [at |-> at, of |-> fetch[c].of, held |-> held, got |-> got,
                                 sure |-> fetch[c].sure, times |-> fetch[c].times]]
Step(c, at, held) == Become(c, at, held, fetch[c].got)

\* No image there, one that is too large, a failed request, an offset past the end.
Refusal(c) == Step(c, "refused", NoPicture)

\* The chunk at an offset, and the end of the image.
ChunkAt(p, offset) ==
  SubSeq(p, offset + 1, IF offset + ChunkSize <= Len(p) THEN offset + ChunkSize ELSE Len(p))

\* The answer: a chunk of p and its size.  The client asks on until it has it all.
Serve(c, p) ==
  LET offset == Len(fetch[c].got)
      got    == fetch[c].got \o ChunkAt(p, offset)
  IN  IF p = NoPicture \/ offset > Len(p) THEN Refusal(c)
      ELSE Become(c, IF Len(got) >= Len(p) THEN "whole" ELSE "asking", NoPicture, got)

\* find_external_cover: the first of the cover files that can be read.
FirstCover(i) ==
  /\ image[CoverNames[i]] # NoPicture
  /\ \A j \in 1 .. i - 1 : image[CoverNames[j]] = NoPicture
Cover ==
  LET there == {i \in DOMAIN CoverNames : FirstCover(i)}
  IN  IF there = {} THEN NoPicture ELSE image[CoverNames[CHOOSE i \in there : TRUE]]

AnswerCover(c) ==
  /\ fetch[c].at = "asking" /\ fetch[c].of = "cover"
  /\ Serve(c, Cover)
  /\ UNCHANGED <<image, cache, repaints>>

\* What is cached: of a source's song only found to be there, and read in another call.
FromCache(c) ==
  IF fetch[c].of = "tag" THEN Serve(c, cache["tag"]) ELSE Step(c, "reading", NoPicture)

\* Mutant: the cache only speaks when the source is silent.
LookUpStale(c) ==
  LET k == fetch[c].of
  IN  /\ fetch[c].at = "asking" /\ k # "cover"
      /\ IF image[k] # NoPicture THEN Step(c, "missed", NoPicture) ELSE FromCache(c)
      /\ UNCHANGED <<image, cache, repaints>>

\* get_artwork and is_cached: what is cached is served, whatever the source has now.
LookUp(c) ==
  LET k == fetch[c].of
  IN  /\ fetch[c].at = "asking" /\ k # "cover"
      /\ IF cache[k] = NoPicture THEN Step(c, "missed", NoPicture) ELSE FromCache(c)
      /\ UNCHANGED <<image, cache, repaints>>

\* The tags are read, or the server asked, which may fail.  A picture of the tags that
\* is too large is an error; without an answer of the server the cache is asked again.
Obtain(c) ==
  LET p == image[fetch[c].of]
  IN  /\ fetch[c].at = "missed"
      /\ \/ /\ p # NoPicture
            /\ fetch[c].of = "tag" => Len(p) <= MaxSize
            /\ Step(c, "holding", p)
         \/ IF fetch[c].of = "tag" THEN Refusal(c) ELSE Step(c, "reading", NoPicture)
      /\ UNCHANGED <<image, cache, repaints>>

\* store_artwork, INSERT OR REPLACE.  The picture of the tags is then served from the
\* hand; that of a server, not stored when too large, is read back from the cache.
\* While the song's row is away nothing can be stored: an error for the tags.
Store(c) ==
  LET k == fetch[c].of   p == fetch[c].held
  IN  /\ fetch[c].at = "holding"
      /\ \/ /\ cache' = IF Len(p) <= MaxSize THEN [cache EXCEPT ![k] = p] ELSE cache
            /\ IF k = "tag" THEN Serve(c, p) ELSE Step(c, "reading", NoPicture)
         \/ /\ IF k = "tag" THEN Refusal(c) ELSE Step(c, "reading", NoPicture)
            /\ UNCHANGED cache
      /\ UNCHANGED <<image, repaints>>

ReadBack(c) ==
  /\ fetch[c].at = "reading"
  /\ Serve(c, cache[fetch[c].of])
  /\ UNCHANGED <<image, cache, repaints>>

ArtNext ==
  \/ \E place \in Places, p \in Pictures \union {NoPicture} : Repaint(place, p)
  \/ \E k \in Kinds \ {"cover"} : Evict(k)
  \/ \E c \in ArtClients :
       \/ \E k \in Kinds : BeginFetch(c, k)
       \/ AnswerCover(c) \/ LookUp(c) \/ Obtain(c) \/ Store(c) \/ ReadBack(c)

ArtSpec == ArtInit /\ [][ArtNext]_artvars

-----------------------------------------------------------------------------
\* An image fetched chunk by chunk is one of the images, not a mixture of two, unless
\* it changed meanwhile where that can show: a change of what is cached already does
\* not, until that is evicted, nor does an eviction of what the source still has, nor
\* another client's fetch.
PictureWhole ==
  \A c \in ArtClients : fetch[c].at = "whole" /\ fetch[c].sure => fetch[c].got \in Pictures
=============================================================================
