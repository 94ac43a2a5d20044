----------------------------- MODULE PlayerProofs -----------------------------
(***************************************************************************)
(* Proofs about the parts of the player that MCPlayer puts together.  The  *)
(* playback thread: its variables keep their types, the output it plays to *)
(* is the cached one and fits the song, the position clients are told is   *)
(* the decoder's but for what given up blends drop, a song is left only    *)
(* near its end.  Then the fan-out to the outputs, the outputs that play   *)
(* to a device, the one that streams to listeners, and all of PlayerSpec.  *)
(***************************************************************************)
EXTENDS MCPlayer, FiniteSetTheorems, TLAPS

(* The playback thread.                                                     *)

SongsOrNone == DOMAIN Songs \union {None}

\* What a thread is playing in: it has an output.
Playing == {"loop", "fade", "read", "mix"}

KeyType    == {Key(s, outs) : s \in DOMAIN Songs, outs \in OutputSets}
MultiType  == [key : KeyType, active : BOOLEAN, broken : BOOLEAN]
EngineType == [op : {"free", "play", "stop"}, song : SongsOrNone, range : Ranges \union {None}]
DecodeType ==
  [at : {"none", "opening", "acquiring", "dop"} \union Playing, song : SongsOrNone,
   pos : Nat, count : Nat, limit : Ranges \union Int \union {None}, ranged : BOOLEAN,
   outs : OutputSets \union {{}}, multi : Nat, paused : BOOLEAN, next : SongsOrNone,
   next_pos : Nat, window : Windows \union {0}, blends : Nat]

\* The variables' types in full.
Shape ==
  /\ now_song \in SongsOrNone /\ fed \in SongsOrNone
  /\ state \in {"stop", "play", "pause"}
  /\ stopping \in BOOLEAN /\ honest \in BOOLEAN
  /\ seeks \in Seq(SeekTo)
  /\ outputs \in OutputSets
  /\ multis \in Seq(MultiType) /\ slot \in 0 .. Len(multis)
  /\ decode \in DecodeType /\ decode.multi \in 0 .. Len(multis)
  /\ engine \in EngineType

\* A thread is on a song, with the outputs it was started with; its limit is the
\* range it was given until it plays, and the span of it then; it counts from 0.
ThreadOnSong ==
  /\ engine.op = "play" => engine.song \in DOMAIN Songs
  /\ decode.at # "none" => decode.song \in DOMAIN Songs /\ decode.outs \in OutputSets
  /\ decode.at \in {"opening", "acquiring"} =>
       /\ decode.limit \in Ranges \union {None} /\ decode.ranged = (decode.limit # None)
       /\ decode.count = 0 /\ decode.blends = 0
  /\ decode.at \in Playing => decode.limit \in Int \union {None}
  /\ decode.at = "mix" => decode.next \in DOMAIN Songs

\* A playing thread's output is the cached one.
HasOutput == decode.at \in Playing => slot \in 1 .. Len(multis)

\* A blend drops less than a buffer, once, at the end of the incoming song; and it
\* is within the crossfade of the end of the outgoing one.
BlendInv ==
  decode.at \in Playing /\ honest /\ ~decode.ranged =>
    /\ decode.count <= decode.pos
    /\ (decode.at = "mix" => Left(decode.next, decode.next_pos) > 0) =>
         decode.pos - decode.count <= Dropped(decode.blends)
    /\ decode.at = "mix" => decode.pos + Crossfade >= Songs[decode.song].length

ThreadInv == Shape /\ ThreadOnSong /\ HasOutput /\ DeviceMatchesSong /\ PositionTrue /\ BlendInv

-----------------------------------------------------------------------------
(* Arithmetic of reading.                                                   *)

\* The smaller of two numbers.
LEMMA MinOfTwo ==
  ASSUME NEW a \in Int, NEW b \in Int
  PROVE  Min({a, b}) = IF a <= b THEN a ELSE b
<1> DEFINE m == IF a <= b THEN a ELSE b
<1>1. m \in {a, b} /\ \A y \in {a, b} : m <= y
  OBVIOUS
<1>2. ASSUME NEW x \in {a, b}, \A y \in {a, b} : x <= y
      PROVE  x = m
  BY <1>1, <1>2
<1>. QED
  BY <1>1, <1>2 DEF Min

\* What a read returns: what is left, a buffer at most, and nothing only at the end.
LEMMA ReadBounds ==
  ASSUME NEW s \in DOMAIN Songs, NEW pos \in Nat
  PROVE  /\ Left(s, pos) \in Nat /\ Read(s, pos) \in Nat
         /\ Read(s, pos) <= Buffer /\ Read(s, pos) <= Left(s, pos)
         /\ Read(s, pos) = 0 => pos >= Songs[s].length
         /\ Left(s, pos) = 0 <=> pos >= Songs[s].length
<1>1. Songs[s].length \in Nat /\ Buffer \in Nat /\ Buffer > 0
  BY DecodeThreadConstants
<1>2. Left(s, pos) \in Nat /\ (Left(s, pos) = 0 <=> pos >= Songs[s].length)
  BY <1>1 DEF Left
<1>3. Read(s, pos) = IF Buffer <= Left(s, pos) THEN Buffer ELSE Left(s, pos)
  BY <1>1, <1>2, MinOfTwo DEF Read
<1>. QED
  BY <1>1, <1>2, <1>3

\* A song that may join in the thread is decoded at its own rate.
LEMMA CompatibleRate ==
  ASSUME NEW s, Compatible(s)
  PROVE  RateOf(s) = RateOf(decode.song)
BY DEF Compatible, RateOf

\* A key is made of the rate and the outputs.
LEMMA SameKey ==
  ASSUME NEW s, NEW u, NEW outs, RateOf(s) = RateOf(u)
  PROVE  Key(s, outs) = Key(u, outs)
BY DEF Key

-----------------------------------------------------------------------------
(* The initial states.                                                      *)
\* No thread is a value of the thread's type.
LEMMA NoDecodeShape == NoDecode \in DecodeType
BY DEF NoDecode, DecodeType, SongsOrNone

\* The engine starts with no thread and no outputs built.
LEMMA ThreadInvInit == ThreadInit => ThreadInv
<1>. SUFFICES ASSUME ThreadInit PROVE ThreadInv
  OBVIOUS
<1>1. Shape
  <2>1. decode \in DecodeType /\ decode.multi = 0
    BY NoDecodeShape DEF ThreadInit, NoDecode
  <2>2. engine \in EngineType
    BY DEF ThreadInit, Free, EngineType, SongsOrNone
  <2>3. multis \in Seq(MultiType) /\ Len(multis) = 0 /\ seeks \in Seq(SeekTo)
    BY DEF ThreadInit
  <2>4. stopping \in BOOLEAN /\ honest \in BOOLEAN
    BY DEF ThreadInit
  <2>5. now_song \in SongsOrNone /\ fed \in SongsOrNone /\ state \in {"stop", "play", "pause"}
    BY DEF ThreadInit, SongsOrNone
  <2>6. outputs \in OutputSets
    BY DEF ThreadInit
  <2>7. slot \in 0 .. Len(multis) /\ decode.multi \in 0 .. Len(multis)
    BY <2>1, <2>3 DEF ThreadInit
  <2>. QED
    BY <2>1, <2>2, <2>3, <2>4, <2>5, <2>6, <2>7 DEF Shape
<1>2. decode.at = "none" /\ engine.op = "free"
  BY DEF ThreadInit, NoDecode, Free
<1>. QED
  BY <1>1, <1>2 DEF ThreadInv, ThreadOnSong, HasOutput, DeviceMatchesSong, PositionTrue, BlendInv,
                    Playing

-----------------------------------------------------------------------------
(* What leaves the thread where it is, and its output, leaves it right.     *)
\* A step that leaves the thread, its output and the cache alone keeps the invariant.
LEMMA ThreadUntouched ==
  ASSUME ThreadInv, Shape',
         UNCHANGED <<decode, slot, multis, honest>>,
         engine'.op = "play" => engine'.song \in DOMAIN Songs
  PROVE  ThreadInv'
<1>1. ThreadOnSong'
  BY DEF ThreadInv, ThreadOnSong
<1>2. HasOutput'
  BY DEF ThreadInv, HasOutput
<1>3. DeviceMatchesSong'
  BY DEF ThreadInv, DeviceMatchesSong, RateOf, Key
<1>4. PositionTrue'
  BY DEF ThreadInv, PositionTrue
<1>5. BlendInv'
  BY DEF ThreadInv, BlendInv, Left
<1>. QED
  BY <1>1, <1>2, <1>3, <1>4, <1>5 DEF ThreadInv

\* A thread that does not play has no position and no output to be right about.
LEMMA ThreadSilent ==
  ASSUME Shape', ThreadOnSong', decode'.at \notin Playing
  PROVE  ThreadInv'
BY DEF ThreadInv, HasOutput, DeviceMatchesSong, PositionTrue, BlendInv, Playing

\* An engine call leaves a thread as it is, or starts one or clears the cache when
\* the old one has been joined.
LEMMA EngineCallInv ==
  ASSUME ThreadInv, EngineCall
  PROVE  ThreadInv'
<1>. USE DEF ThreadInv
<1>1. ASSUME NEW s \in DOMAIN Songs, NEW r \in Ranges \union {None}, BeginPlay(s, r)
      PROVE  ThreadInv'
  <2>1. Shape'
    BY <1>1 DEF BeginPlay, Calling, Shape, EngineType, SongsOrNone
  <2>2. engine'.song = s
    BY <1>1 DEF BeginPlay
  <2>. QED
    BY <1>1, <2>1, <2>2, ThreadUntouched DEF BeginPlay
<1>2. CASE BeginStop
  <2>1. Shape' /\ engine'.op = "stop"
    BY <1>2 DEF BeginStop, Calling, Shape, EngineType, SongsOrNone, Free
  <2>. QED
    BY <1>2, <2>1, ThreadUntouched DEF BeginStop
<1>3. CASE Joined
  <2>1. CASE engine.op = "play"
    <3>1. engine.song \in DOMAIN Songs /\ engine.range \in Ranges \union {None}
      BY <2>1 DEF ThreadOnSong, Shape, EngineType
    <3>2. decode' = [NoDecode EXCEPT !.at = "opening", !.song = engine.song,
                        !.limit = engine.range, !.outs = outputs,
                        !.ranged = engine.range # None]
      BY <1>3, <2>1 DEF Joined
    <3>3. Shape'
      <4>1. decode' \in DecodeType /\ decode'.multi = 0
        <5>. DEFINE b == engine.range # None
        <5>1. b \in BOOLEAN
          OBVIOUS
        <5>. HIDE DEF b
        <5>2. decode' = [NoDecode EXCEPT !.at = "opening", !.song = engine.song,
                            !.limit = engine.range, !.outs = outputs, !.ranged = b]
          BY <3>2 DEF b
        <5>. QED
          BY <3>1, <5>1, <5>2, NoDecodeShape DEF Shape, NoDecode, DecodeType, SongsOrNone
      <4>2. engine' \in EngineType
        BY <1>3 DEF Joined, Free, EngineType, SongsOrNone
      <4>. QED
        <5>1. state' = "stop" /\ fed' = None /\ seeks' = <<>> /\ now_song' = engine.song
              /\ slot' = slot /\ multis' = multis /\ outputs' = outputs
          BY <1>3, <2>1 DEF Joined
        <5>2. stopping' \in BOOLEAN /\ honest' \in BOOLEAN
          BY <1>3, <2>1 DEF Joined
        <5>. QED
          BY <3>1, <4>1, <4>2, <5>1, <5>2 DEF Shape, SongsOrNone
    <3>4. ThreadOnSong' /\ decode'.at = "opening"
      BY <1>3, <3>1, <3>2 DEF Joined, Shape, NoDecode, Free, ThreadOnSong, Playing
    <3>. QED
      BY <3>3, <3>4, ThreadSilent DEF Playing
  <2>2. CASE engine.op # "play"
    <3>1. Shape'
      BY <1>3, <2>2 DEF Joined, Shape, EngineType, Free, SongsOrNone
    <3>2. decode'.at = "none" /\ engine'.op = "free"
      BY <1>3, <2>2 DEF Joined, Free
    <3>. QED
      BY <3>1, <3>2, ThreadSilent DEF Playing, ThreadOnSong
  <2>. QED
    BY <2>1, <2>2
<1>4. CASE SetPause
  <2>1. Shape'
    BY <1>4 DEF SetPause, Calling, Shape
  <2>. QED
    BY <1>4, <2>1, ThreadUntouched DEF SetPause, ThreadOnSong
<1>5. ASSUME NEW p \in SeekTo, Seek(p)
      PROVE  ThreadInv'
  <2>1. Shape'
    BY <1>5 DEF Seek, Calling, Shape
  <2>. QED
    BY <1>5, <2>1, ThreadUntouched DEF Seek, ThreadOnSong
<1>6. ASSUME NEW s \in DOMAIN Songs \union {None}, SetNextSong(s)
      PROVE  ThreadInv'
  <2>1. Shape'
    BY <1>6 DEF SetNextSong, Calling, Shape, SongsOrNone
  <2>. QED
    BY <1>6, <2>1, ThreadUntouched DEF SetNextSong, ThreadOnSong
<1>7. ASSUME NEW outs \in OutputSets, SetOutputs(outs)
      PROVE  ThreadInv'
  <2>1. Shape'
    BY <1>7 DEF SetOutputs, Calling, Shape
  <2>. QED
    BY <1>7, <2>1, ThreadUntouched DEF SetOutputs, ThreadOnSong
<1>. QED
  BY <1>1, <1>2, <1>3, <1>4, <1>5, <1>6, <1>7 DEF EngineCall
-----------------------------------------------------------------------------
(* The thread's steps.                                                      *)
\* Each blend given up may drop a buffer but one unit more.
LEMMA DroppedGrows ==
  ASSUME NEW b \in Nat
  PROVE  /\ Dropped(b) \in Nat /\ Dropped(0) = 0
         /\ Dropped(b + 1) = Dropped(b) + (Buffer - 1)
<1>1. Buffer - 1 \in Nat
  BY DecodeThreadConstants
<1>2. ASSUME NEW c \in Nat
      PROVE  c * b \in Nat /\ (b + 1) * c = b * c + c /\ 0 * c = 0 /\ b * c \in Nat
  OBVIOUS
<1>. QED
  BY <1>1, <1>2 DEF Dropped

\* Changing a flag of a MultiOutput touches no key and adds none.
LEMMA FlagsOnly ==
  ASSUME NEW ms \in Seq(MultiType), NEW m \in 1 .. Len(ms), NEW b \in BOOLEAN,
         NEW new, new \in {[ms EXCEPT ![m].active = b], [ms EXCEPT ![m].broken = b]}
  PROVE  /\ new \in Seq(MultiType) /\ Len(new) = Len(ms)
         /\ \A i \in 1 .. Len(ms) : new[i].key = ms[i].key
<1>1. ms \in [1 .. Len(ms) -> MultiType] /\ Len(ms) \in Nat
  OBVIOUS
<1>2. /\ [ms[m] EXCEPT !.active = b] \in MultiType /\ [ms[m] EXCEPT !.broken = b] \in MultiType
      /\ [ms[m] EXCEPT !.active = b].key = ms[m].key /\ [ms[m] EXCEPT !.broken = b].key = ms[m].key
  BY <1>1 DEF MultiType
<1>3. PICK r \in MultiType : r.key = ms[m].key /\ new = [ms EXCEPT ![m] = r]
  BY <1>1, <1>2
<1>4. new \in [1 .. Len(ms) -> MultiType] /\ \A i \in 1 .. Len(ms) : new[i].key = ms[i].key
  BY <1>1, <1>3
<1>. QED
  BY <1>1, <1>4

\* A step that stays on the song, the output and the keys keeps the output right.
LEMMA OutputKept ==
  ASSUME ThreadInv, decode.at \in Playing, slot' = slot,
         Len(multis') = Len(multis), \A i \in 1 .. Len(multis) : multis'[i].key = multis[i].key,
         decode'.multi = decode.multi, decode'.outs = decode.outs,
         RateOf(decode'.song) = RateOf(decode.song),
         decode'.at = "mix" => RateOf(decode'.next) = RateOf(decode'.song)
  PROVE  HasOutput' /\ DeviceMatchesSong'
<1>1. /\ decode.multi = slot /\ slot \in 1 .. Len(multis)
      /\ multis[slot].key = Key(decode.song, decode.outs)
  BY DEF ThreadInv, HasOutput, DeviceMatchesSong, Playing
<1>2. Key(decode'.song, decode'.outs) = Key(decode.song, decode.outs)
  BY DEF Key
<1>3. multis'[slot].key = Key(decode'.song, decode'.outs)
  BY <1>1, <1>2
<1>4. HasOutput'
  BY <1>1 DEF HasOutput
<1>5. /\ decode'.multi = slot' /\ multis'[decode'.multi].key = Key(decode'.song, decode'.outs)
      /\ decode'.at = "mix" => RateOf(decode'.next) = RateOf(decode'.song)
  BY <1>1, <1>3
<1>. QED
  BY <1>4, <1>5 DEF DeviceMatchesSong, Key, RateOf

\* Following a pause changes the thread's place and flag, and its output's flag.
LEMMA FollowPauseKeeps ==
  ASSUME NEW thread \in DecodeType, NEW at \in Playing, FollowPause(thread, at),
         multis \in Seq(MultiType), thread.multi \in 1 .. Len(multis)
  PROVE  /\ decode' = [thread EXCEPT !.at = decode'.at, !.paused = decode'.paused]
         /\ decode' \in DecodeType /\ decode'.at \in {thread.at, at}
         /\ multis' \in Seq(MultiType) /\ Len(multis') = Len(multis)
         /\ \A i \in 1 .. Len(multis) : multis'[i].key = multis[i].key
<1>1. CASE state = "pause"
  <2>1. decode' = [thread EXCEPT !.paused = TRUE]
        /\ multis' = [multis EXCEPT ![thread.multi].active = @ /\ thread.paused]
    BY <1>1 DEF FollowPause
  <2>2. PICK b \in BOOLEAN : multis' = [multis EXCEPT ![thread.multi].active = b]
    BY <2>1
  <2>3. decode' \in DecodeType /\ decode'.at = thread.at
        /\ decode' = [thread EXCEPT !.at = decode'.at, !.paused = decode'.paused]
    BY <2>1 DEF DecodeType
  <2>. QED
    BY <2>2, <2>3, FlagsOnly
<1>2. CASE state # "pause"
  <2>1. decode' = [thread EXCEPT !.paused = FALSE, !.at = at]
        /\ multis' = [multis EXCEPT ![thread.multi].active = @ \/ thread.paused]
    BY <1>2 DEF FollowPause
  <2>2. PICK b \in BOOLEAN : multis' = [multis EXCEPT ![thread.multi].active = b]
    BY <2>1
  <2>3. decode' \in DecodeType /\ decode'.at = at
        /\ decode' = [thread EXCEPT !.at = decode'.at, !.paused = decode'.paused]
    BY <2>1 DEF DecodeType, Playing
  <2>. QED
    BY <2>2, <2>3, FlagsOnly
<1>. QED
  BY <1>1, <1>2

\* Ending is always right.
LEMMA EndInv ==
  ASSUME ThreadInv, End, slot' \in 0 .. Len(multis'), multis' \in Seq(MultiType),
         state' \in {"stop", "play", "pause"}, honest' \in BOOLEAN, seeks' \in Seq(SeekTo),
         fed' \in SongsOrNone, UNCHANGED <<calling, now_song>>
  PROVE  ThreadInv'
<1>1. decode' \in DecodeType /\ decode'.multi = 0 /\ decode'.at = "none" /\ Len(multis') \in Nat
  BY NoDecodeShape DEF End, NoDecode
<1>2. Shape'
  BY <1>1 DEF ThreadInv, Shape, calling
<1>3. ThreadOnSong'
  BY <1>1 DEF ThreadInv, ThreadOnSong, calling, Playing
<1>. QED
  BY <1>1, <1>2, <1>3, ThreadSilent DEF Playing

\* Opening the file: the thread goes on without an output, for which it may empty
\* the cache, or ends.
LEMMA OpenInv ==
  ASSUME ThreadInv, Open
  PROVE  ThreadInv'
<1>. USE DEF ThreadInv
<1>1. decode.at = "opening" /\ UNCHANGED <<calling, now_song, fed, seeks, multis, honest>>
  BY DEF Open
<1>2. CASE End /\ UNCHANGED <<state, slot>>
  BY <1>1, <1>2, EndInv DEF Shape
<1>3. ASSUME NEW at \in {"acquiring", "dop"}, decode' = [decode EXCEPT !.at = at],
             slot' \in {slot, 0}, state' \in {state, "play"}
      PROVE  ThreadInv'
  <2>1. decode' \in DecodeType /\ decode'.multi = decode.multi
    BY <1>3 DEF Shape, DecodeType
  <2>2. Shape'
    BY <1>1, <1>3, <2>1 DEF Shape, calling
  <2>3. ThreadOnSong' /\ decode'.at \notin Playing
    BY <1>1, <1>3 DEF Shape, DecodeType, ThreadOnSong, Playing, calling
  <2>. QED
    BY <2>2, <2>3, ThreadSilent
<1>. QED
  BY <1>2, <1>3 DEF Open

\* A started thread plays from the range's start, on the cached output.
LEMMA StartedInv ==
  ASSUME ThreadInv, decode.at = "acquiring", Started(slot'),
         multis' \in Seq(MultiType), slot' \in 1 .. Len(multis'),
         multis'[slot'].key = Key(decode.song, decode.outs),
         UNCHANGED <<calling, now_song, fed, seeks, honest>>,
         decode.multi \in 0 .. Len(multis')
  PROVE  ThreadInv'
<1>. USE DEF ThreadInv
<1>. DEFINE pos   == IF decode.limit = None THEN 0 ELSE decode.limit.start
            limit == IF decode.limit = None \/ decode.limit.end <= decode.limit.start THEN None
                     ELSE decode.limit.end - decode.limit.start
<1>1. pos \in Nat /\ limit \in Int \union {None}
  <2>1. CASE decode.limit = None
    BY <2>1
  <2>2. CASE decode.limit # None
    <3>1. decode.limit \in Ranges
      BY <2>2 DEF ThreadOnSong
    <3>2. decode.limit.start \in Nat /\ decode.limit.end \in Nat
      BY <3>1, DecodeThreadConstants
    <3>. QED
      BY <2>2, <3>2
  <2>. QED
    BY <2>1, <2>2
<1>2. state' = "play"
      /\ decode' = [decode EXCEPT !.at = "loop", !.multi = slot', !.pos = pos, !.limit = limit]
  BY DEF Started
<1>. HIDE DEF pos, limit
<1>3. decode' \in DecodeType
  <2>1. slot' \in Nat /\ decode \in DecodeType
    BY DEF Shape
  <2>. QED
    BY <1>1, <1>2, <2>1 DEF DecodeType, Playing
<1>4. /\ decode'.at = "loop" /\ decode'.multi = slot' /\ decode'.limit = limit
      /\ decode'.song = decode.song /\ decode'.outs = decode.outs /\ decode'.pos = pos
      /\ decode'.count = decode.count /\ decode'.ranged = decode.ranged
      /\ decode'.blends = decode.blends
  BY <1>2 DEF Shape, DecodeType
<1>5. Shape'
  BY <1>2, <1>3, <1>4 DEF Shape, calling
<1>6. ThreadOnSong' /\ HasOutput'
  BY <1>1, <1>4 DEF ThreadOnSong, HasOutput, Playing, calling
<1>7. DeviceMatchesSong'
  BY <1>4 DEF DeviceMatchesSong, Key, RateOf
<1>8. ~decode'.ranged => decode'.pos = 0
  BY <1>4 DEF ThreadOnSong, pos
<1>9. decode'.count = 0 /\ decode'.blends = 0 /\ Dropped(0) = 0
  BY <1>4, DroppedGrows DEF ThreadOnSong
<1>10. PositionTrue' /\ BlendInv'
  BY <1>4, <1>8, <1>9 DEF PositionTrue, BlendInv, Dropped
<1>. QED
  BY <1>5, <1>6, <1>7, <1>10

\* Acquiring takes the cached output if its key is the one asked for, or puts the new
\* one, with that key, in the cache.
LEMMA AcquireInv ==
  ASSUME ThreadInv, Acquire
  PROVE  ThreadInv'
<1>. USE DEF ThreadInv
<1>. DEFINE key == Key(decode.song, decode.outs)
            new == [key |-> key, active |-> TRUE, broken |-> FALSE]
<1>1. /\ decode.at = "acquiring" /\ UNCHANGED <<calling, now_song, fed, seeks, honest>>
      /\ multis \in Seq(MultiType) /\ slot \in 0 .. Len(multis) /\ Len(multis) \in Nat
      /\ decode.multi \in 0 .. Len(multis)
  BY DEF Acquire, Shape
<1>2. CASE slot # 0 /\ multis[slot].key = key /\ Started(slot) /\ UNCHANGED <<slot, multis>>
  BY <1>1, <1>2, StartedInv
<1>3. CASE multis' = Append(multis, new) /\ slot' = Len(multis) + 1 /\ Started(slot')
  <2>1. key \in KeyType
    BY <1>1 DEF ThreadOnSong, KeyType
  <2>2. new \in MultiType /\ new.key = key
    BY <2>1 DEF MultiType
  <2>. HIDE DEF new, key
  <2>3. /\ multis' \in Seq(MultiType) /\ Len(multis') = Len(multis) + 1
        /\ multis'[slot'] = new
    BY <1>1, <1>3, <2>2
  <2>4. slot' \in 1 .. Len(multis') /\ decode.multi \in 0 .. Len(multis')
    BY <1>1, <1>3, <2>3
  <2>5. multis'[slot'].key = Key(decode.song, decode.outs)
    BY <2>2, <2>3 DEF key
  <2>. QED
    BY <1>1, <1>3, <2>3, <2>4, <2>5, StartedInv
<1>4. CASE End /\ UNCHANGED <<state, slot, multis>>
  BY <1>1, <1>4, EndInv DEF Shape
<1>. QED
  BY <1>2, <1>3, <1>4 DEF Acquire

\* A playing thread has an output and is on a song.
LEMMA PlayingFacts ==
  ASSUME ThreadInv, decode.at \in Playing
  PROVE  /\ decode \in DecodeType /\ multis \in Seq(MultiType)
         /\ decode.multi \in 1 .. Len(multis) /\ decode.multi = slot
         /\ decode.song \in DOMAIN Songs /\ decode.outs \in OutputSets
         /\ decode.pos \in Nat /\ decode.count \in Nat /\ decode.blends \in Nat
         /\ decode.next_pos \in Nat
BY DEF ThreadInv, Shape, DecodeType, ThreadOnSong, HasOutput, DeviceMatchesSong, Playing

\* A seek moves the position and, unless it failed, the counter with it.
LEMMA SoughtKeeps ==
  ASSUME ThreadInv, decode.at \in Playing, NEW p \in Nat, NEW ok \in BOOLEAN
  PROVE  /\ Sought(decode, p, ok) \in DecodeType
         /\ Sought(decode, p, ok).pos = p
         /\ ok => Sought(decode, p, ok).count = p /\ Sought(decode, p, ok).blends = 0
         /\ \A field \in {"at", "song", "outs", "multi", "limit", "next", "next_pos", "ranged"} :
              Sought(decode, p, ok)[field] = decode[field]
BY PlayingFacts DEF Sought, DecodeType

\* A playing step on the song: what is left to show of it is what it does to the
\* position and, when it goes on blending, to the blend.
LEMMA PlayingKept ==
  ASSUME ThreadInv, decode.at \in Playing,
         UNCHANGED <<calling, now_song, slot>>,
         fed' \in SongsOrNone, state' \in {"stop", "play", "pause"}, honest' \in BOOLEAN,
         seeks' \in Seq(SeekTo), multis' \in Seq(MultiType), Len(multis') = Len(multis),
         \A i \in 1 .. Len(multis) : multis'[i].key = multis[i].key,
         decode' \in DecodeType, decode'.at \in Playing,
         decode'.song = decode.song, decode'.outs = decode.outs,
         decode'.multi = decode.multi, decode'.limit = decode.limit,
         decode'.at = "mix" =>
           decode'.next \in DOMAIN Songs /\ RateOf(decode'.next) = RateOf(decode.song),
         PositionTrue', BlendInv'
  PROVE  ThreadInv'
<1>1. Shape'
  BY PlayingFacts DEF ThreadInv, Shape, calling
<1>2. ThreadOnSong'
  BY PlayingFacts DEF ThreadInv, ThreadOnSong, calling, Playing
<1>3. HasOutput' /\ DeviceMatchesSong'
  BY OutputKept
<1>. QED
  BY <1>1, <1>2, <1>3 DEF ThreadInv

\* The head of the loop: stop, a pause to follow, or a seek, which sets position and
\* counter alike unless it fails.
LEMMA LoopTopInv ==
  ASSUME ThreadInv, LoopTop
  PROVE  ThreadInv'
<1>1. decode.at = "loop" /\ decode.at \in Playing /\ UNCHANGED <<calling, now_song, fed, state, slot>>
  BY DEF LoopTop, Playing
<1>2. Shape /\ PositionTrue /\ BlendInv
  BY DEF ThreadInv
<1>3. CASE stopping /\ End /\ UNCHANGED <<seeks, multis, honest>>
  BY <1>1, <1>2, <1>3, EndInv DEF Shape
<1>4. CASE FollowPause(decode, "fade") /\ UNCHANGED <<seeks, honest>>
  <2>1. /\ decode' = [decode EXCEPT !.at = decode'.at, !.paused = decode'.paused]
        /\ decode' \in DecodeType /\ decode'.at \in {"loop", "fade"}
        /\ multis' \in Seq(MultiType) /\ Len(multis') = Len(multis)
        /\ \A i \in 1 .. Len(multis) : multis'[i].key = multis[i].key
    BY <1>1, <1>4, PlayingFacts, FollowPauseKeeps DEF Playing
  <2>2. \A field \in {"song", "outs", "multi", "limit", "pos", "count", "ranged", "blends"} :
          decode'[field] = decode[field]
    BY <2>1, <1>1, PlayingFacts DEF DecodeType
  <2>3. PositionTrue' /\ BlendInv'
    BY <1>1, <1>2, <1>4, <2>1, <2>2 DEF PositionTrue, BlendInv, Playing, Dropped
  <2>. QED
    BY <1>1, <1>2, <1>4, <2>1, <2>2, <2>3, PlayingKept DEF Shape, Playing
<1>5. ASSUME NEW ok \in BOOLEAN, seeks # <<>>,
             FollowPause(Sought(decode, Head(seeks), ok), "fade"),
             honest' = (honest /\ ok), seeks' = Tail(seeks)
      PROVE  ThreadInv'
  <2>1. Head(seeks) \in Nat /\ seeks' \in Seq(SeekTo) /\ honest' \in BOOLEAN
    <3>1. Head(seeks) \in SeekTo /\ seeks' \in Seq(SeekTo)
      BY <1>2, <1>5 DEF Shape
    <3>2. honest' \in BOOLEAN
      BY <1>5
    <3>. QED
      BY <3>1, <3>2, DecodeThreadConstants
  <2>. DEFINE d == Sought(decode, Head(seeks), ok)
  <2>2. /\ d \in DecodeType /\ d.pos = Head(seeks) /\ d.at = "loop" /\ d.multi = decode.multi
        /\ ok => d.count = d.pos /\ d.blends = 0
        /\ \A field \in {"song", "outs", "multi", "limit", "ranged"} : d[field] = decode[field]
    BY <1>1, <2>1, SoughtKeeps
  <2>3. FollowPause(d, "fade")
    BY <1>5
  <2>. HIDE DEF d
  <2>4. /\ decode' = [d EXCEPT !.at = decode'.at, !.paused = decode'.paused]
        /\ decode' \in DecodeType /\ decode'.at \in {"loop", "fade"}
        /\ multis' \in Seq(MultiType) /\ Len(multis') = Len(multis)
        /\ \A i \in 1 .. Len(multis) : multis'[i].key = multis[i].key
    BY <1>1, <2>2, <2>3, PlayingFacts, FollowPauseKeeps DEF Playing
  <2>5. \A field \in {"song", "outs", "multi", "limit", "pos", "count", "ranged", "blends"} :
          decode'[field] = d[field]
    BY <2>2, <2>4 DEF DecodeType
  <2>6. PositionTrue' /\ BlendInv'
    <3>1. honest' => decode'.count = decode'.pos /\ decode'.pos \in Nat /\ decode'.blends = 0
      BY <1>5, <2>1, <2>2, <2>5
    <3>. QED
      BY <2>4, <3>1, DroppedGrows DEF PositionTrue, BlendInv, Playing
  <2>. QED
    BY <1>1, <1>2, <2>1, <2>2, <2>4, <2>5, <2>6, PlayingKept DEF Shape, Playing
<1>. QED
  BY <1>1, <1>3, <1>4, <1>5 DEF LoopTop

\* The look-ahead starts a blend only within the crossfade of the end, with a song of
\* the rate that is playing.
LEMMA LookaheadInv ==
  ASSUME ThreadInv, Lookahead
  PROVE  ThreadInv'
<1>1. decode.at = "fade" /\ decode.at \in Playing
      /\ UNCHANGED <<calling, now_song, state, seeks, slot, multis, honest>>
  BY DEF Lookahead, Playing
<1>2. Shape /\ PositionTrue /\ BlendInv /\ fed' \in SongsOrNone
  BY DEF ThreadInv, Lookahead, Shape, SongsOrNone
<1>3. ASSUME NEW w \in Windows, FadeDue, fed # None, Compatible(fed),
             decode' = [decode EXCEPT !.at = "mix", !.next = fed, !.next_pos = 0, !.window = w]
      PROVE  ThreadInv'
  <2>1. fed \in DOMAIN Songs /\ RateOf(fed) = RateOf(decode.song)
    BY <1>2, <1>3, CompatibleRate DEF Shape, SongsOrNone
  <2>2. decode' \in DecodeType /\ decode'.at = "mix" /\ decode'.next = fed
        /\ \A field \in {"song", "outs", "multi", "limit", "pos", "count", "ranged", "blends"} :
             decode'[field] = decode[field]
    BY <1>1, <1>3, <2>1, PlayingFacts DEF DecodeType, Playing, SongsOrNone
  <2>3. decode.count + Crossfade >= Songs[decode.song].length
        /\ Songs[decode.song].length \in Nat /\ Crossfade \in Nat
    BY <1>1, <1>3, PlayingFacts, DecodeThreadConstants DEF FadeDue
  <2>4. PositionTrue' /\ BlendInv'
    <3>1. SUFFICES ASSUME honest, ~decode.ranged
                   PROVE  /\ decode.count <= decode.pos
                          /\ decode.pos - decode.count <= Dropped(decode.blends)
                          /\ decode.pos - decode.count <= Dropped(decode.blends + 1)
                          /\ decode.pos + Crossfade >= Songs[decode.song].length
      BY <1>1, <2>2 DEF PositionTrue, BlendInv
    <3>2. decode.count <= decode.pos /\ decode.pos - decode.count <= Dropped(decode.blends)
      BY <1>1, <1>2, <3>1 DEF BlendInv
    <3>3. Dropped(decode.blends) \in Nat /\ Buffer - 1 \in Nat
          /\ Dropped(decode.blends + 1) = Dropped(decode.blends) + (Buffer - 1)
      <4>1. decode.blends \in Nat
        BY <1>1, PlayingFacts
      <4>2. Buffer - 1 \in Nat
        BY DecodeThreadConstants
      <4>. QED
        BY <4>1, <4>2, DroppedGrows
    <3>4. decode.pos \in Nat /\ decode.count \in Nat
      BY <1>1, PlayingFacts
    <3>. DEFINE drop == Dropped(decode.blends)
                more == Dropped(decode.blends + 1)
                length == Songs[decode.song].length
    <3>5. drop \in Nat /\ Buffer - 1 \in Nat /\ more = drop + (Buffer - 1) /\ length \in Nat
          /\ decode.pos - decode.count <= drop /\ decode.count + Crossfade >= length
          /\ Crossfade \in Nat
      BY <2>3, <3>2, <3>3
    <3>. HIDE DEF drop, more, length
    <3>6. decode.pos - decode.count <= more /\ decode.pos + Crossfade >= length
      BY <3>2, <3>4, <3>5
    <3>. QED
      BY <3>2, <3>6 DEF drop, more, length
  <2>. QED
    BY <1>1, <1>2, <2>1, <2>2, <2>4, PlayingKept DEF Shape, Playing
<1>4. CASE decode' = [decode EXCEPT !.at = "read"]
  <2>1. decode' \in DecodeType /\ decode'.at = "read"
        /\ \A field \in {"song", "outs", "multi", "limit", "pos", "count", "ranged", "blends"} :
             decode'[field] = decode[field]
    BY <1>1, <1>4, PlayingFacts DEF DecodeType, Playing
  <2>2. PositionTrue' /\ BlendInv'
    BY <1>1, <1>2, <2>1, PlayingFacts DEF PositionTrue, BlendInv, Playing, Dropped
  <2>. QED
    BY <1>1, <1>2, <2>1, <2>2, PlayingKept DEF Shape, Playing
<1>. QED
  BY <1>3, <1>4 DEF Lookahead

\* A song that is joined in the thread starts with its counter at its position.
LEMMA AdvancedInv ==
  ASSUME ThreadInv, decode.at \in Playing,
         NEW s \in DOMAIN Songs, NEW p \in Nat, RateOf(s) = RateOf(decode.song), Advanced(s, p),
         UNCHANGED <<calling, state, seeks, slot, multis, honest>>, fed' \in SongsOrNone
  PROVE  ThreadInv' /\ decode'.at = "loop"
<1>1. /\ now_song' = s
      /\ decode' = [decode EXCEPT !.at = "loop", !.song = s, !.pos = p, !.count = p, !.next = None,
                              !.next_pos = 0, !.ranged = FALSE, !.blends = 0]
  BY DEF Advanced
<1>2. /\ decode' \in DecodeType /\ decode'.at = "loop" /\ decode'.song = s
      /\ decode'.pos = p /\ decode'.count = p /\ decode'.blends = 0
      /\ decode'.multi = decode.multi /\ decode'.outs = decode.outs /\ decode'.limit = decode.limit
  BY <1>1, PlayingFacts DEF DecodeType, Playing, SongsOrNone
<1>3. Shape'
  BY <1>1, <1>2, PlayingFacts DEF ThreadInv, Shape, calling, SongsOrNone
<1>4. ThreadOnSong'
  BY <1>2, PlayingFacts DEF ThreadInv, ThreadOnSong, calling, Playing
<1>5. HasOutput' /\ DeviceMatchesSong'
  BY <1>2, OutputKept
<1>6. PositionTrue' /\ BlendInv'
  BY <1>2, DroppedGrows DEF PositionTrue, BlendInv
<1>. QED
  BY <1>2, <1>3, <1>4, <1>5, <1>6 DEF ThreadInv

\* The head of the blend: stop, a pause to follow, or a seek, which ends the blend.
LEMMA MixTopInv ==
  ASSUME ThreadInv, MixTop
  PROVE  ThreadInv'
<1>1. decode.at = "mix" /\ decode.at \in Playing /\ UNCHANGED <<calling, now_song, fed, state, slot>>
  BY DEF MixTop, Playing
<1>2. Shape /\ PositionTrue /\ BlendInv /\ decode.next \in DOMAIN Songs
      /\ RateOf(decode.next) = RateOf(decode.song)
  BY <1>1 DEF ThreadInv, ThreadOnSong, DeviceMatchesSong
<1>3. CASE stopping /\ End /\ UNCHANGED <<seeks, multis, honest>>
  BY <1>1, <1>2, <1>3, EndInv DEF Shape
<1>4. CASE FollowPause(decode, "mix") /\ UNCHANGED <<seeks, honest>>
  <2>1. /\ decode' = [decode EXCEPT !.at = decode'.at, !.paused = decode'.paused]
        /\ decode' \in DecodeType /\ decode'.at = "mix"
        /\ multis' \in Seq(MultiType) /\ Len(multis') = Len(multis)
        /\ \A i \in 1 .. Len(multis) : multis'[i].key = multis[i].key
    BY <1>1, <1>4, PlayingFacts, FollowPauseKeeps DEF Playing
  <2>2. \A field \in {"song", "outs", "multi", "limit", "pos", "count", "ranged", "blends",
                      "next", "next_pos"} : decode'[field] = decode[field]
    BY <2>1, <1>1, PlayingFacts DEF DecodeType
  <2>3. PositionTrue' /\ BlendInv'
    BY <1>1, <1>2, <1>4, <2>1, <2>2 DEF PositionTrue, BlendInv, Left
  <2>. QED
    BY <1>1, <1>2, <1>4, <2>1, <2>2, <2>3, PlayingKept DEF Shape, Playing
<1>5. ASSUME NEW ok \in BOOLEAN, seeks # <<>>,
             FollowPause(Abandoned(Sought(decode, Head(seeks), ok)), "loop"),
             honest' = (honest /\ ok), seeks' = Tail(seeks)
      PROVE  ThreadInv'
  <2>1. Head(seeks) \in Nat /\ seeks' \in Seq(SeekTo) /\ honest' \in BOOLEAN
    <3>1. Head(seeks) \in SeekTo /\ seeks' \in Seq(SeekTo)
      BY <1>2, <1>5 DEF Shape
    <3>2. honest' \in BOOLEAN
      BY <1>5
    <3>. QED
      BY <3>1, <3>2, DecodeThreadConstants
  <2>. DEFINE e == Sought(decode, Head(seeks), ok)
              d == Abandoned(e)
  <2>2. /\ e \in DecodeType /\ e.pos = Head(seeks) /\ e.multi = decode.multi
        /\ ok => e.count = e.pos /\ e.blends = 0
        /\ \A field \in {"song", "outs", "multi", "limit", "ranged"} : e[field] = decode[field]
    BY <1>1, <2>1, SoughtKeeps
  <2>. HIDE DEF e
  <2>3. /\ d \in DecodeType /\ d.pos = Head(seeks) /\ d.at = "loop" /\ d.multi = decode.multi
        /\ ok => d.count = d.pos /\ d.blends = 0
        /\ \A field \in {"song", "outs", "multi", "limit", "ranged"} : d[field] = decode[field]
    BY <2>2 DEF Abandoned, DecodeType, Playing, SongsOrNone
  <2>4. FollowPause(d, "loop")
    BY <1>5 DEF e
  <2>. HIDE DEF d
  <2>5. /\ decode' = [d EXCEPT !.at = decode'.at, !.paused = decode'.paused]
        /\ decode' \in DecodeType /\ decode'.at = "loop"
        /\ multis' \in Seq(MultiType) /\ Len(multis') = Len(multis)
        /\ \A i \in 1 .. Len(multis) : multis'[i].key = multis[i].key
    BY <1>1, <2>3, <2>4, PlayingFacts, FollowPauseKeeps DEF Playing
  <2>6. \A field \in {"song", "outs", "multi", "limit", "pos", "count", "ranged", "blends"} :
          decode'[field] = d[field]
    BY <2>3, <2>5 DEF DecodeType
  <2>7. PositionTrue' /\ BlendInv'
    <3>1. honest' => decode'.count = decode'.pos /\ decode'.pos \in Nat /\ decode'.blends = 0
      BY <1>5, <2>1, <2>3, <2>6
    <3>2. Dropped(0) = 0
      BY DroppedGrows
    <3>3. PositionTrue'
      BY <2>5, <3>1, <3>2 DEF PositionTrue
    <3>4. BlendInv'
      BY <2>5, <3>1, <3>2 DEF BlendInv
    <3>. QED
      BY <3>3, <3>4
  <2>. QED
    BY <1>1, <1>2, <2>1, <2>3, <2>5, <2>6, <2>7, PlayingKept DEF Shape, Playing
<1>. QED
  BY <1>1, <1>3, <1>4, <1>5 DEF MixTop

\* A write that fails ends the thread.
LEMMA BrokenInv ==
  ASSUME ThreadInv, decode.at \in Playing, Broken, End,
         UNCHANGED <<calling, state, seeks, slot, now_song, honest>>, fed' = fed
  PROVE  ThreadInv'
<1>1. multis' \in Seq(MultiType) /\ Len(multis') = Len(multis)
  BY PlayingFacts, FlagsOnly DEF Broken
<1>. QED
  BY <1>1, EndInv DEF ThreadInv, Shape

\* A buffer of the blend drops what the incoming song cannot match, which happens
\* only when the incoming song ends: the next round gives the blend up.
LEMMA MixInv ==
  ASSUME ThreadInv, Mix
  PROVE  ThreadInv'
<1>. DEFINE n == Read(decode.song, decode.pos)
            k == Min({n, Left(decode.next, decode.next_pos)})
<1>1. decode.at = "mix" /\ decode.at \in Playing /\ UNCHANGED <<calling, fed, state, seeks, slot>>
  BY DEF Mix, Playing
<1>2. Shape /\ PositionTrue /\ BlendInv /\ decode.next \in DOMAIN Songs
      /\ RateOf(decode.next) = RateOf(decode.song)
  BY <1>1 DEF ThreadInv, ThreadOnSong, DeviceMatchesSong
<1>3. /\ decode \in DecodeType /\ decode.pos \in Nat /\ decode.count \in Nat
      /\ decode.blends \in Nat /\ decode.next_pos \in Nat /\ decode.song \in DOMAIN Songs
  BY <1>1, PlayingFacts
<1>4. n \in Nat /\ n <= Buffer /\ Left(decode.next, decode.next_pos) \in Nat /\ Buffer \in Nat \ {0}
  BY <1>2, <1>3, ReadBounds, DecodeThreadConstants
<1>5. k \in Nat /\ k <= n /\ k <= Left(decode.next, decode.next_pos)
      /\ (k = n \/ k = Left(decode.next, decode.next_pos))
  BY <1>4, MinOfTwo
<1>6. /\ Dropped(decode.blends) \in Nat
      /\ Dropped(decode.blends + 1) = Dropped(decode.blends) + (Buffer - 1)
  BY <1>3, DroppedGrows
<1>7. Songs[decode.song].length \in Nat /\ Songs[decode.next].length \in Nat /\ Crossfade \in Nat
  BY <1>2, <1>3, DecodeThreadConstants
<1>8. CASE Advanced(decode.next, decode.next_pos) /\ UNCHANGED <<multis, honest>>
  BY <1>1, <1>2, <1>3, <1>8, AdvancedInv DEF Shape
<1>9. CASE /\ k = 0 /\ Writes
           /\ decode' = [Abandoned(decode) EXCEPT !.pos = @ + n, !.count = @ + n, !.blends = @ + 1]
           /\ UNCHANGED <<now_song, honest>>
  <2>. HIDE DEF n, k
  <2>1. /\ decode' \in DecodeType /\ decode'.at = "loop"
        /\ decode'.pos = decode.pos + n /\ decode'.count = decode.count + n
        /\ decode'.blends = decode.blends + 1
        /\ \A field \in {"song", "outs", "multi", "limit", "ranged"} : decode'[field] = decode[field]
    <3>. DEFINE e == Abandoned(decode)
    <3>1. /\ e \in DecodeType /\ e.at = "loop" /\ e.pos = decode.pos /\ e.count = decode.count
          /\ e.blends = decode.blends
          /\ \A field \in {"song", "outs", "multi", "limit", "ranged"} : e[field] = decode[field]
      BY <1>3 DEF Abandoned, DecodeType, Playing, SongsOrNone
    <3>. HIDE DEF e
    <3>2. decode' = [e EXCEPT !.pos = e.pos + n, !.count = e.count + n, !.blends = e.blends + 1]
      BY <1>9 DEF e
    <3>3. e.pos + n \in Nat /\ e.count + n \in Nat /\ e.blends + 1 \in Nat
      BY <1>3, <1>4, <3>1
    <3>. QED
      BY <3>1, <3>2, <3>3 DEF DecodeType
  <2>2. honest /\ ~decode.ranged => /\ decode.count <= decode.pos
                                    /\ decode.pos - decode.count <= Dropped(decode.blends + 1)
    BY <1>1, <1>2 DEF PositionTrue
  <2>3. honest /\ ~decode.ranged => /\ decode'.count <= decode'.pos
                                    /\ decode'.pos - decode'.count <= Dropped(decode'.blends)
    BY <1>3, <1>4, <1>6, <2>1, <2>2
  <2>4. PositionTrue' /\ BlendInv'
    <3>1. decode'.blends + 0 = decode'.blends
      BY <1>3, <2>1
    <3>. QED
      BY <1>9, <2>1, <2>3, <3>1 DEF PositionTrue, BlendInv
  <2>. QED
    BY <1>1, <1>2, <1>9, <2>1, <2>4, PlayingKept DEF Shape, Playing, Writes
<1>10. CASE /\ k > 0 /\ Writes
            /\ decode' = [decode EXCEPT !.pos = @ + n, !.count = @ + k, !.next_pos = @ + k]
            /\ UNCHANGED <<now_song, honest>>
  <2>. HIDE DEF n, k
  <2>1. /\ decode' \in DecodeType /\ decode'.at = "mix"
        /\ decode'.pos = decode.pos + n /\ decode'.count = decode.count + k
        /\ decode'.next_pos = decode.next_pos + k
        /\ \A field \in {"song", "outs", "multi", "limit", "ranged", "next", "blends"} :
             decode'[field] = decode[field]
    <3>1. decode' = [decode EXCEPT !.pos = decode.pos + n, !.count = decode.count + k,
                                   !.next_pos = decode.next_pos + k]
      BY <1>10
    <3>2. decode.pos + n \in Nat /\ decode.count + k \in Nat /\ decode.next_pos + k \in Nat
      BY <1>3, <1>4, <1>5
    <3>. QED
      BY <1>1, <1>3, <3>1, <3>2 DEF DecodeType
  <2>2. honest /\ ~decode.ranged => /\ decode.count <= decode.pos
                                    /\ decode.pos - decode.count <= Dropped(decode.blends)
                                    /\ decode.pos + Crossfade >= Songs[decode.song].length
    BY <1>1, <1>2, <1>4, <1>5, <1>10 DEF BlendInv
  <2>3. honest /\ ~decode.ranged =>
          /\ decode'.count <= decode'.pos
          /\ decode'.pos - decode'.count <= Dropped(decode.blends + 1)
          /\ decode'.pos + Crossfade >= Songs[decode.song].length
    BY <1>3, <1>4, <1>5, <1>6, <1>7, <1>10, <2>1, <2>2
  <2>4. honest /\ ~decode.ranged /\ Left(decode.next, decode'.next_pos) > 0 =>
          decode'.pos - decode'.count <= Dropped(decode.blends)
    <3>1. k # n => Left(decode.next, decode.next_pos + k) = 0
      BY <1>3, <1>4, <1>5, <1>7 DEF Left
    <3>. QED
      BY <1>3, <1>4, <1>5, <2>1, <2>2, <3>1
  <2>5. PositionTrue' /\ BlendInv'
    BY <1>10, <2>1, <2>3, <2>4 DEF PositionTrue, BlendInv, Left
  <2>. QED
    BY <1>1, <1>2, <1>10, <2>1, <2>5, PlayingKept DEF Shape, Playing, Writes
<1>11. CASE Broken /\ End /\ UNCHANGED <<now_song, honest>>
  BY <1>1, <1>11, BrokenInv
<1>. QED
  BY <1>8, <1>9, <1>10, <1>11 DEF Mix

\* A buffer that is read and written moves the position and the counter alike; the
\* end of the file joins the fed song, if it fits, or ends the thread.
LEMMA ReadWriteInv ==
  ASSUME ThreadInv, ReadWrite
  PROVE  ThreadInv'
<1>. DEFINE n   == Read(decode.song, decode.pos)
            cut == decode.limit # None /\ decode.count + n >= decode.limit
            m   == IF cut THEN Max({0, decode.limit - decode.count}) ELSE n
<1>1. decode.at = "read" /\ decode.at \in Playing /\ UNCHANGED <<calling, state, seeks, slot>>
  BY DEF ReadWrite, Playing
<1>2. Shape /\ PositionTrue /\ BlendInv
  BY DEF ThreadInv
<1>3. decode \in DecodeType /\ decode.pos \in Nat /\ decode.count \in Nat /\ decode.song \in DOMAIN Songs
  BY <1>1, PlayingFacts
<1>4. n \in Nat
  BY <1>3, ReadBounds
<1>5. CASE /\ fed' = None /\ fed # None /\ Compatible(fed) /\ Advanced(fed, 0)
           /\ UNCHANGED <<multis, honest>>
  <2>1. fed \in DOMAIN Songs /\ RateOf(fed) = RateOf(decode.song) /\ fed' \in SongsOrNone
    BY <1>2, <1>5, CompatibleRate DEF Shape, SongsOrNone
  <2>. QED
    BY <1>1, <1>5, <2>1, AdvancedInv
<1>6. CASE fed' = None /\ End /\ UNCHANGED <<now_song, multis, honest>>
  BY <1>1, <1>2, <1>6, EndInv DEF Shape, SongsOrNone
<1>7. CASE Writes /\ decode' = NoDecode /\ UNCHANGED <<fed, now_song, honest>>
  BY <1>1, <1>2, <1>7, EndInv DEF Shape, End, Writes
<1>8. CASE /\ Writes /\ decode' = [decode EXCEPT !.at = "loop", !.pos = @ + n, !.count = @ + n]
           /\ UNCHANGED <<fed, now_song, honest>>
  <2>. HIDE DEF n
  <2>1. /\ decode' \in DecodeType /\ decode'.at = "loop"
        /\ decode'.pos = decode.pos + n /\ decode'.count = decode.count + n
        /\ \A field \in {"song", "outs", "multi", "limit", "ranged", "blends"} :
             decode'[field] = decode[field]
    <3>1. decode' = [decode EXCEPT !.at = "loop", !.pos = decode.pos + n, !.count = decode.count + n]
      BY <1>8
    <3>2. decode.pos + n \in Nat /\ decode.count + n \in Nat
      BY <1>3, <1>4
    <3>. QED
      BY <1>3, <3>1, <3>2 DEF DecodeType, Playing
  <2>2. honest /\ ~decode.ranged => /\ decode.count <= decode.pos
                                    /\ decode.pos - decode.count <= Dropped(decode.blends)
    BY <1>1, <1>2 DEF BlendInv
  <2>3. honest /\ ~decode.ranged => /\ decode'.count <= decode'.pos
                                    /\ decode'.pos - decode'.count <= Dropped(decode'.blends)
    <3>1. decode'.pos - decode'.count = decode.pos - decode.count
      BY <1>3, <1>4, <2>1
    <3>. QED
      BY <1>3, <1>4, <2>1, <2>2, <3>1
  <2>4. PositionTrue' /\ BlendInv'
    <3>1. decode'.blends + 0 = decode'.blends
      BY <2>1 DEF DecodeType
    <3>. QED
      BY <1>8, <2>1, <2>3, <3>1 DEF PositionTrue, BlendInv
  <2>. QED
    BY <1>1, <1>2, <1>8, <2>1, <2>4, PlayingKept DEF Shape, Playing, Writes
<1>9. CASE Broken /\ End /\ UNCHANGED <<fed, now_song, honest>>
  BY <1>1, <1>9, BrokenInv
<1>10. m = n \/ cut
  OBVIOUS
<1>. QED
  BY <1>5, <1>6, <1>7, <1>8, <1>9, <1>10 DEF ReadWrite

\* A round of native DSD stays where it is or ends: it has no output of the cache's.
LEMMA DopRoundInv ==
  ASSUME ThreadInv, DopRound
  PROVE  ThreadInv'
<1>1. decode.at = "dop" /\ UNCHANGED <<calling, now_song, fed, state, slot, multis>>
  BY DEF DopRound
<1>2. Shape /\ decode \in DecodeType /\ decode.song \in DOMAIN Songs
  BY <1>1 DEF ThreadInv, Shape, ThreadOnSong
<1>3. seeks' \in Seq(SeekTo) /\ honest' \in BOOLEAN
  <2>1. seeks' \in Seq(SeekTo)
    <3>1. seeks' = seeks \/ (seeks # <<>> /\ seeks' = Tail(seeks))
      BY DEF DopRound
    <3>. QED
      BY <1>2, <3>1 DEF Shape
  <2>2. honest' \in BOOLEAN
    <3>1. CASE UNCHANGED <<seeks, honest>>
      BY <1>2, <3>1 DEF Shape
    <3>2. ASSUME NEW ok \in BOOLEAN, honest' = (honest /\ (ok \/ seeks = <<>>))
          PROVE  honest' \in BOOLEAN
      BY <3>2
    <3>. QED
      BY <3>1, <3>2 DEF DopRound
  <2>. QED
    BY <2>1, <2>2
<1>4. CASE End
  BY <1>1, <1>2, <1>3, <1>4, EndInv DEF Shape
<1>5. CASE ~End
  <2>a. PICK ok \in BOOLEAN, written \in BOOLEAN :
          LET d == IF seeks = <<>> THEN decode ELSE Sought(decode, Head(seeks), ok)
              n == Read(d.song, d.pos)
          IN  decode' \in {NoDecode, [d EXCEPT !.paused = TRUE],
                           [d EXCEPT !.paused = FALSE, !.pos = @ + n,
                                     !.count = IF written THEN @ + n ELSE @]}
    BY <1>5 DEF DopRound
  <2>b. decode' # NoDecode
    BY <1>5 DEF End
  <2>c. PICK d : d = IF seeks = <<>> THEN decode ELSE Sought(decode, Head(seeks), ok)
    OBVIOUS
  <2>d. PICK n : n = Read(d.song, d.pos)
    OBVIOUS
  <2>0. /\ d = IF seeks = <<>> THEN decode ELSE Sought(decode, Head(seeks), ok)
        /\ n = Read(d.song, d.pos)
        /\ decode' \in {[d EXCEPT !.paused = TRUE],
                       [d EXCEPT !.paused = FALSE, !.pos = @ + n,
                                 !.count = IF written THEN @ + n ELSE @]}
    BY <2>a, <2>b, <2>c, <2>d
  <2>1. /\ d \in DecodeType
        /\ \A field \in {"at", "song", "outs", "multi", "limit"} : d[field] = decode[field]
    <3>1. CASE seeks = <<>>
      BY <1>2, <2>0, <3>1
    <3>2. CASE seeks # <<>>
      <4>1. Head(seeks) \in Nat
        <5>1. Head(seeks) \in SeekTo
          BY <1>2, <3>2 DEF Shape
        <5>. QED
          BY <5>1, DecodeThreadConstants
      <4>. QED
        BY <1>2, <2>0, <3>2, <4>1 DEF Sought, DecodeType
    <3>. QED
      BY <3>1, <3>2
  <2>2. n \in Nat
    <3>1. d.song \in DOMAIN Songs /\ d.pos \in Nat
      BY <1>2, <2>1 DEF DecodeType
    <3>. QED
      BY <2>0, <3>1, ReadBounds
  <2>3. /\ decode' \in DecodeType
        /\ \A field \in {"at", "song", "outs", "multi", "limit"} : decode'[field] = decode[field]
    <3>1. CASE decode' = [d EXCEPT !.paused = TRUE]
      BY <2>1, <3>1 DEF DecodeType
    <3>2. CASE decode' = [d EXCEPT !.paused = FALSE, !.pos = @ + n,
                                   !.count = IF written THEN @ + n ELSE @]
      <4>. DEFINE p == d.pos + n
                  c == IF written THEN d.count + n ELSE d.count
      <4>1. p \in Nat /\ c \in Nat
        BY <2>1, <2>2 DEF DecodeType
      <4>2. decode' = [d EXCEPT !.paused = FALSE, !.pos = p, !.count = c]
        BY <3>2
      <4>. HIDE DEF p, c
      <4>. QED
        BY <2>1, <4>1, <4>2 DEF DecodeType
    <3>. QED
      BY <2>0, <3>1, <3>2
  <2>4. Shape'
    BY <1>1, <1>2, <1>3, <2>3 DEF Shape, calling
  <2>5. ThreadOnSong' /\ decode'.at \notin Playing
    BY <1>1, <2>3 DEF ThreadInv, ThreadOnSong, calling, Playing
  <2>. QED
    BY <2>4, <2>5, ThreadSilent
<1>. QED
  BY <1>4, <1>5

-----------------------------------------------------------------------------
(* The theorems.                                                            *)

\* Every step of a call or of the thread keeps the inductive invariant.
LEMMA ThreadStepInv == ThreadInv /\ [ThreadNext]_threadvars => ThreadInv'
<1>. SUFFICES ASSUME ThreadInv, [ThreadNext]_threadvars PROVE ThreadInv'
  OBVIOUS
<1>1. CASE UNCHANGED threadvars
  <2>1. Shape'
    BY <1>1 DEF threadvars, ThreadInv, Shape
  <2>. QED
    BY <1>1, <2>1, ThreadUntouched DEF threadvars, ThreadInv, ThreadOnSong
<1>2. CASE EngineCall
  BY <1>2, EngineCallInv
<1>3. CASE ThreadStep
  BY <1>3, OpenInv, AcquireInv, LoopTopInv, LookaheadInv, MixTopInv, MixInv, ReadWriteInv,
     DopRoundInv DEF ThreadStep
<1>. QED
  BY <1>1, <1>2, <1>3 DEF ThreadNext

\* The invariant holds in every reachable state.
LEMMA ThreadAlways == ThreadSpec => []ThreadInv
BY ThreadInvInit, ThreadStepInv, PTL DEF ThreadSpec

\* The playback thread's variables keep their types: no slot or handle is ever past
\* the outputs that were built, no position below zero.
THEOREM ThreadTypes == ThreadSpec => []ThreadTypeOK
<1>1. ThreadInv => ThreadTypeOK
  BY DEF ThreadInv, Shape, ThreadTypeOK, DecodeType, EngineType, SongsOrNone, Playing
<1>. QED
  BY <1>1, ThreadAlways, PTL

\* The position clients are told is the decoder's, but for less than a buffer for each
\* blend that was given up: through every interleaving of seeks, pauses, blends,
\* advances, stops and failures, for songs, buffers and windows of any size.
THEOREM ThreadPosition == ThreadSpec => []PositionTrue
<1>1. ThreadInv => PositionTrue
  BY DEF ThreadInv
<1>. QED
  BY <1>1, ThreadAlways, PTL

\* A playing thread writes to the cached output, opened for its rate and its outputs,
\* and what it blends in has that rate.
THEOREM ThreadOutput == ThreadSpec => []DeviceMatchesSong
<1>1. ThreadInv => DeviceMatchesSong
  BY DEF ThreadInv
<1>. QED
  BY <1>1, ThreadAlways, PTL

\* Only an advance puts a thread that lives on another song: at the end of a blend's
\* window or of the file.
LEMMA OnlyAdvances ==
  ASSUME ThreadInv, ThreadStep, decode'.at # "none", decode'.song # decode.song
  PROVE  decode.at = "mix" \/ (decode.at = "read" /\ Read(decode.song, decode.pos) = 0)
<1>1. Shape /\ decode \in DecodeType
  BY DEF ThreadInv, Shape
<1>2. ASSUME NEW thread \in DecodeType, NEW at, FollowPause(thread, at)
      PROVE  decode'.song = thread.song
  BY <1>2 DEF FollowPause, DecodeType
<1>3. ~End
  BY DEF End, NoDecode
<1>4. CASE Open
  BY <1>1, <1>3, <1>4 DEF Open, DecodeType
<1>5. CASE Acquire
  <2>1. ASSUME NEW m, Started(m)
        PROVE  decode'.song = decode.song
    BY <1>1, <2>1 DEF Started, DecodeType
  <2>. QED
    BY <1>3, <1>5, <2>1 DEF Acquire
<1>6. CASE LoopTop
  <2>1. ASSUME NEW ok \in BOOLEAN, seeks # <<>>, FollowPause(Sought(decode, Head(seeks), ok), "fade"),
               decode.at = "loop"
        PROVE  decode'.song = decode.song
    <3>1. Head(seeks) \in Nat
      <4>1. Head(seeks) \in SeekTo
        BY <1>1, <2>1 DEF Shape
      <4>. QED
        BY <4>1, DecodeThreadConstants
    <3>. QED
      BY <1>2, <2>1, <3>1, SoughtKeeps DEF Playing
  <2>. QED
    BY <1>1, <1>2, <1>3, <1>6, <2>1 DEF LoopTop
<1>7. CASE Lookahead
  BY <1>1, <1>7 DEF Lookahead, DecodeType
<1>8. CASE MixTop \/ Mix
  <2>1. decode.at = "mix"
    BY <1>8 DEF MixTop, Mix
  <2>. QED
    BY <2>1
<1>9. CASE ReadWrite
  <2>. DEFINE n == Read(decode.song, decode.pos)
  <2>1. ASSUME NEW m, decode' = [decode EXCEPT !.at = "loop", !.pos = @ + n, !.count = @ + m]
        PROVE  decode'.song = decode.song
    BY <1>1, <2>1 DEF DecodeType
  <2>. QED
    BY <1>3, <1>9, <2>1 DEF ReadWrite, End
<1>10. CASE DopRound
  <2>1. ASSUME NEW ok \in BOOLEAN, NEW written \in BOOLEAN, NEW d, NEW n,
               d = IF seeks = <<>> THEN decode ELSE Sought(decode, Head(seeks), ok),
               decode' \in {[d EXCEPT !.paused = TRUE],
                            [d EXCEPT !.paused = FALSE, !.pos = @ + n,
                                      !.count = IF written THEN @ + n ELSE @]}
        PROVE  decode'.song = decode.song
    <3>1. d.song = decode.song /\ DOMAIN d = DOMAIN decode
      BY <1>1, <2>1 DEF Sought, DecodeType
    <3>2. "song" \in DOMAIN d
      BY <1>1, <3>1 DEF DecodeType
    <3>. QED
      BY <1>1, <2>1, <3>1, <3>2
  <2>2. PICK ok \in BOOLEAN, written \in BOOLEAN :
          LET d == IF seeks = <<>> THEN decode ELSE Sought(decode, Head(seeks), ok)
              n == Read(d.song, d.pos)
          IN  decode' \in {[d EXCEPT !.paused = TRUE],
                           [d EXCEPT !.paused = FALSE, !.pos = @ + n,
                                     !.count = IF written THEN @ + n ELSE @]}
    BY <1>3, <1>10 DEF DopRound, End
  <2>. QED
    BY <2>1, <2>2
<1>. QED
  BY <1>4, <1>5, <1>6, <1>7, <1>8, <1>9, <1>10 DEF ThreadStep

\* An engine call leaves a thread that lives on its song.
LEMMA CallsKeepSong ==
  ASSUME EngineCall, decode.at # "none"
  PROVE  decode' = decode
BY DEF EngineCall, BeginPlay, BeginStop, Joined, SetPause, Seek, SetNextSong, SetOutputs

\* A step that puts the thread on another song is an advance: a blend's, which is
\* within the crossfade of the end, or a read's, which has found the end.
THEOREM ThreadAdvances == ThreadSpec => AdvanceNearEnd
<1>. DEFINE Near == decode.at # "none" /\ decode'.at # "none" /\ decode'.song # decode.song
                      /\ honest /\ ~decode.ranged
                    => decode.pos + Crossfade >= Songs[decode.song].length
<1>1. ThreadInv /\ [ThreadNext]_threadvars => [Near]_threadvars
  <2>1. SUFFICES ASSUME ThreadInv, ThreadNext, decode.at # "none", decode'.at # "none",
                        decode'.song # decode.song, honest, ~decode.ranged
                 PROVE  decode.pos + Crossfade >= Songs[decode.song].length
    OBVIOUS
  <2>2. decode.at = "mix" \/ (decode.at = "read" /\ Read(decode.song, decode.pos) = 0)
    BY <2>1, OnlyAdvances, CallsKeepSong DEF ThreadNext
  <2>3. decode.song \in DOMAIN Songs /\ decode.pos \in Nat
    BY <2>1, <2>2, PlayingFacts DEF Playing
  <2>4. CASE decode.at = "mix"
    BY <2>1, <2>4 DEF ThreadInv, BlendInv, Playing
  <2>5. CASE decode.at = "read" /\ Read(decode.song, decode.pos) = 0
    <3>1. decode.pos >= Songs[decode.song].length
      BY <2>3, <2>5, ReadBounds
    <3>2. Songs[decode.song].length \in Nat /\ Crossfade \in Nat
      BY <2>3, DecodeThreadConstants
    <3>. QED
      BY <2>3, <3>1, <3>2
  <2>. QED
    BY <2>2, <2>4, <2>5
<1>. QED
  BY <1>1, ThreadAlways, PTL DEF ThreadSpec, AdvanceNearEnd

-----------------------------------------------------------------------------
(* The fan-out.                                                             *)

\* A device does what its worker noted.
DeviceFollows(w) ==
  /\ worker[w] = "starting" => ~paused[w]
  /\ worker[w] \notin {"starting", "gone"} =>
       device[w] = IF paused[w] THEN "paused" ELSE "running"

\* A worker that waits with nothing queued has seen the flag, unless it is still to be told.
Settled(w) ==
  worker[w] = "receiving" /\ channel[w] = <<>> =>
    \/ paused[w] = ~active
    \/ call.op \in {"pause", "resume", "drop"} /\ call.at <= w

\* A chunk that is on its way to the device while the flag is down is the first one.
LateOnce(w) ==
  /\ late[w] <= 1
  /\ active \/ worker[w] = "writing" => late[w] = 0

\* Before the first pause the flag is up and only chunks are queued.
Unsilenced ==
  /\ ~Silenced => /\ active
                  /\ \A i \in 1 .. Len(channel[Primary]) : channel[Primary][i] = "Samples"
  /\ call.op \in {"pause", "resume"} => pauses > 0

\* A chunk is counted when the primary has room for it.
Counted == call = [op |-> "write", at |-> Primary] => chunks < MaxChunks

CallType == [op : {"idle", "write", "pause", "resume", "drop", "dropped", "failed"},
             at : 0 .. Outputs + 1]

FanOutInv ==
  /\ FanOutTypeOK /\ Counted /\ Unsilenced /\ PrimaryLossless
  /\ \A w \in Workers : DeviceFollows(w) /\ Settled(w) /\ LateOnce(w)

-----------------------------------------------------------------------------
\* A MultiOutput starts with idle workers and empty channels.
LEMMA FanOutInvInit == FanOutInit => FanOutInv
<1>. SUFFICES ASSUME FanOutInit PROVE FanOutInv
  OBVIOUS
<1>0. Outputs \in Nat /\ Outputs > 0 /\ Depth \in Nat /\ MaxChunks \in Nat /\ MaxPauses \in Nat
  BY FanOutConstants
<1>1. FanOutTypeOK
  BY <1>0 DEF FanOutInit, FanOutTypeOK, Workers, Idle
<1>2. Unsilenced /\ PrimaryLossless /\ Counted
  BY <1>0 DEF FanOutInit, Unsilenced, Counted, Silenced, Idle, PrimaryLossless, Primary, Gone, Workers
<1>3. \A w \in Workers : DeviceFollows(w) /\ Settled(w) /\ LateOnce(w)
  BY DEF FanOutInit, DeviceFollows, Settled, LateOnce
<1>. QED
  BY <1>1, <1>2, <1>3 DEF FanOutInv

\* What a message put into a channel, or dropped, leaves.
LEMMA TrySendKeeps ==
  ASSUME FanOutTypeOK, NEW w, NEW msg \in Message, TrySend(w, msg)
  PROVE  /\ channel' \in [Workers -> Seq(Message)]
         /\ \A v \in Workers : Len(channel'[v]) <= Depth
         /\ \A v \in Workers : v # w => channel'[v] = channel[v]
         /\ w \in Workers => \/ channel'[w] = channel[w] /\ (Gone(w) \/ channel[w] # <<>>)
                             \/ channel'[w] = Append(channel[w], msg) /\ ~Gone(w)
         /\ w \in Workers => Gone(w) \/ channel'[w] # <<>>
<1>0. Depth \in Nat /\ Depth > 0
  BY FanOutConstants
<1>1. CASE Gone(w) \/ Full(w)
  BY <1>0, <1>1 DEF TrySend, FanOutTypeOK, Full
<1>2. CASE ~(Gone(w) \/ Full(w)) /\ w \in Workers
  <2>1. channel' = [channel EXCEPT ![w] = Append(channel[w], msg)]
    BY <1>2 DEF TrySend, Sent
  <2>2. channel[w] \in Seq(Message) /\ Len(channel[w]) < Depth /\ Len(channel[w]) \in Nat
    BY <1>0, <1>2 DEF FanOutTypeOK, Full
  <2>3. Append(channel[w], msg) \in Seq(Message) /\ Len(Append(channel[w], msg)) <= Depth
        /\ Append(channel[w], msg) # <<>>
    BY <1>0, <2>2
  <2>. QED
    BY <1>2, <2>1, <2>3 DEF FanOutTypeOK
<1>3. CASE ~(Gone(w) \/ Full(w)) /\ w \notin Workers
  BY <1>3 DEF TrySend, Sent, FanOutTypeOK
<1>. QED
  BY <1>1, <1>2, <1>3

\* What the caller does keeps the invariant: a channel only grows, by what is sent, and the
\* flag changes only when every worker is about to be told.
LEMMA CallerKeeps ==
  ASSUME FanOutInv, Caller
  PROVE  FanOutInv'
<1>0. /\ Outputs \in Nat /\ Outputs > 0 /\ Depth \in Nat /\ Depth > 0 /\ Primary \in Workers
      /\ MaxChunks \in Nat /\ MaxPauses \in Nat /\ \A w \in Workers : w \in 1 .. Outputs
      /\ FanOutTypeOK /\ call \in CallType /\ chunks \in Nat /\ chunks <= MaxChunks
  BY FanOutConstants DEF FanOutInv, Workers, Primary, FanOutTypeOK, CallType
<1>1. UNCHANGED <<worker, device, paused, heard>>
  BY DEF Caller, CallWrite, CallPause, CallResume, Drop, CallGoesOn, WritePrimary,
         WriteSecondary, TellWorker, Return
<1>2. \A w \in Workers : DeviceFollows(w)'
  BY <1>1 DEF FanOutInv, DeviceFollows
<1>3. CASE CallWrite \/ CallPause \/ CallResume \/ Drop
  <2>0. channel' = channel /\ chunks' = chunks
    BY <1>3 DEF CallWrite, CallPause, CallResume, Drop
  <2>1. FanOutTypeOK'
    <3>1. call' \in CallType
      BY <1>0, <1>3 DEF CallType, CallWrite, CallPause, CallResume, Drop, Primary
    <3>2. active' \in BOOLEAN /\ pauses' \in 0 .. MaxPauses
      <4>1. pauses \in Nat /\ pauses <= MaxPauses /\ active \in BOOLEAN
        BY <1>0 DEF FanOutTypeOK
      <4>2. pauses' = pauses \/ (pauses < MaxPauses /\ pauses' = pauses + 1)
        BY <1>3 DEF CallWrite, CallPause, CallResume, Drop
      <4>3. active' = active \/ active' = TRUE \/ active' = FALSE
        BY <1>3 DEF CallWrite, CallPause, CallResume, Drop
      <4>4. pauses' \in 0 .. MaxPauses
        BY <1>0, <4>1, <4>2
      <4>. QED
        BY <4>1, <4>3, <4>4
    <3>3. late' \in [Workers -> Nat]
      <4>1. late' = late \/ late' = [v \in Workers |-> 0]
        BY <1>3 DEF CallWrite, CallPause, CallResume, Drop
      <4>2. late \in [Workers -> Nat]
        BY <1>0 DEF FanOutTypeOK
      <4>. QED
        BY <4>1, <4>2
    <3>. QED
      BY <1>0, <1>1, <2>0, <3>1, <3>2, <3>3 DEF FanOutTypeOK, CallType
  <2>2. Unsilenced' /\ PrimaryLossless' /\ Counted'
    BY <1>0, <1>1, <1>3, <2>0 DEF FanOutInv, FanOutTypeOK, Unsilenced, Silenced, PrimaryLossless,
       Gone, CallWrite, CallPause, CallResume, Drop, Idle, Counted
  <2>3. \A w \in Workers : Settled(w)'
    BY <1>0, <1>1, <1>3, <2>0 DEF FanOutInv, Settled, CallWrite, CallPause, CallResume, Drop, Idle
  <2>4. \A w \in Workers : LateOnce(w)'
    BY <1>0, <1>1, <1>3, <2>0 DEF FanOutInv, LateOnce, CallWrite, CallPause, CallResume, Drop
  <2>. QED
    BY <1>2, <2>1, <2>2, <2>3, <2>4 DEF FanOutInv
<1>4. CASE Return
  <2>1. FanOutTypeOK'
    BY <1>0, <1>1, <1>4 DEF FanOutTypeOK, Return, Idle
  <2>2. Unsilenced' /\ PrimaryLossless' /\ Counted'
    BY <1>1, <1>4 DEF FanOutInv, Unsilenced, Silenced, PrimaryLossless, Gone, Return, Idle, Counted
  <2>3. \A w \in Workers : Settled(w)' /\ LateOnce(w)'
    <3>1. call.at > Outputs /\ call.at \in Nat
      BY <1>0, <1>4 DEF Return, Done, CallType
    <3>. QED
      BY <1>0, <1>1, <1>4, <3>1 DEF FanOutInv, Settled, LateOnce, Return, Idle
  <2>. QED
    BY <1>2, <2>1, <2>2, <2>3 DEF FanOutInv
<1>5. CASE WritePrimary
  <2>1. CASE Gone(Primary)
    <3>1. FanOutTypeOK'
      BY <1>0, <1>1, <1>5, <2>1 DEF FanOutTypeOK, WritePrimary
    <3>2. Unsilenced' /\ PrimaryLossless' /\ Counted'
      BY <1>1, <1>5, <2>1 DEF FanOutInv, Unsilenced, Silenced, PrimaryLossless, Gone, WritePrimary,
         Counted
    <3>3. \A w \in Workers : Settled(w)' /\ LateOnce(w)'
      BY <1>0, <1>1, <1>5, <2>1 DEF FanOutInv, Settled, LateOnce, WritePrimary
    <3>. QED
      BY <1>2, <3>1, <3>2, <3>3 DEF FanOutInv
  <2>2. CASE ~Gone(Primary)
    <3>. DEFINE old == channel[Primary]
    <3>1. /\ ~Full(Primary) /\ chunks' = chunks + 1 /\ call' = [call EXCEPT !.at = 2]
          /\ channel' = [channel EXCEPT ![Primary] = Append(old, "Samples")]
          /\ UNCHANGED <<active, pauses, late>> /\ call.op = "write"
      BY <1>5, <2>2 DEF WritePrimary, Sent
    <3>2. old \in Seq(Message) /\ Len(old) \in Nat /\ Len(old) < Depth /\ "Samples" \in Message
      BY <1>0, <3>1 DEF FanOutTypeOK, Full, Message
    <3>3. /\ Append(old, "Samples") \in Seq(Message) /\ Len(Append(old, "Samples")) = Len(old) + 1
          /\ Append(old, "Samples") # <<>>
          /\ \A i \in 1 .. Len(old) + 1 :
               Append(old, "Samples")[i] = IF i <= Len(old) THEN old[i] ELSE "Samples"
      BY <3>2
    <3>. HIDE DEF old
    <3>4. /\ channel' \in [Workers -> Seq(Message)]
          /\ channel'[Primary] = Append(old, "Samples")
          /\ \A w \in Workers : w # Primary => channel'[w] = channel[w]
      BY <1>0, <3>1, <3>3 DEF FanOutTypeOK
    <3>5. FanOutTypeOK'
      <4>1. \A w \in Workers : Len(channel[w]) <= Depth
        BY <1>0 DEF FanOutTypeOK
      <4>2. ASSUME NEW w \in Workers PROVE Len(channel'[w]) <= Depth
        <5>1. CASE w = Primary
          BY <1>0, <3>2, <3>3, <3>4, <5>1
        <5>2. CASE w # Primary
          BY <3>4, <4>1, <5>2
        <5>. QED
          BY <5>1, <5>2
      <4>3. call' \in CallType
        BY <1>0, <3>1 DEF CallType
      <4>4. chunks' \in 0 .. MaxChunks
        BY <1>0, <1>5, <3>1 DEF FanOutInv, Counted, WritePrimary
      <4>. QED
        BY <1>0, <1>1, <3>1, <3>4, <4>2, <4>3, <4>4 DEF FanOutTypeOK, CallType
    <3>6. Unsilenced'
      BY <1>1, <3>1, <3>3, <3>4 DEF FanOutInv, Unsilenced, Silenced, old
    <3>7. PrimaryLossless'
      <4>. DEFINE hand == IF worker[Primary] \in {"checking", "writing"} THEN 1 ELSE 0
                  queued == Len(old)
      <4>1. chunks \in Nat /\ heard \in Nat /\ queued \in Nat /\ hand \in Nat
        BY <1>0, <3>2 DEF FanOutTypeOK
      <4>2. /\ Silenced' = Silenced /\ Gone(Primary)' = Gone(Primary) /\ hand' = hand
            /\ heard' = heard /\ Len(channel'[Primary]) = queued + 1
        BY <1>1, <3>1, <3>3, <3>4 DEF Silenced, Gone
      <4>3. ~Silenced /\ ~Gone(Primary) => chunks = heard + queued + hand
        BY DEF FanOutInv, PrimaryLossless, old
      <4>4. chunks' = chunks + 1
        BY <3>1
      <4>. HIDE DEF hand, queued
      <4>5. chunks = heard + queued + hand => chunks' = heard + (queued + 1) + hand
        BY <4>1, <4>4
      <4>. QED
        BY <4>2, <4>3, <4>5 DEF PrimaryLossless, hand
    <3>8. \A w \in Workers : Settled(w)'
      BY <1>1, <3>1, <3>3, <3>4 DEF FanOutInv, Settled
    <3>9. (\A w \in Workers : LateOnce(w)') /\ Counted'
      BY <1>0, <1>1, <3>1 DEF FanOutInv, LateOnce, Counted, Primary, CallType
    <3>. QED
      BY <1>2, <3>5, <3>6, <3>7, <3>8, <3>9 DEF FanOutInv
  <2>. QED
    BY <2>1, <2>2
<1>6. CASE WriteSecondary \/ TellWorker
  <2>. DEFINE w == call.at
  <2>1. /\ call' = [call EXCEPT !.at = w + 1] /\ w \in Nat /\ w <= Outputs
        /\ UNCHANGED <<active, chunks, pauses, late>>
    BY <1>0, <1>6 DEF WriteSecondary, TellWorker, Done, CallType
  <2>2. PICK msg \in Message : TrySend(w, msg)
    BY <1>6 DEF WriteSecondary, TellWorker, Word, Message
  <2>3. Silenced \/ w # Primary
    BY <1>6 DEF FanOutInv, Unsilenced, WriteSecondary, TellWorker, Silenced, Primary
  <2>4. FanOutTypeOK'
    <3>1. call' \in CallType
      BY <1>0, <2>1 DEF CallType
    <3>. QED
      BY <1>0, <1>1, <2>1, <2>2, <3>1, TrySendKeeps DEF FanOutTypeOK, CallType
  <2>5. Silenced' = Silenced
    BY <1>0, <2>1 DEF Silenced, CallType
  <2>6. Silenced \/ channel'[Primary] = channel[Primary]
    BY <1>0, <2>2, <2>3, TrySendKeeps
  <2>7. Unsilenced' /\ PrimaryLossless'
    BY <1>0, <1>1, <2>1, <2>5, <2>6 DEF FanOutInv, Unsilenced, PrimaryLossless, Gone, CallType
  <2>8. Counted'
    BY <1>0, <1>6, <2>1 DEF Counted, WriteSecondary, TellWorker, Primary, CallType
  <2>9. ASSUME NEW v \in Workers PROVE Settled(v)' /\ LateOnce(v)'
    <3>1. v # w => channel'[v] = channel[v]
      BY <2>2, <1>0, TrySendKeeps
    <3>2. v = w => worker[v] = "gone" \/ channel'[v] # <<>>
      BY <2>2, <1>0, TrySendKeeps DEF Gone
    <3>3. v \in Nat /\ call'.op = call.op /\ call'.at = w + 1 /\ call.at = w
      BY <1>0, <2>1 DEF CallType
    <3>4. Settled(v) /\ LateOnce(v)
      BY DEF FanOutInv
    <3>5. Settled(v)'
      BY <1>1, <2>1, <3>1, <3>2, <3>3, <3>4 DEF Settled
    <3>. QED
      BY <1>1, <2>1, <3>4, <3>5 DEF LateOnce
  <2>. QED
    BY <1>2, <2>4, <2>7, <2>8, <2>9 DEF FanOutInv
<1>. QED
  BY <1>3, <1>4, <1>5, <1>6 DEF Caller, CallGoesOn

\* Worker w gets to at, with its device in the state does, off noted, queued in its channel and
\* count late chunks; what is said of each agrees.
WorkerMoves(w, at, does, off, queued, count) ==
  /\ at \in {"loop", "receiving", "checking", "writing", "gone"} /\ Goes(w, at)
  /\ does \in {"closed", "running", "paused", "stopped"} /\ device' = [device EXCEPT ![w] = does]
  /\ off \in BOOLEAN /\ paused' = [paused EXCEPT ![w] = off]
  /\ queued \in Seq(Message) /\ channel' = [channel EXCEPT ![w] = queued]
  /\ count \in Nat /\ late' = [late EXCEPT ![w] = count]
  /\ heard' \in Nat /\ (w # Primary => heard' = heard)
  /\ UNCHANGED caller
  /\ Len(queued) <= Len(channel[w])
  /\ \A i \in 1 .. Len(queued) : \E j \in 1 .. Len(channel[w]) : queued[i] = channel[w][j]
  /\ at # "gone" => does = IF off THEN "paused" ELSE "running"
  /\ at = "receiving" => off = ~active
  /\ active \/ at = "writing" => count = 0
  /\ count <= 1
  /\ w = Primary /\ ~Silenced /\ at # "gone" =>
       chunks = heard' + Len(queued) + (IF at \in {"checking", "writing"} THEN 1 ELSE 0)

\* A step of one worker leaves the others as they were.
LEMMA WorkerFrame ==
  ASSUME FanOutInv, NEW w \in Workers, NEW at, NEW does, NEW off, NEW queued, NEW count,
         WorkerMoves(w, at, does, off, queued, count)
  PROVE  FanOutInv'
<1>. USE DEF WorkerMoves
<1>0. Outputs \in Nat /\ Depth \in Nat /\ Primary \in Workers
  BY FanOutConstants DEF Workers, Primary
<1>1. FanOutTypeOK /\ Outputs \in Nat /\ Depth \in Nat /\ Primary \in Workers
      /\ \A v \in Workers : channel[v] \in Seq(Message) /\ Len(channel[v]) <= Depth
  BY <1>0 DEF FanOutInv, FanOutTypeOK
<1>2. FanOutTypeOK'
  <2>1. \A v \in Workers : Len(channel'[v]) <= Depth
    BY <1>1 DEF FanOutTypeOK
  <2>2. /\ worker' \in [Workers -> {"starting", "loop", "receiving", "checking", "writing", "gone"}]
        /\ device' \in [Workers -> {"closed", "running", "paused", "stopped"}]
        /\ paused' \in [Workers -> BOOLEAN] /\ channel' \in [Workers -> Seq(Message)]
        /\ late' \in [Workers -> Nat]
    BY <1>1 DEF FanOutTypeOK, Goes
  <2>. QED
    BY <1>1, <2>1, <2>2 DEF FanOutTypeOK, caller
<1>3. Counted' /\ Silenced' = Silenced
  BY DEF FanOutInv, Counted, caller, Silenced
<1>4. Unsilenced'
  <2>1. ~Silenced => \A i \in 1 .. Len(channel'[Primary]) : channel'[Primary][i] = "Samples"
    <3>1. ~Silenced => \A i \in 1 .. Len(channel[Primary]) : channel[Primary][i] = "Samples"
      BY DEF FanOutInv, Unsilenced
    <3>2. CASE w = Primary
      <4>1. channel'[Primary] = queued
        BY <1>1, <3>2 DEF FanOutTypeOK
      <4>. QED
        BY <3>1, <3>2, <4>1
    <3>3. CASE w # Primary
      <4>1. channel'[Primary] = channel[Primary]
        BY <1>1, <3>3 DEF FanOutTypeOK
      <4>. QED
        BY <3>1, <4>1
    <3>. QED
      BY <3>2, <3>3
  <2>. QED
    BY <1>3, <2>1 DEF FanOutInv, Unsilenced, caller
<1>5. PrimaryLossless'
  BY <1>1, <1>3 DEF FanOutInv, PrimaryLossless, Gone, Goes, caller, FanOutTypeOK
<1>6. ASSUME NEW v \in Workers PROVE DeviceFollows(v)' /\ Settled(v)' /\ LateOnce(v)'
  <2>1. CASE v = w
    <3>1. /\ worker'[w] = at /\ device'[w] = does /\ paused'[w] = off /\ channel'[w] = queued
          /\ late'[w] = count
      BY <1>1 DEF FanOutTypeOK, Goes
    <3>. QED
      BY <2>1, <3>1 DEF DeviceFollows, Settled, LateOnce, caller
  <2>2. CASE v # w
    <3>1. /\ worker'[v] = worker[v] /\ device'[v] = device[v] /\ paused'[v] = paused[v]
          /\ channel'[v] = channel[v] /\ late'[v] = late[v]
      BY <1>1, <2>2 DEF FanOutTypeOK, Goes
    <3>. QED
      BY <3>1 DEF FanOutInv, DeviceFollows, Settled, LateOnce, caller
  <2>. QED
    BY <2>1, <2>2
<1>. QED
  BY <1>2, <1>3, <1>4, <1>5, <1>6 DEF FanOutInv

\* What a worker does keeps the invariant.
LEMMA WorkerKeeps ==
  ASSUME FanOutInv, NEW w \in Workers, WorkerStep(w)
  PROVE  FanOutInv'
<1>0. /\ FanOutTypeOK /\ DeviceFollows(w) /\ Settled(w) /\ LateOnce(w)
      /\ Unsilenced /\ PrimaryLossless
      /\ channel[w] \in Seq(Message) /\ Len(channel[w]) \in Nat
      /\ late[w] \in Nat /\ heard \in Nat /\ paused[w] \in BOOLEAN /\ active \in BOOLEAN
      /\ device[w] \in {"closed", "running", "paused", "stopped"}
  BY DEF FanOutInv, FanOutTypeOK
<1>1. /\ worker = [worker EXCEPT ![w] = worker[w]]
      /\ device = [device EXCEPT ![w] = device[w]] /\ paused = [paused EXCEPT ![w] = paused[w]]
      /\ channel = [channel EXCEPT ![w] = channel[w]] /\ late = [late EXCEPT ![w] = late[w]]
  BY <1>0 DEF FanOutTypeOK
<1>2. \A i \in 1 .. Len(channel[w]) : \E j \in 1 .. Len(channel[w]) : channel[w][i] = channel[w][j]
  OBVIOUS
<1>3. <<>> \in Seq(Message) /\ Len(<<>>) = 0 /\ \A i \in 1 .. 0 : FALSE
  OBVIOUS
<1>4. CASE WorkerStart(w)
  <2>1. CASE device' = [device EXCEPT ![w] = "running"] /\ Goes(w, "loop") /\ UNCHANGED channel
    <3>1. WorkerMoves(w, "loop", "running", FALSE, channel[w], late[w])
      BY <1>0, <1>1, <1>2, <1>4, <2>1 DEF WorkerStart, WorkerMoves, caller, DeviceFollows, LateOnce,
         PrimaryLossless, Gone
    <3>. QED
      BY <3>1, WorkerFrame
  <2>2. CASE Goes(w, "gone") /\ channel' = [channel EXCEPT ![w] = <<>>] /\ UNCHANGED device
    <3>1. WorkerMoves(w, "gone", device[w], paused[w], <<>>, late[w])
      BY <1>0, <1>1, <1>3, <1>4, <2>2 DEF WorkerStart, WorkerMoves, caller, LateOnce
    <3>. QED
      BY <3>1, WorkerFrame
  <2>. QED
    BY <1>4, <2>1, <2>2 DEF WorkerStart
<1>5. CASE WorkerLoop(w)
  <2>1. paused' = [paused EXCEPT ![w] = ~active]
    BY <1>0, <1>1, <1>5 DEF WorkerLoop, DevicePaused
  <2>2. device' = [device EXCEPT ![w] = IF ~active THEN "paused" ELSE "running"]
    BY <1>0, <1>1, <1>5 DEF WorkerLoop, DevicePaused, DeviceFollows
  <2>3. WorkerMoves(w, "receiving", IF ~active THEN "paused" ELSE "running", ~active,
                    channel[w], late[w])
    BY <1>0, <1>1, <1>2, <1>5, <2>1, <2>2 DEF WorkerLoop, WorkerMoves, caller, LateOnce,
       PrimaryLossless, Gone
  <2>. QED
    BY <2>3, WorkerFrame
<1>6. CASE WorkerReceive(w)
  <2>. DEFINE rest == Tail(channel[w])
  <2>0. /\ channel[w] # <<>> /\ channel' = [channel EXCEPT ![w] = rest]
        /\ UNCHANGED <<late, heard>> /\ UNCHANGED caller /\ worker[w] = "receiving"
    BY <1>6 DEF WorkerReceive
  <2>1. /\ rest \in Seq(Message) /\ Len(rest) = Len(channel[w]) - 1
        /\ \A i \in 1 .. Len(rest) : rest[i] = channel[w][i + 1]
        /\ Head(channel[w]) = channel[w][1] /\ Len(channel[w]) > 0
    BY <1>0, <2>0
  <2>2. \A i \in 1 .. Len(rest) : \E j \in 1 .. Len(channel[w]) : rest[i] = channel[w][j]
    <3>. SUFFICES ASSUME NEW i \in 1 .. Len(rest)
                  PROVE  \E j \in 1 .. Len(channel[w]) : rest[i] = channel[w][j]
      OBVIOUS
    <3>1. i + 1 \in 1 .. Len(channel[w]) /\ rest[i] = channel[w][i + 1]
      BY <1>0, <2>1
    <3>. QED
      BY <3>1
  <2>. HIDE DEF rest
  <2>3. CASE Head(channel[w]) = "Samples"
    <3>1. Goes(w, "checking") /\ UNCHANGED <<device, paused>>
      BY <1>6, <2>3 DEF WorkerReceive
    <3>2. device[w] = IF paused[w] THEN "paused" ELSE "running"
      BY <1>0, <2>0 DEF DeviceFollows
    <3>3. w = Primary /\ ~Silenced => chunks = heard + Len(rest) + 1
      <4>. SUFFICES ASSUME w = Primary, ~Silenced PROVE chunks = heard + Len(rest) + 1
        OBVIOUS
      <4>1. worker[Primary] = "receiving" /\ channel[Primary] = channel[w]
        BY <2>0
      <4>2. chunks = heard + Len(channel[w]) + 0
        BY <1>0, <4>1 DEF PrimaryLossless, Gone
      <4>. QED
        BY <1>0, <2>1, <4>2
    <3>4. (active => late[w] = 0) /\ late[w] <= 1
      BY <1>0 DEF LateOnce
    <3>5. WorkerMoves(w, "checking", device[w], paused[w], rest, late[w])
      BY <1>0, <1>1, <2>0, <2>1, <2>2, <3>1, <3>2, <3>3, <3>4 DEF WorkerMoves
    <3>. QED
      BY <3>5, WorkerFrame
  <2>4. CASE Head(channel[w]) \in {"Pause", "Resume"}
    <3>. DEFINE off == Head(channel[w]) = "Pause"
    <3>1. Goes(w, "loop") /\ DevicePaused(w, off)
      BY <1>6, <2>4 DEF WorkerReceive
    <3>2. w = Primary => Silenced
      BY <1>0, <2>1, <2>4 DEF Unsilenced
    <3>3. WorkerMoves(w, "loop", IF off THEN "paused" ELSE "running", off, rest, late[w])
      BY <1>0, <1>1, <2>0, <2>1, <2>2, <3>1, <3>2 DEF WorkerMoves, LateOnce, DevicePaused
    <3>. QED
      BY <3>3, WorkerFrame
  <2>. QED
    BY <1>6, <2>3, <2>4 DEF WorkerReceive
<1>7. CASE WorkerStop(w)
  <2>1. WorkerMoves(w, "gone", "stopped", paused[w], <<>>, late[w])
    BY <1>0, <1>1, <1>3, <1>7 DEF WorkerStop, WorkerMoves, caller, LateOnce
  <2>. QED
    BY <2>1, WorkerFrame
<1>8. CASE WorkerCheck(w)
  <2>1. CASE active
    <3>1. WorkerMoves(w, "writing", device[w], paused[w], channel[w], late[w])
      BY <1>0, <1>1, <1>2, <1>8, <2>1 DEF WorkerCheck, WorkerMoves, caller, LateOnce, DeviceFollows,
         PrimaryLossless, Gone
    <3>. QED
      BY <3>1, WorkerFrame
  <2>2. CASE ~active
    <3>1. WorkerMoves(w, "loop", device[w], paused[w], channel[w], late[w])
      BY <1>0, <1>1, <1>2, <1>8, <2>2 DEF WorkerCheck, WorkerMoves, caller, LateOnce, DeviceFollows,
         Unsilenced
    <3>. QED
      BY <3>1, WorkerFrame
  <2>. QED
    BY <2>1, <2>2
<1>9. CASE WorkerWrite(w)
  <2>. DEFINE count == IF active THEN 0 ELSE late[w] + 1
  <2>1. count \in Nat /\ count <= 1 /\ (active => count = 0)
    BY <1>0, <1>9 DEF WorkerWrite, LateOnce
  <2>2. late' = [late EXCEPT ![w] = count]
    BY <1>9 DEF WorkerWrite
  <2>. HIDE DEF count
  <2>3. heard' \in Nat /\ (w # Primary => heard' = heard)
    BY <1>0, <1>9 DEF WorkerWrite
  <2>4. w = Primary /\ ~Silenced => chunks = heard' + Len(channel[w])
    <3>. SUFFICES ASSUME w = Primary, ~Silenced PROVE chunks = heard' + Len(channel[w])
      OBVIOUS
    <3>1. worker[Primary] = "writing" /\ channel[Primary] = channel[w] /\ heard' = heard + 1
      BY <1>9 DEF WorkerWrite
    <3>2. chunks = heard + Len(channel[w]) + 1
      BY <1>0, <3>1 DEF PrimaryLossless, Gone
    <3>. DEFINE n == Len(channel[w])
    <3>3. heard \in Nat /\ n \in Nat
      BY <1>0
    <3>. HIDE DEF n
    <3>4. heard + n + 1 = (heard + 1) + n
      BY <3>3
    <3>. QED
      BY <3>1, <3>2, <3>4, Zenon DEF n
  <2>5. device[w] = IF paused[w] THEN "paused" ELSE "running"
    BY <1>0, <1>9 DEF WorkerWrite, DeviceFollows
  <2>6. Goes(w, "loop") /\ UNCHANGED caller /\ UNCHANGED <<channel, device, paused>>
    BY <1>9 DEF WorkerWrite
  <2>7. WorkerMoves(w, "loop", device[w], paused[w], channel[w], count)
    BY <1>0, <1>1, <1>2, <2>1, <2>2, <2>3, <2>4, <2>5, <2>6 DEF WorkerMoves
  <2>. QED
    BY <2>7, WorkerFrame
<1>10. CASE WorkerWriteFails(w)
  <2>1. CASE w = Primary
    <3>1. WorkerMoves(w, "gone", "stopped", paused[w], <<>>, late[w])
      BY <1>0, <1>1, <1>3, <1>10, <2>1 DEF WorkerWriteFails, WorkerMoves, caller, LateOnce
    <3>. QED
      BY <3>1, WorkerFrame
  <2>2. CASE w # Primary
    <3>1. WorkerMoves(w, "loop", device[w], paused[w], channel[w], late[w])
      BY <1>0, <1>1, <1>2, <1>10, <2>2 DEF WorkerWriteFails, WorkerMoves, caller, LateOnce,
         DeviceFollows
    <3>. QED
      BY <3>1, WorkerFrame
  <2>. QED
    BY <2>1, <2>2
<1>. QED
  BY <1>4, <1>5, <1>6, <1>7, <1>8, <1>9, <1>10 DEF WorkerStep

\* The invariant of the fan-out is inductive.
LEMMA FanOutStep == FanOutInv /\ [FanOutNext]_fanvars => FanOutInv'
<1>. SUFFICES ASSUME FanOutInv, [FanOutNext]_fanvars PROVE FanOutInv'
  OBVIOUS
<1>1. CASE UNCHANGED fanvars
  BY <1>1 DEF fanvars, FanOutInv, FanOutTypeOK, Counted, Unsilenced, Silenced, PrimaryLossless, Gone,
              DeviceFollows, Settled, LateOnce
<1>2. CASE FanOutNext
  BY <1>2, CallerKeeps, WorkerKeeps DEF FanOutNext
<1>. QED
  BY <1>1, <1>2

\* It says what the run checks: a worker that waits, quietly, has its device as the flag says.
LEMMA FanOutPromises ==
  ASSUME FanOutInv
  PROVE  SettledAgrees /\ AtMostOneLate /\ PrimaryLossless
<1>1. ASSUME NEW w \in Workers, worker[w] = "receiving", channel[w] = <<>>, call = Idle
      PROVE  paused[w] = ~active /\ device[w] = IF active THEN "running" ELSE "paused"
  <2>1. device[w] = IF paused[w] THEN "paused" ELSE "running"
    BY <1>1 DEF FanOutInv, DeviceFollows
  <2>2. paused[w] = ~active
    BY <1>1 DEF FanOutInv, Settled, Idle
  <2>. QED
    BY <2>1, <2>2
<1>2. SettledAgrees
  BY <1>1 DEF SettledAgrees
<1>. QED
  BY <1>2 DEF FanOutInv, AtMostOneLate, LateOnce

-----------------------------------------------------------------------------
(* Induction, and the units in a channel.                                   *)

\* A set of numbers that has 0 and with a number the next has them all.  The library's
\* theorem takes an operator; this one is proved from a minimal interval 1 .. n among those
\* whose n is left out.
LEMMA SetInduction ==
  ASSUME NEW T \in SUBSET Nat, 0 \in T, \A n \in T : n + 1 \in T
  PROVE  T = Nat
<1>. DEFINE U == Nat \ T
            Below == {1 .. n : n \in U}
<1>1. SUFFICES ASSUME U # {} PROVE FALSE
  OBVIOUS
<1>2. IsWellFoundedOn(StrictSubsetOrdering(Nat), FiniteSubsetsOf(Nat))
  BY FS_StrictSubsetOrderingWellFounded
<1>3. Below \subseteq FiniteSubsetsOf(Nat) /\ Below # {}
  <2>1. \A n \in Nat : 1 .. n \in SUBSET Nat /\ IsFiniteSet(1 .. n)
    BY FS_Interval
  <2>. QED
    BY <1>1, <2>1 DEF FiniteSubsetsOf
<1>. HIDE DEF Below
<1>4. PICK x \in Below : \A y \in Below : ~(<<y, x>> \in StrictSubsetOrdering(Nat))
  BY <1>2, <1>3, WFMin
<1>5. PICK n \in U : x = 1 .. n
  BY DEF Below
<1>6. n \in Nat /\ n # 0 /\ n - 1 \in Nat
  BY <1>5
<1>7. n - 1 \notin U
  <2>1. SUFFICES ASSUME n - 1 \in U PROVE FALSE
    OBVIOUS
  <2>2. 1 .. n - 1 \in Below
    BY <2>1 DEF Below
  <2>3. ~(<<1 .. n - 1, 1 .. n>> \in StrictSubsetOrdering(Nat))
    BY <1>4, <1>5, <2>2
  <2>4. 1 .. n - 1 \in SUBSET Nat /\ 1 .. n \in SUBSET Nat
    BY <1>6
  <2>5. 1 .. n - 1 \subseteq 1 .. n /\ n \in 1 .. n /\ n \notin 1 .. n - 1
    BY <1>6
  <2>. QED
    BY <2>3, <2>4, <2>5 DEF StrictSubsetOrdering
<1>8. n - 1 \in T
  BY <1>6, <1>7
<1>. QED
  BY <1>5, <1>6, <1>8

\* f says how many units the first messages of s hold.
Totals(s, f, m) == f = [n \in 0 .. m |-> IF n = 0 THEN 0 ELSE f[n - 1] + s[n]]

\* There is such a function, so Units is what its definition says.
LEMMA TotalsExist ==
  ASSUME NEW s \in Seq(Nat)
  PROVE  \E f \in [0 .. Len(s) -> Nat] : Totals(s, f, Len(s))
<1>. DEFINE T == {m \in Nat : m <= Len(s) => \E f \in [0 .. m -> Nat] : Totals(s, f, m)}
<1>1. 0 \in T
  <2>. DEFINE f == [n \in 0 .. 0 |-> 0]
  <2>1. f \in [0 .. 0 -> Nat] /\ Totals(s, f, 0)
    BY DEF Totals
  <2>. QED
    BY <2>1
<1>2. ASSUME NEW m \in T PROVE m + 1 \in T
  <2>0. m \in Nat /\ m + 1 \in Nat
    BY <1>2
  <2>. SUFFICES ASSUME m + 1 <= Len(s)
                PROVE  \E g \in [0 .. m + 1 -> Nat] : Totals(s, g, m + 1)
    BY <2>0
  <2>1. PICK f \in [0 .. m -> Nat] : Totals(s, f, m)
    BY <1>2, <2>0
  <2>. DEFINE g == [n \in 0 .. m + 1 |-> IF n <= m THEN f[n] ELSE f[m] + s[n]]
  <2>2. s[m + 1] \in Nat /\ m \in Nat
    BY <1>2
  <2>3. g \in [0 .. m + 1 -> Nat]
    BY <2>2
  <2>4. ASSUME NEW n \in 0 .. m + 1
        PROVE  g[n] = IF n = 0 THEN 0 ELSE g[n - 1] + s[n]
    <3>1. CASE n = m + 1
      <4>1. g[n] = f[m] + s[n] /\ g[n - 1] = f[m] /\ n # 0
        BY <2>2, <3>1
      <4>. QED
        BY <4>1
    <3>2. CASE n # m + 1
      <4>1. n \in 0 .. m /\ g[n] = f[n] /\ (n # 0 => g[n - 1] = f[n - 1])
        BY <2>2, <3>2
      <4>2. f[n] = IF n = 0 THEN 0 ELSE f[n - 1] + s[n]
        BY <2>1, <4>1 DEF Totals
      <4>. QED
        BY <4>1, <4>2
    <3>. QED
      BY <3>1, <3>2
  <2>5. Totals(s, g, m + 1)
    BY <2>4 DEF Totals
  <2>. QED
    BY <2>3, <2>5
<1>. HIDE DEF T
<1>3. T = Nat
  <2>1. T \in SUBSET Nat
    BY DEF T
  <2>. QED
    BY <1>1, <1>2, <2>1, SetInduction
<1>4. Len(s) \in T
  BY <1>3
<1>. QED
  BY <1>4 DEF T

\* There is only one.
LEMMA TotalsUnique ==
  ASSUME NEW s, NEW m \in Nat, NEW f, NEW g, Totals(s, f, m), Totals(s, g, m)
  PROVE  f = g
<1>. DEFINE T == {n \in Nat : n <= m => f[n] = g[n]}
<1>1. /\ \A n \in 0 .. m : f[n] = IF n = 0 THEN 0 ELSE f[n - 1] + s[n]
      /\ \A n \in 0 .. m : g[n] = IF n = 0 THEN 0 ELSE g[n - 1] + s[n]
  BY DEF Totals
<1>2. 0 \in T
  BY <1>1
<1>3. ASSUME NEW n \in T PROVE n + 1 \in T
  <2>. SUFFICES ASSUME n + 1 <= m PROVE f[n + 1] = g[n + 1]
    OBVIOUS
  <2>1. n + 1 \in 0 .. m /\ n + 1 # 0 /\ (n + 1) - 1 = n /\ f[n] = g[n]
    BY <1>3
  <2>. QED
    BY <1>1, <2>1
<1>. HIDE DEF T
<1>4. T = Nat
  <2>1. T \in SUBSET Nat
    BY DEF T
  <2>. QED
    BY <1>2, <1>3, <2>1, SetInduction
<1>5. \A n \in 0 .. m : f[n] = g[n]
  BY <1>4 DEF T
<1>. QED
  BY <1>5 DEF Totals

\* Units is the last of them.
LEMMA UnitsAre ==
  ASSUME NEW s \in Seq(Nat), NEW f, Totals(s, f, Len(s))
  PROVE  Units(s) = f[Len(s)]
<1>. DEFINE g == CHOOSE h : Totals(s, h, Len(s))
<1>1. Totals(s, g, Len(s))
  OBVIOUS
<1>2. g = f
  BY <1>1, TotalsUnique
<1>3. Units(s) = g[Len(s)]
  BY DEF Units, Totals
<1>. QED
  BY <1>2, <1>3

\* What a channel holds when it is empty, after a send and after a receive.
LEMMA UnitsEmpty == Units(<<>>) = 0
<1>. DEFINE f == [n \in 0 .. 0 |-> 0]
<1>1. Totals(<<>>, f, 0) /\ Len(<<>>) = 0 /\ <<>> \in Seq(Nat)
  BY DEF Totals
<1>2. Units(<<>>) = f[0]
  BY <1>1, UnitsAre
<1>. QED
  BY <1>2

\* A line holds a whole number of units, none below zero.
LEMMA UnitsNat ==
  ASSUME NEW s \in Seq(Nat)
  PROVE  Units(s) \in Nat
<1>1. PICK f \in [0 .. Len(s) -> Nat] : Totals(s, f, Len(s))
  BY TotalsExist
<1>2. Units(s) = f[Len(s)]
  BY <1>1, UnitsAre
<1>. QED
  BY <1>2

\* What is sent to a line is added to its units.
LEMMA UnitsAppend ==
  ASSUME NEW s \in Seq(Nat), NEW x \in Nat
  PROVE  Units(Append(s, x)) = Units(s) + x
<1>. DEFINE more == Append(s, x)
<1>1. PICK f \in [0 .. Len(s) -> Nat] : Totals(s, f, Len(s))
  BY TotalsExist
<1>2. /\ more \in Seq(Nat) /\ Len(more) = Len(s) + 1 /\ Len(s) \in Nat
      /\ more[Len(s) + 1] = x /\ \A n \in 1 .. Len(s) : more[n] = s[n]
  OBVIOUS
<1>. DEFINE g == [n \in 0 .. Len(more) |-> IF n <= Len(s) THEN f[n] ELSE f[Len(s)] + x]
<1>. HIDE DEF more
<1>3. ASSUME NEW n \in 0 .. Len(more)
      PROVE  g[n] = IF n = 0 THEN 0 ELSE g[n - 1] + more[n]
  <2>1. CASE n = Len(s) + 1
    <3>1. g[n] = f[Len(s)] + x /\ g[n - 1] = f[Len(s)] /\ n # 0 /\ more[n] = x
      BY <1>2, <2>1
    <3>. QED
      BY <3>1
  <2>2. CASE n # Len(s) + 1
    <3>1. n \in 0 .. Len(s) /\ g[n] = f[n] /\ (n # 0 => g[n - 1] = f[n - 1] /\ more[n] = s[n])
      BY <1>2, <2>2
    <3>2. f[n] = IF n = 0 THEN 0 ELSE f[n - 1] + s[n]
      BY <1>1, <3>1 DEF Totals
    <3>. QED
      BY <3>1, <3>2
  <2>. QED
    BY <2>1, <2>2
<1>4. Totals(more, g, Len(more))
  BY <1>3 DEF Totals
<1>5. Units(more) = g[Len(more)] /\ Units(s) = f[Len(s)]
  BY <1>1, <1>2, <1>4, UnitsAre
<1>6. g[Len(more)] = f[Len(s)] + x
  BY <1>2
<1>. QED
  BY <1>5, <1>6 DEF more

\* What the callback takes from a line is taken from its units.
LEMMA UnitsTail ==
  ASSUME NEW s \in Seq(Nat), s # <<>>
  PROVE  Units(s) = Head(s) + Units(Tail(s))
<1>. DEFINE rest == Tail(s)
<1>1. PICK f \in [0 .. Len(s) -> Nat] : Totals(s, f, Len(s))
  BY TotalsExist
<1>2. /\ rest \in Seq(Nat) /\ Len(rest) = Len(s) - 1 /\ Len(s) \in Nat /\ Len(s) > 0
      /\ Head(s) = s[1] /\ s[1] \in Nat /\ \A n \in 1 .. Len(rest) : rest[n] = s[n + 1]
  OBVIOUS
<1>. DEFINE g == [n \in 0 .. Len(rest) |-> f[n + 1] - s[1]]
<1>. HIDE DEF rest
<1>3. \A n \in 0 .. Len(s) : f[n] \in Nat /\ f[n] = IF n = 0 THEN 0 ELSE f[n - 1] + s[n]
  BY <1>1 DEF Totals
<1>4. ASSUME NEW n \in 0 .. Len(rest)
      PROVE  g[n] = IF n = 0 THEN 0 ELSE g[n - 1] + rest[n]
  <2>1. CASE n = 0
    <3>1. f[1] = f[0] + s[1] /\ f[0] = 0
      BY <1>2, <1>3
    <3>. QED
      BY <1>2, <2>1, <3>1
  <2>2. CASE n # 0
    <3>1. n \in 1 .. Len(rest) /\ n - 1 \in 0 .. Len(rest) /\ n + 1 \in 0 .. Len(s) /\ n \in 0 .. Len(s)
      BY <1>2, <2>2
    <3>0. n + 1 # 0 /\ (n + 1) - 1 = n
      BY <3>1
    <3>2. f[n + 1] = f[n] + s[n + 1] /\ f[n] \in Nat /\ rest[n] = s[n + 1] /\ f[n + 1] \in Nat
      BY <1>2, <1>3, <3>0, <3>1
    <3>3. g[n] = f[n + 1] - s[1] /\ g[n - 1] = f[n] - s[1]
      BY <3>1
    <3>4. s[n + 1] \in Nat
      BY <1>2, <3>1
    <3>. DEFINE total == f[n]
                next == f[n + 1]
                first == s[1]
                added == s[n + 1]
    <3>5. /\ next = total + added /\ total \in Nat /\ first \in Nat /\ added \in Nat
          /\ rest[n] = added /\ g[n] = next - first /\ g[n - 1] = total - first
      BY <1>2, <3>2, <3>3, <3>4
    <3>. HIDE DEF total, next, first, added
    <3>6. g[n] = g[n - 1] + rest[n]
      BY <3>5
    <3>. QED
      BY <2>2, <3>6
  <2>. QED
    BY <2>1, <2>2
<1>5. Totals(rest, g, Len(rest))
  BY <1>4 DEF Totals
<1>6. Units(rest) = g[Len(rest)] /\ Units(s) = f[Len(s)]
  BY <1>1, <1>2, <1>5, UnitsAre
<1>7. g[Len(rest)] = f[Len(s)] - s[1] /\ f[Len(s)] \in Nat
  BY <1>2, <1>3
<1>. QED
  BY <1>2, <1>6, <1>7 DEF rest

-----------------------------------------------------------------------------
(* The outputs that play to a device.                                       *)

\* Where audio can be: only cpal's resampler holds units back or makes messages of more
\* than one, a write in progress has something to send, and a new output has nothing.
Held ==
  /\ ~backend.resamples => /\ carry = 0 /\ sample = 0 /\ doing.out <= 1
                           /\ \A i \in 1 .. Len(line) : line[i] = 1
  /\ doing.op = "none" => doing.out = 0
  /\ doing.op = "write" => doing.out > 0 /\ started /\ ~muted
  /\ doing.op = "flush" => Cpal /\ started
  /\ doing.op = "joining" => ~Cpal /\ ~started /\ doing.out = 0
  /\ started /\ doing.op # "flush" => taken <= MaxUnits
  /\ stream = "new" => /\ ~started /\ ~muted /\ doing.op = "none" /\ line = <<>>
                       /\ sample = 0 /\ carry = 0 /\ taken = 0 /\ sounded = 0 /\ after = 0

\* A silenced cpal has no running stream; what PipeWire may still play is in its channel.
Quiet ==
  /\ Cpal => after = 0 /\ (muted \/ ~started => stream # "running")
  /\ ~Cpal => /\ started /\ ~muted => after = 0
              /\ muted \/ ~started => after + Len(line) <= LineDepth

DeviceInv == DeviceTypeOK /\ DeviceKeeps /\ Held /\ Quiet

\* The kinds of a backend, and what the resampler gives.
LEMMA DeviceFacts ==
  ASSUME DeviceTypeOK
  PROVE  /\ backend.resamples \in BOOLEAN /\ (backend.resamples => Cpal)
         /\ (backend.resamples => ~Dop) /\ (Dop => Cpal)
         /\ Chunk \in Nat /\ Chunk > 0 /\ LineDepth \in Nat /\ LineDepth > 0
         /\ MaxUnits \in Nat /\ MaxUnits > 0
         /\ line \in Seq(Nat) /\ Units(line) \in Nat /\ Len(line) \in Nat
         /\ Resampled = IF ~backend.resamples THEN 1 ELSE IF carry + 1 = Chunk THEN Chunk ELSE 0
<1>1. /\ Chunk \in Nat /\ Chunk > 0 /\ LineDepth \in Nat /\ LineDepth > 0
      /\ MaxUnits \in Nat /\ MaxUnits > 0
  BY AudioDeviceConstants
<1>2. backend.resamples \in BOOLEAN /\ (backend.resamples => Cpal) /\ (backend.resamples => ~Dop)
      /\ (Dop => Cpal)
  BY AudioDeviceConstants DEF DeviceTypeOK, Cpal, Dop
<1>3. line \in Seq(Nat) /\ Len(line) \in Nat
  BY <1>1 DEF DeviceTypeOK
<1>4. Units(line) \in Nat
  BY <1>3, UnitsNat
<1>5. Resampled = IF ~backend.resamples THEN 1 ELSE IF carry + 1 = Chunk THEN Chunk ELSE 0
  <2>1. carry + 1 \in 1 .. Chunk
    BY <1>1 DEF DeviceTypeOK
  <2>2. carry + 1 = Chunk => (carry + 1) \div Chunk = 1
    BY <1>1, <2>1
  <2>3. carry + 1 < Chunk => (carry + 1) \div Chunk = 0
    BY <1>1, <2>1
  <2>. QED
    BY <1>1, <2>1, <2>2, <2>3 DEF Resampled
<1>. QED
  BY <1>1, <1>2, <1>3, <1>4, <1>5

\* A device starts with nothing accepted, held or heard.
LEMMA DeviceInvInit == DeviceInit => DeviceInv
<1>. SUFFICES ASSUME DeviceInit PROVE DeviceInv
  OBVIOUS
<1>0. Chunk \in Nat /\ Chunk > 0 /\ LineDepth \in Nat /\ MaxUnits \in Nat
  BY AudioDeviceConstants
<1>1. DeviceTypeOK
  <2>1. doing \in [op : {"none", "write", "flush", "joining"}, out : 0 .. MaxUnits]
    BY <1>0 DEF DeviceInit, Nothing
  <2>2. line \in Seq(1 .. MaxUnits + 1) /\ Len(line) <= LineDepth
    BY <1>0 DEF DeviceInit
  <2>3. /\ backend \in Backends /\ started \in BOOLEAN /\ muted \in BOOLEAN /\ stream = "new"
        /\ sample = 0 /\ carry = 0 /\ taken = 0 /\ sounded = 0 /\ after = 0
    BY DEF DeviceInit
  <2>4. 0 \in 0 .. MaxUnits /\ 0 \in 0 .. Chunk - 1 /\ 0 \in 0 .. MaxUnits + 1
    BY <1>0
  <2>. QED
    BY <2>1, <2>2, <2>3, <2>4 DEF DeviceTypeOK
<1>2. DeviceKeeps /\ Held /\ Quiet
  BY <1>0 DEF DeviceInit, DeviceKeeps, Held, Quiet, Nothing
<1>. QED
  BY <1>1, <1>2 DEF DeviceInv

\* Every step of an output keeps the invariant.
LEMMA DeviceKeepsOn ==
  ASSUME DeviceInv, DeviceNext
  PROVE  DeviceInv'
<1>0. DeviceTypeOK /\ DeviceKeeps /\ Held /\ Quiet
  BY DEF DeviceInv
<1>1. /\ backend.resamples \in BOOLEAN /\ (backend.resamples => Cpal)
      /\ (backend.resamples => ~Dop) /\ (Dop => Cpal)
      /\ Chunk \in Nat /\ Chunk > 0 /\ LineDepth \in Nat /\ LineDepth > 0
      /\ MaxUnits \in Nat /\ MaxUnits > 0
      /\ line \in Seq(Nat) /\ Units(line) \in Nat /\ Len(line) \in Nat /\ Len(line) <= LineDepth
  BY <1>0, DeviceFacts DEF DeviceTypeOK
<1>2. /\ backend' = backend /\ Cpal' = Cpal /\ Dop' = Dop
  BY DEF DeviceNext, StartOutput, StartDop, Write, PauseOutput, ResumeOutput, StopOutput, StopDop,
         Continue, Send, GiveUp, CloseStream, LoopLeft, LoopQuits, Callback, LoseDevice, Cpal, Dop
<1>3. /\ started \in BOOLEAN /\ muted \in BOOLEAN
      /\ stream \in {"new", "running", "paused", "lost", "closed"}
      /\ sample \in Nat /\ sample <= MaxUnits /\ carry \in Nat /\ carry < Chunk
      /\ taken \in Nat /\ taken <= MaxUnits + 1 /\ sounded \in Nat /\ after \in Nat
      /\ doing.op \in {"none", "write", "flush", "joining"}
      /\ doing.out \in Nat /\ doing.out <= MaxUnits
      /\ doing = [op |-> doing.op, out |-> doing.out]
  BY <1>0, <1>1 DEF DeviceTypeOK
<1>4. doing = Nothing <=> doing.op = "none"
  BY <1>0, <1>3 DEF Held, Nothing
<1>10. CASE StartOutput
  <2>1. /\ UNCHANGED <<backend, line, sample, carry, muted, doing, taken, sounded, after>>
        /\ stream = "new"
    BY <1>10 DEF StartOutput
  <2>2. CASE ~Dop /\ stream' = "running" /\ started' = TRUE
    <3>1. DeviceTypeOK'
      BY <1>0, <2>1, <2>2 DEF DeviceTypeOK
    <3>2. DeviceKeeps'
      BY <1>0, <2>1, UnitsEmpty DEF DeviceKeeps, Held
    <3>3. Held' /\ Quiet'
      BY <1>0, <1>1, <1>2, <1>3, <2>1, <2>2 DEF Held, Quiet
    <3>. QED
      BY <3>1, <3>2, <3>3 DEF DeviceInv
  <2>3. CASE stream' = "closed" /\ UNCHANGED started
    <3>1. DeviceTypeOK'
      BY <1>0, <2>1, <2>3 DEF DeviceTypeOK
    <3>2. Held' /\ Quiet' /\ ~started'
      BY <1>0, <1>1, <1>2, <1>3, <2>1, <2>3 DEF Held, Quiet
    <3>. QED
      BY <3>1, <3>2 DEF DeviceInv, DeviceKeeps
  <2>. QED
    BY <1>10, <2>2, <2>3 DEF StartOutput
<1>11. CASE StartDop
  <2>1. UNCHANGED <<backend, line, sample, carry, muted, sounded, after>>
        /\ stream' = "running" /\ started' = TRUE /\ doing' = [op |-> "write", out |-> 1]
        /\ taken' = 1 /\ stream = "new" /\ Dop
    BY <1>11 DEF StartDop
  <2>2. DeviceTypeOK'
    BY <1>0, <1>1, <2>1 DEF DeviceTypeOK
  <2>3. DeviceKeeps'
    BY <1>0, <2>1, UnitsEmpty DEF DeviceKeeps, Held
  <2>4. Held' /\ Quiet'
    BY <1>0, <1>1, <1>2, <1>3, <2>1 DEF Held, Quiet
  <2>. QED
    BY <2>2, <2>3, <2>4 DEF DeviceInv
<1>12. CASE Write
  <2>1. /\ doing.op = "none" /\ doing.out = 0 /\ started /\ ~muted /\ taken < MaxUnits
        /\ UNCHANGED <<backend, started, stream, line, sample, muted, sounded, after>>
        /\ taken' = taken + 1 /\ carry' = carry + 1 - Resampled
        /\ doing' = IF Resampled > 0 THEN [op |-> "write", out |-> Resampled] ELSE Nothing
    BY <1>0, <1>4, <1>12 DEF Write, Held
  <2>2. taken = sounded + sample + Units(line) + carry
    BY <1>0, <1>1, <1>3, <2>1 DEF DeviceKeeps
  <2>3. /\ Resampled \in Nat /\ Resampled <= carry + 1 /\ carry + 1 - Resampled < Chunk
        /\ ~backend.resamples => Resampled = 1 /\ carry = 0
    <3>1. Resampled = IF ~backend.resamples THEN 1 ELSE IF carry + 1 = Chunk THEN Chunk ELSE 0
      BY <1>0, DeviceFacts
    <3>2. carry \in Nat /\ carry < Chunk /\ (~backend.resamples => carry = 0)
      BY <1>0, <1>1 DEF DeviceTypeOK, Held
    <3>3. CASE ~backend.resamples
      BY <1>1, <3>1, <3>2, <3>3
    <3>4. CASE backend.resamples
      BY <1>1, <3>1, <3>2, <3>4
    <3>. QED
      BY <3>3, <3>4
  <2>4. /\ doing'.out = Resampled /\ doing'.op \in {"none", "write"}
        /\ (doing'.op = "write" <=> Resampled > 0) /\ doing' = [op |-> doing'.op, out |-> Resampled]
    BY <2>1, <2>3 DEF Nothing
  <2>5. carry + 1 <= MaxUnits
    <3>. DEFINE u == Units(line)
    <3>1. /\ taken = sounded + sample + u + carry /\ taken < MaxUnits /\ MaxUnits \in Nat
          /\ u \in Nat /\ sounded \in Nat /\ sample \in Nat /\ carry \in Nat /\ taken \in Nat
      BY <1>1, <1>3, <2>1, <2>2
    <3>. HIDE DEF u
    <3>2. PICK a \in Nat : a = sounded + sample + u
      BY <3>1
    <3>. QED
      BY <3>1, <3>2
  <2>6. DeviceTypeOK'
    <3>1. doing' \in [op : {"none", "write", "flush", "joining"}, out : 0 .. MaxUnits]
      <4>. DEFINE r == Resampled
      <4>1. r \in Nat /\ r <= carry + 1 /\ carry + 1 <= MaxUnits /\ carry \in Nat /\ MaxUnits \in Nat
        BY <1>1, <1>3, <2>3, <2>5
      <4>. HIDE DEF r
      <4>2. r \in 0 .. MaxUnits
        BY <4>1
      <4>. QED
        BY <2>4, <4>2 DEF r
    <3>2. carry' \in 0 .. Chunk - 1
      <4>. DEFINE r == Resampled
      <4>1. /\ r \in Nat /\ r <= carry + 1 /\ carry + 1 - r < Chunk /\ carry' = carry + 1 - r
            /\ carry \in Nat /\ Chunk \in Nat
        BY <1>1, <1>3, <2>1, <2>3
      <4>. HIDE DEF r
      <4>. QED
        BY <4>1
    <3>3. taken' \in 0 .. MaxUnits + 1
      BY <1>1, <1>3, <2>1
    <3>. QED
      BY <1>0, <2>1, <3>1, <3>2, <3>3 DEF DeviceTypeOK
  <2>7. DeviceKeeps'
    <3>. DEFINE r == Resampled
                u == Units(line)
    <3>1. /\ r \in Nat /\ doing'.out = r /\ carry' = carry + 1 - r /\ taken' = taken + 1
          /\ u \in Nat /\ carry \in Nat /\ taken \in Nat /\ sounded \in Nat /\ sample \in Nat
          /\ taken = sounded + sample + u + carry
      BY <1>1, <1>3, <2>1, <2>2, <2>3, <2>4
    <3>. HIDE DEF r, u
    <3>2. taken' = sounded + sample + u + carry' + doing'.out
      BY <3>1
    <3>. QED
      BY <2>1, <3>2 DEF DeviceKeeps, u
  <2>8. Held'
    <3>1. ~backend'.resamples => carry' = 0 /\ sample' = 0 /\ doing'.out <= 1
                                 /\ \A i \in 1 .. Len(line') : line'[i] = 1
      BY <1>0, <1>1, <2>1, <2>3, <2>4 DEF Held
    <3>2. stream' # "new" /\ started' /\ ~muted'
      BY <1>0, <2>1 DEF Held
    <3>3. taken' <= MaxUnits
      BY <1>1, <1>3, <2>1
    <3>4. doing'.op = "none" => doing'.out = 0
      BY <1>3, <2>3, <2>4
    <3>5. doing'.op = "write" => doing'.out > 0
      BY <2>4
    <3>. QED
      BY <2>4, <3>1, <3>2, <3>3, <3>4, <3>5 DEF Held
  <2>9. Quiet'
    BY <1>0, <1>2, <2>1 DEF Quiet
  <2>. QED
    BY <2>6, <2>7, <2>8, <2>9 DEF DeviceInv
<1>13. CASE Send
  <2>. DEFINE more == Append(line, doing.out)
  <2>1. /\ doing.out > 0 /\ Len(line) < LineDepth /\ line' = more
        /\ UNCHANGED <<backend, started, stream, sample, carry, muted, taken, sounded, after>>
        /\ doing'.op = (IF doing.op = "write" THEN "none" ELSE doing.op) /\ doing'.out = 0
        /\ doing' = [op |-> doing'.op, out |-> 0]
    BY <1>3, <1>13 DEF Send, Nothing
  <2>2. /\ more \in Seq(1 .. MaxUnits + 1) /\ Len(more) = Len(line) + 1
        /\ \A i \in 1 .. Len(line) : more[i] = line[i]
        /\ more[Len(line) + 1] = doing.out
    BY <1>0, <1>1, <1>3, <2>1 DEF DeviceTypeOK
  <2>3. Units(more) = Units(line) + doing.out
    BY <1>1, <1>3, UnitsAppend
  <2>4. ~backend.resamples => doing.out = 1
    BY <1>0, <1>3, <2>1 DEF Held
  <2>. HIDE DEF more
  <2>5. DeviceTypeOK'
    <3>1. doing' \in [op : {"none", "write", "flush", "joining"}, out : 0 .. MaxUnits]
      BY <1>1, <1>3, <2>1
    <3>2. Len(more) <= LineDepth
      BY <1>1, <2>1, <2>2
    <3>. QED
      BY <1>0, <2>1, <2>2, <3>1, <3>2 DEF DeviceTypeOK
  <2>6. DeviceKeeps'
    <3>. DEFINE u == Units(line)
                v == Units(more)
                out == doing.out
    <3>1. /\ v = u + out /\ u \in Nat /\ out \in Nat /\ Units(line') = v
          /\ sounded \in Nat /\ sample \in Nat /\ carry \in Nat
          /\ started => taken = sounded + sample + u + carry + out
      BY <1>0, <1>1, <1>3, <2>1, <2>3 DEF DeviceKeeps
    <3>. HIDE DEF u, v, out
    <3>2. sounded + sample + u + carry + out = sounded + sample + v + carry + 0
      BY <3>1
    <3>. QED
      BY <2>1, <3>1, <3>2 DEF DeviceKeeps
  <2>7. Held'
    <3>1. ~backend.resamples => \A i \in 1 .. Len(more) : more[i] = 1
      <4>1. ASSUME ~backend.resamples, NEW i \in 1 .. Len(more), i # Len(line) + 1
            PROVE  i \in 1 .. Len(line) /\ line[i] = 1
        BY <1>0, <1>1, <2>2, <4>1 DEF Held
      <4>. QED
        BY <2>2, <2>4, <4>1
    <3>2. stream # "new" /\ doing.op # "none"
      BY <1>0, <1>3, <2>1 DEF Held
    <3>. QED
      BY <1>0, <1>2, <1>3, <2>1, <3>1, <3>2 DEF Held
  <2>8. Quiet'
    <3>1. doing.op \in {"write", "flush"} /\ (doing.op = "write" => started /\ ~muted)
      BY <1>0, <1>3, <2>1 DEF Held
    <3>. QED
      BY <1>0, <1>2, <2>1, <3>1 DEF Quiet, Held
  <2>. QED
    BY <2>5, <2>6, <2>7, <2>8 DEF DeviceInv
<1>14. CASE GiveUp
  <2>1. /\ Dop /\ doing.op = "write" /\ taken' = taken - doing.out /\ doing' = Nothing
        /\ UNCHANGED <<backend, started, stream, line, sample, carry, muted, sounded, after>>
    BY <1>14 DEF GiveUp
  <2>2. started /\ stream # "new" /\ taken <= MaxUnits
    BY <1>0, <2>1 DEF Held
  <2>. DEFINE u == Units(line)
  <2>3. /\ u \in Nat /\ doing.out \in Nat /\ taken = sounded + sample + u + carry + doing.out
        /\ carry \in Nat /\ taken \in Nat /\ sounded \in Nat /\ sample \in Nat
    BY <1>0, <1>1, <1>3, <2>2 DEF DeviceKeeps
  <2>. HIDE DEF u
  <2>4. taken' = sounded + sample + u + carry /\ taken' \in 0 .. MaxUnits
    BY <1>1, <2>1, <2>2, <2>3
  <2>5. DeviceTypeOK'
    <3>1. doing' \in [op : {"none", "write", "flush", "joining"}, out : 0 .. MaxUnits]
      BY <1>1, <2>1 DEF Nothing
    <3>. QED
      BY <1>0, <1>1, <2>1, <2>4, <3>1 DEF DeviceTypeOK
  <2>6. DeviceKeeps'
    BY <2>1, <2>3, <2>4 DEF DeviceKeeps, Nothing, u
  <2>7. Held' /\ Quiet'
    BY <1>0, <1>1, <1>2, <2>1, <2>2, <2>4 DEF Held, Quiet, Nothing
  <2>. QED
    BY <2>5, <2>6, <2>7 DEF DeviceInv
<1>15. CASE PauseOutput
  <2>1. /\ started /\ doing.op = "none" /\ muted' = TRUE
        /\ stream' = IF Cpal /\ stream = "running" THEN "paused" ELSE stream
        /\ UNCHANGED <<backend, started, line, sample, carry, doing, taken, sounded, after>>
    BY <1>4, <1>15 DEF PauseOutput
  <2>2. DeviceTypeOK' /\ DeviceKeeps'
    BY <1>0, <2>1 DEF DeviceTypeOK, DeviceKeeps
  <2>3. Held' /\ Quiet'
    BY <1>0, <1>1, <1>2, <1>3, <2>1 DEF Held, Quiet
  <2>. QED
    BY <2>2, <2>3 DEF DeviceInv
<1>16. CASE ResumeOutput
  <2>1. /\ started /\ doing.op = "none" /\ muted' = FALSE /\ after' = 0
        /\ stream' = IF Cpal /\ stream = "paused" THEN "running" ELSE stream
        /\ UNCHANGED <<backend, started, line, sample, carry, doing, taken, sounded>>
    BY <1>4, <1>16 DEF ResumeOutput
  <2>2. DeviceTypeOK' /\ DeviceKeeps'
    BY <1>0, <2>1 DEF DeviceTypeOK, DeviceKeeps
  <2>3. Held' /\ Quiet'
    BY <1>0, <1>1, <1>2, <1>3, <2>1 DEF Held, Quiet
  <2>. QED
    BY <2>2, <2>3 DEF DeviceInv
<1>17. CASE StopOutput
  <2>1. /\ started /\ doing.op = "none" /\ ~Dop /\ carry' = 0 /\ started' = Cpal
        /\ doing' = [op |-> IF Cpal THEN "flush" ELSE "joining", out |-> carry]
        /\ UNCHANGED <<backend, stream, line, sample, muted, taken, sounded, after>>
    BY <1>4, <1>17 DEF StopOutput
  <2>2. doing.out = 0 /\ stream # "new" /\ taken <= MaxUnits /\ (~Cpal => carry = 0)
    BY <1>0, <1>1, <2>1 DEF Held
  <2>. DEFINE u == Units(line)
  <2>3. /\ u \in Nat /\ taken = sounded + sample + u + carry
        /\ carry \in Nat /\ taken \in Nat /\ sounded \in Nat /\ sample \in Nat
    BY <1>0, <1>1, <1>3, <2>1, <2>2 DEF DeviceKeeps
  <2>. HIDE DEF u
  <2>4. carry <= MaxUnits
    BY <1>1, <2>2, <2>3
  <2>5. DeviceTypeOK'
    <3>1. doing' \in [op : {"none", "write", "flush", "joining"}, out : 0 .. MaxUnits]
      BY <1>1, <2>1, <2>3, <2>4
    <3>2. started' \in BOOLEAN /\ carry' \in 0 .. Chunk - 1
      BY <1>1, <2>1 DEF Cpal
    <3>. QED
      BY <1>0, <2>1, <3>1, <3>2 DEF DeviceTypeOK
  <2>6. DeviceKeeps'
    BY <2>1, <2>3 DEF DeviceKeeps, u
  <2>7. Held' /\ Quiet'
    BY <1>0, <1>1, <1>2, <1>3, <2>1, <2>2 DEF Held, Quiet
  <2>. QED
    BY <2>5, <2>6, <2>7 DEF DeviceInv
<1>18. CASE StopDop
  <2>1. /\ started /\ doing.op = "none" /\ Dop /\ doing' = [op |-> "flush", out |-> 0]
        /\ \/ Len(line) < LineDepth /\ line' = Append(line, 1) /\ taken' = taken + 1
           \/ UNCHANGED <<line, taken>>
        /\ UNCHANGED <<backend, started, stream, sample, carry, muted, sounded, after>>
    BY <1>4, <1>18 DEF StopDop
  <2>2. doing.out = 0 /\ stream # "new" /\ taken <= MaxUnits
    BY <1>0, <1>1, <2>1 DEF Held
  <2>3. /\ line' \in Seq(1 .. MaxUnits + 1) /\ Len(line') <= LineDepth
        /\ taken' \in 0 .. MaxUnits + 1 /\ taken' - taken = Units(line') - Units(line)
        /\ Units(line') \in Nat
        /\ ~backend.resamples => \A i \in 1 .. Len(line') : line'[i] = 1
    <3>1. CASE Len(line) < LineDepth /\ line' = Append(line, 1) /\ taken' = taken + 1
      <4>1. /\ line' \in Seq(1 .. MaxUnits + 1) /\ Len(line') = Len(line) + 1
            /\ line'[Len(line) + 1] = 1 /\ \A i \in 1 .. Len(line) : line'[i] = line[i]
        BY <1>0, <1>1, <3>1 DEF DeviceTypeOK
      <4>2. Units(line') = Units(line) + 1
        BY <1>1, <3>1, UnitsAppend
      <4>3. ASSUME ~backend.resamples, NEW i \in 1 .. Len(line'), i # Len(line) + 1
            PROVE  i \in 1 .. Len(line) /\ line[i] = 1
        BY <1>0, <1>1, <4>1, <4>3 DEF Held
      <4>4. taken' \in 0 .. MaxUnits + 1
        BY <1>1, <1>3, <2>2, <3>1
      <4>5. Units(line') \in Nat /\ taken' - taken = Units(line') - Units(line)
        <5>. DEFINE u == Units(line)
        <5>1. u \in Nat /\ Units(line') = u + 1 /\ taken \in Nat /\ taken' = taken + 1
          BY <1>1, <1>3, <3>1, <4>2
        <5>. HIDE DEF u
        <5>2. Units(line') \in Nat /\ taken' - taken = Units(line') - u
          BY <5>1
        <5>. QED
          BY <5>2 DEF u
      <4>6. Len(line') <= LineDepth
        BY <1>1, <3>1, <4>1
      <4>7. ~backend.resamples => \A i \in 1 .. Len(line') : line'[i] = 1
        BY <4>1, <4>3
      <4>. QED
        BY <4>1, <4>4, <4>5, <4>6, <4>7
    <3>2. CASE UNCHANGED <<line, taken>>
      BY <1>0, <1>1, <1>3, <3>2 DEF DeviceTypeOK, Held
    <3>. QED
      BY <2>1, <3>1, <3>2
  <2>4. DeviceTypeOK'
    BY <1>0, <1>1, <2>1, <2>3 DEF DeviceTypeOK
  <2>5. DeviceKeeps'
    <3>. DEFINE u == Units(line)
                v == Units(line')
    <3>1. /\ u \in Nat /\ v \in Nat /\ taken' - taken = v - u /\ taken' \in Nat /\ taken \in Nat
          /\ sample \in Nat /\ sounded \in Nat /\ carry \in Nat
          /\ taken = sounded + sample + u + carry
      <4>1. taken = sounded + sample + u + carry + doing.out /\ doing.out = 0
        BY <1>0, <2>1, <2>2 DEF DeviceKeeps
      <4>2. /\ u \in Nat /\ v \in Nat /\ taken' - taken = v - u /\ taken' \in Nat /\ taken \in Nat
            /\ sample \in Nat /\ sounded \in Nat /\ carry \in Nat
        BY <1>1, <1>3, <2>3
      <4>. HIDE DEF u, v
      <4>3. PICK t \in Nat, a \in Nat, b \in Nat, c \in Nat :
              t = taken /\ a = sounded /\ b = sample /\ c = carry
        BY <4>2
      <4>4. t = a + b + u + c + 0
        BY <4>1, <4>3
      <4>5. t = a + b + u + c
        BY <4>2, <4>4
      <4>. QED
        BY <4>2, <4>3, <4>5
    <3>. HIDE DEF u, v
    <3>2. taken' = sounded + sample + v + carry
      <4>1. PICK t \in Nat, t2 \in Nat, a \in Nat, b \in Nat, c \in Nat :
              t = taken /\ t2 = taken' /\ a = sounded /\ b = sample /\ c = carry
        BY <3>1
      <4>2. t2 - t = v - u /\ t = a + b + u + c /\ u \in Nat /\ v \in Nat
        BY <3>1, <4>1
      <4>3. t2 = a + b + v + c
        BY <4>2
      <4>. QED
        BY <4>1, <4>3
    <3>3. doing'.out = 0
      BY <2>1
    <3>4. taken' = sounded + sample + v + carry + doing'.out
      BY <3>1, <3>2, <3>3
    <3>. QED
      BY <2>1, <3>4 DEF DeviceKeeps, v
  <2>6. Held' /\ Quiet'
    BY <1>0, <1>1, <1>2, <1>3, <2>1, <2>2, <2>3 DEF Held, Quiet
  <2>. QED
    BY <2>4, <2>5, <2>6 DEF DeviceInv
<1>19. CASE CloseStream
  <2>1. /\ doing = [op |-> "flush", out |-> 0] /\ stream' = "closed" /\ started' = FALSE
        /\ muted' = FALSE /\ line' = <<>> /\ sample' = 0 /\ doing' = Nothing
        /\ UNCHANGED <<backend, carry, taken, sounded, after>>
    BY <1>19 DEF CloseStream
  <2>2. DeviceTypeOK'
    <3>1. doing' \in [op : {"none", "write", "flush", "joining"}, out : 0 .. MaxUnits]
      BY <1>1, <2>1 DEF Nothing
    <3>2. line' \in Seq(1 .. MaxUnits + 1) /\ Len(line') <= LineDepth /\ sample' \in 0 .. MaxUnits
      BY <1>1, <2>1
    <3>3. started' \in BOOLEAN /\ muted' \in BOOLEAN
      BY <2>1
    <3>. QED
      BY <1>0, <2>1, <3>1, <3>2, <3>3 DEF DeviceTypeOK
  <2>3. DeviceKeeps'
    BY <2>1 DEF DeviceKeeps
  <2>4. Held' /\ Quiet'
    BY <1>0, <1>1, <1>2, <1>3, <2>1 DEF Held, Quiet, Nothing
  <2>. QED
    BY <2>2, <2>3, <2>4 DEF DeviceInv
<1>20. CASE LoopQuits
  <2>1. /\ ~Cpal /\ ~started /\ stream' = "closed" /\ line' = <<>> /\ sample' = 0
        /\ stream \in {"running", "lost"}
        /\ UNCHANGED <<backend, started, carry, muted, doing, taken, sounded, after>>
    BY <1>20 DEF LoopQuits
  <2>2. DeviceTypeOK'
    BY <1>0, <1>1, <2>1 DEF DeviceTypeOK
  <2>3. DeviceKeeps'
    BY <2>1 DEF DeviceKeeps
  <2>4. Held' /\ Quiet'
    BY <1>0, <1>1, <1>2, <1>3, <2>1 DEF Held, Quiet
  <2>. QED
    BY <2>2, <2>3, <2>4 DEF DeviceInv
<1>21. CASE LoopLeft
  <2>1. /\ doing.op = "joining" /\ doing' = Nothing /\ muted' = FALSE
        /\ UNCHANGED <<backend, started, stream, line, sample, carry, taken, sounded, after>>
    BY <1>21 DEF LoopLeft
  <2>2. ~Cpal /\ ~started
    BY <1>0, <2>1 DEF Held
  <2>3. DeviceTypeOK'
    <3>1. doing' \in [op : {"none", "write", "flush", "joining"}, out : 0 .. MaxUnits]
      BY <1>1, <2>1 DEF Nothing
    <3>. QED
      BY <1>0, <1>1, <2>1, <3>1 DEF DeviceTypeOK
  <2>4. DeviceKeeps'
    BY <2>1, <2>2 DEF DeviceKeeps
  <2>5. Held' /\ Quiet'
    BY <1>0, <1>1, <1>2, <1>3, <2>1, <2>2 DEF Held, Quiet, Nothing
  <2>. QED
    BY <2>3, <2>4, <2>5 DEF DeviceInv
<1>22. CASE Callback
  <2>1. /\ stream = "running" /\ sounded' = sounded + 1
        /\ after' = IF muted \/ ~started THEN after + 1 ELSE 0
        /\ UNCHANGED <<backend, started, stream, carry, muted, doing, taken>>
    BY <1>22 DEF Callback
  <2>2. /\ line' \in Seq(1 .. MaxUnits + 1) /\ Len(line') <= Len(line)
        /\ sample' \in 0 .. MaxUnits
        /\ Units(line') \in Nat /\ sample' + Units(line') + 1 = sample + Units(line)
        /\ ~backend.resamples => /\ sample' = 0 /\ Len(line') < Len(line)
                                 /\ \A i \in 1 .. Len(line') : line'[i] = 1
    <3>1. CASE sample > 0 /\ sample' = sample - 1 /\ UNCHANGED line
      BY <1>0, <1>1, <1>3, <3>1 DEF DeviceTypeOK, Held
    <3>2. CASE line # <<>> /\ sample = 0 /\ sample' = Head(line) - 1 /\ line' = Tail(line)
      <4>1. /\ line' \in Seq(1 .. MaxUnits + 1) /\ Len(line') = Len(line) - 1
            /\ Head(line) = line[1] /\ Len(line) > 0 /\ Head(line) \in 1 .. MaxUnits + 1
            /\ \A i \in 1 .. Len(line') : line'[i] = line[i + 1] /\ i + 1 \in 1 .. Len(line)
        <5>1. line \in Seq(1 .. MaxUnits + 1) /\ line # <<>>
          BY <1>0, <3>2 DEF DeviceTypeOK
        <5>2. PICK S : S = 1 .. MaxUnits + 1
          OBVIOUS
        <5>3. line \in Seq(S)
          BY <5>1, <5>2
        <5>4. /\ line' \in Seq(S) /\ Len(line') = Len(line) - 1
              /\ Head(line) = line[1] /\ Len(line) > 0 /\ Head(line) \in S
              /\ \A i \in 1 .. Len(line') : line'[i] = line[i + 1] /\ i + 1 \in 1 .. Len(line)
          BY <3>2, <5>1, <5>3
        <5>. QED
          BY <5>2, <5>4
      <4>2. Units(line) = Head(line) + Units(line')
        BY <1>1, <3>2, UnitsTail
      <4>3. line' \in Seq(Nat)
        BY <1>1, <3>2
      <4>4. Units(line') \in Nat
        BY <4>3, UnitsNat
      <4>5. ~backend.resamples => /\ Head(line) = 1
                                  /\ \A i \in 1 .. Len(line') : line'[i] = 1
        BY <1>0, <1>1, <4>1 DEF Held
      <4>. DEFINE u == Units(line)
                  v == Units(line')
                  h == Head(line)
      <4>6. /\ u = h + v /\ v \in Nat /\ h \in Nat /\ h >= 1 /\ h <= MaxUnits + 1 /\ sample = 0
            /\ sample' = h - 1 /\ MaxUnits \in Nat
        BY <1>1, <3>2, <4>1, <4>2, <4>4
      <4>7. Len(line') <= Len(line) /\ Len(line') < Len(line)
        BY <1>1, <4>1
      <4>8. ~backend.resamples => sample' = 0
        BY <3>2, <4>5
      <4>. HIDE DEF u, v, h
      <4>9. sample' \in 0 .. MaxUnits /\ sample' + v + 1 = sample + u
        BY <4>6
      <4>. QED
        BY <4>1, <4>4, <4>5, <4>7, <4>8, <4>9 DEF u, v
    <3>. QED
      BY <1>22, <3>1, <3>2 DEF Callback
  <2>3. Len(line') \in Nat
    BY <2>2
  <2>4. DeviceTypeOK'
    BY <1>0, <1>1, <1>3, <2>1, <2>2, <2>3 DEF DeviceTypeOK
  <2>5. DeviceKeeps'
    <3>. DEFINE u == Units(line)
                v == Units(line')
    <3>1. /\ u \in Nat /\ v \in Nat /\ sample' + v + 1 = sample + u /\ sounded' = sounded + 1
          /\ sample \in Nat /\ sample' \in Nat /\ sounded \in Nat /\ carry \in Nat /\ doing.out \in Nat
          /\ UNCHANGED <<carry, doing, taken, started>>
      BY <1>1, <1>3, <2>1, <2>2
    <3>2. started => taken = sounded + sample + u + carry + doing.out
      BY <1>0 DEF DeviceKeeps
    <3>. HIDE DEF u, v
    <3>. DEFINE d == doing.out
    <3>0. d \in Nat /\ (started => taken = sounded + sample + u + carry + d)
      BY <3>1, <3>2
    <3>. HIDE DEF d
    <3>4. started => taken = sounded' + sample' + v + carry + d
      <4>. SUFFICES ASSUME started PROVE taken = sounded' + sample' + v + carry + d
        OBVIOUS
      <4>1. PICK a \in Nat, b \in Nat, b2 \in Nat, c \in Nat :
              a = sounded /\ b = sample /\ b2 = sample' /\ c = carry
        BY <3>1
      <4>2. b2 + v + 1 = b + u /\ d \in Nat /\ u \in Nat /\ v \in Nat
        BY <3>0, <3>1, <4>1
      <4>3. a + b + u + c + d = (a + 1) + b2 + v + c + d
        BY <4>2
      <4>. QED
        BY <3>0, <3>1, <4>1, <4>3
    <3>3. started => taken = sounded' + sample' + v + carry + doing.out
      BY <3>4 DEF d
    <3>. QED
      BY <3>1, <3>3 DEF DeviceKeeps, v
  <2>6. Held'
    BY <1>0, <1>2, <2>1, <2>2 DEF Held
  <2>7. Quiet'
    <3>1. ~Cpal => Len(line') < Len(line)
      BY <1>1, <2>2
    <3>2. CASE Cpal
      BY <1>0, <1>2, <2>1, <3>2 DEF Quiet
    <3>3. CASE ~Cpal /\ (muted \/ ~started)
      <4>. DEFINE n == Len(line)
                  m == Len(line')
      <4>1. /\ after + n <= LineDepth /\ m < n /\ n \in Nat /\ m \in Nat /\ after \in Nat
            /\ LineDepth \in Nat /\ after' = after + 1
        BY <1>0, <1>1, <1>3, <2>1, <2>3, <3>1, <3>3 DEF Quiet
      <4>. HIDE DEF n, m
      <4>2. after' + m <= LineDepth
        BY <4>1
      <4>. QED
        BY <1>2, <2>1, <3>3, <4>2 DEF Quiet, m
    <3>4. CASE ~Cpal /\ ~(muted \/ ~started)
      BY <1>2, <2>1, <3>4 DEF Quiet
    <3>. QED
      BY <3>2, <3>3, <3>4
  <2>. QED
    BY <2>4, <2>5, <2>6, <2>7 DEF DeviceInv
<1>23. CASE LoseDevice
  <2>1. /\ stream \in {"running", "paused"} /\ stream' = "lost"
        /\ UNCHANGED <<backend, started, line, sample, carry, muted, doing, taken, sounded, after>>
    BY <1>23 DEF LoseDevice
  <2>2. DeviceTypeOK' /\ DeviceKeeps'
    BY <1>0, <2>1 DEF DeviceTypeOK, DeviceKeeps
  <2>3. Held' /\ Quiet'
    BY <1>0, <1>2, <2>1 DEF Held, Quiet
  <2>. QED
    BY <2>2, <2>3 DEF DeviceInv
<1>. QED
  BY <1>10, <1>11, <1>12, <1>13, <1>14, <1>15, <1>16, <1>17, <1>18, <1>19, <1>20, <1>21, <1>22, <1>23
     DEF DeviceNext, Continue

\* The invariant of a device is inductive, and says what the run checks.
LEMMA DeviceStep == DeviceInv /\ [DeviceNext]_devicevars => DeviceInv'
<1>. SUFFICES ASSUME DeviceInv, [DeviceNext]_devicevars PROVE DeviceInv'
  OBVIOUS
<1>1. CASE UNCHANGED devicevars
  BY <1>1 DEF devicevars, DeviceInv, DeviceTypeOK, DeviceKeeps, Held, Quiet, Cpal
<1>2. CASE DeviceNext
  BY <1>2, DeviceKeepsOn
<1>. QED
  BY <1>1, <1>2

\* The device's invariant keeps its two promises: no unit lost, silence on a pause.
LEMMA DevicePromises ==
  ASSUME DeviceInv
  PROVE  DeviceKeeps /\ DeviceSilent
<1>1. DeviceSilent
  <2>1. Len(line) \in Nat /\ after \in Nat /\ LineDepth \in Nat
    BY DeviceFacts DEF DeviceInv, DeviceTypeOK
  <2>. QED
    BY <2>1 DEF DeviceInv, Quiet, DeviceSilent
<1>. QED
  BY <1>1 DEF DeviceInv

-----------------------------------------------------------------------------
(* The output that streams to listeners.                                    *)

TitleOrNone == Titles \union {NoTitle}
ClientType ==
  [wants : BOOLEAN, since : 0 .. MetaInt - 1, last : TitleOrNone, got : Nat, blocks : Nat,
   shown : TitleOrNone, block : TitleOrNone, from : 0 .. MaxSent]

\* A client's blocks stand where it looks for them; one that wants none has none due.
InStep(c) ==
  /\ c.wants => c.since = c.got % MetaInt /\ c.blocks = c.got \div MetaInt
  /\ ~c.wants => c.since = 0
  /\ c.last = c.block /\ (c.block # NoTitle => c.shown = c.block)

\* The types, the client that is greeted, and a write within the bound.
HttpdShape ==
  /\ running \in BOOLEAN /\ title \in TitleOrNone /\ visitors \subseteq Listeners
  /\ sent \in 0 .. MaxSent
  /\ acceptor.at \in {"none", "top", "greeting", "gone"}
  /\ acceptor.at = "greeting" => acceptor.who \in Listeners
  /\ server.at \in {"new", "idle", "serving", "stopping", "stopped"}
  /\ server.at = "serving" => /\ server.bytes \in Nat /\ sent + server.bytes <= MaxSent
                              /\ server.title \in TitleOrNone
  /\ DOMAIN clients \subseteq Listeners
  /\ \A l \in DOMAIN clients : clients[l] \in ClientType

\* Nothing is served before the start, nor after the stop.
Closed ==
  /\ server.at = "new" => acceptor.at = "none" /\ DOMAIN clients = {}
  /\ server.at = "stopped" => acceptor.at \in {"none", "gone"} /\ DOMAIN clients = {}

HttpdInv ==
  /\ HttpdShape /\ Closed
  /\ \A l \in DOMAIN clients : /\ InStep(clients[l])
                               /\ clients[l].got - Header = sent - clients[l].from

\* The remainder and the quotient of the next number, and of a small one.
LEMMA NextRemainder ==
  ASSUME NEW m \in Nat, m > 0, NEW g \in Nat
  PROVE  /\ (g % m) + 1 = m => (g + 1) % m = 0 /\ (g + 1) \div m = (g \div m) + 1
         /\ (g % m) + 1 < m => (g + 1) % m = (g % m) + 1 /\ (g + 1) \div m = g \div m
         /\ g < m => g % m = g /\ g \div m = 0
<1>1. ASSUME (g % m) + 1 = m PROVE (g + 1) % m = 0 /\ (g + 1) \div m = (g \div m) + 1
  BY <1>1
<1>2. ASSUME (g % m) + 1 < m PROVE (g + 1) % m = (g % m) + 1 /\ (g + 1) \div m = g \div m
  BY <1>2
<1>3. ASSUME g < m PROVE g % m = g /\ g \div m = 0
  BY <1>3
<1>. QED
  BY <1>1, <1>2, <1>3

\* A byte keeps a client in step.
LEMMA ServeByteKeeps ==
  ASSUME NEW c \in ClientType, InStep(c), NEW now \in TitleOrNone
  PROVE  LET d == ServeByte(c, now)
         IN  /\ d \in ClientType /\ InStep(d)
             /\ d.got = c.got + 1 /\ d.wants = c.wants /\ d.from = c.from
<1>0. MetaInt \in Nat /\ MetaInt > 0 /\ c.got \in Nat /\ c.blocks \in Nat /\ c.wants \in BOOLEAN
      /\ c.since \in Nat /\ c.since < MetaInt /\ c.from \in 0 .. MaxSent
      /\ c.last \in TitleOrNone /\ c.shown \in TitleOrNone /\ c.block \in TitleOrNone
  BY HttpdConstants DEF ClientType
<1>. DEFINE due == c.wants /\ c.since + 1 = MetaInt
            d == ServeByte(c, now)
<1>1. CASE due
  <2>. DEFINE show == IF now # c.last /\ now # NoTitle THEN now ELSE c.shown
  <2>1. d = [wants |-> c.wants, since |-> 0, last |-> now, got |-> c.got + 1,
             blocks |-> c.blocks + 1, shown |-> show, block |-> now, from |-> c.from]
    BY <1>0, <1>1 DEF ServeByte, MetaBlock, ClientType
  <2>2. show \in TitleOrNone /\ (now # NoTitle => show = now)
    BY <1>0 DEF InStep
  <2>3. (c.got % MetaInt) + 1 = MetaInt /\ c.blocks = c.got \div MetaInt
    BY <1>1 DEF InStep
  <2>4. (c.got + 1) % MetaInt = 0 /\ (c.got + 1) \div MetaInt = c.blocks + 1
    BY <1>0, <2>3, NextRemainder
  <2>. HIDE DEF show, d
  <2>5. d \in ClientType
    BY <1>0, <2>1, <2>2 DEF ClientType
  <2>6. InStep(d)
    BY <1>1, <2>1, <2>2, <2>4 DEF InStep
  <2>. QED
    BY <2>1, <2>5, <2>6 DEF d
<1>2. CASE ~due
  <2>. DEFINE since == IF c.wants THEN c.since + 1 ELSE c.since
  <2>1. d = [wants |-> c.wants, since |-> since, last |-> c.last, got |-> c.got + 1,
             blocks |-> c.blocks, shown |-> c.shown, block |-> c.block, from |-> c.from]
    <3>. DEFINE more == [c EXCEPT !.got = @ + 1, !.since = since]
    <3>1. more = [wants |-> c.wants, since |-> since, last |-> c.last, got |-> c.got + 1,
                  blocks |-> c.blocks, shown |-> c.shown, block |-> c.block, from |-> c.from]
      <4>. DEFINE one == [c EXCEPT !.got = c.got + 1]
      <4>1. one = [wants |-> c.wants, since |-> c.since, last |-> c.last, got |-> c.got + 1,
                   blocks |-> c.blocks, shown |-> c.shown, block |-> c.block, from |-> c.from]
        BY DEF ClientType
      <4>2. more = [one EXCEPT !.since = since]
        OBVIOUS
      <4>. HIDE DEF since, one, more
      <4>. QED
        BY <4>1, <4>2
    <3>2. since # MetaInt
      BY <1>0, <1>2 DEF InStep
    <3>3. more.since # MetaInt
      BY <3>1, <3>2
    <3>4. d = IF more.since = MetaInt THEN MetaBlock(more, now) ELSE more
      BY DEF ServeByte
    <3>. HIDE DEF more, d
    <3>. QED
      BY <3>1, <3>3, <3>4
  <2>2. since \in 0 .. MetaInt - 1
    BY <1>0, <1>2
  <2>3. c.wants => /\ (c.got % MetaInt) + 1 < MetaInt /\ since = (c.got % MetaInt) + 1
                   /\ c.blocks = c.got \div MetaInt
    BY <1>0, <1>2 DEF InStep
  <2>4. c.wants => (c.got + 1) % MetaInt = since /\ (c.got + 1) \div MetaInt = c.blocks
    <3>. SUFFICES ASSUME c.wants
                  PROVE  (c.got + 1) % MetaInt = since /\ (c.got + 1) \div MetaInt = c.blocks
      OBVIOUS
    <3>1. /\ (c.got + 1) % MetaInt = (c.got % MetaInt) + 1
          /\ (c.got + 1) \div MetaInt = c.got \div MetaInt
      BY <1>0, <2>3, NextRemainder
    <3>. HIDE DEF since
    <3>. QED
      BY <2>3, <3>1
  <2>5. ~c.wants => since = 0
    BY DEF InStep
  <2>. HIDE DEF since, d
  <2>6. d \in ClientType
    BY <1>0, <2>1, <2>2 DEF ClientType
  <2>7. InStep(d)
    BY <2>1, <2>4, <2>5 DEF InStep
  <2>. QED
    BY <2>1, <2>6, <2>7 DEF d
<1>. QED
  BY <1>1, <1>2

\* f is a client byte by byte.
Served(c, f, n, now) ==
  f = [i \in 0 .. n |-> IF i = 0 THEN c ELSE ServeByte(f[i - 1], now)]

\* There is such a function, so Serve is what its definition says.
LEMMA ServedExists ==
  ASSUME NEW c, NEW now, NEW n \in Nat
  PROVE  \E f : Served(c, f, n, now)
<1>. DEFINE T == {m \in Nat : \E f : Served(c, f, m, now)}
<1>1. 0 \in T
  <2>. DEFINE f == [i \in 0 .. 0 |-> c]
  <2>1. Served(c, f, 0, now)
    BY DEF Served
  <2>. QED
    BY <2>1
<1>2. ASSUME NEW m \in T PROVE m + 1 \in T
  <2>0. m \in Nat /\ m + 1 \in Nat
    BY <1>2
  <2>1. PICK f : Served(c, f, m, now)
    BY <1>2
  <2>. DEFINE g == [i \in 0 .. m + 1 |-> IF i <= m THEN f[i] ELSE ServeByte(f[m], now)]
  <2>2. ASSUME NEW i \in 0 .. m + 1
        PROVE  g[i] = IF i = 0 THEN c ELSE ServeByte(g[i - 1], now)
    <3>1. CASE i = m + 1
      <4>1. g[i] = ServeByte(f[m], now) /\ g[i - 1] = f[m] /\ i # 0
        BY <2>0, <3>1
      <4>. QED
        BY <4>1
    <3>2. CASE i # m + 1
      <4>1. i \in 0 .. m /\ g[i] = f[i] /\ (i # 0 => g[i - 1] = f[i - 1])
        BY <2>0, <3>2
      <4>2. f[i] = IF i = 0 THEN c ELSE ServeByte(f[i - 1], now)
        BY <2>1, <4>1 DEF Served
      <4>. QED
        BY <4>1, <4>2
    <3>. QED
      BY <3>1, <3>2
  <2>3. Served(c, g, m + 1, now)
    BY <2>2 DEF Served
  <2>. QED
    BY <2>0, <2>3
<1>. HIDE DEF T
<1>3. T = Nat
  <2>1. T \in SUBSET Nat
    BY DEF T
  <2>. QED
    BY <1>1, <1>2, <2>1, SetInduction
<1>. QED
  BY <1>3 DEF T

\* A chunk, however the blocks cut it, keeps a client in step.
LEMMA ServeKeeps ==
  ASSUME NEW c \in ClientType, InStep(c), NEW now \in TitleOrNone, NEW n \in Nat
  PROVE  LET d == Serve(c, n, now)
         IN  /\ d \in ClientType /\ InStep(d)
             /\ d.got = c.got + n /\ d.wants = c.wants /\ d.from = c.from
<1>. DEFINE f == CHOOSE h : Served(c, h, n, now)
            Good(d, i) == /\ d \in ClientType /\ InStep(d)
                          /\ d.got = c.got + i /\ d.wants = c.wants /\ d.from = c.from
            T == {i \in Nat : i <= n => Good(f[i], i)}
<1>0. c.got \in Nat
  BY DEF ClientType
<1>1. Served(c, f, n, now)
  BY ServedExists
<1>2. Serve(c, n, now) = f[n]
  BY DEF Serve, Served
<1>3. \A i \in 0 .. n : f[i] = IF i = 0 THEN c ELSE ServeByte(f[i - 1], now)
  BY <1>1 DEF Served
<1>. HIDE DEF f
<1>4. 0 \in T
  <2>1. f[0] = c
    BY <1>3
  <2>. QED
    BY <1>0, <2>1
<1>5. ASSUME NEW i \in T PROVE i + 1 \in T
  <2>0. i \in Nat /\ i + 1 \in Nat
    BY <1>5
  <2>. SUFFICES ASSUME i + 1 <= n PROVE Good(f[i + 1], i + 1)
    BY <2>0
  <2>1. Good(f[i], i) /\ f[i + 1] = ServeByte(f[i], now)
    <3>1. i + 1 \in 0 .. n /\ i + 1 # 0 /\ (i + 1) - 1 = i /\ i <= n
      BY <2>0
    <3>. QED
      BY <1>3, <1>5, <3>1
  <2>2. LET d == ServeByte(f[i], now)
        IN  /\ d \in ClientType /\ InStep(d)
            /\ d.got = f[i].got + 1 /\ d.wants = f[i].wants /\ d.from = f[i].from
    BY <2>1, ServeByteKeeps
  <2>. QED
    BY <1>0, <2>0, <2>1, <2>2
<1>. HIDE DEF T
<1>6. T = Nat
  <2>1. T \in SUBSET Nat
    BY DEF T
  <2>. QED
    BY <1>4, <1>5, <2>1, SetInduction
<1>7. Good(f[n], n)
  BY <1>6 DEF T
<1>. QED
  BY <1>2, <1>7

\* The stream starts closed, with no clients.
LEMMA HttpdInvInit == HttpdInit => HttpdInv
<1>. SUFFICES ASSUME HttpdInit PROVE HttpdInv
  OBVIOUS
<1>1. DOMAIN clients = {} /\ server.at = "new" /\ acceptor.at = "none"
  BY DEF HttpdInit, Serving
<1>2. HttpdShape
  <2>1. /\ running = FALSE /\ title \in TitleOrNone /\ visitors = Listeners /\ sent = 0
        /\ MaxSent \in Nat
    BY HttpdConstants DEF HttpdInit, TitleOrNone
  <2>2. running \in BOOLEAN /\ sent \in 0 .. MaxSent /\ visitors \subseteq Listeners
    <3>1. running \in BOOLEAN
      BY <2>1
    <3>2. sent \in 0 .. MaxSent
      BY <2>1
    <3>3. visitors \subseteq Listeners
      BY <2>1
    <3>. QED
      BY <3>1, <3>2, <3>3
  <2>3. DOMAIN clients \subseteq Listeners /\ \A l \in DOMAIN clients : clients[l] \in ClientType
    BY <1>1
  <2>. QED
    BY <1>1, <2>1, <2>2, <2>3 DEF HttpdShape
<1>. QED
  BY <1>1, <1>2 DEF HttpdInv, Closed

\* Every step of the accept thread, the worker and the engine keeps the invariant.
LEMMA HttpdKeeps ==
  ASSUME HttpdInv, HttpdNext
  PROVE  HttpdInv'
<1>0. HttpdShape /\ Closed
  BY DEF HttpdInv
<1>1. /\ MetaInt \in Nat /\ MetaInt > 0 /\ Header \in Nat /\ Header < MetaInt /\ MaxSent \in Nat
      /\ Sizes \subseteq Nat /\ sent \in Nat /\ sent <= MaxSent
  BY <1>0, HttpdConstants DEF HttpdShape
<1>2. ASSUME UNCHANGED <<clients, sent>>, HttpdShape', Closed' PROVE HttpdInv'
  BY <1>2 DEF HttpdInv
<1>3. ASSUME NEW l \in Listeners, Accept(l) PROVE HttpdInv'
  <2>1. HttpdShape' /\ Closed'
    BY <1>0, <1>3 DEF Accept, Accepting, HttpdShape, Closed
  <2>. QED
    BY <1>2, <1>3, <2>1 DEF Accept
<1>4. CASE Greet
  <2>1. CASE UNCHANGED clients
    <3>1. HttpdShape' /\ Closed'
      BY <1>0, <1>4, <2>1 DEF Greet, HttpdShape, Closed
    <3>. QED
      BY <1>2, <1>4, <2>1, <3>1 DEF Greet
  <2>2. CASE \E wants \in BOOLEAN :
               clients' = [l \in DOMAIN clients \union {acceptor.who} |->
                             IF l = acceptor.who THEN Client(wants) ELSE clients[l]]
    <3>1. PICK wants \in BOOLEAN :
            clients' = [l \in DOMAIN clients \union {acceptor.who} |->
                          IF l = acceptor.who THEN Client(wants) ELSE clients[l]]
      BY <2>2
    <3>. DEFINE c == Client(wants)
    <3>2. c = [wants |-> wants, since |-> IF wants THEN Header ELSE 0, last |-> NoTitle,
               got |-> Header, blocks |-> 0, shown |-> NoTitle, block |-> NoTitle, from |-> sent]
      BY DEF Client
    <3>3. Header % MetaInt = Header /\ Header \div MetaInt = 0
      BY <1>1, NextRemainder
    <3>. HIDE DEF c
    <3>4. c \in ClientType /\ InStep(c)
      BY <1>1, <3>2, <3>3 DEF ClientType, InStep, TitleOrNone
    <3>5. c.got - Header = sent - c.from
      BY <1>1, <3>2
    <3>6. /\ acceptor.at = "greeting" /\ acceptor'.at = "top" /\ acceptor.who \in Listeners
          /\ UNCHANGED <<running, server, visitors, title, sent>>
      BY <1>0, <1>4 DEF Greet, HttpdShape
    <3>7. /\ DOMAIN clients' = DOMAIN clients \union {acceptor.who}
          /\ \A l \in DOMAIN clients' : clients'[l] = c \/ (l \in DOMAIN clients /\ clients'[l] = clients[l])
      BY <3>1 DEF c
    <3>8. HttpdShape'
      BY <1>0, <3>4, <3>6, <3>7 DEF HttpdShape
    <3>9. Closed'
      BY <1>0, <3>6 DEF Closed
    <3>. QED
      BY <3>4, <3>5, <3>6, <3>7, <3>8, <3>9 DEF HttpdInv
  <2>. QED
    BY <1>4, <2>1, <2>2 DEF Greet
<1>5. CASE AcceptEnds
  <2>1. HttpdShape' /\ Closed'
    BY <1>0, <1>5 DEF AcceptEnds, HttpdShape, Closed
  <2>. QED
    BY <1>2, <1>5, <2>1 DEF AcceptEnds
<1>6. CASE StartServer
  <2>1. HttpdShape' /\ Closed'
    <3>1. server.at = "new" /\ UNCHANGED <<clients, visitors, title, sent>>
      BY <1>6 DEF StartServer
    <3>2. CASE server' = Serving /\ running' = TRUE /\ acceptor' = [at |-> "top", who |-> Nobody]
      BY <1>0, <3>1, <3>2 DEF Serving, HttpdShape, Closed
    <3>3. CASE server' = [Serving EXCEPT !.at = "stopped"] /\ UNCHANGED <<running, acceptor>>
      <4>1. server'.at = "stopped"
        BY <3>3 DEF Serving
      <4>. QED
        BY <1>0, <3>1, <3>3, <4>1 DEF HttpdShape, Closed
    <3>. QED
      BY <1>6, <3>2, <3>3 DEF StartServer
  <2>. QED
    BY <1>2, <1>6, <2>1 DEF StartServer
<1>7. ASSUME NEW n \in Sizes, Encode(n) PROVE HttpdInv'
  <2>1. HttpdShape' /\ Closed'
    BY <1>0, <1>1, <1>7 DEF Encode, HttpdShape, Closed
  <2>. QED
    BY <1>2, <1>7, <2>1 DEF Encode
<1>8. CASE ServeAll
  <2>. DEFINE n == server.bytes
  <2>1. PICK failing \in SUBSET DOMAIN clients :
          clients' = [l \in DOMAIN clients \ failing |-> Serve(clients[l], n, server.title)]
    BY <1>8 DEF ServeAll
  <2>2. /\ server.at = "serving" /\ sent' = sent + n /\ server'.at = "idle"
        /\ UNCHANGED <<running, acceptor, visitors, title>>
    BY <1>8 DEF ServeAll, Serving
  <2>3. n \in Nat /\ sent + n <= MaxSent /\ server.title \in TitleOrNone
    BY <1>0, <2>2 DEF HttpdShape
  <2>4. ASSUME NEW l \in DOMAIN clients'
        PROVE  /\ l \in DOMAIN clients /\ clients'[l] \in ClientType /\ InStep(clients'[l])
               /\ clients'[l].got - Header = sent' - clients'[l].from
    <3>. DEFINE c == clients[l]
                d == Serve(c, n, server.title)
    <3>1. l \in DOMAIN clients /\ clients'[l] = d
      BY <2>1
    <3>2. c \in ClientType /\ InStep(c) /\ c.got - Header = sent - c.from
      BY <1>0, <3>1 DEF HttpdInv, HttpdShape
    <3>3. d \in ClientType /\ InStep(d) /\ d.got = c.got + n /\ d.from = c.from
      BY <2>3, <3>2, ServeKeeps
    <3>4. c.got \in Nat /\ c.from \in Nat
      BY <1>1, <3>2 DEF ClientType
    <3>. HIDE DEF c, d
    <3>5. d.got - Header = sent' - d.from
      BY <1>1, <2>2, <2>3, <3>2, <3>3, <3>4
    <3>. QED
      BY <3>1, <3>3, <3>5
  <2>5. sent' \in 0 .. MaxSent
    BY <1>1, <2>2, <2>3
  <2>6. HttpdShape'
    BY <1>0, <2>2, <2>4, <2>5 DEF HttpdShape
  <2>7. Closed'
    BY <2>2 DEF Closed
  <2>. QED
    BY <2>4, <2>6, <2>7 DEF HttpdInv
<1>9. CASE BeginShutdown
  <2>1. HttpdShape' /\ Closed'
    BY <1>0, <1>9 DEF BeginShutdown, Serving, HttpdShape, Closed
  <2>. QED
    BY <1>2, <1>9, <2>1 DEF BeginShutdown
<1>10. CASE Shutdown
  <2>1. /\ DOMAIN clients' = {} /\ server'.at = "stopped" /\ acceptor.at = "gone"
        /\ UNCHANGED <<running, acceptor, visitors, title, sent>>
    BY <1>10 DEF Shutdown, Serving
  <2>2. HttpdShape' /\ Closed'
    BY <1>0, <2>1 DEF HttpdShape, Closed
  <2>. QED
    BY <2>1, <2>2 DEF HttpdInv
<1>11. ASSUME NEW t \in Titles \union {NoTitle}, SetNowPlaying(t) PROVE HttpdInv'
  <2>1. HttpdShape' /\ Closed'
    BY <1>0, <1>11 DEF SetNowPlaying, HttpdShape, Closed, TitleOrNone
  <2>. QED
    BY <1>2, <1>11, <2>1 DEF SetNowPlaying
<1>. QED
  BY <1>3, <1>4, <1>5, <1>6, <1>7, <1>8, <1>9, <1>10, <1>11 DEF HttpdNext

\* The invariant of the stream is inductive, and says what the run checks.
LEMMA HttpdStep == HttpdInv /\ [HttpdNext]_httpdvars => HttpdInv'
<1>. SUFFICES ASSUME HttpdInv, [HttpdNext]_httpdvars PROVE HttpdInv'
  OBVIOUS
<1>1. CASE UNCHANGED httpdvars
  BY <1>1 DEF httpdvars, HttpdInv, HttpdShape, Closed
<1>2. CASE HttpdNext
  BY <1>2, HttpdKeeps
<1>. QED
  BY <1>1, <1>2

\* The streaming output's invariant gives its types and the listeners' alignment.
LEMMA HttpdPromises ==
  ASSUME HttpdInv
  PROVE  HttpdTypeOK /\ ListenersAligned
<1>1. HttpdTypeOK
  BY DEF HttpdInv, HttpdShape, HttpdTypeOK, ClientType, TitleOrNone
<1>2. ListenersAligned
  BY DEF HttpdInv, InStep, Closed, ListenersAligned
<1>. QED
  BY <1>1, <1>2

-----------------------------------------------------------------------------
(* The player: every behaviour is one of its parts, the others stay as they were.  *)

PlayerInv == FanOutInv /\ ThreadInv /\ DeviceInv /\ HttpdInv

\* Each part of the player starts in its invariant.
LEMMA PlayerInvInit == PlayerInit => PlayerInv
BY FanOutInvInit, ThreadInvInit, DeviceInvInit, HttpdInvInit DEF PlayerInit, PlayerInv

\* The invariants of the parts together are inductive.
LEMMA PlayerStep == PlayerInv /\ [PlayerNext]_vars => PlayerInv'
<1>. SUFFICES ASSUME PlayerInv, [PlayerNext]_vars PROVE PlayerInv'
  OBVIOUS
<1>1. [FanOutNext]_fanvars /\ [ThreadNext]_threadvars /\ [DeviceNext]_devicevars
      /\ [HttpdNext]_httpdvars
  BY DEF PlayerNext, vars
<1>. QED
  BY <1>1, FanOutStep, ThreadStepInv, DeviceStep, HttpdStep DEF PlayerInv

\* Every reachable state of the player is in the invariant.
LEMMA PlayerAlways == PlayerSpec => []PlayerInv
BY PlayerInvInit, PlayerStep, PTL DEF PlayerSpec

\* In every state of the player all variables keep their types: channels within their
\* capacity, no count below zero, a client's counter short of a block.
THEOREM PlayerTypes == PlayerSpec => []PlayerTypeOK
<1>1. PlayerInv => PlayerTypeOK
  <2>1. ThreadInv => ThreadTypeOK
    BY DEF ThreadInv, Shape, ThreadTypeOK, DecodeType, EngineType, SongsOrNone, Playing
  <2>. QED
    BY <2>1, HttpdPromises DEF PlayerInv, FanOutInv, DeviceInv, PlayerTypeOK
<1>. QED
  BY <1>1, PlayerAlways, PTL

\* However the workers, the callbacks and the calls of MultiOutput interleave, and whichever
\* channel is full: a pause is heard after at most one chunk more, every quiet worker's
\* device is as the flag says, and a silenced device plays no more than PipeWire holds.
THEOREM PlayerPauses == PlayerSpec => []PauseObeyed
<1>1. PlayerInv => PauseObeyed
  BY FanOutPromises, DevicePromises DEF PlayerInv, PauseObeyed
<1>. QED
  BY <1>1, PlayerAlways, PTL

\* No unit of audio is lost or doubled on its way: not in the primary's channel, whose
\* send waits, nor in the resampler, the line to the callback and its buffer.
THEOREM PlayerKeepsAudio == PlayerSpec => []NothingLost
<1>1. PlayerInv => NothingLost
  BY FanOutPromises, DevicePromises DEF PlayerInv, NothingLost
<1>. QED
  BY <1>1, PlayerAlways, PTL

\* Whatever the chunks, the block size and the moments clients come and go, every client
\* finds its metadata where it looks for it; and none is left when the output has stopped.
THEOREM PlayerListeners == PlayerSpec => []ListenersAligned
<1>1. PlayerInv => ListenersAligned
  BY HttpdPromises DEF PlayerInv
<1>. QED
  BY <1>1, PlayerAlways, PTL

\* In the composed player too the position is the decoder's and the device fits the song.
THEOREM PlayerThread == PlayerSpec => [](PositionTrue /\ DeviceMatchesSong)
<1>1. PlayerInv => PositionTrue /\ DeviceMatchesSong
  BY DEF PlayerInv, ThreadInv
<1>. QED
  BY <1>1, PlayerAlways, PTL
=============================================================================
