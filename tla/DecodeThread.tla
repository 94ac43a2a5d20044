----------------------------- MODULE DecodeThread -----------------------------
(***************************************************************************)
(* DecodeThread: the playback thread of rmpd-player/src/engine.rs with the *)
(* engine calls that reach it, the output cache (output_slot.rs) and the   *)
(* crossfade window (crossfade.rs).                                        *)
(*                                                                         *)
(* Audio is measured in units; a buffer holds Buffer of them, and reading  *)
(* a file gives a full buffer but for its end.  A MultiOutput is its index *)
(* in multis: what its key is, whether it is active and whether its        *)
(* primary has failed.  FanOut says what it does with a chunk; the queue   *)
(* and the manager, which call play and answer the events, are Playback's. *)
(***************************************************************************)
EXTENDS Integers, SequencesExt, FiniteSetsExt

CONSTANTS
  Songs,       \* function: song -> [length, rate, dsd]
  None,        \* Option::None
  Buffer,      \* BUFFER_SIZE in units
  Crossfade,   \* engine.crossfade in units; 0 is off
  Windows,     \* the overlaps MixRamp tags and crossfade may give
  DsdRates,    \* DSD_PCM_RATES, ascending
  DeviceRate,  \* the rate of the device
  Supported,   \* the rates the device says it can do
  DopEnabled,  \* audio.dop
  OutputSets,  \* the values set_outputs is given
  Ranges,      \* playback ranges [start, end]; end <= start: to the end
  SeekTo,      \* positions asked for
  Faults,      \* whether files, seeks and devices may fail
  MaxCalls,    \* bound: engine calls
  MaxSeeks     \* bound: seeks that wait

ASSUME DecodeThreadConstants ==
  /\ Buffer \in Nat \ {0} /\ Crossfade \in Nat /\ MaxCalls \in Nat /\ MaxSeeks \in Nat
  /\ DsdRates # <<>> /\ \A i \in 1 .. Len(DsdRates) - 1 : DsdRates[i] < DsdRates[i + 1]
  /\ None \notin DOMAIN Songs \union Ranges
  /\ \A s \in DOMAIN Songs : Songs[s].length \in Nat
  /\ \A r \in Ranges : r.start \in Nat /\ r.end \in Nat
  /\ Windows \subseteq Nat /\ SeekTo \subseteq Nat
  /\ Faults \in BOOLEAN /\ DopEnabled \in BOOLEAN

VARIABLES
  now_song,  \* engine.current_song
  fed,       \* engine.next_song
  state,     \* atomic_state
  stopping,  \* stop_flag
  seeks,     \* the command channel
  connected, \* command_tx is Some
  outputs,   \* engine.outputs
  slot,      \* the cached MultiOutput, 0: none
  multis,    \* every MultiOutput built
  decode,    \* the playback thread; blends is history: how often an incoming song has
             \* ended before the blend since the position was last set
  engine,    \* the call that holds the engine: what it is about to start
  calls,     \* engine calls so far
  honest     \* history: no seek has failed in this thread

threadvars == <<now_song, fed, state, stopping, seeks, connected, outputs, slot,
                multis, decode, engine, calls, honest>>

NoDecode == [at |-> "none", song |-> None, pos |-> 0, count |-> 0, limit |-> None,
             ranged |-> FALSE, outs |-> {}, multi |-> 0, paused |-> FALSE,
             next |-> None, next_pos |-> 0, window |-> 0, blends |-> 0]
Free == [op |-> "free", song |-> None, range |-> None]

ThreadInit ==
  /\ now_song = None /\ fed = None /\ state = "stop" /\ stopping = FALSE
  /\ seeks = <<>> /\ connected = FALSE
  /\ outputs \in OutputSets
  /\ slot = 0 /\ multis = <<>> /\ decode = NoDecode /\ engine = Free
  /\ calls = 0 /\ honest = TRUE

ThreadTypeOK ==
  /\ now_song \in DOMAIN Songs \union {None} /\ fed \in DOMAIN Songs \union {None}
  /\ state \in {"stop", "play", "pause"}
  /\ slot \in 0 .. Len(multis) /\ decode.multi \in 0 .. Len(multis)
  /\ decode.pos \in Nat /\ decode.count \in Nat
  /\ decode.at \in {"none", "opening", "acquiring", "loop", "read", "fade", "mix", "dop"}
  /\ engine.op \in {"free", "play", "stop"}

-----------------------------------------------------------------------------
(* DSD rates.                                                               *)
\* select_dsd_pcm_rate: the smallest supported rate that covers the device's,
\* else the largest supported one, else 88200, the second of the list.
SelectDsdPcmRate(rate, supported) ==
  LET ok     == {r \in ToSet(DsdRates) : r \in supported}
      covers == {r \in ok : r >= rate}
  IN  CASE covers # {} -> Min(covers)
        [] covers = {} /\ ok # {} -> Max(ok)
        [] OTHER       -> DsdRates[2]

\* The rate a song is decoded at: DSD is converted to PCM.
RateOf(s) == IF Songs[s].dsd THEN SelectDsdPcmRate(DeviceRate, Supported)
             ELSE Songs[s].rate

\* OutputKey.  Without outputs the thread plays to a null output.
Key(s, outs) == [rate |-> RateOf(s), signature |-> IF outs = {} THEN {"null"} ELSE outs]

-----------------------------------------------------------------------------
(* Engine calls.  One at a time: they need the engine's guard.              *)
Calling == engine = Free /\ calls < MaxCalls /\ calls' = calls + 1

\* play and stop set the flag, close the command channel and join the thread.
BeginPlay(s, r) ==
  /\ Calling
  /\ engine' = [op |-> "play", song |-> s, range |-> r]
  /\ stopping' = TRUE /\ connected' = FALSE
  /\ UNCHANGED <<now_song, fed, state, seeks, outputs, slot, multis, decode, honest>>

BeginStop ==
  /\ Calling
  /\ engine' = [Free EXCEPT !.op = "stop"]
  /\ stopping' = TRUE /\ connected' = FALSE
  /\ UNCHANGED <<now_song, fed, state, seeks, outputs, slot, multis, decode, honest>>

\* stop_internal after the join, then what play or stop adds: a new thread, which
\* keeps the cached output, or a cleared cache.
Joined ==
  /\ engine # Free /\ decode.at = "none"
  /\ state' = "stop" /\ fed' = None /\ seeks' = <<>>
  /\ engine' = Free
  /\ honest' = TRUE
  /\ IF engine.op = "play"
     THEN /\ now_song' = engine.song
          /\ stopping' = FALSE /\ connected' = TRUE
          /\ decode' = [NoDecode EXCEPT !.at = "opening", !.song = engine.song,
                                        !.limit = engine.range, !.outs = outputs,
                                        !.ranged = engine.range # None]
          /\ UNCHANGED slot
     ELSE /\ now_song' = None
          /\ slot' = 0
          /\ UNCHANGED <<stopping, connected, decode>>
  /\ UNCHANGED <<outputs, multis, calls>>

\* pause and set_pause: nothing while stopped.
SetPause ==
  /\ Calling /\ state # "stop"
  /\ state' = IF state = "play" THEN "pause" ELSE "play"
  /\ UNCHANGED <<now_song, fed, stopping, seeks, connected, outputs, slot, multis,
                 decode, engine, honest>>

\* seek: an error without a thread to hear it.
Seek(p) ==
  /\ Calling /\ connected /\ decode.at # "none" /\ Len(seeks) < MaxSeeks
  /\ seeks' = Append(seeks, p)
  /\ UNCHANGED <<now_song, fed, state, stopping, connected, outputs, slot, multis,
                 decode, engine, honest>>

SetNextSong(s) ==
  /\ Calling /\ fed # s
  /\ fed' = s
  /\ UNCHANGED <<now_song, state, stopping, seeks, connected, outputs, slot, multis,
                 decode, engine, honest>>

SetOutputs(outs) ==
  /\ Calling /\ outputs # outs
  /\ outputs' = outs
  /\ UNCHANGED <<now_song, fed, state, stopping, seeks, connected, slot, multis,
                 decode, engine, honest>>

EngineCall ==
  \/ \E s \in DOMAIN Songs : \E r \in Ranges \union {None} : BeginPlay(s, r)
  \/ BeginStop \/ Joined \/ SetPause
  \/ \E p \in SeekTo : Seek(p)
  \/ \E s \in DOMAIN Songs \union {None} : SetNextSong(s)
  \/ \E outs \in OutputSets : SetOutputs(outs)

-----------------------------------------------------------------------------
(* The thread: startup.                                                     *)
calling == <<stopping, connected, outputs, engine, calls>>

\* The thread returns; its handle on the MultiOutput goes with it.
End == decode' = NoDecode

\* Native DSD: the cache is emptied so that DoP can open the device.
Open ==
  /\ decode.at = "opening"
  /\ \/ Faults /\ End /\ UNCHANGED <<state, slot>>
     \/ /\ ~(Songs[decode.song].dsd /\ DopEnabled)
        /\ decode' = [decode EXCEPT !.at = "acquiring"]
        /\ UNCHANGED <<state, slot>>
     \/ /\ Songs[decode.song].dsd /\ DopEnabled
        /\ slot' = 0
        /\ \/ decode' = [decode EXCEPT !.at = "dop"] /\ state' = "play"
           \/ decode' = [decode EXCEPT !.at = "acquiring"] /\ UNCHANGED state
  /\ UNCHANGED <<calling, now_song, fed, seeks, multis, honest>>

\* Playing on multi m: the range's start is sought, its span becomes a limit.
Started(m) ==
  LET r == decode.limit
  IN  /\ state' = "play"
      /\ decode' = [decode EXCEPT !.at = "loop", !.multi = m,
                                  !.pos = IF r = None THEN 0 ELSE r.start,
                                  !.limit = IF r = None \/ r.end <= r.start THEN None
                                            ELSE r.end - r.start]

\* Mutant: the key leaves the enabled outputs out.
AcquireByFormat ==
  LET key == Key(decode.song, decode.outs)
      hit == slot # 0 /\ multis[slot].key.rate = key.rate
  IN  /\ decode.at = "acquiring"
      /\ \/ hit /\ Started(slot) /\ UNCHANGED <<slot, multis>>
         \/ /\ ~hit
            /\ multis' = Append(multis, [key |-> key, active |-> TRUE, broken |-> FALSE])
            /\ slot' = Len(multis) + 1
            /\ Started(slot')
      /\ UNCHANGED <<calling, now_song, fed, seeks, honest>>

\* OutputSlot::acquire.  A miss opens the new output first and then replaces the
\* cached one; a failed build leaves the cache as it was.
Acquire ==
  LET key == Key(decode.song, decode.outs)
      hit == slot # 0 /\ multis[slot].key = key
  IN  /\ decode.at = "acquiring"
      /\ \/ hit /\ Started(slot) /\ UNCHANGED <<slot, multis>>
         \/ /\ ~hit
            /\ multis' = Append(multis, [key |-> key, active |-> TRUE, broken |-> FALSE])
            /\ slot' = Len(multis) + 1
            /\ Started(slot')
         \/ ~hit /\ Faults /\ End /\ UNCHANGED <<state, slot, multis>>
      /\ UNCHANGED <<calling, now_song, fed, seeks, honest>>

-----------------------------------------------------------------------------
(* The thread: the loops.                                                   *)
Left(s, pos) == IF pos < Songs[s].length THEN Songs[s].length - pos ELSE 0
Read(s, pos) == Min({Buffer, Left(s, pos)})

\* pause and resume of the MultiOutput, sent once; an unpaused thread goes on to at.
FollowPause(thread, at) ==
  IF state = "pause"
  THEN /\ decode' = [thread EXCEPT !.paused = TRUE]
       /\ multis' = [multis EXCEPT ![thread.multi].active = @ /\ thread.paused]
  ELSE /\ decode' = [thread EXCEPT !.paused = FALSE, !.at = at]
       /\ multis' = [multis EXCEPT ![thread.multi].active = @ \/ thread.paused]

\* Mutant: the counter is left at the old position.
SoughtUncounted(thread, p, ok) == [thread EXCEPT !.pos = p]

\* apply_seek_result: a failed seek leaves the counter, and the stream anywhere.
Sought(thread, p, ok) ==
  [thread EXCEPT !.pos = p, !.count = IF ok THEN p ELSE @, !.blends = IF ok THEN 0 ELSE @]

SeekOutcome(ok) == ok \in (IF Faults THEN BOOLEAN ELSE {TRUE})

\* The head of 'buf: the stop flag, one command, the pause state.
LoopTop ==
  /\ decode.at = "loop"
  /\ \/ stopping /\ End /\ UNCHANGED <<seeks, multis, honest>>
     \/ /\ ~stopping /\ seeks = <<>>
        /\ FollowPause(decode, "fade")
        /\ UNCHANGED <<seeks, honest>>
     \/ /\ ~stopping /\ seeks # <<>>
        /\ \E ok \in BOOLEAN :
             /\ SeekOutcome(ok)
             /\ FollowPause(Sought(decode, Head(seeks), ok), "fade")
             /\ honest' = (honest /\ ok)
        /\ seeks' = Tail(seeks)
  /\ UNCHANGED <<calling, now_song, fed, state, slot>>

\* Mutant: the format is not compared.
CompatibleAny(s) == s # None /\ ~Songs[s].dsd

\* A next song joins in the thread only as PCM of the format that is playing.
Compatible(s) == s # None /\ ~Songs[s].dsd /\ Songs[s].rate = RateOf(decode.song)

\* Mutant: the window opens a buffer early for every second of overlap.
FadeDueEarly == Crossfade > 0 /\ decode.count + Crossfade + Crossfade >= Songs[decode.song].length

FadeDue == Crossfade > 0 /\ decode.count + Crossfade >= Songs[decode.song].length

\* The crossfade look-ahead: the fed song is taken, fit or not.
Lookahead ==
  /\ decode.at = "fade"
  /\ LET taken == FadeDue /\ fed # None
     IN  /\ fed' = IF taken THEN None ELSE fed
         /\ \/ /\ taken /\ Compatible(fed)
               /\ \E w \in Windows :
                    decode' = [decode EXCEPT !.at = "mix", !.next = fed, !.next_pos = 0,
                                             !.window = w]
            \/ /\ ~taken \/ ~Compatible(fed) \/ Faults
               /\ decode' = [decode EXCEPT !.at = "read"]
  /\ UNCHANGED <<calling, now_song, state, seeks, slot, multis, honest>>

\* The blend is given up; the incoming song is dropped.
Abandoned(thread) == [thread EXCEPT !.at = "loop", !.next = None, !.next_pos = 0]

\* A write reaches the primary, or finds it has failed.
WriteFails == Faults \/ multis[decode.multi].broken
Broken     == multis' = [multis EXCEPT ![decode.multi].broken = TRUE]
Writes     == ~multis[decode.multi].broken /\ UNCHANGED multis

\* Mutant: the new song's position starts over when the blend ends.
AdvancedFromZero(s, pos) ==
  /\ now_song' = s
  /\ decode' = [decode EXCEPT !.at = "loop", !.song = s, !.pos = pos, !.count = 0,
                              !.next = None, !.next_pos = 0, !.ranged = FALSE, !.blends = 0]

\* The next song becomes the current one and AdvancedToNext is emitted.
Advanced(s, pos) ==
  /\ now_song' = s
  /\ decode' = [decode EXCEPT !.at = "loop", !.song = s, !.pos = pos, !.count = pos,
                              !.next = None, !.next_pos = 0, !.ranged = FALSE, !.blends = 0]

\* The head of 'cf: stop, pause, then a seek, which ends the blend.
MixTop ==
  /\ decode.at = "mix"
  /\ \/ stopping /\ End /\ UNCHANGED <<seeks, multis, honest>>
     \/ /\ ~stopping /\ state = "pause"
        /\ FollowPause(decode, "mix")
        /\ UNCHANGED <<seeks, honest>>
     \/ /\ ~stopping /\ state # "pause" /\ seeks # <<>>
        /\ \E ok \in BOOLEAN :
             /\ SeekOutcome(ok)
             /\ FollowPause(Abandoned(Sought(decode, Head(seeks), ok)), "loop")
             /\ honest' = (honest /\ ok)
        /\ seeks' = Tail(seeks)
     \/ /\ ~stopping /\ state # "pause" /\ seeks = <<>> /\ decode.paused
        /\ FollowPause(decode, "mix")
        /\ UNCHANGED <<seeks, honest>>
  /\ UNCHANGED <<calling, now_song, fed, state, slot>>

\* The body of 'cf, once the head has found nothing to do.
Mix ==
  LET n == Read(decode.song, decode.pos)
      k == Min({n, Left(decode.next, decode.next_pos)})
  IN
  /\ decode.at = "mix" /\ ~stopping /\ state # "pause" /\ seeks = <<>> /\ ~decode.paused
  /\ IF decode.next_pos >= decode.window \/ n = 0
     THEN Advanced(decode.next, decode.next_pos) /\ UNCHANGED <<multis, honest>>
     ELSE
       \* the incoming song ends: the outgoing one goes on alone
       \/ /\ k = 0 /\ Writes
          /\ decode' = [Abandoned(decode) EXCEPT !.pos = @ + n, !.count = @ + n,
                                                 !.blends = @ + 1]
          /\ UNCHANGED <<now_song, honest>>
       \* what the incoming song cannot match of the outgoing buffer is lost
       \/ /\ k > 0 /\ Writes
          /\ decode' = [decode EXCEPT !.pos = @ + n, !.count = @ + k, !.next_pos = @ + k]
          /\ UNCHANGED <<now_song, honest>>
       \/ WriteFails /\ Broken /\ End /\ UNCHANGED <<now_song, honest>>
  /\ UNCHANGED <<calling, fed, state, seeks, slot>>

\* Normal decoding: the end of the file takes the fed song, fit or not, or ends
\* the song; a range is cut at its limit.
ReadWrite ==
  LET n   == Read(decode.song, decode.pos)
      cut == decode.limit # None /\ decode.count + n >= decode.limit
      m   == IF cut THEN Max({0, decode.limit - decode.count}) ELSE n
  IN
  /\ decode.at = "read"
  /\ IF n = 0
     THEN /\ fed' = None
          /\ \/ fed # None /\ Compatible(fed) /\ Advanced(fed, 0)
             \/ /\ fed = None \/ ~Compatible(fed) \/ Faults
                /\ End /\ UNCHANGED now_song
          /\ UNCHANGED <<multis, honest>>
     ELSE /\ \/ /\ Writes
                /\ decode' = IF cut THEN NoDecode
                             ELSE [decode EXCEPT !.at = "loop", !.pos = @ + n, !.count = @ + m]
             \/ WriteFails /\ Broken /\ End
          /\ UNCHANGED <<fed, now_song, honest>>
  /\ UNCHANGED <<calling, state, seeks, slot>>

\* run_dsd_dop, one round.  A write the device drops is not counted; pausing or
\* writing to it may fail and ends the thread.
DopRound ==
  /\ decode.at = "dop"
  /\ \/ (stopping \/ Faults) /\ End /\ UNCHANGED <<seeks, honest>>
     \/ /\ ~stopping
        /\ seeks' = IF seeks = <<>> THEN seeks ELSE Tail(seeks)
        /\ \E ok \in BOOLEAN, written \in BOOLEAN :
             LET d == IF seeks = <<>> THEN decode ELSE Sought(decode, Head(seeks), ok)
                 n == Read(d.song, d.pos)
             IN  /\ SeekOutcome(ok) /\ (written \/ Faults)
                 /\ honest' = (honest /\ (ok \/ seeks = <<>>))
                 /\ decode' = CASE state = "pause" -> [d EXCEPT !.paused = TRUE]
                                [] state # "pause" /\ n = 0 -> NoDecode
                                [] OTHER -> [d EXCEPT !.paused = FALSE, !.pos = @ + n,
                                                      !.count = IF written THEN @ + n ELSE @]
  /\ UNCHANGED <<calling, now_song, fed, state, slot, multis>>

ThreadStep == Open \/ Acquire \/ LoopTop \/ Lookahead \/ MixTop \/ Mix \/ ReadWrite \/ DopRound

ThreadNext == EngineCall \/ ThreadStep
ThreadSpec == ThreadInit /\ [][ThreadNext]_threadvars

-----------------------------------------------------------------------------
\* The most that blends drop of a song: each less than a buffer.
Dropped(blends) == blends * (Buffer - 1)

\* The position clients are told is the one that is heard: through pauses, seeks,
\* blends and in-thread advances the counter is the decoder's position, but for what
\* the end of an incoming song drops of the outgoing one: less than a buffer for each
\* blend that was given up for it.  (Of a song played from a range the code counts
\* from the range's start until a seek and from the file's start after it.)
PositionTrue ==
  decode.at \in {"loop", "fade", "read", "mix"} /\ honest /\ ~decode.ranged =>
    LET blends == decode.blends + (IF decode.at = "mix" THEN 1 ELSE 0)
    IN  /\ decode.count <= decode.pos
        /\ decode.pos - decode.count <= Dropped(blends)

\* What the decoder makes fits the output it is written to, also after an advance
\* inside the thread; and the output is the cached one, for the enabled outputs
\* the thread was started with.
DeviceMatchesSong ==
  decode.at \in {"loop", "fade", "read", "mix"} =>
    /\ decode.multi = slot
    /\ multis[decode.multi].key = Key(decode.song, decode.outs)
    /\ decode.at = "mix" => RateOf(decode.next) = RateOf(decode.song)

\* A song is left for the next one inside the thread only within the crossfade
\* of its end, wherever it was sought to.
AdvanceNearEnd ==
  [][ decode.at # "none" /\ decode'.at # "none" /\ decode'.song # decode.song
        /\ honest /\ ~decode.ranged
      => decode.pos + Crossfade >= Songs[decode.song].length ]_threadvars

\* multi_output.rs says of active that it is false while paused or stopping: a
\* thread that is not paused writes to outputs that play what they are given.
AudibleWhilePlaying ==
  decode.at = "read" /\ ~decode.paused /\ state = "play" => multis[decode.multi].active
=============================================================================
