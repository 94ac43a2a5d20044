------------------------------- MODULE Playback -------------------------------
(***************************************************************************)
(* Playback: the playback commands (rmpd-protocol/src/commands), the queue *)
(* playback manager (queue_playback.rs) and the engine with its decode     *)
(* thread (rmpd-player/src/engine.rs), over the shared status and queue.   *)
(*                                                                         *)
(* A process is a connection or the manager.  A step is what it does under *)
(* one lock; the engine's write guard, which play, next, previous, playid, *)
(* stop and the manager hold over several steps, is the variable owner.    *)
(* The thread talks to the manager by events only; inbox is the backlog of *)
(* the manager's receiver, less the events the manager ignores.            *)
(*                                                                         *)
(* Not here: seeking and crossfade, volume and replay gain, the outputs.   *)
(***************************************************************************)
EXTENDS Integers, FiniteSets, SequencesExt

CONSTANTS
  Clients, Manager,  \* the processes
  Nobody,            \* the engine's write guard is free
  None,              \* Option::None
  Restored,          \* ids of the queue at startup, in order
  Ranged,            \* ids of the items restricted to a playback range
  Foreign,           \* ids of the songs whose format the open output cannot take
  Workloads,         \* [requests, options, failures]: the commands each
                     \* connection sends; repeat, random, single and consume at
                     \* startup; whether a URI, a decoder or an output may fail
  Lasting,           \* whether a song outlasts the write of its status
  MaxCommands        \* bound: commands sent

Procs == Clients \union {Manager}

Modes == {"off", "on", "oneshot"}

\* Commands, of those that are modelled.
Commands ==
  [op : {"playat", "delete"}, pos : Nat] \union [op : {"playid"}, id : Nat]
    \union [op : {"resume", "next", "previous", "stop", "clear"}]
    \union [op : {"pause"}, to : {"toggle", "pause", "play"}]
    \union [op : {"set"}, option : {"repeat", "random"}, value : BOOLEAN]
    \union [op : {"set"}, option : {"single", "consume"}, value : Modes]

ASSUME PlaybackConstants ==
  /\ Manager \notin Clients /\ Nobody \notin Procs /\ None \notin Nat
  /\ Restored \in Seq(Nat) /\ MaxCommands \in Nat
  /\ \A w \in Workloads :
       /\ w.requests \in [Clients -> SUBSET Commands] /\ w.failures \in BOOLEAN
       /\ w.options \in [repeat : BOOLEAN, random : BOOLEAN, single : Modes, consume : Modes]

VARIABLES
  workload,   \* fixed in the initial state
  queue,      \* AppState.queue: the ids, in order
  status,     \* AppState.status
  owner,      \* who holds the engine's write guard
  song,       \* engine.current_song
  next_song,  \* engine.next_song, the look-ahead
  atomic,     \* atomic_state
  stop_flag,  \* engine.stop_flag
  thread,     \* the playback thread; "none" once it has returned
  inbox,      \* events the manager has yet to receive
  pc, cmd, loc,
  sent        \* commands sent so far

player == <<song, next_song, atomic, stop_flag, thread>>
engine == <<owner, player>>
vars   == <<workload, queue, status, engine, inbox, pc, cmd, loc, sent>>

NoThread == [st |-> "none", id |-> None, limited |-> FALSE]
Locals   == [pos |-> None, to |-> None, id |-> None, limited |-> FALSE, opts |-> None]
Live     == thread.st # "none"

OptionsOf(s) == [repeat |-> s.repeat, random |-> s.random,
                 single |-> s.single, consume |-> s.consume]

Init ==
  /\ workload \in Workloads
  /\ queue = Restored
  /\ status = LET o == workload.options
              IN  [state |-> "stop", current |-> None, next |-> None,
                   repeat |-> o.repeat, random |-> o.random,
                   single |-> o.single, consume |-> o.consume]
  /\ owner = Nobody /\ song = None /\ next_song = None
  /\ atomic = "stop" /\ stop_flag = FALSE /\ thread = NoThread
  /\ inbox = <<>>
  /\ pc = [p \in Procs |-> "idle"]
  /\ cmd = [p \in Procs |-> [op |-> "none"]]
  /\ loc = [p \in Procs |-> Locals]
  /\ sent = 0

-----------------------------------------------------------------------------
HasPos(p) == p < Len(queue)
IdAt(p)   == queue[p + 1]
PosOf(id) == (CHOOSE i \in DOMAIN queue : queue[i] = id) - 1

At(p, label)   == pc[p] = label
Goto(p, label) == pc' = [pc EXCEPT ![p] = label]
Emit(e)        == inbox' = Append(inbox, e)

\* play without a position reads the engine and the status under the queue
\* lock; a writer of the queue waits for it.
QueueFree == \A c \in Clients : pc[c] # "position"

\* prepare_song_for_playback: a source may fail to resolve the song.
Prepared(p) == \E label \in IF workload.failures THEN {"play", "idle"} ELSE {"play"} :
                 Goto(p, label)

Chosen(p, pos, id, limited) ==
  loc' = [loc EXCEPT ![p].pos = pos, ![p].id = id, ![p].limited = limited]

ChosenAt(p, pos) == Chosen(p, pos, IdAt(pos), IdAt(pos) \in Ranged)

\* update_next_song.
NextOf(pos) == IF HasPos(pos + 1) THEN [position |-> pos + 1, id |-> IdAt(pos + 1)]
               ELSE None

-----------------------------------------------------------------------------
(* engine.play and engine.stop: both hold the guard while they join the    *)
(* old thread, which runs on until it sees the flag.                       *)
TakeGuard(p) ==
  /\ pc[p] \in {"play", "stop"} /\ owner = Nobody
  /\ owner' = p /\ stop_flag' = TRUE
  /\ Goto(p, IF At(p, "play") THEN "join" ELSE "joinstop")
  /\ UNCHANGED <<workload, queue, status, song, next_song, atomic, thread,
                 inbox, cmd, loc, sent>>

\* Mutant: gives the guard up before status is written.
PlayUnguarded(p) ==
  /\ At(p, "join") /\ ~Live
  /\ song' = loc[p].id /\ next_song' = None
  /\ atomic' = "stop" /\ stop_flag' = FALSE
  /\ thread' = [st |-> "opening", id |-> loc[p].id, limited |-> loc[p].limited]
  /\ owner' = Nobody
  /\ Goto(p, "record")
  /\ UNCHANGED <<workload, queue, status, inbox, cmd, loc, sent>>

JoinAndPlay(p) ==
  /\ At(p, "join") /\ ~Live
  /\ song' = loc[p].id /\ next_song' = None
  /\ atomic' = "stop" /\ stop_flag' = FALSE
  /\ thread' = [st |-> "opening", id |-> loc[p].id, limited |-> loc[p].limited]
  /\ Goto(p, "record")
  /\ UNCHANGED <<workload, queue, status, owner, inbox, cmd, loc, sent>>

\* Mutant: does not join the thread.
StopUnjoined(p) ==
  /\ At(p, "joinstop")
  /\ song' = None /\ next_song' = None /\ atomic' = "stop"
  /\ Emit("changed")
  /\ owner' = IF cmd[p].op = "stop" THEN p ELSE Nobody
  /\ Goto(p, IF cmd[p].op = "clear" THEN "forget" ELSE "stopped")
  /\ UNCHANGED <<workload, queue, status, stop_flag, thread, cmd, loc, sent>>

\* Only the stop command goes on under the guard.
JoinAndStop(p) ==
  /\ At(p, "joinstop") /\ ~Live
  /\ song' = None /\ next_song' = None /\ atomic' = "stop"
  /\ Emit("changed")
  /\ owner' = IF cmd[p].op = "stop" THEN p ELSE Nobody
  /\ Goto(p, IF cmd[p].op = "clear" THEN "forget" ELSE "stopped")
  /\ UNCHANGED <<workload, queue, status, stop_flag, thread, cmd, loc, sent>>

ReportStop(p) ==
  /\ At(p, "stopped")
  /\ status' = [status EXCEPT !.state = "stop"]
  /\ Goto(p, IF p = Manager /\ loc[p].to # None THEN "idle" ELSE "forget")
  /\ UNCHANGED <<workload, queue, engine, inbox, cmd, loc, sent>>

ForgetCurrent(p) ==
  /\ At(p, "forget")
  /\ status' = [status EXCEPT !.current = None,
                              !.next = IF p = Manager THEN @ ELSE None]
  /\ owner' = IF owner = p THEN Nobody ELSE owner
  /\ Goto(p, "idle")
  /\ UNCHANGED <<workload, queue, player, inbox, cmd, loc, sent>>

-----------------------------------------------------------------------------
(* Commands.                                                               *)
Request(c) ==
  /\ At(c, "idle") /\ sent < MaxCommands
  /\ \E k \in workload.requests[c] : cmd' = [cmd EXCEPT ![c] = k] /\ Goto(c, k.op)
  /\ loc' = [loc EXCEPT ![c] = Locals]
  /\ sent' = sent + 1
  /\ UNCHANGED <<workload, queue, status, engine, inbox>>

\* play with a position, playid with an id.
FindSong(c) ==
  /\ pc[c] \in {"playat", "playid"}
  /\ LET k     == cmd[c]
         found == IF k.op = "playat" THEN HasPos(k.pos) ELSE k.id \in Range(queue)
     IN  IF found
         THEN ChosenAt(c, IF k.op = "playat" THEN k.pos ELSE PosOf(k.id)) /\ Prepared(c)
         ELSE Goto(c, "idle") /\ UNCHANGED loc
  /\ UNCHANGED <<workload, queue, status, engine, inbox, cmd, sent>>

\* play without a position: the engine's song, or the first of the queue.
FindCurrentSong(c) ==
  /\ At(c, "resume") /\ owner = Nobody
  /\ \/ song # None /\ Chosen(c, None, song, FALSE) /\ Goto(c, "position")
     \/ song = None /\ queue # <<>> /\ ChosenAt(c, 0) /\ Prepared(c)
     \/ song = None /\ queue = <<>> /\ Goto(c, "idle") /\ UNCHANGED loc
  /\ UNCHANGED <<workload, queue, status, engine, inbox, cmd, sent>>

\* The position is the one in status and the range is that of the item there.
FindCurrentPosition(c) ==
  /\ At(c, "position")
  /\ LET cur == status.current
     IN  loc' = IF cur = None THEN loc
                ELSE [loc EXCEPT ![c].pos = cur.position,
                                 ![c].to  = cur.id,
                                 ![c].limited = HasPos(cur.position)
                                                /\ IdAt(cur.position) \in Ranged]
  /\ Prepared(c)
  /\ UNCHANGED <<workload, queue, status, engine, inbox, cmd, sent>>

\* next and previous, under the queue and status locks.
FindNeighbour(c) ==
  /\ pc[c] \in {"next", "previous"}
  /\ LET cur == status.current
         pos == IF cur = None THEN 0
                ELSE IF At(c, "next") THEN cur.position + 1
                ELSE IF cur.position > 0 THEN cur.position - 1 ELSE 0
     IN  IF cur # None /\ HasPos(pos) THEN ChosenAt(c, pos) /\ Prepared(c)
         ELSE Goto(c, "idle") /\ UNCHANGED loc
  /\ UNCHANGED <<workload, queue, status, engine, inbox, cmd, sent>>

\* The song is on record, under the guard: next and previous leave the state
\* and tell nobody.
RecordPlay(c) ==
  /\ c \in Clients /\ At(c, "record")
  /\ LET l     == loc[c]
         quiet == cmd[c].op \in {"next", "previous"}
         id    == IF l.to # None THEN l.to ELSE l.id
     IN  /\ status' = [status EXCEPT
                         !.state   = IF quiet THEN @ ELSE "play",
                         !.current = IF l.pos = None THEN @
                                     ELSE [position |-> l.pos, id |-> id],
                         !.next    = IF l.pos = None THEN @ ELSE NextOf(l.pos)]
         /\ owner' = IF quiet THEN Nobody ELSE owner
         /\ Goto(c, IF quiet THEN "idle" ELSE "tell")
  /\ UNCHANGED <<workload, queue, player, inbox, cmd, loc, sent>>

\* Mutant: no SongChanged.
TellNobody(c) ==
  /\ c \in Clients /\ At(c, "tell")
  /\ owner' = Nobody
  /\ Goto(c, "idle")
  /\ UNCHANGED <<workload, queue, status, player, inbox,
                 cmd, loc, sent>>

TellChanged(c) ==
  /\ c \in Clients /\ At(c, "tell")
  /\ Emit("changed")
  /\ owner' = Nobody
  /\ Goto(c, "idle")
  /\ UNCHANGED <<workload, queue, status, player, cmd, loc, sent>>

\* pause: the decision is taken on the atomic, before the guard.
DecidePause(c) ==
  /\ At(c, "pause")
  /\ LET want == IF cmd[c].to = "toggle" THEN atomic = "play" ELSE cmd[c].to = "pause"
     IN  Goto(c, IF want = (atomic = "pause") THEN "idle" ELSE "setpause")
  /\ UNCHANGED <<workload, queue, status, engine, inbox, cmd, loc, sent>>

SetPause(c) ==
  /\ At(c, "setpause") /\ owner = Nobody
  /\ atomic' = CASE atomic = "stop"        -> "stop"
                 [] atomic # "stop" /\ cmd[c].to # "toggle" -> cmd[c].to
                 [] OTHER -> IF atomic = "play" THEN "pause" ELSE "play"
  /\ Goto(c, "load")
  /\ UNCHANGED <<workload, queue, status, owner, song, next_song, stop_flag, thread,
                 inbox, cmd, loc, sent>>

LoadState(c) ==
  /\ At(c, "load")
  /\ loc' = [loc EXCEPT ![c].to = atomic]
  /\ Goto(c, "sync")
  /\ UNCHANGED <<workload, queue, status, engine, inbox, cmd, sent>>

SyncState(c) ==
  /\ At(c, "sync")
  /\ status' = [status EXCEPT !.state = loc[c].to]
  /\ Goto(c, "idle")
  /\ UNCHANGED <<workload, queue, engine, inbox, cmd, loc, sent>>

SetOption(c) ==
  /\ At(c, "set")
  /\ status' = [status EXCEPT ![cmd[c].option] = cmd[c].value]
  /\ Goto(c, "idle")
  /\ UNCHANGED <<workload, queue, engine, inbox, cmd, loc, sent>>

\* delete of one position; clear goes on to stop the engine.
DeleteSong(c) ==
  /\ At(c, "delete") /\ QueueFree
  /\ queue' = IF HasPos(cmd[c].pos) THEN RemoveAt(queue, cmd[c].pos + 1) ELSE queue
  /\ Goto(c, "idle")
  /\ UNCHANGED <<workload, status, engine, inbox, cmd, loc, sent>>

ClearQueue(c) ==
  /\ At(c, "clear") /\ QueueFree
  /\ queue' = <<>>
  /\ Goto(c, "stop")
  /\ UNCHANGED <<workload, status, engine, inbox, cmd, loc, sent>>

-----------------------------------------------------------------------------
(* The manager: one event at a time.                                       *)
Receive ==
  /\ At(Manager, "idle") /\ inbox # <<>>
  /\ inbox' = Tail(inbox)
  /\ Goto(Manager, Head(inbox))
  /\ loc' = [loc EXCEPT ![Manager] = Locals]
  /\ UNCHANGED <<workload, queue, status, engine, cmd, sent>>

\* PositionChanged copies the atomic into status.
SyncPosition ==
  /\ At(Manager, "position")
  /\ status' = [status EXCEPT !.state = atomic]
  /\ Goto(Manager, "idle")
  /\ UNCHANGED <<workload, queue, engine, inbox, cmd, loc, sent>>

\* handle_song_finished: the positions it may go to; None is to stop.
Successors(pos, o) ==
  IF o.random THEN 0 .. Len(queue) - 1
  ELSE IF HasPos(pos + 1) THEN {pos + 1} ELSE {IF o.repeat THEN 0 ELSE None}

\* status and queue are read together.
SongFinished ==
  /\ At(Manager, "finished")
  /\ LET o   == OptionsOf(status)
         cur == status.current
         l   == [loc[Manager] EXCEPT !.pos = cur.position, !.opts = o]
     IN  IF cur = None \/ ((o.random \/ o.repeat) /\ queue = <<>>)
         THEN Goto(Manager, "idle") /\ UNCHANGED loc
         ELSE \E to \in Successors(cur.position, o) :
                IF to = None
                THEN loc' = [loc EXCEPT ![Manager] = l] /\ Goto(Manager, "stop")
                ELSE /\ loc' = [loc EXCEPT ![Manager] =
                                  [l EXCEPT !.to = to, !.id = IdAt(to),
                                            !.limited = IdAt(to) \in Ranged]]
                     /\ IF o.consume = "on" THEN Goto(Manager, "consume")
                        ELSE Prepared(Manager)
  /\ UNCHANGED <<workload, queue, status, engine, inbox, cmd, sent>>

\* The finished song, or what is at its position by now, leaves the queue.
Consume ==
  /\ pc[Manager] \in {"consume", "consumeadvanced"} /\ QueueFree
  /\ queue' = IF HasPos(loc[Manager].pos) THEN RemoveAt(queue, loc[Manager].pos + 1)
              ELSE queue
  /\ IF At(Manager, "consume") THEN Prepared(Manager) ELSE Goto(Manager, "advance")
  /\ UNCHANGED <<workload, status, engine, inbox, cmd, loc, sent>>

\* The bookkeeping of an automatic advance, on the options read earlier.
Advanced(s) ==
  LET l == loc[Manager]
  IN  [s EXCEPT
         !.state   = "play",
         !.current = [position |-> IF l.opts.consume = "on" /\ l.to > l.pos
                                   THEN l.to - 1 ELSE l.to,
                      id |-> l.id],
         !.single  = IF l.opts.single = "oneshot" THEN "off" ELSE @,
         !.consume = IF l.opts.consume = "oneshot" THEN "off" ELSE @]

RecordAdvance ==
  /\ pc[Manager] \in {"record", "advance"}
  /\ status' = Advanced(status)
  /\ Goto(Manager, IF At(Manager, "record") THEN "tell" ELSE "telladvanced")
  /\ UNCHANGED <<workload, queue, engine, inbox, cmd, loc, sent>>

\* Mutant: stops for oneshot as for on.
TellAdvanceAgain ==
  /\ pc[Manager] \in {"tell", "telladvanced"}
  /\ Emit("changed")
  /\ LET again == At(Manager, "tell") /\ loc[Manager].opts.single # "off"
     IN  /\ owner' = IF At(Manager, "tell") /\ ~again THEN Nobody ELSE owner
         /\ Goto(Manager, IF again THEN "stop"
                          ELSE IF At(Manager, "tell") THEN "idle" ELSE "changed")
  /\ UNCHANGED <<workload, queue, status, player, cmd, loc, sent>>

\* With single on, handle_song_finished asks for the engine again while it
\* still holds the guard.
TellAdvance ==
  /\ pc[Manager] \in {"tell", "telladvanced"}
  /\ Emit("changed")
  /\ LET again == At(Manager, "tell") /\ loc[Manager].opts.single = "on"
     IN  /\ owner' = IF At(Manager, "tell") /\ ~again THEN Nobody ELSE owner
         /\ Goto(Manager, IF again THEN "stop"
                          ELSE IF At(Manager, "tell") THEN "idle" ELSE "changed")
  /\ UNCHANGED <<workload, queue, status, player, cmd, loc, sent>>

\* lookahead_next_pos.
Lookahead(pos, o) ==
  IF o.random \/ o.single # "off" \/ queue = <<>> THEN None
  ELSE IF HasPos(pos + 1) THEN pos + 1
  ELSE IF o.repeat THEN 0 ELSE None

\* handle_advanced reads status, the length and the item under three locks;
\* whatever comes of it, the look-ahead is fed next.
ReadAdvanced ==
  /\ At(Manager, "advanced")
  /\ IF status.current = None THEN Goto(Manager, "changed") /\ UNCHANGED loc
     ELSE /\ loc' = [loc EXCEPT ![Manager].pos = status.current.position,
                                ![Manager].opts = OptionsOf(status)]
          /\ Goto(Manager, "where")
  /\ UNCHANGED <<workload, queue, status, engine, inbox, cmd, sent>>

LookWhere ==
  /\ At(Manager, "where")
  /\ LET to == Lookahead(loc[Manager].pos, loc[Manager].opts)
     IN  /\ loc' = [loc EXCEPT ![Manager].to = to]
         /\ Goto(Manager, IF to = None THEN "changed" ELSE "which")
  /\ UNCHANGED <<workload, queue, status, engine, inbox, cmd, sent>>

LookWhich ==
  /\ At(Manager, "which")
  /\ LET l == loc[Manager]
     IN  IF HasPos(l.to)
         THEN /\ loc' = [loc EXCEPT ![Manager].id = IdAt(l.to)]
              /\ Goto(Manager, IF l.opts.consume = "on" THEN "consumeadvanced"
                               ELSE "advance")
         ELSE Goto(Manager, "changed") /\ UNCHANGED loc
  /\ UNCHANGED <<workload, queue, status, engine, inbox, cmd, sent>>

\* feed_next_song: status, then the queue, then the engine.
FeedFrom ==
  /\ At(Manager, "changed")
  /\ IF status.current = None
     THEN /\ loc' = [loc EXCEPT ![Manager].id = None]
          /\ Goto(Manager, "feed")
     ELSE /\ loc' = [loc EXCEPT ![Manager].pos = status.current.position,
                                ![Manager].opts = OptionsOf(status)]
          /\ Goto(Manager, "ahead")
  /\ UNCHANGED <<workload, queue, status, engine, inbox, cmd, sent>>

FeedWhich ==
  /\ At(Manager, "ahead")
  /\ LET to == Lookahead(loc[Manager].pos, loc[Manager].opts)
         ok == to # None /\ HasPos(to) /\ IdAt(to) \notin Ranged
     IN  \E id \in (IF ok THEN {IdAt(to)} ELSE {None})
                   \union (IF workload.failures THEN {None} ELSE {}) :
           loc' = [loc EXCEPT ![Manager].id = id]
  /\ Goto(Manager, "feed")
  /\ UNCHANGED <<workload, queue, status, engine, inbox, cmd, sent>>

Feed ==
  /\ At(Manager, "feed") /\ owner = Nobody
  /\ next_song' = loc[Manager].id
  /\ Goto(Manager, "idle")
  /\ UNCHANGED <<workload, queue, status, owner, song, atomic, stop_flag, thread,
                 inbox, cmd, loc, sent>>

-----------------------------------------------------------------------------
(* The playback thread.                                                    *)
ThreadStep == UNCHANGED <<workload, queue, status, owner, stop_flag,
                          pc, cmd, loc, sent>>

\* Startup done: Play is stored whatever was asked for meanwhile.
Open ==
  /\ thread.st = "opening"
  /\ atomic' = "play" /\ thread' = [thread EXCEPT !.st = "looping"]
  /\ UNCHANGED <<song, next_song, inbox>> /\ ThreadStep

\* The top of the loop: the stop flag, then pause.
SeeStop ==
  /\ thread.st = "looping" /\ stop_flag
  /\ thread' = NoThread
  /\ UNCHANGED <<song, next_song, atomic, inbox>> /\ ThreadStep

Decode ==
  /\ thread.st = "looping" /\ ~stop_flag /\ atomic # "pause"
  /\ thread' = [thread EXCEPT !.st = "decoding"]
  /\ UNCHANGED <<song, next_song, atomic, inbox>> /\ ThreadStep

\* A chunk is written; at most one position event is pending (a bound).
WriteChunk ==
  /\ thread.st = "decoding"
  /\ thread' = [thread EXCEPT !.st = "looping"]
  /\ \/ UNCHANGED inbox
     \/ (\A i \in DOMAIN inbox : inbox[i] # "position") /\ Emit("position")
  /\ UNCHANGED <<song, next_song, atomic>> /\ ThreadStep

MayEnd == Lasting => \A p \in Procs : pc[p] # "record"

\* Mutant: the end of the range goes unreported.
FinishRangeSilently ==
  /\ thread.st = "decoding" /\ MayEnd
  /\ \/ thread.limited /\ UNCHANGED <<next_song, inbox>>
     \/ /\ next_song = None \/ next_song \in Foreign
        /\ next_song' = None /\ Emit("finished")
  /\ thread' = NoThread
  /\ UNCHANGED <<song, atomic>> /\ ThreadStep

\* The end of the range, or of a stream with no usable look-ahead.
Finish ==
  /\ thread.st = "decoding" /\ MayEnd
  /\ \/ thread.limited /\ UNCHANGED next_song
     \/ (next_song = None \/ next_song \in Foreign) /\ next_song' = None
  /\ Emit("finished") /\ thread' = NoThread
  /\ UNCHANGED <<song, atomic>> /\ ThreadStep

\* The end of the stream with a look-ahead the open output can take.
Advance ==
  /\ thread.st = "decoding" /\ MayEnd
  /\ next_song # None /\ next_song \notin Foreign
  /\ song' = next_song /\ next_song' = None
  /\ thread' = [thread EXCEPT !.st = "looping", !.id = next_song]
  /\ Emit("advanced")
  /\ UNCHANGED atomic /\ ThreadStep

\* A decoder or an output fails: the thread returns and nobody is told.
Break ==
  /\ workload.failures /\ thread.st \in {"opening", "decoding"}
  /\ thread' = NoThread
  /\ UNCHANGED <<song, next_song, atomic, inbox>> /\ ThreadStep

-----------------------------------------------------------------------------
EngineCall(p) == TakeGuard(p) \/ JoinAndPlay(p) \/ JoinAndStop(p) \/ ReportStop(p)
                 \/ ForgetCurrent(p)

Command(c) ==
  \/ FindSong(c) \/ FindCurrentSong(c) \/ FindCurrentPosition(c) \/ FindNeighbour(c)
  \/ RecordPlay(c) \/ TellChanged(c) \/ DecidePause(c) \/ SetPause(c) \/ LoadState(c)
  \/ SyncState(c) \/ SetOption(c) \/ DeleteSong(c) \/ ClearQueue(c)

ManagerStep ==
  \/ Receive \/ SyncPosition \/ SongFinished \/ Consume \/ RecordAdvance \/ TellAdvance
  \/ ReadAdvanced \/ LookWhere \/ LookWhich \/ FeedFrom \/ FeedWhich \/ Feed

\* What a file that ends does; a radio stream never takes Finish or Advance.
SongEnds   == Finish \/ Advance
ThreadMove == Open \/ SeeStop \/ Decode \/ WriteChunk

Next ==
  \/ \E p \in Procs : EngineCall(p)
  \/ \E c \in Clients : Request(c) \/ Command(c)
  \/ ManagerStep
  \/ ThreadMove \/ SongEnds \/ Break

\* The runtime polls its tasks, the system runs the thread, a song ends
\* after finitely many chunks; nobody owes a command.
Fairness ==
  /\ \A p \in Procs : WF_vars(EngineCall(p))
  /\ \A c \in Clients : WF_vars(Command(c))
  /\ WF_vars(ManagerStep) /\ WF_vars(ThreadMove) /\ SF_vars(SongEnds)

Spec     == Init /\ [][Next]_vars
FairSpec == Spec /\ Fairness

-----------------------------------------------------------------------------
\* The shared state is what AppState and PlaybackEngine declare; positions on
\* record never go below 0, which as u32 would wrap.
TypeOK ==
  /\ queue \in Seq(Nat)
  /\ {status.state, atomic} \subseteq {"stop", "play", "pause"}
  /\ status.current = None \/ status.current \in [position : Nat, id : Nat]
  /\ owner \in Procs \union {Nobody}
  /\ thread.st \in {"none", "opening", "looping", "decoding"}

\* Between its engine calls the engine is either silent or on a song: with
\* no song there is no thread, nothing ahead of its start can undo that, and
\* a pause or a late start cannot make the state anything but Stop.
StoppedIsSilent ==
  (owner = Nobody /\ song = None) => ~Live /\ atomic = "stop"

\* The guard is held from engine.play to the write of status: what goes on
\* record as current is what the engine is on, whoever else played, stopped
\* or fed a look-ahead meanwhile.
RecordedIsPlaying ==
  [][\A p \in Procs :
       (At(p, "record") /\ pc'[p] # "record" /\ cmd[p].op # "resume")
       => status'.current.id = song]_vars

\* No event to come, no command under way.
Settled == /\ \A p \in Procs : At(p, "idle")
           /\ \A i \in DOMAIN inbox : inbox[i] = "position"

\* "(Re)feed look-ahead whenever the current song changes": once things
\* settle, the playing engine holds the song after the current one, or none
\* where look-ahead is off.
LookaheadFollows ==
  (Settled /\ Live /\ status.current # None)
  => LET to == Lookahead(status.current.position, OptionsOf(status))
     IN  next_song = IF to = None \/ ~HasPos(to) \/ IdAt(to) \in Ranged THEN None
                     ELSE IdAt(to)

\* As long as connections only start, stop and pause, the look-ahead follows:
\* none that a concurrent play or a late event left behind stays.
LookaheadRefed ==
  (/\ ~workload.failures
   /\ \A k \in UNION {workload.requests[d] : d \in Clients} :
        k.op \in {"playat", "playid", "resume", "pause", "stop"})
  => LookaheadFollows

\* Every command is answered and every event dealt with.
CommandsComplete == \A p \in Procs : (pc[p] # "idle") ~> (pc[p] = "idle")

\* Without repeat and random, what plays is played to the end of the queue,
\* whatever is started, skipped or deleted meanwhile, unless it is paused.
PlaysThrough == (status.current # None) ~> (status.current = None \/ atomic = "pause")
=============================================================================
