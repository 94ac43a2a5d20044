---------------------------- MODULE QueueCommands ----------------------------
(***************************************************************************)
(* The queue commands of rmpd-protocol/src/commands, run by several        *)
(* connections at once.  A handler takes the queue and status locks one    *)
(* after the other and releases each at the end of a statement, so a step  *)
(* here is what a handler does under one lock (or under the two locks of   *)
(* update_playlist_version), and what it read before may be stale.         *)
(*                                                                         *)
(* A command is a record whose field op names it.  A workload is what the  *)
(* connections may send and the queue they start from; it is chosen once.  *)
(* A client also polls: it reads the version and length from status, then  *)
(* asks plchanges since the version it has, and keeps a copy of the queue. *)
(***************************************************************************)
EXTENDS QueueOps

CONSTANTS
  Clients,     \* connections
  Workloads,   \* [requests, restored]: the commands each connection sends,
               \* the songs restored from the state file at startup
  Remote,      \* the songs whose path is a scheme:// URI
  U32,         \* number of values of a u32
  MaxChanges,  \* bound: no new command after this many changes of the queue
  MaxItems     \* bound: no new command while the queue is longer

\* Where an insertion or a move may be asked to go: a position, or so many
\* places after or before the current song.
Targets == [kind : {"abs", "after", "before"}, n : Nat]

\* The commands with their arguments.
Command ==
  [op : {"poll", "clear"}]
  \union [op : {"add"}, song : Songs, to : Targets \union {None}]
  \union [op : {"adddir", "findadd"}, songs : Seq(Songs), to : Targets \union {None}]
  \union [op : {"load"}, songs : Seq(Songs), to : Targets \union {None},
          name : Playlists, range : Ranges \union {None}]
  \union [op : {"delete", "shuffle"}, start : Nat, end : Nat]
  \union [op : {"deleteid", "playid"}, id : Nat]
  \union [op : {"move"}, start : Nat, end : Nat, to : Targets]
  \union [op : {"moveid"}, id : Nat, to : Targets]
  \union [op : {"swap"}, p1 : Nat, p2 : Nat]
  \union [op : {"swapid"}, id1 : Nat, id2 : Nat]
  \union [op : {"prio"}, prio : Priorities, ranges : Seq(Nat \X Nat)]
  \union [op : {"prioid"}, prio : Priorities, ids : Seq(Nat)]
  \union [op : {"rangeid"}, id : Nat, range : Ranges \union {None}]
  \union [op : {"tagid"}, id : Nat, tag : Tags, value : Values \union {None}]
  \union [op : {"tagid"}, id : Nat, tag : {None}, value : {None}]

ASSUME CommandConstants ==
  /\ Remote \subseteq Songs /\ None \notin Nat
  /\ \A w \in Workloads : /\ w.restored \in Seq(Songs)
                          /\ w.requests \in [Clients -> SUBSET Command]
  /\ U32 \in Nat \ {0} /\ MaxChanges \in Nat /\ MaxItems \in Nat

VARIABLES
  workload,          \* fixed in the initial state
  queue,             \* AppState.queue
  playlist_version,  \* status.playlist_version
  playlist_length,   \* status.playlist_length
  current,           \* status.current_song: None or [position, id]
  pc, cmd, loc,      \* per connection: next step, its command, its locals
  mirror,            \* per connection: the client's copy of the queue
  torn               \* history: a move broke off midway, and nothing was
                     \* published since

seen == <<mirror, torn>>
vars == <<workload, queue, playlist_version, playlist_length, current,
          pc, cmd, loc, mirror, torn>>
status == <<playlist_version, playlist_length, current>>

Inserting == {"add", "adddir", "findadd", "load"}
Locals    == [len |-> 0, start |-> 0, end |-> 0, pos |-> None, ids |-> <<>>]

Init ==
  /\ workload \in Workloads
  /\ queue = AddAll(EmptyQueue, workload.restored)
  /\ playlist_version = 0
  /\ playlist_length = Len(queue.items)
  /\ current = None
  /\ pc = [c \in Clients |-> "idle"]
  /\ cmd = [c \in Clients |-> [op |-> "none"]]
  /\ loc = [c \in Clients |-> Locals]
  /\ mirror = [c \in Clients |-> [version |-> None, items |-> <<>>]]
  /\ torn = FALSE

-----------------------------------------------------------------------------
(* Positions.  Bad stands for an error reply.                              *)
Bad == -1

\* resolve_insert_position.  The subtraction is on u32 and wraps.
InsertPosition(to, len, cur) ==
  CASE to.kind = "abs"    -> IF to.n > len THEN Bad ELSE to.n
    [] to.kind = "after"  -> IF to.n > (len - cur - 1) % U32 THEN Bad
                             ELSE cur + 1 + to.n
    [] to.kind = "before" -> IF to.n > cur THEN Bad ELSE cur - to.n

\* resolve_move_destination, on i64: cannot wrap.
MoveDestination(to, start, end, len, cur) ==
  LET count == end - start
      base  == IF cur >= end THEN cur - count ELSE cur
      dest  == IF to.kind = "after" THEN base + 1 + to.n ELSE base - to.n
  IN  IF to.kind = "abs"
      THEN IF to.n > len - count THEN Bad ELSE to.n
      ELSE IF (cur >= start /\ cur < end) \/ to.n > len - base - count \/ dest < 0
           THEN Bad ELSE dest

\* Mutant: treats a move down like a move up.
MoveRangeOneWay(q, start, end, to) ==
  LET hop(r, i) ==
        IF r.ok /\ HasPos(r.queue, start + i - 1) /\ HasPos(r.queue, to + i - 1)
        THEN [queue |-> MoveItem(r.queue, start + i - 1, to + i - 1), ok |-> TRUE]
        ELSE [queue |-> r.queue, ok |-> FALSE]
  IN  Looped([queue |-> q, ok |-> TRUE], end - start, hop)

\* move_range_in_queue: one move_item per song, stopping at the first failure.
MoveRange(q, start, end, to) ==
  LET n == end - start
      from(i)  == IF to <= start THEN start + i - 1 ELSE start
      dest(i)  == IF to <= start THEN to + i - 1 ELSE to + n - 1
      hop(r, i) ==
        IF r.ok /\ HasPos(r.queue, from(i)) /\ HasPos(r.queue, dest(i))
        THEN [queue |-> MoveItem(r.queue, from(i), dest(i)), ok |-> TRUE]
        ELSE [queue |-> r.queue, ok |-> FALSE]
  IN  Looped([queue |-> q, ok |-> TRUE], n, hop)

-----------------------------------------------------------------------------
(* Control.                                                                *)
At(c, label, ops) == pc[c] = label /\ cmd[c].op \in ops
Goto(c, label)    == pc' = [pc EXCEPT ![c] = label]
Fail(c)           == Goto(c, "idle") /\ UNCHANGED loc
Remember(c, l)    == loc' = [loc EXCEPT ![c] = l]

\* The write under the queue lock; the handler goes on to label.
Commit(c, q, label) ==
  queue' = q /\ Goto(c, label) /\ UNCHANGED <<workload, status, cmd, loc, seen>>

FirstStep(k) ==
  CASE k.op \in Inserting /\ k.to # None       -> "len"
    [] k.op = "findadd" /\ k.to = None         -> "start"
    [] k.op \in {"move", "moveid"}             -> "len"
    [] k.op \in {"rangeid", "tagid", "playid"} -> "check"
    [] k.op = "poll"                           -> "status"
    [] OTHER                                   -> "mutate"

Request(c) ==
  /\ pc[c] = "idle" /\ Len(queue.items) <= MaxItems
  /\ queue.version < Len(workload.restored) + MaxChanges
  /\ playlist_version < MaxChanges
  /\ \E k \in workload.requests[c] :
       cmd' = [cmd EXCEPT ![c] = k] /\ Goto(c, FirstStep(k))
  /\ Remember(c, Locals)
  /\ UNCHANGED <<workload, queue, status, seen>>

\* Where an insertion goes on once its position is known.
Placed(c, l, pos) ==
  IF pos = Bad THEN Fail(c)
  ELSE /\ Remember(c, [l EXCEPT !.pos = pos])
       /\ Goto(c, IF cmd[c].op = "findadd" THEN "start" ELSE "mutate")

ReadLen(c) ==
  /\ pc[c] = "len"
  /\ LET k == cmd[c]
         n == Len(queue.items)
         l == [loc[c] EXCEPT !.len = n]
     IN CASE k.op = "move" ->
               IF k.start >= k.end \/ k.end > n THEN Fail(c)
               ELSE /\ Remember(c, [l EXCEPT !.start = k.start, !.end = k.end])
                    /\ Goto(c, "current")
          [] k.op = "moveid" -> Remember(c, l) /\ Goto(c, "lookup")
          [] OTHER -> IF k.to.kind = "abs" THEN Placed(c, l, InsertPosition(k.to, n, 0))
                      ELSE Remember(c, l) /\ Goto(c, "current")
  /\ UNCHANGED <<workload, queue, status, cmd, seen>>

\* moveid reads the position under a second read lock.
LookUpId(c) ==
  /\ pc[c] = "lookup"
  /\ IF HasId(queue, cmd[c].id)
     THEN LET p == IndexOf(queue, cmd[c].id) - 1
          IN  /\ Remember(c, [loc[c] EXCEPT !.start = p, !.end = p + 1])
              /\ Goto(c, "current")
     ELSE Fail(c)
  /\ UNCHANGED <<workload, queue, status, cmd, seen>>

\* An absolute move needs no current song.
ReadCurrent(c) ==
  /\ pc[c] = "current"
  /\ LET to == cmd[c].to
         l  == loc[c]
         p  == IF current = None THEN 0 ELSE current.position
     IN  IF to.kind # "abs" /\ current = None THEN Fail(c)
         ELSE Placed(c, l, IF cmd[c].op \in Inserting
                           THEN InsertPosition(to, l.len, p)
                           ELSE MoveDestination(to, l.start, l.end, l.len, p))
  /\ UNCHANGED <<workload, queue, status, cmd, seen>>

-----------------------------------------------------------------------------
(* Commands that add songs.                                                *)

\* Mutant: trusts the position it resolved before taking the lock.
AddSongUnchecked(c) ==
  At(c, "mutate", {"add"}) /\ Commit(c, AddAt(queue, cmd[c].song, loc[c].pos), "bump")

\* add and addid of one song: add_at_checked checks under the write lock.
AddSong(c) ==
  /\ At(c, "mutate", {"add"})
  /\ LET p == loc[c].pos
     IN  IF p # None /\ p > Len(queue.items)
         THEN Fail(c) /\ UNCHANGED <<workload, queue, status, cmd, seen>>
         ELSE Commit(c, AddAt(queue, cmd[c].song, p), "bump")

\* Mutant: leaves the last song of the block behind.
AddDirectoryShort(c) ==
  /\ At(c, "mutate", {"adddir"})
  /\ LET old   == Len(queue.items)
         grown == AddAll(queue, cmd[c].songs)
         p     == loc[c].pos
     IN  Commit(c, IF p # None /\ p < old
                   THEN MoveRange(grown, old, Len(grown.items) - 1, p).queue
                   ELSE grown, "bump")

AddDirectory(c) ==
  /\ At(c, "mutate", {"adddir"})
  /\ LET old   == Len(queue.items)
         grown == AddAll(queue, cmd[c].songs)
         p     == loc[c].pos
     IN  Commit(c, IF p # None /\ p < old
                   THEN MoveRange(grown, old, Len(grown.items), p).queue
                   ELSE grown, "bump")

\* findadd, searchadd: add_songs_at_position takes the lock three times.
ReadStart(c) ==
  /\ pc[c] = "start"
  /\ LET n == Len(queue.items)
     IN  IF (loc[c].pos # None /\ loc[c].pos > n) \/ cmd[c].songs = <<>>
         THEN Fail(c)
         ELSE Remember(c, [loc[c] EXCEPT !.start = n]) /\ Goto(c, "mutate")
  /\ UNCHANGED <<workload, queue, status, cmd, seen>>

AppendMatches(c) ==
  /\ At(c, "mutate", {"findadd"})
  /\ LET l     == loc[c]
         grown == AddAll(queue, cmd[c].songs)
     IN  /\ queue' = grown
         /\ Remember(c, [l EXCEPT !.ids = SubSeq(IdSeq(grown), Len(queue.items) + 1,
                                                 Len(grown.items))])
         /\ Goto(c, IF l.pos # None /\ l.pos < l.start THEN "move" ELSE "bump")
  /\ UNCHANGED <<workload, status, cmd, seen>>

\* n songs taken one by one from position from to to and the places after it.
MoveEach(q, n, from, to) ==
  Looped(q, n, LAMBDA x, i : MoveItem(x, from, to + i - 1))

MoveMatches(c) ==
  /\ pc[c] = "move"
  /\ Commit(c, MoveEach(queue, Len(cmd[c].songs), loc[c].start, loc[c].pos), "bump")

\* One song of a playlist: add_at, then the range under the id add_at gave it.
PutAt(q, song, pos, range) ==
  LET r == AddAt(q, song, pos)
  IN  IF range = None THEN r ELSE SetRangeById(r, NewId(q), range)

\* Songs put in one after the other from position p on, or at the end.
PutAll(q, songs, p, range) ==
  Looped(q, Len(songs), LAMBDA x, i :
           PutAt(x, songs[i], IF p = None THEN None ELSE p + i - 1, range))

\* load: add_at does not check, so a stale position is clamped to an append.
LoadPlaylist(c) ==
  /\ At(c, "mutate", {"load"})
  /\ LET k == cmd[c]
     IN  Commit(c, SetLastLoaded(PutAll(queue, k.songs, loc[c].pos, k.range), k.name),
                "bump")

-----------------------------------------------------------------------------
(* Commands that remove and reorder.                                       *)

\* Mutant: no update_playlist_version.
ClearQueueQuietly(c) ==
  At(c, "mutate", {"clear"}) /\ Commit(c, Clear(queue), "forget")

\* The engine is stopped between the write and the bump.
ClearQueue(c) == At(c, "mutate", {"clear"}) /\ Commit(c, Clear(queue), "bump")

\* The last n songs before position end deleted, backwards.
DeleteEach(q, n, end) == Looped(q, n, LAMBDA x, i : Delete(x, end - i))

DeleteRange(c) ==
  /\ At(c, "mutate", {"delete"})
  /\ LET k   == cmd[c]
         n   == Len(queue.items)
         end == IF k.end < n THEN k.end ELSE n
     IN  IF k.start >= end THEN Commit(c, queue, "idle")
         ELSE Commit(c, DeleteEach(queue, end - k.start, end), "bump")

DeleteById(c) ==
  /\ At(c, "mutate", {"deleteid"})
  /\ Commit(c, DeleteId(queue, cmd[c].id),
            IF HasId(queue, cmd[c].id) THEN "bump" ELSE "idle")

\* A failed move keeps the songs it already moved and does not bump.
MoveCommand(c) ==
  /\ At(c, "mutate", {"move"})
  /\ LET r == MoveRange(queue, loc[c].start, loc[c].end, loc[c].pos)
     IN  /\ queue' = r.queue
         /\ Goto(c, IF r.ok THEN "bump" ELSE "idle")
         /\ torn' = (torn \/ (~r.ok /\ r.queue # queue))
  /\ UNCHANGED <<workload, status, cmd, loc, mirror>>

MoveIdCommand(c) ==
  /\ At(c, "mutate", {"moveid"})
  /\ LET ok == HasId(queue, cmd[c].id) /\ HasPos(queue, loc[c].pos)
     IN  Commit(c, MoveById(queue, cmd[c].id, loc[c].pos),
                IF ok THEN "bump" ELSE "idle")

SwapCommand(c) ==
  /\ At(c, "mutate", {"swap"})
  /\ LET ok == HasPos(queue, cmd[c].p1) /\ HasPos(queue, cmd[c].p2)
     IN  Commit(c, Swap(queue, cmd[c].p1, cmd[c].p2), IF ok THEN "bump" ELSE "idle")

SwapIdCommand(c) ==
  /\ At(c, "mutate", {"swapid"})
  /\ LET ok == HasId(queue, cmd[c].id1) /\ HasId(queue, cmd[c].id2)
     IN  Commit(c, SwapById(queue, cmd[c].id1, cmd[c].id2),
                IF ok THEN "bump" ELSE "idle")

ShuffleCommand(c) ==
  /\ At(c, "mutate", {"shuffle"})
  /\ LET S == Clip(queue, cmd[c].start, cmd[c].end)
     IN  IF Cardinality(S) < 2 THEN Commit(c, queue, "idle")
         ELSE \E f \in Bijection(S, S) : Commit(c, Shuffle(queue, f), "bump")

-----------------------------------------------------------------------------
(* Commands that edit items.                                               *)

\* How many arguments come before the first bad one.
Rounds(args, bad) ==
  CHOOSE n \in 0 .. Len(args) :
    /\ \A i \in 1 .. n : args[i] \notin bad
    /\ n < Len(args) => args[n + 1] \in bad

PrioEachRange(q, n, prio, ranges) ==
  Looped(q, n, LAMBDA x, i : SetPriorityRange(x, prio, ranges[i][1], ranges[i][2]))

PrioEachId(q, n, prio, ids) ==
  Looped(q, n, LAMBDA x, i : SetPriorityIds(x, prio, {ids[i]}))

\* prio and prioid stop at the first bad argument and keep what they did.
PrioRanges(c) ==
  /\ At(c, "mutate", {"prio"})
  /\ LET k == cmd[c]
         n == Rounds(k.ranges, {r \in ToSet(k.ranges) : r[1] > Len(queue.items)})
     IN  IF n = 0 THEN Commit(c, queue, "idle")
         ELSE Commit(c, PrioEachRange(queue, n, k.prio, k.ranges), "bump")

PrioIds(c) ==
  /\ At(c, "mutate", {"prioid"})
  /\ LET k == cmd[c]
         n == Rounds(k.ids, ToSet(k.ids) \ IdsOf(queue))
     IN  IF n = 0 THEN Commit(c, queue, "idle")
         ELSE Commit(c, PrioEachId(queue, n, k.prio, k.ids), "bump")

\* rangeid reads the current song, then writes under another lock.
CheckRangeId(c) ==
  /\ At(c, "check", {"rangeid"})
  /\ Goto(c, IF current # None /\ current.id = cmd[c].id THEN "idle" ELSE "mutate")
  /\ UNCHANGED <<workload, queue, status, cmd, loc, seen>>

RangeIdCommand(c) ==
  /\ At(c, "mutate", {"rangeid"})
  /\ Commit(c, SetRangeById(queue, cmd[c].id, cmd[c].range),
            IF HasId(queue, cmd[c].id) THEN "bump" ELSE "idle")

\* Mutant: edits the tags of any song.
CheckTagIdAny(c) ==
  /\ At(c, "check", {"tagid"})
  /\ Goto(c, IF HasId(queue, cmd[c].id) THEN "mutate" ELSE "idle")
  /\ UNCHANGED <<workload, queue, status, cmd, loc, seen>>

\* addtagid and cleartagid: only a remote song may be edited.
CheckTagId(c) ==
  /\ At(c, "check", {"tagid"})
  /\ LET ok == HasId(queue, cmd[c].id)
               /\ queue.items[IndexOf(queue, cmd[c].id)].song \in Remote
     IN  Goto(c, IF ok THEN "mutate" ELSE "idle")
  /\ UNCHANGED <<workload, queue, status, cmd, loc, seen>>

TagIdCommand(c) ==
  /\ At(c, "mutate", {"tagid"})
  /\ LET k == cmd[c]
     IN  Commit(c, CASE k.value # None -> AddTagById(queue, k.id, k.tag, k.value)
                     [] k.value = None /\ k.tag # None -> ClearTagById(queue, k.id, k.tag)
                     [] OTHER -> ClearTagsById(queue, k.id), "bump")

-----------------------------------------------------------------------------
(* Status.                                                                 *)

\* Mutant: leaves the length to the next status.
UpdateVersionOnly(c) ==
  /\ pc[c] = "bump"
  /\ playlist_version' = playlist_version + 1
  /\ Goto(c, IF cmd[c].op = "clear" THEN "forget" ELSE "idle")
  /\ torn' = FALSE
  /\ UNCHANGED <<workload, queue, playlist_length, current, cmd, loc, mirror>>

\* update_playlist_version: the length is read under both locks.
UpdatePlaylistVersion(c) ==
  /\ pc[c] = "bump"
  /\ playlist_version' = playlist_version + 1
  /\ playlist_length' = Len(queue.items)
  /\ torn' = FALSE
  /\ Goto(c, IF cmd[c].op = "clear" THEN "forget" ELSE "idle")
  /\ UNCHANGED <<workload, queue, current, cmd, loc, mirror>>

ForgetCurrent(c) ==
  /\ pc[c] = "forget"
  /\ current' = None
  /\ Goto(c, "idle")
  /\ UNCHANGED <<workload, queue, playlist_version, playlist_length, cmd, loc, seen>>

\* playid finds the song, starts the engine, then records its position.
CheckPlayId(c) ==
  /\ At(c, "check", {"playid"})
  /\ IF HasId(queue, cmd[c].id)
     THEN /\ Remember(c, [loc[c] EXCEPT !.pos = IndexOf(queue, cmd[c].id) - 1])
          /\ Goto(c, "play")
     ELSE Fail(c)
  /\ UNCHANGED <<workload, queue, status, cmd, seen>>

RecordCurrent(c) ==
  /\ pc[c] = "play"
  /\ current' = [position |-> loc[c].pos, id |-> cmd[c].id]
  /\ Goto(c, "idle")
  /\ UNCHANGED <<workload, queue, playlist_version, playlist_length, cmd, loc, seen>>

\* The client reads status, then plchanges compares under the status lock
\* and reads the items under the queue lock.
PollStatus(c) ==
  /\ pc[c] = "status"
  /\ Remember(c, [loc[c] EXCEPT !.pos = playlist_version, !.len = playlist_length])
  /\ Goto(c, "changes")
  /\ UNCHANGED <<workload, queue, status, cmd, seen>>

Plchanges(c) ==
  /\ pc[c] = "changes"
  /\ LET v == mirror[c].version
     IN  Goto(c, IF v = None \/ v = 0 \/ playlist_version > v THEN "items" ELSE "idle")
  /\ UNCHANGED <<workload, queue, status, cmd, loc, seen>>

\* The client overlays what was sent and cuts to the length it read.
PlchangesItems(c) ==
  /\ pc[c] = "items"
  /\ LET old  == mirror[c].items
         sent == queue.items
         tail == SubSeq(old, Len(sent) + 1, Len(old))
         all  == sent \o tail
         n    == IF loc[c].len < Len(all) THEN loc[c].len ELSE Len(all)
     IN  mirror' = [mirror EXCEPT ![c] = [version |-> loc[c].pos,
                                          items |-> SubSeq(all, 1, n)]]
  /\ Goto(c, "idle")
  /\ UNCHANGED <<workload, queue, status, cmd, loc, torn>>

Step(c) ==
  \/ Request(c) \/ ReadLen(c) \/ LookUpId(c) \/ ReadCurrent(c)
  \/ AddSong(c) \/ AddDirectory(c) \/ ReadStart(c) \/ AppendMatches(c)
  \/ MoveMatches(c) \/ LoadPlaylist(c) \/ ClearQueue(c) \/ DeleteRange(c)
  \/ DeleteById(c) \/ MoveCommand(c) \/ MoveIdCommand(c) \/ SwapCommand(c)
  \/ SwapIdCommand(c) \/ ShuffleCommand(c) \/ PrioRanges(c) \/ PrioIds(c)
  \/ CheckRangeId(c) \/ RangeIdCommand(c) \/ CheckTagId(c) \/ TagIdCommand(c)
  \/ UpdatePlaylistVersion(c) \/ ForgetCurrent(c) \/ CheckPlayId(c)
  \/ RecordCurrent(c) \/ PollStatus(c) \/ Plchanges(c) \/ PlchangesItems(c)

Next == \E c \in Clients : Step(c)

Spec == Init /\ [][Next]_vars

-----------------------------------------------------------------------------
\* AppState as its handlers keep it; the recorded length and position are u32.
TypeOK ==
  /\ queue \in QueueType
  /\ playlist_version \in Nat /\ playlist_length \in Nat
  /\ current = None \/ current \in [position : Nat, id : Nat]

\* Some command changed the queue and has yet to publish it.
Unsettled == \E c \in Clients : pc[c] \in {"bump", "move"}

\* The length in status is the queue's whenever no command is in between
\* its change and update_playlist_version, whatever the order of the bumps.
LengthSettles == ~Unsettled => playlist_length = Len(queue.items)

\* "Otherwise, return items if playlist has changed since given version": a
\* client whose copy carries the version in status has the queue.  Only a
\* move that breaks off midway changes the queue and publishes nothing.
MirrorFresh ==
  ~Unsettled /\ ~torn =>
    \A c \in Clients : mirror[c].version = playlist_version
                       => mirror[c].items = queue.items

\* What status shows and what a polling client has agree with the queue,
\* whichever commands' changes and bumps came in between.
StatusAgrees == LengthSettles /\ MirrorFresh

\* An accepted add lands exactly where it was asked to, however the queue
\* changed since the position was resolved: add_at never gets to clamp.
AddLandsAtPosition ==
  [][\A c \in Clients :
       (At(c, "mutate", {"add"}) /\ loc[c].pos # None /\ pc'[c] = "bump")
       => /\ HasPos(queue', loc[c].pos)
          /\ ItemAt(queue', loc[c].pos).id \notin IdsOf(queue)]_vars

\* What moving the block [start, end) to position to means.
BlockMoved(s, start, end, to) ==
  LET rest == SubSeq(s, 1, start) \o SubSeq(s, end + 1, Len(s))
  IN  SubSeq(rest, 1, to) \o SubSeq(s, start + 1, end)
      \o SubSeq(rest, to + 1, Len(rest))

\* A move that reports OK moved the block as a whole and kept the order of
\* everything else, even when the queue changed after the checks.
MoveKeepsOrder ==
  [][\A c \in Clients :
       (At(c, "mutate", {"move"}) /\ pc'[c] = "bump")
       => IdSeq(queue') = BlockMoved(IdSeq(queue), loc[c].start, loc[c].end,
                                     loc[c].pos)]_vars

\* add of a directory and load put their songs together, in order, at the
\* position asked for, or at the end when the queue shrank below it since,
\* and keep the order of the others.
BlockAddedTogether ==
  [][\A c \in Clients :
       At(c, "mutate", {"adddir", "load"}) /\ pc'[c] = "bump"
       => LET old == IdSeq(queue)
              n   == Len(old)
              p   == IF loc[c].pos = None \/ loc[c].pos > n THEN n ELSE loc[c].pos
              new == [i \in DOMAIN cmd[c].songs |-> NewId(queue) + i - 1]
          IN  IdSeq(queue') = SubSeq(old, 1, p) \o new \o SubSeq(old, p + 1, n)]_vars

\* One song or many: what an accepted add puts into the queue is where the
\* command asked for it, although the position was resolved against a queue
\* that other connections have changed since.
AddedWhereAsked == AddLandsAtPosition /\ BlockAddedTogether

\* "move the newly-added block there in one pass": the songs a findadd added
\* end up together, in order, at the position it was given.
AddedBlockMoved ==
  [][\A c \in Clients :
       pc[c] = "move" /\ pc'[c] = "bump"
       => SubSeq(IdSeq(queue'), loc[c].pos + 1, loc[c].pos + Len(loc[c].ids))
          = loc[c].ids]_vars

\* "Look up the position of the currently-playing/paused song": what a
\* relative position is measured from is where the current song is.
CurrentPositionIsCurrent ==
  [][\A c \in Clients :
       (pc[c] = "current" /\ pc'[c] # pc[c] /\ cmd[c].to.kind # "abs" /\ current # None)
       => /\ HasPos(queue, current.position)
          /\ ItemAt(queue, current.position).id = current.id]_vars

\* "only remote songs (a scheme:// URI) may have tags edited": the check and
\* the edit are under different locks, and the id still names that song.
TagsOnlyOnRemote ==
  \A i \in DOMAIN queue.items :
    queue.items[i].song \notin Remote => queue.items[i].tags = NoTags
=============================================================================
