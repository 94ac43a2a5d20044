--------------------------- MODULE StoredPlaylists ---------------------------
(***************************************************************************)
(* The stored playlists: files in the playlist directory, edited by any    *)
(* number of connections without a lock, and loaded into the queue         *)
(* (rmpd-protocol/src/commands/playlists.rs).                              *)
(*                                                                         *)
(* A step is one look at the directory, one read, one half of a write      *)
(* (std::fs::write truncates, then fills), or one lock of the queue.  A    *)
(* file is its lines, songs or a comment; a file that is no text cannot be *)
(* read.                                                                   *)
(***************************************************************************)
EXTENDS Loops, SequencesExt

CONSTANTS
  Lists,      \* playlist names
  Songs,
  Known,      \* songs in the database
  Comment,    \* a line that starts with #
  Foreign,    \* name -> the playlists of other formats: extension -> its songs
  Editors,    \* connections
  Edits,      \* edits a connection may ask for
  Loads,      \* loads a connection may ask for
  FirstQueue,
  NoPosition, \* no POSITION argument
  MaxEdits,   \* bound: commands
  Faults      \* may a write fail half-way

Positions    == Nat \union {NoPosition}
EditCommands ==
  [op : {"create", "append", "replace", "clear", "rm"}, name : Lists]
  \union [op : {"rename"}, name : Lists, new : Lists]
  \union [op : {"add"}, name : Lists, new : Seq(Songs), pos : Positions]
  \union [op : {"delete"}, name : Lists, from : Nat, to : Nat]
  \union [op : {"move"}, name : Lists, from : Nat, to : Nat, dest : Nat]
LoadCommands ==
  {c \in [op : {"load"}, name : Lists, pos : Positions, relative : BOOLEAN, range : Nat \X Nat] :
     c.relative => c.pos \in Nat}

ASSUME StoredConstants ==
  /\ Known \subseteq Songs /\ Comment \notin Songs /\ NoPosition \notin Nat /\ NoPosition \notin Lists
  /\ \A n \in Lists : \A x \in DOMAIN Foreign[n] : Foreign[n][x] \in Seq(Songs)
  /\ FirstQueue \in Seq(Songs)
  /\ Edits \subseteq EditCommands /\ Loads \subseteq LoadCommands
  /\ MaxEdits \in Nat /\ Faults \in BOOLEAN

VARIABLES
  file,    \* name -> its .m3u
  queue,   \* the songs of the play queue
  current, \* status.current_song.position, or NoPosition
  loaded,  \* last_loaded_playlist, or NoPosition
  edit,    \* connection -> its command
  edits

storedvars == <<file, queue, current, loaded, edit, edits>>

Gone       == [there |-> FALSE, text |-> TRUE, lines |-> <<>>]
File(l)    == [there |-> TRUE, text |-> TRUE, lines |-> l]
Binary     == [there |-> TRUE, text |-> FALSE, lines |-> <<>>]
Waiting    == [at |-> "idle"]
Clipped(n, l) == IF n < Len(l) THEN n ELSE Len(l)

StoredInit ==
  /\ file \in [Lists -> {Gone, Binary, File(<<Comment>> \o FirstQueue)}]
  /\ queue = FirstQueue
  /\ current \in {0, NoPosition} /\ loaded = NoPosition
  /\ edit = [e \in Editors |-> Waiting]
  /\ edits = 0

-----------------------------------------------------------------------------
(* Reading.                                                                 *)

Entries(f)  == Selected(f.lines, Songs)                       \* read_m3u_playlist
Readable(f) == f.there /\ f.text
OrEmpty(f)  == IF Readable(f) THEN Entries(f) ELSE <<>>       \* unwrap_or_default

Precedence == <<"pls", "xspf", "cue", "asx">>
First(n) == SelectInSeq(Precedence, LAMBDA x : x \in DOMAIN Foreign[n])

\* load takes a cue sheet as tracks of its own when there is nothing else of the
\* name, though read_playlist puts cue before asx.
CueOnly(n) == ~file[n].there /\ DOMAIN Foreign[n] = {"cue"}

Exists(n)  == IF file[n].there THEN file[n].text ELSE First(n) # 0
Listed(n)  == IF file[n].there THEN Entries(file[n]) ELSE Foreign[n][Precedence[First(n)]]

-----------------------------------------------------------------------------
(* What an edit makes of the entries it read.                               *)

InsertedAt(l, pos, new) == SubSeq(l, 1, pos) \o new \o SubSeq(l, pos + 1, Len(l))
Without(l, from, to) == SubSeq(l, 1, from) \o SubSeq(l, to + 1, Len(l))

Accepts(c, l) ==
  CASE c.op = "add"    -> c.pos = NoPosition \/ c.pos <= Len(l)
    [] c.op = "delete" -> c.from <= Clipped(c.to, l)     \* else an error, or a panic of drain
    [] c.op = "move"   -> c.to <= Len(l) /\ c.dest <= Len(l) - (c.to - c.from)
    [] OTHER           -> TRUE

\* Mutant: the destination is taken in the list before the block left it.
MovedShifted(l, c) ==
  LET block == SubSeq(l, c.from + 1, c.to)
      dest  == IF c.dest > c.from THEN c.dest - (c.to - c.from) ELSE c.dest
  IN  InsertedAt(Without(l, c.from, c.to), IF dest < 0 THEN 0 ELSE dest, block)

Moved(l, c) == InsertedAt(Without(l, c.from, c.to), c.dest, SubSeq(l, c.from + 1, c.to))

Edited(c, l) ==
  CASE c.op = "add"    -> IF c.pos = NoPosition THEN l \o c.new ELSE InsertedAt(l, c.pos, c.new)
    [] c.op = "delete" -> Without(l, c.from, Clipped(c.to, l))
    [] c.op = "move"   -> Moved(l, c)

-----------------------------------------------------------------------------
(* Commands.  A record of edit holds the command, the list to write and, for *)
(* the properties, the file the command found and whether it was alone since.*)

\* Another connection's edit of the directory.
Disturbed(e) ==
  [x \in Editors |-> IF x = e \/ edit[x] = Waiting THEN edit[x] ELSE [edit[x] EXCEPT !.alone = FALSE]]
EndEdit(e)  == edit' = [Disturbed(e) EXCEPT ![e] = Waiting]
Go(e, r) == edit' = [edit EXCEPT ![e] = r]
Refuse(e) == edit' = [edit EXCEPT ![e] = Waiting] /\ UNCHANGED <<file, queue, current, loaded>>

AskEdit(e, c) ==
  /\ edits < MaxEdits /\ edit[e] = Waiting
  /\ ~(c.op = "move" /\ (c.from >= c.to \/ c.from = c.dest))   \* a no-op, answered at once
  /\ edits' = edits + 1
  /\ Go(e, [at |-> "look", cmd |-> c, list |-> <<>>, found |-> file[c.name], alone |-> TRUE])
  /\ UNCHANGED <<file, queue, current, loaded>>

\* save create wants no file, save append and replace, clear, rm and rename want one.
Look(e) ==
  /\ edit[e].at = "look"
  /\ LET c == edit[e].cmd
         there == file[c.name].there
         Next(at) == Go(e, [edit[e] EXCEPT !.at = at]) /\ UNCHANGED <<file, queue, current, loaded>>
     IN  CASE c.op = "create"                -> IF there THEN Refuse(e) ELSE Next("queue")
           [] c.op \in {"append", "replace"} -> IF there THEN Next("queue") ELSE Refuse(e)
           [] c.op = "clear"                 -> IF there THEN Next("write") ELSE Refuse(e)
           [] c.op = "rm"                    -> IF there THEN Next("remove") ELSE Refuse(e)
           [] c.op = "rename"                -> IF there /\ ~file[c.new].there THEN Next("rename") ELSE Refuse(e)
           [] c.op = "load"                  -> Next("resolve")
           [] OTHER                          -> Next("read")
  /\ UNCHANGED edits

TakeQueue(e) ==
  /\ edit[e].at = "queue"
  /\ Go(e, [edit[e] EXCEPT !.list = queue, !.at = IF edit[e].cmd.op = "append" THEN "read" ELSE "write"])
  /\ UNCHANGED <<file, queue, current, loaded, edits>>

\* Adding takes a missing or unreadable file for an empty list; deleting and moving refuse it.
Read(e) ==
  /\ edit[e].at = "read"
  /\ LET c == edit[e].cmd
         l == OrEmpty(file[c.name])
         Write(result) == /\ Go(e, [edit[e] EXCEPT !.list = result, !.at = "write"])
                          /\ UNCHANGED <<file, queue, current, loaded>>
     IN  IF c.op = "append" THEN Write(l \o edit[e].list)
         ELSE IF (c.op = "add" \/ Readable(file[c.name])) /\ Accepts(c, l) THEN Write(Edited(c, l))
         ELSE Refuse(e)
  /\ UNCHANGED edits

Truncate(e) ==
  /\ edit[e].at = "write"
  /\ file' = [file EXCEPT ![edit[e].cmd.name] = File(<<>>)]
  /\ edit' = [Disturbed(e) EXCEPT ![e].at = "fill"]
  /\ UNCHANGED <<queue, current, loaded, edits>>

Fill(e) ==
  /\ edit[e].at = "fill"
  /\ file' = [file EXCEPT ![edit[e].cmd.name] = File(edit[e].list)]
  /\ EndEdit(e)
  /\ UNCHANGED <<queue, current, loaded, edits>>

\* The disk is full: the file stays empty, the client gets an error, the others no event.
FillFails(e) ==
  /\ Faults /\ edit[e].at = "fill"
  /\ EndEdit(e)
  /\ UNCHANGED <<file, queue, current, loaded, edits>>

RemoveList(e) ==
  /\ edit[e].at = "remove"
  /\ IF file[edit[e].cmd.name].there
     THEN file' = [file EXCEPT ![edit[e].cmd.name] = Gone] /\ EndEdit(e)
     ELSE UNCHANGED file /\ Go(e, Waiting)
  /\ UNCHANGED <<queue, current, loaded, edits>>

\* Whatever is at the target by now is replaced.
Rename(e) ==
  /\ edit[e].at = "rename"
  /\ LET c == edit[e].cmd
     IN  IF file[c.name].there
         THEN file' = [file EXCEPT ![c.new] = file[c.name], ![c.name] = Gone] /\ EndEdit(e)
         ELSE UNCHANGED file /\ Go(e, Waiting)
  /\ UNCHANGED <<queue, current, loaded, edits>>

-----------------------------------------------------------------------------
(* load.                                                                    *)

\* resolve_insert_position, for absolute positions and +n.
Resolve(e) ==
  /\ edit[e].at = "resolve"
  /\ LET c == edit[e].cmd
         bad == \/ c.pos # NoPosition /\ ~c.relative /\ c.pos > Len(queue)
                \/ c.relative /\ (current = NoPosition \/ c.pos > Len(queue) - current - 1)
     IN  IF bad THEN Refuse(e)
         ELSE /\ Go(e, [edit[e] EXCEPT !.at = "songs",
                          !.cmd = [c EXCEPT !.pos = IF c.relative THEN current + 1 + c.pos ELSE c.pos]])
              /\ UNCHANGED <<file, queue, current, loaded>>
  /\ UNCHANGED edits

Ranged(l, range) == LET from == Clipped(range[1], l) IN SubSeq(l, from + 1, Clipped(range[2], l))

ReadSongs(e) ==
  /\ edit[e].at = "songs"
  /\ LET c == edit[e].cmd
     IN  IF ~Exists(c.name) THEN Refuse(e)
         ELSE LET l == Ranged(Listed(c.name), c.range)
              IN  /\ Go(e, [edit[e] EXCEPT !.at = "insert",
                              !.list = IF CueOnly(c.name) THEN l ELSE Selected(l, Known)])
                  /\ UNCHANGED <<file, queue, current, loaded>>
  /\ UNCHANGED edits

\* add_at for the i-th song of a block: past the end it appends.
\* Mutant: every song goes to the same place.
InsertEachAt(q, pos, l) == Looped(q, Len(l), LAMBDA x, i : InsertedAt(x, Clipped(pos, x), <<l[i]>>))
InsertEach(q, pos, l) ==
  Looped(q, Len(l), LAMBDA x, i : InsertedAt(x, Clipped(pos + i - 1, x), <<l[i]>>))

Insert(e) ==
  /\ edit[e].at = "insert"
  /\ LET c == edit[e].cmd
     IN  /\ queue' = IF c.pos = NoPosition THEN queue \o edit[e].list ELSE InsertEach(queue, c.pos, edit[e].list)
         /\ loaded' = c.name
  /\ Go(e, Waiting)
  /\ UNCHANGED <<file, current, edits>>

\* Another connection deletes the last song.
ShortenQueue ==
  /\ queue # <<>> /\ \E e \in Editors : edit[e].at \in {"look", "queue", "resolve", "songs", "insert"}
  /\ queue' = Front(queue)
  /\ current' = IF current = Len(queue) - 1 THEN NoPosition ELSE current
  /\ UNCHANGED <<file, loaded, edit, edits>>

StoredNext ==
  \/ \E e \in Editors :
       \/ \E c \in Edits \union Loads : AskEdit(e, c)
       \/ Look(e) \/ TakeQueue(e) \/ Read(e) \/ Truncate(e) \/ Fill(e) \/ FillFails(e)
       \/ RemoveList(e) \/ Rename(e) \/ Resolve(e) \/ ReadSongs(e) \/ Insert(e)
  \/ ShortenQueue

StoredSpec == StoredInit /\ [][StoredNext]_storedvars

-----------------------------------------------------------------------------
StoredTypeOK ==
  /\ \A n \in Lists : file[n].lines \in Seq(Songs \union {Comment}) /\ (~file[n].there => file[n] = Gone)
  /\ queue \in Seq(Songs) /\ current \in Nat \union {NoPosition} /\ loaded \in Lists \union {NoPosition}
  /\ edits \in 0..MaxEdits

\* What a playlist l is for a client after the edit c of one it saw as old: the
\* block it moved is where it asked, the rest as before; what it added is there,
\* the rest as before; of what it deleted nothing is left, the rest as before.
Fits(c, old, l) ==
  CASE c.op = "add" ->
         LET pos == IF c.pos = NoPosition THEN Len(old) ELSE c.pos
         IN  /\ Len(l) = Len(old) + Len(c.new)
             /\ \A i \in DOMAIN l : l[i] = IF i <= pos THEN old[i]
                                           ELSE IF i <= pos + Len(c.new) THEN c.new[i - pos]
                                           ELSE old[i - Len(c.new)]
    [] c.op = "delete" -> \E k \in 0..Len(old) :
         /\ Len(l) = Len(old) - k /\ c.from + k = Clipped(c.to, old)
         /\ \A i \in DOMAIN l : l[i] = IF i <= c.from THEN old[i] ELSE old[i + k]
    [] c.op = "move" ->
         LET n == c.to - c.from
         IN  /\ Len(l) = Len(old)
             /\ \A i \in 1..n : l[c.dest + i] = old[c.from + i]
             /\ Without(l, c.dest, c.dest + n) = Without(old, c.from, c.to)
    [] c.op = "append" -> IsPrefix(old, l)
    [] OTHER -> TRUE

\* A connection that edits a playlist while no other edits the directory gets the
\* edit it asked for, of the list as it was, and nothing else.
EditAsAsked ==
  [][\A e \in Editors :
       (edit[e].at = "fill" /\ edit'[e] = Waiting /\ edit[e].alone) =>
         LET c == edit[e].cmd  f == edit[e].found
         IN  file'[c.name].lines = edit[e].list /\ (Readable(f) \/ c.op = "add")
               => Fits(c, OrEmpty(f), file'[c.name].lines)]_storedvars

\* However the queue changed since the position was resolved, a loaded playlist
\* stands together, in order, at that position or at the end.
LoadStandsTogether ==
  [][\A e \in Editors :
       (edit[e].at = "insert" /\ edit'[e] = Waiting) =>
         LET c == edit[e].cmd
             k == IF c.pos = NoPosition THEN Len(queue) ELSE Clipped(c.pos, queue)
         IN  queue' = InsertedAt(queue, k, edit[e].list)]_storedvars
=============================================================================
