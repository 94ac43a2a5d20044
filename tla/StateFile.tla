------------------------------ MODULE StateFile ------------------------------
(***************************************************************************)
(* The state file (rmpd-protocol/src/statefile.rs): saved at shutdown,     *)
(* read at the next start (rmpd/src/app.rs), with a crash at any step.     *)
(*                                                                         *)
(* A save takes status and queue under read locks that it holds to its     *)
(* end, writes a temporary file (std::fs::write truncates, then fills) and *)
(* renames it.  Ctrl-C saves in a task of its own and then stops the       *)
(* server; the main task saves when the server has stopped: after kill the *)
(* two may overlap, on the same temporary file.                            *)
(***************************************************************************)
EXTENDS Loops, SequencesExt, FiniteSets

CONSTANTS
  Sessions,     \* [opts, state, pos, songs]: what clients may make of the session
  Fresh,        \* the session of a server without a state file
  Disabled,     \* sets of outputs that may be disabled
  ConfiguredOff, \* the outputs the configuration starts with disabled
  KnownSets,    \* songs the database may hold at a start
  NoSong,
  Zero,         \* the options an empty file is read as
  RestorePaused \* audio.restore_paused

IsSession(s) ==
  /\ s = [opts |-> s.opts, state |-> s.state, pos |-> s.pos, songs |-> s.songs]
  /\ s.state \in {"stop", "play", "pause"}
  /\ s.pos \in Nat \union {NoSong} /\ s.songs \in Seq(ToSet(s.songs))

ASSUME StateFileConstants ==
  /\ {} \in Disabled /\ \A d \in Disabled : ConfiguredOff \union d \in Disabled
  /\ NoSong \notin Nat
  /\ \A s \in Sessions \union {Fresh} : IsSession(s)

Savers == {"signal", "main"}

VARIABLES
  session, \* status and queue, as far as they are saved
  off,     \* disabled outputs
  up,      \* boot, serving, stopping
  known,   \* songs the database holds
  resume,  \* the state the background task is to bring back, or stop
  path, temp, \* the two files
  saver,   \* saver -> its progress
  read,    \* what the last start read
  met      \* history: both savers have been at work at once since the start

filevars == <<session, off, up, resume, known, path, temp, saver, read, met>>

-----------------------------------------------------------------------------
(* Files.  A saver that has opened the temporary file goes on writing to it *)
(* wherever it has been renamed to.                                         *)

Contents(s, d) == [session |-> s, disabled |-> d]

\* A file of no lines is read as a session of defaults: volume 0, no playlist.
\* A torn text is taken as one.
Blank  == Contents([opts |-> Zero, state |-> "stop", pos |-> NoSong, songs |-> <<>>], {})
NoFile == [there |-> FALSE, text |-> Blank]
Empty  == [there |-> TRUE, text |-> Blank]
Whole(t) == [there |-> TRUE, text |-> t]

Idle    == [at |-> "idle", text |-> Blank, where |-> "temp"]
Holding == {s \in Savers : saver[s].at \notin {"idle", "done"}}

StateFileInit ==
  /\ session = Fresh /\ off = ConfiguredOff /\ up = "boot" /\ resume = "stop" /\ known \in KnownSets
  /\ path = NoFile /\ temp = NoFile
  /\ saver = [s \in Savers |-> Idle]
  /\ read = Blank /\ met = FALSE

-----------------------------------------------------------------------------
(* A start.                                                                 *)

\* The saved position is shifted by each missing song before it, as the loop sees
\* it: the position compared is the one already shifted.
\* Mutant: by each missing song, wherever it is.
ShiftedByAll(old, k) ==
  old.pos - Cardinality({i \in 1..Len(old.songs) : old.songs[i] \notin k})
Shifted(old, k) ==
  Looped(old.pos, Len(old.songs),
         LAMBDA p, i : IF old.songs[i] \notin k /\ i - 1 < p THEN p - 1 ELSE p)

RestoredPosition(old, songs, k) ==
  LET p == Shifted(old, k)
  IN  IF old.pos # NoSong /\ p < Len(songs) THEN p ELSE NoSong

\* restore_state: the options, the songs the database still has, the position; the
\* state is left to the background task.  A song that cannot be resolved is not current.
\* The outputs start as they are configured, and those the file names are disabled on
\* top: none is enabled.
Restore(text, k, resolved) ==
  LET old   == text.session
      songs == Selected(old.songs, k)
      pos   == RestoredPosition(old, songs, k)
      back  == ~RestorePaused /\ pos # NoSong /\ old.state # "stop" /\ resolved
  IN  /\ session' = [opts |-> old.opts, state |-> "stop", songs |-> songs,
                     pos |-> IF RestorePaused \/ back THEN pos ELSE NoSong]
      /\ resume' = IF back THEN old.state ELSE "stop"
      /\ off' = ConfiguredOff \union text.disabled

\* A file that cannot be read is as if there were none.
Boot ==
  /\ up = "boot"
  /\ known' \in KnownSets
  /\ \/ path.there /\ \E resolved \in BOOLEAN : Restore(path.text, known', resolved)
     \/ session' = Fresh /\ off' = ConfiguredOff /\ resume' = "stop"
  /\ read' = path.text /\ up' = "serving" /\ met' = FALSE
  /\ UNCHANGED <<path, temp, saver>>

Alive == up \in {"serving", "stopping"}

\* Connections outlive the listener and go on until the process ends.
Work ==
  /\ Alive /\ Holding = {}
  /\ session' \in Sessions
  /\ UNCHANGED <<off, up, resume, known, path, temp, saver, read, met>>

\* resume_playback, 100 ms after the start: whatever clients did meanwhile.
Resume ==
  /\ Alive /\ resume # "stop" /\ Holding = {}
  /\ session' = [session EXCEPT !.state = resume] /\ resume' = "stop"
  /\ UNCHANGED <<off, up, known, path, temp, saver, read, met>>

ToggleOutput ==
  /\ Alive /\ saver["main"].at # "done" /\ off' \in Disabled
  /\ UNCHANGED <<session, up, resume, known, path, temp, saver, read, met>>

Kill ==
  /\ up = "serving" /\ up' = "stopping"
  /\ UNCHANGED <<session, off, resume, known, path, temp, saver, read, met>>

-----------------------------------------------------------------------------
(* A save.                                                                  *)
Becomes(s, r) == saver' = [saver EXCEPT ![s] = r]

BeginSave(s) ==
  /\ saver[s] = Idle
  /\ IF s = "main" THEN up = "stopping" ELSE Alive
  /\ Becomes(s, [at |-> "open", text |-> Contents(session, off), where |-> "temp"])
  /\ met' = (met \/ Holding # {})
  /\ UNCHANGED <<session, off, up, resume, known, path, temp, read>>

Open(s) ==
  /\ saver[s].at = "open"
  /\ temp' = Empty
  /\ Becomes(s, [at |-> "write", text |-> saver[s].text, where |-> "temp"])
  /\ UNCHANGED <<session, off, up, resume, known, path, read, met>>

Write(s) ==
  /\ saver[s].at = "write"
  /\ temp' = IF saver[s].where = "temp" THEN Whole(saver[s].text) ELSE temp
  /\ path' = IF saver[s].where = "path" THEN Whole(saver[s].text) ELSE path
  /\ Becomes(s, [saver[s] EXCEPT !.at = "rename"])
  /\ UNCHANGED <<session, off, up, resume, known, read, met>>

\* What another saver has open moves along.
Progress(s) == [x \in Savers |->
  CASE x = s -> [saver[s] EXCEPT !.at = "end"]
    [] x # s /\ saver[x].at = "write" ->
         [saver[x] EXCEPT !.where = IF @ = "temp" THEN "path" ELSE "gone"]
    [] OTHER -> saver[x]]

\* Mutant: the file is renamed before it is filled.
RenameTempEarly(s) ==
  /\ saver[s].at \in {"write", "rename"} /\ temp.there
  /\ path' = temp /\ temp' = NoFile
  /\ saver' = Progress(s)
  /\ UNCHANGED <<session, off, up, resume, known, read, met>>

RenameTemp(s) ==
  /\ saver[s].at = "rename" /\ temp.there
  /\ path' = temp /\ temp' = NoFile
  /\ saver' = Progress(s)
  /\ UNCHANGED <<session, off, up, resume, known, read, met>>

\* Done, or given up: the disk is full, or the other saver took the file away.
\* Ctrl-C then stops the server.  The process ends after the main task's save, but
\* waits for a write that runs on the blocking pool.
EndSave(s) ==
  /\ \/ saver[s].at \in {"open", "write", "end"}
     \/ saver[s].at = "rename" /\ ~temp.there
  /\ LET over == Holding = {s} /\ (s = "main" \/ saver["main"].at = "done")
     IN  IF over THEN up' = "boot" /\ saver' = [x \in Savers |-> Idle]
         ELSE up' = "stopping" /\ saver' = [saver EXCEPT ![s] = [Idle EXCEPT !.at = "done"]]
  /\ UNCHANGED <<session, off, resume, known, path, temp, read, met>>

\* The process dies wherever it is, and is started again.
Die ==
  /\ Alive
  /\ saver' = [s \in Savers |-> Idle] /\ up' = "boot"
  /\ UNCHANGED <<session, off, resume, known, path, temp, read, met>>

StateFileNext ==
  \/ Boot \/ Work \/ Resume \/ ToggleOutput \/ Kill \/ Die
  \/ \E s \in Savers : BeginSave(s) \/ Open(s) \/ Write(s) \/ RenameTemp(s) \/ EndSave(s)

StateFileSpec == StateFileInit /\ [][StateFileNext]_filevars

-----------------------------------------------------------------------------
StateFileTypeOK ==
  /\ up \in {"boot", "serving", "stopping"} /\ resume \in {"stop", "play", "pause"}
  /\ off \in Disabled /\ known \in KnownSets
  /\ ~path.there => path = NoFile
  /\ ~temp.there => temp = NoFile
  /\ up = "boot" => Holding = {}

\* Through crashes at any step of a save, failed writes and restarts the state file
\* is what the abstract snapshot is: a saved session, whole, and never half of one
\* unless the saves of a signal and of the main task overlap.
Snap == INSTANCE Snapshot WITH stored <- path.text, saving <- Holding
SnapshotKept == Snap!Spec

\* After a start with a readable file the options and the songs that are still known
\* are those saved, every output that was disabled still is, and beside them only those
\* the configuration disables (one that a client had enabled comes back disabled), and
\* the current song is the saved one or a later one: what lies between is missing, but
\* for fewer known songs than are missing before the saved one, so that with at most
\* one missing there it is the saved song or the next that is known.
RestoredAlike ==
  [][(up = "boot" /\ up' = "serving" /\ session' # Fresh) =>
       LET old == path.text.session
           Found(i) == old.songs[i] \in known'
       IN  /\ session'.opts = old.opts /\ off' = ConfiguredOff \union path.text.disabled
           /\ session'.songs = Selected(old.songs, known')
           /\ session'.pos # NoSong =>
                \E i \in old.pos + 1..Len(old.songs) :
                   LET passed == {x \in old.pos + 1..i - 1 : Found(x)}
                   IN  /\ Found(i) /\ session'.pos >= 0
                       /\ session'.songs[session'.pos + 1] = old.songs[i]
                       /\ passed = {} \/ Cardinality(passed) <
                                          Cardinality({x \in 1..old.pos : ~Found(x)})]_filevars
=============================================================================
