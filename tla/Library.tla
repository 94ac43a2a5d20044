------------------------------- MODULE Library -------------------------------
(***************************************************************************)
(* The music library: the rows of songs, tags and directories              *)
(* (rmpd-library/src/database.rs) under the update jobs (scanner.rs,       *)
(* AppState.spawn_library_update), the filesystem watcher (watcher.rs) and *)
(* the sync of a remote catalog (rmpd-source/src/lib.rs), over a disk and  *)
(* a server that change as they like.                                      *)
(*                                                                         *)
(* A step is one SQL statement or transaction, or one look at the disk.    *)
(* The version of a file is its mtime and names its tags.                  *)
(***************************************************************************)
EXTENDS Integers, FiniteSets, SequencesExt

CONSTANTS
  Files,      \* paths of audio files
  Folders,    \* directories below the music directory, one level
  FolderOf,   \* file -> its folder, or Root
  Root,
  Plain,      \* folders whose name has neither % nor _
  Remote,     \* songs a remote catalog may hold, all in the folder Mount
  Mount,
  Jobs,       \* update jobs that may overlap
  MaxVersion, \* bound: versions of a file
  MaxChanges, \* bound: changes of the disk and of the catalog
  MaxRuns     \* bound: updates and syncs started, and crashes

ASSUME LibraryConstants ==
  /\ FolderOf \in [Files -> Folders \union {Root}] /\ Root \notin Folders /\ Mount \notin Folders \union {Root}
  /\ Plain \subseteq Folders /\ Files \intersect (Folders \union Remote) = {}
  /\ Jobs \subseteq Nat /\ MaxVersion \in Nat \ {0} /\ MaxChanges \in Nat /\ MaxRuns \in Nat

VARIABLES
  disk,      \* file -> version, 0 when absent
  standing,  \* folders on disk
  songs,     \* rows: path -> [mtime, tags, remote]
  dirs,      \* rows of directories below the root
  job,       \* update job -> its progress
  updating,  \* status.updating_db, 0 for None
  events,    \* filesystem events not yet handled
  writing,   \* the watcher's work on one file
  catalog,   \* the remote server's songs
  sync,      \* the progress of the catalog sync
  disturbed, \* something else happened since the running job or sync began
  changes, runs

libvars == <<disk, standing, songs, dirs, job, updating, events, writing,
             catalog, sync, disturbed, changes, runs>>

NoWork  == [step |-> "idle", file |-> Root, mtime |-> 0]
NoJob   == [at |-> "idle", force |-> FALSE, todo |-> {}, files |-> {}, read |-> {},
            write |-> NoWork, missing |-> {}, id |-> 0]
NoSync  == [at |-> "idle", list |-> {}, todo |-> {}]
Running == {j \in Jobs : job[j].at # "idle"}
Local   == {p \in DOMAIN songs : ~songs[p].remote}
HasRow(p) == p \in DOMAIN songs
Present(f) == f \in Files /\ disk[f] # 0
FolderOfSong(p) == IF p \in Remote THEN Mount ELSE FolderOf[p]

\* The first start, and a start after an update and a sync.
LibraryInit ==
  /\ disk = [f \in Files |-> 1] /\ standing = Folders
  /\ \E rows \in {{}, Files \union Remote} :
       /\ songs = [p \in rows |-> [mtime |-> 1, tags |-> <<1>>, remote |-> p \in Remote]]
       /\ dirs = {FolderOfSong(p) : p \in rows} \ {Root}
  /\ job = [j \in Jobs |-> NoJob] /\ updating = 0
  /\ events = <<>> /\ writing = NoWork
  /\ catalog = Remote /\ sync = NoSync
  /\ disturbed = FALSE /\ changes = 0 /\ runs = 0

-----------------------------------------------------------------------------
(* The rows.                                                                *)

\* add_song is three commits: the row with its directory, the old tags out, the new in.
Upsert(p, mtime, remote) ==
  /\ songs' = [q \in DOMAIN songs \union {p} |->
                 IF q # p THEN songs[q]
                 ELSE IF HasRow(p) THEN [songs[p] EXCEPT !.mtime = mtime, !.remote = @ \/ remote]
                      ELSE [mtime |-> mtime, tags |-> <<>>, remote |-> remote]]
  /\ dirs' = dirs \union ({FolderOfSong(p)} \ {Root})

ClearTags(p) ==
  songs' = IF HasRow(p) THEN [songs EXCEPT ![p].tags = <<>>] ELSE songs

\* The foreign key refuses tags of a row that is gone.
InsertTags(p, v) ==
  songs' = IF HasRow(p) THEN [songs EXCEPT ![p].tags = Append(@, v)] ELSE songs

Erase(paths) == songs' = [q \in DOMAIN songs \ paths |-> songs[q]]

\* delete_songs_by_paths, delete_song_by_path: rows of a remote catalog stay.
DeleteLocalSongs(paths) == Erase(paths \intersect Local)

\* list_local_song_paths_under: LIKE without ESCAPE finds nothing below a name with % or _.
LocalSongsUnder(d) == {p \in Local : d = Root \/ (FolderOfSong(p) = d /\ d \in Plain)}

EmptyDirs == {d \in dirs : \A p \in DOMAIN songs : FolderOfSong(p) # d}

-----------------------------------------------------------------------------
(* The disk, and what the watcher is told.                                  *)
Tell(p) == events' = Append(events, p)

WriteFile(f) ==
  /\ changes < MaxChanges /\ disk[f] < MaxVersion
  /\ FolderOf[f] \in standing \union {Root}
  /\ disk' = [disk EXCEPT ![f] = @ + 1]
  /\ Tell(f) /\ changes' = changes + 1 /\ disturbed' = TRUE
  /\ UNCHANGED <<standing, songs, dirs, job, updating, writing, catalog, sync, runs>>

RemoveFile(f) ==
  /\ changes < MaxChanges /\ Present(f)
  /\ disk' = [disk EXCEPT ![f] = 0]
  /\ Tell(f) /\ changes' = changes + 1 /\ disturbed' = TRUE
  /\ UNCHANGED <<standing, songs, dirs, job, updating, writing, catalog, sync, runs>>

\* A folder moved away is one event, on the folder.
RemoveFolder(d) ==
  /\ changes < MaxChanges /\ d \in standing
  /\ disk' = [f \in Files |-> IF FolderOf[f] = d THEN 0 ELSE disk[f]]
  /\ standing' = standing \ {d}
  /\ Tell(d) /\ changes' = changes + 1 /\ disturbed' = TRUE
  /\ UNCHANGED <<songs, dirs, job, updating, writing, catalog, sync, runs>>

ChangeCatalog(s) ==
  /\ changes < MaxChanges /\ s \in catalog
  /\ catalog' = catalog \ {s}
  /\ changes' = changes + 1
  /\ UNCHANGED <<disk, standing, songs, dirs, job, updating, events, writing, sync, disturbed, runs>>

\* The process dies and starts again: the rows stay, as far as they were written.
Crash ==
  /\ runs < MaxRuns
  /\ Running # {} \/ writing # NoWork \/ sync # NoSync \/ events # <<>>
  /\ job' = [j \in Jobs |-> NoJob] /\ updating' = 0 /\ sync' = NoSync
  /\ events' = <<>> /\ writing' = NoWork /\ disturbed' = TRUE /\ runs' = runs + 1
  /\ UNCHANGED <<disk, standing, songs, dirs, catalog, changes>>

-----------------------------------------------------------------------------
(* The watcher: one event after the other.                                  *)
WatcherSees ==
  /\ writing = NoWork /\ events # <<>>
  /\ events' = Tail(events) /\ disturbed' = TRUE
  /\ LET p == Head(events)
     IN  IF p \in Folders
         THEN /\ IF p \in standing THEN UNCHANGED songs
                 ELSE DeleteLocalSongs(LocalSongsUnder(p))
              /\ UNCHANGED writing
         ELSE IF Present(p)
              THEN writing' = [step |-> "upsert", file |-> p, mtime |-> disk[p]] /\ UNCHANGED songs
              ELSE DeleteLocalSongs({p}) /\ UNCHANGED writing
  /\ UNCHANGED <<disk, standing, dirs, job, updating, catalog, sync, changes, runs>>

\* add_song for the writer w, one commit at a time.
AddSong(w) ==
  \/ w.step = "upsert" /\ Upsert(w.file, w.mtime, FALSE)
  \/ w.step = "clear"  /\ ClearTags(w.file)           /\ UNCHANGED dirs
  \/ w.step = "insert" /\ InsertTags(w.file, w.mtime) /\ UNCHANGED dirs

Onward(w) ==
  CASE w.step = "upsert" -> [w EXCEPT !.step = "clear"]
    [] w.step = "clear"  -> [w EXCEPT !.step = "insert"]
    [] OTHER             -> NoWork

WatcherWrites ==
  /\ writing # NoWork
  /\ AddSong(writing) /\ writing' = Onward(writing) /\ disturbed' = TRUE
  /\ UNCHANGED <<disk, standing, job, updating, events, catalog, sync, changes, runs>>

-----------------------------------------------------------------------------
(* An update job: walk, read, write, prune songs, prune directories.        *)
Set(j, r) == job' = [job EXCEPT ![j] = r]

\* Jobs are alike: the first that is free is the next to run.
StartUpdate(j, force) ==
  /\ runs < MaxRuns /\ job[j].at = "idle" /\ \A i \in Jobs : i < j => job[i].at # "idle"
  /\ updating' = updating + 1
  /\ Set(j, [NoJob EXCEPT !.at = "walk", !.force = force, !.todo = Files \union Folders,
                          !.id = updating + 1])
  /\ disturbed' = (Running # {} \/ events # <<>> \/ writing # NoWork \/ sync # NoSync)
  /\ runs' = runs + 1
  /\ UNCHANGED <<disk, standing, songs, dirs, events, writing, catalog, sync, changes>>

\* A file is read again when it has no row, or a row older than it.
NeedsReading(f) == ~HasRow(f) \/ songs[f].mtime < disk[f]

Visit(j, e) ==
  /\ job[j].at = "walk" /\ e \in job[j].todo
  /\ e \in Files => FolderOf[e] \notin job[j].todo
  /\ IF e \in Folders
     THEN /\ IF e \in standing THEN dirs' = dirs \union {e} ELSE UNCHANGED dirs
          /\ Set(j, [job[j] EXCEPT !.todo = @ \ {e}])
     ELSE /\ Set(j, [job[j] EXCEPT !.todo = @ \ {e},
                       !.files = IF Present(e) /\ (job[j].force \/ NeedsReading(e))
                                 THEN @ \union {e} ELSE @])
          /\ UNCHANGED dirs
  /\ UNCHANGED <<disk, standing, songs, updating, events, writing, catalog, sync, disturbed, changes, runs>>

\* The tags of all files are read before the first row is written.
Extract(j) ==
  /\ job[j].at = "walk" /\ job[j].todo = {}
  /\ IF job[j].files # {}
     THEN LET f == CHOOSE x \in job[j].files : TRUE
          IN  Set(j, [job[j] EXCEPT !.files = @ \ {f},
                        !.read = IF Present(f) THEN @ \union {[file |-> f, mtime |-> disk[f]]} ELSE @])
     ELSE Set(j, [job[j] EXCEPT !.at = "write"])
  /\ UNCHANGED <<disk, standing, songs, dirs, updating, events, writing, catalog, sync, disturbed, changes, runs>>

TakeSong(j) ==
  /\ job[j].at = "write" /\ job[j].write = NoWork
  /\ IF job[j].read # {}
     THEN LET r == CHOOSE x \in job[j].read : TRUE
          IN  Set(j, [job[j] EXCEPT !.read = @ \ {r},
                        !.write = [step |-> "upsert", file |-> r.file, mtime |-> r.mtime]])
     ELSE Set(j, [job[j] EXCEPT !.at = "prune",
                    !.missing = {p \in LocalSongsUnder(Root) : ~Present(p)}])
  /\ UNCHANGED <<disk, standing, songs, dirs, updating, events, writing, catalog, sync, disturbed, changes, runs>>

StoreSong(j) ==
  /\ job[j].at = "write" /\ job[j].write # NoWork
  /\ AddSong(job[j].write)
  /\ Set(j, [job[j] EXCEPT !.write = Onward(@)])
  /\ UNCHANGED <<disk, standing, updating, events, writing, catalog, sync, disturbed, changes, runs>>

\* The files found missing lose their rows, whatever became of them since.
PruneMissing(j) ==
  /\ job[j].at = "prune"
  /\ DeleteLocalSongs(job[j].missing)
  /\ Set(j, [job[j] EXCEPT !.at = "dirs", !.missing = {}])
  /\ UNCHANGED <<disk, standing, dirs, updating, events, writing, catalog, sync, disturbed, changes, runs>>

\* Mutant: directories are kept.
PruneNoDirectories(j) ==
  /\ job[j].at = "dirs" /\ dirs' = dirs /\ Set(j, [job[j] EXCEPT !.at = "end"])
  /\ UNCHANGED <<disk, standing, songs, updating, events, writing, catalog, sync, disturbed, changes, runs>>

PruneEmptyDirectories(j) ==
  /\ job[j].at = "dirs"
  /\ dirs' = dirs \ {d \in EmptyDirs : d \notin standing}
  /\ Set(j, [job[j] EXCEPT !.at = "end"])
  /\ UNCHANGED <<disk, standing, songs, updating, events, writing, catalog, sync, disturbed, changes, runs>>

\* Whichever job ends clears the id on record.  The walk may also fail at the root.
FinishUpdate(j) ==
  /\ job[j].at = "end" \/ (job[j].at = "walk" /\ job[j].todo = Files \union Folders)
  /\ Set(j, NoJob) /\ updating' = 0
  /\ UNCHANGED <<disk, standing, songs, dirs, events, writing, catalog, sync, disturbed, changes, runs>>

-----------------------------------------------------------------------------
(* The sync of a catalog: clear the rows of the source, then add each song. *)
StartSync ==
  /\ runs < MaxRuns /\ sync = NoSync /\ Remote # {}
  /\ sync' = [at |-> "clear", list |-> catalog, todo |-> catalog]   \* ping and list_all answered
  /\ runs' = runs + 1
  /\ UNCHANGED <<disk, standing, songs, dirs, job, updating, events, writing, catalog, disturbed, changes>>

ClearSource ==
  /\ sync.at = "clear"
  /\ Erase(DOMAIN songs \ Local)
  /\ sync' = [sync EXCEPT !.at = "add"]
  /\ UNCHANGED <<disk, standing, dirs, job, updating, events, writing, catalog, disturbed, changes, runs>>

\* Mutant: the song is stored like a local one.
AddAsLocal(s) ==
  /\ sync.at = "add" /\ s \in sync.todo
  /\ Upsert(s, 1, FALSE)
  /\ sync' = [sync EXCEPT !.todo = @ \ {s}]
  /\ UNCHANGED <<disk, standing, job, updating, events, writing, catalog, disturbed, changes, runs>>

\* add_song's three commits count as one: a song of a catalog is never told from
\* one half written, as its tags are left out.
AddSourceSong(s) ==
  /\ sync.at = "add" /\ s \in sync.todo
  /\ Upsert(s, 1, TRUE)
  /\ sync' = [sync EXCEPT !.todo = @ \ {s}]
  /\ UNCHANGED <<disk, standing, job, updating, events, writing, catalog, disturbed, changes, runs>>

\* Done, or given up at a song that cannot be added.
EndSync ==
  /\ sync.at = "add"
  /\ sync' = NoSync
  /\ UNCHANGED <<disk, standing, songs, dirs, job, updating, events, writing, catalog, disturbed, changes, runs>>

-----------------------------------------------------------------------------
LibraryNext ==
  \/ \E f \in Files : WriteFile(f) \/ RemoveFile(f)
  \/ \E d \in Folders : RemoveFolder(d)
  \/ \E s \in Remote : ChangeCatalog(s) \/ AddSourceSong(s)
  \/ Crash \/ WatcherSees \/ WatcherWrites
  \/ \E j \in Jobs :
       \/ \E force \in BOOLEAN : StartUpdate(j, force)
       \/ \E e \in Files \union Folders : Visit(j, e)
       \/ Extract(j) \/ TakeSong(j) \/ StoreSong(j) \/ PruneMissing(j)
       \/ PruneEmptyDirectories(j) \/ FinishUpdate(j)
  \/ StartSync \/ ClearSource \/ EndSync

LibrarySpec == LibraryInit /\ [][LibraryNext]_libvars

-----------------------------------------------------------------------------
LibraryTypeOK ==
  /\ disk \in [Files -> 0..MaxVersion] /\ standing \subseteq Folders
  /\ DOMAIN songs \subseteq Files \union Remote
  /\ \A p \in DOMAIN songs : songs[p].mtime \in 0..MaxVersion /\ songs[p].remote \in BOOLEAN
  /\ dirs \subseteq Folders \union {Mount}
  /\ updating \in 0..MaxRuns

\* An update that nothing else overlaps with makes the rows those of the disk, and
\* repairs what crashes and overlaps left behind: a song has a row exactly when
\* its file is there, no row is older than its file, the directories are those on
\* disk and of remote songs, and after a rescan every song has its file's tags.
CalmUpdateRepairs ==
  [][\A j \in Jobs :
       (job[j].at = "end" /\ job'[j] = NoJob /\ ~disturbed') =>
         /\ Local' = {f \in Files : Present(f)'}
         /\ \A f \in Local' : /\ songs'[f].mtime >= disk'[f]
                              /\ job[j].force => songs'[f].tags = <<disk'[f]>>
         /\ dirs' \ {Mount} = standing']_libvars

\* Whatever vanishes from the disk and whoever prunes: the rows of a remote catalog
\* go only when a sync that has its listing replaces them.
RemoteKept ==
  [][(DOMAIN songs \intersect Remote) \ DOMAIN songs' # {} => sync.at = "clear"]_libvars
=============================================================================
