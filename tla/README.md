# rmpd in TLA+

rmpd is a music player daemon that speaks the MPD protocol. This directory
holds TLA+ models of its core, TLC configurations that check them on small
instances and TLAPS proofs of what holds for every instance. `PROJECT.json`
lists the runs, the source lines every definition models, the mutants that show
each property can fail, the hazards and the theorems.

To run: `tlc -config MCShared.cfg MCShared.tla` and so on for every `.cfg`;
`tlapm QueueProofs.tla` and so on for every `*Proofs.tla`.

## 1. Inventory

One tokio process. Every TCP connection is a task (`server.rs`); a command is a
handler in `rmpd-protocol/src/commands/` over the shared `AppState`: `queue`,
`status`, `engine`, `outputs`, the database (each behind a `tokio::sync::RwLock`
or a mutex), the event bus (a broadcast channel of 4096) and the message broker.
A handler takes locks one statement at a time, so most commands are several
atomic steps. The engine decodes on an OS thread; it talks to the rest through
atomics, the look-ahead slot and events. A manager task turns the engine's
events into the next song.

| component | state | operations | talks to | hard | what makes it correct |
|---|---|---|---|---|---|
| Play queue, `rmpd-core/src/queue.rs` | items (id, position, song, priority, range, tags), next id, version | 18 mutating methods | called under the queue lock | long call sequences; the counter wraps | ids unique and never reused; stored positions true; version moves with every change |
| Queue commands, `commands/queue.rs`, `utils.rs`, `playlists.rs` | none of their own; `status.playlist_version`, `playlist_length`, `current_song` | add, move, delete, swap, shuffle, prio, range, tags, load, plchanges | queue, then status, in separate locks | checks under one lock, edits under the next; relative positions | an accepted edit does what it says although the queue changed; pollers end with the queue |
| Playback commands, `commands/playback.rs`, `options.rs` | `status.state`, `current_song`, `next_song`, options | play, playid, next, previous, pause, stop, options | engine write guard, status, bus | two players race; pause decided on an atomic | what is on record is what plays |
| Queue playback manager, `queue_playback.rs` | its place in the event stream | song finished, advanced, changed, position | engine, status, queue, bus | events handled late; guards held across awaits | a song is followed by the right one; the look-ahead is right; never blocks itself |
| Engine, `rmpd-player/src/engine.rs` | current song, look-ahead, state atomic, stop flag, thread, command channel | play, stop, set_pause, set_next_song, seek, outputs | thread join, events | the old thread runs on until it sees the flag | after stop there is silence |
| Message broker, `rmpd-core/src/messaging.rs` | mailboxes, subscriptions, counts per channel | register, unregister, subscribe, unsubscribe, send, read | called by connections | two maps that must agree; inbox cap | counts are the subscriptions; caps hold |
| Connection and idle, `server.rs`, `event.rs` | bus receiver, channel list, idle filter | idle, noidle, clean-up | broker, bus | lag, also while idle drains; wake-up on the empty edge only; early exit by `?` | no wake-up and no change is lost but by a lag in the middle of a drain |
| Connection loop, `server.rs`, `connection.rs` | the batch, permissions, tag mask | lines, lists, idle, timeouts, close, kill | all handlers | partial lines dropped in `select!`; answers inside a list | client and server never lose step |
| Locks of AppState, `state.rs`, `partition.rs` | eight `RwLock`s, each with its line of tasks | all handlers, the manager, the save at the end | each other | guards that last to the end of a `match`; a reader stands behind a writer that waits | nobody waits in a circle |
| Decode thread, `engine.rs`, `crossfade.rs`, `output_slot.rs` | decoders, position, blend, cached outputs | play, seek, range, advance, crossfade, MixRamp, DoP | fan-out, engine, manager | seeks during a blend; outputs left in a cache; songs of other formats | the position is what is heard; the output fits the song; nobody advances early |
| Output fan-out, `multi_output.rs` | a channel and a thread per output, active and paused flags | write, pause, resume, stop, drop | decode thread, backends | full channels, messages dropped by `try_send`, hanging devices | nothing blocks for good; pause is heard; the primary loses nothing |
| Output backends, `output.rs`, `pipewire_output.rs`, `dop_output.rs`, `resampler.rs`, `conversion.rs`, `httpd_output.rs` | device streams, callback buffer, resampler tail; the list of listeners | start, write, pause, resume, stop | worker thread, audio callback, accept thread | bounded waits, lost devices, a loop that outlives its stop | accepted audio is played; silence when paused; calls return; listeners stay aligned |
| State file and startup, `statefile.rs`, `app.rs` | the file | save, restore, resume | queue, engine | crash between steps; two savers; songs missing from the database | the file is whole; the song resumed is the song saved |
| Partitions and outputs, `partition.rs`, `commands/partition.rs`, `commands/outputs.rs` | map of partitions, outputs and their owners | create, delete, switch, move, enable | every partition's AppState, engine | move against delete, toggles against each other | an output has one owner; the engine plays to the enabled ones |
| Library jobs, `scanner.rs`, `watcher.rs`, `rmpd-source/src/lib.rs` | rows of songs, tags, directories; job id | update, rescan, watch, sync | database, status, bus | jobs at once, crashes between statements, a disk that changes | rows are the disk's; remote rows survive |
| Stored playlists, `commands/playlists.rs` | files | save, edit, rename, load | database, queue | no lock between read and write | an edit is the edit; a load stands together |
| Searches and listings, `commands/database.rs`, `filter.rs`, `database.rs` | none | find, search, list, count, lsinfo, listall | database | several paths to the same answer: SQL, memory, fallback tags | the answers agree with each other |
| Filter syntax, `filter.rs` | none | parse | handlers | brackets, quoting, two forms of a comparison | what is read is what the language says |
| Stickers, `commands/stickers.rs` | rows | set, inc, dec, delete | database, bus | statements interleave | listeners hear of every change |
| Artwork, `commands/database.rs`, `artwork.rs` | the cache | albumart, readpicture | files, tags, servers | an image fetched by many requests while it changes and the cache loses it with its song | the chunks are of one image |
| Mounts, `commands/storage.rs`, `storage.rs` | the registry | mount, unmount, listmounts | the system | three steps per command | what is listed is what is mounted |
| Metadata, cue sheets, fingerprints, sources, plugins, MPRIS, DSP, discovery, config | files, device and network I/O | I/O and conversions | - | little of it is about order | not modelled, see section 8 |

## 2. Modules

    Loops           a for loop as a recursive function of its rounds; a filter
      LoopsProofs     lemmas about both, and about induction over rounds
    QueueOps        the queue as a record and its methods as operators
      QueueOpsProofs  lemmas about them
      QueueCommands two connections running queue commands, lock by lock
        QueueCommandsProofs theorems about them (over QueueOpsProofs)
        MCQueueCommands
    MCShared        what connections share, a component per behaviour
      Queue           the queue as a state machine: any method in any order
        QueueProofs     theorems about Queue (over QueueOpsProofs)
      MessageBroker   the broker's maps and methods
        Messaging       connections, event bus and idle over the broker
      Locks           the handlers' routes through the locks of AppState
      SharedProofs    theorems about MessageBroker, Messaging and Locks
    Playback        playback commands, manager, engine and thread
      PlaybackProofs  theorems about them
      MCPlayback
    MCPlayer        the player below the engine, a component per behaviour
      FanOut          MultiOutput: workers, channels, flags
      DecodeThread    the playback thread, its outputs, seeks and blends
      AudioDevice     cpal, PipeWire and DoP behind one output
      Httpd           the streaming output
      PlayerProofs    theorems about all four
    MCServer        the server around the player, a component per behaviour
      Server          the eight of its components that keep state, together
      Partitions      partitions, outputs and their owners
      Library         scanner, watcher, sync
      StoredPlaylists playlist files
      StateFile       saves, crashes, starts
        Snapshot        what the state file promises
      Connection      the loop of one client, command lists, idle
      Stickers
      Queries         find, list, count, listings
      FilterSyntax    the parser of filters
      Artwork         albumart, readpicture and their cache
      Mounts          mount, unmount, listmounts
      ServerProofs    theorems about the components of Server

`QueueOps` is the component everything about the queue composes:
`Queue` calls its operators directly, `QueueCommands` calls them from
handlers. `Messaging` extends `MessageBroker` and uses its actions inside its
own. `Playback` has a smaller queue (the ids in order; two edits), as only
the order and the identity of songs reach the player.

**QueueOps, Queue** (`rmpd-core/src/queue.rs`). An operator takes the queue and
returns it changed, or unchanged where the method returns early. The id counter
is a u32 that wraps and skips 0 (`IdSpace` is its number of values); versions
grow by one per call as in the code, which for `shuffle` of a queue of one song
is without any change of the items. `Queue` has one action per method, `DoAdd`
to `DoClearTags`. A shuffle is any permutation.

**QueueCommands** (`commands/queue.rs`, `utils.rs`, `playlists.rs`, `helpers.rs`).
`pc`, `cmd` and `loc` are a handler's next step, command and locals. A step is
what the handler does under one lock: read the length, look up the id, read the
current song from status, change the queue, and `update_playlist_version`,
which holds status and queue together. Positions are resolved as the code does,
the absolute and relative ones of an insertion on u32 and those of a move on
i64. `poll` is a client: it reads the version and the length from status, and if
they changed it sends `plchanges` with the version it has and keeps a copy of
the queue in `mirror`. A handler that changes the queue song by song under one lock is a loop with
a name (`MoveEach`, `PutAll`, `DeleteEach` and so on), a recursive function of its rounds. `torn` is
history: a range move broke off midway and nothing was published since. One model value stands for each
song, tag value and range.

**MessageBroker, Messaging** (`messaging.rs`, `commands/messaging.rs`,
`event.rs`, `server.rs`). A broker method is one action, as it runs under the
broker's lock. A connection's `mode` is where its task is; a handler that has
changed the broker still has to emit (`emitting`), which is a step of its own.
`rx` is what the connection's broadcast receiver holds; at `BusCap` the oldest
event is dropped, and `overwritten` is what the receiver will report as a lag. idle waits for one event (`TakeEvent`)
and then drains, one `try_recv` a step (`DrainEvent`), while other tasks go on emitting. An empty backlog ends the
drain (`DrainEnds`); so does a lag (`DrainLagged`, `server.rs:721`: the error ends the `while let` and is dropped),
and what was overwritten is then in nobody's hands. A lag that idle meets while it waits is answered with
everything the client watches (`IdleLagged`). `Disconnect` is the orderly exit and cleans
up; `Abort` is an I/O error, which leaves the loop by `?` and does not. `owed` and
`unread` record what a client was not told and not read yet, and `lost` is history: what of it a drain has dropped.

**Playback** (`commands/playback.rs`, `commands/options.rs`, `queue_playback.rs`,
`engine.rs`). Processes are the connections and the manager; the engine's write
guard, held from `engine.play` to the end of the statement or the `match`, is
`owner`. The thread is `thread`: opening (its startup), looping (at the top of
the loop, where it looks at the stop flag and pause), decoding. `inbox` is the
backlog of the manager. `atomic` is the engine's own state, `status` the
one clients see. A song may be restricted to a range (`Ranged`), may have a format
that the open output cannot take (`Foreign`), may fail to resolve, and a decoder or
an output may fail (`failures`).

**Locks** (`state.rs` and every handler that takes two locks). The other modules give a handler the locks
it holds as one step; here only the locks are left. A handler is a `route`, a sequence of reads, writes
and drops put together from `Reads`, `Writes`, `Within` and `Then`; one that branches is a set of them. Where a guard
is a temporary, Rust keeps it to the end of the statement, or of the `match` it is the scrutinee of: `Record` is
engine, status and queue, one inside the other. `line` is the queue of tokio's fair lock: `Ask` joins it, `Grant`
takes who stands first as soon as no holder bars it, so that a reader waits behind a writer that waits. What a handler
awaits under a lock beside locks (a song's file, the thread's join) returns. The manager's second request for the engine with
`single` on is left to Playback, where it is disagreement 3. `Rank` is the order most handlers keep to: engine,
status, queue, then the rest.

**FanOut** (`multi_output.rs`). One lifetime of a MultiOutput: the decode thread's call is
`call`, worker w takes from its channel of `Depth` messages. The primary's send blocks, a
secondary's `try_send` drops what does not fit, also Pause, Resume and Stop, which is why the flags are
read on every round. Chunks are counted. A device may refuse to start, fail to write or hang.

**DecodeThread** (`engine.rs`, `crossfade.rs`, `output_slot.rs`). One thread after another over the
cached outputs. Audio is measured in units, a song is a length, a rate and whether it is DSD;
the decoder gives `Buffer` units per read. Seeks arrive by the command channel; a blend has
the next song's decoder open beside the first and is given up at a seek. A MultiOutput is an entry
of `multis`: its key, whether it is active and whether its primary failed; FanOut says what it does
inside. DoP's loop drops what it cannot write without counting it.

**AudioDevice** (`output.rs`, `pipewire_output.rs`, `dop_output.rs`, `resampler.rs`, `conversion.rs`).
What becomes of the units one worker writes: the resampler holds back an incomplete chunk, the line (a
bounded channel, or PipeWire's) holds some, the callback takes one at a time. The device is
external and may be lost. PipeWire's loop and DoP are let be after a deadline. `heard`, `given` and
the like are history.

**Httpd** (`httpd_output.rs`). The accept thread and the worker share the client list and the
running flag; sockets fail at any operation; a client that asked for metadata has a block after each
`MetaInt` bytes.

**Partitions** (`partition.rs`, `commands/partition.rs`, `commands/outputs.rs`). Partition objects
outlive their names, so `assigned` belongs to objects. `moveoutput` is five steps under changing locks;
enable and disable are three: write, read all, tell the engine. Every connection may do all of it. `clashed` is
history, the outputs that two moves met on or whose target was deleted between look-up and assignment; `crossed`
too, that a toggle wrote after another had read what is enabled.

**Library** (`scanner.rs`, `watcher.rs`, `state.rs`, `database.rs`, `rmpd-source/src/lib.rs`). A step is a
statement, a transaction or a look at the disk; the version of a file is its mtime and stands for its
tags. Any number of jobs, the watcher and a sync overlap; a crash ends them all. Jobs are alike, so a new one
takes the first name that is free. `disturbed`
records that a job was not alone.

**StoredPlaylists** (`commands/playlists.rs`). A step is a look at the directory, a read, a
truncation, a write, or one lock of the queue. A playlist may be foreign (`.pls`) or unreadable.

**StateFile, Snapshot** (`statefile.rs`, `app.rs`). Two savers, the Ctrl-C task and the main task, share
one temporary file. The outputs start as they are configured (`ConfiguredOff`), and a start disables those the file names
on top. A save is open (truncate), write, rename; what another has open moves along with a
rename (`where`). `Die` is a crash at any step; EndSave also a full disk. `Snapshot` is the
promise: `stored` is a session as it was saved, whole; only a save that met another may leave it
empty. StateFile implements it with `stored <- path.text, saving <- Holding`.

**Connection** (`server.rs`, `connection.rs`). One client sends lines; the loop answers, collects
lists, idles. A line is named for what it is to the loop, an answer is a tuple. A half
line is lost when `select!` drops the read.

**Stickers, Artwork, Mounts** as their modules say: several clients, one statement, read or system call
a step. In Artwork the cached image goes when the song's row does (`Evict`: the artwork table cascades, `database.rs:482`
of rmpd-library), by a prune, the watcher or a resync, and cannot be stored while the row is away. **Queries** has no steps: it asks fixed questions of fixed libraries and compares the
answers of different commands. **FilterSyntax** is a recursive-descent parser over tokens, compared
with the grammar; the client mistypes up to `MaxTypos` tokens.

### Components that share no state

MCShared, MCPlayer and MCServer hold several components in one run. `part` is chosen at the start and never
changes: each behaviour is one component's, the others keep an initial state. So the state count is the
sum, not the product, and every component is explored in full, as it would be alone. Nothing
is claimed of their composition. In MCPlayer they do meet in the program, by calls: each takes what
the other does as an action of its environment (FanOut accepts any call DecodeThread may make, AudioDevice any
call of a worker).

### Workloads

What connections may send is a constant: a set of workloads, each the commands per
connection and the state they start from. The variable `workload` holds the one
in use and never changes. One run then covers several situations: no state is
larger than with one workload, and every situation is explored in full.

## 3. Runs

| run | checks | what it shows |
|---|---|---|
| MCShared | ItemsAddressed, IdsNeverReused, VersionTellsChange, ItemsKeepTheirData | all 18 methods of the queue in any order keep ids, positions, the version and item data right |
| | BooksAgree, NoLostWakeup, NoLostChange, WakesUp | the broker's two maps and a connection's list agree; no wake-up and no change is lost, but for what the bus overwrites in the middle of a drain |
| | NoWaitCycle | three tasks over the locks of AppState, by the order or with the queue left as it is: nobody waits in a circle |
| MCSharedSkip | NoWaitCycle (violated) | `next` beside two edits: all three wait for ever |
| MCQueueCommands | StatusAgrees, AddedWhereAsked, MoveKeepsOrder, TagsOnlyOnRemote | two connections whose handlers interleave at every lock: what an accepted command did is what it says, and status and a client that polls have the queue |
| MCQueueCommandsFindAdd | AddedBlockMoved (violated) | `findadd` to the front tears its block apart |
| MCQueueCommandsRelative | CurrentPositionIsCurrent (violated) | relative positions count from a position no edit updates |
| MCPlayback | StoppedIsSilent, LookaheadRefed, RecordedIsPlaying | whatever two connections, the manager and the thread do, and whatever fails: a stopped engine is silent, and the song on record after a play is the one the engine is on |
| MCPlaybackLive | CommandsComplete, PlaysThrough | every command and event is dealt with, and the queue is played to its end |
| MCPlaybackSingle | CommandsComplete (violated) | with `single` on the manager waits for itself |
| MCPlaybackSkip | LookaheadFollows (violated) | after `next` the look-ahead stays empty |
| MCPlayer | PlayerTypeOK, PauseObeyed, NothingLost, PositionTrue, DeviceMatchesSong, ListenersAligned, CallsReturn, AdvanceNearEnd | below the engine: a pause is heard, audio is not lost, positions are true, outputs fit their songs, calls return although channels are full and devices fail |
| MCPlayerAudible | AudibleWhilePlaying (violated) | after pause and play of another song the outputs are still paused |
| MCServer | ServerTypeOK, OutputsFollow, AnswersInStep, StickersTold, AnswersAgree, FilterRead, PictureWhole, MountsListed, CalmUpdateRepairs, RemoteKept, EditAsAsked, LoadStandsTogether, SnapshotKept, RestoredAlike | each component of the server around the player keeps its promise through interleavings, failures, crashes and restarts |

Some properties are conjunctions of what used to be asked one by one: ItemsAddressed is
PositionsMatch and UniqueIds; StatusAgrees is
LengthSettles and MirrorFresh; AddedWhereAsked is AddLandsAtPosition and BlockAddedTogether; BooksAgree is
CountsMatch, InboxBounded, ListsAgree and ClosedIsForgotten; PauseObeyed, NothingLost and
CallsReturn are written out in MCPlayer, and OutputsFollow (OutputsOwned and EngineFollows) in Partitions. The type invariants of Queue, QueueCommands and Playback are
proved (QueueSane, CommandsSane, PlaybackTypes), and the broker's is part of its proof.

Deadlock is not checked where a run's bound on commands, changes or events lets
the system stop; that it does not stop early is what CommandsComplete, WakesUp and CallsReturn
are about.

### Bounds

- **MCShared**, Queue: three songs at most, versions to 5, ids to 5 of 16. Three items
  is the fewest where a swap, a move in both directions and a middle position
  differ; four changes are enough to fill the queue, drop an item and add again.
  The wrap of the counter is left to the proof (`QueueSane`).
  Messaging: two connections, one channel, caps of two messages and one
  subscription, a bus of one, three events. Two events overflow the bus before an idle or in the middle of its drain,
  and the third comes after; two messages fill the inbox. One connection watches `message`, the other every subsystem;
  each keeps its filter.
  Locks: three tasks, each with one command it repeats, in twelve mixes. A cycle by way of a fair line needs
  a holder, a writer in line and a reader behind it, so two tasks would miss it. The first nine mixes bring
  the commands that keep to the order beside others that write what they read; the last three have the commands that
  do not, and no writer of the queue. The routes are finite, so nothing else is bounded.
- **MCQueueCommands**: queues of two or three songs, two connections, three changes
  before no new command is accepted. A race here is one handler between two of
  its locks and one complete command of the other; three changes leave room
  for another command before or after. `Shared` is about publishing and polling,
  `Blocks` about moves, beside a client that polls, `Adds` about insertions of several songs, `Edits` about ids
  and tags. u32 has 32 values: positions stay below 8, and a difference that
  underflows becomes a number larger than any position, as with 2^32.
- **MCPlayback**: three songs of which the third has a range, two connections and
  two commands, over two workloads: everything, with failures, and starts only.
  Two commands are one that races with another; the events of both are in the
  backlog. **MCPlaybackLive** has one listener, a second song the output
  cannot take, and songs that outlast the write of their status (below).

- **MCPlayer**: two outputs, channels of one message, three chunks and two pauses: one chunk in hand, one
  queued and one that does not fit. Songs of 9, 1 and 4 units with buffers of 2, a crossfade of 6 and
  blend windows of 4 and 1: a song longer and songs shorter than the crossfade, reads that are short,
  a blend that drops audio of the outgoing song, a DSD song of a rate the device has and a rate it lacks. Three calls and two seeks: play, another play, and a stop or
  a seek between. A device gets up to seven units, three resampler chunks and one unit over. Two
  listeners, metadata every three bytes, writes of one and four bytes: blocks at the start, inside and at
  the end of a write, two in one write.
- **MCServer**, Partitions: two connections that may do everything, in two parts. One has two names and the default, so
  that the limit of three is met, and one output both connections may move, past any clash (`MovesOnly`). The other has
  two outputs that both connections move and toggle and one partition that comes and goes, up to the first clash (`ToTheFirstClash`).
  Library: a file at the root, one in a folder, a song of a catalog; two jobs, two runs each at
  most, a change of the disk or catalog and a crash. StoredPlaylists: two editors, two edits
  each way, two names, each playlist missing, readable or not; without a current song only where both can be read. StateFile: a queue of five with two songs missing
  before the current one and another after it, where the position does go wrong; one output that
  the configuration disables, one that a client may; every crash point.
  Connection: four lines of ten kinds. Stickers: three writes, i32 of range 3. Queries: libraries
  and questions enumerated in `MCStores` and `MCQuestions`. FilterSyntax: one typo in sentences of all forms.
  Artwork: images of less than two chunks, of two, and too large; two changes or evictions, a fetch per client.
  Mounts: one point, two clients, five commands: mount, mount beside it, unmount, mount again.

### Fairness

- Connections' tasks and the manager: weak fairness of each task's steps. The tokio
  runtime polls every task that is ready. A client owes nothing: `Request`,
  `BeginIdle`, `NoIdle` and the like have no fairness.
- The thread: weak fairness of opening, looping, decoding, which is an OS thread that
  runs unless it is paused. A song that ends has strong fairness: it is enabled again
  and again between chunks and a file has finitely many; pausing for good
  disables it for good, and PlaysThrough says so. A radio stream does not end
  and is outside this run.
- Locks in Playback: a waiting task is enabled when the lock is free. The fair queue of
  tokio's lock gives at least this.
- FanOut: weak fairness of the call under way and of the primary's worker, which are threads that
  run. Nothing of when the decode thread calls, nor of a secondary's worker: its device may hang in a write,
  and NothingHangs holds all the same.
- AudioDevice: weak fairness of the call under way and of the callback, which the system's audio
  thread makes while the stream runs and the device is there. DeviceReturns names the two cases where a call
  waits for a callback that never comes.

`Lasting` says that a song lasts longer than the few instructions between the
return of `engine.play` and the write of status. Without it the manager may find
no current song when the first event comes, and nothing follows; the safety run
does without the assumption, the liveness run needs it.

## 4. What is proved

Every safety property of the runs is proved but those the end of this section lists. All theorems hold for
every number of clients, outputs and listeners, every length of queue, song and file, every cap and bound; the
"assumption" column has what is asked beyond the named assumptions of the modules on their constants.

### The queue

`QueueProofs.tla`:

| theorem | statement | assumption |
|---|---|---|
| QueueSane | `QueueSpec => [](QueueTypeOK /\ PositionsMatch /\ IdNeverZero)` | none |
| QueueIdsUnique | `QueueSpec => [](ItemsAddressed /\ IdsBelowNext)` | `IdLimit < IdSpace`: the counter has not wrapped |
| QueueIdsFresh | `QueueSpec => IdsNeverReused` | the same |
| QueueVersionTells | `QueueSpec => VersionTellsChange` | none |
| QueueKeepsData | `QueueSpec => ItemsKeepTheirData` | the counter has not wrapped |

The argument. PositionsMatch and IdNeverZero with the type are inductive together
(`Sane`): every method that changes the order ends in `reindex`, and a
new item is put at the end by `add` or followed by a `reindex`. UniqueIds is
not inductive alone: a fresh id differs from those in the queue only because they are
all below the counter, so `Distinct` is UniqueIds with IdsBelowNext. Every
method has one of two shapes: `Keeps`, the new items are old ones, each from a
different place (`TakenFrom`, an injection of positions), with the fields clients
may edit changed in a set of named items, or `Inserted`, one item with the next id is put in at one place.
QueueOpsProofs shows this method by method, the wrap of the counter included; invariants and action
properties then follow from the shape alone, QueueKeepsData from the names of the items a `Keeps` may
edit. The library's operators (`RemoveAt`, `InsertAt` and so on) are characterised element by element first.

The assumption `IdLimit < IdSpace` is the code's own: at one id per added song a
u32 wraps after four thousand million adds, and `allocate_id` skips 0
but not ids in use. Past the wrap UniqueIds is false for the code as for the model.

### Queue commands

`QueueCommandsProofs.tla`:

| theorem | statement | assumption |
|---|---|---|
| CommandsSane | `Spec => [](TypeOK /\ Sane(queue))` | none |
| StatusAgreesAlways | `Spec => []StatusAgrees` | none |
| MovesKeepOrder | `Spec => MoveKeepsOrder` | none |
| TagsRemote | `Spec => [](Unwrapped => TagsOnlyOnRemote)` | in the statement: the counter has not wrapped |
| AddsWhereAsked | `Spec /\ []Unwrapped => AddedWhereAsked` | the same |

The argument. `CommandsInv` has the queue sane at every step, and `Control`: where a handler is, which command it
is at and what it remembers (a start below an end, a position or none). No such fact relates the locals to the
queue: other connections change it between the locks, so what a handler checked is known to be true of an
earlier queue only. `Does` says what any step is to all others: it *reads* (the queue stays), it *writes* (the
queue leads to a new one, the handler goes on to publish), it *tears* (a range move breaks off midway), it
*publishes* (status has version and length of the queue as it is) or it *polls*. `Leads` is what one write, however
many calls it makes, has in common with any other but `addtagid`'s: the queue stays sane, the version does not fall, and while
the counter has not wrapped each item is an old one with its id, song and tags or has an id not handed out before and no tags.

- *StatusAgreesAlways*: LengthSettles is inductive as it stands, since whoever publishes reads status and queue
  under their locks together. MirrorFresh is not: a client has read version and length from status and fetches the
  items later. `PollsKnow` says that what it read is an older version or the queue's length at rest;
  `MirrorsBehind`, that no client is ahead of status.
- *MovesKeepOrder*, *AddsWhereAsked*: the loops of the handlers, round by round. After i rounds of a range move, i songs of
  the block have passed (`BlockGone`); after i rounds of an insertion the songs stand as a block (`Spliced`). A round that
  fails leaves `ok` false, so an OK means that all rounds went through. The new ids of AddedWhereAsked are those the
  counter gives in a row, which is where the wrap matters.
- *TagsRemote*: `addtagid` looks a song up under one lock and edits it under the next. That the id is still the same
  song's, or nobody's, is `RemoteId`, which is inductive because ids are not handed out twice.

`Unwrapped` is `queue.version < IdSpace - 1`: ids are handed out by calls that raise the version, so a version below the
counter's range means the counter did not come round. The bound is on the run, not on the constants,
because QueueCommands bounds commands and not songs per command. `CommandConstants` gives the commands their
shapes (`Command`, numbers where the parser reads u32 and the like); `None \notin Nat` says that a position that was not
given is none of those that can be.

A loop is a recursive function over its rounds. Induction over rounds is done by the least round at which the claim
fails (`LeastNat`, from the well-foundedness of Nat, and `UpTo`), since the library's induction theorems
take an operator. That such a function exists (`LoopRuns`) is proved in the same way.

### Messages, events and idle

`SharedProofs.tla` proves, for every number of connections, channels, texts and events,
every cap and every capacity of the bus, with connections that may break at any time:

| theorem | statement | assumption |
|---|---|---|
| BrokerCorrect | `BrokerSpec => [](CountsMatch /\ InboxBounded)` | none beyond the constants' |
| MessagingImplementsBroker | `Spec => BrokerSpec` | the same |
| MessagingBooks | `Spec => []BooksAgree` | the same |
| MessagingTellsChanges | `Spec => []NoLostChange` | `Steady`: a client's idles all name the same subsystems |
| MessagingWakes | `Spec => []NoLostWakeup` | `Attentive`: a client's idles all include `message` |

The argument. The broker's invariant, with its type, is inductive over the methods; the counts need
that ids are finite in number, so that a subscriber more or less is one in the cardinality. A step of
Messaging is at most one call of the broker (`StepCallsBroker`), so the invariant carries over.
`Books` adds that an id belongs to one connection only and that an open connection's list is what the
broker has under its id: without the first, one connection's close could take another's
mailbox. `Wires` is what holds of the ends of the bus between steps. On it rest `Heard`,
that what a client is owed is `Pending` (in its backlog, among what a drain has in hand, overwritten or lost), and `Wake`, that for *every* open
connection, idle or not, an inbox with something in it that the client was not told of has an
announcement that is still owed to it or in an emission that is pending. A step of the drain moves an event from the backlog to
`drained`, the end of the drain to the answer, or drops it if no idle of this client asks for it; a lag meanwhile moves what was overwritten to
`lost`, which is the exception both properties make. NoLostWakeup speaks only of
idle connections and is not inductive: the message may arrive while the client is still busy.
The two assumptions are needed: the drain of one idle discards what only the next one asks for
(section 5).

### Playback

`PlaybackProofs.tla`:

| theorem | statement | assumption |
|---|---|---|
| PlaybackTypes | `Spec => []TypeOK` | none |
| PlaybackSilence | `Spec => []StoppedIsSilent` | none |
| PlaybackRecords | `Spec => RecordedIsPlaying` | none |
| PlaybackRefeeds | `Spec => []LookaheadRefed` | none |

The argument. `PlaybackInv` is the conjunction of `Shape`, types with what each handler's locals are at each place;
`Guarded`, that who joins a thread, records a song or tells of it holds the engine's write guard; `Unrecorded`, that until the
song is recorded the engine is on the one that was started and has no look-ahead; and `Silent`, that an engine
without a song has no thread and is stopped. StoppedIsSilent is `Silent`; it needs `Guarded`, for two starts at
once could leave a thread behind that nobody joins. PlaybackRecords is an action property: at the step that
records, `Unrecorded` says what the engine plays, and RecordedIsPlaying leaves `resume` out as section 6 says.
LookaheadRefed needs a second invariant, `LookaheadInv`: where connections only start, stop and pause and nothing fails
(`Plainly`), the commands are those (`PlainCommands`), and `Refed`: as long as no change is `Pending` (an event
in the inbox, a handler between record and tell, the manager on its way), the look-ahead is what follows the current song, or
the manager holds the position and options from which it is about to find it, or the song it is about to feed. That such a
workload exists is not asked: MCPlayback's `Starts` is one, and the run meets it.

### The player below the engine

`PlayerProofs.tla`:

| theorem | statement | assumption |
|---|---|---|
| ThreadTypes | `ThreadSpec => []ThreadTypeOK` | none |
| ThreadPosition | `ThreadSpec => []PositionTrue` | none |
| ThreadOutput | `ThreadSpec => []DeviceMatchesSong` | none |
| ThreadAdvances | `ThreadSpec => AdvanceNearEnd` | none |
| PlayerTypes | `PlayerSpec => []PlayerTypeOK` | none |
| PlayerPauses | `PlayerSpec => []PauseObeyed` | none |
| PlayerKeepsAudio | `PlayerSpec => []NothingLost` | none |
| PlayerListeners | `PlayerSpec => []ListenersAligned` | none |
| PlayerThread | `PlayerSpec => [](PositionTrue /\ DeviceMatchesSong)` | none |

*The thread.* `ThreadInv` adds three things to the properties: a thread is on a song with the outputs it was started with
(`ThreadOnSong`), a playing thread has a cached output (`HasOutput`), and `BlendInv`, on which PositionTrue rests: while a blend's
incoming song still has audio, the blend has dropped none of the outgoing song, and the blend is within the crossfade
of its end. AdvanceNearEnd follows from the last part and from the read that found the end.

*FanOut.* PauseObeyed is about a worker that may be one chunk late. `FanOutInv` says when: a device does what its worker noted
(`DeviceFollows`), a worker that waits with nothing queued has noted what the flag says or is still to be told by the call under
way (`Settled`), and while a chunk is being written none was written late (`LateOnce`). `PrimaryLossless` needs that the primary's messages are never dropped.

*AudioDevice.* `Held` says where audio can be (only cpal's resampler holds units back, a call that is not under way has
nothing to send), so that `DeviceKeeps`, accepted = heard + cut + held, is inductive; `Quiet` bounds what a silenced device may
still play by what PipeWire's channel holds.

*Httpd.* A client's counter is the number of its bytes modulo the interval (`InStep`), through a write with several blocks;
the bytes a client got are those sent since it came, less its header. `Closed`: nothing is served before the start, nobody is
kept after the stop.

The four parts do not share a variable, and `PlayerInv` is the conjunction.

### The locks

`SharedProofs.tla` too:

| theorem | statement | assumption |
|---|---|---|
| LinesAreSound | `LocksSpec => []LocksInv` | none |
| NobodyWaitsInACircle | `LocksSpec => []NoWaitCycle` | `Separate`: in each mix all commands keep to the order, or none writes the queue |

For any number of tasks, each with any set of commands. `Separate` is what the code needs and not more: all commands but
`play` without a position, `next`, `previous` and `seekid` keep to the order (`Orderly`), and those are safe as long as
nobody writes the queue (`Harmless`); one of them beside two writers is disagreement 6. MCShared's mixes satisfy it.

The argument has two halves. *The order suffices* (ClimbingNeverCycles): in a set of tasks that all wait for one of the
set, the first in the line of any lock that one of them asks for waits for a holder, so take a lock of the highest rank;
its holder asks for a lock too, and its route climbs, so for a higher one. Only locks that somebody writes
count (`Written`): who is barred, or who bars, writes the lock. That the first in line is barred by a holder needs
`InLine`, that who stands in a line is about to take that lock and stands there once, which LinesAreSound proves
with the types. *The routes climb* (SeparateIsDisciplined): `Neat` says of a stretch which locks it takes, that it climbs and that
it drops all it took; NeatThen (one stretch after another) and NeatWithin (one within a guard of a lower lock, or of one
that nobody writes) carry it from `Reads` and `Writes` to the routes of all 25 kinds of command.

### The server around it

`ServerProofs.tla`:

| theorem | statement | assumption |
|---|---|---|
| FileIsSnapshot | `StateFileSpec => SnapshotKept`, that is StateFile implements Snapshot | `Disabled` has the empty set and is closed under the configured ones |
| RestoredAlikeAlways | `StateFileSpec => []StateFileTypeOK /\ RestoredAlike` | a session is one (`IsSession`) |
| MountsListedAlways | `MountsSpec => [](MountsTypeOK /\ MountsListed)` | "none" is not a mount point, NoShare no share |
| PictureWholeAlways | `ArtSpec => [](ArtTypeOK /\ PictureWhole)` | images are sequences of bytes, a chunk has at least one |
| StickersToldAlways | `StickersSpec => [](StickersTypeOK /\ StickersTold)` | MaxI32 is a natural number, the increments are in its width |
| OutputsFollowAlways | `PartitionsSpec => [](PartitionsTypeOK /\ OutputsFollow)` | none |
| AnswersInStepAlways | `ConnectionSpec => [](ConnectionTypeOK /\ AnswersInStep)` | none but that "lost" is no line |
| RemoteKeptAlways | `LibrarySpec => []LibraryTypeOK /\ RemoteKept` | files and songs of the catalog are apart; Mount is no folder on disk |
| CalmUpdateRepairsAlways | `LibrarySpec => CalmUpdateRepairs` | the same |
| StoredAlways | `StoredSpec => []StoredTypeOK` | commands are those the parser lets through (`EditCommands`, `LoadCommands`) |
| EditAsAskedAlways | `StoredSpec => EditAsAsked` | the same |
| LoadStandsTogetherAlways | `StoredSpec => LoadStandsTogether` | the same |
| ServerTypeOKAlways | `Components => []ServerTypeOK`, the conjunction of the eight specifications | those of its parts |

*FileIsSnapshot.* The invariant `FileInv` relates the two files to the savers. Each saver holds the session
as it is, since clients cannot change it while a read lock is held (`HeldTexts`). Once a saver has truncated the
temporary file it holds nothing older (`TempNew`), so what is renamed is of this session or empty.
`Alone` is what makes the difference between whole and empty: a saver that never met another works on
the temporary file under its name, and has filled it when it renames it. A write to a file another saver has
renamed already is a step of the snapshot too. Crash and restart keep the invariant because a stale temporary
file is truncated before it is used.

*RestoredAlikeAlways.* What a start reads is a session (`HeldSessions`: so are those in both files and in the savers' hands). The rest
is about `Shifted`, which lowers the saved position for each missing song before it, comparing with the position it has lowered already.
The comparison fails to see a missing song only after another has lowered the position, so with n missing before the saved song the result is too high by
fewer than n, and never too low (`ShiftedFinds`). The songs before the saved one that are known are how many `Selected` has let through by
then (`SelectedCounts`), so the song found is the saved one, or one after it past fewer than n known songs (`LeadsOn`). That it does pass
some is the flaw section 5 tells of; with one missing at most it passes none.

*MountsListedAlways.* `Stage` says what registry and system hold at each step of a command, as long as it is
alone on its point. `Booked` (registered exactly when mounted) is what makes `is_mounted`, which asks for
less than "registered", a sufficient check. Points do not disturb each other (`OtherPoints`).

*PictureWholeAlways.* A fetch has a prefix of the image it would be served now (`Follows`). For that to
stay so, whoever has missed the cache must bring what is there (`Agreed`): the image at its place, and a
cache that is empty or has it already. A fetch is certain (`sure`) only if it began while nobody was filling the
cache, and no change of the image could show in it. `ServeKeeps` shows that a chunk continues a prefix. An eviction
takes from a fetch nothing that the source does not still have, or the fetch is no longer certain (`EvictKeeps`): a change of what is
cached, and then the eviction of the old image, is how the code mixes two.

*StickersToldAlways.* A client that has changed a sticker and not yet emitted is at the step `notify`, and nowhere
else (`StickersInv`). A sum is taken modulo 2^w around 0, so that it stays in the width whatever is read.

*OutputsFollowAlways.* OutputsOwned is not inductive: between leaving one list and joining the other an output is on none, and
its owner is written last. `Owned` says that every output is `AtRest` (on no list but its owner's) or `Carried` by a
command under way; `OnTheMove`, what that command knows: a partition not yet asked is among the `rest`, where
the scan found the output it still is, after it left nobody has it, and the list it joins is still a partition's.
`Listed` is why two names never share a list: objects are not reused. `Followed` adds that whoever is about
to tell the engine holds the set that is enabled now. All of it is for any number of connections, every one of which moves,
creates, deletes and toggles: an output that two moves met on, or whose target was deleted under its move, is `clashed` and
no longer spoken of (`Tended` is about the others), and nothing is said of the engine from a toggle that wrote after another had read
the set (`crossed`) until one runs alone.

*AnswersInStepAlways.* `Owed` counts: outside a list and inside one the final answers are as many as the requests; while a list
runs or the client is in idle, one is owed; what a list has answered so far is all `list_OK`, so that whatever ends it
writes one final answer, at its end. `LineTaken` says what a line read does to the lists and to the requests,
`AnswerGiven` what an answer does to the final ones.

*RemoteKeptAlways.* What prunes and what the watcher deletes is what has no `remote` mark, so all rests on `Marked`: every row
of a song of the catalog has the mark. `Writers` says who may write it: a file's writer (watcher or job) has a file of the disk in hand at each
of its commits, across restarts, and only the sync writes the catalog's songs, with the mark, which `add_song` never takes back.

*CalmUpdateRepairsAlways.* CalmUpdateRepairs speaks of the end of a job, and nothing of it holds while the job runs. `Repairing`
says what does: a file on disk has a good row, or the job has it before it (`Queued`: in a folder to be visited, in the list of files,
among those read, or in hand); what was read is still what is on disk; and after each phase what that phase is for, so that at `prune`
the missing rows are just those without a file, and at `end` the directories stand. All of it is under `~disturbed`, whose other half is
`Calm`: no event waits, nobody else writes and there is one job. A crash or overlap before it leaves no trace, since
`Repairing` asks nothing of the rows a job finds when it starts (`StartRepairs`). `Sheltered`, that a file is in a folder on disk, is why
the directories come out right: a file is written into a folder that stands, and a folder goes with its files. A sync that begins beside the
job disturbs nothing, as `Marked` keeps its rows apart (`SyncRepairs`).

*EditAsAskedAlways.* As long as nobody else touches the directory (`alone`), the file is as a command found it until it writes, and the list it
writes is what the command makes of that (`Undisturbed`, with `InStage` for which commands are at which step);
that the list is what was asked for is `EditedFits`, a fact about sequences: what `Without` and `InsertedAt` take out and put
in, element by element, and `BlockMoved`, that a range taken out and put in at its destination is there whole, beside the rest in order.

*LoadStandsTogetherAlways.* `load` inserts its songs one by one at a position it clips to the queue's end at each round.
`InsertedTogether` shows by induction over the rounds that after i of them the first i songs stand at the position that
is right for the queue as it is. The queue between resolving and inserting is anybody's: the theorem asks nothing of it.

*ServerTypeOKAlways.* The components share no variable, so that each one's invariant gives its part.

### Only model-checked

- Liveness under fairness (CommandsComplete, PlaysThrough, WakesUp, CallsReturn) is out of TLAPS' reach here, as is ENABLED.
- AnswersAgree and FilterRead are about what RECURSIVE operators compute (whether a song matches a nested filter and the walk of the directories in Queries,
  the recursive descent of FilterSyntax). The provers have no backend for a module with such operators, and what they compute for every input is an induction over data.
- False by design, so never to be proved: the properties of the runs of section 5.

## 5. Disagreements between code and docs

Six runs expect a violation; each is a statement of the repository that the
code does not keep.

1. `findadd`, `searchadd` and the like with a position that leaves two or more
   songs to move: `add_songs_at_position` (`commands/utils.rs:162`) always moves the
   song at `start`, but after i moves the next added song is at `start + i`.
   The comment at 124 promises the block in one pass.
2. Relative positions (`+0`, `-0`) count from `status.current_song.position`, which no
   edit updates; `commands/queue.rs:20` calls it the position of the current song. When the queue
   shrank, the u32 subtraction at line 55 underflows.
3. `single` on: `queue_playback.rs:237` asks for the engine's write guard inside a `match`
   that holds it (line 197). The manager never returns, and commands that need the engine wait too.
4. After `next` or `previous` nobody feeds the look-ahead that `engine.play` cleared
   (`engine.rs:417` says the protocol does).
5. After a pause, playing another song of the same format takes the outputs from the cache
   (`engine.rs:633`) as the pause left them: `active` is false and nothing resumes them, so every
   write is dropped while the thread plays on. `multi_output.rs:52` says of `active` that it is false while
   paused or stopping.

6. `next` and `previous` (`commands/playback.rs:158`-159, 218-219) ask for status with the queue in hand, as `seekid`
   (322-325) does, and `play` without a position (27-30) for engine and status, while
   `update_playlist_version` (`helpers.rs:16`-18) and the arms of `play` ask for the queue with status in hand. With two
   edits beside it, `next` closes a circle: it reads the queue and asks for status; the first edit writes status and asks to
   read the queue; the second stands before it in the queue's line, to write. All three wait for ever, and every client
   with them. `engine.rs:412` (and 351) leaves status to the caller "to avoid deadlock".

Seen while modelling, and without a run of their own: a range move that fails midway, because the queue shrank after
its checks, has moved some songs and does not bump the version (`commands/queue.rs:135`-161), so a client that polls keeps
the old order until the next change (MirrorFresh excludes exactly this, by `torn`; the proof found it); `rangeid` checks the current song under
another lock (749); a broken connection leaves its mailbox behind (`server.rs:349`
against the clean-up at 516), which is why ClosedIsForgotten speaks of `closed` only;
an idle drain discards the subsystems its filter leaves out (`server.rs:714`), so a client that
varies its filter loses changes, which is why each connection keeps its filter; a bus that overflows in the middle of a drain ends it with an error
that is dropped (721), so those events are lost, although the arm for a lag reports everything "rather than lose events" (750); `single oneshot`
plays on (`queue_playback.rs:220`); `consume` leaves the last song (154); `next_song` in status is not updated on
automatic advance; AdvancedToNext handled after a user's play records a song that is not playing
(318); a decoder or output that fails ends the thread with the state still Play (`engine.rs:985`); the manager
ends for good when its receiver lags (96).

From the modules of this part:

- **Outputs.** A primary that failed leaves its MultiOutput in the cache (`engine.rs:595`, 978).
  `output_slot.rs:8` says the old output is torn down before a fresh one is built; it is built first. A
  crossfade into a song shorter than the fade drops samples and plays some twice. cpal's stop
  (`output.rs:315`) sends the resampler's tail with a blocking send: on a paused stream with a full channel the
  worker waits for ever; else the tail is mostly cut. A lost device is only logged, and the next write
  waits. httpd: a title that goes away stays shown.
- **Commands on outputs.** Two toggles at once may leave the engine with the older set; with no output
  enabled it is stopped but keeps its outputs. Two `moveoutput` at once put an output in two
  partitions; a `delpartition` between look-up and assignment loses it. The run and the proof go through these races and except them by name.
- **State file.** The position is compared already shifted, so with two missing songs before it another song is
  resumed (`app.rs:304`), past up to n - 1 known songs with n missing; the comment there has it point "at the right song". An empty file, which two savers can leave, is read as defaults, volume 0. The
  resume 100 ms after the start overrides what a client did. "Restore per-output enabled state" (`app.rs:267`)
  only disables: an output that the configuration disables and a client enabled comes back disabled.
- **Library.** The first of two jobs to end clears `updating_db` while the other runs. A sync is
  announced as a transaction (`rmpd-source/src/lib.rs:122`) and is none. `LIKE` without `ESCAPE` prunes
  directories with `%` or `_` in their name too widely.
- **Stored playlists.** Two editors lose an edit; an unreadable playlist is replaced by the songs added
  to it; comments are dropped; a failed write leaves an empty file and no event.
- **Stickers.** `inc` and `dec` lose updates between their read and write, and overflow an i32.
- **Connection.** The cap on a list is after a `continue` and never reached (`server.rs:403`); any line
  but `noidle` ends idle and is lost; a command list that fails on a nested command forgets its `list_OK`s.
- **Searches.** The base filter ignores case on ASCII (`LIKE`); `count` with a group counts a song once per row of the tag (`commands/database.rs:398`), so
  a song with the same value twice counts twice where `find` lists it once.
- **Artwork.** The cached image goes with the song's row, so a prune or resync in the middle of a fetch can serve the
  rest from the image the source has by then, and the client is not told.
- **Mounts.** Two mounts of one point both mount; the second is told that registration failed. A failed
  unmount removes the row all the same.

## 6. Properties left weaker on purpose

- RecordedIsPlaying is not stated for `play` without a position, which records the position
  of one song with the engine's other one when an edit came in between: the same stale
  position as in disagreement 2.
- LookaheadRefed is LookaheadFollows for the workload without next, previous, queue
  edits and failures: the premise picks the workload `Starts`.
- AudibleWhilePlaying and its opposite are disagreement 5; DeviceMatchesSong speaks of the format and the
  set of outputs only.
- PositionTrue allows a lag of less than a buffer for each blend given up: a blend that runs into the end of the
  incoming song drops what it read of the outgoing one beyond that end, uncounted (`engine.rs:846`). The statement without the lag
  held in a smaller instance and is false in general; the attempt to prove it showed why.
- PositionTrue does not speak of a song with a range: the code counts from the range's start, and after a seek
  from the file's.
- NothingLost is for the primary and for a device that was not stopped; secondaries drop by design, and DoP
  drops what does not fit.
- DeviceReturns leaves out a lost device and cpal's stop while paused with a tail (section 5).
- OutputsOwned says nothing of an output that two moves met on or whose target was deleted under its move; EngineFollows nothing
  from a toggle that overtook another until one has run alone. In both cases the code goes wrong (section 5).
- NoLostWakeup, NoLostChange and WakesUp except what the bus overwrote while an idle of that client was draining, which the code loses.
- MirrorFresh excludes the time from a range move that broke off midway to the next publication (section 5).
- CalmUpdateRepairs is about an update nothing overlapped with; EditAsAsked about an edit no other overlapped
  with; PictureWhole, MountsListed and Snapshot's `met` exclude their race in the same way, and only that. PictureWhole's is a change of
  the image the fetch is given: of what is not cached or being cached, or of what was, once it is evicted.
- RestoredAlike lets the current song be a later one by fewer known songs than are missing before it, as the code has it.
- AnswersInStep excludes a half line lost in idle.
- NoWaitCycle is for mixes that keep to the order or leave the queue as it is; the other mixes are
  disagreement 6.
- PlaysThrough excludes repeat and random, which never end, and `single on`, disagreement 3.

## 7. Plan

1. **Composition**: DecodeThread over FanOut's specification in place of the flags it keeps of it, and an
   abstract player (silent, playing or paused on one song) that Playback and DecodeThread implement.
2. **Proofs**: that a change QueueCommands makes is calls of Queue, as a refinement: all safety properties of the runs are
   proved but AnswersAgree and FilterRead.
3. **The rest of the backends**: null, pipe, fifo and recorder; the parser of command lines.

## 8. Not modelled

Left out for good: the parser of command lines and response formatting
(text; the parser of filters is modelled), metadata, cue sheets and fingerprints (file formats), filters and
encoders (numeric code on samples), discovery of neighbours (mDNS and SMB I/O), sources and plugins (HTTP;
a song that fails to resolve is a choice in Playback, a sync is in Library), MPRIS (an adaptor over
the same handlers), the command line, configuration and derive macros. In modelled components: volume,
replay gain and stream titles (they set a number or a text), regular expressions, AudioFormat, readcomments
and listfiles, symbolic links in the library, the limiter on new connections.
