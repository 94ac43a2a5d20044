------------------------------ MODULE QueueOps ------------------------------
(***************************************************************************)
(* The play queue of rmpd-core (queue.rs) as a value: a record of items,   *)
(* the id counter, the version and the name of the last loaded playlist,   *)
(* and one operator per mutating method.  Queue.tla makes a state machine  *)
(* of them; QueueCommands.tla and Playback.tla use them inside the         *)
(* handlers that hold the queue lock.                                      *)
(*                                                                         *)
(* Positions are 0-based as in the source; items[k] is at position k-1.    *)
(***************************************************************************)
EXTENDS Loops, SequencesExt

CONSTANTS
  Songs,       \* song payloads
  Priorities,  \* values of the u8 priority in use; 0 is the default
  Ranges,      \* playback ranges an item may be restricted to
  Tags,        \* tag names clients attach to items
  Values,      \* tag values
  Playlists,   \* names of stored playlists
  IdSpace,     \* number of values of the u32 id counter (2^32 in the code)
  None         \* Option::None: no range, no tag value, no position, no name

ASSUME QueueConstants ==
  /\ IdSpace \in Nat /\ IdSpace > 2
  /\ Priorities \subseteq Nat /\ 0 \in Priorities

TagMap == [Tags -> Values \union {None}]
NoTags == [t \in Tags |-> None]

Item == [id : Nat, position : Nat, song : Songs, priority : Priorities,
         range : Ranges \union {None}, tags : TagMap]

QueueType == [items : Seq(Item), next_id : 0 .. IdSpace - 1, version : Nat,
              last_loaded_playlist : Playlists \union {None}]

EmptyQueue == [items |-> <<>>, next_id |-> 0, version |-> 0,
               last_loaded_playlist |-> None]

-----------------------------------------------------------------------------
IdsOf(q)     == {q.items[i].id : i \in DOMAIN q.items}
IdSeq(q)     == [i \in DOMAIN q.items |-> q.items[i].id]
HasPos(q, p) == p < Len(q.items)
HasId(q, id) == \E i \in DOMAIN q.items : q.items[i].id = id
ItemAt(q, p) == q.items[p + 1]

\* 1-based index of the first item with this id (iter().position).
IndexOf(q, id) ==
  CHOOSE i \in DOMAIN q.items :
    /\ q.items[i].id = id
    /\ \A j \in DOMAIN q.items : j < i => q.items[j].id # id

Reindex(items) ==
  [i \in 1 .. Len(items) |-> [items[i] EXCEPT !.position = i - 1]]

Bumped(q) == [q EXCEPT !.version = @ + 1]

\* Mutant: forgets to renumber.
WithItemsUnnumbered(q, items) == Bumped([q EXCEPT !.items = items])

\* A mutation that renumbers the items and bumps the version.
WithItems(q, items) == Bumped([q EXCEPT !.items = Reindex(items)])

NewId(q) == IF q.next_id = 0 THEN 1 ELSE q.next_id
\* Mutant: the id handed out stays the next one.
AllocatedTwice(q) == [q EXCEPT !.next_id = NewId(q)]

Allocated(q) == [q EXCEPT !.next_id = (NewId(q) + 1) % IdSpace]

NewItem(id, pos, song) ==
  [id |-> id, position |-> pos, song |-> song, priority |-> 0,
   range |-> None, tags |-> NoTags]

-----------------------------------------------------------------------------
\* add pushes without renumbering: the position is the old length.
Add(q, song) ==
  Bumped([Allocated(q) EXCEPT
            !.items = Append(@, NewItem(NewId(q), Len(@), song))])

\* Songs added one after the other.
AddAll(q, songs) ==
  Looped(q, Len(songs), LAMBDA x, i : Add(x, songs[i]))

\* add_at clamps a position beyond the end to an append.
AddAt(q, song, pos) ==
  LET p    == IF pos = None THEN Len(q.items) ELSE pos
      item == NewItem(NewId(q), p, song)
  IN  WithItems(Allocated(q), IF p >= Len(q.items)
                              THEN Append(q.items, item)
                              ELSE InsertAt(q.items, p + 1, item))

Delete(q, pos) ==
  IF HasPos(q, pos) THEN WithItems(q, RemoveAt(q.items, pos + 1)) ELSE q

DeleteId(q, id) ==
  IF HasId(q, id) THEN WithItems(q, RemoveAt(q.items, IndexOf(q, id))) ELSE q

SetLastLoaded(q, name) == [q EXCEPT !.last_loaded_playlist = name]

\* Mutant: starts the ids over.
ClearRestart(q) == Bumped(EmptyQueue)

\* clear keeps next_id, so ids are not handed out twice across a clear.
Clear(q) ==
  Bumped(SetLastLoaded([q EXCEPT !.items = <<>>], None))

\* The items rearranged by f, a permutation of the indices in its domain.
Permuted(items, f) ==
  [i \in 1 .. Len(items) |-> IF i \in DOMAIN f THEN items[f[i]] ELSE items[i]]

\* 1-based indices of the positions [start, end) clipped to the queue.
Clip(q, start, end) ==
  {i \in DOMAIN q.items : start < i /\ i <= end}

Shuffle(q, f) == WithItems(q, Permuted(q.items, f))

\* Mutant: builds the moved item afresh from its id and song.
MoveItemAfresh(q, from, to) ==
  IF HasPos(q, from) /\ HasPos(q, to)
  THEN WithItems(q, InsertAt(RemoveAt(q.items, from + 1), to + 1,
                             NewItem(ItemAt(q, from).id, to, ItemAt(q, from).song)))
  ELSE q

MoveItem(q, from, to) ==
  IF HasPos(q, from) /\ HasPos(q, to)
  THEN WithItems(q, InsertAt(RemoveAt(q.items, from + 1), to + 1,
                             ItemAt(q, from)))
  ELSE q

MoveById(q, id, to) ==
  IF HasId(q, id) THEN MoveItem(q, IndexOf(q, id) - 1, to) ELSE q

Swap(q, p1, p2) ==
  IF HasPos(q, p1) /\ HasPos(q, p2)
  THEN WithItems(q, [q.items EXCEPT ![p1 + 1] = q.items[p2 + 1],
                                    ![p2 + 1] = q.items[p1 + 1]])
  ELSE q

SwapById(q, id1, id2) ==
  IF HasId(q, id1) /\ HasId(q, id2)
  THEN Swap(q, IndexOf(q, id1) - 1, IndexOf(q, id2) - 1)
  ELSE q

-----------------------------------------------------------------------------
\* Replace the items at the indices S by Edit(item); the version moves only
\* when bump holds.
EditItems(q, S, Edit(_), bump) ==
  LET edited == [q EXCEPT !.items = [i \in DOMAIN @ |->
                                       IF i \in S THEN Edit(@[i]) ELSE @[i]]]
  IN  IF bump THEN Bumped(edited) ELSE edited

SetPriorityRange(q, prio, start, end) ==
  LET S == Clip(q, start, end)
  IN  EditItems(q, S, LAMBDA it : [it EXCEPT !.priority = prio],
                \E i \in S : q.items[i].priority # prio)

\* Counts as a change even when the priority was already this one.
SetPriorityIds(q, prio, ids) ==
  LET S == {IndexOf(q, id) : id \in {x \in ids : HasId(q, x)}}
  IN  EditItems(q, S, LAMBDA it : [it EXCEPT !.priority = prio], S # {})

\* Mutant: the version stays.
SetRangeByIdQuietly(q, id, range) ==
  IF HasId(q, id)
  THEN EditItems(q, {IndexOf(q, id)}, LAMBDA it : [it EXCEPT !.range = range], FALSE)
  ELSE q

SetRangeById(q, id, range) ==
  IF HasId(q, id)
  THEN EditItems(q, {IndexOf(q, id)}, LAMBDA it : [it EXCEPT !.range = range],
                 q.items[IndexOf(q, id)].range # range)
  ELSE q

SetTag(q, id, tag, value) ==
  IF HasId(q, id)
  THEN EditItems(q, {IndexOf(q, id)},
                 LAMBDA it : [it EXCEPT !.tags[tag] = value],
                 q.items[IndexOf(q, id)].tags[tag] # value)
  ELSE q

AddTagById(q, id, tag, value) == SetTag(q, id, tag, value)
ClearTagById(q, id, tag)      == SetTag(q, id, tag, None)

ClearTagsById(q, id) ==
  IF HasId(q, id)
  THEN EditItems(q, {IndexOf(q, id)}, LAMBDA it : [it EXCEPT !.tags = NoTags],
                 q.items[IndexOf(q, id)].tags # NoTags)
  ELSE q
=============================================================================
