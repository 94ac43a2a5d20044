------------------------------- MODULE Queue -------------------------------
(***************************************************************************)
(* The play queue as a state machine: one action per mutating method of    *)
(* rmpd-core/src/queue.rs, called in any order with any argument, in range *)
(* or not.  Every caller holds the queue write lock, so a call is a step.  *)
(***************************************************************************)
EXTENDS QueueOps

CONSTANTS
  MaxLen,      \* bound: longest queue explored
  MaxVersion,  \* bound: number of version bumps explored
  IdLimit      \* bound: ids are handed out while the counter is below this

ASSUME QueueBounds ==
  /\ MaxLen \in Nat /\ MaxVersion \in Nat
  /\ IdLimit \in Nat /\ IdLimit <= IdSpace

VARIABLE queue

Positions == 0 .. MaxLen
Ids       == 0 .. IdLimit

QueueInit == queue = EmptyQueue

CanAdd == Len(queue.items) < MaxLen /\ queue.next_id < IdLimit

DoAdd   == CanAdd /\ \E s \in Songs : queue' = Add(queue, s)
DoAddAt == CanAdd /\ \E s \in Songs, p \in Positions \union {None} :
                       queue' = AddAt(queue, s, p)

DoDelete   == \E p \in Positions : queue' = Delete(queue, p)
DoDeleteId == \E id \in Ids : queue' = DeleteId(queue, id)
DoClear    == queue' = Clear(queue)

DoSetLastLoaded == \E n \in Playlists : queue' = SetLastLoaded(queue, n)

DoShuffle == \E f \in Bijection(DOMAIN queue.items, DOMAIN queue.items) :
               queue' = Shuffle(queue, f)

\* shuffle_range: nothing happens when the clipped range is empty.
DoShuffleRange ==
  \E start, end \in Positions :
    LET S == Clip(queue, start, end)
    IN  S # {} /\ \E f \in Bijection(S, S) : queue' = Shuffle(queue, f)

DoMoveItem == \E from, to \in Positions : queue' = MoveItem(queue, from, to)
DoMoveById == \E id \in Ids, to \in Positions : queue' = MoveById(queue, id, to)
DoSwap     == \E p1, p2 \in Positions : queue' = Swap(queue, p1, p2)
DoSwapById == \E id1, id2 \in Ids : queue' = SwapById(queue, id1, id2)

DoSetPriorityRange ==
  \E prio \in Priorities, start, end \in Positions :
    queue' = SetPriorityRange(queue, prio, start, end)
DoSetPriorityIds ==
  \E prio \in Priorities, ids \in SUBSET Ids :
    queue' = SetPriorityIds(queue, prio, ids)

DoSetRangeById == \E id \in Ids, r \in Ranges \union {None} :
                    queue' = SetRangeById(queue, id, r)

DoAddTag    == \E id \in Ids, t \in Tags, v \in Values :
                 queue' = AddTagById(queue, id, t, v)
DoClearTag  == \E id \in Ids, t \in Tags : queue' = ClearTagById(queue, id, t)
DoClearTags == \E id \in Ids : queue' = ClearTagsById(queue, id)

QueueNext ==
  /\ queue.version < MaxVersion
  /\ \/ DoAdd \/ DoAddAt \/ DoDelete \/ DoDeleteId \/ DoClear
     \/ DoSetLastLoaded \/ DoShuffle \/ DoShuffleRange
     \/ DoMoveItem \/ DoMoveById \/ DoSwap \/ DoSwapById
     \/ DoSetPriorityRange \/ DoSetPriorityIds \/ DoSetRangeById
     \/ DoAddTag \/ DoClearTag \/ DoClearTags

QueueSpec == QueueInit /\ [][QueueNext]_queue

-----------------------------------------------------------------------------
\* The queue is the record the methods of queue.rs assume.
QueueTypeOK == queue \in QueueType

\* The position stored in an item is where it sits: the responses of
\* playlistinfo, plchangesposid and seekid take it from the item.
PositionsMatch ==
  \A i \in DOMAIN queue.items : queue.items[i].position = i - 1

\* No two items share an id while the counter has not wrapped: deleteid,
\* moveid, playid and the status line name an item by it.
UniqueIds ==
  \A i, j \in DOMAIN queue.items :
    queue.items[i].id = queue.items[j].id => i = j

\* A position and an id name one item each, whichever of the two a command uses.
ItemsAddressed == PositionsMatch /\ UniqueIds

\* Every id was handed out before and is not the one handed out next.
IdsBelowNext ==
  \A i \in DOMAIN queue.items : queue.items[i].id \in 1 .. queue.next_id - 1

\* "id 0 is never a valid song id", even after the u32 counter wraps.
IdNeverZero == \A i \in DOMAIN queue.items : queue.items[i].id # 0

\* An id that enters the queue was never used before, across deletes and
\* clears: a client that kept the id of a removed song cannot hit another.
IdsNeverReused ==
  [][/\ queue'.next_id >= queue.next_id
     /\ \A id \in IdsOf(queue') \ IdsOf(queue) :
          id >= queue.next_id /\ id < queue'.next_id]_queue

\* A step that changes what clients see of the items moves the version.
VersionTellsChange ==
  [][queue'.items # queue.items => queue'.version > queue.version]_queue

\* An item keeps its song for life, and a step that adds, removes or
\* reorders items touches no item's priority, range or tags.
ItemsKeepTheirData ==
  [][\A i \in DOMAIN queue.items, j \in DOMAIN queue'.items :
       queue.items[i].id = queue'.items[j].id =>
         /\ queue.items[i].song = queue'.items[j].song
         /\ IdSeq(queue) # IdSeq(queue') =>
              queue'.items[j] = [queue.items[i] EXCEPT !.position = j - 1]
    ]_queue
=============================================================================
