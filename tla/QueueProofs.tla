---------------------------- MODULE QueueProofs ----------------------------
(***************************************************************************)
(* Theorems about Queue.tla, for queues of any length and any constants.   *)
(* A step of the queue is one call, so it has one of the two shapes of     *)
(* QueueOpsProofs: it keeps old items, or it inserts a new one.            *)
(***************************************************************************)
EXTENDS Queue, QueueOpsProofs

Kept(q, w)  == \E X : Keeps(q, w, X)
Grows(q, w) == q.next_id < IdLimit /\ \E k : Inserted(q, w, k)

-----------------------------------------------------------------------------
(* What each shape means.                                                  *)

\* Below the limit the counter does not wrap.
LEMMA NoWrap ==
  ASSUME NEW q \in QueueType, q.next_id < IdLimit, IdLimit < IdSpace
  PROVE  NewId(q) + 1 < IdSpace
BY QueueConstants, QueueBounds DEF QueueType, NewId

\* A method that adds leaves a sane queue, a version later, with one new id.
LEMMA GrowsProps ==
  ASSUME NEW q, Sane(q), NEW w, Grows(q, w)
  PROVE  /\ Sane(w)
         /\ w.version > q.version
         /\ w.next_id = (NewId(q) + 1) % IdSpace
         /\ IdsOf(w) \subseteq IdsOf(q) \union {NewId(q)}
         /\ Distinct(q) /\ IdLimit < IdSpace => Distinct(w)
<1>1. PICK k : Inserted(q, w, k)
  BY DEF Grows
<1>2. Sane(w)
  BY <1>1, InsertedSane
<1>3. w.version > q.version /\ w.next_id = (NewId(q) + 1) % IdSpace
  BY <1>1 DEF Inserted, Sane, QueueType
<1>4. Distinct(q) /\ IdLimit < IdSpace => Distinct(w)
  BY <1>1, NoWrap, InsertedDistinct DEF Grows, Sane
<1>5. /\ DOMAIN w.items = 1 .. Len(q.items) + 1 /\ w.items[k].id = NewId(q)
      /\ DOMAIN q.items = 1 .. Len(q.items)
  BY <1>1 DEF Inserted, QueueType, Sane
<1>6. \A i \in 1 .. Len(q.items) + 1 :
        i # k => \E j \in 1 .. Len(q.items) : w.items[i].id = q.items[j].id
  BY <1>1, InsertedOld
<1>7. IdsOf(w) \subseteq IdsOf(q) \union {NewId(q)}
  BY <1>5, <1>6 DEF IdsOf
<1> QED  BY <1>2, <1>3, <1>4, <1>7

\* A method that keeps items brings in no id.
LEMMA KeptProps ==
  ASSUME NEW q, Sane(q), NEW w, Kept(q, w)
  PROVE  /\ Sane(w)
         /\ w.items # q.items => w.version > q.version
         /\ w.next_id = q.next_id
         /\ IdsOf(w) \subseteq IdsOf(q)
         /\ Distinct(q) => Distinct(w)
<1>1. PICK X : Keeps(q, w, X)
  BY DEF Kept
<1>2. IdsOf(w) \subseteq IdsOf(q)
  BY <1>1 DEF Keeps, Carried, IdsOf
<1> QED  BY <1>1, <1>2 DEF Keeps

\* Each step of the queue keeps items or grows by one.
LEMMA StepShape ==
  ASSUME Sane(queue), QueueNext
  PROVE  Kept(queue, queue') \/ Grows(queue, queue')
<1>1. Positions \subseteq Nat
  BY QueueBounds DEF Positions
<1>2. ASSUME DoAdd  PROVE Grows(queue, queue')
  BY <1>2, AddInserts DEF DoAdd, CanAdd, Grows
<1>3. ASSUME DoAddAt  PROVE Grows(queue, queue')
  BY <1>1, <1>3, AddAtInserts DEF DoAddAt, CanAdd, Grows
<1>4. ASSUME DoDelete  PROVE Kept(queue, queue')
  BY <1>1, <1>4, DeleteKeeps DEF Kept, DoDelete
<1>5. ASSUME DoDeleteId  PROVE Kept(queue, queue')
  BY <1>5, DeleteIdKeeps DEF Kept, DoDeleteId
<1>6. ASSUME DoClear  PROVE Kept(queue, queue')
  BY <1>6, ClearKeeps DEF Kept, DoClear
<1>7. ASSUME DoSetLastLoaded  PROVE Kept(queue, queue')
  BY <1>7, SetLastLoadedKeeps DEF Kept, DoSetLastLoaded
<1>8. ASSUME DoShuffle  PROVE Kept(queue, queue')
  <2>1. DOMAIN queue.items = 1 .. Len(queue.items)
    BY DEF Sane, QueueType
  <2>2. DOMAIN queue.items \in SUBSET (1 .. Len(queue.items))
    BY <2>1
  <2> QED  BY <1>8, <2>2, ShuffleKeeps, Zenon DEF Kept, DoShuffle
<1>9. ASSUME DoShuffleRange  PROVE Kept(queue, queue')
  <2>1. \A start, end : Clip(queue, start, end) \in SUBSET (1 .. Len(queue.items))
    BY DEF Clip, Sane, QueueType
  <2> QED  BY <1>9, <2>1, ShuffleKeeps, Zenon DEF Kept, DoShuffleRange
<1>10. ASSUME DoMoveItem  PROVE Kept(queue, queue')
  BY <1>1, <1>10, MoveItemKeeps DEF Kept, DoMoveItem
<1>11. ASSUME DoMoveById  PROVE Kept(queue, queue')
  BY <1>1, <1>11, MoveByIdKeeps DEF Kept, DoMoveById
<1>12. ASSUME DoSwap  PROVE Kept(queue, queue')
  BY <1>1, <1>12, SwapKeeps DEF Kept, DoSwap
<1>13. ASSUME DoSwapById  PROVE Kept(queue, queue')
  BY <1>13, SwapByIdKeeps DEF Kept, DoSwapById
<1>14. ASSUME DoSetPriorityRange  PROVE Kept(queue, queue')
  BY <1>14, SetPriorityRangeKeeps DEF Kept, DoSetPriorityRange
<1>15. ASSUME DoSetPriorityIds  PROVE Kept(queue, queue')
  BY <1>15, SetPriorityIdsKeeps DEF Kept, DoSetPriorityIds
<1>16. ASSUME DoSetRangeById  PROVE Kept(queue, queue')
  BY <1>16, SetRangeKeeps DEF Kept, DoSetRangeById
<1>17. ASSUME DoAddTag  PROVE Kept(queue, queue')
  <2>1. PICK id \in Ids, t \in Tags, v \in Values : queue' = SetTag(queue, id, t, v)
    BY <1>17 DEF DoAddTag, AddTagById
  <2> QED  BY <2>1, SetTagKeeps DEF Kept
<1>18. ASSUME DoClearTag  PROVE Kept(queue, queue')
  <2>1. PICK id \in Ids, t \in Tags : queue' = SetTag(queue, id, t, None)
    BY <1>18 DEF DoClearTag, ClearTagById
  <2> QED  BY <2>1, SetTagKeeps DEF Kept
<1>19. ASSUME DoClearTags  PROVE Kept(queue, queue')
  BY <1>19, ClearTagsKeeps DEF Kept, DoClearTags
<1> QED  BY <1>2, <1>3, <1>4, <1>5, <1>6, <1>7, <1>8, <1>9, <1>10, <1>11, <1>12,
            <1>13, <1>14, <1>15, <1>16, <1>17, <1>18, <1>19 DEF QueueNext

\* The empty queue is sane and its ids distinct.
LEMMA InitSane == QueueInit => Sane(queue) /\ Distinct(queue)
<1> SUFFICES ASSUME QueueInit  PROVE Sane(queue) /\ Distinct(queue)
  OBVIOUS
<1>1. EmptyQueue \in QueueType /\ EmptyQueue.items = <<>>
  BY EmptySeq, QueueConstants DEF EmptyQueue, QueueType
<1>2. DOMAIN EmptyQueue.items = {}
  BY <1>1
<1> QED  BY <1>1, <1>2 DEF QueueInit, Sane, Distinct

\* Sane is kept by every call, whether or not the id counter wraps.
LEMMA StepSane == Sane(queue) /\ [QueueNext]_queue => Sane(queue)'
<1> SUFFICES ASSUME Sane(queue), [QueueNext]_queue  PROVE Sane(queue')
  BY DEF Sane
<1>1. CASE QueueNext
  BY <1>1, StepShape, KeptProps, GrowsProps
<1>2. CASE UNCHANGED queue
  BY <1>2
<1> QED  BY <1>1, <1>2

\* While the counter has not wrapped, ids stay distinct.
LEMMA StepDistinct ==
  ASSUME IdLimit < IdSpace
  PROVE  Sane(queue) /\ Distinct(queue) /\ [QueueNext]_queue
           => (Sane(queue) /\ Distinct(queue))'
<1> SUFFICES ASSUME Sane(queue), Distinct(queue), [QueueNext]_queue
             PROVE  Sane(queue') /\ Distinct(queue')
  BY DEF Sane, Distinct
<1>1. CASE QueueNext
  BY <1>1, StepShape, KeptProps, GrowsProps
<1>2. CASE UNCHANGED queue
  BY <1>2
<1> QED  BY <1>1, <1>2

\* In every reachable state, at any queue length and any counter width, the
\* record is well typed, stored positions are the real ones and no item has
\* id 0.
THEOREM QueueSane == QueueSpec => [](QueueTypeOK /\ PositionsMatch /\ IdNeverZero)
<1>1. QueueInit => Sane(queue)
  BY InitSane
<1>2. Sane(queue) => QueueTypeOK /\ PositionsMatch /\ IdNeverZero
  BY DEF Sane, QueueTypeOK, PositionsMatch, IdNeverZero
<1> QED  BY <1>1, <1>2, StepSane, PTL DEF QueueSpec

\* While the u32 counter has not wrapped, no two items share an id or a
\* stored position, and every id in use is below the counter.
THEOREM QueueIdsUnique ==
  ASSUME IdLimit < IdSpace
  PROVE  QueueSpec => [](ItemsAddressed /\ IdsBelowNext)
<1> DEFINE Inv == Sane(queue) /\ Distinct(queue)
<1>1. QueueInit => Inv
  BY InitSane
<1>2. Inv /\ [QueueNext]_queue => Inv'
  BY StepDistinct
<1>3. Inv => ItemsAddressed /\ IdsBelowNext
  BY DEF Sane, Distinct, ItemsAddressed, PositionsMatch, UniqueIds, IdsBelowNext
<1> QED  BY <1>1, <1>2, <1>3, PTL DEF QueueSpec

\* No id is handed out twice, across deletes and clears.
THEOREM QueueIdsFresh ==
  ASSUME IdLimit < IdSpace
  PROVE  QueueSpec => IdsNeverReused
<1> DEFINE Fresh ==
      /\ queue'.next_id >= queue.next_id
      /\ \A id \in IdsOf(queue') \ IdsOf(queue) :
           id >= queue.next_id /\ id < queue'.next_id
<1>1. QueueInit => Sane(queue)
  BY InitSane
<1>2. Sane(queue) /\ [QueueNext]_queue => [Fresh]_queue
  <2> SUFFICES ASSUME Sane(queue), QueueNext  PROVE Fresh
    OBVIOUS
  <2>1. queue \in QueueType /\ queue.next_id \in Nat
    BY DEF Sane, QueueType
  <2>2. CASE Kept(queue, queue')
    BY <2>1, <2>2, KeptProps
  <2>3. CASE Grows(queue, queue')
    <3>1. /\ NewId(queue) \in 1 .. IdSpace - 1 /\ NewId(queue) >= queue.next_id
          /\ queue'.next_id = NewId(queue) + 1
      BY <2>1, <2>3, NewIdProps, NoWrap, GrowsProps DEF Grows
    <3>2. IdsOf(queue') \ IdsOf(queue) \subseteq {NewId(queue)}
      BY <2>3, GrowsProps
    <3> QED  BY <2>1, <3>1, <3>2, QueueConstants
  <2> QED  BY <2>2, <2>3, StepShape
<1> QED  BY <1>1, <1>2, StepSane, PTL DEF QueueSpec, IdsNeverReused

\* No method changes the items behind the version's back.
THEOREM QueueVersionTells == QueueSpec => VersionTellsChange
<1> DEFINE Tells == queue'.items # queue.items => queue'.version > queue.version
<1>1. QueueInit => Sane(queue)
  BY InitSane
<1>2. Sane(queue) /\ [QueueNext]_queue => [Tells]_queue
  BY StepShape, KeptProps, GrowsProps
<1> QED  BY <1>1, <1>2, StepSane, PTL DEF QueueSpec, VersionTellsChange

\* What a client knows of an item stays true: its song for life, its
\* priority, range and tags through every step that changes the order.
THEOREM QueueKeepsData ==
  ASSUME IdLimit < IdSpace
  PROVE  QueueSpec => ItemsKeepTheirData
<1> DEFINE Inv == Sane(queue) /\ Distinct(queue)
           Stays ==
             \A i \in DOMAIN queue.items, j \in DOMAIN queue'.items :
               queue.items[i].id = queue'.items[j].id =>
                 /\ queue.items[i].song = queue'.items[j].song
                 /\ IdSeq(queue) # IdSeq(queue') =>
                      queue'.items[j] = [queue.items[i] EXCEPT !.position = j - 1]
<1>1. QueueInit => Inv
  BY InitSane
<1>2. Inv /\ [QueueNext]_queue => Inv'
  BY StepDistinct DEF Sane, Distinct
<1>3. Inv /\ [QueueNext]_queue => [Stays]_queue
  <2> SUFFICES ASSUME Inv, QueueNext,
                      NEW i \in DOMAIN queue.items, NEW j \in DOMAIN queue'.items,
                      queue.items[i].id = queue'.items[j].id
               PROVE  /\ queue.items[i].song = queue'.items[j].song
                      /\ IdSeq(queue) # IdSeq(queue') =>
                           queue'.items[j] = Numbered(queue.items[i], j - 1)
    BY DEF Numbered
  <2>1. /\ DOMAIN queue.items = 1 .. Len(queue.items)
        /\ \A n \in DOMAIN queue.items : queue.items[n] \in Item
        /\ \A n \in DOMAIN queue.items : queue.items[n].id = queue.items[i].id => n = i
    BY ElementOfSeq DEF Sane, QueueType, Distinct
  <2>2. Sane(queue') /\ j - 1 \in Nat
    <3>1. Sane(queue')
      BY StepShape, KeptProps, GrowsProps
    <3> QED  BY <3>1 DEF Sane, QueueType
  <2>3. CASE Kept(queue, queue')
    <3>1. PICK X : Keeps(queue, queue', X)
      BY <2>3 DEF Kept
    <3>2. queue.items[i].song = queue'.items[j].song
      BY <2>1, <3>1 DEF Keeps, Carried
    <3>3. ASSUME IdSeq(queue) # IdSeq(queue')
          PROVE  queue'.items[j] = Numbered(queue.items[i], j - 1)
      <4>1. PICK n \in DOMAIN queue.items :
              queue'.items[j] = Numbered(queue.items[n], j - 1)
        BY <3>1, <3>3 DEF Keeps
      <4>2. Numbered(queue.items[n], j - 1).id = queue.items[n].id
        BY <2>1, <2>2, Renumbered, Zenon
      <4> QED  BY <2>1, <4>1, <4>2
    <3> QED  BY <3>2, <3>3
  <2>4. CASE Grows(queue, queue')
    <3>1. PICK k : Inserted(queue, queue', k)
      BY <2>4 DEF Grows
    <3>2. DOMAIN queue'.items = 1 .. Len(queue.items) + 1
      BY <3>1 DEF Inserted, QueueType
    <3>3. queue'.items[k].id = NewId(queue) /\ NewId(queue) >= queue.next_id
      BY <3>1, NewIdProps DEF Inserted, Sane
    <3>4. queue.items[i].id < queue.next_id
      BY DEF Distinct, Sane, QueueType
    <3>5. j # k
      <4>1. queue \in QueueType /\ queue.items[i] \in Item
        BY <2>1 DEF Sane
      <4>2. NewId(queue) \in 1 .. IdSpace - 1
        BY <4>1, NewIdProps
      <4>3. queue.next_id \in Nat /\ queue.items[i].id \in Nat
        BY <4>1 DEF QueueType, Item
      <4> QED  BY <3>3, <3>4, <4>2, <4>3, QueueConstants
    <3> DEFINE n == Before(k, j)
    <3>6. /\ n \in DOMAIN queue.items
          /\ queue'.items[j] = Numbered(queue.items[n], j - 1)
          /\ queue'.items[j].id = queue.items[n].id
      BY <2>1, <3>1, <3>2, <3>5, InsertedOld
    <3> HIDE DEF n
    <3>7. n = i
      BY <2>1, <3>6
    <3>8. Numbered(queue.items[i], j - 1).song = queue.items[i].song
      BY <2>1, <2>2, Renumbered, Zenon
    <3> QED  BY <3>6, <3>7, <3>8
  <2> QED  BY <2>3, <2>4, StepShape
<1> QED  BY <1>1, <1>2, <1>3, PTL DEF QueueSpec, ItemsKeepTheirData
=============================================================================
