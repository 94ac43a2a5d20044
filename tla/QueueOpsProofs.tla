--------------------------- MODULE QueueOpsProofs ---------------------------
(***************************************************************************)
(* Lemmas about the methods of the play queue, QueueOps.tla, for queues of *)
(* any length and any constants.                                           *)
(*                                                                         *)
(* Sane(q) holds whether or not the id counter wraps; Distinct(q) needs a  *)
(* counter that has not wrapped.  A method has one of two shapes: Keeps,   *)
(* the new items are old ones (no old one twice, some of them edited), and *)
(* Inserted, one fresh item comes in somewhere.  Leads is what any number  *)
(* of calls in a row has in common.                                        *)
(***************************************************************************)
EXTENDS QueueOps, LoopsProofs

Sane(q) ==
  /\ q \in QueueType
  /\ \A i \in DOMAIN q.items : q.items[i].position = i - 1
  /\ \A i \in DOMAIN q.items : q.items[i].id # 0

Distinct(q) ==
  /\ \A i, j \in DOMAIN q.items : q.items[i].id = q.items[j].id => i = j
  /\ \A i \in DOMAIN q.items : q.items[i].id \in 1 .. q.next_id - 1

\* new takes each of its items from a different place of old.
TakenFrom(new, old, g) ==
  /\ g \in [1 .. Len(new) -> 1 .. Len(old)]
  /\ \A i, j \in 1 .. Len(new) : g[i] = g[j] => i = j
  /\ \A i \in 1 .. Len(new) : new[i] = old[g[i]]

\* An item at another place.
Numbered(it, n) == [it EXCEPT !.position = n]

-----------------------------------------------------------------------------
(* The sequence operators of the library, element by element.              *)

\* Without element i, the elements after it move one place down.
LEMMA RemoveAtProps ==
  ASSUME NEW S, NEW s \in Seq(S), NEW i \in 1 .. Len(s)
  PROVE  /\ RemoveAt(s, i) \in Seq(S)
         /\ Len(RemoveAt(s, i)) = Len(s) - 1
         /\ \A k \in 1 .. Len(s) - 1 :
              RemoveAt(s, i)[k] = s[IF k < i THEN k ELSE k + 1]
<1> DEFINE l == SubSeq(s, 1, i - 1)
           r == SubSeq(s, i + 1, Len(s))
<1>1. l \in Seq(S) /\ Len(l) = i - 1 /\ \A k \in 1 .. i - 1 : l[k] = s[k]
  OBVIOUS
<1>2. /\ r \in Seq(S) /\ Len(r) = Len(s) - i
      /\ \A k \in 1 .. Len(s) - i : r[k] = s[i + k]
  OBVIOUS
<1>3. RemoveAt(s, i) = l \o r
  BY DEF RemoveAt
<1> HIDE DEF l, r
<1>4. l \o r \in Seq(S) /\ Len(l \o r) = Len(s) - 1
  <2>1. l \o r \in Seq(S)
    BY <1>1, <1>2
  <2>2. Len(l \o r) = Len(l) + Len(r)
    BY <1>1, <1>2, ConcatProperties, Zenon
  <2>3. Len(l \o r) = (i - 1) + (Len(s) - i) /\ Len(s) \in Nat
    BY <1>1, <1>2, <2>2
  <2> QED  BY <2>1, <2>3
<1>5. ASSUME NEW k \in 1 .. Len(s) - 1, k < i  PROVE (l \o r)[k] = s[k]
  BY <1>1, <1>2, <1>5
<1>6. ASSUME NEW k \in 1 .. Len(s) - 1, ~(k < i)  PROVE (l \o r)[k] = s[k + 1]
  <2>1. (l \o r)[k] = r[k - (i - 1)]
    BY <1>1, <1>2, <1>6
  <2>2. k - (i - 1) \in 1 .. Len(s) - i
    BY <1>6
  <2> QED  BY <1>2, <2>1, <2>2
<1> QED  BY <1>3, <1>4, <1>5, <1>6

\* With an element put in at i, the elements from i on move one place up.
LEMMA InsertAtProps ==
  ASSUME NEW S, NEW s \in Seq(S), NEW i \in 1 .. Len(s) + 1, NEW e \in S
  PROVE  /\ InsertAt(s, i, e) \in Seq(S)
         /\ Len(InsertAt(s, i, e)) = Len(s) + 1
         /\ \A k \in 1 .. Len(s) + 1 :
              InsertAt(s, i, e)[k] =
                IF k < i THEN s[k] ELSE IF k = i THEN e ELSE s[k - 1]
<1> DEFINE l == SubSeq(s, 1, i - 1)
           m == l \o <<e>>
           r == SubSeq(s, i, Len(s))
<1>1. l \in Seq(S) /\ Len(l) = i - 1 /\ \A k \in 1 .. i - 1 : l[k] = s[k]
  OBVIOUS
<1>2. /\ r \in Seq(S) /\ Len(r) = Len(s) - i + 1
      /\ \A k \in 1 .. Len(s) - i + 1 : r[k] = s[i + k - 1]
  OBVIOUS
<1>3. /\ m \in Seq(S) /\ Len(m) = i /\ m[i] = e
      /\ \A k \in 1 .. i - 1 : m[k] = s[k]
  <2> HIDE DEF l
  <2> QED  BY <1>1
<1>4. InsertAt(s, i, e) = m \o r
  BY DEF InsertAt
<1> HIDE DEF m, r
<1> QED  BY <1>2, <1>3, <1>4

\* Giving an item a position changes nothing else of it.
LEMMA Renumbered ==
  ASSUME NEW it \in Item, NEW n \in Nat
  PROVE  /\ Numbered(it, n) \in Item
         /\ Numbered(it, n).position = n
         /\ Numbered(it, n).id = it.id
         /\ Numbered(it, n).song = it.song
         /\ Numbered(it, n).tags = it.tags
         /\ it.position = n => Numbered(it, n) = it
BY DEF Item, Numbered

\* reindex stores each item's own position in it.
LEMMA ReindexProps ==
  ASSUME NEW items \in Seq(Item)
  PROVE  /\ Reindex(items) \in Seq(Item)
         /\ Len(Reindex(items)) = Len(items)
         /\ DOMAIN Reindex(items) = 1 .. Len(items)
         /\ \A i \in 1 .. Len(items) :
              /\ items[i] \in Item
              /\ Reindex(items)[i] = Numbered(items[i], i - 1)
              /\ Reindex(items)[i].position = i - 1
              /\ Reindex(items)[i].id = items[i].id
<1>0. \A i \in 1 .. Len(items) : items[i] \in Item
  BY ElementOfSeq
<1>1. ASSUME NEW i \in 1 .. Len(items)
      PROVE  /\ Numbered(items[i], i - 1) \in Item
             /\ Numbered(items[i], i - 1).position = i - 1
             /\ Numbered(items[i], i - 1).id = items[i].id
  <2>1. items[i] \in Item /\ i - 1 \in Nat
    BY <1>0
  <2> QED  BY <2>1, Renumbered, Zenon
<1>2. Reindex(items) = [i \in 1 .. Len(items) |-> Numbered(items[i], i - 1)]
  BY DEF Reindex, Numbered
<1>3. Reindex(items) \in [1 .. Len(items) -> Item] /\ Len(items) \in Nat
  BY <1>1, <1>2, LenProperties
<1>4. Reindex(items) \in Seq(Item) /\ Len(Reindex(items)) = Len(items)
  BY <1>3
<1> QED  BY <1>0, <1>1, <1>2, <1>4

-----------------------------------------------------------------------------
(* The two shapes of a structural method: rearrange, or insert one item.   *)

\* A bump of the version changes nothing else.
LEMMA BumpedProps ==
  ASSUME NEW q \in QueueType
  PROVE  /\ Bumped(q) \in QueueType
         /\ Bumped(q).items = q.items
         /\ Bumped(q).next_id = q.next_id
         /\ Bumped(q).version = q.version + 1
BY DEF QueueType, Bumped

\* What a structural method leaves: the new order, reindexed, a version later.
LEMMA WithItemsProps ==
  ASSUME NEW q \in QueueType, NEW new \in Seq(Item)
  PROVE  /\ WithItems(q, new) \in QueueType
         /\ WithItems(q, new).items = Reindex(new)
         /\ WithItems(q, new).next_id = q.next_id
         /\ WithItems(q, new).version = q.version + 1
<1> DEFINE w == [q EXCEPT !.items = Reindex(new)]
<1>1. Reindex(new) \in Seq(Item)
  BY ReindexProps
<1>2. /\ w \in QueueType /\ w.items = Reindex(new)
      /\ w.next_id = q.next_id /\ w.version = q.version
  BY <1>1 DEF QueueType
<1> HIDE DEF w
<1>3. WithItems(q, new) = Bumped(w)
  BY DEF WithItems, w
<1> QED  BY <1>2, <1>3, BumpedProps

\* An order made of the items of a sane queue is sane.
LEMMA RearrangeSane ==
  ASSUME NEW q, Sane(q), NEW new \in Seq(Item), NEW g, TakenFrom(new, q.items, g)
  PROVE  Sane(WithItems(q, new))
<1> DEFINE w == WithItems(q, new)
<1>1. w \in QueueType /\ w.items = Reindex(new)
  BY WithItemsProps DEF Sane
<1>2. DOMAIN q.items = 1 .. Len(q.items)
  BY DEF Sane, QueueType
<1>3. \A i \in 1 .. Len(new) : q.items[g[i]].id # 0
  BY <1>2 DEF Sane, TakenFrom
<1>4. /\ DOMAIN w.items = 1 .. Len(new)
      /\ \A i \in 1 .. Len(new) :
           w.items[i].position = i - 1 /\ w.items[i].id = new[i].id
  BY <1>1, ReindexProps
<1> HIDE DEF w
<1>5. \A i \in 1 .. Len(new) : w.items[i].id # 0
  BY <1>3, <1>4 DEF TakenFrom
<1>6. Sane(w)
  BY <1>1, <1>4, <1>5 DEF Sane
<1> QED  BY <1>6 DEF w

\* Ids stay distinct when no item is taken twice.
LEMMA RearrangeDistinct ==
  ASSUME NEW q, Sane(q), Distinct(q),
         NEW new \in Seq(Item), NEW g, TakenFrom(new, q.items, g)
  PROVE  Distinct(WithItems(q, new))
<1> DEFINE w == WithItems(q, new)
<1>1. w.items = Reindex(new) /\ w.next_id = q.next_id
  BY WithItemsProps DEF Sane
<1>2. DOMAIN q.items = 1 .. Len(q.items)
  BY DEF Sane, QueueType
<1>3. \A i \in 1 .. Len(new) : w.items[i].id = q.items[g[i]].id
  BY <1>1, ReindexProps DEF TakenFrom
<1>4. \A i \in 1 .. Len(new) : g[i] \in DOMAIN q.items
  BY <1>2 DEF TakenFrom
<1>5. DOMAIN w.items = 1 .. Len(new)
  BY <1>1, ReindexProps
<1> HIDE DEF w
<1>6. ASSUME NEW i \in 1 .. Len(new), NEW j \in 1 .. Len(new),
             w.items[i].id = w.items[j].id
      PROVE  i = j
  <2>1. q.items[g[i]].id = q.items[g[j]].id
    BY <1>3, <1>6
  <2>2. g[i] \in DOMAIN q.items /\ g[j] \in DOMAIN q.items
    BY <1>4
  <2>3. g[i] = g[j]
    BY <2>1, <2>2 DEF Distinct
  <2> QED  BY <2>3 DEF TakenFrom
<1>7. \A i \in 1 .. Len(new) : w.items[i].id \in 1 .. w.next_id - 1
  BY <1>1, <1>3, <1>4 DEF Distinct, w
<1>8. Distinct(w)
  BY <1>5, <1>6, <1>7 DEF Distinct
<1> QED  BY <1>8 DEF w

\* w is q with one more item, at index k, under a fresh id and without tags.
Inserted(q, w, k) ==
  /\ w \in QueueType
  /\ Len(w.items) = Len(q.items) + 1
  /\ k \in 1 .. Len(q.items) + 1
  /\ w.items[k].id = NewId(q)
  /\ w.items[k].tags = NoTags
  /\ w.items[k].position = k - 1
  /\ w.next_id = (NewId(q) + 1) % IdSpace
  /\ w.version = q.version + 1
  /\ \A i \in 1 .. k - 1 : w.items[i] = Numbered(q.items[i], i - 1)
  /\ \A i \in k + 1 .. Len(q.items) + 1 : w.items[i] = Numbered(q.items[i - 1], i - 1)

\* Where the items around a new one at k were before.
Before(k, i) == IF i < k THEN i ELSE i - 1

\* allocate_id never hands out 0, and does not wrap below the last id.
LEMMA NewIdProps ==
  ASSUME NEW q \in QueueType
  PROVE  /\ NewId(q) \in 1 .. IdSpace - 1
         /\ NewId(q) >= q.next_id
         /\ (NewId(q) + 1) % IdSpace \in 0 .. IdSpace - 1
         /\ NewId(q) + 1 < IdSpace => (NewId(q) + 1) % IdSpace = NewId(q) + 1
<1> DEFINE n == NewId(q) + 1
<1>1. q.next_id \in 0 .. IdSpace - 1 /\ IdSpace \in Nat /\ IdSpace > 2
  BY QueueConstants DEF QueueType
<1>2. NewId(q) \in 1 .. IdSpace - 1 /\ NewId(q) >= q.next_id
  BY <1>1 DEF NewId
<1>3. n \in Nat
  BY <1>1, <1>2
<1> HIDE DEF n
<1>4. n % IdSpace \in 0 .. IdSpace - 1
  BY <1>1, <1>3
<1>5. n < IdSpace => n % IdSpace = n
  BY <1>1, <1>3
<1> QED  BY <1>2, <1>4, <1>5 DEF n

\* Around the new item, every item is an old one, in the old order.
LEMMA InsertedOld ==
  ASSUME NEW q, Sane(q), NEW w, NEW k, Inserted(q, w, k),
         NEW i \in 1 .. Len(q.items) + 1, i # k
  PROVE  /\ Before(k, i) \in 1 .. Len(q.items)
         /\ q.items[Before(k, i)] \in Item
         /\ w.items[i] = Numbered(q.items[Before(k, i)], i - 1)
         /\ w.items[i].id = q.items[Before(k, i)].id
         /\ w.items[i].position = i - 1
<1>1. q.items \in Seq(Item) /\ Len(q.items) \in Nat /\ k \in 1 .. Len(q.items) + 1
  BY DEF Sane, QueueType, Inserted
<1>2. /\ Before(k, i) \in 1 .. Len(q.items)
      /\ w.items[i] = Numbered(q.items[Before(k, i)], i - 1)
  <2>1. CASE i < k
    <3>1. i \in 1 .. k - 1 /\ i \in 1 .. Len(q.items) /\ Before(k, i) = i
      BY <1>1, <2>1 DEF Before
    <3> QED  BY <3>1 DEF Inserted
  <2>2. CASE i > k
    <3>1. i \in k + 1 .. Len(q.items) + 1 /\ i - 1 \in 1 .. Len(q.items)
          /\ Before(k, i) = i - 1
      BY <1>1, <2>2 DEF Before
    <3> QED  BY <3>1 DEF Inserted
  <2> QED  BY <1>1, <2>1, <2>2
<1>3. q.items[Before(k, i)] \in Item /\ i - 1 \in Nat
  BY <1>1, <1>2, ElementOfSeq
<1>4. /\ Numbered(q.items[Before(k, i)], i - 1).id = q.items[Before(k, i)].id
      /\ Numbered(q.items[Before(k, i)], i - 1).position = i - 1
  BY <1>3, Renumbered, Zenon
<1> QED  BY <1>2, <1>3, <1>4

\* A sane queue stays sane with one new item.
LEMMA InsertedSane ==
  ASSUME NEW q, Sane(q), NEW w, NEW k, Inserted(q, w, k)
  PROVE  Sane(w)
<1>1. /\ DOMAIN w.items = 1 .. Len(q.items) + 1 /\ DOMAIN q.items = 1 .. Len(q.items)
      /\ w \in QueueType
  BY DEF Inserted, QueueType, Sane
<1>2. NewId(q) # 0
  BY NewIdProps DEF Sane
<1>3. ASSUME NEW i \in 1 .. Len(q.items) + 1
      PROVE  w.items[i].id # 0 /\ w.items[i].position = i - 1
  <2>1. CASE i = k
    BY <1>2, <2>1 DEF Inserted
  <2>2. CASE i # k
    <3>1. /\ Before(k, i) \in 1 .. Len(q.items)
          /\ w.items[i].id = q.items[Before(k, i)].id
          /\ w.items[i].position = i - 1
      BY <2>2, InsertedOld
    <3> QED  BY <1>1, <3>1 DEF Sane
  <2> QED  BY <2>1, <2>2
<1> QED  BY <1>1, <1>3 DEF Sane

\* While the counter has not wrapped, a new item's id is a new id.
LEMMA InsertedDistinct ==
  ASSUME NEW q, Sane(q), Distinct(q), NEW w, NEW k, Inserted(q, w, k),
         NewId(q) + 1 < IdSpace
  PROVE  Distinct(w)
<1>1. DOMAIN w.items = 1 .. Len(q.items) + 1 /\ DOMAIN q.items = 1 .. Len(q.items)
  BY DEF Inserted, QueueType, Sane
<1>2. Len(q.items) \in Nat /\ k \in 1 .. Len(q.items) + 1
  BY DEF QueueType, Sane, Inserted
<1>3. /\ NewId(q) \in Nat /\ NewId(q) >= q.next_id /\ q.next_id \in Nat
      /\ NewId(q) >= 1 /\ w.next_id = NewId(q) + 1
  <2>1. q \in QueueType /\ q.next_id \in 0 .. IdSpace - 1
    BY DEF Sane, QueueType
  <2>2. w.next_id = (NewId(q) + 1) % IdSpace
    BY DEF Inserted
  <2>3. /\ NewId(q) \in 1 .. IdSpace - 1 /\ NewId(q) >= q.next_id
        /\ (NewId(q) + 1) % IdSpace = NewId(q) + 1
    BY <2>1, NewIdProps
  <2> QED  BY <2>1, <2>2, <2>3, QueueConstants
<1>4. \A i \in 1 .. Len(q.items) + 1 :
        i # k => /\ Before(k, i) \in 1 .. Len(q.items)
                 /\ w.items[i].id = q.items[Before(k, i)].id
  BY InsertedOld
<1>5. \A i \in 1 .. Len(q.items) : q.items[i].id \in 1 .. q.next_id - 1
  BY <1>1 DEF Distinct
<1>6. ASSUME NEW i \in 1 .. Len(q.items) + 1
      PROVE  w.items[i].id \in 1 .. w.next_id - 1
  <2>1. CASE i = k
    BY <1>3, <2>1 DEF Inserted
  <2>2. CASE i # k
    <3>1. w.items[i].id \in 1 .. q.next_id - 1
      BY <1>4, <1>5, <2>2
    <3> QED  BY <1>3, <3>1
  <2> QED  BY <2>1, <2>2
<1>7. ASSUME NEW i \in 1 .. Len(q.items) + 1, NEW j \in 1 .. Len(q.items) + 1,
             w.items[i].id = w.items[j].id
      PROVE  i = j
  <2>1. CASE i # k /\ j # k
    <3>1. Before(k, i) = Before(k, j)
      BY <1>1, <1>4, <1>7, <2>1 DEF Distinct
    <3> QED  BY <1>2, <2>1, <3>1 DEF Before
  <2>2. CASE i = k /\ j # k
    <3>1. Before(k, j) \in 1 .. Len(q.items) /\ q.items[Before(k, j)].id = NewId(q)
      BY <1>4, <1>7, <2>2 DEF Inserted
    <3> QED  BY <1>3, <1>5, <3>1
  <2>3. CASE i # k /\ j = k
    <3>1. Before(k, i) \in 1 .. Len(q.items) /\ q.items[Before(k, i)].id = NewId(q)
      BY <1>4, <1>7, <2>3 DEF Inserted
    <3> QED  BY <1>3, <1>5, <3>1
  <2> QED  BY <2>1, <2>2, <2>3
<1> QED  BY <1>1, <1>6, <1>7 DEF Distinct

-----------------------------------------------------------------------------
(* Each method, by its shape.                                              *)

\* A new item is an item, with the id and position it was given.
LEMMA NewItemProps ==
  ASSUME NEW id \in Nat, NEW pos \in Nat, NEW song \in Songs
  PROVE  /\ NewItem(id, pos, song) \in Item
         /\ NewItem(id, pos, song).id = id
         /\ NewItem(id, pos, song).position = pos
         /\ NewItem(id, pos, song).tags = NoTags
<1>1. NoTags \in TagMap
  BY DEF NoTags, TagMap
<1> QED  BY <1>1, QueueConstants DEF NewItem, Item

\* Handing out an id moves the counter and nothing else.
LEMMA AllocatedProps ==
  ASSUME NEW q \in QueueType
  PROVE  /\ Allocated(q) \in QueueType
         /\ Allocated(q).items = q.items
         /\ Allocated(q).next_id = (NewId(q) + 1) % IdSpace
         /\ Allocated(q).version = q.version
<1>1. (NewId(q) + 1) % IdSpace \in 0 .. IdSpace - 1
  BY NewIdProps
<1> QED  BY <1>1 DEF Allocated, QueueType

\* add puts one item at the end.
LEMMA AddInserts ==
  ASSUME NEW q, Sane(q), NEW song \in Songs
  PROVE  Inserted(q, Add(q, song), Len(q.items) + 1)
<1> DEFINE n == Len(q.items)
           item == NewItem(NewId(q), n, song)
           new == Append(q.items, item)
           a == Allocated(q)
           w == [a EXCEPT !.items = new]
<1>1. q \in QueueType /\ q.items \in Seq(Item) /\ n \in Nat
  BY DEF Sane, QueueType
<1>2. /\ item \in Item /\ item.id = NewId(q) /\ item.position = n
      /\ item.tags = NoTags
  <2>1. NewId(q) \in Nat
    BY <1>1, NewIdProps, QueueConstants
  <2> QED  BY <1>1, <2>1, NewItemProps
<1>3. /\ a \in QueueType /\ a.items = q.items
      /\ a.next_id = (NewId(q) + 1) % IdSpace /\ a.version = q.version
  BY <1>1, AllocatedProps
<1> HIDE DEF item, a
<1>4. /\ new \in Seq(Item) /\ Len(new) = n + 1 /\ new[n + 1] = item
      /\ \A i \in 1 .. n : new[i] = q.items[i]
  BY <1>1, <1>2
<1> HIDE DEF new
<1>5. /\ w \in QueueType /\ w.items = new
      /\ w.next_id = a.next_id /\ w.version = a.version
  BY <1>3, <1>4 DEF QueueType
<1> HIDE DEF w
<1>6. Add(q, song) = Bumped(w)
  BY <1>3 DEF Add, w, new, item, a
<1>7. /\ Add(q, song) \in QueueType /\ Add(q, song).items = new
      /\ Add(q, song).next_id = (NewId(q) + 1) % IdSpace
      /\ Add(q, song).version = q.version + 1
  BY <1>3, <1>5, <1>6, BumpedProps
<1>8. \A i \in 1 .. n : q.items[i].position = i - 1 /\ q.items[i] \in Item
  BY <1>1, ElementOfSeq DEF Sane
<1>9. ASSUME NEW i \in 1 .. n  PROVE new[i] = Numbered(q.items[i], i - 1)
  <2>1. /\ q.items[i] \in Item /\ i - 1 \in Nat /\ q.items[i].position = i - 1
        /\ new[i] = q.items[i]
    BY <1>1, <1>4, <1>8
  <2> QED  BY <2>1, Renumbered, Zenon
<1> QED  BY <1>1, <1>2, <1>4, <1>7, <1>9 DEF Inserted

\* The index at which add_at puts its item.
Entry(q, pos) ==
  IF pos = None \/ pos >= Len(q.items) THEN Len(q.items) + 1 ELSE pos + 1

\* add_at puts one item in at the position asked for, or at the end.
LEMMA AddAtInserts ==
  ASSUME NEW q, Sane(q), NEW song \in Songs, NEW pos \in Nat \union {None}
  PROVE  Inserted(q, AddAt(q, song, pos), Entry(q, pos))
<1> DEFINE n == Len(q.items)
           p == IF pos = None THEN n ELSE pos
           k == Entry(q, pos)
           item == NewItem(NewId(q), p, song)
           new == IF p >= n THEN Append(q.items, item)
                            ELSE InsertAt(q.items, p + 1, item)
           a == Allocated(q)
<1>1. q \in QueueType /\ q.items \in Seq(Item) /\ n \in Nat /\ p \in Nat
  BY DEF Sane, QueueType
<1>0. k = IF p >= n THEN n + 1 ELSE p + 1
  BY <1>1 DEF Entry
<1> HIDE DEF p, k
<1>2. item \in Item /\ item.id = NewId(q) /\ item.tags = NoTags
  <2>1. NewId(q) \in Nat
    BY <1>1, NewIdProps, QueueConstants
  <2> QED  BY <1>1, <2>1, NewItemProps
<1>3. /\ a \in QueueType /\ a.items = q.items
      /\ a.next_id = (NewId(q) + 1) % IdSpace /\ a.version = q.version
  BY <1>1, AllocatedProps
<1> HIDE DEF item, a
<1>4. /\ new \in Seq(Item) /\ Len(new) = n + 1 /\ new[k] = item
      /\ \A i \in 1 .. k - 1 : new[i] = q.items[i]
      /\ \A i \in k + 1 .. n + 1 : new[i] = q.items[i - 1]
  <2>1. CASE p >= n
    BY <1>0, <1>1, <1>2, <2>1
  <2>2. CASE p < n
    <3>1. k \in 1 .. Len(q.items) + 1 /\ new = InsertAt(q.items, k, item)
      BY <1>0, <1>1, <2>2
    <3> HIDE DEF new
    <3> DEFINE its == q.items
               ins == InsertAt(its, k, item)
    <3>2. its \in Seq(Item) /\ k \in 1 .. Len(its) + 1
      BY <1>1, <3>1
    <3>3. new = ins /\ n = Len(its) /\ Len(its) \in Nat
      BY <1>1, <3>1
    <3> HIDE DEF its, n
    <3>4. /\ ins \in Seq(Item) /\ Len(ins) = Len(its) + 1
          /\ \A i \in 1 .. Len(its) + 1 :
               ins[i] = IF i < k THEN its[i] ELSE IF i = k THEN item ELSE its[i - 1]
      BY <1>2, <3>2, InsertAtProps
    <3> HIDE DEF ins
    <3>5. ins[k] = item
      BY <3>2, <3>3, <3>4
    <3>6. ASSUME NEW i \in 1 .. k - 1  PROVE ins[i] = its[i]
      <4>1. i \in 1 .. Len(its) + 1 /\ i < k
        BY <3>2, <3>3, <3>4
      <4> QED  BY <3>4, <4>1
    <3>7. ASSUME NEW i \in k + 1 .. Len(its) + 1  PROVE ins[i] = its[i - 1]
      <4>1. i \in 1 .. Len(its) + 1 /\ ~(i < k) /\ i # k
        BY <3>2, <3>3, <3>4
      <4> QED  BY <3>4, <4>1
    <3> QED  BY <3>2, <3>3, <3>4, <3>5, <3>6, <3>7 DEF its
  <2> HIDE DEF new
  <2> QED  BY <1>1, <2>1, <2>2
<1>5. k \in 1 .. n + 1
  BY <1>0, <1>1
<1> HIDE DEF new
<1>6. AddAt(q, song, pos) = WithItems(a, new)
  BY DEF AddAt, new, item, a, p
<1> DEFINE w == AddAt(q, song, pos)
<1>7. /\ w \in QueueType /\ w.items = Reindex(new)
      /\ w.next_id = (NewId(q) + 1) % IdSpace /\ w.version = q.version + 1
  BY <1>3, <1>4, <1>6, WithItemsProps
<1> HIDE DEF w
<1>8. /\ Len(w.items) = n + 1
      /\ \A i \in 1 .. n + 1 : /\ w.items[i] = Numbered(new[i], i - 1)
                               /\ w.items[i].position = i - 1
                               /\ w.items[i].id = new[i].id
  BY <1>1, <1>4, <1>7, ReindexProps
<1>9. \A i \in 1 .. k - 1 : w.items[i] = Numbered(q.items[i], i - 1)
  <2>1. n \in Nat
    BY <1>1
  <2>2. \A i \in 1 .. k - 1 : i \in 1 .. n + 1
    BY <2>1, <1>5
  <2> QED  BY <2>2, <1>4, <1>8
<1>10. \A i \in k + 1 .. n + 1 : w.items[i] = Numbered(q.items[i - 1], i - 1)
  <2>1. n \in Nat
    BY <1>1
  <2>2. \A i \in k + 1 .. n + 1 : i \in 1 .. n + 1
    BY <2>1, <1>5
  <2> QED  BY <2>2, <1>4, <1>8
<1>11. /\ w.items[k].id = NewId(q) /\ w.items[k].tags = NoTags
       /\ w.items[k].position = k - 1
  <2>1. k - 1 \in Nat /\ w.items[k] = Numbered(item, k - 1)
    BY <1>1, <1>4, <1>5, <1>8
  <2>2. /\ Numbered(item, k - 1).id = item.id
        /\ Numbered(item, k - 1).position = k - 1
        /\ Numbered(item, k - 1).tags = item.tags
    BY <1>2, <2>1, Renumbered, Zenon
  <2> QED  BY <1>2, <2>1, <2>2
<1>12. Inserted(q, w, k)
  BY <1>5, <1>7, <1>8, <1>9, <1>10, <1>11 DEF Inserted
<1> QED  BY <1>12, Zenon DEF w, k

-----------------------------------------------------------------------------
(* What every method but add and add_at keeps.                             *)

\* An item of q, perhaps renumbered or edited; its tags may only be other
\* ones if its id is in X.
Carried(it, q, X) ==
  \E i \in DOMAIN q.items :
    /\ it.id = q.items[i].id
    /\ it.song = q.items[i].song
    /\ it.id \notin X => it.tags = q.items[i].tags

Keeps(q, w, X) ==
  /\ Sane(w)
  /\ Distinct(q) => Distinct(w)
  /\ w.next_id = q.next_id
  /\ w.version >= q.version
  /\ w.items # q.items => w.version > q.version
  /\ \A j \in DOMAIN w.items : Carried(w.items[j], q, X)
  /\ IdSeq(w) # IdSeq(q) =>
       \A j \in DOMAIN w.items : \E i \in DOMAIN q.items :
         w.items[j] = Numbered(q.items[i], j - 1)

\* No change keeps the items.
LEMMA KeepsSelf ==
  ASSUME NEW q, Sane(q), NEW X  PROVE Keeps(q, q, X)
<1>1. q.version \in Nat
  BY DEF Sane, QueueType
<1> QED  BY <1>1 DEF Keeps, Carried

\* Any new order of some of the items keeps them.
LEMMA RearrangeKeeps ==
  ASSUME NEW q, Sane(q), NEW new \in Seq(Item), NEW g, TakenFrom(new, q.items, g)
  PROVE  Keeps(q, WithItems(q, new), {})
<1> DEFINE w == WithItems(q, new)
<1>1. /\ w.next_id = q.next_id /\ w.items = Reindex(new)
      /\ w.version = q.version + 1 /\ q.version \in Nat
  BY WithItemsProps DEF Sane, QueueType
<1>2. Sane(w) /\ (Distinct(q) => Distinct(w))
  BY RearrangeSane, RearrangeDistinct
<1>3. DOMAIN q.items = 1 .. Len(q.items)
  BY DEF Sane, QueueType
<1>4. /\ DOMAIN w.items = 1 .. Len(new)
      /\ \A j \in 1 .. Len(new) : /\ new[j] \in Item
                                  /\ w.items[j] = Numbered(new[j], j - 1)
  BY <1>1, ReindexProps
<1> HIDE DEF w
<1>5. ASSUME NEW j \in DOMAIN w.items
      PROVE  \E i \in DOMAIN q.items : /\ w.items[j] = Numbered(q.items[i], j - 1)
                                       /\ w.items[j].id = q.items[i].id
                                       /\ w.items[j].song = q.items[i].song
                                       /\ w.items[j].tags = q.items[i].tags
  <2>1. g[j] \in DOMAIN q.items /\ new[j] = q.items[g[j]]
    BY <1>3, <1>4 DEF TakenFrom
  <2>2. new[j] \in Item /\ j - 1 \in Nat /\ w.items[j] = Numbered(new[j], j - 1)
    BY <1>4
  <2>3. /\ Numbered(new[j], j - 1).id = new[j].id
        /\ Numbered(new[j], j - 1).song = new[j].song
        /\ Numbered(new[j], j - 1).tags = new[j].tags
    BY <2>2, Renumbered, Zenon
  <2> QED  BY <2>1, <2>2, <2>3
<1>6. \A j \in DOMAIN w.items : Carried(w.items[j], q, {})
  BY <1>5 DEF Carried
<1>7. w.version >= q.version /\ w.version > q.version
  BY <1>1
<1>8. Keeps(q, w, {})
  BY <1>1, <1>2, <1>5, <1>6, <1>7 DEF Keeps
<1> QED  BY <1>8 DEF w

\* The index found for an id that is in the queue has that id.
LEMMA IndexOfProps ==
  ASSUME NEW q \in QueueType, NEW id, HasId(q, id)
  PROVE  /\ IndexOf(q, id) \in 1 .. Len(q.items)
         /\ q.items[IndexOf(q, id)].id = id
<1> DEFINE T == {i \in DOMAIN q.items : q.items[i].id = id}
<1>1. DOMAIN q.items = 1 .. Len(q.items) /\ Len(q.items) \in Nat
  BY DEF QueueType
<1>2. T \subseteq Nat /\ T # {}
  BY <1>1 DEF HasId
<1>3. PICK x \in T : \A y \in T : x <= y
  <2> HIDE DEF T
  <2> QED  BY <1>2, LeastNat
<1>4. \A y \in T : ~(y < x)
  BY <1>1, <1>3
<1>5. /\ x \in DOMAIN q.items /\ q.items[x].id = id
      /\ \A j \in DOMAIN q.items : j < x => q.items[j].id # id
  BY <1>3, <1>4
<1> QED  BY <1>1, <1>5 DEF IndexOf

\* Removing one item keeps the others.
LEMMA RemoveKeeps ==
  ASSUME NEW q, Sane(q), NEW i \in 1 .. Len(q.items)
  PROVE  Keeps(q, WithItems(q, RemoveAt(q.items, i)), {})
<1> DEFINE its == q.items
           new == RemoveAt(its, i)
           g == [k \in 1 .. Len(its) - 1 |-> IF k < i THEN k ELSE k + 1]
<1>1. its \in Seq(Item) /\ Len(its) \in Nat /\ i \in 1 .. Len(its)
  BY DEF Sane, QueueType
<1> HIDE DEF its
<1>2. /\ new \in Seq(Item) /\ Len(new) = Len(its) - 1
      /\ \A k \in 1 .. Len(its) - 1 : new[k] = its[IF k < i THEN k ELSE k + 1]
  BY <1>1, RemoveAtProps
<1> HIDE DEF new
<1>3. TakenFrom(new, its, g)
  BY <1>1, <1>2 DEF TakenFrom
<1> HIDE DEF g
<1> QED  BY <1>2, <1>3, RearrangeKeeps DEF its, new

\* delete keeps the items it does not delete.
LEMMA DeleteKeeps ==
  ASSUME NEW q, Sane(q), NEW pos \in Nat  PROVE Keeps(q, Delete(q, pos), {})
<1>1. CASE HasPos(q, pos)
  <2>1. pos + 1 \in 1 .. Len(q.items)
    BY <1>1 DEF HasPos, Sane, QueueType
  <2> QED  BY <1>1, <2>1, RemoveKeeps DEF Delete
<1>2. CASE ~HasPos(q, pos)
  BY <1>2, KeepsSelf DEF Delete
<1> QED  BY <1>1, <1>2

\* delete_id keeps the items it does not delete.
LEMMA DeleteIdKeeps ==
  ASSUME NEW q, Sane(q), NEW id  PROVE Keeps(q, DeleteId(q, id), {})
<1>1. CASE HasId(q, id)
  BY <1>1, IndexOfProps, RemoveKeeps DEF DeleteId, Sane
<1>2. CASE ~HasId(q, id)
  BY <1>2, KeepsSelf DEF DeleteId
<1> QED  BY <1>1, <1>2

\* shuffle keeps every item, whatever order it draws.
LEMMA ShuffleKeeps ==
  ASSUME NEW q, Sane(q), NEW S \in SUBSET (1 .. Len(q.items)),
         NEW f \in Bijection(S, S)
  PROVE  Keeps(q, Shuffle(q, f), {})
<1> DEFINE its == q.items
           new == Permuted(its, f)
           g == [k \in 1 .. Len(its) |-> IF k \in S THEN f[k] ELSE k]
<1>1. its \in Seq(Item) /\ Len(its) \in Nat /\ S \subseteq 1 .. Len(its)
  BY DEF Sane, QueueType
<1>2. f \in [S -> S] /\ \A a, b \in S : f[a] = f[b] => a = b
  BY DEF Bijection, Injection, IsInjective
<1> HIDE DEF its
<1>3. /\ new = [k \in 1 .. Len(its) |-> its[g[k]]]
      /\ \A k \in 1 .. Len(its) : g[k] \in 1 .. Len(its)
  BY <1>1, <1>2 DEF Permuted
<1>4. \A a, b \in 1 .. Len(its) : g[a] = g[b] => a = b
  BY <1>1, <1>2
<1>5. g \in [1 .. Len(its) -> 1 .. Len(its)]
  BY <1>3
<1> HIDE DEF g, new
<1>6. new \in [1 .. Len(its) -> Item]
  BY <1>1, <1>3
<1>7. new \in Seq(Item) /\ Len(new) = Len(its)
  BY <1>1, <1>6
<1>8. TakenFrom(new, its, g)
  BY <1>3, <1>4, <1>5, <1>7 DEF TakenFrom
<1> QED  BY <1>7, <1>8, RearrangeKeeps DEF its, new, Shuffle

\* Where move_item takes the item at index k from.
Shifted(f, t, k) ==
  IF k < t THEN (IF k < f THEN k ELSE k + 1)
  ELSE IF k = t THEN f ELSE (IF k - 1 < f THEN k - 1 ELSE k)

\* w is q with the item at position from put at position to.
MovedTo(q, w, from, to) ==
  \E new \in Seq(Item) :
    /\ w = WithItems(q, new)
    /\ Len(new) = Len(q.items)
    /\ \A k \in 1 .. Len(q.items) :
         /\ Shifted(from + 1, to + 1, k) \in 1 .. Len(q.items)
         /\ new[k] = q.items[Shifted(from + 1, to + 1, k)]

\* move_item within the queue takes one item out and puts it in elsewhere.
LEMMA MoveItemOrder ==
  ASSUME NEW q, Sane(q), NEW from \in Nat, NEW to \in Nat,
         HasPos(q, from), HasPos(q, to)
  PROVE  MovedTo(q, MoveItem(q, from, to), from, to)
<1> DEFINE its == q.items
           n == Len(its)
           f == from + 1
           t == to + 1
           item == its[f]
           rest == RemoveAt(its, f)
           new == InsertAt(rest, t, item)
           back(k) == IF k < f THEN k ELSE k + 1
<1>0. its \in Seq(Item) /\ n \in Nat
  BY DEF Sane, QueueType
<1>1. f \in 1 .. n /\ t \in 1 .. n /\ item \in Item
  BY <1>0, ElementOfSeq DEF HasPos
<1>2. MoveItem(q, from, to) = WithItems(q, new)
  BY DEF MoveItem, ItemAt
<1> HIDE DEF its, f, t, item
<1>3. /\ rest \in Seq(Item) /\ Len(rest) = n - 1
      /\ \A k \in 1 .. n - 1 : rest[k] = its[back(k)]
  BY <1>0, <1>1, RemoveAtProps
<1> HIDE DEF rest
<1>4. t \in 1 .. Len(rest) + 1
  BY <1>0, <1>1, <1>3
<1>5. /\ new \in Seq(Item) /\ Len(new) = Len(rest) + 1
      /\ \A k \in 1 .. Len(rest) + 1 :
           new[k] = IF k < t THEN rest[k] ELSE IF k = t THEN item ELSE rest[k - 1]
  BY <1>1, <1>3, <1>4, InsertAtProps
<1> HIDE DEF new
<1>6. Len(new) = n
  BY <1>0, <1>3, <1>5
<1>7. ASSUME NEW k \in 1 .. n
      PROVE  Shifted(f, t, k) \in 1 .. n /\ new[k] = its[Shifted(f, t, k)]
  <2>1. k \in 1 .. Len(rest) + 1
    BY <1>0, <1>3
  <2>2. CASE k < t
    <3>1. new[k] = rest[k] /\ k \in 1 .. n - 1
      BY <1>0, <1>1, <1>5, <2>1, <2>2
    <3>2. Shifted(f, t, k) = back(k) /\ back(k) \in 1 .. n
      BY <1>0, <1>1, <2>2, <3>1 DEF Shifted
    <3> HIDE DEF back
    <3> QED  BY <1>3, <3>1, <3>2
  <2>3. CASE k = t
    BY <1>1, <1>5, <2>1, <2>3 DEF item, Shifted
  <2>4. CASE k > t
    <3>1. new[k] = rest[k - 1] /\ k - 1 \in 1 .. n - 1
      BY <1>0, <1>1, <1>5, <2>1, <2>4
    <3>2. Shifted(f, t, k) = back(k - 1) /\ back(k - 1) \in 1 .. n
      BY <1>0, <1>1, <2>4, <3>1 DEF Shifted
    <3> HIDE DEF back
    <3> QED  BY <1>3, <3>1, <3>2
  <2> QED  BY <1>1, <2>2, <2>3, <2>4
<1> QED  BY <1>2, <1>5, <1>6, <1>7 DEF its, f, t, MovedTo

\* The ids of w are those of q with the one at position from put at position to.
MovedIds(q, w, from, to) ==
  /\ Len(w.items) = Len(q.items)
  /\ \A k \in 1 .. Len(q.items) :
       /\ Shifted(from + 1, to + 1, k) \in 1 .. Len(q.items)
       /\ w.items[k].id = q.items[Shifted(from + 1, to + 1, k)].id

\* So move_item moves one id.
LEMMA MoveItemIds ==
  ASSUME NEW q, Sane(q), NEW from \in Nat, NEW to \in Nat,
         HasPos(q, from), HasPos(q, to)
  PROVE  MovedIds(q, MoveItem(q, from, to), from, to)
<1> DEFINE n == Len(q.items)
           f == from + 1
           t == to + 1
<1>0. HasPos(q, from) /\ HasPos(q, to)
  OBVIOUS
<1>1. PICK new \in Seq(Item) :
        /\ MoveItem(q, from, to) = WithItems(q, new)
        /\ Len(new) = n
        /\ \A k \in 1 .. n : /\ Shifted(f, t, k) \in 1 .. n
                             /\ new[k] = q.items[Shifted(f, t, k)]
  <2>1. MovedTo(q, MoveItem(q, from, to), from, to)
    BY <1>0, MoveItemOrder
  <2> QED  BY <2>1 DEF MovedTo
<1> DEFINE w == MoveItem(q, from, to)
<1>2. q \in QueueType
  BY DEF Sane
<1>3. w.items = Reindex(new)
  BY <1>1, <1>2, WithItemsProps
<1> HIDE DEF w
<1>4. Len(w.items) = Len(new) /\ \A k \in 1 .. Len(new) : w.items[k].id = new[k].id
  BY <1>3, ReindexProps
<1>5. ASSUME NEW k \in 1 .. n  PROVE w.items[k].id = q.items[Shifted(f, t, k)].id
  BY <1>1, <1>4
<1> QED  BY <1>1, <1>4, <1>5 DEF MovedIds, w

\* move_item keeps every item.
LEMMA MoveItemKeeps ==
  ASSUME NEW q, Sane(q), NEW from \in Nat, NEW to \in Nat
  PROVE  Keeps(q, MoveItem(q, from, to), {})
<1> DEFINE n == Len(q.items)
           f == from + 1
           t == to + 1
           g == [k \in 1 .. n |-> Shifted(f, t, k)]
<1>1. CASE HasPos(q, from) /\ HasPos(q, to)
  <2>1. PICK new \in Seq(Item) :
          /\ MoveItem(q, from, to) = WithItems(q, new)
          /\ Len(new) = n
          /\ \A k \in 1 .. n : /\ Shifted(f, t, k) \in 1 .. n
                               /\ new[k] = q.items[Shifted(f, t, k)]
    <3>1. MovedTo(q, MoveItem(q, from, to), from, to)
      BY <1>1, MoveItemOrder
    <3> QED  BY <3>1 DEF MovedTo
  <2>2. n \in Nat /\ f \in 1 .. n /\ t \in 1 .. n
    BY <1>1 DEF Sane, QueueType, HasPos
  <2> HIDE DEF n, f, t
  <2>3. \A a, b \in 1 .. n : g[a] = g[b] => a = b
    BY <2>2 DEF Shifted
  <2>4. TakenFrom(new, q.items, g)
    BY <2>1, <2>3 DEF TakenFrom, n
  <2> QED  BY <2>1, <2>4, RearrangeKeeps
<1>2. CASE ~(HasPos(q, from) /\ HasPos(q, to))
  BY <1>2, KeepsSelf DEF MoveItem
<1> QED  BY <1>1, <1>2

\* move_by_id keeps every item.
LEMMA MoveByIdKeeps ==
  ASSUME NEW q, Sane(q), NEW id, NEW to \in Nat
  PROVE  Keeps(q, MoveById(q, id, to), {})
<1>1. CASE HasId(q, id)
  <2>1. IndexOf(q, id) - 1 \in Nat
    BY <1>1, IndexOfProps DEF Sane
  <2> QED  BY <1>1, <2>1, MoveItemKeeps DEF MoveById
<1>2. CASE ~HasId(q, id)
  BY <1>2, KeepsSelf DEF MoveById
<1> QED  BY <1>1, <1>2

\* swap keeps every item.
LEMMA SwapKeeps ==
  ASSUME NEW q, Sane(q), NEW p1 \in Nat, NEW p2 \in Nat
  PROVE  Keeps(q, Swap(q, p1, p2), {})
<1> DEFINE its == q.items
           n == Len(its)
           a == p1 + 1
           b == p2 + 1
           new == [its EXCEPT ![a] = its[b], ![b] = its[a]]
           g == [k \in 1 .. n |-> IF k = b THEN a ELSE IF k = a THEN b ELSE k]
<1>0. its \in Seq(Item) /\ n \in Nat
  BY DEF Sane, QueueType
<1>1. CASE HasPos(q, p1) /\ HasPos(q, p2)
  <2>1. a \in 1 .. n /\ b \in 1 .. n
    BY <1>0, <1>1 DEF HasPos
  <2>2. Swap(q, p1, p2) = WithItems(q, new)
    BY <1>1 DEF Swap
  <2> HIDE DEF its, a, b
  <2>3. new \in Seq(Item) /\ Len(new) = n
    BY <1>0, <2>1
  <2>4. \A k \in 1 .. n : new[k] = its[g[k]]
    BY <1>0, <2>1
  <2>5. g \in [1 .. n -> 1 .. n] /\ \A i, j \in 1 .. n : g[i] = g[j] => i = j
    BY <1>0, <2>1
  <2> HIDE DEF new, g
  <2>6. TakenFrom(new, its, g)
    BY <2>3, <2>4, <2>5 DEF TakenFrom
  <2> QED  BY <2>2, <2>3, <2>6, RearrangeKeeps DEF its
<1>2. CASE ~(HasPos(q, p1) /\ HasPos(q, p2))
  BY <1>2, KeepsSelf DEF Swap
<1> QED  BY <1>1, <1>2

\* swap_by_id keeps every item.
LEMMA SwapByIdKeeps ==
  ASSUME NEW q, Sane(q), NEW id1, NEW id2
  PROVE  Keeps(q, SwapById(q, id1, id2), {})
<1>1. CASE HasId(q, id1) /\ HasId(q, id2)
  <2>1. IndexOf(q, id1) - 1 \in Nat /\ IndexOf(q, id2) - 1 \in Nat
    BY <1>1, IndexOfProps DEF Sane
  <2> QED  BY <1>1, <2>1, SwapKeeps DEF SwapById
<1>2. CASE ~(HasId(q, id1) /\ HasId(q, id2))
  BY <1>2, KeepsSelf DEF SwapById
<1> QED  BY <1>1, <1>2

\* clear leaves nothing that was not there.
LEMMA ClearKeeps ==
  ASSUME NEW q, Sane(q)  PROVE Keeps(q, Clear(q), {})
<1> DEFINE e == [q EXCEPT !.items = <<>>]
           c == SetLastLoaded(e, None)
<1>1. /\ c \in QueueType /\ c.items = <<>>
      /\ c.next_id = q.next_id /\ c.version = q.version
  <2>1. /\ e \in QueueType /\ e.items = <<>>
        /\ e.next_id = q.next_id /\ e.version = q.version
    BY EmptySeq DEF Sane, QueueType
  <2> HIDE DEF e
  <2> QED  BY <2>1 DEF SetLastLoaded, QueueType
<1> HIDE DEF c
<1>2. /\ Bumped(c) \in QueueType /\ Bumped(c).items = <<>>
      /\ Bumped(c).next_id = q.next_id /\ Bumped(c).version = q.version + 1
  BY <1>1, BumpedProps
<1>3. DOMAIN Bumped(c).items = {} /\ q.version \in Nat
  BY <1>2 DEF Sane, QueueType
<1>4. Keeps(q, Bumped(c), {})
  BY <1>2, <1>3 DEF Keeps, Sane, Distinct
<1> QED  BY <1>4 DEF Clear, c

\* Setting the last loaded playlist leaves the items alone.
LEMMA SetLastLoadedKeeps ==
  ASSUME NEW q, Sane(q), NEW name \in Playlists
  PROVE  Keeps(q, SetLastLoaded(q, name), {})
<1> DEFINE w == SetLastLoaded(q, name)
<1>1. /\ w \in QueueType /\ w.items = q.items /\ w.next_id = q.next_id
      /\ w.version = q.version /\ q.version \in Nat
  BY DEF SetLastLoaded, Sane, QueueType
<1> HIDE DEF w
<1>2. w.version >= q.version /\ IdSeq(w) = IdSeq(q)
  BY <1>1 DEF IdSeq
<1>3. Keeps(q, w, {})
  BY <1>1, <1>2 DEF Keeps, Carried, Sane, Distinct
<1> QED  BY <1>3 DEF w

\* new edits items in place: same ids, positions and songs, and tags except
\* those of the ids in X.
Edited(old, new, X) ==
  /\ new \in Seq(Item) /\ Len(new) = Len(old)
  /\ \A i \in 1 .. Len(old) :
       /\ new[i].id = old[i].id /\ new[i].position = old[i].position
       /\ new[i].song = old[i].song
       /\ new[i].id \notin X => new[i].tags = old[i].tags

\* Editing the data of items in place keeps them, when a change bumps the version.
LEMMA EditKeeps ==
  ASSUME NEW q, Sane(q), NEW X, NEW new, Edited(q.items, new, X), NEW bump,
         new # q.items => bump,
         NEW w, w = IF bump THEN Bumped([q EXCEPT !.items = new])
                            ELSE [q EXCEPT !.items = new]
  PROVE  Keeps(q, w, X)
<1> DEFINE e == [q EXCEPT !.items = new]
<1>1. /\ e \in QueueType /\ e.items = new /\ e.next_id = q.next_id
      /\ e.version = q.version /\ q.version \in Nat
  BY DEF Sane, QueueType, Edited
<1> HIDE DEF e
<1>2. w = e \/ w = Bumped(e)
  BY DEF e
<1>3. /\ w \in QueueType /\ w.items = new /\ w.next_id = q.next_id
      /\ bump => w.version > q.version
      /\ w.version >= q.version
  <2>1. CASE ~bump
    BY <1>1, <2>1 DEF e
  <2>2. CASE bump
    <3>1. w = Bumped(e)
      BY <2>2 DEF e
    <3> QED  BY <1>1, <3>1, BumpedProps
  <2> QED  BY <2>1, <2>2
<1>4. DOMAIN new = 1 .. Len(q.items) /\ DOMAIN q.items = 1 .. Len(q.items)
  BY DEF Sane, QueueType, Edited
<1>5. \A i \in 1 .. Len(q.items) :
        /\ w.items[i].id = q.items[i].id /\ w.items[i].position = q.items[i].position
        /\ w.items[i].song = q.items[i].song
        /\ w.items[i].id \notin X => w.items[i].tags = q.items[i].tags
  BY <1>3 DEF Edited
<1>6. Sane(w)
  BY <1>3, <1>4, <1>5 DEF Sane
<1>7. Distinct(q) => Distinct(w)
  BY <1>3, <1>4, <1>5 DEF Distinct
<1>8. IdSeq(w) = IdSeq(q)
  BY <1>3, <1>4, <1>5 DEF IdSeq
<1>9. \A j \in DOMAIN w.items : Carried(w.items[j], q, X)
  BY <1>3, <1>4, <1>5, Zenon DEF Carried
<1> QED  BY <1>3, <1>6, <1>7, <1>8, <1>9 DEF Keeps

\* A priority leaves the rest of an item alone.
LEMMA PrioritizedItem ==
  ASSUME NEW it \in Item, NEW prio \in Priorities
  PROVE  /\ [it EXCEPT !.priority = prio] \in Item
         /\ [it EXCEPT !.priority = prio].id = it.id
         /\ [it EXCEPT !.priority = prio].position = it.position
         /\ [it EXCEPT !.priority = prio].song = it.song
         /\ [it EXCEPT !.priority = prio].tags = it.tags
         /\ it.priority = prio => [it EXCEPT !.priority = prio] = it
BY DEF Item

\* A range leaves the rest of an item alone.
LEMMA RangedItem ==
  ASSUME NEW it \in Item, NEW r \in Ranges \union {None}
  PROVE  /\ [it EXCEPT !.range = r] \in Item
         /\ [it EXCEPT !.range = r].id = it.id
         /\ [it EXCEPT !.range = r].position = it.position
         /\ [it EXCEPT !.range = r].song = it.song
         /\ [it EXCEPT !.range = r].tags = it.tags
         /\ it.range = r => [it EXCEPT !.range = r] = it
BY DEF Item

\* A tag leaves id, position and song alone.
LEMMA TaggedItem ==
  ASSUME NEW it \in Item, NEW t \in Tags, NEW v \in Values \union {None}
  PROVE  /\ [it EXCEPT !.tags[t] = v] \in Item
         /\ [it EXCEPT !.tags[t] = v].id = it.id
         /\ [it EXCEPT !.tags[t] = v].position = it.position
         /\ [it EXCEPT !.tags[t] = v].song = it.song
         /\ it.tags[t] = v => [it EXCEPT !.tags[t] = v] = it
BY DEF Item, TagMap

\* Clearing the tags leaves id, position and song alone.
LEMMA UntaggedItem ==
  ASSUME NEW it \in Item
  PROVE  /\ [it EXCEPT !.tags = NoTags] \in Item
         /\ [it EXCEPT !.tags = NoTags].id = it.id
         /\ [it EXCEPT !.tags = NoTags].position = it.position
         /\ [it EXCEPT !.tags = NoTags].song = it.song
         /\ it.tags = NoTags => [it EXCEPT !.tags = NoTags] = it
BY DEF Item, TagMap, NoTags

\* Editing the data of the items at some positions keeps them.
LEMMA EditAtKeeps ==
  ASSUME NEW q, Sane(q), NEW X, NEW S \in SUBSET (1 .. Len(q.items)),
         NEW ed \in [1 .. Len(q.items) -> Item],
         \A i \in S : /\ ed[i].id = q.items[i].id
                      /\ ed[i].position = q.items[i].position
                      /\ ed[i].song = q.items[i].song
                      /\ ed[i].id \notin X => ed[i].tags = q.items[i].tags,
         NEW bump, (\E i \in S : ed[i] # q.items[i]) => bump,
         NEW w,
         LET new == [i \in DOMAIN q.items |->
                       IF i \in S THEN ed[i] ELSE q.items[i]]
         IN  w = IF bump THEN Bumped([q EXCEPT !.items = new])
                         ELSE [q EXCEPT !.items = new]
  PROVE  Keeps(q, w, X)
<1> DEFINE its == q.items
           new == [i \in DOMAIN its |-> IF i \in S THEN ed[i] ELSE its[i]]
<1>1. /\ its \in Seq(Item) /\ Len(its) \in Nat /\ DOMAIN its = 1 .. Len(its)
      /\ \A i \in 1 .. Len(its) : its[i] \in Item /\ ed[i] \in Item
  BY ElementOfSeq DEF Sane, QueueType
<1> HIDE DEF its
<1>2. new \in [1 .. Len(its) -> Item]
  BY <1>1
<1>3. Edited(its, new, X)
  BY <1>1, <1>2 DEF Edited, its
<1>4. ~bump => \A i \in 1 .. Len(its) : new[i] = its[i]
  BY <1>1 DEF its
<1>5. ~bump => new = its
  <2> HIDE DEF new
  <2> QED  BY <1>1, <1>3, <1>4, SeqEqual DEF Edited
<1>6. w = IF bump THEN Bumped([q EXCEPT !.items = new])
                  ELSE [q EXCEPT !.items = new]
  BY DEF its
<1> HIDE DEF new
<1>7. Edited(q.items, new, X)
  BY <1>3 DEF its
<1>8. new # q.items => bump
  BY <1>5 DEF its
<1> QED  BY <1>6, <1>7, <1>8, EditKeeps

\* Setting the priority of some items keeps them.
LEMMA PriorityKeeps ==
  ASSUME NEW q, Sane(q), NEW prio \in Priorities,
         NEW S \in SUBSET (1 .. Len(q.items)), NEW bump,
         (\E i \in S : q.items[i].priority # prio) => bump
  PROVE  Keeps(q, EditItems(q, S, LAMBDA it : [it EXCEPT !.priority = prio], bump), {})
<1> DEFINE ed == [i \in 1 .. Len(q.items) |-> [q.items[i] EXCEPT !.priority = prio]]
           w  == EditItems(q, S, LAMBDA it : [it EXCEPT !.priority = prio], bump)
<1>1. /\ DOMAIN q.items = 1 .. Len(q.items)
      /\ \A i \in 1 .. Len(q.items) : q.items[i] \in Item
  BY ElementOfSeq DEF Sane, QueueType
<1>2. w = LET new == [i \in DOMAIN q.items |->
                        IF i \in S THEN ed[i] ELSE q.items[i]]
          IN  IF bump THEN Bumped([q EXCEPT !.items = new])
                      ELSE [q EXCEPT !.items = new]
  BY <1>1 DEF EditItems, Sane, QueueType
<1>3. ed \in [1 .. Len(q.items) -> Item]
  BY <1>1, PrioritizedItem
<1>4. \A i \in S : /\ ed[i].id = q.items[i].id
                   /\ ed[i].position = q.items[i].position
                   /\ ed[i].song = q.items[i].song
                   /\ ed[i].tags = q.items[i].tags
  BY <1>1, PrioritizedItem
<1>5. (\E i \in S : ed[i] # q.items[i]) => bump
  BY <1>1, PrioritizedItem
<1> HIDE DEF ed, w
<1>6. Keeps(q, w, {})
  BY <1>2, <1>3, <1>4, <1>5, EditAtKeeps, Zenon
<1> QED  BY <1>6 DEF w

\* set_priority_range keeps the items.
LEMMA SetPriorityRangeKeeps ==
  ASSUME NEW q, Sane(q), NEW prio \in Priorities, NEW start, NEW end
  PROVE  Keeps(q, SetPriorityRange(q, prio, start, end), {})
<1>1. Clip(q, start, end) \in SUBSET (1 .. Len(q.items))
  BY DEF Clip, Sane, QueueType
<1> QED  BY <1>1, PriorityKeeps DEF SetPriorityRange

\* set_priority_ids keeps the items.
LEMMA SetPriorityIdsKeeps ==
  ASSUME NEW q, Sane(q), NEW prio \in Priorities, NEW ids
  PROVE  Keeps(q, SetPriorityIds(q, prio, ids), {})
<1> DEFINE S == {IndexOf(q, id) : id \in {x \in ids : HasId(q, x)}}
<1>1. S \in SUBSET (1 .. Len(q.items))
  BY IndexOfProps DEF Sane
<1> QED  BY <1>1, PriorityKeeps DEF SetPriorityIds

\* set_range_by_id keeps the items.
LEMMA SetRangeKeeps ==
  ASSUME NEW q, Sane(q), NEW id, NEW r \in Ranges \union {None}
  PROVE  Keeps(q, SetRangeById(q, id, r), {})
<1> DEFINE k == IndexOf(q, id)
           ed == [i \in 1 .. Len(q.items) |-> [q.items[i] EXCEPT !.range = r]]
<1>1. CASE HasId(q, id)
  <2>1. /\ DOMAIN q.items = 1 .. Len(q.items)
        /\ \A i \in 1 .. Len(q.items) : q.items[i] \in Item
        /\ k \in 1 .. Len(q.items)
    BY <1>1, IndexOfProps, ElementOfSeq DEF Sane, QueueType
  <2> HIDE DEF k
  <2>2. SetRangeById(q, id, r)
          = LET new == [i \in DOMAIN q.items |->
                          IF i \in {k} THEN ed[i] ELSE q.items[i]]
            IN  IF q.items[k].range # r
                THEN Bumped([q EXCEPT !.items = new])
                ELSE [q EXCEPT !.items = new]
    BY <1>1, <2>1 DEF SetRangeById, EditItems, Sane, QueueType, k
  <2>3. ed \in [1 .. Len(q.items) -> Item]
    BY <2>1, RangedItem
  <2>4. \A i \in {k} : /\ ed[i].id = q.items[i].id
                       /\ ed[i].position = q.items[i].position
                       /\ ed[i].song = q.items[i].song
                       /\ ed[i].tags = q.items[i].tags
                       /\ ed[i] # q.items[i] => q.items[k].range # r
    BY <2>1, RangedItem
  <2>5. {k} \in SUBSET (1 .. Len(q.items))
    BY <2>1
  <2> HIDE DEF ed
  <2> QED  BY <2>2, <2>3, <2>4, <2>5, EditAtKeeps, ZenonT(30)
<1>2. CASE ~HasId(q, id)
  BY <1>2, KeepsSelf DEF SetRangeById
<1> QED  BY <1>1, <1>2

\* set_range_by_id leaves the order of the ids alone.
LEMMA SetRangeIds ==
  ASSUME NEW q, Sane(q), NEW id, NEW r \in Ranges \union {None}
  PROVE  IdSeq(SetRangeById(q, id, r)) = IdSeq(q)
<1> DEFINE k == IndexOf(q, id)
           w == SetRangeById(q, id, r)
<1>1. CASE HasId(q, id)
  <2>1. /\ DOMAIN q.items = 1 .. Len(q.items)
        /\ \A i \in 1 .. Len(q.items) : q.items[i] \in Item
    BY ElementOfSeq DEF Sane, QueueType
  <2>2. w.items = [i \in DOMAIN q.items |->
                     IF i \in {k} THEN [q.items[i] EXCEPT !.range = r] ELSE q.items[i]]
    BY <1>1 DEF SetRangeById, EditItems, Bumped, Sane, QueueType
  <2> HIDE DEF w, k
  <2>3. /\ DOMAIN w.items = DOMAIN q.items
        /\ \A i \in DOMAIN q.items : w.items[i].id = q.items[i].id
    BY <2>1, <2>2, RangedItem
  <2> QED  BY <2>3 DEF IdSeq, w
<1>2. CASE ~HasId(q, id)
  BY <1>2 DEF SetRangeById
<1> QED  BY <1>1, <1>2

\* add_tag_by_id, and clear_tags_by_id of one tag, keep the items.
LEMMA SetTagKeeps ==
  ASSUME NEW q, Sane(q), NEW id, NEW t \in Tags, NEW v \in Values \union {None}
  PROVE  Keeps(q, SetTag(q, id, t, v), {id})
<1> DEFINE k == IndexOf(q, id)
           ed == [i \in 1 .. Len(q.items) |-> [q.items[i] EXCEPT !.tags[t] = v]]
<1>1. CASE HasId(q, id)
  <2>1. /\ DOMAIN q.items = 1 .. Len(q.items)
        /\ \A i \in 1 .. Len(q.items) : q.items[i] \in Item
        /\ k \in 1 .. Len(q.items) /\ q.items[k].id = id
    BY <1>1, IndexOfProps, ElementOfSeq DEF Sane, QueueType
  <2> HIDE DEF k
  <2>2. SetTag(q, id, t, v)
          = LET new == [i \in DOMAIN q.items |->
                          IF i \in {k} THEN ed[i] ELSE q.items[i]]
            IN  IF q.items[k].tags[t] # v
                THEN Bumped([q EXCEPT !.items = new])
                ELSE [q EXCEPT !.items = new]
    BY <1>1, <2>1 DEF SetTag, EditItems, Sane, QueueType, k
  <2>3. ed \in [1 .. Len(q.items) -> Item]
    BY <2>1, TaggedItem
  <2>4. \A i \in {k} : /\ ed[i].id = q.items[i].id
                       /\ ed[i].position = q.items[i].position
                       /\ ed[i].song = q.items[i].song
                       /\ ed[i].id \in {id}
                       /\ ed[i] # q.items[i] => q.items[k].tags[t] # v
    <3> DEFINE item == q.items[k]
    <3>1. item \in Item /\ ed[k] = [item EXCEPT !.tags[t] = v]
      BY <2>1
    <3> HIDE DEF item, ed
    <3>2. /\ ed[k].id = item.id /\ ed[k].position = item.position
          /\ ed[k].song = item.song
          /\ item.tags[t] = v => ed[k] = item
      BY <3>1, TaggedItem
    <3> QED  BY <2>1, <3>2 DEF item
  <2>5. {k} \in SUBSET (1 .. Len(q.items))
    BY <2>1
  <2> HIDE DEF ed
  <2> QED  BY <2>2, <2>3, <2>4, <2>5, EditAtKeeps, ZenonT(30)
<1>2. CASE ~HasId(q, id)
  BY <1>2, KeepsSelf DEF SetTag
<1> QED  BY <1>1, <1>2

\* clear_tags_by_id of all tags keeps the items.
LEMMA ClearTagsKeeps ==
  ASSUME NEW q, Sane(q), NEW id
  PROVE  Keeps(q, ClearTagsById(q, id), {id})
<1> DEFINE k == IndexOf(q, id)
           ed == [i \in 1 .. Len(q.items) |-> [q.items[i] EXCEPT !.tags = NoTags]]
<1>1. CASE HasId(q, id)
  <2>1. /\ DOMAIN q.items = 1 .. Len(q.items)
        /\ \A i \in 1 .. Len(q.items) : q.items[i] \in Item
        /\ k \in 1 .. Len(q.items) /\ q.items[k].id = id
    BY <1>1, IndexOfProps, ElementOfSeq DEF Sane, QueueType
  <2> HIDE DEF k
  <2>2. ClearTagsById(q, id)
          = LET new == [i \in DOMAIN q.items |->
                          IF i \in {k} THEN ed[i] ELSE q.items[i]]
            IN  IF q.items[k].tags # NoTags
                THEN Bumped([q EXCEPT !.items = new])
                ELSE [q EXCEPT !.items = new]
    BY <1>1, <2>1 DEF ClearTagsById, EditItems, Sane, QueueType, k
  <2>3. ed \in [1 .. Len(q.items) -> Item]
    BY <2>1, UntaggedItem
  <2>4. \A i \in {k} : /\ ed[i].id = q.items[i].id
                       /\ ed[i].position = q.items[i].position
                       /\ ed[i].song = q.items[i].song
                       /\ ed[i].id \in {id}
                       /\ ed[i] # q.items[i] => q.items[k].tags # NoTags
    BY <2>1, UntaggedItem
  <2>5. {k} \in SUBSET (1 .. Len(q.items))
    BY <2>1
  <2> HIDE DEF ed
  <2> QED  BY <2>2, <2>3, <2>4, <2>5, EditAtKeeps, Zenon
<1>2. CASE ~HasId(q, id)
  BY <1>2, KeepsSelf DEF ClearTagsById
<1> QED  BY <1>1, <1>2

\* Two queues with the same ids in the same order.
LEMMA SameIds ==
  ASSUME NEW q, NEW w, IdSeq(w) = IdSeq(q)
  PROVE  /\ DOMAIN w.items = DOMAIN q.items
         /\ \A i \in DOMAIN q.items : w.items[i].id = q.items[i].id
<1>1. DOMAIN IdSeq(w) = DOMAIN w.items /\ DOMAIN IdSeq(q) = DOMAIN q.items
  BY DEF IdSeq
<1>2. \A i \in DOMAIN q.items : IdSeq(q)[i] = q.items[i].id
  BY DEF IdSeq
<1>3. \A i \in DOMAIN w.items : IdSeq(w)[i] = w.items[i].id
  BY DEF IdSeq
<1> QED  BY <1>1, <1>2, <1>3

-----------------------------------------------------------------------------
(* What any number of calls in a row leaves.                               *)

\* No more ids were handed out than the version counted changes.
Counted(q) == q.next_id <= q.version + 1

\* Fewer changes than the counter has values: it has not wrapped.
Early(q) == q.version < IdSpace - 1

\* An item that was in q, or has come since and has no tags.
Stems(it, q) == (it.id >= q.next_id /\ it.tags = NoTags) \/ Carried(it, q, {})

\* q became w by calls none of which edits tags.
Leads(q, w) ==
  /\ Sane(w)
  /\ w.version >= q.version
  /\ Counted(q) /\ Early(w) =>
       /\ Counted(w)
       /\ w.next_id >= q.next_id
       /\ Distinct(q) => Distinct(w)
       /\ \A j \in DOMAIN w.items : Stems(w.items[j], q)

\* No call at all.
LEMMA LeadsSelf == ASSUME NEW q, Sane(q)  PROVE Leads(q, q)
<1>1. q.version \in Nat /\ q.next_id \in Nat
  BY DEF Sane, QueueType
<1> QED  BY <1>1 DEF Leads, Stems, Carried

\* Calls after calls.
LEMMA LeadsTrans ==
  ASSUME NEW q, Sane(q), NEW w, Leads(q, w), NEW v, Leads(w, v)
  PROVE  Leads(q, v)
<1>1. /\ q.version \in Nat /\ w.version \in Nat /\ v.version \in Nat
      /\ q.next_id \in Nat /\ w.next_id \in Nat /\ v.next_id \in Nat
      /\ Sane(w) /\ Sane(v) /\ w.version >= q.version /\ v.version >= w.version
  BY DEF Leads, Sane, QueueType
<1>2. v.version >= q.version
  BY <1>1
<1>3. ASSUME Counted(q), Early(v)
      PROVE  /\ Counted(v) /\ v.next_id >= q.next_id
             /\ Distinct(q) => Distinct(v)
             /\ \A j \in DOMAIN v.items : Stems(v.items[j], q)
  <2>1. Early(w)
    BY <1>1, <1>3, QueueConstants DEF Early
  <2>2. /\ Counted(w) /\ w.next_id >= q.next_id
        /\ Distinct(q) => Distinct(w)
        /\ \A j \in DOMAIN w.items : Stems(w.items[j], q)
    BY <1>3, <2>1 DEF Leads
  <2>3. /\ Counted(v) /\ v.next_id >= w.next_id
        /\ Distinct(w) => Distinct(v)
        /\ \A j \in DOMAIN v.items : Stems(v.items[j], w)
    BY <1>3, <2>2 DEF Leads
  <2>4. ASSUME NEW j \in DOMAIN v.items  PROVE Stems(v.items[j], q)
    <3> DEFINE it == v.items[j]
    <3>1. it.id \in Nat
      <4>1. v.items \in Seq(Item) /\ DOMAIN v.items = 1 .. Len(v.items)
        BY <1>1 DEF Sane, QueueType
      <4>2. v.items[j] \in Item
        BY <4>1, ElementOfSeq
      <4> QED  BY <4>2 DEF Item
    <3>2. CASE it.id >= w.next_id /\ it.tags = NoTags
      <4>1. it.id >= q.next_id
        BY <1>1, <2>2, <3>1, <3>2
      <4> QED  BY <3>2, <4>1 DEF Stems
    <3>3. CASE Carried(it, w, {})
      <4>1. PICK i \in DOMAIN w.items :
              it.id = w.items[i].id /\ it.song = w.items[i].song /\ it.tags = w.items[i].tags
        BY <3>3 DEF Carried
      <4>2. Stems(w.items[i], q)
        BY <2>2
      <4> QED  BY <4>1, <4>2 DEF Stems, Carried
    <3> QED  BY <2>3, <3>2, <3>3 DEF Stems
  <2> QED  BY <1>1, <2>2, <2>3, <2>4
<1> QED  BY <1>1, <1>2, <1>3 DEF Leads

\* A call that keeps items.
LEMMA KeepsLeads ==
  ASSUME NEW q, Sane(q), NEW w, Keeps(q, w, {})
  PROVE  Leads(q, w)
<1>1. /\ q.version \in Nat /\ q.next_id \in Nat /\ w.next_id = q.next_id
      /\ w.version >= q.version /\ w.version \in Nat
  BY DEF Keeps, Sane, QueueType
<1>2. Counted(q) => Counted(w)
  BY <1>1 DEF Counted
<1>3. \A j \in DOMAIN w.items : Stems(w.items[j], q)
  BY DEF Keeps, Stems
<1> QED  BY <1>1, <1>2, <1>3 DEF Keeps, Leads

\* Ids in order after an insertion.
LEMMA InsertedIds ==
  ASSUME NEW q, Sane(q), NEW w, NEW k, Inserted(q, w, k)
  PROVE  /\ Len(w.items) = Len(q.items) + 1
         /\ DOMAIN w.items = 1 .. Len(q.items) + 1
         /\ \A i \in 1 .. Len(q.items) + 1 :
              w.items[i].id = IF i = k THEN NewId(q) ELSE q.items[Before(k, i)].id
<1>1. \A i \in 1 .. Len(q.items) + 1 : i # k => w.items[i].id = q.items[Before(k, i)].id
  BY InsertedOld
<1> QED  BY <1>1 DEF Inserted, QueueType

\* The counter after an insertion that did not wrap it.
LEMMA InsertedCounter ==
  ASSUME NEW q, Sane(q), NEW w, NEW k, Inserted(q, w, k), Counted(q), Early(w)
  PROVE  /\ NewId(q) + 1 < IdSpace
         /\ w.next_id = NewId(q) + 1
         /\ NewId(w) = NewId(q) + 1
         /\ Counted(w)
<1>1. /\ q.version \in Nat /\ q.next_id \in Nat /\ w.version = q.version + 1
      /\ w.next_id = (NewId(q) + 1) % IdSpace /\ q \in QueueType
  BY DEF Sane, QueueType, Inserted
<1>2. NewId(q) <= q.version + 1 /\ NewId(q) \in Nat
  BY <1>1 DEF NewId, Counted
<1>3. NewId(q) + 1 < IdSpace
  BY <1>1, <1>2, QueueConstants DEF Early
<1>4. w.next_id = NewId(q) + 1
  BY <1>1, <1>3, NewIdProps
<1> QED  BY <1>1, <1>2, <1>3, <1>4 DEF NewId, Counted

\* A call that inserts an item.
LEMMA InsertedLeads ==
  ASSUME NEW q, Sane(q), NEW w, NEW k, Inserted(q, w, k)
  PROVE  Leads(q, w)
<1>0. Sane(w)
  BY InsertedSane
<1>1. /\ q.version \in Nat /\ q.next_id \in Nat /\ w.version = q.version + 1
      /\ Sane(w)
  BY <1>0 DEF Sane, QueueType, Inserted
<1>2. ASSUME Counted(q), Early(w)
      PROVE  /\ Counted(w) /\ w.next_id >= q.next_id
             /\ Distinct(q) => Distinct(w)
             /\ \A j \in DOMAIN w.items : Stems(w.items[j], q)
  <2>1. /\ NewId(q) + 1 < IdSpace /\ w.next_id = NewId(q) + 1 /\ Counted(w)
    BY <1>2, InsertedCounter
  <2>2. NewId(q) >= q.next_id /\ NewId(q) \in Nat
    <3>1. NewId(q) \in 1 .. IdSpace - 1 /\ NewId(q) >= q.next_id
      BY NewIdProps DEF Sane
    <3> QED  BY <3>1, QueueConstants
  <2>3. Distinct(q) => Distinct(w)
    BY <2>1, InsertedDistinct
  <2>4. ASSUME NEW j \in DOMAIN w.items  PROVE Stems(w.items[j], q)
    <3>1. j \in 1 .. Len(q.items) + 1 /\ DOMAIN q.items = 1 .. Len(q.items)
      BY DEF Inserted, QueueType, Sane
    <3>2. CASE j = k
      BY <2>2, <3>2 DEF Inserted, Stems
    <3>3. CASE j # k
      <4> DEFINE i == Before(k, j)
      <4>1. /\ i \in DOMAIN q.items /\ q.items[i] \in Item
            /\ w.items[j] = Numbered(q.items[i], j - 1)
        BY <3>1, <3>3, InsertedOld
      <4> HIDE DEF i
      <4>2. j - 1 \in Nat
        BY <3>1
      <4>3. /\ Numbered(q.items[i], j - 1).id = q.items[i].id
            /\ Numbered(q.items[i], j - 1).song = q.items[i].song
            /\ Numbered(q.items[i], j - 1).tags = q.items[i].tags
        BY <4>1, <4>2, Renumbered, Zenon
      <4> QED  BY <4>1, <4>3 DEF Stems, Carried
    <3> QED  BY <3>2, <3>3
  <2> QED  BY <1>1, <2>1, <2>2, <2>3, <2>4
<1> QED  BY <1>1, <1>2 DEF Leads

-----------------------------------------------------------------------------
(* Loops over the queue.                                                   *)

SaneQueues == {q \in QueueType : Sane(q)}

\* The rounds of AddAll.
LEMMA AddAllRuns ==
  ASSUME NEW q, Sane(q), NEW songs \in Seq(Songs)
  PROVE  \E h : /\ h[0] = q
                /\ \A i \in 1 .. Len(songs) : h[i] = Add(h[i - 1], songs[i])
                /\ AddAll(q, songs) = h[Len(songs)]
<1> DEFINE n == Len(songs)
           F == [p \in SaneQueues \X (1 .. n) |-> Add(p[1], songs[p[2]])]
           Rounded(h) == h = [i \in 0 .. n |-> IF i = 0 THEN q ELSE Add(h[i - 1], songs[i])]
           g == CHOOSE h : Rounded(h)
<1>1. n \in Nat /\ q \in SaneQueues /\ \A i \in 1 .. n : songs[i] \in Songs
  BY ElementOfSeq DEF SaneQueues, Sane
<1>2. \A x \in SaneQueues, i \in 1 .. n : Add(x, songs[i]) \in SaneQueues
  BY <1>1, AddInserts, InsertedSane DEF SaneQueues, Sane
<1>3. StaysIn(SaneQueues, n, F)
  BY <1>2 DEF StaysIn
<1>4. PICK f \in [0 .. n -> SaneQueues] :
        f[0] = q /\ \A i \in 1 .. n : f[i] = F[<<f[i - 1], i>>]
  <2> HIDE DEF F, n
  <2>1. Runs(SaneQueues, q, n, F)
    BY <1>1, <1>3, LoopRuns, Zenon
  <2> QED  BY <2>1 DEF Runs
<1>5. \A i \in 1 .. n : f[i] = Add(f[i - 1], songs[i])
  BY <1>1, <1>4
<1>6. Rounded(f)
  <2> HIDE DEF n
  <2> QED  BY <1>1, <1>4, <1>5
<1>7. Rounded(g)
  BY <1>6, Zenon
<1>8. AddAll(q, songs) = g[n]
  BY DEF AddAll, Looped
<1>9. g[0] = q /\ \A i \in 1 .. n : g[i] = Add(g[i - 1], songs[i])
  <2> HIDE DEF g
  <2> QED  BY <1>1, <1>7
<1> QED  BY <1>8, <1>9

\* Songs added one after the other stand at the end, in order, with ids in a row.
LEMMA AddAllProps ==
  ASSUME NEW q, Sane(q), NEW songs \in Seq(Songs)
  PROVE  LET w == AddAll(q, songs)
             n == Len(q.items)
             m == Len(songs)
         IN  /\ Leads(q, w)
             /\ Len(w.items) = n + m
             /\ \A k \in 1 .. n : w.items[k].id = q.items[k].id
             /\ Counted(q) /\ Early(w) =>
                  \A k \in 1 .. m : w.items[n + k].id = NewId(q) + k - 1
<1> DEFINE n == Len(q.items)
           m == Len(songs)
           Good(x, i) ==
             /\ Leads(q, x)
             /\ Len(x.items) = n + i
             /\ \A k \in 1 .. n : x.items[k].id = q.items[k].id
             /\ Counted(q) /\ Early(x) =>
                  /\ NewId(x) = NewId(q) + i
                  /\ \A k \in 1 .. i : x.items[n + k].id = NewId(q) + k - 1
<1>1. PICK h : /\ h[0] = q
               /\ \A i \in 1 .. m : h[i] = Add(h[i - 1], songs[i])
               /\ AddAll(q, songs) = h[m]
  BY AddAllRuns
<1>2. n \in Nat /\ m \in Nat /\ \A i \in 1 .. m : songs[i] \in Songs
  BY ElementOfSeq DEF Sane, QueueType
<1>3. NewId(q) \in Nat
  <2>1. NewId(q) \in 1 .. IdSpace - 1
    BY NewIdProps DEF Sane
  <2> QED  BY <2>1, QueueConstants
<1> DEFINE G == {i \in 0 .. m : Good(h[i], i)}
<1>4. 0 \in G
  BY <1>1, <1>2, <1>3, LeadsSelf
<1>5. ASSUME NEW i \in 1 .. m, i - 1 \in G  PROVE i \in G
  <2> DEFINE x == h[i - 1]
             w == h[i]
  <2>1. Good(x, i - 1) /\ w = Add(x, songs[i]) /\ songs[i] \in Songs
    BY <1>1, <1>2, <1>5
  <2> HIDE DEF x, w
  <2>2. Sane(x) /\ Len(x.items) = n + (i - 1)
    BY <2>1 DEF Leads
  <2>3. Inserted(x, w, Len(x.items) + 1)
    BY <2>1, <2>2, AddInserts
  <2>4. Leads(q, w)
    BY <2>1, <2>2, <2>3, InsertedLeads, LeadsTrans
  <2>5. /\ Len(w.items) = Len(x.items) + 1
        /\ \A k \in 1 .. Len(x.items) + 1 :
             w.items[k].id = IF k = Len(x.items) + 1 THEN NewId(x)
                             ELSE x.items[Before(Len(x.items) + 1, k)].id
    BY <2>2, <2>3, InsertedIds
  <2>6. Len(w.items) = n + i
    BY <1>2, <2>2, <2>5
  <2>7. \A k \in 1 .. n + (i - 1) : w.items[k].id = x.items[k].id
    <3> DEFINE l == Len(x.items)
    <3>1. l \in Nat /\ l = n + (i - 1)
      BY <1>2, <2>2
    <3>2. \A k \in 1 .. l + 1 :
            w.items[k].id = IF k = l + 1 THEN NewId(x) ELSE x.items[Before(l + 1, k)].id
      BY <2>5
    <3> HIDE DEF l, n
    <3>3. ASSUME NEW k \in 1 .. l  PROVE w.items[k].id = x.items[k].id
      BY <3>1, <3>2 DEF Before
    <3> QED  BY <3>1, <3>3
  <2>8. w.items[n + i].id = NewId(x)
    BY <1>2, <2>2, <2>5
  <2>9. \A k \in 1 .. n : w.items[k].id = q.items[k].id
    BY <1>2, <2>1, <2>7
  <2>10. ASSUME Counted(q), Early(w)
         PROVE  /\ NewId(w) = NewId(q) + i
                /\ \A k \in 1 .. i : w.items[n + k].id = NewId(q) + k - 1
    <3>1. Early(x)
      BY <2>2, <2>3, <2>10, QueueConstants DEF Early, Inserted, Sane, QueueType
    <3>2. Counted(x)
      BY <2>1, <2>10, <3>1 DEF Leads
    <3>3. NewId(w) = NewId(x) + 1
      BY <2>2, <2>3, <2>10, <3>2, InsertedCounter
    <3>4. /\ NewId(x) = NewId(q) + (i - 1)
          /\ \A k \in 1 .. i - 1 : x.items[n + k].id = NewId(q) + k - 1
      BY <2>1, <2>10, <3>1
    <3>5. ASSUME NEW k \in 1 .. i  PROVE w.items[n + k].id = NewId(q) + k - 1
      <4>1. CASE k = i
        BY <1>2, <1>3, <2>8, <3>4, <4>1
      <4>2. CASE k # i
        <5>1. k \in 1 .. i - 1 /\ n + k \in 1 .. n + (i - 1)
          BY <1>2, <4>2
        <5> QED  BY <2>7, <3>4, <5>1
      <4> QED  BY <4>1, <4>2
    <3> QED  BY <1>3, <3>3, <3>4, <3>5
  <2> QED  BY <2>4, <2>6, <2>9, <2>10 DEF w
<1>6. m \in G
  <2> HIDE DEF G, m
  <2>1. \A i \in 1 .. m : i - 1 \in G => i \in G
    BY <1>5
  <2>2. \A i \in 0 .. m : i \in G
    BY <1>2, <1>4, <2>1, UpTo, Zenon
  <2> QED  BY <1>2, <2>2
<1> QED  BY <1>1, <1>6 DEF G
=============================================================================
