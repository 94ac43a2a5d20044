------------------------- MODULE QueueCommandsProofs -------------------------
(***************************************************************************)
(* Theorems about QueueCommands.tla, for any number of connections, any    *)
(* commands and queues of any length.                                      *)
(*                                                                         *)
(* First the loops of the handlers, round by round; then the invariant     *)
(* about where a handler is and what it remembers; then what a step does   *)
(* to the queue (it reads, it writes, it tears a move apart or it          *)
(* publishes), from which each theorem follows.                            *)
(***************************************************************************)
EXTENDS QueueCommands, QueueOpsProofs

-----------------------------------------------------------------------------
(* Loops of the handlers: the states after each round.                     *)

\* Rounds that each lead on lead from the first queue to the last.
LEMMA ChainLeads ==
  ASSUME NEW q, Sane(q), NEW n \in Nat, NEW h, h[0] = q,
         \A i \in 1 .. n : Sane(h[i - 1]) => Leads(h[i - 1], h[i])
  PROVE  Leads(q, h[n])
<1> DEFINE G == {i \in 0 .. n : Leads(q, h[i])}
<1>1. 0 \in G
  BY LeadsSelf
<1>2. ASSUME NEW i \in 1 .. n, i - 1 \in G  PROVE i \in G
  <2>1. Leads(q, h[i - 1])
    BY <1>2
  <2>2. Leads(h[i - 1], h[i])
    BY <2>1 DEF Leads
  <2>3. Leads(q, h[i])
    BY <2>1, <2>2, LeadsTrans
  <2> QED  BY <2>3
<1> HIDE DEF G
<1>3. n \in G
  BY <1>1, <1>2, UpTo
<1> QED  BY <1>3 DEF G

\* The move of findadd.
LEMMA MoveEachLeads ==
  ASSUME NEW q, Sane(q), NEW n \in Nat, NEW from \in Nat, NEW to \in Nat
  PROVE  Leads(q, MoveEach(q, n, from, to))
<1> DEFINE To(x, i) == MoveItem(x, from, to + i - 1)
           F == [a \in SaneQueues \X (1 .. n) |-> To(a[1], a[2])]
           Rounded(h) == h = [i \in 0 .. n |-> IF i = 0 THEN q ELSE To(h[i - 1], i)]
           g == CHOOSE h : Rounded(h)
<1>1. q \in SaneQueues
  BY DEF SaneQueues, Sane
<1>2. ASSUME NEW x, Sane(x), NEW i \in 1 .. n  PROVE Leads(x, To(x, i))
  <2>1. Keeps(x, MoveItem(x, from, to + i - 1), {})
    BY <1>2, MoveItemKeeps
  <2> QED  BY <1>2, <2>1, KeepsLeads
<1>3. MoveEach(q, n, from, to) = g[n]
  BY DEF MoveEach, Looped
<1> HIDE DEF To
<1>4. StaysIn(SaneQueues, n, F)
  BY <1>2 DEF StaysIn, Leads, Sane, SaneQueues
<1>5. PICK f \in [0 .. n -> SaneQueues] :
        f[0] = q /\ \A i \in 1 .. n : f[i] = F[<<f[i - 1], i>>]
  <2> HIDE DEF F
  <2>1. Runs(SaneQueues, q, n, F)
    BY <1>1, <1>4, LoopRuns, Zenon
  <2> QED  BY <2>1 DEF Runs
<1>6. ASSUME NEW i \in 1 .. n  PROVE f[i] = To(f[i - 1], i)
  <2>1. f[i - 1] \in SaneQueues
    OBVIOUS
  <2> QED  BY <1>5, <2>1
<1>7. Rounded(f)
  BY <1>5, <1>6
<1>8. Rounded(g)
  BY <1>7, Zenon
<1>9. g[0] = q /\ \A i \in 1 .. n : g[i] = To(g[i - 1], i)
  <2> HIDE DEF g
  <2> QED  BY <1>8
<1>10. Leads(q, g[n])
  <2> HIDE DEF g
  <2> QED  BY <1>2, <1>9, ChainLeads
<1> QED  BY <1>3, <1>10

\* delete of a range.
LEMMA DeleteEachLeads ==
  ASSUME NEW q, Sane(q), NEW n \in Nat, NEW end \in Nat, n <= end
  PROVE  Leads(q, DeleteEach(q, n, end))
<1> DEFINE To(x, i) == Delete(x, end - i)
           F == [a \in SaneQueues \X (1 .. n) |-> To(a[1], a[2])]
           Rounded(h) == h = [i \in 0 .. n |-> IF i = 0 THEN q ELSE To(h[i - 1], i)]
           g == CHOOSE h : Rounded(h)
<1>1. q \in SaneQueues
  BY DEF SaneQueues, Sane
<1>2. ASSUME NEW x, Sane(x), NEW i \in 1 .. n  PROVE Leads(x, To(x, i))
  <2>1. end - i \in Nat
    OBVIOUS
  <2>2. Keeps(x, Delete(x, end - i), {})
    BY <1>2, <2>1, DeleteKeeps
  <2> QED  BY <1>2, <2>2, KeepsLeads
<1>3. DeleteEach(q, n, end) = g[n]
  BY DEF DeleteEach, Looped
<1> HIDE DEF To
<1>4. StaysIn(SaneQueues, n, F)
  BY <1>2 DEF StaysIn, Leads, Sane, SaneQueues
<1>5. PICK f \in [0 .. n -> SaneQueues] :
        f[0] = q /\ \A i \in 1 .. n : f[i] = F[<<f[i - 1], i>>]
  <2> HIDE DEF F
  <2>1. Runs(SaneQueues, q, n, F)
    BY <1>1, <1>4, LoopRuns, Zenon
  <2> QED  BY <2>1 DEF Runs
<1>6. ASSUME NEW i \in 1 .. n  PROVE f[i] = To(f[i - 1], i)
  <2>1. f[i - 1] \in SaneQueues
    OBVIOUS
  <2> QED  BY <1>5, <2>1
<1>7. Rounded(f)
  BY <1>5, <1>6
<1>8. Rounded(g)
  BY <1>7, Zenon
<1>9. g[0] = q /\ \A i \in 1 .. n : g[i] = To(g[i - 1], i)
  <2> HIDE DEF g
  <2> QED  BY <1>8
<1>10. Leads(q, g[n])
  <2> HIDE DEF g
  <2> QED  BY <1>2, <1>9, ChainLeads
<1> QED  BY <1>3, <1>10

\* prio.
LEMMA PrioEachRangeLeads ==
  ASSUME NEW q, Sane(q), NEW n \in Nat,
         NEW prio \in Priorities, NEW ranges
  PROVE  Leads(q, PrioEachRange(q, n, prio, ranges))
<1> DEFINE To(x, i) == SetPriorityRange(x, prio, ranges[i][1], ranges[i][2])
           F == [a \in SaneQueues \X (1 .. n) |-> To(a[1], a[2])]
           Rounded(h) == h = [i \in 0 .. n |-> IF i = 0 THEN q ELSE To(h[i - 1], i)]
           g == CHOOSE h : Rounded(h)
<1>1. q \in SaneQueues
  BY DEF SaneQueues, Sane
<1>2. ASSUME NEW x, Sane(x), NEW i \in 1 .. n  PROVE Leads(x, To(x, i))
  <2>1. Keeps(x, SetPriorityRange(x, prio, ranges[i][1], ranges[i][2]), {})
    BY <1>2, SetPriorityRangeKeeps
  <2> QED  BY <1>2, <2>1, KeepsLeads
<1>3. PrioEachRange(q, n, prio, ranges) = g[n]
  BY DEF PrioEachRange, Looped
<1> HIDE DEF To
<1>4. StaysIn(SaneQueues, n, F)
  BY <1>2 DEF StaysIn, Leads, Sane, SaneQueues
<1>5. PICK f \in [0 .. n -> SaneQueues] :
        f[0] = q /\ \A i \in 1 .. n : f[i] = F[<<f[i - 1], i>>]
  <2> HIDE DEF F
  <2>1. Runs(SaneQueues, q, n, F)
    BY <1>1, <1>4, LoopRuns, Zenon
  <2> QED  BY <2>1 DEF Runs
<1>6. ASSUME NEW i \in 1 .. n  PROVE f[i] = To(f[i - 1], i)
  <2>1. f[i - 1] \in SaneQueues
    OBVIOUS
  <2> QED  BY <1>5, <2>1
<1>7. Rounded(f)
  BY <1>5, <1>6
<1>8. Rounded(g)
  BY <1>7, Zenon
<1>9. g[0] = q /\ \A i \in 1 .. n : g[i] = To(g[i - 1], i)
  <2> HIDE DEF g
  <2> QED  BY <1>8
<1>10. Leads(q, g[n])
  <2> HIDE DEF g
  <2> QED  BY <1>2, <1>9, ChainLeads
<1> QED  BY <1>3, <1>10

\* prioid.
LEMMA PrioEachIdLeads ==
  ASSUME NEW q, Sane(q), NEW n \in Nat, NEW prio \in Priorities, NEW ids
  PROVE  Leads(q, PrioEachId(q, n, prio, ids))
<1> DEFINE To(x, i) == SetPriorityIds(x, prio, {ids[i]})
           F == [a \in SaneQueues \X (1 .. n) |-> To(a[1], a[2])]
           Rounded(h) == h = [i \in 0 .. n |-> IF i = 0 THEN q ELSE To(h[i - 1], i)]
           g == CHOOSE h : Rounded(h)
<1>1. q \in SaneQueues
  BY DEF SaneQueues, Sane
<1>2. ASSUME NEW x, Sane(x), NEW i \in 1 .. n  PROVE Leads(x, To(x, i))
  <2>1. Keeps(x, SetPriorityIds(x, prio, {ids[i]}), {})
    BY <1>2, SetPriorityIdsKeeps
  <2> QED  BY <1>2, <2>1, KeepsLeads
<1>3. PrioEachId(q, n, prio, ids) = g[n]
  BY DEF PrioEachId, Looped
<1> HIDE DEF To
<1>4. StaysIn(SaneQueues, n, F)
  BY <1>2 DEF StaysIn, Leads, Sane, SaneQueues
<1>5. PICK f \in [0 .. n -> SaneQueues] :
        f[0] = q /\ \A i \in 1 .. n : f[i] = F[<<f[i - 1], i>>]
  <2> HIDE DEF F
  <2>1. Runs(SaneQueues, q, n, F)
    BY <1>1, <1>4, LoopRuns, Zenon
  <2> QED  BY <2>1 DEF Runs
<1>6. ASSUME NEW i \in 1 .. n  PROVE f[i] = To(f[i - 1], i)
  <2>1. f[i - 1] \in SaneQueues
    OBVIOUS
  <2> QED  BY <1>5, <2>1
<1>7. Rounded(f)
  BY <1>5, <1>6
<1>8. Rounded(g)
  BY <1>7, Zenon
<1>9. g[0] = q /\ \A i \in 1 .. n : g[i] = To(g[i - 1], i)
  <2> HIDE DEF g
  <2> QED  BY <1>8
<1>10. Leads(q, g[n])
  <2> HIDE DEF g
  <2> QED  BY <1>2, <1>9, ChainLeads
<1> QED  BY <1>3, <1>10

\* The version only rises, so a counter that has not wrapped had not before.
LEMMA EarlyBefore ==
  ASSUME NEW q, Sane(q), NEW w, Sane(w), w.version >= q.version, Early(w)
  PROVE  Early(q)
<1>1. q.version \in Nat /\ w.version \in Nat
  BY DEF Sane, QueueType
<1> QED  BY <1>1, QueueConstants DEF Early

\* A song of a playlist: one more item, where add_at was asked to put it, whether
\* or not its range is set.
PutIn(q, w, k) ==
  /\ Leads(q, w)
  /\ Len(w.items) = Len(q.items) + 1
  /\ \A i \in 1 .. Len(q.items) + 1 :
       w.items[i].id = IF i = k THEN NewId(q) ELSE q.items[Before(k, i)].id
  /\ Counted(q) /\ Early(w) => NewId(w) = NewId(q) + 1

LEMMA PutAtProps ==
  ASSUME NEW q, Sane(q), NEW song \in Songs, NEW pos \in Nat \union {None},
         NEW range \in Ranges \union {None}
  PROVE  PutIn(q, PutAt(q, song, pos, range), Entry(q, pos))
<1> DEFINE r == AddAt(q, song, pos)
           k == Entry(q, pos)
           w == PutAt(q, song, pos, range)
<1>1. Inserted(q, r, k)
  BY AddAtInserts
<1> HIDE DEF r, k
<1>2. Sane(r) /\ Leads(q, r)
  BY <1>1, InsertedSane, InsertedLeads
<1>3. /\ Len(r.items) = Len(q.items) + 1
      /\ DOMAIN r.items = 1 .. Len(q.items) + 1
      /\ \A i \in 1 .. Len(q.items) + 1 :
           r.items[i].id = IF i = k THEN NewId(q) ELSE q.items[Before(k, i)].id
  BY <1>1, InsertedIds
<1>4. w = r \/ w = SetRangeById(r, NewId(q), range)
  BY DEF PutAt, r
<1>5. Keeps(r, w, {}) /\ IdSeq(w) = IdSeq(r)
  BY <1>2, <1>4, KeepsSelf, SetRangeKeeps, SetRangeIds
<1> HIDE DEF w
<1>6. Leads(q, w)
  BY <1>2, <1>5, KeepsLeads, LeadsTrans
<1>7. /\ DOMAIN w.items = DOMAIN r.items
      /\ \A i \in DOMAIN r.items : w.items[i].id = r.items[i].id
  BY <1>5, SameIds
<1>8. Len(w.items) = Len(q.items) + 1
  <2>1. /\ w.items \in Seq(Item) /\ q.items \in Seq(Item)
        /\ DOMAIN w.items = 1 .. Len(q.items) + 1
    BY <1>3, <1>5, <1>7 DEF Keeps, Sane, QueueType
  <2> QED  BY <2>1
<1>9. ASSUME Counted(q), Early(w)  PROVE NewId(w) = NewId(q) + 1
  <2>1. w.next_id = r.next_id /\ w.version >= r.version
    BY <1>5 DEF Keeps
  <2>2. w.version \in Nat /\ r.version \in Nat
    BY <1>2, <1>5 DEF Keeps, Sane, QueueType
  <2>3. Early(r)
    BY <1>9, <2>1, <2>2, QueueConstants DEF Early
  <2>4. NewId(r) = NewId(q) + 1
    BY <1>1, <1>9, <2>3, InsertedCounter
  <2> QED  BY <2>1, <2>4 DEF NewId
<1> QED  BY <1>3, <1>6, <1>7, <1>8, <1>9 DEF w, k, PutIn

\* The position round i of a load gives to add_at.
Asked(p, i) == IF p = None THEN None ELSE p + i - 1

\* The queues after each round of a load that ends with w.
PutRounds(q, songs, p, range, w) ==
  \E h : /\ h[0] = q
         /\ \A i \in 1 .. Len(songs) :
              h[i] = PutAt(h[i - 1], songs[i], Asked(p, i), range)
         /\ w = h[Len(songs)]

\* The rounds of PutAll.
LEMMA PutAllRuns ==
  ASSUME NEW q, Sane(q), NEW songs \in Seq(Songs),
         NEW p \in Nat \union {None}, NEW range \in Ranges \union {None}
  PROVE  PutRounds(q, songs, p, range, PutAll(q, songs, p, range))
<1> DEFINE n == Len(songs)
           To(x, i) == PutAt(x, songs[i], Asked(p, i), range)
           F == [a \in SaneQueues \X (1 .. n) |-> To(a[1], a[2])]
           Rounded(h) == h = [i \in 0 .. n |-> IF i = 0 THEN q ELSE To(h[i - 1], i)]
           g == CHOOSE h : Rounded(h)
<1>0. n \in Nat /\ \A i \in 1 .. n : songs[i] \in Songs
  BY ElementOfSeq
<1>1. q \in SaneQueues
  BY DEF SaneQueues, Sane
<1>2. ASSUME NEW x \in SaneQueues, NEW i \in 1 .. n
      PROVE  To(x, i) \in SaneQueues
  <2>1. Asked(p, i) \in Nat \union {None} /\ songs[i] \in Songs
    <3> HIDE DEF n
    <3> QED  BY <1>0 DEF Asked
  <2>2. PutIn(x, PutAt(x, songs[i], Asked(p, i), range), Entry(x, Asked(p, i)))
    BY <2>1, PutAtProps DEF SaneQueues
  <2> QED  BY <2>2 DEF PutIn, Leads, Sane, SaneQueues
<1>3. PutAll(q, songs, p, range) = g[n]
  BY DEF PutAll, Looped, Asked
<1> HIDE DEF To, n
<1>4. StaysIn(SaneQueues, n, F)
  BY <1>2 DEF StaysIn
<1>5. PICK f \in [0 .. n -> SaneQueues] :
        f[0] = q /\ \A i \in 1 .. n : f[i] = F[<<f[i - 1], i>>]
  <2> HIDE DEF F
  <2>1. Runs(SaneQueues, q, n, F)
    BY <1>0, <1>1, <1>4, LoopRuns, Zenon
  <2> QED  BY <2>1 DEF Runs
<1>6. ASSUME NEW i \in 1 .. n  PROVE f[i] = To(f[i - 1], i)
  <2>1. f[i - 1] \in SaneQueues
    BY <1>0
  <2> QED  BY <1>5, <2>1
<1>7. Rounded(f)
  BY <1>0, <1>5, <1>6
<1>8. Rounded(g)
  BY <1>7, Zenon
<1>9. g[0] = q /\ \A i \in 1 .. n : g[i] = To(g[i - 1], i)
  <2> HIDE DEF g
  <2> QED  BY <1>0, <1>8
<1> QED  BY <1>3, <1>9 DEF To, n, PutRounds

\* m fresh ids in a row come after the first p ids of q.
Spliced(q, w, p, m) ==
  /\ Len(w.items) = Len(q.items) + m
  /\ \A k \in 1 .. Len(q.items) + m :
       w.items[k].id = IF k <= p THEN q.items[k].id
                       ELSE IF k <= p + m THEN NewId(q) + (k - p - 1)
                       ELSE q.items[k - m].id

\* Where an insertion that was asked for position pos gets to.
Reached(q, pos) ==
  IF pos = None \/ pos > Len(q.items) THEN Len(q.items) ELSE pos

\* The songs of a playlist stand together and in order, where the first of them
\* was put; every round may have changed the queue's length, none the order.
LEMMA PutAllProps ==
  ASSUME NEW q, Sane(q), NEW songs \in Seq(Songs),
         NEW p \in Nat \union {None}, NEW range \in Ranges \union {None}
  PROVE  LET w == PutAll(q, songs, p, range)
         IN  /\ Leads(q, w)
             /\ Counted(q) /\ Early(w) => Spliced(q, w, Reached(q, p), Len(songs))
<1> DEFINE n == Len(q.items)
           m == Len(songs)
           at == Reached(q, p)
           Good(x, i) ==
             /\ Leads(q, x)
             /\ Len(x.items) = n + i
             /\ Counted(q) /\ Early(x) =>
                  NewId(x) = NewId(q) + i /\ Spliced(q, x, at, i)
<1>1. PICK h : /\ h[0] = q
               /\ \A i \in 1 .. m : h[i] = PutAt(h[i - 1], songs[i], Asked(p, i), range)
               /\ PutAll(q, songs, p, range) = h[m]
  <2>1. PutRounds(q, songs, p, range, PutAll(q, songs, p, range))
    BY PutAllRuns
  <2> QED  BY <2>1 DEF PutRounds
<1>2. /\ n \in Nat /\ m \in Nat /\ \A i \in 1 .. m : songs[i] \in Songs
      /\ NewId(q) \in Nat
  <2>1. NewId(q) \in 1 .. IdSpace - 1
    BY NewIdProps DEF Sane
  <2> QED  BY <2>1, QueueConstants, ElementOfSeq DEF Sane, QueueType
<1>3. at \in 0 .. n
  BY <1>2 DEF Reached
<1> DEFINE G == {i \in 0 .. m : Good(h[i], i)}
<1>4. 0 \in G
  <2> HIDE DEF at, m
  <2>1. Good(q, 0)
    BY <1>2, <1>3, LeadsSelf DEF Spliced
  <2> QED  BY <1>1, <1>2, <2>1
<1>5. ASSUME NEW i \in 1 .. m, i - 1 \in G  PROVE i \in G
  <2> DEFINE x == h[i - 1]
             w == h[i]
             k == Entry(x, Asked(p, i))
  <2>0. /\ p = None => Asked(p, i) = None
        /\ p # None => Asked(p, i) = p + i - 1 /\ Asked(p, i) \in Nat /\ Asked(p, i) # None
    BY CommandConstants DEF Asked
  <2>1. /\ Good(x, i - 1) /\ songs[i] \in Songs /\ Asked(p, i) \in Nat \union {None}
        /\ w = PutAt(x, songs[i], Asked(p, i), range)
    <3> HIDE DEF Good, n, at
    <3> QED  BY <1>1, <1>2, <1>5, <2>0
  <2>2. k = at + i
    <3> HIDE DEF x
    <3>1. Len(x.items) = n + (i - 1)
      BY <2>1
    <3> HIDE DEF Good
    <3>2. CASE p = None
      BY <1>2, <2>0, <3>1, <3>2 DEF Entry, Reached
    <3>3. CASE p # None
      BY <1>2, <2>0, <3>1, <3>3 DEF Entry, Reached
    <3> QED  BY <3>2, <3>3
  <2> HIDE DEF x, w, k, n, at, m
  <2>3. Sane(x) /\ Len(x.items) = n + (i - 1)
    BY <2>1 DEF Leads
  <2>4. /\ Leads(x, w)
        /\ Len(w.items) = Len(x.items) + 1
        /\ \A j \in 1 .. Len(x.items) + 1 :
             w.items[j].id = IF j = k THEN NewId(x) ELSE x.items[Before(k, j)].id
        /\ Counted(x) /\ Early(w) => NewId(w) = NewId(x) + 1
    <3>1. PutIn(x, w, k)
      BY <2>1, <2>3, PutAtProps DEF k
    <3> QED  BY <3>1 DEF PutIn
  <2>5. Leads(q, w) /\ Len(w.items) = n + i
    BY <1>2, <2>1, <2>3, <2>4, LeadsTrans
  <2>6. ASSUME Counted(q), Early(w)
        PROVE  NewId(w) = NewId(q) + i /\ Spliced(q, w, at, i)
    <3>1. Early(x)
      BY <2>3, <2>4, <2>6, EarlyBefore DEF Leads
    <3>2. /\ Counted(x) /\ NewId(x) = NewId(q) + (i - 1)
          /\ Spliced(q, x, at, i - 1)
      BY <2>1, <2>6, <3>1 DEF Leads
    <3>3. NewId(w) = NewId(q) + i
      BY <1>2, <2>4, <2>6, <3>2
    <3>4. \A j \in 1 .. n + (i - 1) :
            x.items[j].id = IF j <= at THEN q.items[j].id
                            ELSE IF j <= at + (i - 1) THEN NewId(q) + (j - at - 1)
                            ELSE q.items[j - (i - 1)].id
      BY <3>2 DEF Spliced, n
    <3>5. ASSUME NEW j \in 1 .. n + i
          PROVE  w.items[j].id = IF j <= at THEN q.items[j].id
                                 ELSE IF j <= at + i THEN NewId(q) + (j - at - 1)
                                 ELSE q.items[j - i].id
      <4>1. w.items[j].id = IF j = at + i THEN NewId(x) ELSE x.items[Before(at + i, j)].id
        BY <1>2, <2>2, <2>3, <2>4
      <4>2. CASE j = at + i
        BY <1>2, <1>3, <3>2, <4>1, <4>2
      <4>3. CASE j < at + i
        BY <1>2, <1>3, <3>4, <4>1, <4>3 DEF Before
      <4>4. CASE j > at + i
        <5>1. /\ j - 1 \in 1 .. n + (i - 1) /\ (j - 1) - (i - 1) = j - i
              /\ ~(j - 1 <= at) /\ ~(j - 1 <= at + (i - 1))
          BY <1>2, <1>3, <4>4
        <5>2. w.items[j].id = x.items[j - 1].id
          BY <1>2, <1>3, <4>1, <4>4 DEF Before
        <5> QED  BY <1>2, <1>3, <3>4, <4>4, <5>1, <5>2
      <4> QED  BY <1>2, <1>3, <4>2, <4>3, <4>4
    <3> QED  BY <2>5, <3>3, <3>5 DEF Spliced, n
  <2> QED  BY <2>5, <2>6 DEF w
<1>6. m \in G
  <2> HIDE DEF G, m
  <2>1. \A i \in 1 .. m : i - 1 \in G => i \in G
    BY <1>5
  <2>2. \A i \in 0 .. m : i \in G
    BY <1>2, <1>4, <2>1, UpTo, Zenon
  <2> QED  BY <1>2, <2>2
<1> QED  BY <1>1, <1>6 DEF G

-----------------------------------------------------------------------------
(* A range move, song by song.                                             *)

\* Where the hop i of a move of n songs takes a song from, and to.
HopFrom(start, to, i)  == IF to <= start THEN start + i - 1 ELSE start
HopTo(start, to, n, i) == IF to <= start THEN to + i - 1 ELSE to + n - 1

\* Where the item at index k after i hops was before the first.
Hopped(start, to, n, i, k) ==
  IF to <= start
  THEN IF k <= to THEN k
       ELSE IF k <= to + i THEN start + (k - to)
       ELSE IF k <= start + i THEN k - i ELSE k
  ELSE IF k <= start THEN k
       ELSE IF k <= to + n - i THEN k + i
       ELSE IF k <= to + n THEN start + (k - (to + n - i)) ELSE k

\* One more hop.
LEMMA HopMore ==
  ASSUME NEW start \in Nat, NEW to \in Nat, NEW n \in Nat, NEW i \in 1 .. n,
         NEW k \in Nat \ {0}
  PROVE  LET j == Shifted(HopFrom(start, to, i) + 1, HopTo(start, to, n, i) + 1, k)
         IN  Hopped(start, to, n, i, k) = Hopped(start, to, n, i - 1, j)
<1>1. CASE to <= start
  BY <1>1 DEF Hopped, HopFrom, HopTo, Shifted
<1>2. CASE to > start
  BY <1>2 DEF Hopped, HopFrom, HopTo, Shifted
<1> QED  BY <1>1, <1>2

\* A slice, element by element.
LEMMA Sliced ==
  ASSUME NEW S, NEW s \in Seq(S), NEW m \in Nat, NEW n \in Nat, m + n <= Len(s)
  PROVE  /\ SubSeq(s, m + 1, m + n) \in Seq(S)
         /\ Len(SubSeq(s, m + 1, m + n)) = n
         /\ \A k \in 1 .. n : SubSeq(s, m + 1, m + n)[k] = s[m + k]
OBVIOUS

\* Two sequences joined, element by element.
LEMMA Joined ==
  ASSUME NEW S, NEW s \in Seq(S), NEW t \in Seq(S)
  PROVE  /\ s \o t \in Seq(S) /\ Len(s \o t) = Len(s) + Len(t)
         /\ \A k \in 1 .. Len(s) + Len(t) :
              (s \o t)[k] = IF k <= Len(s) THEN s[k] ELSE t[k - Len(s)]
BY ConcatProperties

\* The ids t are the ids s after all hops.
Reordered(s, t, start, n, to) ==
  /\ t \in Seq(Nat) /\ Len(t) = Len(s)
  /\ \A k \in 1 .. Len(s) : /\ Hopped(start, to, n, n, k) \in 1 .. Len(s)
                            /\ t[k] = s[Hopped(start, to, n, n, k)]

\* The block that is moved, index by index.
LEMMA BlockMovedAt ==
  ASSUME NEW s \in Seq(Nat), NEW start \in Nat, NEW n \in Nat, NEW to \in Nat,
         start + n <= Len(s), to + n <= Len(s)
  PROVE  Reordered(s, BlockMoved(s, start, start + n, to), start, n, to)
<1> DEFINE L == Len(s)
           a == SubSeq(s, 1, start)
           b == SubSeq(s, start + n + 1, L)
           rest == a \o b
           mid == SubSeq(s, start + 1, start + n)
           c == SubSeq(rest, 1, to)
           d == SubSeq(rest, to + 1, Len(rest))
           left == c \o mid
           new == left \o d
<1>1. L \in Nat /\ start + n <= L /\ to + n <= L
  OBVIOUS
<1>2. /\ a \in Seq(Nat) /\ Len(a) = start /\ \A k \in 1 .. start : a[k] = s[k]
      /\ b \in Seq(Nat) /\ Len(b) = L - (start + n)
      /\ \A k \in 1 .. L - (start + n) : b[k] = s[start + n + k]
      /\ mid \in Seq(Nat) /\ Len(mid) = n /\ \A k \in 1 .. n : mid[k] = s[start + k]
  <2>1. /\ a \in Seq(Nat) /\ Len(a) = start /\ \A k \in 1 .. start : a[k] = s[k]
    BY <1>1
  <2>2. /\ b \in Seq(Nat) /\ Len(b) = L - (start + n)
        /\ \A k \in 1 .. L - (start + n) : b[k] = s[start + n + k]
    BY <1>1
  <2>3. /\ mid \in Seq(Nat) /\ Len(mid) = n /\ \A k \in 1 .. n : mid[k] = s[start + k]
    BY <1>1, Sliced
  <2> QED  BY <2>1, <2>2, <2>3
<1>3. BlockMoved(s, start, start + n, to) = new
  BY DEF BlockMoved
<1> HIDE DEF a, b, mid, L
<1>4. /\ rest \in Seq(Nat) /\ Len(rest) = L - n
      /\ \A k \in 1 .. L - n : rest[k] = IF k <= start THEN s[k] ELSE s[k + n]
  <2>0. a \in Seq(Nat) /\ b \in Seq(Nat)
    BY <1>2
  <2>1. /\ rest \in Seq(Nat) /\ Len(rest) = Len(a) + Len(b)
        /\ \A k \in 1 .. Len(a) + Len(b) :
             rest[k] = IF k <= Len(a) THEN a[k] ELSE b[k - Len(a)]
    BY <2>0, Joined
  <2> HIDE DEF rest
  <2>2. /\ Len(rest) = L - n
        /\ \A k \in 1 .. L - n : rest[k] = IF k <= start THEN a[k] ELSE b[k - start]
    BY <1>1, <1>2, <2>1
  <2>3. ASSUME NEW k \in 1 .. L - n
        PROVE  rest[k] = IF k <= start THEN s[k] ELSE s[k + n]
    <3>1. CASE k <= start
      BY <1>1, <1>2, <2>2, <3>1
    <3>2. CASE k > start
      <4>1. k - start \in 1 .. L - (start + n) /\ start + n + (k - start) = k + n
        BY <1>1, <3>2
      <4> QED  BY <1>1, <1>2, <2>2, <3>2, <4>1
    <3> QED  BY <1>1, <3>1, <3>2
  <2> QED  BY <2>1, <2>2, <2>3
<1> HIDE DEF rest
<1>5. /\ c \in Seq(Nat) /\ Len(c) = to /\ \A k \in 1 .. to : c[k] = rest[k]
      /\ d \in Seq(Nat) /\ Len(d) = L - n - to
      /\ \A k \in 1 .. L - n - to : d[k] = rest[to + k]
  <2>1. /\ SubSeq(rest, 0 + 1, 0 + to) \in Seq(Nat)
        /\ Len(SubSeq(rest, 0 + 1, 0 + to)) = to
        /\ \A k \in 1 .. to : SubSeq(rest, 0 + 1, 0 + to)[k] = rest[0 + k]
    BY <1>1, <1>4, Sliced
  <2> DEFINE m == L - n - to
  <2>2. m \in Nat /\ to + m = Len(rest)
    BY <1>1, <1>4
  <2> HIDE DEF m
  <2>3. /\ SubSeq(rest, to + 1, to + m) \in Seq(Nat)
        /\ Len(SubSeq(rest, to + 1, to + m)) = m
        /\ \A k \in 1 .. m : SubSeq(rest, to + 1, to + m)[k] = rest[to + k]
    BY <1>4, <2>2, Sliced
  <2>4. 0 + 1 = 1 /\ 0 + to = to /\ \A k \in 1 .. to : 0 + k = k
    OBVIOUS
  <2>5. d \in Seq(Nat) /\ Len(d) = m /\ \A k \in 1 .. m : d[k] = rest[to + k]
    BY <2>2, <2>3
  <2>6. c \in Seq(Nat) /\ Len(c) = to /\ \A k \in 1 .. to : c[k] = rest[k]
    BY <2>1, <2>4
  <2> HIDE DEF c, d
  <2> QED  BY <2>5, <2>6 DEF m
<1> HIDE DEF c, d
<1>6. /\ new \in Seq(Nat) /\ Len(new) = L
      /\ \A k \in 1 .. L : new[k] = IF k <= to THEN c[k]
                                    ELSE IF k <= to + n THEN mid[k - to]
                                    ELSE d[k - (to + n)]
  <2>0. c \in Seq(Nat) /\ mid \in Seq(Nat)
    BY <1>2, <1>5
  <2>1. /\ left \in Seq(Nat) /\ Len(left) = Len(c) + Len(mid)
        /\ \A k \in 1 .. Len(c) + Len(mid) :
             left[k] = IF k <= Len(c) THEN c[k] ELSE mid[k - Len(c)]
    BY <2>0, Joined
  <2> HIDE DEF left
  <2>2. /\ new \in Seq(Nat) /\ Len(new) = Len(left) + Len(d)
        /\ \A k \in 1 .. Len(left) + Len(d) :
             new[k] = IF k <= Len(left) THEN left[k] ELSE d[k - Len(left)]
    <3>1. left \in Seq(Nat) /\ d \in Seq(Nat)
      BY <1>5, <2>1
    <3> QED  BY <3>1, Joined
  <2> HIDE DEF new
  <2>3. Len(left) = to + n /\ Len(new) = L
    BY <1>1, <1>2, <1>5, <2>1, <2>2
  <2>4. \A k \in 1 .. to + n : left[k] = IF k <= to THEN c[k] ELSE mid[k - to]
    BY <1>2, <1>5, <2>1
  <2>5. \A k \in 1 .. L : new[k] = IF k <= to + n THEN left[k] ELSE d[k - (to + n)]
    BY <2>2, <2>3
  <2>6. ASSUME NEW k \in 1 .. L
        PROVE  new[k] = IF k <= to THEN c[k] ELSE IF k <= to + n THEN mid[k - to]
                        ELSE d[k - (to + n)]
    <3>1. new[k] = IF k <= to + n THEN left[k] ELSE d[k - (to + n)]
      BY <2>5
    <3>2. CASE k <= to + n
      <4>1. k \in 1 .. to + n
        BY <1>1, <3>2
      <4> QED  BY <2>4, <3>1, <3>2, <4>1
    <3>3. CASE ~(k <= to + n)
      <4>1. ~(k <= to)
        BY <1>1, <3>3
      <4> QED  BY <3>1, <3>3, <4>1
    <3> QED  BY <3>2, <3>3
  <2> QED  BY <2>2, <2>3, <2>6
<1> HIDE DEF new
<1>7. ASSUME NEW k \in 1 .. L
      PROVE  /\ Hopped(start, to, n, n, k) \in 1 .. L
             /\ new[k] = s[Hopped(start, to, n, n, k)]
  <2>1. CASE k <= to
    <3>1. new[k] = rest[k] /\ k \in 1 .. L - n
      <4>1. k \in 1 .. to /\ k \in 1 .. L - n
        BY <1>1, <2>1
      <4>2. new[k] = c[k]
        BY <1>6, <2>1
      <4> QED  BY <1>5, <4>1, <4>2
    <3>2. new[k] = IF k <= start THEN s[k] ELSE s[k + n]
      BY <1>4, <3>1
    <3> QED  BY <1>1, <2>1, <3>2 DEF Hopped
  <2>2. CASE k > to /\ k <= to + n
    <3>1. new[k] = s[start + (k - to)]
      <4>1. k - to \in 1 .. n /\ ~(k <= to)
        BY <1>1, <2>2
      <4>2. new[k] = mid[k - to]
        BY <1>6, <2>2, <4>1
      <4> QED  BY <1>2, <4>1, <4>2
    <3> QED  BY <1>1, <2>2, <3>1 DEF Hopped
  <2>3. CASE k > to + n
    <3>1. /\ k - (to + n) \in 1 .. L - n - to /\ to + (k - (to + n)) = k - n
          /\ k - n \in 1 .. L - n /\ (k - n) + n = k
          /\ ~(k <= to) /\ ~(k <= to + n)
      BY <1>1, <2>3
    <3>2. new[k] = d[k - (to + n)]
      BY <1>6, <3>1
    <3>3. new[k] = rest[k - n]
      BY <1>5, <3>1, <3>2
    <3>4. new[k] = IF k - n <= start THEN s[k - n] ELSE s[k]
      BY <1>4, <3>1, <3>3
    <3> QED  BY <1>1, <2>3, <3>4 DEF Hopped
  <2> QED  BY <1>1, <2>1, <2>2, <2>3
<1> QED  BY <1>3, <1>6, <1>7 DEF L, Reordered

\* A hop of move_range_in_queue; a failed one leaves the queue and ends the move.
Hop(start, to, n, r, i) ==
  IF r.ok /\ HasPos(r.queue, HopFrom(start, to, i)) /\ HasPos(r.queue, HopTo(start, to, n, i))
  THEN [queue |-> MoveItem(r.queue, HopFrom(start, to, i), HopTo(start, to, n, i)), ok |-> TRUE]
  ELSE [queue |-> r.queue, ok |-> FALSE]

HopStates == [queue : SaneQueues, ok : BOOLEAN]

\* The states of a range move after each of its n hops, the last of them r.
HopRounds(q, start, n, to, r) ==
  \E h : /\ h[0] = [queue |-> q, ok |-> TRUE]
         /\ \A i \in 1 .. n : h[i] = Hop(start, to, n, h[i - 1], i)
         /\ r = h[n]

\* The rounds of MoveRange.
LEMMA MoveRangeRuns ==
  ASSUME NEW q, Sane(q), NEW start \in Nat, NEW n \in Nat, NEW end, NEW to \in Nat,
         n = end - start
  PROVE  HopRounds(q, start, n, to, MoveRange(q, start, end, to))
<1> DEFINE q0 == [queue |-> q, ok |-> TRUE]
           To(x, i) == Hop(start, to, n, x, i)
           F == [a \in HopStates \X (1 .. n) |-> To(a[1], a[2])]
           Rounded(h) == h = [i \in 0 .. n |-> IF i = 0 THEN q0 ELSE To(h[i - 1], i)]
           g == CHOOSE h : Rounded(h)
<1>1. q0 \in HopStates
  BY DEF HopStates, SaneQueues, Sane
<1>2. ASSUME NEW x \in HopStates, NEW i \in 1 .. n  PROVE To(x, i) \in HopStates
  <2> DEFINE from == HopFrom(start, to, i)
             dest == HopTo(start, to, n, i)
  <2>1. from \in Nat /\ dest \in Nat
    BY DEF HopFrom, HopTo
  <2> HIDE DEF from, dest
  <2>2. Sane(x.queue) /\ x.queue \in SaneQueues /\ x = [queue |-> x.queue, ok |-> x.ok]
    BY DEF HopStates, SaneQueues
  <2>3. Keeps(x.queue, MoveItem(x.queue, from, dest), {})
    BY <2>1, <2>2, MoveItemKeeps
  <2>4. MoveItem(x.queue, from, dest) \in SaneQueues
    BY <2>3 DEF Keeps, Sane, SaneQueues
  <2>5. To(x, i) = IF x.ok /\ HasPos(x.queue, from) /\ HasPos(x.queue, dest)
                   THEN [queue |-> MoveItem(x.queue, from, dest), ok |-> TRUE]
                   ELSE [queue |-> x.queue, ok |-> FALSE]
    BY DEF Hop, from, dest
  <2> HIDE DEF To
  <2> QED  BY <2>2, <2>4, <2>5 DEF HopStates
<1>3. MoveRange(q, start, end, to) = g[n]
  BY DEF MoveRange, Looped, Hop, HopFrom, HopTo
<1> HIDE DEF To, q0
<1>4. StaysIn(HopStates, n, F)
  BY <1>2 DEF StaysIn
<1>5. PICK f \in [0 .. n -> HopStates] :
        f[0] = q0 /\ \A i \in 1 .. n : f[i] = F[<<f[i - 1], i>>]
  <2> HIDE DEF F
  <2>1. Runs(HopStates, q0, n, F)
    BY <1>1, <1>4, LoopRuns, Zenon
  <2> QED  BY <2>1 DEF Runs
<1>6. ASSUME NEW i \in 1 .. n  PROVE f[i] = To(f[i - 1], i)
  <2>1. f[i - 1] \in HopStates
    OBVIOUS
  <2> QED  BY <1>5, <2>1
<1>7. Rounded(f)
  BY <1>5, <1>6
<1>8. Rounded(g)
  BY <1>7, Zenon
<1>9. g[0] = q0 /\ \A i \in 1 .. n : g[i] = To(g[i - 1], i)
  <2> HIDE DEF g
  <2> QED  BY <1>8
<1> QED  BY <1>3, <1>9 DEF To, q0, HopRounds

\* The ids of a queue as a sequence.
LEMMA IdSeqProps ==
  ASSUME NEW q, Sane(q)
  PROVE  /\ IdSeq(q) \in Seq(Nat) /\ Len(IdSeq(q)) = Len(q.items)
         /\ \A k \in 1 .. Len(q.items) : IdSeq(q)[k] = q.items[k].id
<1>1. /\ DOMAIN q.items = 1 .. Len(q.items) /\ Len(q.items) \in Nat
      /\ \A k \in 1 .. Len(q.items) : q.items[k].id \in Nat
  <2>1. q.items \in Seq(Item)
    BY DEF Sane, QueueType
  <2>2. \A k \in 1 .. Len(q.items) : q.items[k] \in Item
    BY <2>1, ElementOfSeq
  <2> QED  BY <2>1, <2>2 DEF Item
<1> QED  BY <1>1 DEF IdSeq

\* What a range move leaves: nothing but the order changes; it succeeds if the
\* block and its destination are in the queue; when it succeeds the block has
\* moved as a whole.
BlockGone(q, r, start, n, to) ==
  LET L == Len(q.items)
  IN  /\ r.ok \in BOOLEAN
      /\ Leads(q, r.queue)
      /\ Len(r.queue.items) = L
      /\ start + n <= L /\ to + n <= L => r.ok
      /\ r.ok /\ n > 0 => start + n <= L /\ to + n <= L
      /\ r.ok /\ start + n <= L /\ to + n <= L =>
           IdSeq(r.queue) = BlockMoved(IdSeq(q), start, start + n, to)

LEMMA MoveRangeProps ==
  ASSUME NEW q, Sane(q), NEW start \in Nat, NEW n \in Nat, NEW to \in Nat
  PROVE  BlockGone(q, MoveRange(q, start, start + n, to), start, n, to)
<1> DEFINE L == Len(q.items)
           from(i) == HopFrom(start, to, i)
           dest(i) == HopTo(start, to, n, i)
           r == MoveRange(q, start, start + n, to)
           Fine == start + n <= L /\ to + n <= L
           Good(x, i) ==
             /\ x.ok \in BOOLEAN /\ Leads(q, x.queue) /\ Len(x.queue.items) = L
             /\ Fine => x.ok
             /\ x.ok => \A j \in 1 .. i : from(j) < L /\ dest(j) < L
             /\ x.ok /\ Fine => \A k \in 1 .. L :
                  /\ Hopped(start, to, n, i, k) \in 1 .. L
                  /\ x.queue.items[k].id = q.items[Hopped(start, to, n, i, k)].id
<1>1. PICK h : /\ h[0] = [queue |-> q, ok |-> TRUE]
               /\ \A i \in 1 .. n : h[i] = Hop(start, to, n, h[i - 1], i)
               /\ r = h[n]
  <2>1. HopRounds(q, start, n, to, r)
    BY MoveRangeRuns
  <2> QED  BY <2>1 DEF HopRounds
<1>2. L \in Nat
  BY DEF Sane, QueueType
<1> HIDE DEF L
<1>3. \A j \in 1 .. n : from(j) \in Nat /\ dest(j) \in Nat
  BY DEF HopFrom, HopTo
<1>4. Fine => \A j \in 1 .. n : from(j) < L /\ dest(j) < L
  BY <1>2 DEF HopFrom, HopTo
<1> DEFINE G == {i \in 0 .. n : Good(h[i], i)}
<1>5. 0 \in G
  <2>1. \A k \in 1 .. L : Hopped(start, to, n, 0, k) = k
    BY <1>2 DEF Hopped
  <2>2. Good(h[0], 0)
    BY <1>1, <2>1, LeadsSelf DEF L
  <2> QED  BY <2>2
<1>6. ASSUME NEW i \in 1 .. n, i - 1 \in G  PROVE i \in G
  <2> DEFINE x == h[i - 1]
             y == h[i]
  <2>1. Good(x, i - 1) /\ y = Hop(start, to, n, x, i)
    BY <1>1, <1>6
  <2> HIDE DEF x, y
  <2>2. Sane(x.queue) /\ from(i) \in Nat /\ dest(i) \in Nat
    BY <1>3, <2>1 DEF Leads
  <2>3. CASE x.ok /\ from(i) < L /\ dest(i) < L
    <3> DEFINE f == from(i)
               d == dest(i)
               w == MoveItem(x.queue, f, d)
    <3>0. f \in Nat /\ d \in Nat
      BY <2>2
    <3>1. HasPos(x.queue, f) /\ HasPos(x.queue, d)
      BY <2>1, <2>3 DEF HasPos
    <3>2. y.queue = w /\ y.ok = TRUE
      BY <2>1, <2>3, <3>1 DEF Hop
    <3>3. Len(x.queue.items) = L
      BY <2>1
    <3> HIDE DEF f, d
    <3>4. MovedIds(x.queue, w, f, d)
      BY <2>2, <3>0, <3>1, MoveItemIds
    <3>5. Leads(x.queue, w)
      BY <2>2, <3>0, MoveItemKeeps, KeepsLeads
    <3>6. Leads(q, w)
      BY <2>1, <3>5, LeadsTrans
    <3> HIDE DEF w
    <3>7. /\ Len(w.items) = L
          /\ \A k \in 1 .. L : /\ Shifted(f + 1, d + 1, k) \in 1 .. L
                               /\ w.items[k].id = x.queue.items[Shifted(f + 1, d + 1, k)].id
      BY <3>3, <3>4 DEF MovedIds
    <3>8. \A j \in 1 .. i : from(j) < L /\ dest(j) < L
      <4>1. \A j \in 1 .. i : j \in 1 .. i - 1 \/ j = i
        OBVIOUS
      <4> QED  BY <2>1, <2>3, <4>1
    <3>9. ASSUME Fine, NEW k \in 1 .. L
          PROVE  /\ Hopped(start, to, n, i, k) \in 1 .. L
                 /\ w.items[k].id = q.items[Hopped(start, to, n, i, k)].id
      <4> DEFINE j == Shifted(f + 1, d + 1, k)
      <4>1. j \in 1 .. L /\ w.items[k].id = x.queue.items[j].id
        BY <3>7
      <4>2. Hopped(start, to, n, i, k) = Hopped(start, to, n, i - 1, j)
        BY <1>2, HopMore DEF f, d
      <4> HIDE DEF j
      <4> QED  BY <2>1, <2>3, <3>9, <4>1, <4>2
    <3>10. Good(y, i)
      BY <3>2, <3>6, <3>7, <3>8, <3>9
    <3> QED  BY <3>10 DEF y
  <2>4. CASE ~(x.ok /\ from(i) < L /\ dest(i) < L)
    <3>1. ~(x.ok /\ HasPos(x.queue, from(i)) /\ HasPos(x.queue, dest(i)))
      BY <2>1, <2>4 DEF HasPos
    <3>2. y.queue = x.queue /\ y.ok = FALSE
      BY <2>1, <3>1 DEF Hop
    <3>3. ~Fine
      BY <1>4, <2>1, <2>4
    <3>4. Good(y, i)
      BY <2>1, <3>2, <3>3
    <3> QED  BY <3>4 DEF y
  <2> QED  BY <2>3, <2>4
<1>7. n \in G
  <2> HIDE DEF G
  <2>1. \A i \in 1 .. n : i - 1 \in G => i \in G
    BY <1>6
  <2> QED  BY <1>5, <2>1, UpTo
<1> HIDE DEF r
<1>8. Good(r, n)
  BY <1>1, <1>7
<1>9. r.ok /\ n > 0 => Fine
  <2> SUFFICES ASSUME r.ok, n > 0  PROVE Fine
    OBVIOUS
  <2>1. 1 \in 1 .. n /\ n \in 1 .. n
    OBVIOUS
  <2>2. from(n) < L /\ dest(n) < L /\ from(1) < L /\ dest(1) < L
    BY <1>8, <2>1
  <2> QED  BY <1>2, <2>2 DEF HopFrom, HopTo
<1>10. ASSUME r.ok, Fine
       PROVE  IdSeq(r.queue) = BlockMoved(IdSeq(q), start, start + n, to)
  <2> DEFINE s == IdSeq(q)
             t == IdSeq(r.queue)
             b == BlockMoved(s, start, start + n, to)
  <2>1. /\ s \in Seq(Nat) /\ Len(s) = L /\ \A k \in 1 .. L : s[k] = q.items[k].id
        /\ t \in Seq(Nat) /\ Len(t) = L /\ \A k \in 1 .. L : t[k] = r.queue.items[k].id
    BY <1>2, <1>8, IdSeqProps DEF L, Leads
  <2> HIDE DEF s, t
  <2>2. /\ b \in Seq(Nat) /\ Len(b) = L
        /\ \A k \in 1 .. L : /\ Hopped(start, to, n, n, k) \in 1 .. L
                             /\ b[k] = s[Hopped(start, to, n, n, k)]
    <3>1. start + n <= Len(s) /\ to + n <= Len(s)
      BY <1>10, <2>1
    <3>2. s \in Seq(Nat)
      BY <2>1
    <3>3. Reordered(s, b, start, n, to)
      BY <3>1, <3>2, BlockMovedAt
    <3> HIDE DEF b
    <3> QED  BY <2>1, <3>3 DEF Reordered
  <2> HIDE DEF b
  <2>3. \A k \in 1 .. L : t[k] = b[k]
    BY <1>8, <1>10, <2>1, <2>2
  <2>4. t = b
    BY <2>1, <2>2, <2>3, SeqEqual
  <2> QED  BY <2>4 DEF s, t, b
<1> QED  BY <1>8, <1>9, <1>10 DEF L, r, BlockGone

-----------------------------------------------------------------------------
(* What a command carries.                                                 *)

\* The arguments each command comes with.
LEMMA CommandArgs ==
  ASSUME NEW k \in Command
  PROVE  /\ k.op = "add" => k.song \in Songs
         /\ k.op \in Inserting => k.to \in Targets \union {None}
         /\ k.op \in {"move", "moveid"} => k.to \in Targets
         /\ k.op \in {"adddir", "findadd", "load"} => k.songs \in Seq(Songs)
         /\ k.op = "load" => k.name \in Playlists
         /\ k.op \in {"load", "rangeid"} => k.range \in Ranges \union {None}
         /\ k.op \in {"move", "delete", "shuffle"} => k.start \in Nat /\ k.end \in Nat
         /\ k.op \in {"moveid", "deleteid", "playid", "rangeid", "tagid"} => k.id \in Nat
         /\ k.op = "swap" => k.p1 \in Nat /\ k.p2 \in Nat
         /\ k.op \in {"prio", "prioid"} => k.prio \in Priorities
         /\ k.op = "prio" => k.ranges \in Seq(Nat \X Nat)
         /\ k.op = "prioid" => k.ids \in Seq(Nat)
         /\ k.op = "tagid" => \/ k.tag \in Tags /\ k.value \in Values \union {None}
                              \/ k.tag = None /\ k.value = None
         /\ k.op # "none"
BY DEF Command, Inserting

\* A position an insertion resolves to.
LEMMA InsertPositionIs ==
  ASSUME NEW to \in Targets, NEW len \in Nat, NEW cur \in Nat
  PROVE  InsertPosition(to, len, cur) \in Nat \union {Bad}
<1>1. to.n \in Nat /\ to.kind \in {"abs", "after", "before"}
  BY DEF Targets
<1>2. CASE to.kind = "abs"
  BY <1>1, <1>2 DEF InsertPosition
<1>3. CASE to.kind = "after"
  BY <1>1, <1>3 DEF InsertPosition
<1>4. CASE to.kind = "before"
  BY <1>1, <1>4 DEF InsertPosition
<1> QED  BY <1>1, <1>2, <1>3, <1>4

\* A position a move resolves to.
LEMMA MoveDestinationIs ==
  ASSUME NEW to \in Targets, NEW start \in Nat, NEW end \in Nat, NEW len \in Nat,
         NEW cur \in Nat
  PROVE  MoveDestination(to, start, end, len, cur) \in Nat \union {Bad}
<1>1. to.n \in Nat /\ to.kind \in {"abs", "after", "before"}
  BY DEF Targets
<1> QED  BY <1>1 DEF MoveDestination

-----------------------------------------------------------------------------
(* Where the connections are.                                              *)

Labels == {"idle", "len", "lookup", "current", "start", "mutate", "check", "move",
           "play", "bump", "forget", "status", "changes", "items"}
Relative == Inserting \union {"move", "moveid"}

LocalType == [len : Nat, start : Nat, end : Nat, pos : Nat \union {None}, ids : Seq(Nat)]

\* A connection at p with command k and locals l has what its next step needs.
Fits(p, k, l) ==
  /\ p \in Labels /\ l \in LocalType
  /\ p # "idle" => k \in Command
  /\ p \in {"len", "current"} => k.op \in Relative /\ k.to \in Targets
  /\ p = "lookup" => k.op = "moveid"
  /\ p \in {"start", "move"} => k.op = "findadd"
  /\ p = "play" => k.op = "playid"
  /\ p \in {"current", "mutate"} /\ k.op = "move" => l.start < l.end
  /\ p = "mutate" /\ k.op \in {"move", "moveid"} => l.pos \in Nat
  /\ p \in {"move", "play", "changes", "items"} => l.pos \in Nat

Control ==
  /\ workload \in Workloads
  /\ pc = [c \in Clients |-> pc[c]]
  /\ cmd = [c \in Clients |-> cmd[c]]
  /\ loc = [c \in Clients |-> loc[c]]
  /\ \A c \in Clients : Fits(pc[c], cmd[c], loc[c])

\* What the queue's readers see of the rest.
Shown ==
  /\ playlist_version \in Nat /\ playlist_length \in Nat /\ torn \in BOOLEAN
  /\ current = None \/ current \in [position : Nat, id : Nat]
  /\ mirror = [c \in Clients |-> mirror[c]]
  /\ \A c \in Clients : mirror[c] \in [version : Nat \union {None}, items : Seq(Item)]

CommandsInv == Sane(queue) /\ Control /\ Shown

\* Connection c goes on to p with command k and locals l.
Turns(c, p, k, l) ==
  /\ pc' = [pc EXCEPT ![c] = p]
  /\ cmd' = [cmd EXCEPT ![c] = k]
  /\ loc' = [loc EXCEPT ![c] = l]
  /\ UNCHANGED workload

LEMMA TurnFits ==
  ASSUME Control, NEW c \in Clients, NEW p, NEW k, NEW l, Turns(c, p, k, l), Fits(p, k, l)
  PROVE  Control'
<1>1. /\ pc' = [d \in Clients |-> IF d = c THEN p ELSE pc[d]]
      /\ cmd' = [d \in Clients |-> IF d = c THEN k ELSE cmd[d]]
      /\ loc' = [d \in Clients |-> IF d = c THEN l ELSE loc[d]]
      /\ workload' = workload
  BY DEF Control, Turns
<1>2. \A d \in Clients : Fits(pc'[d], cmd'[d], loc'[d])
  BY <1>1 DEF Control
<1>3. /\ pc' = [d \in Clients |-> pc'[d]] /\ cmd' = [d \in Clients |-> cmd'[d]]
      /\ loc' = [d \in Clients |-> loc'[d]]
  BY <1>1
<1> QED  BY <1>1, <1>2, <1>3 DEF Control, Fits

-----------------------------------------------------------------------------
(* What a step does to the queue and to what others see of it.             *)

Others(c) == \A d \in Clients \ {c} : pc'[d] = pc[d] /\ cmd'[d] = cmd[d] /\ loc'[d] = loc[d]

\* The song with this id is remote.
Checked(id) ==
  HasId(queue, id) /\ queue.items[IndexOf(queue, id)].song \in Remote

\* The queue stays, and c neither comes from a change nor goes on to a poll's end.
Reads(c) ==
  /\ UNCHANGED <<queue, playlist_version, playlist_length, seen>>
  /\ pc[c] \notin {"bump", "move"}
  /\ pc'[c] \notin {"bump", "move", "changes", "items"}
  /\ pc'[c] = "mutate" /\ cmd'[c].op = "tagid" => Checked(cmd'[c].id)
  /\ Others(c)

\* The queue may change, and c is yet to publish it.
Writes(c) ==
  /\ UNCHANGED <<playlist_version, playlist_length, seen>>
  /\ pc'[c] \in {"bump", "move"}
  /\ \/ Leads(queue, queue')
     \/ /\ pc[c] = "mutate" /\ cmd[c].op = "tagid"
        /\ Keeps(queue, queue', {cmd[c].id})
  /\ Others(c)

\* A move breaks off: the order may have changed, and c is done.
Tears(c) ==
  /\ UNCHANGED <<playlist_version, playlist_length, mirror>>
  /\ torn' = TRUE
  /\ pc[c] = "mutate" /\ pc'[c] = "idle"
  /\ Leads(queue, queue') /\ Len(queue'.items) = Len(queue.items)
  /\ Others(c)

\* update_playlist_version.
Publishes(c) ==
  /\ playlist_version' = playlist_version + 1
  /\ playlist_length' = Len(queue.items)
  /\ torn' = FALSE
  /\ UNCHANGED <<queue, mirror>>
  /\ pc[c] = "bump" /\ pc'[c] \in {"forget", "idle"}
  /\ Others(c)

Polls(c) == PollStatus(c) \/ Plchanges(c) \/ PlchangesItems(c)

\* A step and what it leaves.
Does(c) ==
  /\ Control' /\ Shown'
  /\ Reads(c) \/ Writes(c) \/ Tears(c) \/ Publishes(c) \/ Polls(c)

LEMMA TurnOthers ==
  ASSUME Control, NEW c \in Clients, NEW p, NEW k, NEW l, Turns(c, p, k, l)
  PROVE  /\ Others(c)
         /\ pc'[c] = p /\ cmd'[c] = k /\ loc'[c] = l
BY DEF Control, Turns, Others

\* A handler that only reads goes on to p, knowing l.
LEMMA ReadOn ==
  ASSUME CommandsInv, NEW c \in Clients, NEW p, NEW l,
         Goto(c, p), loc' = [loc EXCEPT ![c] = l],
         UNCHANGED <<workload, queue, status, cmd, seen>>,
         Fits(p, cmd[c], l),
         pc[c] \notin {"bump", "move"}, p \notin {"bump", "move", "changes", "items"},
         p = "mutate" /\ cmd[c].op = "tagid" => Checked(cmd[c].id)
  PROVE  Does(c)
<1>1. Turns(c, p, cmd[c], l)
  BY DEF Turns, Goto, CommandsInv, Control
<1>2. Control' /\ Others(c) /\ pc'[c] = p /\ cmd'[c] = cmd[c]
  BY <1>1, TurnFits, TurnOthers DEF CommandsInv
<1>3. Shown'
  BY DEF CommandsInv, Shown, status, seen
<1> QED  BY <1>2, <1>3 DEF Does, Reads, status, seen

\* A handler that only reads gives up.
LEMMA ReadFails ==
  ASSUME CommandsInv, NEW c \in Clients, Fail(c),
         UNCHANGED <<workload, queue, status, cmd, seen>>, pc[c] \notin {"bump", "move"}
  PROVE  Does(c)
<1>1. loc' = [loc EXCEPT ![c] = loc[c]] /\ Goto(c, "idle")
  BY DEF Fail, CommandsInv, Control
<1>2. Fits("idle", cmd[c], loc[c])
  BY DEF CommandsInv, Control, Fits, Labels
<1> QED  BY <1>1, <1>2, ReadOn

\* A handler that changes nothing under the lock is done.
LEMMA CommitNothing ==
  ASSUME CommandsInv, NEW c \in Clients, Commit(c, queue, "idle"), pc[c] = "mutate"
  PROVE  Does(c)
<1>1. Fail(c) /\ UNCHANGED <<workload, queue, status, cmd, seen>>
  BY DEF Commit, Fail
<1> QED  BY <1>1, ReadFails

\* A handler that changed the queue is yet to publish it.
LEMMA CommitOn ==
  ASSUME CommandsInv, NEW c \in Clients, NEW w, Commit(c, w, "bump"),
         pc[c] \in {"mutate", "move"},
         \/ Leads(queue, w)
         \/ pc[c] = "mutate" /\ cmd[c].op = "tagid" /\ Keeps(queue, w, {cmd[c].id})
  PROVE  Does(c)
<1>1. Turns(c, "bump", cmd[c], loc[c])
  BY DEF Turns, Commit, Goto, CommandsInv, Control
<1>2. Fits("bump", cmd[c], loc[c])
  BY DEF CommandsInv, Control, Fits, Labels
<1>3. Control' /\ Others(c) /\ pc'[c] = "bump"
  BY <1>1, <1>2, TurnFits, TurnOthers DEF CommandsInv
<1>4. Shown'
  BY DEF CommandsInv, Shown, Commit, status, seen
<1> QED  BY <1>3, <1>4 DEF Does, Writes, Commit, status, seen

-----------------------------------------------------------------------------
(* The steps that read.                                                    *)

\* What a handler knows where it is.
LEMMA Knows ==
  ASSUME CommandsInv, NEW c \in Clients
  PROVE  /\ Sane(queue) /\ queue \in QueueType /\ Len(queue.items) \in Nat
         /\ Fits(pc[c], cmd[c], loc[c]) /\ loc[c] \in LocalType
         /\ pc[c] # "idle" => cmd[c] \in Command
<1>1. Sane(queue) /\ Fits(pc[c], cmd[c], loc[c])
  BY DEF CommandsInv, Control
<1> QED  BY <1>1 DEF Sane, QueueType, Fits

\* Where a command starts.
LEMMA FirstFits ==
  ASSUME NEW k \in Command
  PROVE  /\ Fits(FirstStep(k), k, Locals)
         /\ FirstStep(k) \notin {"bump", "move", "changes", "items"}
         /\ ~(FirstStep(k) = "mutate" /\ k.op = "tagid")
<1>1. Locals \in LocalType
  BY EmptySeq DEF Locals, LocalType
<1>2. /\ k.op \in Inserting => k.to \in Targets \union {None}
      /\ k.op \in {"move", "moveid"} => k.to \in Targets
  BY CommandArgs
<1>3. CASE k.op \in Inserting /\ k.to # None
  BY <1>1, <1>2, <1>3 DEF FirstStep, Fits, Labels, Relative, Inserting
<1>4. CASE k.op = "findadd" /\ k.to = None
  BY <1>1, <1>4 DEF FirstStep, Fits, Labels, Inserting
<1>5. CASE k.op \in {"move", "moveid"}
  BY <1>1, <1>2, <1>5 DEF FirstStep, Fits, Labels, Relative, Inserting
<1>6. CASE k.op \in {"rangeid", "tagid", "playid"}
  BY <1>1, <1>6 DEF FirstStep, Fits, Labels, Inserting
<1>7. CASE k.op = "poll"
  BY <1>1, <1>7 DEF FirstStep, Fits, Labels, Inserting
<1>8. CASE /\ ~(k.op \in Inserting /\ k.to # None) /\ ~(k.op = "findadd" /\ k.to = None)
           /\ k.op \notin {"move", "moveid", "rangeid", "tagid", "playid", "poll"}
  <2>1. FirstStep(k) = "mutate"
    BY <1>8 DEF FirstStep
  <2> QED  BY <1>1, <1>8, <2>1 DEF Fits, Labels
<1> QED  BY <1>3, <1>4, <1>5, <1>6, <1>7, <1>8

LEMMA RequestDoes == ASSUME CommandsInv, NEW c \in Clients, Request(c)  PROVE Does(c)
<1>1. PICK k \in workload.requests[c] : cmd' = [cmd EXCEPT ![c] = k] /\ Goto(c, FirstStep(k))
  BY DEF Request
<1>2. k \in Command
  <2>1. workload.requests \in [Clients -> SUBSET Command]
    BY CommandConstants DEF CommandsInv, Control
  <2> QED  BY <1>1, <2>1
<1>3. Turns(c, FirstStep(k), k, Locals)
  BY <1>1 DEF Request, Turns, Goto, Remember
<1>4. Control' /\ Others(c) /\ pc'[c] = FirstStep(k) /\ cmd'[c] = k
  BY <1>2, <1>3, FirstFits, TurnFits, TurnOthers DEF CommandsInv
<1>5. Shown' /\ UNCHANGED <<queue, playlist_version, playlist_length, seen>> /\ pc[c] = "idle"
  BY DEF CommandsInv, Shown, Request, status, seen
<1> QED  BY <1>2, <1>4, <1>5, FirstFits DEF Does, Reads

\* An insertion or a move whose position is known.
LEMMA PlacedDoes ==
  ASSUME CommandsInv, NEW c \in Clients, NEW l \in LocalType, NEW pos \in Nat \union {Bad},
         Placed(c, l, pos), UNCHANGED <<workload, queue, status, cmd, seen>>,
         pc[c] \in {"len", "current"}, cmd[c].op = "move" => l.start < l.end
  PROVE  Does(c)
<1>1. cmd[c] \in Command /\ cmd[c].op \in Relative
  BY Knows DEF Fits
<1>2. CASE pos = Bad
  BY <1>2, ReadFails DEF Placed
<1>3. CASE pos # Bad
  <2> DEFINE next == IF cmd[c].op = "findadd" THEN "start" ELSE "mutate"
             new == [l EXCEPT !.pos = pos]
  <2>1. new \in LocalType /\ new.start = l.start /\ new.end = l.end /\ new.pos \in Nat
    BY <1>3 DEF LocalType
  <2>2. Goto(c, next) /\ loc' = [loc EXCEPT ![c] = new]
    BY <1>3 DEF Placed, Remember
  <2> HIDE DEF new
  <2>3. Fits(next, cmd[c], new)
    BY <1>1, <2>1 DEF Fits, Labels
  <2>4. cmd[c].op # "tagid"
    BY <1>1 DEF Relative, Inserting
  <2> QED  BY <2>2, <2>3, <2>4, ReadOn
<1> QED  BY <1>2, <1>3

LEMMA ReadLenDoes == ASSUME CommandsInv, NEW c \in Clients, ReadLen(c)  PROVE Does(c)
<1> DEFINE k == cmd[c]
           n == Len(queue.items)
           l == [loc[c] EXCEPT !.len = n]
<1>1. /\ n \in Nat /\ loc[c] \in LocalType /\ k \in Command
      /\ k.op \in Relative /\ k.to \in Targets /\ pc[c] = "len"
      /\ UNCHANGED <<workload, queue, status, cmd, seen>>
  BY Knows DEF ReadLen, Fits
<1>2. l \in LocalType
  BY <1>1 DEF LocalType
<1>3. CASE k.op = "move"
  <2>1. k.start \in Nat /\ k.end \in Nat
    BY <1>1, <1>3, CommandArgs
  <2>2. CASE k.start >= k.end \/ k.end > n
    BY <1>1, <1>3, <2>2, ReadFails DEF ReadLen
  <2>3. CASE ~(k.start >= k.end \/ k.end > n)
    <3> DEFINE new == [l EXCEPT !.start = k.start, !.end = k.end]
    <3>1. Goto(c, "current") /\ loc' = [loc EXCEPT ![c] = new]
      BY <1>3, <2>3 DEF ReadLen, Remember
    <3> HIDE DEF l, n
    <3>2. new \in LocalType /\ new.start = k.start /\ new.end = k.end
      BY <1>2, <2>1 DEF LocalType
    <3> HIDE DEF new
    <3>3. Fits("current", k, new)
      BY <1>1, <1>3, <2>1, <2>3, <3>2 DEF Fits, Labels
    <3> QED  BY <1>1, <3>1, <3>3, ReadOn
  <2> QED  BY <2>2, <2>3
<1>4. CASE k.op = "moveid"
  <2>1. Goto(c, "lookup") /\ loc' = [loc EXCEPT ![c] = l]
    BY <1>4 DEF ReadLen, Remember
  <2> HIDE DEF l
  <2>2. Fits("lookup", k, l)
    BY <1>1, <1>2, <1>4 DEF Fits, Labels
  <2> QED  BY <1>1, <2>1, <2>2, ReadOn
<1>5. CASE k.op \notin {"move", "moveid"} /\ k.to.kind = "abs"
  <2>1. Placed(c, l, InsertPosition(k.to, n, 0))
    BY <1>5 DEF ReadLen
  <2>2. InsertPosition(k.to, n, 0) \in Nat \union {Bad}
    BY <1>1, InsertPositionIs
  <2> HIDE DEF l, n
  <2> QED  BY <1>1, <1>2, <1>5, <2>1, <2>2, PlacedDoes
<1>6. CASE k.op \notin {"move", "moveid"} /\ k.to.kind # "abs"
  <2>1. Goto(c, "current") /\ loc' = [loc EXCEPT ![c] = l]
    BY <1>6 DEF ReadLen, Remember
  <2> HIDE DEF l
  <2>2. Fits("current", k, l)
    BY <1>1, <1>2, <1>6 DEF Fits, Labels
  <2> QED  BY <1>1, <2>1, <2>2, ReadOn
<1> QED  BY <1>3, <1>4, <1>5, <1>6

LEMMA LookUpIdDoes == ASSUME CommandsInv, NEW c \in Clients, LookUpId(c)  PROVE Does(c)
<1> DEFINE l == loc[c]
<1>1. /\ l \in LocalType /\ cmd[c] \in Command /\ queue \in QueueType
      /\ cmd[c].op = "moveid" /\ pc[c] = "lookup"
      /\ UNCHANGED <<workload, queue, status, cmd, seen>>
  BY Knows DEF LookUpId, Fits
<1>2. CASE HasId(queue, cmd[c].id)
  <2> DEFINE p == IndexOf(queue, cmd[c].id) - 1
             r == p + 1
             new == [l EXCEPT !.start = p, !.end = r]
  <2>1. Goto(c, "current") /\ loc' = [loc EXCEPT ![c] = new]
    BY <1>2 DEF LookUpId, Remember
  <2>2. p \in Nat /\ r \in Nat
    BY <1>1, <1>2, IndexOfProps
  <2> HIDE DEF p, r, l
  <2>3. new \in LocalType
    BY <1>1, <2>2 DEF LocalType
  <2> HIDE DEF new
  <2>4. Fits("current", cmd[c], new)
    BY <1>1, <2>3, CommandArgs DEF Fits, Labels, Relative
  <2> QED  BY <1>1, <2>1, <2>4, ReadOn
<1>3. CASE ~HasId(queue, cmd[c].id)
  BY <1>1, <1>3, ReadFails DEF LookUpId
<1> QED  BY <1>2, <1>3

LEMMA ReadCurrentDoes == ASSUME CommandsInv, NEW c \in Clients, ReadCurrent(c)  PROVE Does(c)
<1> DEFINE to == cmd[c].to
           l == loc[c]
           p == IF current = None THEN 0 ELSE current.position
           pos == IF cmd[c].op \in Inserting THEN InsertPosition(to, l.len, p)
                  ELSE MoveDestination(to, l.start, l.end, l.len, p)
<1>1. /\ l \in LocalType /\ to \in Targets /\ pc[c] = "current"
      /\ cmd[c].op = "move" => l.start < l.end
      /\ UNCHANGED <<workload, queue, status, cmd, seen>>
  BY Knows DEF ReadCurrent, Fits
<1>2. p \in Nat
  BY DEF CommandsInv, Shown
<1>3. l.len \in Nat /\ l.start \in Nat /\ l.end \in Nat
  BY <1>1 DEF LocalType
<1>4. Fail(c) \/ Placed(c, l, pos)
  BY DEF ReadCurrent
<1> HIDE DEF p, l, to
<1>5. pos \in Nat \union {Bad}
  BY <1>1, <1>2, <1>3, InsertPositionIs, MoveDestinationIs
<1> HIDE DEF pos
<1>6. CASE Fail(c)
  BY <1>1, <1>6, ReadFails
<1>7. CASE Placed(c, l, pos)
  BY <1>1, <1>5, <1>7, PlacedDoes
<1> QED  BY <1>4, <1>6, <1>7

\* findadd notes where its songs will start.
LEMMA ReadStartDoes == ASSUME CommandsInv, NEW c \in Clients, ReadStart(c)  PROVE Does(c)
<1> DEFINE l == loc[c]
           n == Len(queue.items)
           new == [l EXCEPT !.start = n]
<1>1. /\ l \in LocalType /\ cmd[c] \in Command /\ n \in Nat
      /\ cmd[c].op = "findadd" /\ pc[c] = "start"
      /\ UNCHANGED <<workload, queue, status, cmd, seen>>
  BY Knows DEF ReadStart, Fits
<1>2. Fail(c) \/ (Goto(c, "mutate") /\ loc' = [loc EXCEPT ![c] = new])
  BY DEF ReadStart, Remember
<1> HIDE DEF l, n
<1>3. new \in LocalType
  BY <1>1 DEF LocalType
<1> HIDE DEF new
<1>4. Fits("mutate", cmd[c], new)
  BY <1>1, <1>3 DEF Fits, Labels
<1>5. CASE Fail(c)
  BY <1>1, <1>5, ReadFails
<1>6. CASE Goto(c, "mutate") /\ loc' = [loc EXCEPT ![c] = new]
  BY <1>1, <1>4, <1>6, ReadOn
<1> QED  BY <1>2, <1>5, <1>6

LEMMA CheckRangeIdDoes ==
  ASSUME CommandsInv, NEW c \in Clients, CheckRangeId(c)  PROVE Does(c)
<1> DEFINE next == IF current # None /\ current.id = cmd[c].id THEN "idle" ELSE "mutate"
<1>1. /\ loc[c] \in LocalType /\ cmd[c] \in Command
      /\ cmd[c].op = "rangeid" /\ pc[c] = "check"
      /\ UNCHANGED <<workload, queue, status, cmd, seen>>
  BY Knows DEF CheckRangeId, At
<1>2. Goto(c, next) /\ loc' = [loc EXCEPT ![c] = loc[c]]
  BY DEF CheckRangeId, CommandsInv, Control
<1>3. Fits(next, cmd[c], loc[c])
  BY <1>1 DEF Fits, Labels
<1> QED  BY <1>1, <1>2, <1>3, ReadOn

\* addtagid goes on only when the song is remote.
LEMMA CheckTagIdDoes ==
  ASSUME CommandsInv, NEW c \in Clients, CheckTagId(c)  PROVE Does(c)
<1> DEFINE next == IF Checked(cmd[c].id) THEN "mutate" ELSE "idle"
<1>1. /\ loc[c] \in LocalType /\ cmd[c] \in Command
      /\ cmd[c].op = "tagid" /\ pc[c] = "check"
      /\ UNCHANGED <<workload, queue, status, cmd, seen>>
  BY Knows DEF CheckTagId, At
<1>2. Goto(c, next) /\ loc' = [loc EXCEPT ![c] = loc[c]]
  BY DEF CheckTagId, Checked, CommandsInv, Control
<1>3. Fits(next, cmd[c], loc[c])
  BY <1>1 DEF Fits, Labels
<1>4. next = "mutate" => Checked(cmd[c].id)
  OBVIOUS
<1> QED  BY <1>1, <1>2, <1>3, <1>4, ReadOn

\* playid notes where its song is.
LEMMA CheckPlayIdDoes ==
  ASSUME CommandsInv, NEW c \in Clients, CheckPlayId(c)  PROVE Does(c)
<1> DEFINE l == loc[c]
           p == IndexOf(queue, cmd[c].id) - 1
           new == [l EXCEPT !.pos = p]
<1>1. /\ l \in LocalType /\ cmd[c] \in Command /\ queue \in QueueType
      /\ cmd[c].op = "playid" /\ pc[c] = "check"
      /\ UNCHANGED <<workload, queue, status, cmd, seen>>
  BY Knows DEF CheckPlayId, At
<1>2. CASE HasId(queue, cmd[c].id)
  <2>1. p \in Nat
    BY <1>1, <1>2, IndexOfProps
  <2>2. Goto(c, "play") /\ loc' = [loc EXCEPT ![c] = new]
    BY <1>2 DEF CheckPlayId, Remember
  <2> HIDE DEF l, p
  <2>3. new \in LocalType /\ new.pos = p
    BY <1>1, <2>1 DEF LocalType
  <2> HIDE DEF new
  <2>4. Fits("play", cmd[c], new)
    BY <1>1, <2>1, <2>3 DEF Fits, Labels
  <2> QED  BY <1>1, <2>2, <2>4, ReadOn
<1>3. CASE ~HasId(queue, cmd[c].id)
  BY <1>1, <1>3, ReadFails DEF CheckPlayId
<1> QED  BY <1>2, <1>3

\* A step that only touches the current song.
LEMMA CurrentDoes ==
  ASSUME CommandsInv, NEW c \in Clients, Goto(c, "idle"), pc[c] \in {"forget", "play"},
         UNCHANGED <<workload, queue, playlist_version, playlist_length, cmd, loc, seen>>,
         current' = None \/ current' \in [position : Nat, id : Nat]
  PROVE  Does(c)
<1>1. Turns(c, "idle", cmd[c], loc[c])
  BY DEF Turns, Goto, CommandsInv, Control
<1>2. Fits("idle", cmd[c], loc[c])
  BY Knows DEF Fits, Labels
<1>3. Control' /\ Others(c) /\ pc'[c] = "idle"
  BY <1>1, <1>2, TurnFits, TurnOthers DEF CommandsInv
<1>4. Shown'
  BY DEF CommandsInv, Shown, seen
<1> QED  BY <1>3, <1>4 DEF Does, Reads, seen

LEMMA ForgetCurrentDoes ==
  ASSUME CommandsInv, NEW c \in Clients, ForgetCurrent(c)  PROVE Does(c)
BY CurrentDoes DEF ForgetCurrent

LEMMA RecordCurrentDoes ==
  ASSUME CommandsInv, NEW c \in Clients, RecordCurrent(c)  PROVE Does(c)
<1>1. loc[c].pos \in Nat /\ cmd[c].id \in Nat
  BY Knows, CommandArgs DEF RecordCurrent, Fits
<1>2. current' \in [position : Nat, id : Nat]
  BY <1>1 DEF RecordCurrent
<1> QED  BY <1>2, CurrentDoes DEF RecordCurrent

-----------------------------------------------------------------------------
(* The steps that write.                                                   *)

LEMMA AddSongDoes == ASSUME CommandsInv, NEW c \in Clients, AddSong(c)  PROVE Does(c)
<1> DEFINE p == loc[c].pos
           w == AddAt(queue, cmd[c].song, p)
<1>1. pc[c] = "mutate" /\ cmd[c].op = "add"
  BY DEF AddSong, At
<1>2. p \in Nat \union {None} /\ cmd[c].song \in Songs /\ Sane(queue)
  BY <1>1, Knows, CommandArgs DEF LocalType
<1>3. Leads(queue, w)
  BY <1>2, AddAtInserts, InsertedLeads
<1>4. CASE p # None /\ p > Len(queue.items)
  <2>1. Fail(c) /\ UNCHANGED <<workload, queue, status, cmd, seen>>
    BY <1>4 DEF AddSong
  <2> QED  BY <1>1, <2>1, ReadFails
<1>5. CASE ~(p # None /\ p > Len(queue.items))
  <2>1. Commit(c, w, "bump")
    BY <1>5 DEF AddSong
  <2> HIDE DEF w
  <2> QED  BY <1>1, <1>3, <2>1, CommitOn
<1> QED  BY <1>4, <1>5

LEMMA MoveMatchesDoes ==
  ASSUME CommandsInv, NEW c \in Clients, MoveMatches(c)  PROVE Does(c)
<1> DEFINE w == MoveEach(queue, Len(cmd[c].songs), loc[c].start, loc[c].pos)
<1>1. pc[c] = "move" /\ Commit(c, w, "bump")
  BY DEF MoveMatches
<1>2. /\ cmd[c].op = "findadd" /\ cmd[c] \in Command /\ loc[c].start \in Nat
      /\ loc[c].pos \in Nat /\ Sane(queue)
  BY <1>1, Knows DEF Fits, LocalType
<1>3. Len(cmd[c].songs) \in Nat
  BY <1>2, CommandArgs
<1>4. Leads(queue, w)
  BY <1>2, <1>3, MoveEachLeads
<1> HIDE DEF w
<1> QED  BY <1>1, <1>4, CommitOn

LEMMA LoadPlaylistDoes ==
  ASSUME CommandsInv, NEW c \in Clients, LoadPlaylist(c)  PROVE Does(c)
<1> DEFINE k == cmd[c]
           p == loc[c].pos
           v == PutAll(queue, k.songs, p, k.range)
           w == SetLastLoaded(v, k.name)
<1>1. pc[c] = "mutate" /\ k.op = "load" /\ Commit(c, w, "bump")
  BY DEF LoadPlaylist, At
<1>2. /\ k.songs \in Seq(Songs) /\ k.name \in Playlists /\ k.range \in Ranges \union {None}
      /\ p \in Nat \union {None} /\ Sane(queue)
  BY <1>1, Knows, CommandArgs DEF LocalType, Inserting
<1> HIDE DEF k, p
<1>3. Leads(queue, v)
  BY <1>2, PutAllProps
<1> HIDE DEF v
<1>4. Leads(v, w)
  BY <1>2, <1>3, SetLastLoadedKeeps, KeepsLeads DEF Leads
<1>5. Leads(queue, w)
  BY <1>2, <1>3, <1>4, LeadsTrans
<1> HIDE DEF w
<1> QED  BY <1>1, <1>5, CommitOn

LEMMA ClearQueueDoes ==
  ASSUME CommandsInv, NEW c \in Clients, ClearQueue(c)  PROVE Does(c)
<1> DEFINE w == Clear(queue)
<1>1. pc[c] = "mutate" /\ Commit(c, w, "bump")
  BY DEF ClearQueue, At
<1>2. Leads(queue, w)
  BY Knows, ClearKeeps, KeepsLeads
<1> HIDE DEF w
<1> QED  BY <1>1, <1>2, CommitOn

LEMMA DeleteRangeDoes ==
  ASSUME CommandsInv, NEW c \in Clients, DeleteRange(c)  PROVE Does(c)
<1> DEFINE k == cmd[c]
           n == Len(queue.items)
           end == IF k.end < n THEN k.end ELSE n
           m == end - k.start
           w == DeleteEach(queue, m, end)
<1>1. pc[c] = "mutate" /\ k.op = "delete"
  BY DEF DeleteRange, At
<1>2. n \in Nat /\ k.start \in Nat /\ k.end \in Nat /\ Sane(queue)
  BY <1>1, Knows, CommandArgs
<1>3. IF k.start >= end THEN Commit(c, queue, "idle") ELSE Commit(c, w, "bump")
  BY DEF DeleteRange
<1> HIDE DEF n, k
<1>4. CASE k.start >= end
  BY <1>1, <1>3, <1>4, CommitNothing
<1>5. CASE ~(k.start >= end)
  <2>1. end \in Nat /\ m \in Nat /\ m <= end
    BY <1>2, <1>5
  <2> HIDE DEF end, m
  <2>2. Leads(queue, w)
    BY <1>2, <2>1, DeleteEachLeads
  <2>3. Commit(c, w, "bump")
    BY <1>3, <1>5
  <2> HIDE DEF w
  <2> QED  BY <1>1, <2>2, <2>3, CommitOn
<1> QED  BY <1>4, <1>5

\* A handler that publishes when it found what it was told to change.
LEMMA CommitIf ==
  ASSUME CommandsInv, NEW c \in Clients, NEW w, NEW ok \in BOOLEAN,
         Commit(c, w, IF ok THEN "bump" ELSE "idle"), pc[c] = "mutate",
         Leads(queue, w), ~ok => w = queue
  PROVE  Does(c)
<1>1. CASE ok
  BY <1>1, CommitOn
<1>2. CASE ~ok
  BY <1>2, CommitNothing
<1> QED  BY <1>1, <1>2

LEMMA DeleteByIdDoes ==
  ASSUME CommandsInv, NEW c \in Clients, DeleteById(c)  PROVE Does(c)
<1> DEFINE w == DeleteId(queue, cmd[c].id)
           ok == HasId(queue, cmd[c].id)
<1>1. pc[c] = "mutate" /\ Commit(c, w, IF ok THEN "bump" ELSE "idle") /\ Sane(queue)
  BY Knows DEF DeleteById, At
<1>2. Leads(queue, w) /\ (~ok => w = queue) /\ ok \in BOOLEAN
  BY <1>1, DeleteIdKeeps, KeepsLeads DEF DeleteId, HasId
<1> HIDE DEF w, ok
<1> QED  BY <1>1, <1>2, CommitIf

LEMMA MoveIdCommandDoes ==
  ASSUME CommandsInv, NEW c \in Clients, MoveIdCommand(c)  PROVE Does(c)
<1> DEFINE id == cmd[c].id
           p == loc[c].pos
           w == MoveById(queue, id, p)
           ok == HasId(queue, id) /\ HasPos(queue, p)
<1>1. pc[c] = "mutate" /\ Commit(c, w, IF ok THEN "bump" ELSE "idle")
  BY DEF MoveIdCommand, At
<1>2. Sane(queue) /\ p \in Nat
  BY Knows DEF MoveIdCommand, At, Fits
<1> HIDE DEF id, p
<1>3. Leads(queue, w)
  BY <1>2, MoveByIdKeeps, KeepsLeads
<1>4. ok \in BOOLEAN
  BY DEF HasId, HasPos
<1>5. ~ok => w = queue
  BY DEF MoveById, MoveItem
<1> HIDE DEF w, ok
<1> QED  BY <1>1, <1>3, <1>4, <1>5, CommitIf

LEMMA SwapCommandDoes ==
  ASSUME CommandsInv, NEW c \in Clients, SwapCommand(c)  PROVE Does(c)
<1> DEFINE k == cmd[c]
           w == Swap(queue, k.p1, k.p2)
           ok == HasPos(queue, k.p1) /\ HasPos(queue, k.p2)
<1>1. pc[c] = "mutate" /\ k.op = "swap" /\ Commit(c, w, IF ok THEN "bump" ELSE "idle")
  BY DEF SwapCommand, At
<1>2. Sane(queue) /\ k.p1 \in Nat /\ k.p2 \in Nat
  BY <1>1, Knows, CommandArgs
<1> HIDE DEF k
<1>3. Leads(queue, w)
  BY <1>2, SwapKeeps, KeepsLeads
<1>4. ok \in BOOLEAN /\ (~ok => w = queue)
  BY DEF HasPos, Swap
<1> HIDE DEF w, ok
<1> QED  BY <1>1, <1>3, <1>4, CommitIf

LEMMA SwapIdCommandDoes ==
  ASSUME CommandsInv, NEW c \in Clients, SwapIdCommand(c)  PROVE Does(c)
<1> DEFINE k == cmd[c]
           w == SwapById(queue, k.id1, k.id2)
           ok == HasId(queue, k.id1) /\ HasId(queue, k.id2)
<1>1. pc[c] = "mutate" /\ Commit(c, w, IF ok THEN "bump" ELSE "idle") /\ Sane(queue)
  BY Knows DEF SwapIdCommand, At
<1> HIDE DEF k
<1>2. Leads(queue, w)
  BY <1>1, SwapByIdKeeps, KeepsLeads
<1>3. ok \in BOOLEAN /\ (~ok => w = queue)
  BY DEF HasId, SwapById
<1> HIDE DEF w, ok
<1> QED  BY <1>1, <1>2, <1>3, CommitIf

LEMMA RangeIdCommandDoes ==
  ASSUME CommandsInv, NEW c \in Clients, RangeIdCommand(c)  PROVE Does(c)
<1> DEFINE k == cmd[c]
           w == SetRangeById(queue, k.id, k.range)
           ok == HasId(queue, k.id)
<1>1. pc[c] = "mutate" /\ k.op = "rangeid" /\ Commit(c, w, IF ok THEN "bump" ELSE "idle")
  BY DEF RangeIdCommand, At
<1>2. Sane(queue) /\ k.range \in Ranges \union {None}
  BY <1>1, Knows, CommandArgs
<1> HIDE DEF k
<1>3. Leads(queue, w)
  BY <1>2, SetRangeKeeps, KeepsLeads
<1>4. ok \in BOOLEAN /\ (~ok => w = queue)
  BY DEF HasId, SetRangeById
<1> HIDE DEF w, ok
<1> QED  BY <1>1, <1>3, <1>4, CommitIf

LEMMA ShuffleCommandDoes ==
  ASSUME CommandsInv, NEW c \in Clients, ShuffleCommand(c)  PROVE Does(c)
<1> DEFINE S == Clip(queue, cmd[c].start, cmd[c].end)
<1>1. pc[c] = "mutate" /\ Sane(queue)
  BY Knows DEF ShuffleCommand, At
<1>2. CASE Cardinality(S) < 2
  <2>1. Commit(c, queue, "idle")
    BY <1>2 DEF ShuffleCommand
  <2> QED  BY <1>1, <2>1, CommitNothing
<1>3. CASE ~(Cardinality(S) < 2)
  <2>1. PICK f \in Bijection(S, S) : Commit(c, Shuffle(queue, f), "bump")
    BY <1>3 DEF ShuffleCommand
  <2>2. S \in SUBSET (1 .. Len(queue.items))
    BY <1>1 DEF Clip, Sane, QueueType
  <2> HIDE DEF S
  <2>3. Leads(queue, Shuffle(queue, f))
    BY <1>1, <2>1, <2>2, ShuffleKeeps, KeepsLeads
  <2> QED  BY <1>1, <2>1, <2>3, CommitOn
<1> QED  BY <1>2, <1>3

\* There is a first bad argument, or none.
LEMMA RoundsNat ==
  ASSUME NEW S, NEW args \in Seq(S), NEW bad
  PROVE  Rounds(args, bad) \in Nat
<1> DEFINE L == Len(args)
           T == {n \in 0 .. L : n < L => args[n + 1] \in bad}
           R(n) == /\ \A i \in 1 .. n : args[i] \notin bad
                   /\ n < L => args[n + 1] \in bad
<1>1. L \in Nat
  OBVIOUS
<1> HIDE DEF L
<1>2. T \in SUBSET Nat /\ L \in T
  BY <1>1
<1>3. PICK m \in T : \A n \in T : m <= n
  <2> HIDE DEF T
  <2> QED  BY <1>2, LeastNat
<1>4. m \in 0 .. L /\ (m < L => args[m + 1] \in bad)
  OBVIOUS
<1>5. ASSUME NEW i \in 1 .. m  PROVE args[i] \notin bad
  <2>1. SUFFICES ASSUME args[i] \in bad  PROVE FALSE
    OBVIOUS
  <2>2. i - 1 \in 0 .. L /\ i - 1 < m /\ (i - 1) + 1 = i
    BY <1>1, <1>4
  <2>3. i - 1 \in T
    BY <2>1, <2>2
  <2> HIDE DEF T
  <2> QED  BY <1>2, <1>3, <1>4, <2>2, <2>3
<1>6. \E n \in 0 .. L : R(n)
  BY <1>4, <1>5
<1>7. Rounds(args, bad) = CHOOSE n \in 0 .. L : R(n)
  BY DEF Rounds, L
<1> HIDE DEF R
<1>8. Rounds(args, bad) \in 0 .. L
  BY <1>6, <1>7
<1> QED  BY <1>1, <1>8

LEMMA PrioRangesDoes ==
  ASSUME CommandsInv, NEW c \in Clients, PrioRanges(c)  PROVE Does(c)
<1> DEFINE k == cmd[c]
           n == Rounds(k.ranges, {r \in ToSet(k.ranges) : r[1] > Len(queue.items)})
           w == PrioEachRange(queue, n, k.prio, k.ranges)
<1>1. /\ pc[c] = "mutate" /\ k.op = "prio"
      /\ IF n = 0 THEN Commit(c, queue, "idle") ELSE Commit(c, w, "bump")
  BY DEF PrioRanges, At
<1>2. Sane(queue) /\ k.prio \in Priorities /\ k.ranges \in Seq(Nat \X Nat)
  BY <1>1, Knows, CommandArgs
<1> HIDE DEF k
<1>3. n \in Nat
  BY <1>2, RoundsNat
<1> HIDE DEF n
<1>4. Leads(queue, w)
  BY <1>2, <1>3, PrioEachRangeLeads
<1> HIDE DEF w
<1> QED  BY <1>1, <1>4, CommitNothing, CommitOn

LEMMA PrioIdsDoes == ASSUME CommandsInv, NEW c \in Clients, PrioIds(c)  PROVE Does(c)
<1> DEFINE k == cmd[c]
           n == Rounds(k.ids, ToSet(k.ids) \ IdsOf(queue))
           w == PrioEachId(queue, n, k.prio, k.ids)
<1>1. /\ pc[c] = "mutate" /\ k.op = "prioid"
      /\ IF n = 0 THEN Commit(c, queue, "idle") ELSE Commit(c, w, "bump")
  BY DEF PrioIds, At
<1>2. Sane(queue) /\ k.prio \in Priorities /\ k.ids \in Seq(Nat)
  BY <1>1, Knows, CommandArgs
<1> HIDE DEF k
<1>3. n \in Nat
  BY <1>2, RoundsNat
<1> HIDE DEF n
<1>4. Leads(queue, w)
  BY <1>2, <1>3, PrioEachIdLeads
<1> HIDE DEF w
<1> QED  BY <1>1, <1>4, CommitNothing, CommitOn

\* addtagid and cleartagid touch the tags of one id only.
LEMMA TagIdCommandDoes ==
  ASSUME CommandsInv, NEW c \in Clients, TagIdCommand(c)  PROVE Does(c)
<1> DEFINE k == cmd[c]
           w == CASE k.value # None -> AddTagById(queue, k.id, k.tag, k.value)
                  [] k.value = None /\ k.tag # None -> ClearTagById(queue, k.id, k.tag)
                  [] OTHER -> ClearTagsById(queue, k.id)
<1>1. pc[c] = "mutate" /\ k.op = "tagid" /\ Commit(c, w, "bump")
  BY DEF TagIdCommand, At
<1>2. /\ Sane(queue)
      /\ \/ k.tag \in Tags /\ k.value \in Values \union {None}
         \/ k.tag = None /\ k.value = None
  BY <1>1, Knows, CommandArgs
<1>3. Keeps(queue, w, {k.id})
  <2> HIDE DEF k
  <2>1. CASE k.value # None
    BY <1>2, <2>1, SetTagKeeps DEF AddTagById
  <2>2. CASE k.value = None /\ k.tag # None
    BY <1>2, <2>2, SetTagKeeps DEF ClearTagById
  <2>3. CASE k.value = None /\ k.tag = None
    BY <1>2, <2>3, ClearTagsKeeps
  <2> QED  BY <2>1, <2>2, <2>3
<1> HIDE DEF w
<1> QED  BY <1>1, <1>3, CommitOn

\* MoveRangeProps for a block that is not empty, given by its end.
LEMMA MoveRangeOf ==
  ASSUME NEW q, Sane(q), NEW start \in Nat, NEW end \in Nat, NEW to \in Nat, start < end
  PROVE  LET r == MoveRange(q, start, end, to)
         IN  /\ r.ok \in BOOLEAN
             /\ Leads(q, r.queue)
             /\ Len(r.queue.items) = Len(q.items)
             /\ r.ok => IdSeq(r.queue) = BlockMoved(IdSeq(q), start, end, to)
<1> DEFINE n == end - start
           r == MoveRange(q, start, end, to)
           rr == MoveRange(q, start, start + n, to)
<1>1. n \in Nat /\ n > 0 /\ start + n = end
  OBVIOUS
<1> HIDE DEF n
<1>2. BlockGone(q, rr, start, n, to)
  BY <1>1, MoveRangeProps
<1>3. rr = r
  BY <1>1
<1> HIDE DEF r, rr
<1>4. r.ok => IdSeq(r.queue) = BlockMoved(IdSeq(q), start, end, to)
  BY <1>1, <1>2, <1>3 DEF BlockGone
<1> QED  BY <1>2, <1>3, <1>4 DEF r, BlockGone

\* What move has to go by.
LEMMA MoveKnows ==
  ASSUME CommandsInv, NEW c \in Clients, At(c, "mutate", {"move"})
  PROVE  /\ loc[c].start \in Nat /\ loc[c].end \in Nat /\ loc[c].pos \in Nat
         /\ loc[c].start < loc[c].end /\ Sane(queue) /\ loc[c] \in LocalType
         /\ pc[c] = "mutate" /\ cmd[c] \in Command
BY Knows DEF At, Fits, LocalType

\* A move publishes, or gives up with nothing moved, or leaves some songs moved.
LEMMA MoveCommandDoes ==
  ASSUME CommandsInv, NEW c \in Clients, MoveCommand(c)  PROVE Does(c)
<1> DEFINE l == loc[c]
           r == MoveRange(queue, l.start, l.end, l.pos)
<1>1. /\ l.start \in Nat /\ l.end \in Nat /\ l.pos \in Nat /\ l.start < l.end
      /\ Sane(queue) /\ l \in LocalType /\ pc[c] = "mutate" /\ cmd[c] \in Command
  BY MoveKnows DEF MoveCommand
<1>2. /\ queue' = r.queue
      /\ Goto(c, IF r.ok THEN "bump" ELSE "idle")
      /\ torn' = (torn \/ (~r.ok /\ r.queue # queue))
      /\ UNCHANGED <<workload, status, cmd, loc, mirror>>
  BY DEF MoveCommand
<1>3. r.ok \in BOOLEAN /\ Leads(queue, r.queue) /\ Len(r.queue.items) = Len(queue.items)
  <2> HIDE DEF l
  <2> QED  BY <1>1, MoveRangeOf
<1> HIDE DEF r
<1>4. torn \in BOOLEAN
  BY DEF CommandsInv, Shown
<1>5. CASE r.ok
  <2>1. torn' = torn
    BY <1>2, <1>4, <1>5
  <2>2. Commit(c, r.queue, "bump")
    BY <1>2, <1>5, <2>1 DEF Commit, seen
  <2> QED  BY <1>1, <1>3, <2>2, CommitOn
<1>6. CASE ~r.ok /\ r.queue = queue
  <2>1. torn' = torn
    BY <1>2, <1>4, <1>6
  <2>2. Commit(c, queue, "idle")
    BY <1>2, <1>6, <2>1 DEF Commit, seen
  <2> QED  BY <1>1, <2>2, CommitNothing
<1>7. CASE ~r.ok /\ r.queue # queue
  <2>1. torn' = TRUE
    BY <1>2, <1>7
  <2>2. Turns(c, "idle", cmd[c], l)
    BY <1>2, <1>7 DEF Turns, Goto, CommandsInv, Control
  <2>3. Fits("idle", cmd[c], l)
    BY <1>1 DEF Fits, Labels
  <2>4. Control' /\ Others(c) /\ pc'[c] = "idle"
    BY <2>2, <2>3, TurnFits, TurnOthers DEF CommandsInv
  <2>5. Shown'
    BY <1>2, <2>1 DEF CommandsInv, Shown, status
  <2>6. Tears(c)
    BY <1>1, <1>2, <1>3, <2>1, <2>4 DEF Tears, status
  <2> QED  BY <2>4, <2>5, <2>6 DEF Does
<1> QED  BY <1>3, <1>5, <1>6, <1>7

\* What a directory's songs become when they were added and moved to p.
LEMMA AddedAndMoved ==
  ASSUME NEW q, Sane(q), NEW songs \in Seq(Songs), NEW p \in Nat, p < Len(q.items)
  PROVE  LET g == AddAll(q, songs)
             w == MoveRange(g, Len(q.items), Len(g.items), p).queue
         IN  /\ Leads(q, w)
             /\ IdSeq(w) = BlockMoved(IdSeq(g), Len(q.items), Len(g.items), p)
             /\ Leads(g, w)
<1> DEFINE g == AddAll(q, songs)
           n == Len(q.items)
           m == Len(songs)
           r == MoveRange(g, n, Len(g.items), p)
           rr == MoveRange(g, n, n + m, p)
<1>1. Leads(q, g) /\ Len(g.items) = n + m
  BY AddAllProps
<1>2. n \in Nat /\ m \in Nat /\ p < n
  BY DEF Sane, QueueType
<1>3. Sane(g)
  BY <1>1 DEF Leads
<1> HIDE DEF g, n, m
<1>4. BlockGone(g, rr, n, m, p)
  BY <1>2, <1>3, MoveRangeProps
<1>5. r = rr
  BY <1>1
<1> HIDE DEF r, rr
<1>6. n + m <= Len(g.items) /\ p + m <= Len(g.items)
  BY <1>1, <1>2
<1>7. IdSeq(r.queue) = BlockMoved(IdSeq(g), n, Len(g.items), p)
  BY <1>1, <1>4, <1>5, <1>6 DEF BlockGone
<1>8. Leads(g, r.queue)
  BY <1>4, <1>5 DEF BlockGone
<1>9. Leads(q, r.queue)
  BY <1>1, <1>8, LeadsTrans
<1> QED  BY <1>7, <1>8, <1>9 DEF g, n, r

\* What a command that adds songs has to go by.
LEMMA AddKnows ==
  ASSUME CommandsInv, NEW c \in Clients, At(c, "mutate", {"adddir", "findadd", "load"})
  PROVE  /\ cmd[c].songs \in Seq(Songs) /\ loc[c].pos \in Nat \union {None}
         /\ Sane(queue) /\ loc[c] \in LocalType /\ pc[c] = "mutate" /\ cmd[c] \in Command
BY Knows, CommandArgs DEF At, LocalType

LEMMA AddDirectoryDoes ==
  ASSUME CommandsInv, NEW c \in Clients, AddDirectory(c)  PROVE Does(c)
<1> DEFINE p == loc[c].pos
           n == Len(queue.items)
           songs == cmd[c].songs
           g == AddAll(queue, songs)
           v == MoveRange(g, n, Len(g.items), p).queue
           w == IF p # None /\ p < n THEN v ELSE g
<1>1. /\ songs \in Seq(Songs) /\ p \in Nat \union {None} /\ Sane(queue) /\ pc[c] = "mutate"
  BY AddKnows DEF AddDirectory, At
<1>2. Commit(c, w, "bump")
  BY DEF AddDirectory
<1> HIDE DEF p, songs
<1>3. CASE p # None /\ p < n
  <2>1. p \in Nat
    BY <1>1, <1>3
  <2>2. Leads(queue, v)
    BY <1>1, <1>3, <2>1, AddedAndMoved
  <2>3. w = v
    BY <1>3
  <2> HIDE DEF v, w
  <2> QED  BY <1>1, <1>2, <2>2, <2>3, CommitOn
<1>4. CASE ~(p # None /\ p < n)
  <2>1. Leads(queue, g)
    BY <1>1, AddAllProps
  <2>2. w = g
    BY <1>4
  <2> HIDE DEF g, w
  <2> QED  BY <1>1, <1>2, <2>1, <2>2, CommitOn
<1> QED  BY <1>3, <1>4

\* findadd appends its songs and remembers their ids.
LEMMA AppendMatchesDoes ==
  ASSUME CommandsInv, NEW c \in Clients, AppendMatches(c)  PROVE Does(c)
<1> DEFINE l == loc[c]
           g == AddAll(queue, cmd[c].songs)
           s == IdSeq(g)
           ids == SubSeq(s, Len(queue.items) + 1, Len(g.items))
           new == [l EXCEPT !.ids = ids]
           next == IF l.pos # None /\ l.pos < l.start THEN "move" ELSE "bump"
<1>1. /\ cmd[c].songs \in Seq(Songs) /\ l.pos \in Nat \union {None} /\ Sane(queue)
      /\ l \in LocalType /\ pc[c] = "mutate" /\ cmd[c] \in Command /\ cmd[c].op = "findadd"
  BY AddKnows DEF AppendMatches, At
<1>2. /\ queue' = g /\ loc' = [loc EXCEPT ![c] = new] /\ Goto(c, next)
      /\ UNCHANGED <<workload, status, cmd, seen>>
  BY DEF AppendMatches, Remember
<1>3. Leads(queue, g)
  BY <1>1, AddAllProps
<1> HIDE DEF l, g
<1>4. s \in Seq(Nat)
  BY <1>3, IdSeqProps DEF Leads
<1>5. Len(queue.items) \in Nat /\ Len(g.items) \in Nat
  BY <1>1, <1>3 DEF Leads, Sane, QueueType
<1>6. Len(s) = Len(g.items)
  BY <1>3, IdSeqProps DEF Leads
<1> HIDE DEF s
<1>7. ids \in Seq(Nat)
  BY <1>4, <1>5, <1>6
<1> HIDE DEF ids
<1>8. new \in LocalType /\ new.pos = l.pos
  BY <1>1, <1>7 DEF LocalType
<1> HIDE DEF new
<1>9. next \in {"move", "bump"} /\ (next = "move" => new.pos \in Nat)
  BY <1>1, <1>8
<1> HIDE DEF next
<1>10. Fits(next, cmd[c], new)
  BY <1>1, <1>8, <1>9 DEF Fits, Labels
<1>11. Turns(c, next, cmd[c], new)
  BY <1>2 DEF Turns, Goto, CommandsInv, Control
<1>12. Control' /\ Others(c) /\ pc'[c] = next
  BY <1>10, <1>11, TurnFits, TurnOthers DEF CommandsInv
<1>13. Shown'
  BY <1>2 DEF CommandsInv, Shown, status, seen
<1> QED  BY <1>2, <1>3, <1>9, <1>12, <1>13 DEF Does, Writes, status, seen

-----------------------------------------------------------------------------
(* update_playlist_version and the polling client.                         *)

LEMMA UpdatePlaylistVersionDoes ==
  ASSUME CommandsInv, NEW c \in Clients, UpdatePlaylistVersion(c)  PROVE Does(c)
<1> DEFINE next == IF cmd[c].op = "clear" THEN "forget" ELSE "idle"
<1>1. pc[c] = "bump" /\ Goto(c, next) /\ torn' = FALSE
  BY DEF UpdatePlaylistVersion
<1>2. Fits(next, cmd[c], loc[c])
  BY <1>1, Knows DEF Fits, Labels
<1>3. Turns(c, next, cmd[c], loc[c])
  BY DEF UpdatePlaylistVersion, Turns, Goto, CommandsInv, Control
<1>4. next \in {"forget", "idle"}
  OBVIOUS
<1> HIDE DEF next
<1>5. Control' /\ Others(c) /\ pc'[c] = next
  BY <1>2, <1>3, TurnFits, TurnOthers DEF CommandsInv
<1>6. Len(queue.items) \in Nat
  BY Knows
<1>7. Shown'
  <2>1. Shown
    BY DEF CommandsInv
  <2>2. playlist_version' \in Nat
    <3>1. PICK v \in Nat : v = playlist_version
      BY <2>1 DEF Shown
    <3>2. playlist_version' = v + 1
      BY <3>1 DEF UpdatePlaylistVersion
    <3> QED  BY <3>2
  <2>3. playlist_length' \in Nat /\ torn' \in BOOLEAN
    BY <1>6 DEF UpdatePlaylistVersion
  <2>4. current' = current /\ mirror' = mirror
    BY DEF UpdatePlaylistVersion
  <2> QED  BY <2>1, <2>2, <2>3, <2>4 DEF Shown
<1>8. Publishes(c)
  BY <1>1, <1>4, <1>5 DEF Publishes, UpdatePlaylistVersion
<1> QED  BY <1>5, <1>7, <1>8 DEF Does

LEMMA PollStatusDoes == ASSUME CommandsInv, NEW c \in Clients, PollStatus(c)  PROVE Does(c)
<1> DEFINE l == loc[c]
           new == [l EXCEPT !.pos = playlist_version, !.len = playlist_length]
<1>1. /\ l \in LocalType /\ cmd[c] \in Command /\ pc[c] = "status"
      /\ playlist_version \in Nat /\ playlist_length \in Nat
  BY Knows DEF PollStatus, CommandsInv, Shown
<1>2. Goto(c, "changes") /\ loc' = [loc EXCEPT ![c] = new]
  BY DEF PollStatus, Remember
<1> HIDE DEF l
<1>3. new \in LocalType /\ new.pos \in Nat
  BY <1>1 DEF LocalType
<1> HIDE DEF new
<1>4. Fits("changes", cmd[c], new)
  BY <1>1, <1>3 DEF Fits, Labels
<1>5. Turns(c, "changes", cmd[c], new)
  BY <1>2 DEF PollStatus, Turns, Goto, CommandsInv, Control
<1>6. Control'
  BY <1>4, <1>5, TurnFits DEF CommandsInv
<1>7. Shown'
  BY DEF CommandsInv, Shown, PollStatus, status, seen
<1> QED  BY <1>6, <1>7 DEF Does, Polls

LEMMA PlchangesDoes == ASSUME CommandsInv, NEW c \in Clients, Plchanges(c)  PROVE Does(c)
<1> DEFINE v == mirror[c].version
           next == IF v = None \/ v = 0 \/ playlist_version > v THEN "items" ELSE "idle"
<1>1. /\ Fits("changes", cmd[c], loc[c]) /\ pc[c] = "changes"
  BY Knows DEF Plchanges
<1>2. Goto(c, next)
  BY DEF Plchanges
<1>3. Fits(next, cmd[c], loc[c])
  BY <1>1 DEF Fits, Labels
<1>4. Turns(c, next, cmd[c], loc[c])
  BY DEF Plchanges, Turns, Goto, CommandsInv, Control
<1> HIDE DEF next
<1>5. Control'
  BY <1>3, <1>4, TurnFits DEF CommandsInv
<1>6. Shown'
  BY DEF CommandsInv, Shown, Plchanges, status, seen
<1> QED  BY <1>5, <1>6 DEF Does, Polls

\* What the client overlays: what was sent, then what it had beyond that, cut.
Overlaid(old, sent, len) ==
  LET all == sent \o SubSeq(old, Len(sent) + 1, Len(old))
      n   == IF len < Len(all) THEN len ELSE Len(all)
  IN  SubSeq(all, 1, n)

LEMMA OverlaidProps ==
  ASSUME NEW old \in Seq(Item), NEW sent \in Seq(Item), NEW len \in Nat
  PROVE  /\ Overlaid(old, sent, len) \in Seq(Item)
         /\ len = Len(sent) => Overlaid(old, sent, len) = sent
<1> DEFINE tail == SubSeq(old, Len(sent) + 1, Len(old))
           all == sent \o tail
           n == IF len < Len(all) THEN len ELSE Len(all)
<1>1. tail \in Seq(Item)
  OBVIOUS
<1> HIDE DEF tail
<1>2. /\ all \in Seq(Item) /\ Len(all) = Len(sent) + Len(tail)
      /\ \A k \in 1 .. Len(sent) : all[k] = sent[k]
  BY <1>1, ConcatProperties
<1> HIDE DEF all
<1>3. n \in Nat /\ n <= Len(all)
  BY <1>2
<1>4. Overlaid(old, sent, len) = SubSeq(all, 1, n)
  BY DEF Overlaid, all, tail
<1>5. ASSUME len = Len(sent)  PROVE n = Len(sent)
  <2>1. Len(tail) \in Nat /\ Len(sent) \in Nat
    BY <1>1
  <2>2. Len(all) >= Len(sent)
    BY <1>2, <2>1
  <2> QED  BY <1>5, <2>1, <2>2, <1>2
<1> HIDE DEF n
<1>6. SubSeq(all, 1, n) \in Seq(Item)
  BY <1>2, <1>3
<1>7. ASSUME n = Len(sent)  PROVE SubSeq(all, 1, n) = sent
  <2> DEFINE t == SubSeq(all, 1, n)
  <2>1. t \in Seq(Item) /\ Len(t) = n /\ \A k \in 1 .. n : t[k] = all[k]
    BY <1>2, <1>3
  <2> HIDE DEF t
  <2>2. \A k \in 1 .. Len(sent) : t[k] = sent[k]
    BY <1>2, <1>7, <2>1
  <2>3. t = sent
    BY <1>7, <2>1, <2>2, SeqEqual
  <2> QED  BY <2>3 DEF t
<1> QED  BY <1>4, <1>5, <1>6, <1>7

\* What the client has after plchanges answered.
LEMMA Overlays ==
  ASSUME CommandsInv, NEW c \in Clients, PlchangesItems(c)
  PROVE  LET o == Overlaid(mirror[c].items, queue.items, loc[c].len)
         IN  mirror' = [mirror EXCEPT ![c] = [version |-> loc[c].pos, items |-> o]]
BY DEF PlchangesItems, Overlaid

LEMMA PlchangesItemsDoes ==
  ASSUME CommandsInv, NEW c \in Clients, PlchangesItems(c)  PROVE Does(c)
<1> DEFINE o == Overlaid(mirror[c].items, queue.items, loc[c].len)
           m == [version |-> loc[c].pos, items |-> o]
<1>1. /\ loc[c].len \in Nat /\ loc[c].pos \in Nat /\ loc[c] \in LocalType
      /\ cmd[c] \in Command /\ queue.items \in Seq(Item) /\ mirror[c].items \in Seq(Item)
  BY Knows DEF PlchangesItems, Fits, LocalType, CommandsInv, Shown, Sane, QueueType
<1>2. o \in Seq(Item)
  BY <1>1, OverlaidProps
<1>3. mirror' = [mirror EXCEPT ![c] = m]
  BY Overlays
<1> HIDE DEF o
<1>4. m \in [version : Nat \union {None}, items : Seq(Item)]
  BY <1>1, <1>2
<1> HIDE DEF m
<1>5. Fits("idle", cmd[c], loc[c])
  BY <1>1 DEF Fits, Labels
<1>6. Turns(c, "idle", cmd[c], loc[c])
  BY DEF PlchangesItems, Turns, Goto, CommandsInv, Control
<1>7. Control'
  BY <1>5, <1>6, TurnFits DEF CommandsInv
<1>8. /\ mirror' = [d \in Clients |-> mirror'[d]]
      /\ \A d \in Clients : mirror'[d] \in [version : Nat \union {None}, items : Seq(Item)]
  BY <1>3, <1>4 DEF CommandsInv, Shown
<1>9. Shown'
  BY <1>8 DEF CommandsInv, Shown, PlchangesItems, status
<1> QED  BY <1>7, <1>9 DEF Does, Polls

LEMMA StepDoes == ASSUME CommandsInv, NEW c \in Clients, Step(c)  PROVE Does(c)
BY RequestDoes, ReadLenDoes, LookUpIdDoes, ReadCurrentDoes, AddSongDoes, AddDirectoryDoes,
   ReadStartDoes, AppendMatchesDoes, MoveMatchesDoes, LoadPlaylistDoes, ClearQueueDoes,
   DeleteRangeDoes, DeleteByIdDoes, MoveCommandDoes, MoveIdCommandDoes, SwapCommandDoes,
   SwapIdCommandDoes, ShuffleCommandDoes, PrioRangesDoes, PrioIdsDoes, CheckRangeIdDoes,
   RangeIdCommandDoes, CheckTagIdDoes, TagIdCommandDoes, UpdatePlaylistVersionDoes,
   ForgetCurrentDoes, CheckPlayIdDoes, RecordCurrentDoes, PollStatusDoes, PlchangesDoes,
   PlchangesItemsDoes
   DEF Step

-----------------------------------------------------------------------------
(* The invariant, and the types of the server's state.                     *)

\* The queue before anything was restored.
LEMMA EmptyQueueProps ==
  /\ Sane(EmptyQueue) /\ Counted(EmptyQueue) /\ Distinct(EmptyQueue)
  /\ DOMAIN EmptyQueue.items = {} /\ EmptyQueue.next_id = 0
<1>1. <<>> \in Seq(Item) /\ DOMAIN <<>> = {}
  BY EmptySeq
<1>2. EmptyQueue \in QueueType
  BY <1>1, QueueConstants DEF EmptyQueue, QueueType
<1> QED  BY <1>1, <1>2 DEF EmptyQueue, Sane, Counted, Distinct

\* What the server restores.
LEMMA RestoredLeads == Init => Leads(EmptyQueue, queue)
<1> SUFFICES ASSUME Init  PROVE Leads(EmptyQueue, queue)
  OBVIOUS
<1>1. workload.restored \in Seq(Songs) /\ queue = AddAll(EmptyQueue, workload.restored)
  BY CommandConstants DEF Init
<1> QED  BY <1>1, EmptyQueueProps, AddAllProps

LEMMA InitCommands == Init => CommandsInv
<1> SUFFICES ASSUME Init  PROVE CommandsInv
  OBVIOUS
<1>1. Sane(queue)
  BY RestoredLeads DEF Leads
<1>2. Locals \in LocalType
  BY EmptySeq DEF Locals, LocalType
<1>3. Control
  <2>1. ASSUME NEW c \in Clients  PROVE Fits(pc[c], cmd[c], loc[c])
    BY <1>2 DEF Init, Fits, Labels
  <2> QED  BY <2>1 DEF Init, Control
<1>4. Shown
  <2>1. Len(queue.items) \in Nat
    BY <1>1 DEF Sane, QueueType
  <2>2. <<>> \in Seq(Item)
    BY EmptySeq
  <2> QED  BY <2>1, <2>2 DEF Init, Shown
<1> QED  BY <1>1, <1>3, <1>4 DEF CommandsInv

\* What a step does to the queue leaves it as Queue.tla keeps it.
LEMMA DoesSane == ASSUME CommandsInv, NEW c \in Clients, Does(c)  PROVE CommandsInv'
<1>1. CASE Reads(c) \/ Publishes(c)
  BY <1>1 DEF CommandsInv, Does, Reads, Publishes, Sane
<1>2. CASE Writes(c)
  BY <1>2 DEF CommandsInv, Does, Writes, Leads, Keeps, Sane
<1>3. CASE Tears(c)
  BY <1>3 DEF CommandsInv, Does, Tears, Leads, Sane
<1>4. CASE Polls(c)
  BY <1>4 DEF CommandsInv, Does, Polls, PollStatus, Plchanges, PlchangesItems, Sane
<1> QED  BY <1>1, <1>2, <1>3, <1>4 DEF Does

LEMMA StutterCommands == CommandsInv /\ UNCHANGED vars => CommandsInv'
BY DEF CommandsInv, Control, Shown, Sane, vars

LEMMA StepCommands == CommandsInv /\ [Next]_vars => CommandsInv'
BY StepDoes, DoesSane, StutterCommands DEF Next

LEMMA CommandsAlways == Spec => []CommandsInv
BY InitCommands, StepCommands, PTL DEF Spec

LEMMA CommandsTyped == CommandsInv => TypeOK
BY DEF CommandsInv, Sane, Shown, TypeOK

\* The server's state has its types whatever commands interleave, and at every
\* step the items carry their positions and no item has id 0.
THEOREM CommandsSane == Spec => [](TypeOK /\ Sane(queue))
<1>1. CommandsInv => TypeOK /\ Sane(queue)
  BY CommandsTyped DEF CommandsInv
<1> QED  BY <1>1, CommandsAlways, PTL

-----------------------------------------------------------------------------
(* What status and plchanges show.                                         *)

\* What a polling client read from status: an older version, or this one, and
\* then the length of the queue as soon as nothing is in between.
PollsKnow ==
  \A c \in Clients : pc[c] \in {"changes", "items"} =>
    /\ loc[c].pos <= playlist_version
    /\ loc[c].pos = playlist_version /\ ~Unsettled => loc[c].len = Len(queue.items)

\* No client has a version that status did not show.
MirrorsBehind ==
  \A c \in Clients : mirror[c].version # None => mirror[c].version <= playlist_version

StatusInv == LengthSettles /\ MirrorFresh /\ PollsKnow /\ MirrorsBehind

LEMMA InitStatus == Init => StatusInv
<1> SUFFICES ASSUME Init  PROVE StatusInv
  OBVIOUS
<1>1. /\ \A c \in Clients : pc[c] = "idle" /\ mirror[c].version = None
      /\ playlist_version = 0 /\ playlist_length = Len(queue.items)
  BY DEF Init
<1>2. None # 0
  BY CommandConstants
<1>3. LengthSettles /\ MirrorFresh /\ PollsKnow /\ MirrorsBehind
  BY <1>1, <1>2 DEF LengthSettles, MirrorFresh, PollsKnow, MirrorsBehind
<1> QED  BY <1>3 DEF StatusInv

\* Only c can come from a change or go on to one.
LEMMA SettledAlike ==
  ASSUME NEW c \in Clients, Others(c), pc[c] \notin {"bump", "move"},
         pc'[c] \notin {"bump", "move"}
  PROVE  Unsettled' <=> Unsettled
BY DEF Others, Unsettled

LEMMA ReadsStatus ==
  ASSUME CommandsInv, StatusInv, NEW c \in Clients, Reads(c)  PROVE StatusInv'
<1>1. Unsettled' <=> Unsettled
  BY SettledAlike DEF Reads
<1>2. UNCHANGED <<queue, playlist_version, playlist_length, mirror, torn>>
  BY DEF Reads, seen
<1>3. LengthSettles' /\ MirrorFresh' /\ MirrorsBehind'
  BY <1>1, <1>2 DEF StatusInv, LengthSettles, MirrorFresh, MirrorsBehind
<1>4. PollsKnow'
  <2>1. ASSUME NEW d \in Clients, pc'[d] \in {"changes", "items"}
        PROVE  pc'[d] = pc[d] /\ loc'[d] = loc[d]
    BY <2>1 DEF Reads, Others
  <2> QED  BY <1>1, <1>2, <2>1 DEF StatusInv, PollsKnow
<1> QED  BY <1>3, <1>4 DEF StatusInv

LEMMA WritesStatus ==
  ASSUME CommandsInv, StatusInv, NEW c \in Clients, Writes(c)  PROVE StatusInv'
<1>1. Unsettled'
  BY DEF Writes, Unsettled
<1>2. UNCHANGED <<playlist_version, mirror>>
  BY DEF Writes, seen
<1>3. LengthSettles' /\ MirrorFresh' /\ MirrorsBehind'
  BY <1>1, <1>2 DEF StatusInv, LengthSettles, MirrorFresh, MirrorsBehind
<1>4. PollsKnow'
  <2>1. ASSUME NEW d \in Clients, pc'[d] \in {"changes", "items"}
        PROVE  pc'[d] = pc[d] /\ loc'[d] = loc[d]
    BY <2>1 DEF Writes, Others
  <2> QED  BY <1>1, <1>2, <2>1 DEF StatusInv, PollsKnow
<1> QED  BY <1>3, <1>4 DEF StatusInv

LEMMA TearsStatus ==
  ASSUME CommandsInv, StatusInv, NEW c \in Clients, Tears(c)  PROVE StatusInv'
<1>1. Unsettled' <=> Unsettled
  BY SettledAlike DEF Tears
<1>2. /\ UNCHANGED <<playlist_version, playlist_length, mirror>> /\ torn'
      /\ Len(queue'.items) = Len(queue.items)
  BY DEF Tears
<1>3. LengthSettles' /\ MirrorFresh' /\ MirrorsBehind'
  BY <1>1, <1>2 DEF StatusInv, LengthSettles, MirrorFresh, MirrorsBehind
<1>4. PollsKnow'
  <2>1. ASSUME NEW d \in Clients, pc'[d] \in {"changes", "items"}
        PROVE  pc'[d] = pc[d] /\ loc'[d] = loc[d]
    BY <2>1 DEF Tears, Others
  <2> QED  BY <1>1, <1>2, <2>1 DEF StatusInv, PollsKnow
<1> QED  BY <1>3, <1>4 DEF StatusInv

\* A bump outdates every client's copy and every answer under way.
LEMMA PublishesStatus ==
  ASSUME CommandsInv, StatusInv, NEW c \in Clients, Publishes(c)  PROVE StatusInv'
<1>1. PICK v \in Nat : v = playlist_version
  BY DEF CommandsInv, Shown
<1>2. playlist_version' = v + 1 /\ playlist_length' = Len(queue'.items) /\ mirror' = mirror
  BY <1>1 DEF Publishes
<1>3. LengthSettles'
  BY <1>2 DEF LengthSettles
<1>4. ASSUME NEW d \in Clients  PROVE mirror'[d].version # None => mirror'[d].version < v + 1
  <2>1. mirror[d].version \in Nat \union {None}
    BY DEF CommandsInv, Shown
  <2>2. mirror[d].version # None => mirror[d].version <= v
    BY <1>1 DEF StatusInv, MirrorsBehind
  <2> QED  BY <1>2, <2>1, <2>2
<1>5. MirrorFresh' /\ MirrorsBehind'
  <2>1. ASSUME NEW d \in Clients
        PROVE  /\ mirror'[d].version # playlist_version'
               /\ mirror'[d].version # None => mirror'[d].version <= playlist_version'
    <3>1. mirror'[d].version \in Nat \union {None}
      BY <1>2 DEF CommandsInv, Shown
    <3>2. v + 1 # None
      BY CommandConstants
    <3> QED  BY <1>2, <1>4, <3>1, <3>2
  <2> QED  BY <2>1 DEF MirrorFresh, MirrorsBehind
<1>6. PollsKnow'
  <2>1. ASSUME NEW d \in Clients, pc'[d] \in {"changes", "items"}
        PROVE  pc'[d] = pc[d] /\ loc'[d] = loc[d] /\ loc[d].pos \in Nat
    <3>1. pc'[d] = pc[d] /\ loc'[d] = loc[d]
      BY <2>1 DEF Publishes, Others
    <3> QED  BY <2>1, <3>1, Knows DEF Fits
  <2>2. ASSUME NEW d \in Clients, pc'[d] \in {"changes", "items"}
        PROVE  loc'[d].pos < v + 1 /\ loc'[d].pos \in Nat
    <3>1. loc[d].pos <= v
      BY <1>1, <2>1, <2>2 DEF StatusInv, PollsKnow
    <3> QED  BY <2>1, <2>2, <3>1
  <2> QED  BY <1>2, <2>2 DEF PollsKnow
<1> QED  BY <1>3, <1>5, <1>6 DEF StatusInv

\* status is read under one lock.
LEMMA PollStatusStatus ==
  ASSUME CommandsInv, StatusInv, NEW c \in Clients, PollStatus(c)  PROVE StatusInv'
<1>1. PICK v \in Nat : v = playlist_version
  BY DEF CommandsInv, Shown
<1>2. /\ UNCHANGED <<queue, playlist_version, playlist_length, mirror, torn>>
      /\ pc' = [pc EXCEPT ![c] = "changes"] /\ pc[c] = "status"
      /\ loc' = [loc EXCEPT ![c] = [loc[c] EXCEPT !.pos = playlist_version,
                                                  !.len = playlist_length]]
  BY DEF PollStatus, Goto, Remember, status, seen
<1>3. /\ \A d \in Clients \ {c} : pc'[d] = pc[d] /\ loc'[d] = loc[d]
      /\ pc'[c] = "changes"
  BY <1>2 DEF CommandsInv, Control
<1>4. loc'[c].pos = v /\ loc'[c].len = playlist_length
  <2> DEFINE l == loc[c]
  <2>1. l \in LocalType /\ loc' = [loc EXCEPT ![c] = [l EXCEPT !.pos = playlist_version,
                                                             !.len = playlist_length]]
    BY <1>2, Knows
  <2>2. loc'[c] = [l EXCEPT !.pos = playlist_version, !.len = playlist_length]
    BY <2>1 DEF CommandsInv, Control
  <2> HIDE DEF l
  <2> QED  BY <1>1, <2>1, <2>2 DEF LocalType
<1>5. Unsettled' <=> Unsettled
  BY <1>2, <1>3 DEF Unsettled
<1>6. LengthSettles' /\ MirrorFresh' /\ MirrorsBehind'
  BY <1>2, <1>5 DEF StatusInv, LengthSettles, MirrorFresh, MirrorsBehind
<1>7. PollsKnow'
  <2>1. ASSUME NEW d \in Clients, pc'[d] \in {"changes", "items"}
        PROVE  /\ loc'[d].pos <= playlist_version'
               /\ loc'[d].pos = playlist_version' /\ ~Unsettled'
                    => loc'[d].len = Len(queue'.items)
    <3>1. CASE d = c
      BY <1>1, <1>2, <1>4, <1>5, <3>1 DEF StatusInv, LengthSettles
    <3>2. CASE d # c
      BY <1>2, <1>3, <1>5, <2>1, <3>2 DEF StatusInv, PollsKnow
    <3> QED  BY <3>1, <3>2
  <2> QED  BY <2>1 DEF PollsKnow
<1> QED  BY <1>6, <1>7 DEF StatusInv

LEMMA PlchangesStatus ==
  ASSUME CommandsInv, StatusInv, NEW c \in Clients, Plchanges(c)  PROVE StatusInv'
<1>1. /\ UNCHANGED <<queue, playlist_version, playlist_length, mirror, torn, loc>>
      /\ pc[c] = "changes"
  BY DEF Plchanges, status, seen
<1>2. /\ \A d \in Clients \ {c} : pc'[d] = pc[d]
      /\ pc'[c] \in {"items", "idle"}
  BY DEF Plchanges, Goto, CommandsInv, Control
<1>3. Unsettled' <=> Unsettled
  BY <1>1, <1>2 DEF Unsettled
<1>4. LengthSettles' /\ MirrorFresh' /\ MirrorsBehind'
  BY <1>1, <1>3 DEF StatusInv, LengthSettles, MirrorFresh, MirrorsBehind
<1>5. PollsKnow'
  <2>1. \A d \in Clients : pc'[d] \in {"changes", "items"} => pc[d] \in {"changes", "items"}
    BY <1>1, <1>2
  <2> QED  BY <1>1, <1>3, <2>1 DEF StatusInv, PollsKnow
<1> QED  BY <1>4, <1>5 DEF StatusInv

\* The client's copy carries the version it read before the items: a copy with
\* the version in status has the length and the items of the queue.
LEMMA PlchangesItemsStatus ==
  ASSUME CommandsInv, StatusInv, NEW c \in Clients, PlchangesItems(c)  PROVE StatusInv'
<1> DEFINE l == loc[c]
           o == Overlaid(mirror[c].items, queue.items, l.len)
           m == [version |-> l.pos, items |-> o]
<1>1. /\ UNCHANGED <<queue, playlist_version, playlist_length, torn, loc>>
      /\ pc[c] = "items"
  BY DEF PlchangesItems, status
<1>2. /\ \A d \in Clients \ {c} : pc'[d] = pc[d]
      /\ pc'[c] = "idle"
  BY DEF PlchangesItems, Goto, CommandsInv, Control
<1>3. Unsettled' <=> Unsettled
  BY <1>1, <1>2 DEF Unsettled
<1>4. mirror' = [mirror EXCEPT ![c] = m]
  BY Overlays
<1>5. l.len \in Nat /\ queue.items \in Seq(Item) /\ mirror[c].items \in Seq(Item)
  BY Knows DEF LocalType, CommandsInv, Shown, Sane, QueueType
<1>6. l.len = Len(queue.items) => o = queue.items
  BY <1>5, OverlaidProps
<1>7. /\ l.pos <= playlist_version
      /\ l.pos = playlist_version /\ ~Unsettled => l.len = Len(queue.items)
  BY <1>1 DEF StatusInv, PollsKnow
<1>8. /\ \A d \in Clients \ {c} : mirror'[d] = mirror[d]
      /\ mirror'[c].version = l.pos /\ mirror'[c].items = o
  BY <1>4 DEF CommandsInv, Shown
<1> HIDE DEF l, o, m
<1>9. LengthSettles'
  BY <1>1, <1>3 DEF StatusInv, LengthSettles
<1>10. MirrorFresh'
  <2>1. ASSUME ~Unsettled, ~torn, NEW d \in Clients, mirror'[d].version = playlist_version
        PROVE  mirror'[d].items = queue.items
    <3>1. CASE d = c
      BY <1>6, <1>7, <1>8, <2>1, <3>1
    <3>2. CASE d # c
      BY <1>8, <2>1, <3>2 DEF StatusInv, MirrorFresh
    <3> QED  BY <3>1, <3>2
  <2> QED  BY <1>1, <1>3, <2>1 DEF MirrorFresh
<1>11. MirrorsBehind'
  <2>1. ASSUME NEW d \in Clients, mirror'[d].version # None
        PROVE  mirror'[d].version <= playlist_version
    <3>1. CASE d = c
      BY <1>7, <1>8, <3>1
    <3>2. CASE d # c
      BY <1>8, <2>1, <3>2 DEF StatusInv, MirrorsBehind
    <3> QED  BY <3>1, <3>2
  <2> QED  BY <1>1, <2>1 DEF MirrorsBehind
<1>12. PollsKnow'
  <2>1. \A d \in Clients : pc'[d] \in {"changes", "items"} => pc[d] \in {"changes", "items"}
    BY <1>1, <1>2
  <2> QED  BY <1>1, <1>3, <2>1 DEF StatusInv, PollsKnow
<1> QED  BY <1>9, <1>10, <1>11, <1>12 DEF StatusInv

LEMMA StepStatus == CommandsInv /\ StatusInv /\ [Next]_vars => StatusInv'
<1>1. ASSUME CommandsInv, StatusInv, NEW c \in Clients, Step(c)  PROVE StatusInv'
  <2>1. Does(c)
    BY <1>1, StepDoes
  <2> QED  BY <1>1, <2>1, ReadsStatus, WritesStatus, TearsStatus, PublishesStatus,
              PollStatusStatus, PlchangesStatus, PlchangesItemsStatus DEF Does, Polls
<1>2. ASSUME StatusInv, UNCHANGED vars  PROVE StatusInv'
  BY <1>2 DEF vars, StatusInv, LengthSettles, MirrorFresh, PollsKnow, MirrorsBehind, Unsettled
<1> QED  BY <1>1, <1>2 DEF Next

\* Whatever commands' changes and bumps came in between, for any number of
\* connections: when none is between its change and update_playlist_version, status
\* has the queue's length, and a client whose copy carries the version in status
\* has the queue, unless a range move broke off midway since the last bump.
THEOREM StatusAgreesAlways == Spec => []StatusAgrees
<1>1. StatusInv => StatusAgrees
  BY DEF StatusInv, StatusAgrees
<1> QED  BY <1>1, CommandsAlways, InitStatus, StepStatus, PTL DEF Spec

-----------------------------------------------------------------------------
(* Tags.                                                                   *)

\* Only remote songs carry tags.
Tagless(q) ==
  \A i \in DOMAIN q.items : q.items[i].song \notin Remote => q.items[i].tags = NoTags

\* The id was given to a remote song, and will be to no other.
RemoteId(q, id) ==
  /\ id < q.next_id
  /\ \A i \in DOMAIN q.items : q.items[i].id = id => q.items[i].song \in Remote

\* The counter has not wrapped.
Unwrapped == Early(queue)

TagsInv ==
  Unwrapped =>
    /\ Counted(queue) /\ Distinct(queue) /\ Tagless(queue)
    /\ \A c \in Clients : At(c, "mutate", {"tagid"}) => RemoteId(queue, cmd[c].id)

LEMMA LeadsTagless ==
  ASSUME NEW q, Sane(q), Counted(q), Tagless(q), NEW w, Leads(q, w), Early(w)
  PROVE  Tagless(w)
<1>1. ASSUME NEW j \in DOMAIN w.items, w.items[j].song \notin Remote
      PROVE  w.items[j].tags = NoTags
  <2>1. Stems(w.items[j], q)
    BY DEF Leads
  <2> QED  BY <1>1, <2>1 DEF Stems, Carried, Tagless
<1> QED  BY <1>1 DEF Tagless

LEMMA LeadsRemote ==
  ASSUME NEW q, Sane(q), Counted(q), NEW w, Leads(q, w), Early(w),
         NEW id \in Nat, RemoteId(q, id)
  PROVE  RemoteId(w, id)
<1>1. w.next_id >= q.next_id /\ w.next_id \in Nat /\ q.next_id \in Nat
  BY QueueConstants DEF Leads, Sane, QueueType
<1>2. id < q.next_id
  BY DEF RemoteId
<1>3. ASSUME NEW j \in DOMAIN w.items, w.items[j].id = id
      PROVE  w.items[j].song \in Remote
  <2>1. Stems(w.items[j], q)
    BY DEF Leads
  <2>2. Carried(w.items[j], q, {})
    BY <1>1, <1>2, <1>3, <2>1 DEF Stems
  <2> QED  BY <1>3, <2>2 DEF Carried, RemoteId
<1> QED  BY <1>1, <1>2, <1>3 DEF RemoteId

\* What stays of the tags when the queue led on and no one checked a tag since.
LEMMA LeadsTags ==
  ASSUME CommandsInv, TagsInv, NEW c \in Clients, Leads(queue, queue'), Others(c),
         pc'[c] # "mutate"
  PROVE  TagsInv'
<1> SUFFICES ASSUME Early(queue')  PROVE TagsInv'
  BY DEF TagsInv, Unwrapped
<1>1. Early(queue) /\ Sane(queue)
  BY EarlyBefore DEF Leads, CommandsInv
<1>2. Counted(queue) /\ Distinct(queue) /\ Tagless(queue)
  BY <1>1 DEF TagsInv, Unwrapped
<1>3. Counted(queue') /\ Distinct(queue')
  BY <1>2 DEF Leads
<1>4. Tagless(queue')
  BY <1>1, <1>2, LeadsTagless
<1>5. ASSUME NEW d \in Clients, pc'[d] = "mutate", cmd'[d].op = "tagid"
      PROVE  RemoteId(queue', cmd'[d].id)
  <2>1. pc[d] = "mutate" /\ cmd'[d] = cmd[d] /\ cmd[d].op = "tagid"
    BY <1>5 DEF Others
  <2>2. RemoteId(queue, cmd[d].id)
    BY <1>1, <2>1 DEF TagsInv, Unwrapped, At
  <2>3. cmd[d].id \in Nat
    BY <2>1, Knows, CommandArgs
  <2> QED  BY <1>1, <1>2, <2>1, <2>2, <2>3, LeadsRemote
<1> QED  BY <1>3, <1>4, <1>5 DEF TagsInv, At, Counted, Distinct, Tagless, RemoteId

\* The edit of a tag: the id still names the remote song that was checked.
LEMMA TagTags ==
  ASSUME CommandsInv, TagsInv, NEW c \in Clients, Others(c), pc'[c] # "mutate",
         pc[c] = "mutate", cmd[c].op = "tagid", Keeps(queue, queue', {cmd[c].id})
  PROVE  TagsInv'
<1> DEFINE id == cmd[c].id
<1> SUFFICES ASSUME Early(queue')  PROVE TagsInv'
  BY DEF TagsInv, Unwrapped
<1>1. /\ Early(queue) /\ Sane(queue) /\ Sane(queue')
      /\ queue'.next_id = queue.next_id /\ queue'.version >= queue.version
      /\ \A j \in DOMAIN queue'.items : Carried(queue'.items[j], queue, {id})
  BY EarlyBefore DEF Keeps, CommandsInv
<1>2. /\ Counted(queue) /\ Distinct(queue) /\ Tagless(queue)
      /\ RemoteId(queue, id)
  BY <1>1 DEF TagsInv, Unwrapped, At
<1>3. Distinct(queue')
  BY <1>2 DEF Keeps
<1>4. Counted(queue')
  <2>1. queue.version \in Nat /\ queue'.version \in Nat /\ queue.next_id \in Nat
    BY <1>1, QueueConstants DEF Sane, QueueType
  <2> QED  BY <1>1, <1>2, <2>1 DEF Counted
<1> HIDE DEF id
<1>5. Tagless(queue')
  <2>1. ASSUME NEW j \in DOMAIN queue'.items, queue'.items[j].song \notin Remote
        PROVE  queue'.items[j].tags = NoTags
    <3>1. Carried(queue'.items[j], queue, {id})
      BY <1>1
    <3>2. PICK i \in DOMAIN queue.items :
            /\ queue'.items[j].id = queue.items[i].id
            /\ queue'.items[j].song = queue.items[i].song
            /\ queue'.items[j].id \notin {id} => queue'.items[j].tags = queue.items[i].tags
      BY <3>1 DEF Carried
    <3>3. queue'.items[j].id # id
      BY <1>2, <2>1, <3>2 DEF RemoteId
    <3> QED  BY <1>2, <2>1, <3>2, <3>3 DEF Tagless
  <2> QED  BY <2>1 DEF Tagless
<1>6. ASSUME NEW d \in Clients, pc'[d] = "mutate", cmd'[d].op = "tagid"
      PROVE  RemoteId(queue', cmd'[d].id)
  <2>1. pc[d] = "mutate" /\ cmd'[d] = cmd[d] /\ cmd[d].op = "tagid"
    BY <1>6 DEF Others
  <2>2. RemoteId(queue, cmd[d].id)
    BY <1>1, <2>1 DEF TagsInv, Unwrapped, At
  <2> QED  BY <1>1, <2>1, <2>2 DEF RemoteId, Carried
<1> QED  BY <1>3, <1>4, <1>5, <1>6 DEF TagsInv, At

\* The steps that leave the queue: whoever goes on to edit a tag has checked.
LEMMA ReadsTags ==
  ASSUME CommandsInv, TagsInv, NEW c \in Clients, queue' = queue, Others(c),
         pc'[c] = "mutate" /\ cmd'[c].op = "tagid" => Checked(cmd'[c].id)
  PROVE  TagsInv'
<1> SUFFICES ASSUME Early(queue)  PROVE TagsInv'
  BY DEF TagsInv, Unwrapped
<1>1. Counted(queue) /\ Distinct(queue) /\ Tagless(queue) /\ queue \in QueueType
  BY Knows DEF TagsInv, Unwrapped
<1>2. ASSUME NEW d \in Clients, pc'[d] = "mutate", cmd'[d].op = "tagid"
      PROVE  RemoteId(queue, cmd'[d].id)
  <2>1. CASE d = c
    <3> DEFINE id == cmd'[c].id
    <3>1. HasId(queue, id) /\ queue.items[IndexOf(queue, id)].song \in Remote
      BY <1>2, <2>1 DEF Checked
    <3> HIDE DEF id
    <3>2. /\ IndexOf(queue, id) \in DOMAIN queue.items
          /\ queue.items[IndexOf(queue, id)].id = id
      BY <1>1, <3>1, IndexOfProps DEF QueueType
    <3>3. \A i \in DOMAIN queue.items :
            queue.items[i].id = id => i = IndexOf(queue, id)
      BY <1>1, <3>2 DEF Distinct
    <3>4. id < queue.next_id
      <4>1. id \in 1 .. queue.next_id - 1 /\ queue.next_id \in Nat
        BY <1>1, <3>2, QueueConstants DEF Distinct, QueueType
      <4> QED  BY <4>1
    <3> QED  BY <2>1, <3>1, <3>3, <3>4 DEF RemoteId, id
  <2>2. CASE d # c
    BY <1>2, <2>2 DEF Others, TagsInv, Unwrapped, At
  <2> QED  BY <2>1, <2>2
<1> QED  BY <1>1, <1>2 DEF TagsInv, At

LEMMA InitTags == Init => TagsInv
<1> SUFFICES ASSUME Init, Early(queue)  PROVE TagsInv
  BY DEF TagsInv, Unwrapped
<1>1. Leads(EmptyQueue, queue) /\ Sane(EmptyQueue) /\ Counted(EmptyQueue) /\ Distinct(EmptyQueue)
  BY RestoredLeads, EmptyQueueProps
<1>2. Tagless(EmptyQueue)
  BY EmptyQueueProps DEF Tagless
<1>3. Tagless(queue)
  BY <1>1, <1>2, LeadsTagless
<1>4. Counted(queue) /\ Distinct(queue)
  BY <1>1 DEF Leads
<1>5. ASSUME NEW c \in Clients  PROVE pc[c] = "idle"
  BY DEF Init
<1> QED  BY <1>3, <1>4, <1>5 DEF TagsInv, At

LEMMA StepTags == CommandsInv /\ TagsInv /\ [Next]_vars => TagsInv'
<1>1. ASSUME CommandsInv, TagsInv, NEW c \in Clients, Step(c)  PROVE TagsInv'
  <2>1. Does(c) /\ Sane(queue)
    BY <1>1, StepDoes DEF CommandsInv
  <2>2. CASE Reads(c)
    BY <1>1, <2>2, ReadsTags DEF Reads
  <2>3. CASE Writes(c)
    BY <1>1, <2>3, LeadsTags, TagTags DEF Writes
  <2>4. CASE Tears(c)
    BY <1>1, <2>4, LeadsTags DEF Tears
  <2>5. CASE Publishes(c)
    BY <1>1, <2>5, ReadsTags DEF Publishes
  <2>6. CASE Polls(c)
    <3>1. queue' = queue /\ cmd' = cmd
      BY <2>6 DEF Polls, PollStatus, Plchanges, PlchangesItems
    <3>2. pc'[c] # "mutate" /\ Others(c)
      BY <1>1, <2>6 DEF Polls, PollStatus, Plchanges, PlchangesItems, Goto, Remember, Others,
                        CommandsInv, Control
    <3> QED  BY <1>1, <3>1, <3>2, ReadsTags
  <2> QED  BY <2>1, <2>2, <2>3, <2>4, <2>5, <2>6 DEF Does
<1>2. ASSUME TagsInv, UNCHANGED vars  PROVE TagsInv'
  BY <1>2 DEF vars, TagsInv, Unwrapped, At, Early, Counted, Distinct, Tagless, RemoteId
<1> QED  BY <1>1, <1>2 DEF Next

\* addtagid checks that a song is remote under one lock and edits its tags under
\* another.  Until the id counter wraps, whatever was added, deleted, moved or
\* loaded in between, only remote songs carry tags.
THEOREM TagsRemote == Spec => [](Unwrapped => TagsOnlyOnRemote)
<1>1. TagsInv => (Unwrapped => TagsOnlyOnRemote)
  BY DEF TagsInv, Tagless, TagsOnlyOnRemote
<1> QED  BY <1>1, CommandsAlways, InitTags, StepTags, PTL DEF Spec

-----------------------------------------------------------------------------
(* Moves.                                                                  *)

\* A connection only moves by a step of its own.
LEMMA OwnStep ==
  ASSUME CommandsInv, NEW c \in Clients, NEW d \in Clients, Step(d), pc'[c] # pc[c]
  PROVE  c = d
<1>1. SUFFICES ASSUME c # d  PROVE FALSE
  OBVIOUS
<1>2. CASE Polls(d)
  BY <1>1, <1>2 DEF Polls, PollStatus, Plchanges, PlchangesItems, Goto, CommandsInv, Control
<1>3. CASE ~Polls(d)
  BY <1>1, <1>3, StepDoes DEF Does, Reads, Writes, Tears, Publishes, Others
<1> QED  BY <1>2, <1>3

\* The step that writes what a command asked for.
LEMMA MutateStep ==
  ASSUME NEW c \in Clients, Step(c), pc[c] = "mutate"
  PROVE  /\ cmd[c].op = "move" => MoveCommand(c)
         /\ cmd[c].op = "add" => AddSong(c)
         /\ cmd[c].op = "adddir" => AddDirectory(c)
         /\ cmd[c].op = "load" => LoadPlaylist(c)
BY DEF Step, Request, ReadLen, LookUpId, ReadCurrent, AddSong, AddDirectory, ReadStart,
       AppendMatches, MoveMatches, LoadPlaylist, ClearQueue, DeleteRange, DeleteById,
       MoveCommand, MoveIdCommand, SwapCommand, SwapIdCommand, ShuffleCommand, PrioRanges,
       PrioIds, CheckRangeId, RangeIdCommand, CheckTagId, TagIdCommand,
       UpdatePlaylistVersion, ForgetCurrent, CheckPlayId, RecordCurrent, PollStatus,
       Plchanges, PlchangesItems, At

\* Only its own write takes a connection from mutate to bump.
LEMMA WriteStep ==
  ASSUME CommandsInv, [Next]_vars, NEW c \in Clients, pc[c] = "mutate", pc'[c] = "bump"
  PROVE  Step(c)
<1>1. CASE Next
  <2>1. PICK d \in Clients : Step(d)
    BY <1>1 DEF Next
  <2> QED  BY <2>1, OwnStep
<1>2. CASE UNCHANGED vars
  BY <1>2 DEF vars
<1> QED  BY <1>1, <1>2

LEMMA MoveOrders ==
  ASSUME CommandsInv, NEW c \in Clients, MoveCommand(c), pc'[c] = "bump"
  PROVE  IdSeq(queue') = BlockMoved(IdSeq(queue), loc[c].start, loc[c].end, loc[c].pos)
<1> DEFINE l == loc[c]
           r == MoveRange(queue, l.start, l.end, l.pos)
<1>1. /\ l.start \in Nat /\ l.end \in Nat /\ l.pos \in Nat /\ l.start < l.end /\ Sane(queue)
  BY MoveKnows DEF MoveCommand
<1>2. queue' = r.queue /\ Goto(c, IF r.ok THEN "bump" ELSE "idle")
  BY DEF MoveCommand
<1>3. r.ok
  BY <1>2 DEF Goto, CommandsInv, Control
<1>4. r.ok => IdSeq(r.queue) = BlockMoved(IdSeq(queue), l.start, l.end, l.pos)
  <2> HIDE DEF l
  <2> QED  BY <1>1, MoveRangeOf
<1> HIDE DEF r
<1> QED  BY <1>2, <1>3, <1>4

\* A move that answers OK moved the block it was given as a whole and kept the
\* order of everything else, for a queue of any length and whatever changed
\* between the locks.
THEOREM MovesKeepOrder == Spec => MoveKeepsOrder
<1>1. ASSUME CommandsInv, [Next]_vars, NEW c \in Clients, At(c, "mutate", {"move"}), pc'[c] = "bump"
      PROVE  IdSeq(queue') = BlockMoved(IdSeq(queue), loc[c].start, loc[c].end, loc[c].pos)
  BY <1>1, WriteStep, MutateStep, MoveOrders DEF At
<1>2. CommandsInv /\ [Next]_vars =>
        [\A c \in Clients :
           (At(c, "mutate", {"move"}) /\ pc'[c] = "bump")
           => IdSeq(queue') = BlockMoved(IdSeq(queue), loc[c].start, loc[c].end,
                                         loc[c].pos)]_vars
  BY <1>1
<1> QED  BY <1>2, CommandsAlways, PTL DEF Spec, MoveKeepsOrder

-----------------------------------------------------------------------------
(* Additions.                                                              *)

\* m consecutive ids from v on.
Consecutive(new, v, m) ==
  /\ new \in Seq(Nat) /\ Len(new) = m
  /\ \A k \in 1 .. m : new[k] = v + (k - 1)

\* The ids new come after the first p ids of q.
Parted(q, w, p, new) ==
  IdSeq(w) = SubSeq(IdSeq(q), 1, p) \o new \o SubSeq(IdSeq(q), p + 1, Len(IdSeq(q)))

\* Songs spliced in at index p, as the property says it.
LEMMA SplicedSeq ==
  ASSUME NEW q, Sane(q), NEW w, Sane(w), NEW m \in Nat, NEW p \in 0 .. Len(q.items),
         Spliced(q, w, p, m), NEW new, Consecutive(new, NewId(q), m)
  PROVE  Parted(q, w, p, new)
<1> DEFINE old == IdSeq(q)
           n == Len(q.items)
           s == IdSeq(w)
           a == SubSeq(old, 1, p)
           b == SubSeq(old, p + 1, n)
           an == a \o new
           t == an \o b
<1>1. /\ old \in Seq(Nat) /\ Len(old) = n /\ \A k \in 1 .. n : old[k] = q.items[k].id
      /\ s \in Seq(Nat) /\ Len(s) = Len(w.items)
      /\ \A k \in 1 .. Len(w.items) : s[k] = w.items[k].id
  BY IdSeqProps
<1>2. n \in Nat /\ p \in Nat /\ p <= n
  BY DEF Sane, QueueType
<1>3. /\ Len(w.items) = n + m
      /\ \A k \in 1 .. n + m :
           w.items[k].id = IF k <= p THEN q.items[k].id
                           ELSE IF k <= p + m THEN NewId(q) + (k - p - 1)
                           ELSE q.items[k - m].id
  BY DEF Spliced
<1> HIDE DEF old, n, s
<1>4. /\ a \in Seq(Nat) /\ Len(a) = p /\ \A k \in 1 .. p : a[k] = old[k]
  BY <1>1, <1>2
<1>5. /\ b \in Seq(Nat) /\ Len(b) = n - p /\ \A k \in 1 .. n - p : b[k] = old[p + k]
  <2> DEFINE r == n - p
  <2>1. r \in Nat /\ p + r = n
    BY <1>2
  <2> HIDE DEF r
  <2>2. p + r <= Len(old) /\ old \in Seq(Nat)
    BY <1>1, <1>2, <2>1
  <2>3. /\ SubSeq(old, p + 1, p + r) \in Seq(Nat)
        /\ Len(SubSeq(old, p + 1, p + r)) = r
        /\ \A k \in 1 .. r : SubSeq(old, p + 1, p + r)[k] = old[p + k]
    BY <1>2, <2>1, <2>2
  <2> QED  BY <2>1, <2>3 DEF r
<1> HIDE DEF a, b
<1>6. /\ new \in Seq(Nat) /\ Len(new) = m
      /\ \A k \in 1 .. m : new[k] = NewId(q) + (k - 1)
  BY DEF Consecutive
<1>7. /\ an \in Seq(Nat) /\ Len(an) = p + m
      /\ \A k \in 1 .. p + m : an[k] = IF k <= p THEN a[k] ELSE new[k - p]
  BY <1>4, <1>6, Joined
<1> HIDE DEF an
<1>8. /\ t \in Seq(Nat) /\ Len(t) = (p + m) + (n - p)
      /\ \A k \in 1 .. (p + m) + (n - p) :
           t[k] = IF k <= p + m THEN an[k] ELSE b[k - (p + m)]
  <2>1. /\ t \in Seq(Nat) /\ Len(t) = Len(an) + Len(b)
        /\ \A k \in 1 .. Len(an) + Len(b) :
             t[k] = IF k <= Len(an) THEN an[k] ELSE b[k - Len(an)]
    BY <1>5, <1>7, Joined
  <2> HIDE DEF t
  <2> QED  BY <1>5, <1>7, <2>1
<1>9. (p + m) + (n - p) = n + m
  BY <1>2
<1> HIDE DEF t
<1>10. NewId(q) \in Nat
  BY NewIdProps DEF Sane
<1>11. ASSUME NEW k \in 1 .. n + m  PROVE s[k] = t[k]
  <2>0. k \in Nat /\ k >= 1 /\ k <= n + m
    BY <1>2
  <2>1. s[k] = w.items[k].id
    BY <1>1, <1>3
  <2>2. t[k] = IF k <= p + m THEN an[k] ELSE b[k - (p + m)]
    BY <1>8, <1>9
  <2>3. CASE k <= p
    <3>1. k \in 1 .. p /\ k \in 1 .. p + m /\ k \in 1 .. n /\ k <= p + m
      BY <1>2, <2>0, <2>3
    <3>2. t[k] = old[k]
      BY <1>4, <1>7, <2>2, <2>3, <3>1
    <3>3. w.items[k].id = q.items[k].id
      BY <1>3, <2>3
    <3> QED  BY <1>1, <2>1, <3>1, <3>2, <3>3
  <2>4. CASE ~(k <= p) /\ k <= p + m
    <3>1. k \in 1 .. p + m /\ k - p \in 1 .. m
      BY <1>2, <2>0, <2>4
    <3>2. t[k] = NewId(q) + ((k - p) - 1)
      BY <1>6, <1>7, <2>2, <2>4, <3>1
    <3>3. w.items[k].id = NewId(q) + (k - p - 1)
      BY <1>3, <2>4
    <3> QED  BY <2>1, <3>2, <3>3
  <2>5. CASE ~(k <= p + m)
    <3> DEFINE j == k - (p + m)
    <3>1. j \in 1 .. n - p /\ p + j = k - m /\ k - m \in 1 .. n /\ ~(k <= p)
      BY <1>2, <2>0, <2>5
    <3>2. t[k] = old[k - m]
      BY <1>5, <2>2, <2>5, <3>1
    <3>3. w.items[k].id = q.items[k - m].id
      BY <1>3, <2>5, <3>1
    <3> QED  BY <1>1, <2>1, <3>1, <3>2, <3>3
  <2> QED  BY <2>3, <2>4, <2>5
<1>12. s = t
  BY <1>1, <1>3, <1>8, <1>9, <1>11, SeqEqual
<1>13. n = Len(IdSeq(q))
  BY <1>1 DEF old
<1> QED  BY <1>12, <1>13 DEF Parted, s, t, an, a, b, old

\* The songs a directory adds at the end.
LEMMA AddAllSpliced ==
  ASSUME NEW q, Sane(q), Counted(q), NEW songs \in Seq(Songs), Early(AddAll(q, songs))
  PROVE  Spliced(q, AddAll(q, songs), Len(q.items), Len(songs))
<1> DEFINE w == AddAll(q, songs)
           n == Len(q.items)
           m == Len(songs)
<1>1. /\ Len(w.items) = n + m
      /\ \A k \in 1 .. n : w.items[k].id = q.items[k].id
      /\ \A k \in 1 .. m : w.items[n + k].id = NewId(q) + k - 1
  BY AddAllProps
<1>2. n \in Nat /\ m \in Nat /\ NewId(q) \in Nat
  BY NewIdProps DEF Sane, QueueType
<1> HIDE DEF w, n, m
<1>3. ASSUME NEW k \in 1 .. n + m
      PROVE  w.items[k].id = IF k <= n THEN q.items[k].id
                             ELSE IF k <= n + m THEN NewId(q) + (k - n - 1)
                             ELSE q.items[k - m].id
  <2>1. CASE k <= n
    BY <1>1, <1>2, <2>1
  <2>2. CASE ~(k <= n)
    <3>1. k - n \in 1 .. m /\ n + (k - n) = k /\ k <= n + m
      BY <1>2, <2>2
    <3>2. w.items[n + (k - n)].id = NewId(q) + (k - n) - 1
      BY <1>1, <3>1
    <3> QED  BY <1>2, <2>2, <3>1, <3>2
  <2> QED  BY <2>1, <2>2
<1> QED  BY <1>1, <1>3 DEF Spliced, w, n, m

\* The songs a directory adds and moves to p.
LEMMA AddedSpliced ==
  ASSUME NEW q, Sane(q), Counted(q), NEW songs \in Seq(Songs),
         NEW p \in Nat, p < Len(q.items), NEW g, g = AddAll(q, songs), Early(g),
         NEW w, Sane(w), IdSeq(w) = BlockMoved(IdSeq(g), Len(q.items), Len(g.items), p)
  PROVE  Spliced(q, w, p, Len(songs))
<1> DEFINE n == Len(q.items)
           m == Len(songs)
           s == IdSeq(g)
           t == IdSeq(w)
<1>1. Spliced(q, g, n, m) /\ Sane(g) /\ Len(g.items) = n + m
  BY AddAllSpliced, AddAllProps DEF Leads
<1>2. /\ s \in Seq(Nat) /\ Len(s) = n + m /\ \A k \in 1 .. n + m : s[k] = g.items[k].id
      /\ t \in Seq(Nat) /\ Len(t) = Len(w.items)
      /\ \A k \in 1 .. Len(w.items) : t[k] = w.items[k].id
  BY <1>1, IdSeqProps
<1>3. n \in Nat /\ m \in Nat /\ p < n
  BY DEF Sane, QueueType
<1>4. /\ \A k \in 1 .. n + m :
           g.items[k].id = IF k <= n THEN q.items[k].id
                           ELSE IF k <= n + m THEN NewId(q) + (k - n - 1)
                           ELSE q.items[k - m].id
  BY <1>1 DEF Spliced
<1>5. t = BlockMoved(s, n, n + m, p)
  BY <1>1
<1> HIDE DEF n, m, s, t
<1>6. n + m <= Len(s) /\ p + m <= Len(s)
  BY <1>2, <1>3
<1>7. Reordered(s, t, n, m, p)
  BY <1>2, <1>3, <1>5, <1>6, BlockMovedAt
<1>8. /\ Len(t) = n + m
      /\ \A k \in 1 .. n + m : t[k] = s[Hopped(n, p, m, m, k)]
  BY <1>2, <1>7 DEF Reordered
<1>9. ASSUME NEW k \in 1 .. n + m
      PROVE  t[k] = IF k <= p THEN q.items[k].id
                    ELSE IF k <= p + m THEN NewId(q) + (k - p - 1)
                    ELSE q.items[k - m].id
  <2>0. k \in Nat /\ k >= 1 /\ k <= n + m
    BY <1>3
  <2>1. CASE k <= p
    <3>1. Hopped(n, p, m, m, k) = k /\ k <= n
      BY <1>3, <2>0, <2>1 DEF Hopped
    <3> QED  BY <1>2, <1>4, <1>8, <2>1, <3>1
  <2>2. CASE ~(k <= p) /\ k <= p + m
    <3> DEFINE j == n + (k - p)
    <3>1. Hopped(n, p, m, m, k) = j
      BY <1>3, <2>0, <2>2 DEF Hopped
    <3>2. j \in 1 .. n + m /\ ~(j <= n) /\ j <= n + m /\ j - n - 1 = k - p - 1
      BY <1>3, <2>0, <2>2
    <3> HIDE DEF j
    <3>3. s[j] = NewId(q) + (j - n - 1)
      BY <1>2, <1>4, <3>2
    <3>4. t[k] = s[j]
      BY <1>8, <3>1
    <3> QED  BY <2>2, <3>2, <3>3, <3>4
  <2>3. CASE ~(k <= p + m)
    <3>1. Hopped(n, p, m, m, k) = k - m
      <4>1. ~(k <= p) /\ k <= n + m
        BY <1>3, <2>0, <2>3
      <4> QED  BY <1>3, <2>0, <2>3, <4>1 DEF Hopped
    <3>2. k - m \in 1 .. n + m /\ k - m <= n /\ ~(k <= p)
      BY <1>3, <2>0, <2>3
    <3>3. t[k] = s[k - m]
      BY <1>8, <3>1
    <3> QED  BY <1>2, <1>4, <2>3, <3>2, <3>3
  <2> QED  BY <2>1, <2>2, <2>3
<1>10. Len(w.items) = n + m
  BY <1>2, <1>8
<1> QED  BY <1>2, <1>9, <1>10 DEF Spliced, n, m

\* The ids a command's songs get.
LEMMA NewIdsProps ==
  ASSUME NEW songs \in Seq(Songs), NEW v \in Nat \ {0}
  PROVE  Consecutive([i \in DOMAIN songs |-> v + i - 1], v, Len(songs))
<1> DEFINE m == Len(songs)
           new == [i \in DOMAIN songs |-> v + i - 1]
<1>1. m \in Nat /\ DOMAIN songs = 1 .. m
  OBVIOUS
<1>2. new = [i \in 1 .. m |-> v + i - 1]
  BY <1>1
<1> HIDE DEF m, new
<1>3. \A k \in 1 .. m : v + k - 1 \in Nat /\ v + k - 1 = v + (k - 1)
  OBVIOUS
<1>4. new \in [1 .. m -> Nat]
  BY <1>2, <1>3
<1>5. new \in Seq(Nat) /\ Len(new) = m
  BY <1>1, <1>4
<1>6. \A k \in 1 .. m : new[k] = v + (k - 1)
  BY <1>2, <1>3
<1> QED  BY <1>5, <1>6 DEF Consecutive, m, new

\* A position that was accepted is where the song is.
LEMMA AddLands ==
  ASSUME CommandsInv, Distinct(queue), NEW c \in Clients, AddSong(c), loc[c].pos # None,
         pc'[c] = "bump"
  PROVE  /\ HasPos(queue', loc[c].pos)
         /\ ItemAt(queue', loc[c].pos).id \notin IdsOf(queue)
<1> DEFINE p == loc[c].pos
           n == Len(queue.items)
<1>1. pc[c] = "mutate" /\ cmd[c].op = "add"
  BY DEF AddSong, At
<1>2. /\ p \in Nat /\ cmd[c].song \in Songs /\ Sane(queue) /\ queue \in QueueType /\ n \in Nat
  BY <1>1, Knows, CommandArgs DEF LocalType
<1>3. ~(p > n)
  <2>1. SUFFICES ASSUME p > n  PROVE FALSE
    OBVIOUS
  <2>2. Fail(c)
    BY <2>1 DEF AddSong
  <2> QED  BY <2>2 DEF Fail, Goto, CommandsInv, Control
<1>4. queue' = AddAt(queue, cmd[c].song, p)
  BY <1>3 DEF AddSong, Commit
<1> HIDE DEF p
<1>5. Inserted(queue, queue', Entry(queue, p))
  BY <1>2, <1>4, AddAtInserts
<1>6. Entry(queue, p) = p + 1 /\ p + 1 \in 1 .. n + 1
  <2>1. p # None
    BY <1>2, CommandConstants
  <2> HIDE DEF n
  <2>2. Entry(queue, p) = IF p >= n THEN n + 1 ELSE p + 1
    BY <2>1 DEF Entry, n
  <2> QED  BY <1>2, <1>3, <2>2
<1>7. Len(queue'.items) = n + 1 /\ queue'.items[p + 1].id = NewId(queue)
  BY <1>5, <1>6 DEF Inserted
<1>8. NewId(queue) \notin IdsOf(queue)
  <2>1. NewId(queue) >= queue.next_id /\ NewId(queue) \in Nat /\ queue.next_id \in Nat
    BY <1>2, NewIdProps, QueueConstants DEF QueueType
  <2>2. \A i \in DOMAIN queue.items : queue.items[i].id \in 1 .. queue.next_id - 1
    BY DEF Distinct
  <2>3. \A i \in DOMAIN queue.items : queue.items[i].id # NewId(queue)
    BY <2>1, <2>2
  <2> QED  BY <2>3 DEF IdsOf
<1>9. HasPos(queue', p)
  <2> HIDE DEF n
  <2> QED  BY <1>2, <1>3, <1>7 DEF HasPos
<1> QED  BY <1>7, <1>8, <1>9 DEF ItemAt, p

\* A directory's songs come in together.
LEMMA DirectoryTogether ==
  ASSUME CommandsInv, Counted(queue), NEW c \in Clients, AddDirectory(c), Early(queue')
  PROVE  Spliced(queue, queue', Reached(queue, loc[c].pos), Len(cmd[c].songs))
<1> DEFINE p == loc[c].pos
           n == Len(queue.items)
           songs == cmd[c].songs
           g == AddAll(queue, songs)
           v == MoveRange(g, n, Len(g.items), p).queue
<1>1. /\ songs \in Seq(Songs) /\ p \in Nat \union {None} /\ Sane(queue) /\ n \in Nat
  BY AddKnows, Knows DEF AddDirectory, At
<1>2. queue' = IF p # None /\ p < n THEN v ELSE g
  BY DEF AddDirectory, Commit
<1> HIDE DEF p, songs
<1>3. CASE p # None /\ p < n
  <2>1. p \in Nat
    BY <1>1, <1>3
  <2>2. IdSeq(v) = BlockMoved(IdSeq(g), n, Len(g.items), p) /\ Leads(g, v) /\ Leads(queue, g)
    BY <1>1, <1>3, <2>1, AddedAndMoved, AddAllProps
  <2>3. queue' = v
    BY <1>2, <1>3
  <2> HIDE DEF g, v
  <2>4. Sane(v) /\ Early(g) /\ g = AddAll(queue, songs)
    BY <2>2, <2>3, EarlyBefore DEF Leads, g
  <2>5. Spliced(queue, v, p, Len(songs))
    BY <1>1, <1>3, <2>1, <2>2, <2>4, AddedSpliced
  <2>6. Reached(queue, p) = p
    <3> HIDE DEF n
    <3>1. ~(p > n)
      BY <1>1, <1>3, <2>1
    <3> QED  BY <1>3, <3>1 DEF Reached, n
  <2> QED  BY <2>3, <2>5, <2>6 DEF p, songs
<1>4. CASE ~(p # None /\ p < n)
  <2>1. queue' = g
    BY <1>2, <1>4
  <2>2. Spliced(queue, g, n, Len(songs))
    BY <1>1, <2>1, AddAllSpliced
  <2>3. Reached(queue, p) = n
    <3>1. p = None \/ (p \in Nat /\ p >= n)
      <4> HIDE DEF n
      <4> QED  BY <1>1, <1>4
    <3>2. Reached(queue, p) = IF p = None \/ p > n THEN n ELSE p
      BY DEF Reached
    <3> HIDE DEF n
    <3> QED  BY <1>1, <3>1, <3>2
  <2> HIDE DEF g
  <2> QED  BY <2>1, <2>2, <2>3 DEF p, songs
<1> QED  BY <1>3, <1>4

\* A playlist's songs come in together.
LEMMA PlaylistTogether ==
  ASSUME CommandsInv, Counted(queue), NEW c \in Clients, LoadPlaylist(c), Early(queue')
  PROVE  Spliced(queue, queue', Reached(queue, loc[c].pos), Len(cmd[c].songs))
<1> DEFINE k == cmd[c]
           p == loc[c].pos
           v == PutAll(queue, k.songs, p, k.range)
<1>1. pc[c] = "mutate" /\ k.op = "load" /\ queue' = SetLastLoaded(v, k.name)
  BY DEF LoadPlaylist, At, Commit
<1>2. /\ k.songs \in Seq(Songs) /\ k.range \in Ranges \union {None}
      /\ p \in Nat \union {None} /\ Sane(queue)
  BY <1>1, Knows, CommandArgs DEF LocalType, Inserting
<1> HIDE DEF k, p
<1>3. /\ Leads(queue, v)
      /\ Counted(queue) /\ Early(v) => Spliced(queue, v, Reached(queue, p), Len(k.songs))
  BY <1>2, PutAllProps
<1> HIDE DEF v
<1>4. queue'.items = v.items /\ queue'.version = v.version
  BY <1>1, <1>3 DEF SetLastLoaded, Leads, Sane, QueueType
<1>5. Early(v)
  BY <1>4, Zenon DEF Early
<1> QED  BY <1>3, <1>4, <1>5 DEF Spliced, k, p

\* Whatever was added by one command, as BlockAddedTogether says it.
LEMMA TogetherSaid ==
  ASSUME CommandsInv, CommandsInv', NEW c \in Clients, At(c, "mutate", {"adddir", "load"}),
         Spliced(queue, queue', Reached(queue, loc[c].pos), Len(cmd[c].songs))
  PROVE  LET old == IdSeq(queue)
             n   == Len(old)
             p   == IF loc[c].pos = None \/ loc[c].pos > n THEN n ELSE loc[c].pos
             new == [i \in DOMAIN cmd[c].songs |-> NewId(queue) + i - 1]
         IN  IdSeq(queue') = SubSeq(old, 1, p) \o new \o SubSeq(old, p + 1, n)
<1> DEFINE songs == cmd[c].songs
           m == Len(songs)
           at == loc[c].pos
           p == Reached(queue, at)
           new == [i \in DOMAIN songs |-> NewId(queue) + i - 1]
           n == Len(queue.items)
<1>1. songs \in Seq(Songs) /\ at \in Nat \union {None} /\ Sane(queue) /\ Sane(queue')
  BY AddKnows DEF At, CommandsInv
<1>2. Spliced(queue, queue', p, m)
  OBVIOUS
<1>3. n \in Nat /\ NewId(queue) \in Nat \ {0} /\ m \in Nat
  <2>1. NewId(queue) \in 1 .. IdSpace - 1
    BY <1>1, NewIdProps DEF Sane
  <2>2. NewId(queue) \in Nat \ {0}
    BY <2>1, QueueConstants
  <2> QED  BY <1>1, <2>2 DEF Sane, QueueType
<1>4. p = IF at = None \/ at > n THEN n ELSE at
  BY DEF Reached
<1>5. Len(IdSeq(queue)) = n
  BY <1>1, IdSeqProps
<1>6. Consecutive(new, NewId(queue), m)
  BY <1>1, <1>3, NewIdsProps
<1> HIDE DEF songs, m, at, new, n, p
<1>7. p \in 0 .. n
  BY <1>1, <1>3, <1>4
<1>8. p \in 0 .. Len(queue.items)
  BY <1>7 DEF n
<1>9. Parted(queue, queue', p, new)
  BY <1>1, <1>2, <1>3, <1>6, <1>8, SplicedSeq
<1> QED  BY <1>4, <1>5, <1>9, Zenon DEF Parted, songs, at, new

\* What an accepted add, directory or playlist puts into the queue is where the
\* command asked for it, although the position was resolved under an earlier lock;
\* as long as the id counter has not wrapped.
THEOREM AddsWhereAsked == Spec /\ []Unwrapped => AddedWhereAsked
<1>1. ASSUME CommandsInv, Unwrapped, TagsInv, [Next]_vars, NEW c \in Clients,
             At(c, "mutate", {"add"}), loc[c].pos # None, pc'[c] = "bump"
      PROVE  /\ HasPos(queue', loc[c].pos)
             /\ ItemAt(queue', loc[c].pos).id \notin IdsOf(queue)
  <2>1. AddSong(c)
    BY <1>1, WriteStep, MutateStep, Zenon DEF At
  <2> QED  BY <1>1, <2>1, AddLands DEF TagsInv
<1>2. ASSUME CommandsInv, CommandsInv', Unwrapped, Unwrapped', TagsInv, [Next]_vars,
             NEW c \in Clients, At(c, "mutate", {"adddir", "load"}), pc'[c] = "bump"
      PROVE  LET old == IdSeq(queue)
                 n   == Len(old)
                 p   == IF loc[c].pos = None \/ loc[c].pos > n THEN n ELSE loc[c].pos
                 new == [i \in DOMAIN cmd[c].songs |-> NewId(queue) + i - 1]
             IN  IdSeq(queue') = SubSeq(old, 1, p) \o new \o SubSeq(old, p + 1, n)
  <2>1. AddDirectory(c) \/ LoadPlaylist(c)
    BY <1>2, WriteStep, MutateStep DEF At
  <2>2. Counted(queue) /\ Early(queue')
    BY <1>2 DEF TagsInv, Unwrapped
  <2>3. Spliced(queue, queue', Reached(queue, loc[c].pos), Len(cmd[c].songs))
    BY <1>2, <2>1, <2>2, DirectoryTogether, PlaylistTogether
  <2> QED  BY <1>2, <2>3, TogetherSaid
<1>3. CommandsInv /\ CommandsInv' /\ Unwrapped /\ Unwrapped' /\ TagsInv /\ [Next]_vars =>
        [\A c \in Clients :
           (At(c, "mutate", {"add"}) /\ loc[c].pos # None /\ pc'[c] = "bump")
           => /\ HasPos(queue', loc[c].pos)
              /\ ItemAt(queue', loc[c].pos).id \notin IdsOf(queue)]_vars
  BY <1>1, Zenon
<1>4. CommandsInv /\ CommandsInv' /\ Unwrapped /\ Unwrapped' /\ TagsInv /\ [Next]_vars =>
        [\A c \in Clients :
           At(c, "mutate", {"adddir", "load"}) /\ pc'[c] = "bump"
           => LET old == IdSeq(queue)
                  n   == Len(old)
                  p   == IF loc[c].pos = None \/ loc[c].pos > n THEN n ELSE loc[c].pos
                  new == [i \in DOMAIN cmd[c].songs |-> NewId(queue) + i - 1]
              IN  IdSeq(queue') = SubSeq(old, 1, p) \o new \o SubSeq(old, p + 1, n)]_vars
  BY <1>2
<1> QED  BY <1>3, <1>4, CommandsAlways, InitTags, StepTags, PTL
         DEF Spec, AddedWhereAsked, AddLandsAtPosition, BlockAddedTogether
=============================================================================
