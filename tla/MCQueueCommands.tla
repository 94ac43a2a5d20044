--------------------------- MODULE MCQueueCommands ---------------------------
(* QueueCommands for TLC: what each connection sends, per run.             *)
EXTENDS QueueCommands

CONSTANTS s1, s2, r1, t1, v1, pl, c1, c2

MCSongs   == {s1, s2}
MCRemote  == {s2}
MCPrios   == {0, 1}
MCRanges  == {r1}
MCTags    == {t1}
MCValues  == {v1}
MCNames   == {pl}
MCPair    == {c1, c2}

Abs(n)    == [kind |-> "abs", n |-> n]
After(n)  == [kind |-> "after", n |-> n]
Before(n) == [kind |-> "before", n |-> n]

AddTo(to)      == [op |-> "add", song |-> s1, to |-> to]
AddDirTo(to)   == [op |-> "adddir", songs |-> <<s1, s2>>, to |-> to]
FindAddTo(to)  == [op |-> "findadd", songs |-> <<s1, s2>>, to |-> to]
LoadTo(to, r)  == [op |-> "load", songs |-> <<s1, s2>>, to |-> to,
                   name |-> pl, range |-> r]
Delete1(p, e)  == [op |-> "delete", start |-> p, end |-> e]
DeleteId1(id)  == [op |-> "deleteid", id |-> id]
Move1(s, e, to) == [op |-> "move", start |-> s, end |-> e, to |-> to]
MoveId1(id, to) == [op |-> "moveid", id |-> id, to |-> to]
Poll           == [op |-> "poll"]
ClearAll       == [op |-> "clear"]
PlayId(id)     == [op |-> "playid", id |-> id]
RangeId(id, r) == [op |-> "rangeid", id |-> id, range |-> r]
TagId(id, t, v) == [op |-> "tagid", id |-> id, tag |-> t, value |-> v]

Two   == <<s1, s2>>
Three == <<s1, s2, s1>>
Load(songs, k1, k2) == [restored |-> songs, requests |-> (c1 :> k1) @@ (c2 :> k2)]

\* Both connections change the queue and poll it.
Shared == Load(Two,
  {AddTo(Abs(1)), AddTo(None), LoadTo(Abs(1), None), Poll, ClearAll},
  {Delete1(0, 1), Move1(0, 1, Abs(1)), AddTo(After(0)), PlayId(1), Poll})

\* Blocks move while the other connection deletes and adds.
Blocks == Load(Three,
  {Move1(0, 2, Abs(1)), Move1(1, 3, Abs(0)), Move1(1, 2, After(0)),
   MoveId1(1, Before(0)), PlayId(3)},
  {Delete1(0, 1), Delete1(1, 5), AddTo(None),
   [op |-> "swap", p1 |-> 0, p2 |-> 2], DeleteId1(2), Poll})

\* Blocks of songs enter the queue while the other connection edits it.
Adds == Load(Two,
  {AddDirTo(Abs(1)), AddDirTo(None), AddDirTo(After(0)), LoadTo(Before(0), r1),
   LoadTo(Abs(2), None), FindAddTo(None), FindAddTo(Abs(0))},
  {Delete1(0, 1), PlayId(2), AddTo(None)})

\* Edits of items, by id and by position.
Edits == Load(Two,
  {TagId(2, t1, v1), TagId(1, t1, v1), TagId(2, t1, None), TagId(2, None, None),
   RangeId(1, r1), [op |-> "prio", prio |-> 1, ranges |-> <<<<0, 1>>, <<7, 8>>>>],
   AddTo(None)},
  {[op |-> "prioid", prio |-> 1, ids |-> <<2, 9>>],
   [op |-> "swapid", id1 |-> 1, id2 |-> 2], DeleteId1(2), PlayId(1),
   [op |-> "shuffle", start |-> 0, end |-> 9]})

MCWorkloads == {Shared, Blocks, Adds, Edits}

\* One connection, one findadd at the front.
MCFindAdd == {Load(Two, {FindAddTo(Abs(0))}, {})}

\* One connection plays a song, edits the queue and adds after the song.
MCRelative == {Load(Two, {PlayId(2), Delete1(0, 1), AddTo(After(0))}, {})}
=============================================================================
