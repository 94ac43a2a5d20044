------------------------------ MODULE Queries ------------------------------
(***************************************************************************)
(* The questions clients ask of the library: find, search, list, count,    *)
(* lsinfo, listall (rmpd-protocol/src/commands/database.rs) over the       *)
(* filters of rmpd-core/src/filter.rs and the rows of                      *)
(* rmpd-library/src/database.rs.                                           *)
(*                                                                         *)
(* The syntax of a filter is left out: a filter is its expression.  A text *)
(* is a value with its relations to the others: folded case, containment,  *)
(* beginning, order.                                                       *)
(***************************************************************************)
EXTENDS Integers, FiniteSets, SequencesExt

CONSTANTS
  Texts,     \* tag values and path segments, with NoText the empty one
  NoText,
  Fold,      \* text -> the text with its case folded
  Within,    \* <<t, u>>: t is part of u
  Starting,  \* <<t, u>>: u starts with t
  TextOrder, \* every text once, in byte order
  KnownTags, \* tags the program knows
  Chain,     \* tag -> it and its fallbacks
  Stores,    \* libraries: sets of songs [path, tags, modified, added, length]
  Questions  \* what a client may ask

ASSUME QueriesConstants ==
  /\ NoText \in Texts /\ Fold \in [Texts -> Texts] /\ ToSet(TextOrder) = Texts
  /\ Within \subseteq Texts \X Texts /\ Starting \subseteq Within
  /\ DOMAIN Chain = KnownTags /\ \A t \in KnownTags : Head(Chain[t]) = t

VARIABLES
  store,   \* the library
  asked,   \* the question
  answer   \* its answer

queryvars == <<store, asked, answer>>

Shown(lines) == [ok |-> TRUE, lines |-> lines]
Refused      == [ok |-> FALSE, lines |-> <<>>]
Unasked      == [cmd |-> "none"]

-----------------------------------------------------------------------------
(* Songs.                                                                   *)

\* The set as a sequence; Before is a strict total order on it.
InOrder(S, Before(_, _)) ==
  [i \in 1..Cardinality(S) |-> CHOOSE x \in S : Cardinality({y \in S : Before(y, x)}) = i - 1]

Rank(t)          == CHOOSE i \in DOMAIN TextOrder : TextOrder[i] = t
TagRows(s, tags) == SelectSeq(s.tags, LAMBDA r : r[1] \in tags)
TagValues(s, t)  == LET rows == TagRows(s, {t}) IN [i \in DOMAIN rows |-> rows[i][2]]

\* The values of the first tag of the chain that has any.
TagValuesWithFallback(s, t) ==
  LET filled == SelectSeq(Chain[t], LAMBDA u : TagValues(s, u) # <<>>)
  IN  IF filled = <<>> THEN <<>> ELSE TagValues(s, Head(filled))

\* compare_db_path: in a directory its songs come before its subdirectories.
DbBefore(a, b) ==
  LET at == CHOOSE i \in 1..Len(a) + 1 :
              /\ \A j \in 1..i - 1 : j <= Len(b) /\ a[j] = b[j]
              /\ i > Len(a) \/ i > Len(b) \/ a[i] # b[i]
  IN  CASE at > Len(a) -> Len(b) > Len(a)
        [] at > Len(b) -> FALSE
        [] at = Len(a) /\ at < Len(b) -> TRUE
        [] at < Len(a) /\ at = Len(b) -> FALSE
        [] OTHER -> Rank(a[at]) < Rank(b[at])
InDbOrder(songs) == InOrder(songs, LAMBDA s, u : DbBefore(s.path, u.path))

-----------------------------------------------------------------------------
(* Filters: what to_sql has SQLite decide.                                  *)
CompareText(op, column, value, caseSensitive) ==
  LET c == IF caseSensitive THEN column ELSE Fold[column]
      v == IF caseSensitive THEN value ELSE Fold[value]
  IN  CASE op = "eq"          -> c = v
        [] op = "contains"    -> <<v, c>> \in Within
        [] op = "starts_with" -> <<v, c>> \in Starting

\* Mutant: the negation is inside the EXISTS.
TagMatchesEach(s, f, rows) ==
  IF f.value = NoText /\ f.op = "eq" THEN (\A r \in rows : r = NoText) # f.negated
  ELSE \E r \in rows : CompareText(f.op, r, f.value, f.cs) # f.negated

\* A tag is compared through its chain; equal to nothing is having nothing.
TagMatches(s, f, rows) ==
  IF f.value = NoText /\ f.op = "eq" THEN (\A r \in rows : r = NoText) # f.negated
  ELSE (\E r \in rows : CompareText(f.op, r, f.value, f.cs)) # f.negated

\* LIKE folds case: a directory is also found under another spelling.
BelowBase(path, base) ==
  \/ base = <<>> \/ path = base
  \/ Len(path) > Len(base) /\ \A i \in DOMAIN base : Fold[path[i]] = Fold[base[i]]

RECURSIVE Matches(_, _)
Matches(s, f) ==
  CASE f.kind = "compare"  -> TagMatches(s, f, {r[2] : r \in ToSet(TagRows(s, ToSet(Chain[f.tag])))})
    [] f.kind = "any"      -> TagMatches(s, f, {r[2] : r \in ToSet(s.tags)})
    [] f.kind = "file"     -> (s.path = f.path) # f.negated
    [] f.kind = "base"     -> BelowBase(s.path, f.path)
    [] f.kind = "modified" -> s.modified >= f.since
    [] f.kind = "added"    -> s.added >= f.since
    [] f.kind = "prio"     -> f.least = 0
    [] f.kind = "and"      -> Matches(s, f.left) /\ Matches(s, f.right)
    [] f.kind = "not"      -> ~Matches(s, f.of)

\* A pair TAG VALUE of the old syntax: search looks for a part, find for the whole.
Pair(tag, value, fold) ==
  [kind |-> "compare", tag |-> tag, op |-> IF fold THEN "contains" ELSE "eq",
   value |-> value, cs |-> ~fold, negated |-> FALSE]

FindSongsFilter(f) == InDbOrder({s \in store : Matches(s, f)})

-----------------------------------------------------------------------------
(* The commands.                                                            *)

\* apply_range: from start to before end, 0-based.
Windowed(list, w) == SubSeq(list, w[1] + 1, IF w[2] < Len(list) THEN w[2] ELSE Len(list))

SortKey(s, key) ==
  CASE key = "Last-Modified" -> s.modified
    [] key = "Added"         -> s.added
    [] OTHER -> LET v == TagValuesWithFallback(s, key) IN IF v = <<>> THEN 0 ELSE Rank(Head(v))

\* The sort is stable; descending reverses it whole.
SortSongs(list, sort) ==
  LET k(i)  == SortKey(list[i], sort.key)
      order == InOrder(DOMAIN list, LAMBDA i, j : k(i) < k(j) \/ (k(i) = k(j) /\ i < j))
      up    == [i \in DOMAIN list |-> list[order[i]]]
  IN  IF sort.descending THEN Reverse(up) ELSE up

FindOrSearch(q) ==
  LET found == FindSongsFilter(q.filter)
  IN  IF q.sort.key = "none" THEN Shown(Windowed(found, q.window))
      ELSE IF q.sort.key \notin KnownTags \union {"Last-Modified", "Added"} THEN Refused
      ELSE Shown(Windowed(SortSongs(found, q.sort), q.window))

\* Mutant: what a song is listed under is the tag alone.
KeyRowsBare(s, t) == LET v == TagValues(s, t) IN IF v = <<>> THEN <<NoText>> ELSE v

\* What a song is listed under, value by value; nothing counts as the empty value.  A
\* file may carry a value twice.
KeyRows(s, t) == LET v == TagValuesWithFallback(s, t) IN IF v = <<>> THEN <<NoText>> ELSE v
Keys(s, t)    == ToSet(KeyRows(s, t))

\* The tree of list: a branch from the outermost group to the tag.
Branches(songs, names) ==
  UNION {{b \in [DOMAIN names -> Texts] : \A i \in DOMAIN names : b[i] \in Keys(s, names[i])} : s \in songs}
BranchBefore(a, b) ==
  LET at == CHOOSE i \in 1..Len(a) + 1 : /\ \A j \in 1..i - 1 : j <= Len(b) /\ a[j] = b[j]
                                         /\ i > Len(a) \/ i > Len(b) \/ a[i] # b[i]
  IN  IF at > Len(a) \/ at > Len(b) THEN Len(a) < Len(b) ELSE Rank(a[at]) < Rank(b[at])

\* Each line of the answer is the branch it ends; the window is for the outermost level.
TagTree(songs, names, window) ==
  LET lines == UNION {{SubSeq(b, 1, n) : n \in DOMAIN names} : b \in Branches(songs, names)}
      outer == {l[1] : l \in lines}
      at(v) == Cardinality({u \in outer : Rank(u) < Rank(v)})
  IN  InOrder({l \in lines : window[1] <= at(l[1]) /\ at(l[1]) < window[2]}, BranchBefore)

ListTags(q) ==
  LET names == Append(q.groups, q.tag)
      songs == {s \in store : Matches(s, q.filter)}
  IN  IF q.tag = "file"
      THEN LET found == FindSongsFilter(q.filter)
           IN  Shown(Windowed([i \in DOMAIN found |-> found[i].path], q.window))
      ELSE IF ToSet(names) \subseteq KnownTags /\ IsInjective(names)
           THEN Shown(TagTree(songs, names, q.window)) ELSE Refused

\* What count adds up: a song as often as it comes.
Totals(songs, times(_)) ==
  [songs    |-> FoldSet(LAMBDA s, n : n + times(s), 0, songs),
   playtime |-> FoldSet(LAMBDA s, n : n + times(s) * s.length, 0, songs)]

\* A song counts under each of its values, and under a value it has twice two times.
Count(q) ==
  LET songs == {s \in store : Matches(s, q.filter)}
      found == UNION {Keys(s, q.group) : s \in songs}
      rows(s, v) == Cardinality({i \in DOMAIN KeyRows(s, q.group) : KeyRows(s, q.group)[i] = v})
      row(v) == [value |-> v, total |-> Totals(songs, LAMBDA s : rows(s, v))]
      values == InOrder(found, LAMBDA u, v : Rank(u) < Rank(v))
  IN  IF q.group = "none" THEN Shown(Totals(songs, LAMBDA s : 1))
      ELSE IF q.group \notin KnownTags THEN Refused ELSE Shown([i \in DOMAIN values |-> row(values[i])])

-----------------------------------------------------------------------------
(* The tree of directories.                                                 *)
DirsOf  == UNION {{SubSeq(s.path, 1, n) : n \in 0..Len(s.path) - 1} : s \in store}
SongsIn(d)   == {s \in store : Front(s.path) = d}
SubdirsOf(d) == InOrder({e \in DirsOf : Len(e) = Len(d) + 1 /\ SubSeq(e, 1, Len(d)) = d}, BranchBefore)

\* song_cmp, of the disc and track numbers nothing: album, none first, and name.
SongBefore(s, u) ==
  LET album(x) == LET v == TagValues(x, "album") IN IF v = <<>> THEN 0 ELSE Rank(Head(v))
  IN  \/ album(s) < album(u)
      \/ album(s) = album(u) /\ Rank(Last(s.path)) < Rank(Last(u.path))
SongsListed(d) == LET songs == InOrder(SongsIn(d), SongBefore) IN [i \in DOMAIN songs |-> songs[i].path]

RECURSIVE Walk(_)
Walk(d) == SongsListed(d) \o FlattenSeq([i \in DOMAIN SubdirsOf(d) |-> <<SubdirsOf(d)[i]>> \o Walk(SubdirsOf(d)[i])])

LsInfo(q) ==
  CASE \E s \in store : s.path = q.path -> Shown(<<q.path>>)
    [] q.path \in DirsOf \union {<<>>}  -> Shown(SongsListed(q.path) \o SubdirsOf(q.path))
    [] OTHER -> Refused

ListAll(q) ==
  CASE \E s \in store : s.path = q.path -> Shown(<<q.path>>)
    [] q.path = <<>>     -> Shown(Walk(q.path))
    [] q.path \in DirsOf -> Shown(<<q.path>> \o Walk(q.path))
    [] OTHER -> Refused

AnswerTo(q) ==
  CASE q.cmd = "find"    -> FindOrSearch(q)
    [] q.cmd = "list"    -> ListTags(q)
    [] q.cmd = "count"   -> Count(q)
    [] q.cmd = "lsinfo"  -> LsInfo(q)
    [] q.cmd = "listall" -> ListAll(q)

QueriesInit == store \in Stores /\ asked = Unasked /\ answer = Refused

AskFor(q) ==
  /\ asked = Unasked
  /\ asked' = q /\ answer' = AnswerTo(q)
  /\ UNCHANGED store

QueriesNext == \E q \in Questions : AskFor(q)
QueriesSpec == QueriesInit /\ [][QueriesNext]_queryvars

-----------------------------------------------------------------------------
Found(f) == {s \in store : Matches(s, f)}
Both(f, g) == [kind |-> "and", left |-> f, right |-> g]

\* A term and its negation share the library between them.
NegationSplits(f) ==
  f.kind \in {"compare", "any", "file"} =>
    Found([f EXCEPT !.negated = ~@]) = store \ Found(f)

\* Every line of list leads to songs: find with the values of its branch finds some.
LineLeadsToSongs(q, line) ==
  \E s \in Found(q.filter) :
    \A i \in DOMAIN line : Matches(s, Pair(Append(q.groups, q.tag)[i], line[i], FALSE))

\* What count counts under a value: at least one song and no more than find finds with
\* it, but that one of these counts again for each time it repeats the value.
CountedAreFound(q, line) ==
  LET found    == Found(Both(q.filter, Pair(q.group, line.value, FALSE)))
      again(s) == {i \in DOMAIN s.tags : /\ s.tags[i][1] \in ToSet(Chain[q.group])
                                         /\ s.tags[i][2] = line.value
                                         /\ \E j \in 1 .. i - 1 : s.tags[j] = s.tags[i]}
      repeats  == UNION {{<<s, i>> : i \in again(s)} : s \in found}
  IN  line.total.songs \in 1 .. Cardinality(found) + Cardinality(repeats)

\* The answers of the library's commands agree with each other: what is negated is
\* the rest, what list shows find finds, what count counts under a value find finds,
\* the pages of an answer make the whole, and the tree holds every song once.
AnswersAgree ==
  /\ asked.cmd = "find" =>
       /\ NegationSplits(asked.filter)
       /\ answer.ok =>
            LET all(a, b) == FindOrSearch([asked EXCEPT !.window = <<a, b>>])
            IN  all(0, asked.window[1]).lines \o answer.lines \o all(asked.window[2], Cardinality(store)).lines
                  = all(0, Cardinality(store)).lines
  /\ asked.cmd = "list" /\ asked.tag # "file" /\ answer.ok =>
       \A i \in DOMAIN answer.lines : LineLeadsToSongs(asked, answer.lines[i])
  /\ asked.cmd = "count" /\ answer.ok /\ asked.group # "none" =>
       \A i \in DOMAIN answer.lines : CountedAreFound(asked, answer.lines[i])
  /\ asked = [cmd |-> "listall", path |-> <<>>] =>
       /\ {s.path : s \in store} \union (DirsOf \ {<<>>}) = ToSet(answer.lines)
       /\ IsInjective(answer.lines)
=============================================================================
