------------------------------ MODULE MCServer ------------------------------
(* The server's components that share no state with each other, for TLC:   *)
(* each behaviour is one of them, chosen at the start.                     *)
EXTENDS Server, Queries, FilterSyntax, TLC

CONSTANTS Parts \* the components this run is about

VARIABLE part

\* Library.
MCFolderOf == [f \in Files |-> IF f = "d/b" THEN "d" ELSE Root]

\* Stored playlists.
MCFirstQueue == <<"a", "b", "a">>
MCForeign == [n \in Lists |-> IF n = "p" THEN [cue |-> <<"g", "b">>]
                              ELSE [cue |-> <<"a">>, asx |-> <<"b">>]]
Edit(op, n)  == [op |-> op, name |-> n]
AddTo(n, l, at)         == [op |-> "add", name |-> n, new |-> l, pos |-> at]
DeleteFrom(n, from, to) == [op |-> "delete", name |-> n, from |-> from, to |-> to]
MoveIn(n, from, to, at) == [op |-> "move", name |-> n, from |-> from, to |-> to, dest |-> at]
LoadOf(n, at, relative, range) ==
  [op |-> "load", name |-> n, pos |-> at, relative |-> relative, range |-> range]
MCEdits == {Edit(op, "p") : op \in {"create", "append", "replace", "clear", "rm"}}
  \union {[op |-> "rename", name |-> "p", new |-> "q"],
          AddTo("p", <<"a", "b">>, 1), AddTo("q", <<"b">>, NoPosition),
          DeleteFrom("p", 1, 9), DeleteFrom("p", 1, 0),
          MoveIn("p", 0, 1, 1), MoveIn("p", 1, 3, 0)}
MCLoads == {LoadOf("p", 1, TRUE, <<0, 9>>), LoadOf("q", 2, FALSE, <<1, 3>>),
            LoadOf("q", NoPosition, FALSE, <<0, 9>>)}

\* State file.
MCFresh == [opts |-> "first", state |-> "stop", pos |-> NoSong, songs |-> <<>>]
MCSessions == {[opts |-> "a", state |-> "play", pos |-> 2, songs |-> <<2, 4, 3, 1, 4>>]}

\* Stickers.
MCDeltas == {2, -4}

-----------------------------------------------------------------------------
(* Queries: four texts in two cases, four songs in two directories.         *)
MCTexts == {"", "A", "B", "a", "ab", "b"}
MCOrder == <<"", "A", "B", "a", "ab", "b">>
MCFold  == [t \in MCTexts |-> CASE t = "A" -> "a" [] t = "B" -> "b" [] OTHER -> t]
MCStarting == {<<"", t>> : t \in MCTexts} \union {<<t, t>> : t \in MCTexts} \union {<<"a", "ab">>}
MCWithin   == MCStarting \union {<<"b", "ab">>}
MCTags  == {"artist", "albumartist", "album"}
MCChain == [t \in MCTags |-> IF t = "albumartist" THEN <<"albumartist", "artist">> ELSE <<t>>]

Song(place, tags, modified, length) ==
  [path |-> place, tags |-> tags, modified |-> modified, added |-> 3 - modified, length |-> length]
S1 == Song(<<"b">>, <<<<"artist", "a">>, <<"artist", "ab">>, <<"album", "B">>>>, 1, 2)
S2 == Song(<<"a", "a">>, <<<<"albumartist", "A">>, <<"artist", "a">>, <<"album", "b">>>>, 2, 3)
S3 == Song(<<"A", "b">>, <<<<"artist", "ab">>, <<"album", "a">>, <<"artist", "ab">>>>, 1, 1)
S4 == Song(<<"a", "B">>, <<>>, 2, 1)
MCStores == {{}, {S1, S2}, {S1, S2, S3, S4}}

Compare(tag, op, value, cs, negated) ==
  [kind |-> "compare", tag |-> tag, op |-> op, value |-> value, cs |-> cs, negated |-> negated]
Compared == {Compare(t, op, v, cs, n) : t \in MCTags, op \in {"eq", "contains", "starts_with"},
                                     v \in {"", "a", "ab"}, cs \in BOOLEAN, n \in BOOLEAN}
  \union {[kind |-> "any", op |-> op, value |-> "b", cs |-> cs, negated |-> n] :
            op \in {"eq", "contains"}, cs \in BOOLEAN, n \in BOOLEAN}
  \union {[kind |-> "file", path |-> <<"b">>, negated |-> n] : n \in BOOLEAN}
Various == {Pair("artist", "a", fold) : fold \in BOOLEAN}
  \union {[kind |-> "base", path |-> p] : p \in {<<>>, <<"a">>}}
  \union {[kind |-> k, since |-> 2] : k \in {"modified", "added"}}
  \union {[kind |-> "prio", least |-> 0],
          [kind |-> "and", left |-> Pair("artist", "a", TRUE),
                           right |-> [kind |-> "not", of |-> Pair("album", "b", FALSE)]]}
Windowings == {<<0, 9>>, <<1, 2>>, <<3, 5>>}
Unsorted   == [key |-> "none", descending |-> FALSE]
Find(f, sort, w) == [cmd |-> "find", filter |-> f, sort |-> sort, window |-> w]
MCQuestions ==
  {Find(f, Unsorted, <<0, 9>>) : f \in Compared}
  \union {Find(f, [key |-> k, descending |-> d], w) : f \in Various,
            k \in {"none", "Last-Modified", "Added", "albumartist", "mood"}, d \in BOOLEAN, w \in Windowings}
  \union {[cmd |-> "list", tag |-> t, filter |-> f, groups |-> g, window |-> w] :
            t \in {"artist", "albumartist", "file", "mood"}, f \in Various,
            g \in {<<>>, <<"album">>, <<"artist">>, <<"album", "albumartist">>}, w \in Windowings}
  \union {[cmd |-> "count", filter |-> f, group |-> g] :
            f \in Various, g \in {"none", "albumartist", "artist", "mood"}}
  \union {[cmd |-> c, path |-> p] : c \in {"lsinfo", "listall"},
            p \in {<<>>, <<"a">>, <<"b">>, <<"A", "b">>, <<"ab">>}}

\* Filter syntax.
MCQuoted   == ("'a'" :> "a") @@ ("'7'" :> "7")
MCInstants == ("7" :> 7)
MCNumerals == ("9" :> 9) @@ ("300" :> 300)
MCUnread   == <<"(", "base", "'a'", ")">>

\* Artwork: an image of two chunks, one that fills them, one too large.
MCSmall    == <<1, 2, 3>>
MCFull     == <<4, 5, 6, 7>>
MCLarge    == <<8, 9, 10, 11, 12>>
MCPictures == {MCSmall, MCFull, MCLarge}
MCCovers   == <<"png", "jpg">>
MCImages   == {[p \in Places |-> MCSmall], [p \in Places |-> IF p = "png" THEN NoPicture ELSE MCLarge]}

-----------------------------------------------------------------------------
\* A component that does not run keeps one of its initial states.
ServerInit ==
  /\ part \in Parts
  /\ PartitionsInit
  /\ LibraryInit /\ (part # "library" => songs = <<>>)
  /\ StoredInit /\ (part # "stored" => current = 0 /\ \A n \in Lists : file[n] = Gone)
     /\ (current = NoPosition => \A n \in Lists : Readable(file[n]))
  /\ StateFileInit
  /\ ConnectionInit
  /\ StickersInit
  /\ QueriesInit /\ (part # "queries" => store = {})
  /\ SyntaxInit /\ (part # "syntax" => ~foldCase /\ sentence = MCUnread)
  /\ ArtInit /\ image \in MCImages /\ (part # "artwork" => \A p \in Places : image[p] = MCSmall)
  /\ MountsInit /\ (part # "mounts" => actual)

\* Two partitions come and go while both connections move one output, whatever clashes;
\* one comes and goes while they move and toggle two, up to the first clash.
MovesOnly       == Toggling' = {} /\ \A c \in Connections : doing'[c].dev # "d2"
ToTheFirstClash == clashed = {} /\ ToSet(order') \subseteq {Default, "a"} /\ Len(assigned') <= 2

ServerNext ==
  \/ part = "partitions" /\ PartitionsNext /\ MovesOnly
     /\ UNCHANGED <<part, libvars, storedvars, filevars, connvars, stickervars,
                    queryvars, syntaxvars, artvars, mountvars>>
  \/ part = "outputs" /\ PartitionsNext /\ ToTheFirstClash
     /\ UNCHANGED <<part, libvars, storedvars, filevars, connvars, stickervars,
                    queryvars, syntaxvars, artvars, mountvars>>
  \/ part = "library" /\ LibraryNext
     /\ UNCHANGED <<part, partvars, storedvars, filevars, connvars, stickervars,
                    queryvars, syntaxvars, artvars, mountvars>>
  \/ part = "stored" /\ StoredNext
     /\ UNCHANGED <<part, partvars, libvars, filevars, connvars, stickervars,
                    queryvars, syntaxvars, artvars, mountvars>>
  \/ part = "statefile" /\ StateFileNext
     /\ UNCHANGED <<part, partvars, libvars, storedvars, connvars, stickervars,
                    queryvars, syntaxvars, artvars, mountvars>>
  \/ part = "connection" /\ ConnectionNext
     /\ UNCHANGED <<part, partvars, libvars, storedvars, filevars, stickervars,
                    queryvars, syntaxvars, artvars, mountvars>>
  \/ part = "stickers" /\ StickersNext
     /\ UNCHANGED <<part, partvars, libvars, storedvars, filevars, connvars,
                    queryvars, syntaxvars, artvars, mountvars>>
  \/ part = "queries" /\ QueriesNext
     /\ UNCHANGED <<part, partvars, libvars, storedvars, filevars, connvars,
                    stickervars, syntaxvars, artvars, mountvars>>
  \/ part = "syntax" /\ SyntaxNext
     /\ UNCHANGED <<part, partvars, libvars, storedvars, filevars, connvars,
                    stickervars, queryvars, artvars, mountvars>>
  \/ part = "artwork" /\ ArtNext
     /\ UNCHANGED <<part, partvars, libvars, storedvars, filevars, connvars,
                    stickervars, queryvars, syntaxvars, mountvars>>
  \/ part = "mounts" /\ MountsNext
     /\ UNCHANGED <<part, partvars, libvars, storedvars, filevars, connvars,
                    stickervars, queryvars, syntaxvars, artvars>>

vars == <<part, partvars, libvars, storedvars, filevars, connvars, stickervars, queryvars,
          syntaxvars, artvars, mountvars>>
ServerSpec == ServerInit /\ [][ServerNext]_vars
=============================================================================
