------------------------------ MODULE Stickers ------------------------------
(***************************************************************************)
(* Stickers: numbers clients keep beside songs                             *)
(* (rmpd-protocol/src/commands/stickers.rs, database.rs get_sticker to     *)
(* find_stickers).                                                         *)
(*                                                                         *)
(* A command is a few SQL statements on a connection of its own, so two    *)
(* clients interleave between them, and then an event.  A value is a       *)
(* number in the width of i32, or a word.  A library job may take the song *)
(* away; its stickers stay.                                                *)
(***************************************************************************)
EXTENDS Integers, FiniteSets

CONSTANTS
  StickerClients,
  StickerSongs,  \* the songs of the library at first
  StickerNames,  \* sticker names
  AllNames,      \* delete without a name: all of the song's
  Word,          \* a value that is no number
  Absent,        \* no sticker
  Deltas,        \* what inc and dec are asked to add
  MaxI32,        \* the width: values are -MaxI32 - 1 .. MaxI32
  Wraps,         \* does arithmetic wrap, as a release build has it, or panic
  MaxWrites      \* bound: commands begun

ASSUME StickersConstants ==
  /\ AllNames \notin StickerNames /\ Wraps \in BOOLEAN
  /\ MaxI32 \in Nat /\ MaxWrites \in Nat /\ Deltas \subseteq -MaxI32 - 1 .. MaxI32

VARIABLES
  kept,     \* <<song, name>> -> value
  library,  \* songs in the library
  request,  \* client -> the command under way
  unseen,   \* history: the client changed a sticker and has not emitted yet
  told,     \* history: no change since the last event, save those of clients yet to emit
  begun

stickervars == <<kept, library, request, unseen, told, begun>>

Numbers    == -MaxI32 - 1 .. MaxI32
NoRequest  == [op |-> "none", at |-> "idle", song |-> "", name |-> AllNames, value |-> 0, read |-> 0]

StickersInit ==
  /\ kept = [k \in StickerSongs \X StickerNames |-> Absent] /\ library = StickerSongs
  /\ request = [c \in StickerClients |-> NoRequest]
  /\ unseen = [c \in StickerClients |-> FALSE] /\ told = TRUE /\ begun = 0

\* The arithmetic of i32: the sum in its width, or none.
Sum(a, b) ==
  IF a + b \in Numbers THEN {a + b}
  ELSE IF Wraps THEN {((a + b + MaxI32 + 1) % (2 * MaxI32 + 2)) - MaxI32 - 1} ELSE {}

\* get_sticker_i32: what is no number counts as 0.
AsNumber(v) == IF v \in {Word, Absent} THEN 0 ELSE v

BeginSticker(c, op, song, name, value) ==
  /\ request[c].at = "idle" /\ begun < MaxWrites
  /\ request' = [request EXCEPT ![c] = [NoRequest EXCEPT
                   !.op = op, !.at = "check", !.song = song, !.name = name, !.value = value]]
  /\ begun' = begun + 1
  /\ UNCHANGED <<kept, library, unseen, told>>

Now(c, at) == request' = [request EXCEPT ![c].at = at]
Done(c)    == request' = [request EXCEPT ![c] = NoRequest]

\* require_song.
RequireSong(c) ==
  LET r == request[c]
  IN  /\ r.at = "check"
      /\ IF r.song \notin library THEN Done(c)
         ELSE Now(c, IF r.op = "set" \/ (r.op = "delete" /\ r.name = AllNames) THEN "write" ELSE "read")
      /\ UNCHANGED <<kept, library, unseen, told, begun>>

\* inc and dec read the value they add to; delete of one sticker looks whether it is there.
GetSticker(c) ==
  LET r == request[c]
      v == kept[<<r.song, r.name>>]
  IN  /\ r.at = "read"
      /\ IF r.op = "delete"
         THEN IF v = Absent THEN Done(c) ELSE Now(c, "write")
         ELSE LET sums == Sum(AsNumber(v), r.value)
              IN  IF sums = {} THEN Done(c)          \* the task panics: internal error
                  ELSE \E n \in sums : request' = [request EXCEPT ![c].at = "write", ![c].read = n]
      /\ UNCHANGED <<kept, library, unseen, told, begun>>

\* The statement that writes; faults leave the table alone.
Written(r) ==
  CASE r.op = "set"   -> [kept EXCEPT ![<<r.song, r.name>>] = r.value]
    [] r.op = "add"   -> [kept EXCEPT ![<<r.song, r.name>>] = r.read]
    [] OTHER          -> [k \in DOMAIN kept |->
                            IF k[1] = r.song /\ r.name \in {AllNames, k[2]} THEN Absent ELSE kept[k]]

WriteSticker(c) ==
  /\ request[c].at = "write"
  /\ \/ /\ kept' = Written(request[c]) /\ Now(c, "notify")
        /\ unseen' = [unseen EXCEPT ![c] = TRUE]
        /\ told' = (told /\ kept' = kept)
     \/ Done(c) /\ UNCHANGED <<kept, unseen, told>>
  /\ UNCHANGED <<library, begun>>

\* Mutant: an event is sent only of set.
NotifyOfSet(c) ==
  /\ request[c].at = "notify" /\ Done(c)
  /\ unseen' = [unseen EXCEPT ![c] = FALSE]
  /\ told' = (told \/ request[c].op = "set")
  /\ UNCHANGED <<kept, library, begun>>

\* notify_sticker_changed.
Notify(c) ==
  /\ request[c].at = "notify" /\ Done(c)
  /\ unseen' = [unseen EXCEPT ![c] = FALSE]
  /\ told' = TRUE
  /\ UNCHANGED <<kept, library, begun>>

ForgetSong(s) ==
  /\ s \in library /\ library' = library \ {s}
  /\ UNCHANGED <<kept, request, unseen, told, begun>>

StickersNext ==
  \/ \E c \in StickerClients, s \in StickerSongs, n \in StickerNames :
       \/ \E v \in Deltas : BeginSticker(c, "add", s, n, v)
       \/ BeginSticker(c, "set", s, n, Word)
  \/ \E c \in StickerClients, s \in StickerSongs, n \in StickerNames \union {AllNames} :
       BeginSticker(c, "delete", s, n, 0)
  \/ \E c \in StickerClients : RequireSong(c) \/ GetSticker(c) \/ WriteSticker(c) \/ Notify(c)
  \/ \E s \in StickerSongs : ForgetSong(s)

StickersSpec == StickersInit /\ [][StickersNext]_stickervars

-----------------------------------------------------------------------------
StickersTypeOK ==
  /\ kept \in [StickerSongs \X StickerNames -> Numbers \union {Word, Absent}]
  /\ library \subseteq StickerSongs
  /\ \A c \in StickerClients : request[c].at \in {"idle", "check", "read", "write", "notify"}

\* Clients that idle on sticker hear of every change: when one is not told of yet, the
\* command that made it, or another, has its event still to send.
StickersTold == told \/ \E c \in StickerClients : unseen[c]
=============================================================================
