-------------------------------- MODULE Locks --------------------------------
(***************************************************************************)
(* The order in which handlers take the locks of AppState                  *)
(* (rmpd-protocol/src/state.rs) and of the partition manager.              *)
(*                                                                         *)
(* A handler is its way through the locks, a route: what it does under them*)
(* is for the other modules.  Where a handler branches it has several      *)
(* routes; a return that only cuts one short, with all dropped, makes      *)
(* nobody wait for more and is left out.  A guard that is a temporary lasts*)
(* to the end of its statement, and in the scrutinee of a match to the end *)
(* of the match: so the engine is held while the arm takes status and queue.*)
(*                                                                         *)
(* tokio's RwLock is fair: who asks waits in line behind all that asked     *)
(* before, a reader behind a writer that waits itself.                      *)
(***************************************************************************)
EXTENDS Naturals, Sequences

ToRead(l)   == [op |-> "read", lock |-> l]
ToWrite(l)  == [op |-> "write", lock |-> l]
Drop(l)   == [op |-> "drop", lock |-> l]
Reads(l)  == <<ToRead(l), Drop(l)>>     \* a guard for a statement
Writes(l) == <<ToWrite(l), Drop(l)>>
Within(guard, body) == <<guard>> \o body \o <<Drop(guard.lock)>>
Then(first, S)      == {first \o r : r \in S}

\* The order that most of the code keeps to.  assigned is the list of outputs of
\* any partition: nobody holds two of these.
Rank == [engine |-> 1, status |-> 2, queue |-> 3, title |-> 4, outputs |-> 5,
         partitions |-> 6, assigned |-> 7, order |-> 8]
Names == DOMAIN Rank

Steps == [op : {"read", "write", "drop"}, lock : Names]

-----------------------------------------------------------------------------
(* Stretches that several handlers share.                                   *)

\* Status, and the queue by it: its new length, or the song that follows.
\* Mutant: the queue first.
NewVersionSwapped == Within(ToRead("queue"), Writes("status"))
NewVersion == Within(ToWrite("status"), Reads("queue"))
Consume == Writes("queue") \o NewVersion

\* engine.play, then status with the song; without a position nothing follows it.
Record  == Within(ToWrite("engine"), NewVersion)
Enter   == Within(ToWrite("engine"), Writes("status"))
Playing == {Record, Writes("engine")}                  \* or engine.play fails
Sought  == Within(ToRead("engine"), Writes("status"))

-----------------------------------------------------------------------------
(* The handlers' routes.                                                    *)

PlayAt == {Reads("queue")} \union Then(Reads("queue"), Playing)

\* What there is to resume is asked with the queue in hand.
PlayBare ==
  Then(Within(ToRead("queue"), Reads("engine") \o Reads("status")), Playing \union {Enter})
    \union Then(Within(ToRead("queue"), Reads("engine")), Playing \union {<<>>})

\* next and previous: no current song; none beside it; it is played.
Looked == <<ToRead("queue"), ToRead("status"), Drop("queue"), Drop("status")>>
Skip   == {Within(ToRead("queue"), Reads("status")), Looked} \union Then(Looked, Playing)

Pause == {Writes("engine") \o Writes("status"), Writes("engine")}
Stop  == {Within(ToWrite("engine"), Writes("status") \o Writes("status"))}

Seek    == Then(Reads("queue") \o Reads("status"), PlayAt \union {Sought})
SeekId  == Then(Within(ToRead("queue"), Reads("status")), PlayAt \union {Sought})
SeekCur == Then(Reads("status"), {Sought, Reads("engine")})
Volume  == {Reads("status") \o Enter, Enter}
Option  == {Writes("status"), Writes("status") \o Writes("engine")}

\* A look at length, id or current song; the change; the new version.  Handlers
\* that look or change more than once repeat such stretches.
Edit ==
  {Reads("queue"), Reads("status"), Consume} \union Then(Reads("queue") \o Reads("status"), {<<>>, Consume})
ClearAll == {Writes("queue") \o Writes("engine") \o NewVersion \o Writes("status")}

Status      == {Writes("status") \o Reads("queue")}
CurrentSong == {Within(ToRead("status"), Within(ToRead("queue"), Reads("title")))}
Save        == {Within(ToRead("status"), Within(ToRead("queue"), Reads("outputs")))}

Toggle == {Writes("outputs") \o Reads("outputs") \o Writes("engine"), Writes("outputs")}

Found == Reads("order") \o Reads("partitions") \o Reads("assigned")
Moved == Reads("partitions") \o Writes("assigned") \o Writes("assigned")
MoveOutput   == {Within(ToRead("outputs"), Found \o Moved) \o Writes("outputs")}
NewPartition == {Within(ToWrite("partitions"), Writes("order"))}
DelPartition == {Within(ToWrite("partitions"), Reads("assigned") \o Writes("order"))}

\* The manager, without and with consume.  With single it asks for the engine
\* while it holds it, which is for Playback.
Over == <<ToRead("status"), ToRead("queue"), Drop("status"), Drop("queue")>>
Finished ==
  {Over \o Writes("engine") \o Writes("status") \o Writes("status")}
    \union Then(Over, {<<>>, Enter, Writes("engine")})
FinishedConsuming == Then(Over \o Consume, {<<>>, Enter, Writes("engine")})
Following         == Reads("status") \o Reads("queue") \o Reads("queue")
Advanced          == {Following \o Writes("status")}
AdvancedConsuming == {Following \o Consume \o Writes("status")}
Feed  == {Reads("status") \o Reads("queue") \o Reads("engine"), Reads("status") \o Reads("engine")}
Title == Then(Writes("title"), Feed)

Routes ==
  [playat |-> PlayAt, play |-> PlayBare, skip |-> Skip, pause |-> Pause, stop |-> Stop, seek |-> Seek,
   seekid |-> SeekId, seekcur |-> SeekCur, volume |-> Volume, option |-> Option, edit |-> Edit,
   clear |-> ClearAll, status |-> Status, currentsong |-> CurrentSong, save |-> Save, toggle |-> Toggle,
   moveoutput |-> MoveOutput, newpartition |-> NewPartition, delpartition |-> DelPartition,
   finished |-> Finished, consumed |-> FinishedConsuming, advanced |-> Advanced,
   advancedconsuming |-> AdvancedConsuming, feed |-> Feed, title |-> Title]
Commands == DOMAIN Routes

-----------------------------------------------------------------------------
CONSTANTS
  Tasks,  \* connections, the manager, the task that saves at the end
  Mixes   \* which commands each task runs: functions from Tasks to sets of Commands

ASSUME LocksConstants == Mixes \subseteq [Tasks -> SUBSET Commands]

VARIABLES
  mix,    \* the one this behaviour is about
  route,  \* task -> the route it is on
  at,     \* task -> its place on it
  line    \* lock -> who waits for it, first come first

lockvars == <<mix, route, at, line>>

Busy(t)     == at[t] <= Len(route[t])
Now(t)      == route[t][at[t]]
Waits(t, l) == \E i \in DOMAIN line[l] : line[l][i] = t

\* Taken at i and not dropped before place n of route r.
HeldFrom(r, n, i, l) ==
  /\ r[i].lock = l /\ r[i].op # "drop"
  /\ \A j \in (i + 1)..(n - 1) : r[j] # Drop(l)
Held(r, n, l)       == \E i \in 1..(n - 1) : HeldFrom(r, n, i, l)
HeldWriting(r, n, l) == \E i \in 1..(n - 1) : HeldFrom(r, n, i, l) /\ r[i].op = "write"

\* t does not get along with what u holds of the lock t is about to take.
Bars(u, t) ==
  LET l == Now(t).lock
  IN  IF Now(t).op = "write" THEN Held(route[u], at[u], l) ELSE HeldWriting(route[u], at[u], l)

LocksInit ==
  /\ mix \in Mixes
  /\ route = [t \in Tasks |-> <<>>] /\ at = [t \in Tasks |-> 1]
  /\ line = [l \in Names |-> <<>>]

Begin(t) ==
  /\ ~Busy(t)
  /\ \E c \in mix[t] : \E r \in Routes[c] : route' = [route EXCEPT ![t] = r]
  /\ at' = [at EXCEPT ![t] = 1]
  /\ UNCHANGED <<mix, line>>

Ask(t) ==
  /\ Busy(t) /\ Now(t).op # "drop" /\ ~Waits(t, Now(t).lock)
  /\ line' = [line EXCEPT ![Now(t).lock] = Append(@, t)]
  /\ UNCHANGED <<mix, route, at>>

Grant(t) ==
  /\ Busy(t) /\ Now(t).op # "drop"
  /\ LET l == Now(t).lock
     IN  /\ line[l] # <<>> /\ Head(line[l]) = t
         /\ line' = [line EXCEPT ![l] = Tail(@)]
  /\ \A u \in Tasks : ~Bars(u, t)
  /\ at' = [at EXCEPT ![t] = @ + 1]
  /\ UNCHANGED <<mix, route>>

Release(t) ==
  /\ Busy(t) /\ Now(t).op = "drop"
  /\ at' = [at EXCEPT ![t] = @ + 1]
  /\ UNCHANGED <<mix, route, line>>

Step(t) == Ask(t) \/ Grant(t) \/ Release(t)

LocksNext == \E t \in Tasks : Begin(t) \/ Step(t)

LocksSpec == LocksInit /\ [][LocksNext]_lockvars

-----------------------------------------------------------------------------
\* t cannot go on before u has: u holds what t asked for, or asked for it before.
WaitsFor(t, u) ==
  /\ Busy(t) /\ Now(t).op # "drop" /\ Waits(t, Now(t).lock)
  /\ \/ Bars(u, t)
     \/ LET q == line[Now(t).lock] IN \E i, j \in DOMAIN q : i < j /\ q[i] = u /\ q[j] = t

\* Whatever the handlers' locks, no set of tasks waits for each other: in every
\* set there is one that waits for nobody of the set.
NoWaitCycle ==
  \A T \in (SUBSET Tasks) \ {{}} : \E t \in T : \A u \in T : ~WaitsFor(t, u)

\* What it rests on.  A handler on its way up the order never closes a cycle;
\* nor does one that is not, if nobody writes the lock it should not ask for: readers
\* among themselves never wait.
Written(m) == {l \in Names : \E t \in Tasks : \E c \in m[t] : \E r \in Routes[c] : \E i \in DOMAIN r : r[i] = ToWrite(l)}
Climbs(r, W) ==
  \A n \in DOMAIN r : (r[n].op # "drop" /\ r[n].lock \in W) =>
    \A l \in W : Held(r, n, l) => Rank[l] < Rank[r[n].lock]
Disciplined == \A m \in Mixes : \A t \in Tasks : \A c \in m[t] : \A r \in Routes[c] : Climbs(r, Written(m))

\* The handlers that keep to the order, and those that let the queue be: of every mix
\* all keep to the order, or nobody writes the queue.
Orderly  == Commands \ {"play", "skip", "seekid"}
Harmless == Commands \ {"edit", "clear", "consumed", "advancedconsuming"}
Separate ==
  \A m \in Mixes : (\A t \in Tasks : m[t] \subseteq Orderly) \/ (\A t \in Tasks : m[t] \subseteq Harmless)
=============
