------------------------------ MODULE MCShared ------------------------------
(* What the connections share, for TLC: the queue's methods, the broker    *)
(* with the event bus, and the locks of AppState.  No two of them have a   *)
(* variable in common, so each behaviour is one of them, chosen at the     *)
(* start.                                                                  *)
EXTENDS Queue, Messaging, Locks, TLC

CONSTANTS Parts, \* the components this run is about
          s1, s2, r1, t1, v1, v2, pl, ch1, x1, a, b, c1, c2, c3

VARIABLE part

\* Queue.
MCSongs  == {s1, s2}
MCPrios  == {0, 1}
MCRanges == {r1}
MCTags   == {t1}
MCValues == {v1, v2}
MCNames  == {pl}

\* Messaging: every idle of a client watches the same thing.
MCChannels   == {ch1}
MCTexts      == {x1}
MCConns      == {a, b}
MCSubsystems == {"message", "subscription", "player"}
MCSteady     == (a :> {{"message"}}) @@ (b :> {{}})

\* Locks: three tasks and what each runs.
MCTasks == {c1, c2, c3}
Mix(k1, k2, k3) == (c1 :> k1) @@ (c2 :> k2) @@ (c3 :> k3)

\* By the order: two connections and the manager, or the task that saves.
InOrder ==
  {Mix({"playat"}, {"edit"}, {"status"}),
   Mix({"stop"}, {"edit"}, {"advancedconsuming"}),
   Mix({"stop"}, {"clear"}, {"consumed"}),
   Mix({"clear"}, {"edit"}, {"save"}),
   Mix({"currentsong"}, {"volume"}, {"title"}),
   Mix({"seek"}, {"stop"}, {"feed"}),
   Mix({"seekcur"}, {"pause"}, {"finished"}),
   Mix({"moveoutput"}, {"toggle"}, {"option"}),
   Mix({"moveoutput"}, {"delpartition"}, {"newpartition"})}
\* What is not by the order, while nobody changes the queue.
Listening ==
  {Mix({"play"}, {"stop"}, {"status"}),
   Mix({"skip"}, {"stop"}, {"status"}),
   Mix({"seekid"}, {"option"}, {"advanced"})}
MCMixes == InOrder \union Listening

\* Three connections: one skips, two edit.
MCSkipping == {Mix({"skip"}, {"edit"}, {"edit"})}

-----------------------------------------------------------------------------
sharedvars == <<part, queue, vars, lockvars>>

\* A component that does not run keeps one of its initial states.
SharedInit ==
  /\ part \in Parts
  /\ QueueInit
  /\ Init
  /\ LocksInit /\ (part # "locks" => mix = CHOOSE m \in Mixes : TRUE)

SharedNext ==
  \/ part = "queue" /\ QueueNext /\ UNCHANGED <<part, vars, lockvars>>
  \/ part = "messaging" /\ Next /\ UNCHANGED <<part, queue, lockvars>>
  \/ part = "locks" /\ LocksNext /\ UNCHANGED <<part, queue, vars>>

\* Messaging's fairness, while it is the one that runs.
SharedFairness ==
  \A c \in Conns : /\ WF_vars(part = "messaging" /\ Emit(c))
                   /\ WF_vars(part = "messaging" /\ Idling(c))

SharedSpec == SharedInit /\ [][SharedNext]_sharedvars
FairShared == SharedSpec /\ SharedFairness
=============================================================================
