------------------------------ MODULE Snapshot ------------------------------
(***************************************************************************)
(* What the state file promises across restarts: it holds the session as   *)
(* it was when it was last saved, whole, and a start reads what it holds.  *)
(* A crash loses what was not saved and nothing else.  Only where two saves *)
(* overlap, of a signal and of the main task, may the file hold neither.   *)
(***************************************************************************)

CONSTANTS
  Disabled, \* sets of disabled outputs
  Savers,
  Blank     \* what a file without a line is read as

VARIABLES
  session, \* what is worth saving of status and queue
  stored,  \* what a start would read: a session and disabled outputs
  read,    \* what the last start did read
  saving,  \* the savers at work
  met      \* two savers have been at work at once since the start

snapvars == <<session, stored, read, saving, met>>

Saved(s) == [session : {s}, disabled : Disabled]

Init == stored = Blank /\ read = Blank /\ saving = {} /\ met = FALSE

\* Clients change the session as they like, but not during a save.
Work == saving = {} /\ UNCHANGED <<stored, read, saving, met>>

Begin(s) ==
  /\ saving' = saving \union {s} /\ met' = (met \/ saving # {})
  /\ UNCHANGED <<session, stored, read>>
End(s) == saving' = saving \ {s} /\ UNCHANGED <<session, stored, read, met>>
Crash  == saving' = {} /\ UNCHANGED <<session, stored, read, met>>

Keep == saving # {} /\ stored' \in Saved(session) /\ UNCHANGED <<session, read, saving, met>>
Tear == saving # {} /\ met /\ stored' = Blank /\ UNCHANGED <<session, read, saving, met>>

\* A start: the session is another.
Restart == saving = {} /\ read' = stored /\ met' = FALSE /\ UNCHANGED <<stored, saving>>

Next ==
  \/ Work \/ Keep \/ Tear \/ Crash \/ Restart
  \/ \E s \in Savers : Begin(s) \/ End(s)

Spec == Init /\ [][Next]_snapvars
=============================================================================
