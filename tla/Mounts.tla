-------------------------------- MODULE Mounts --------------------------------
(***************************************************************************)
(* Mounts: mount, unmount and listmounts (rmpd-protocol/src/commands/      *)
(* storage.rs) over the MountRegistry (rmpd-core/src/storage.rs).          *)
(*                                                                         *)
(* A command asks the registry, then has the system mount or unmount in a  *)
(* blocking task, then writes the registry; commands of other clients come *)
(* between.  The system is external: a second mount on a path covers the   *)
(* first, an unmount takes the last one off, either may fail.  Names of    *)
(* mount points are good ones, and a music directory is configured.        *)
(***************************************************************************)
EXTENDS Integers, Sequences

CONSTANTS
  Mounters,  \* connections
  Points,    \* mount points
  Shares,    \* what may be mounted: URIs
  NoShare,   \* nothing
  MaxMounts  \* bound: commands begun

ASSUME MountsConstants == NoShare \notin Shares /\ "none" \notin Points /\ MaxMounts \in Nat

VARIABLES
  actual,    \* ~disable_actual_mount
  registry,  \* MountRegistry.mounts: point -> its share, and whether it says mounted
  mounted,   \* the system: per point the shares mounted there, the last on top
  handler,   \* per connection: the command and where it is
  tries,     \* commands begun
  orderly    \* history, per point: no two commands at once, no unmount failed

mountvars == <<actual, registry, mounted, handler, tries, orderly>>

Unasking == [at |-> "none", point |-> "none", share |-> NoShare]
Vacant   == [share |-> NoShare, mounted |-> FALSE]

MountsTypeOK ==
  /\ actual \in BOOLEAN
  /\ registry \in [Points -> [share : Shares \union {NoShare}, mounted : BOOLEAN]]
  /\ mounted \in [Points -> Seq(Shares)]
  /\ \A h \in Mounters : handler[h].at \in {"none", "mount", "register", "unmount", "remove"}
  /\ tries \in 0 .. MaxMounts /\ orderly \in [Points -> BOOLEAN]

MountsInit ==
  /\ actual \in BOOLEAN
  /\ registry = [p \in Points |-> Vacant]
  /\ mounted = [p \in Points |-> <<>>]
  /\ handler = [h \in Mounters |-> Unasking]
  /\ tries = 0 /\ orderly = [p \in Points |-> TRUE]

-----------------------------------------------------------------------------
Registered(p) == registry[p].share # NoShare

\* A command on p begins, and goes on at a step of its own or is over.
Begin(h, at, p, share) ==
  /\ handler[h] = Unasking /\ tries < MaxMounts
  /\ tries' = tries + 1
  /\ handler' = [handler EXCEPT ![h] = [at |-> at, point |-> p, share |-> share]]
  /\ orderly' = [orderly EXCEPT ![p] = @ /\ \A g \in Mounters : handler[g].point # p]

Over(h)    == handler' = [handler EXCEPT ![h] = Unasking]
GoOn(h, at) == handler' = [handler EXCEPT ![h].at = at]

\* Mutant: a mount point that is mounted may be mounted again.
MountCheckFree(h, p, share) ==
  /\ Begin(h, IF actual THEN "mount" ELSE "register", p, share)
  /\ UNCHANGED <<actual, registry, mounted>>

\* is_mounted: a registered point that was never mounted is not busy.
MountCheck(h, p, share) ==
  /\ ~registry[p].mounted
  /\ Begin(h, IF actual THEN "mount" ELSE "register", p, share)
  /\ UNCHANGED <<actual, registry, mounted>>

\* create_dir_all and the system's mount, either of which may fail.
SystemMount(h) ==
  /\ handler[h].at = "mount"
  /\ \/ /\ mounted' = [mounted EXCEPT ![handler[h].point] = Append(@, handler[h].share)]
        /\ GoOn(h, "register")
     \/ Over(h) /\ UNCHANGED mounted
  /\ UNCHANGED <<actual, registry, tries, orderly>>

\* register and register_mounted: refused when the point is there already.
Register(h) ==
  LET p == handler[h].point
  IN  /\ handler[h].at = "register"
      /\ registry' = IF Registered(p) THEN registry
                     ELSE [registry EXCEPT ![p] = [share |-> handler[h].share, mounted |-> actual]]
      /\ Over(h)
      /\ UNCHANGED <<actual, mounted, tries, orderly>>

\* get: the point must be registered.
UnmountCheck(h, p) ==
  /\ Registered(p)
  /\ Begin(h, IF actual THEN "unmount" ELSE "remove", p, NoShare)
  /\ UNCHANGED <<actual, registry, mounted>>

\* Mutant: the row goes, the mount stays.
SystemUnmountNot(h) ==
  /\ handler[h].at = "unmount"
  /\ GoOn(h, "remove")
  /\ UNCHANGED <<actual, registry, mounted, tries, orderly>>

\* The system's unmount.  The row goes also when it failed.
SystemUnmount(h) ==
  LET p == handler[h].point
  IN  /\ handler[h].at = "unmount"
      /\ \/ /\ mounted[p] # <<>>
            /\ mounted' = [mounted EXCEPT ![p] = SubSeq(@, 1, Len(@) - 1)]
            /\ UNCHANGED orderly
         \/ orderly' = [orderly EXCEPT ![p] = FALSE] /\ UNCHANGED mounted
      /\ GoOn(h, "remove")
      /\ UNCHANGED <<actual, registry, tries>>

Unregister(h) ==
  /\ handler[h].at = "remove"
  /\ registry' = [registry EXCEPT ![handler[h].point] = Vacant]
  /\ Over(h)
  /\ UNCHANGED <<actual, mounted, tries, orderly>>

MountsNext ==
  \E h \in Mounters :
    \/ \E p \in Points, share \in Shares : MountCheck(h, p, share)
    \/ \E p \in Points : UnmountCheck(h, p)
    \/ SystemMount(h) \/ Register(h) \/ SystemUnmount(h) \/ Unregister(h)

MountsSpec == MountsInit /\ [][MountsNext]_mountvars

-----------------------------------------------------------------------------
\* Once no command is under way listmounts shows what is mounted, point by point, if
\* no two commands were ever on the point at once and no unmount of it failed.
MountsListed ==
  \A p \in Points :
    actual /\ orderly[p] /\ (\A h \in Mounters : handler[h].point # p) =>
      mounted[p] = IF Registered(p) THEN <<registry[p].share>> ELSE <<>>
=============================================================================
