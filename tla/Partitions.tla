------------------------------ MODULE Partitions ------------------------------
(***************************************************************************)
(* Partitions: the partition manager (rmpd-core/src/partition.rs), the     *)
(* partition commands and the output commands (commands/partition.rs,      *)
(* commands/outputs.rs), over AppState.outputs and the engine's outputs.   *)
(*                                                                         *)
(* A partition object outlives its name while a command holds it, so the   *)
(* lists of assigned outputs belong to objects, counted from 1 (default).  *)
(* A step is what a handler does under one lock; moveoutput holds the read *)
(* lock on the outputs until it writes the new owner.                      *)
(***************************************************************************)
EXTENDS Integers, FiniteSets, SequencesExt

CONSTANTS
  Connections,   \* client connections
  Devices,       \* the configured outputs
  Names,         \* names asked for in newpartition
  Default,       \* "default"
  MaxPartitions, \* MAX_PARTITIONS
  MaxCreated,    \* bound: partitions ever created
  NoName         \* nothing found

ASSUME PartitionConstants ==
  /\ Default \notin Names /\ NoName \notin Names \union {Default} /\ NoName \notin Devices
  /\ MaxPartitions \in Nat \ {0} /\ MaxCreated \in Nat \ {0}

VARIABLES
  owner,     \* OutputInfo.partition, per output
  enabled,   \* OutputInfo.enabled, per output
  named,     \* PartitionManager.partitions: name -> object
  order,     \* PartitionManager.order
  assigned,  \* assigned_outputs, per object created
  audible,   \* engine.outputs
  visiting,  \* per connection: current_partition
  doing,     \* per connection: the command under way
  clashed,   \* history: outputs two commands met on
  crossed    \* history: a toggle overtook one that had read what is enabled

partvars == <<owner, enabled, named, order, assigned, audible, visiting, doing, clashed, crossed>>

Idling == [op |-> "idle", dev |-> NoName, rest |-> <<>>, from |-> NoName, dst |-> 0, set |-> {}]
HasPartition(n) == n \in DOMAIN named
AllNamed     == Names \union {Default}

PartitionsInit ==
  /\ owner = [d \in Devices |-> Default]
  /\ enabled = [d \in Devices |-> TRUE]
  /\ named = [n \in {Default} |-> 1] /\ order = <<Default>>
  /\ assigned = <<{}>>
  /\ audible = Devices
  /\ visiting = [c \in Connections |-> Default]
  /\ doing = [c \in Connections |-> Idling]
  /\ clashed = {} /\ crossed = FALSE

PartitionsTypeOK ==
  /\ owner \in [Devices -> AllNamed] /\ enabled \in [Devices -> BOOLEAN]
  /\ DOMAIN named \subseteq AllNamed /\ \A n \in DOMAIN named : named[n] \in DOMAIN assigned
  /\ \A p \in DOMAIN assigned : assigned[p] \subseteq Devices
  /\ audible \subseteq Devices /\ visiting \in [Connections -> AllNamed]
  /\ clashed \subseteq Devices /\ crossed \in BOOLEAN

Undertake(c, cmd) == doing' = [doing EXCEPT ![c] = cmd]
Finish(c)     == doing' = [doing EXCEPT ![c] = Idling]
At(c, op)     == doing[c].op = op

\* moveoutput reads the outputs from its first step until it writes them.
Unread == \A c \in Connections : doing[c].op \notin {"scan", "move", "assign"}

\* The outputs no moveoutput is under way for, and the connections whose toggle is.
Still(d) == \A c \in Connections : doing[c].dev # d
Toggling == {c \in Connections : doing[c].op \in {"reconcile", "engine"}}

\* Nothing is promised of an output once two moves of it overlap, or the partition a move
\* has looked up is deleted before the output is on its list.
Endanger(devices) == clashed' = clashed \union devices /\ UNCHANGED crossed

-----------------------------------------------------------------------------
(* newpartition, delpartition, partition: one write of the manager each.    *)
CreatePartition(c, n) ==
  /\ At(c, "idle") /\ Len(assigned) < MaxCreated
  /\ ~HasPartition(n) /\ Cardinality(DOMAIN named) < MaxPartitions
  /\ assigned' = Append(assigned, {})
  /\ named' = [m \in DOMAIN named \union {n} |-> IF m = n THEN Len(assigned) + 1 ELSE named[m]]
  /\ order' = Append(order, n)
  /\ UNCHANGED <<owner, enabled, audible, visiting, doing, clashed, crossed>>

NamedWithout(n) == [m \in DOMAIN named \ {n} |-> named[m]]

\* Mutant: a partition that still has outputs is deleted.
DeleteAnyPartition(c, n) ==
  /\ At(c, "idle")
  /\ n # Default /\ HasPartition(n)
  /\ named' = NamedWithout(n)
  /\ \E i \in DOMAIN order : order[i] = n /\ order' = RemoveAt(order, i)
  /\ Endanger({doing[e].dev : e \in {x \in Connections : At(x, "assign") /\ doing[x].dst = named[n]}})
  /\ UNCHANGED <<owner, enabled, assigned, audible, visiting, doing>>

\* A connection may stay in a partition that is gone: nobody counts clients.
DeletePartition(c, n) ==
  /\ At(c, "idle")
  /\ n # Default /\ HasPartition(n) /\ assigned[named[n]] = {}
  /\ named' = NamedWithout(n)
  /\ \E i \in DOMAIN order : order[i] = n /\ order' = RemoveAt(order, i)
  /\ Endanger({doing[e].dev : e \in {x \in Connections : At(x, "assign") /\ doing[x].dst = named[n]}})
  /\ UNCHANGED <<owner, enabled, assigned, audible, visiting, doing>>

SwitchPartition(c, n) ==
  /\ At(c, "idle") /\ HasPartition(n)
  /\ visiting' = [visiting EXCEPT ![c] = n]
  /\ UNCHANGED <<owner, enabled, named, order, assigned, audible, doing, clashed, crossed>>

-----------------------------------------------------------------------------
(* moveoutput.                                                              *)
MoveOutput(c, d) ==
  /\ At(c, "idle")
  /\ owner[d] # visiting[c]
  /\ Undertake(c, [Idling EXCEPT !.op = "scan", !.dev = d, !.rest = order])
  /\ Endanger(IF Still(d) THEN {} ELSE {d})
  /\ UNCHANGED <<owner, enabled, named, order, assigned, audible, visiting>>

\* The partitions listed at the start are asked one by one who owns the output.
ScanPartition(c) ==
  /\ At(c, "scan")
  /\ LET m == doing[c]
     IN  IF m.rest = <<>>
         THEN Undertake(c, [m EXCEPT !.op = "move"])
         ELSE LET n     == Head(m.rest)
                  found == HasPartition(n) /\ m.dev \in assigned[named[n]]
              IN  Undertake(c, IF found THEN [m EXCEPT !.op = "move", !.from = n]
                           ELSE [m EXCEPT !.rest = Tail(@)])
  /\ UNCHANGED <<owner, enabled, named, order, assigned, audible, visiting, clashed, crossed>>

\* move_output: both partitions are looked up, then the output leaves its source; an
\* output in no list yet is only assigned.  An error ends the command.
LeaveSource(c) ==
  LET m == doing[c]  to == visiting[c]
  IN
  /\ At(c, "move")
  /\ IF HasPartition(to) /\ (m.from = NoName \/ (HasPartition(m.from) /\ m.dev \in assigned[named[m.from]]))
     THEN /\ assigned' = IF m.from = NoName THEN assigned
                         ELSE [assigned EXCEPT ![named[m.from]] = @ \ {m.dev}]
          /\ Undertake(c, [m EXCEPT !.op = "assign", !.dst = named[to]])
     ELSE Finish(c) /\ UNCHANGED assigned
  /\ UNCHANGED <<owner, enabled, named, order, audible, visiting, clashed, crossed>>

JoinTarget(c) ==
  /\ At(c, "assign")
  /\ assigned' = [assigned EXCEPT ![doing[c].dst] = @ \union {doing[c].dev}]
  /\ Undertake(c, [doing[c] EXCEPT !.op = "own"])
  /\ UNCHANGED <<owner, enabled, named, order, audible, visiting, clashed, crossed>>

WriteOwner(c) ==
  /\ At(c, "own") /\ Unread
  /\ owner' = [owner EXCEPT ![doing[c].dev] = visiting[c]]
  /\ Finish(c)
  /\ UNCHANGED <<enabled, named, order, assigned, audible, visiting, clashed, crossed>>

-----------------------------------------------------------------------------
(* enableoutput, disableoutput, toggleoutput; then reconcile_active_output. *)
\* Mutant: disabling an output does not reconcile the engine.
SetEnabledQuietly(c, d, on) ==
  /\ At(c, "idle") /\ Unread
  /\ owner[d] = visiting[c]
  /\ enabled' = [enabled EXCEPT ![d] = on]
  /\ IF on THEN Undertake(c, [Idling EXCEPT !.op = "reconcile"]) ELSE UNCHANGED doing
  /\ crossed' = (Toggling # {} /\ (crossed \/ \E e \in Connections : At(e, "engine")))
  /\ UNCHANGED <<owner, named, order, assigned, audible, visiting, clashed>>

SetEnabled(c, d, on) ==
  /\ At(c, "idle") /\ Unread
  /\ owner[d] = visiting[c]
  /\ enabled' = [enabled EXCEPT ![d] = on]
  /\ Undertake(c, [Idling EXCEPT !.op = "reconcile"])
  /\ crossed' = (Toggling # {} /\ (crossed \/ \E e \in Connections : At(e, "engine")))
  /\ UNCHANGED <<owner, named, order, assigned, audible, visiting, clashed>>

ReadEnabled(c) ==
  /\ At(c, "reconcile")
  /\ Undertake(c, [Idling EXCEPT !.op = "engine", !.set = {d \in Devices : enabled[d]}])
  /\ UNCHANGED <<owner, enabled, named, order, assigned, audible, visiting, clashed, crossed>>

\* With nothing enabled the engine is stopped, and keeps its outputs.
TellEngine(c) ==
  /\ At(c, "engine")
  /\ audible' = IF doing[c].set = {} THEN audible ELSE doing[c].set
  /\ Finish(c)
  /\ UNCHANGED <<owner, enabled, named, order, assigned, visiting, clashed, crossed>>

-----------------------------------------------------------------------------
PartitionsNext ==
  \E c \in Connections :
    \/ \E n \in Names : CreatePartition(c, n) \/ DeletePartition(c, n)
    \/ \E n \in AllNamed : SwitchPartition(c, n)
    \/ \E d \in Devices : MoveOutput(c, d) \/ \E on \in BOOLEAN : SetEnabled(c, d, on)
    \/ ScanPartition(c) \/ LeaveSource(c) \/ JoinTarget(c) \/ WriteOwner(c)
    \/ ReadEnabled(c) \/ TellEngine(c)

PartitionsSpec == PartitionsInit /\ [][PartitionsNext]_partvars

-----------------------------------------------------------------------------
Owners(d) == {n \in DOMAIN named : d \in assigned[named[n]]}

\* Whatever is created, deleted and moved: an output belongs to one partition.  It is on
\* at most one list, and between moves the partition it is shown in exists and is the one
\* whose list it is on, unless commands met on it; the names are listed once each.
OutputsOwned ==
  /\ \A d \in Devices \ clashed :
       /\ Cardinality(Owners(d)) <= 1
       /\ Still(d) => HasPartition(owner[d]) /\ Owners(d) \subseteq {owner[d]}
  /\ ToSet(order) = DOMAIN named /\ Len(order) = Cardinality(DOMAIN named)

\* Once the toggles are answered the engine plays to the enabled outputs, if any, unless
\* one overtook another; the next that runs alone repairs that.
EngineFollows ==
  Toggling = {} /\ ~crossed =>
    LET on == {d \in Devices : enabled[d]} IN on # {} => audible = on

\* The outputs of the clients' partitions and the outputs that play, any of the clients
\* moving and toggling at once: none is owned by two partitions or by one that is gone,
\* and the engine plays to those that are enabled.  Excepted are the races of the code.
OutputsFollow == OutputsOwned /\ EngineFollows
=============================================================================
