----------------------------- MODULE PlaybackProofs -----------------------------
(***************************************************************************)
(* Proofs about Playback: that the shared state keeps its types, that an   *)
(* engine without a song is silent, that what goes on record as current is *)
(* what the engine plays, and that the look-ahead is fed again after every *)
(* change of song, for any number of connections, any queue and any        *)
(* interleaving of commands, events and the playback thread.               *)
(***************************************************************************)
EXTENDS Playback, TLAPS

States  == {"stop", "play", "pause"}
Events  == {"changed", "position", "finished", "advanced"}
NatOr   == Nat \union {None}
Place   == [position : Nat, id : Nat]
Options == [repeat : BOOLEAN, random : BOOLEAN, single : Modes, consume : Modes]
Status  == [state : States, current : Place \union {None}, next : Place \union {None},
            repeat : BOOLEAN, random : BOOLEAN, single : Modes, consume : Modes]
Thread  == [st : {"none", "opening", "looping", "decoding"}, id : NatOr, limited : BOOLEAN]
Local   == [pos : NatOr, to : NatOr \union States, id : NatOr, limited : BOOLEAN,
            opts : Options \union {None}]

\* Where a connection and the manager can be.
Ops           == {"playat", "playid", "resume", "next", "previous", "stop", "clear", "pause",
                  "set", "delete"}
ClientLabels  == Ops \union {"idle", "position", "setpause", "load", "sync", "play", "join",
                             "record", "tell", "joinstop", "stopped", "forget"}
ManagerLabels == Events \union {"idle", "consume", "play", "join", "record", "tell", "stop",
                                "joinstop", "stopped", "forget", "where", "which",
                                "consumeadvanced", "advance", "telladvanced", "ahead", "feed"}

Types ==
  /\ workload \in Workloads /\ queue \in Seq(Nat) /\ status \in Status
  /\ owner \in Procs \union {Nobody} /\ song \in NatOr /\ next_song \in NatOr
  /\ atomic \in States /\ stop_flag \in BOOLEAN /\ thread \in Thread /\ inbox \in Seq(Events)
  /\ pc \in [Procs -> ClientLabels \union ManagerLabels]
  /\ \A c \in Clients : pc[c] \in ClientLabels
  /\ pc[Manager] \in ManagerLabels
  /\ loc \in [Procs -> Local]
  /\ cmd \in [Procs -> Commands \union {[op |-> "none"]}]

\* What a connection has found out on its way to engine.play, and at which command
\* it is.
OnItsWay(c) ==
  /\ pc[c] # "idle" => cmd[c].op \in Ops
  /\ pc[c] \in Ops \ {"stop"} => cmd[c].op = pc[c]
  /\ pc[c] \in {"playat", "playid", "resume", "next", "previous", "position"} => loc[c].to = None
  /\ pc[c] = "position" => cmd[c].op = "resume" /\ loc[c].id \in Nat
  /\ pc[c] \in {"play", "join", "record"} =>
       /\ loc[c].id \in Nat /\ loc[c].to \in NatOr
       /\ cmd[c].op # "resume" => loc[c].to = None /\ loc[c].pos \in Nat
  /\ pc[c] \in {"setpause", "load", "sync"} => cmd[c].op = "pause"
  /\ pc[c] \in {"stop", "joinstop", "stopped", "forget"} => cmd[c].op \in {"stop", "clear"}
  /\ pc[c] = "sync" => loc[c].to \in States

\* What the manager has found out on its way.
ManagerOnItsWay ==
  LET l == loc[Manager]
  IN  /\ cmd[Manager].op = "none"
      /\ pc[Manager] \in {"consume", "play", "join", "record", "tell", "which", "consumeadvanced",
                          "advance", "telladvanced"} =>
           l.pos \in Nat /\ l.opts \in Options /\ l.to \in Nat
      /\ pc[Manager] \in {"consume", "play", "join", "record", "consumeadvanced", "advance"} =>
           l.id \in Nat
      /\ pc[Manager] \in {"where", "ahead"} => l.pos \in Nat /\ l.opts \in Options

Shape == Types /\ (\A c \in Clients : OnItsWay(c)) /\ ManagerOnItsWay

\* The engine's guard: who joins a thread or records a song holds it.
Guarded == \A p \in Procs : pc[p] \in {"join", "joinstop", "record", "tell"} => owner = p

\* Until it is recorded the engine's song is the one that was started, and none follows.
Unrecorded == \A p \in Procs : pc[p] = "record" => song = loc[p].id /\ next_song = None

\* An engine without a song has no thread, and no state but Stop.
Silent == song = None => ~Live /\ atomic = "stop"

PlaybackInv == Shape /\ Guarded /\ Unrecorded /\ Silent

-----------------------------------------------------------------------------
\* Connections only start, stop and pause, and nothing fails.
Plainly ==
  /\ ~workload.failures
  /\ \A c \in Clients : \A k \in workload.requests[c] :
       k.op \in {"playat", "playid", "resume", "pause", "stop"}

\* A change that the manager has yet to hear of, or has heard of and not yet begun to
\* feed the look-ahead for.
Pending ==
  \/ \E i \in DOMAIN inbox : inbox[i] \in {"changed", "advanced"}
  \/ \E c \in Clients : pc[c] \in {"record", "tell"}
  \/ pc[Manager] \in {"record", "tell", "advanced", "where", "which", "consumeadvanced",
                      "advance", "telladvanced", "changed", "consume", "play", "join"}

\* What the look-ahead should be.
Target ==
  LET to == Lookahead(status.current.position, OptionsOf(status))
  IN  IF to = None \/ ~HasPos(to) \/ IdAt(to) \in Ranged THEN None ELSE IdAt(to)

\* With no change pending the look-ahead is right, or the manager is about to feed it
\* what is right.
Refed ==
  status.current # None /\ ~Pending =>
    CASE pc[Manager] = "ahead" -> /\ loc[Manager].pos = status.current.position
                                  /\ loc[Manager].opts = OptionsOf(status)
      [] pc[Manager] = "feed"  -> loc[Manager].id = Target
      [] OTHER                 -> Live => next_song = Target

\* The connections are at the commands they were given.
PlainCommands ==
  \A c \in Clients :
    /\ pc[c] \notin {"next", "previous", "set", "delete", "clear"}
    /\ pc[c] # "idle" => cmd[c].op \in {"playat", "playid", "resume", "pause", "stop"}

LookaheadInv == Plainly => PlainCommands /\ Refed

-----------------------------------------------------------------------------
(* Types and places.                                                        *)

\* A step of one process leaves the others where they are.
LEMMA OneMoves ==
  ASSUME Shape, NEW p \in Procs, Types',
         \A q \in Procs \ {p} : pc'[q] = pc[q] /\ loc'[q] = loc[q] /\ cmd'[q] = cmd[q],
         p \in Clients => OnItsWay(p)',
         p = Manager => ManagerOnItsWay'
  PROVE  Shape'
<1>1. ASSUME NEW c \in Clients PROVE OnItsWay(c)'
  BY <1>1 DEF Shape, OnItsWay, Procs
<1>2. ManagerOnItsWay'
  BY DEF Shape, ManagerOnItsWay, Procs
<1>. QED
  BY <1>1, <1>2 DEF Shape

\* A position holds an id, and so does the position an id is found at.
LEMMA QueueIds ==
  ASSUME Types
  PROVE  /\ \A pos \in Nat : HasPos(pos) => IdAt(pos) \in Nat
         /\ \A id \in Range(queue) : PosOf(id) \in Nat /\ HasPos(PosOf(id)) /\ IdAt(PosOf(id)) = id
         /\ \A pos \in Nat : NextOf(pos) \in Place \union {None}
<1>1. queue \in Seq(Nat) /\ Len(queue) \in Nat /\ DOMAIN queue = 1 .. Len(queue)
  BY DEF Types
<1>2. \A pos \in Nat : HasPos(pos) => IdAt(pos) \in Nat
  BY <1>1 DEF HasPos, IdAt
<1>3. ASSUME NEW id \in Range(queue)
      PROVE  PosOf(id) \in Nat /\ HasPos(PosOf(id)) /\ IdAt(PosOf(id)) = id
  <2>. DEFINE i == CHOOSE i \in DOMAIN queue : queue[i] = id
  <2>1. \E k \in DOMAIN queue : queue[k] = id
    BY <1>3 DEF Range
  <2>2. i \in 1 .. Len(queue) /\ queue[i] = id
    BY <1>1, <2>1
  <2>3. PosOf(id) = i - 1
    BY DEF PosOf
  <2>. HIDE DEF i
  <2>. QED
    BY <1>1, <2>2, <2>3 DEF HasPos, IdAt
<1>4. ASSUME NEW pos \in Nat PROVE NextOf(pos) \in Place \union {None}
  BY <1>2, <1>4 DEF NextOf, Place
<1>. QED
  BY <1>2, <1>3, <1>4

\* What is left of a queue when a song leaves it.
LEMMA QueueShrinks ==
  ASSUME queue \in Seq(Nat), NEW pos \in Nat
  PROVE  (IF HasPos(pos) THEN RemoveAt(queue, pos + 1) ELSE queue) \in Seq(Nat)
<1>1. CASE HasPos(pos)
  <2>1. pos + 1 \in 1 .. Len(queue)
    BY <1>1 DEF HasPos
  <2>. QED
    BY <1>1, <2>1 DEF RemoveAt
<1>. QED
  BY <1>1

\* The initial state.
LEMMA PlaybackInvInit == Init => PlaybackInv /\ LookaheadInv
<1>. SUFFICES ASSUME Init PROVE PlaybackInv /\ LookaheadInv
  OBVIOUS
<1>1. \A p \in Procs : pc[p] = "idle" /\ cmd[p].op = "none" /\ loc[p] = Locals
  BY DEF Init
<1>2. status \in Status
  BY PlaybackConstants DEF Init, Status, States, Modes
<1>3. Locals \in Local
  BY DEF Locals, Local, NatOr
<1>4. pc \in [Procs -> ClientLabels \union ManagerLabels] /\ loc \in [Procs -> Local]
      /\ cmd \in [Procs -> Commands \union {[op |-> "none"]}]
  BY <1>3 DEF Init, ClientLabels, ManagerLabels
<1>5. Types
  <2>1. thread \in Thread
    BY DEF Init, Thread, NoThread, NatOr
  <2>2. workload \in Workloads /\ queue \in Seq(Nat) /\ inbox \in Seq(Events)
    BY PlaybackConstants DEF Init
  <2>3. owner \in Procs \union {Nobody} /\ song \in NatOr /\ next_song \in NatOr /\ atomic \in States
    BY DEF Init, NatOr, States
  <2>4. stop_flag \in BOOLEAN
    BY DEF Init
  <2>5. (\A c \in Clients : pc[c] \in ClientLabels) /\ pc[Manager] \in ManagerLabels
    BY <1>1 DEF Procs, ClientLabels, ManagerLabels
  <2>. QED
    BY <1>2, <1>4, <2>1, <2>2, <2>3, <2>4, <2>5 DEF Types
<1>6. Shape
  BY <1>1, <1>5 DEF Shape, OnItsWay, ManagerOnItsWay, Procs, Ops
<1>7. Guarded /\ Unrecorded /\ Silent
  BY <1>1 DEF Init, Guarded, Unrecorded, Silent, NoThread, Live
<1>8. LookaheadInv
  BY <1>1 DEF Init, LookaheadInv, PlainCommands, Refed, Procs
<1>. QED
  BY <1>6, <1>7, <1>8 DEF PlaybackInv

\* An engine call keeps the types, whoever makes it.
LEMMA EngineCallShape ==
  ASSUME Shape, NEW p \in Procs, EngineCall(p)
  PROVE  Shape'
<1>. USE DEF Shape
<1>1. CASE TakeGuard(p)
  <2>1. Types'
    BY <1>1 DEF TakeGuard, Types, At, Goto, Procs, ClientLabels, ManagerLabels
  <2>2. (p \in Clients => OnItsWay(p)') /\ (p = Manager => ManagerOnItsWay')
    BY <1>1, PlaybackConstants DEF TakeGuard, Types, At, Goto, Procs, OnItsWay, ManagerOnItsWay, Ops
  <2>3. \A q \in Procs \ {p} : pc'[q] = pc[q] /\ loc'[q] = loc[q] /\ cmd'[q] = cmd[q]
    BY <1>1 DEF TakeGuard, Types, Goto
  <2>. QED
    BY <2>1, <2>2, <2>3, OneMoves
<1>2. CASE JoinAndPlay(p)
  <2>1. Types'
    <3>1. loc[p].id \in Nat /\ loc[p].limited \in BOOLEAN
      BY <1>2 DEF JoinAndPlay, At, OnItsWay, ManagerOnItsWay, Types, Procs, Local
    <3>2. song' \in NatOr /\ next_song' \in NatOr /\ atomic' \in States /\ stop_flag' \in BOOLEAN
      BY <1>2, <3>1 DEF JoinAndPlay, NatOr, States
    <3>3. thread' \in Thread
      BY <1>2, <3>1 DEF JoinAndPlay, Thread, NatOr
    <3>. QED
      BY <1>2, <3>2, <3>3 DEF JoinAndPlay, Types, Goto, Procs, ClientLabels, ManagerLabels
  <2>2. (p \in Clients => OnItsWay(p)') /\ (p = Manager => ManagerOnItsWay')
    BY <1>2, PlaybackConstants DEF JoinAndPlay, Types, At, Goto, Procs, OnItsWay, ManagerOnItsWay, Ops
  <2>3. \A q \in Procs \ {p} : pc'[q] = pc[q] /\ loc'[q] = loc[q] /\ cmd'[q] = cmd[q]
    BY <1>2 DEF JoinAndPlay, Types, Goto
  <2>. QED
    BY <2>1, <2>2, <2>3, OneMoves
<1>3. CASE JoinAndStop(p)
  <2>1. Types'
    <3>1. inbox' \in Seq(Events)
      BY <1>3 DEF JoinAndStop, Emit, Types, Events
    <3>. QED
      BY <1>3, <3>1 DEF JoinAndStop, Types, Goto, Procs, NatOr, States, ClientLabels, ManagerLabels
  <2>2. (p \in Clients => OnItsWay(p)') /\ (p = Manager => ManagerOnItsWay')
    BY <1>3, PlaybackConstants DEF JoinAndStop, Types, At, Goto, Procs, OnItsWay, ManagerOnItsWay, Ops
  <2>3. \A q \in Procs \ {p} : pc'[q] = pc[q] /\ loc'[q] = loc[q] /\ cmd'[q] = cmd[q]
    BY <1>3 DEF JoinAndStop, Types, Goto
  <2>. QED
    BY <2>1, <2>2, <2>3, OneMoves
<1>4. CASE ReportStop(p)
  <2>1. Types'
    <3>1. status' \in Status
      BY <1>4 DEF ReportStop, Types, Status, States
    <3>. QED
      BY <1>4, <3>1 DEF ReportStop, Types, engine, player, Goto, Procs, ClientLabels, ManagerLabels
  <2>2. (p \in Clients => OnItsWay(p)') /\ (p = Manager => ManagerOnItsWay')
    BY <1>4, PlaybackConstants DEF ReportStop, Types, At, Goto, Procs, OnItsWay, ManagerOnItsWay, Ops
  <2>3. \A q \in Procs \ {p} : pc'[q] = pc[q] /\ loc'[q] = loc[q] /\ cmd'[q] = cmd[q]
    BY <1>4 DEF ReportStop, Types, Goto
  <2>. QED
    BY <2>1, <2>2, <2>3, OneMoves
<1>5. CASE ForgetCurrent(p)
  <2>1. Types'
    <3>1. status' \in Status
      BY <1>5 DEF ForgetCurrent, Types, Status
    <3>2. owner' \in Procs \union {Nobody}
      BY <1>5 DEF ForgetCurrent, Types
    <3>. QED
      BY <1>5, <3>1, <3>2 DEF ForgetCurrent, Types, player, Goto, Procs, ClientLabels, ManagerLabels
  <2>2. (p \in Clients => OnItsWay(p)') /\ (p = Manager => ManagerOnItsWay')
    BY <1>5, PlaybackConstants DEF ForgetCurrent, Types, At, Goto, Procs, OnItsWay, ManagerOnItsWay, Ops
  <2>3. \A q \in Procs \ {p} : pc'[q] = pc[q] /\ loc'[q] = loc[q] /\ cmd'[q] = cmd[q]
    BY <1>5 DEF ForgetCurrent, Types, Goto
  <2>. QED
    BY <2>1, <2>2, <2>3, OneMoves
<1>. QED
  BY <1>1, <1>2, <1>3, <1>4, <1>5 DEF EngineCall

\* A command keeps the types.
LEMMA CommandShape ==
  ASSUME Shape, NEW c \in Clients, Request(c) \/ Command(c)
  PROVE  Shape'
<1>. USE DEF Shape
<1>0. c \in Procs /\ c # Manager /\ OnItsWay(c) /\ Types /\ loc[c] \in Local
  BY PlaybackConstants DEF Procs, Types
<1>1. CASE Request(c)
  <2>1. PICK k \in workload.requests[c] : cmd' = [cmd EXCEPT ![c] = k] /\ Goto(c, k.op)
    BY <1>1 DEF Request
  <2>2. k \in Commands /\ k.op \in Ops
    <3>1. k \in Commands
      BY <1>0, <2>1, PlaybackConstants DEF Types
    <3>. QED
      BY <3>1 DEF Commands, Ops
  <2>3. Locals \in Local /\ Locals.to = None
    BY DEF Locals, Local, NatOr
  <2>4. Types'
    BY <1>0, <1>1, <2>1, <2>2, <2>3 DEF Request, Types, engine, player, Goto, Procs, ClientLabels
  <2>5. OnItsWay(c)'
    BY <1>0, <1>1, <2>1, <2>2, <2>3 DEF Request, Types, Goto, OnItsWay, Ops
  <2>6. \A q \in Procs \ {c} : pc'[q] = pc[q] /\ loc'[q] = loc[q] /\ cmd'[q] = cmd[q]
    BY <1>1, <2>1 DEF Request, Types, Goto
  <2>. QED
    BY <1>0, <2>4, <2>5, <2>6, OneMoves
<1>2. ASSUME NEW l \in Local, NEW label \in ClientLabels,
             loc' = [loc EXCEPT ![c] = l], Goto(c, label),
             UNCHANGED <<workload, queue, status, engine, inbox, cmd, sent>>,
             OnItsWay(c)'
      PROVE  Shape'
  <2>1. Types'
    BY <1>0, <1>2 DEF Types, engine, player, Goto, Procs
  <2>2. \A q \in Procs \ {c} : pc'[q] = pc[q] /\ loc'[q] = loc[q] /\ cmd'[q] = cmd[q]
    BY <1>2 DEF Types, Goto
  <2>. QED
    BY <1>0, <1>2, <2>1, <2>2, OneMoves
<1>3. ASSUME NEW label \in ClientLabels, Goto(c, label), Types', UNCHANGED <<loc, cmd>>,
             OnItsWay(c)'
      PROVE  Shape'
  <2>1. \A q \in Procs \ {c} : pc'[q] = pc[q] /\ loc'[q] = loc[q] /\ cmd'[q] = cmd[q]
    BY <1>3 DEF Types, Goto
  <2>. QED
    BY <1>0, <1>3, <2>1, OneMoves
\* a step that has chosen what to play
<1>4. ASSUME NEW l \in Local, loc' = [loc EXCEPT ![c] = l], Prepared(c), pc[c] # "idle",
             UNCHANGED <<workload, queue, status, engine, inbox, cmd, sent>>,
             l.id \in Nat, l.to \in NatOr,
             cmd[c].op # "resume" => l.to = None /\ l.pos \in Nat
      PROVE  Shape'
  <2>1. PICK label \in {"play", "idle"} : Goto(c, label)
    BY <1>4 DEF Prepared
  <2>2. OnItsWay(c)'
    BY <1>0, <1>4, <2>1 DEF Types, Goto, OnItsWay, Ops
  <2>. QED
    BY <1>2, <1>4, <2>1, <2>2 DEF ClientLabels
\* a step that has found nothing
<1>5. ASSUME Goto(c, "idle"), UNCHANGED <<workload, queue, status, engine, inbox, cmd, loc, sent>>
      PROVE  Shape'
  <2>1. Types'
    BY <1>0, <1>5 DEF Types, engine, player, Goto, Procs, ClientLabels
  <2>2. OnItsWay(c)'
    BY <1>0, <1>5 DEF Types, Goto, OnItsWay, Ops
  <2>. QED
    BY <1>3, <1>5, <2>1, <2>2 DEF ClientLabels
<1>6. ASSUME NEW pos \in Nat, HasPos(pos), ChosenAt(c, pos), Prepared(c), loc[c].to = None,
             pc[c] # "idle",
             UNCHANGED <<workload, queue, status, engine, inbox, cmd, sent>>
      PROVE  Shape'
  <2>. DEFINE lim == IdAt(pos) \in Ranged
              l == [loc[c] EXCEPT !.pos = pos, !.id = IdAt(pos), !.limited = lim]
  <2>1. IdAt(pos) \in Nat /\ lim \in BOOLEAN
    BY <1>0, <1>6, QueueIds
  <2>2. loc' = [loc EXCEPT ![c] = l]
    BY <1>0, <1>6 DEF ChosenAt, Chosen, Types
  <2>. HIDE DEF lim
  <2>3. l \in Local /\ l.id = IdAt(pos) /\ l.to = None /\ l.pos = pos
    BY <1>0, <1>6, <2>1 DEF Local, NatOr
  <2>. HIDE DEF l
  <2>. QED
    BY <1>4, <1>6, <2>1, <2>2, <2>3 DEF NatOr
<1>7. CASE FindSong(c)
  <2>. DEFINE k     == cmd[c]
              found == IF k.op = "playat" THEN HasPos(k.pos) ELSE k.id \in Range(queue)
              pos   == IF k.op = "playat" THEN k.pos ELSE PosOf(k.id)
  <2>1. pc[c] \in {"playat", "playid"} /\ k.op = pc[c] /\ loc[c].to = None /\ k \in Commands
    BY <1>0, <1>7 DEF FindSong, OnItsWay, Ops, Types
  <2>2. k.op = "playat" => k.pos \in Nat
    BY <2>1 DEF Commands
  <2>3. CASE found
    <3>1. pos \in Nat /\ HasPos(pos)
      BY <1>0, <2>1, <2>2, <2>3, QueueIds
    <3>2. ChosenAt(c, pos) /\ Prepared(c)
          /\ UNCHANGED <<workload, queue, status, engine, inbox, cmd, sent>>
      BY <1>7, <2>3 DEF FindSong
    <3>. HIDE DEF pos
    <3>. QED
      BY <1>6, <2>1, <3>1, <3>2
  <2>4. CASE ~found
    BY <1>5, <1>7, <2>4 DEF FindSong
  <2>. QED
    BY <2>3, <2>4
<1>8. CASE FindCurrentSong(c)
  <2>1. pc[c] = "resume" /\ cmd[c].op = "resume" /\ loc[c].to = None
        /\ UNCHANGED <<workload, queue, status, engine, inbox, cmd, sent>>
    BY <1>0, <1>8 DEF FindCurrentSong, At, OnItsWay, Ops
  <2>2. CASE song # None /\ Chosen(c, None, song, FALSE) /\ Goto(c, "position")
    <3>. DEFINE l == [loc[c] EXCEPT !.pos = None, !.id = song, !.limited = FALSE]
    <3>1. loc' = [loc EXCEPT ![c] = l]
      BY <1>0, <2>2 DEF Chosen, Types
    <3>2. l \in Local /\ l.id \in Nat /\ l.to = None
      BY <1>0, <2>1, <2>2 DEF Local, NatOr, Types
    <3>. HIDE DEF l
    <3>3. OnItsWay(c)'
      BY <1>0, <2>1, <2>2, <3>1, <3>2 DEF Types, Goto, OnItsWay, Ops
    <3>. QED
      BY <1>2, <2>1, <2>2, <3>1, <3>2, <3>3 DEF ClientLabels
  <2>3. CASE queue # <<>> /\ ChosenAt(c, 0) /\ Prepared(c)
    <3>1. HasPos(0)
      BY <1>0, <2>3 DEF HasPos, Types
    <3>. QED
      BY <1>6, <2>1, <2>3, <3>1
  <2>4. CASE Goto(c, "idle") /\ UNCHANGED loc
    BY <1>5, <2>1, <2>4
  <2>. QED
    BY <1>8, <2>2, <2>3, <2>4 DEF FindCurrentSong
<1>9. CASE FindCurrentPosition(c)
  <2>1. pc[c] = "position" /\ cmd[c].op = "resume" /\ loc[c].to = None /\ loc[c].id \in Nat
        /\ Prepared(c) /\ UNCHANGED <<workload, queue, status, engine, inbox, cmd, sent>>
    BY <1>0, <1>9 DEF FindCurrentPosition, At, OnItsWay
  <2>2. CASE status.current = None
    <3>1. loc' = [loc EXCEPT ![c] = loc[c]]
      BY <1>0, <1>9, <2>2 DEF FindCurrentPosition, Types
    <3>. QED
      BY <1>0, <1>4, <2>1, <3>1 DEF NatOr
  <2>3. CASE status.current # None
    <3>. DEFINE cur == status.current
                lim == HasPos(cur.position) /\ IdAt(cur.position) \in Ranged
                l   == [loc[c] EXCEPT !.pos = cur.position, !.to = cur.id, !.limited = lim]
    <3>1. loc' = [loc EXCEPT ![c] = l]
      BY <1>0, <1>9, <2>3 DEF FindCurrentPosition, Types
    <3>2. lim \in BOOLEAN
      OBVIOUS
    <3>3. cur.position \in Nat /\ cur.id \in Nat
      BY <1>0, <2>3 DEF Types, Status, Place
    <3>. HIDE DEF lim
    <3>4. l \in Local /\ l.id = loc[c].id /\ l.to \in NatOr
      BY <1>0, <3>2, <3>3 DEF Local, NatOr
    <3>. HIDE DEF l
    <3>. QED
      BY <1>4, <2>1, <3>1, <3>4
  <2>. QED
    BY <2>2, <2>3
<1>10. CASE FindNeighbour(c)
  <2>. DEFINE cur == status.current
              pos == IF cur = None THEN 0
                     ELSE IF At(c, "next") THEN cur.position + 1
                     ELSE IF cur.position > 0 THEN cur.position - 1 ELSE 0
  <2>1. pc[c] \in {"next", "previous"} /\ loc[c].to = None
        /\ UNCHANGED <<workload, queue, status, engine, inbox, cmd, sent>>
    BY <1>0, <1>10 DEF FindNeighbour, OnItsWay
  <2>2. pos \in Nat
    BY <1>0 DEF Types, Status, Place
  <2>3. \/ HasPos(pos) /\ ChosenAt(c, pos) /\ Prepared(c)
        \/ Goto(c, "idle") /\ UNCHANGED loc
    BY <1>10 DEF FindNeighbour
  <2>. HIDE DEF pos
  <2>. QED
    BY <1>5, <1>6, <2>1, <2>2, <2>3
<1>11. CASE RecordPlay(c)
  <2>. DEFINE l     == loc[c]
              quiet == cmd[c].op \in {"next", "previous"}
              id    == IF l.to # None THEN l.to ELSE l.id
              cur   == IF l.pos = None THEN status.current ELSE [position |-> l.pos, id |-> id]
              nxt   == IF l.pos = None THEN status.next ELSE NextOf(l.pos)
              st    == IF quiet THEN status.state ELSE "play"
  <2>1. pc[c] = "record" /\ l.id \in Nat /\ l.to \in NatOr /\ l.pos \in NatOr
    BY <1>0, <1>11 DEF RecordPlay, At, OnItsWay, Local
  <2>2. cur \in Place \union {None} /\ nxt \in Place \union {None} /\ st \in States
    BY <1>0, <2>1, QueueIds DEF Types, Status, Place, NatOr, States
  <2>3. status' = [status EXCEPT !.state = st, !.current = cur, !.next = nxt]
    BY <1>11 DEF RecordPlay
  <2>. HIDE DEF cur, nxt, st
  <2>4. status' \in Status
    BY <1>0, <2>2, <2>3 DEF Types, Status
  <2>5. owner' \in Procs \union {Nobody}
    BY <1>0, <1>11 DEF RecordPlay, Types
  <2>6. PICK label \in {"idle", "tell"} : Goto(c, label)
    BY <1>11 DEF RecordPlay
  <2>7. Types'
    BY <1>0, <1>11, <2>4, <2>5, <2>6 DEF RecordPlay, Types, player, Goto, Procs, ClientLabels
  <2>8. OnItsWay(c)'
    BY <1>0, <1>11, <2>1, <2>6 DEF RecordPlay, Types, Goto, OnItsWay, Ops
  <2>. QED
    BY <1>3, <1>11, <2>6, <2>7, <2>8 DEF RecordPlay, ClientLabels
<1>12. CASE TellChanged(c)
  <2>1. inbox' \in Seq(Events)
    BY <1>0, <1>12 DEF TellChanged, Emit, Types, Events
  <2>2. Types'
    BY <1>0, <1>12, <2>1 DEF TellChanged, Types, player, Goto, Procs, ClientLabels
  <2>3. OnItsWay(c)'
    BY <1>0, <1>12 DEF TellChanged, Types, Goto, OnItsWay, Ops
  <2>. QED
    BY <1>3, <1>12, <2>2, <2>3 DEF TellChanged, ClientLabels
<1>13. CASE DecidePause(c)
  <2>1. PICK label \in {"idle", "setpause"} : Goto(c, label)
    BY <1>13 DEF DecidePause
  <2>2. Types'
    BY <1>0, <1>13, <2>1 DEF DecidePause, Types, engine, player, Goto, Procs, ClientLabels
  <2>3. OnItsWay(c)'
    BY <1>0, <1>13, <2>1 DEF DecidePause, At, Types, Goto, OnItsWay, Ops
  <2>. QED
    BY <1>3, <1>13, <2>1, <2>2, <2>3 DEF DecidePause, ClientLabels
<1>14. CASE SetPause(c)
  <2>1. cmd[c].op = "pause" /\ cmd[c] \in Commands
    BY <1>0, <1>14 DEF SetPause, At, OnItsWay, Types
  <2>2. atomic' \in States
    BY <1>14, <2>1 DEF SetPause, Commands, States
  <2>3. Types'
    BY <1>0, <1>14, <2>2 DEF SetPause, Types, Goto, Procs, ClientLabels
  <2>4. OnItsWay(c)'
    BY <1>0, <1>14, <2>1 DEF SetPause, Types, Goto, OnItsWay, Ops
  <2>. QED
    BY <1>3, <1>14, <2>3, <2>4 DEF SetPause, ClientLabels
<1>15. CASE LoadState(c)
  <2>. DEFINE l == [loc[c] EXCEPT !.to = atomic]
  <2>1. loc' = [loc EXCEPT ![c] = l] /\ Goto(c, "sync")
    BY <1>0, <1>15 DEF LoadState, Types
  <2>2. l \in Local /\ l.to \in States
    BY <1>0 DEF Types, Local
  <2>. HIDE DEF l
  <2>3. OnItsWay(c)'
    BY <1>0, <1>15, <2>1, <2>2 DEF LoadState, At, Types, Goto, OnItsWay, Ops
  <2>. QED
    BY <1>2, <1>15, <2>1, <2>2, <2>3 DEF LoadState, ClientLabels
<1>16. CASE SyncState(c)
  <2>1. status' \in Status
    BY <1>0, <1>16 DEF SyncState, At, OnItsWay, Types, Status
  <2>2. Types'
    BY <1>0, <1>16, <2>1 DEF SyncState, Types, engine, player, Goto, Procs, ClientLabels
  <2>3. OnItsWay(c)'
    BY <1>0, <1>16 DEF SyncState, Types, Goto, OnItsWay, Ops
  <2>. QED
    BY <1>3, <1>16, <2>2, <2>3 DEF SyncState, ClientLabels
<1>17. CASE SetOption(c)
  <2>1. cmd[c].op = "set" /\ cmd[c] \in Commands
    BY <1>0, <1>17 DEF SetOption, At, OnItsWay, Ops, Types
  <2>2. status' \in Status
    <3>1. CASE cmd[c].option \in {"repeat", "random"} /\ cmd[c].value \in BOOLEAN
      BY <1>0, <1>17, <3>1 DEF SetOption, Types, Status
    <3>2. CASE cmd[c].option \in {"single", "consume"} /\ cmd[c].value \in Modes
      BY <1>0, <1>17, <3>2 DEF SetOption, Types, Status
    <3>. QED
      BY <2>1, <3>1, <3>2 DEF Commands
  <2>3. Types'
    BY <1>0, <1>17, <2>2 DEF SetOption, Types, engine, player, Goto, Procs, ClientLabels
  <2>4. OnItsWay(c)'
    BY <1>0, <1>17 DEF SetOption, Types, Goto, OnItsWay, Ops
  <2>. QED
    BY <1>3, <1>17, <2>3, <2>4 DEF SetOption, ClientLabels
<1>18. CASE DeleteSong(c)
  <2>1. cmd[c].op = "delete" /\ cmd[c] \in Commands /\ cmd[c].pos \in Nat
    BY <1>0, <1>18 DEF DeleteSong, At, OnItsWay, Ops, Types, Commands
  <2>2. queue' \in Seq(Nat)
    BY <1>0, <1>18, <2>1, QueueShrinks DEF DeleteSong, Types
  <2>3. Types'
    BY <1>0, <1>18, <2>2 DEF DeleteSong, Types, engine, player, Goto, Procs, ClientLabels
  <2>4. OnItsWay(c)'
    BY <1>0, <1>18 DEF DeleteSong, Types, Goto, OnItsWay, Ops
  <2>. QED
    BY <1>3, <1>18, <2>3, <2>4 DEF DeleteSong, ClientLabels
<1>19. CASE ClearQueue(c)
  <2>1. Types'
    BY <1>0, <1>19 DEF ClearQueue, Types, engine, player, Goto, Procs, ClientLabels, Ops
  <2>2. OnItsWay(c)'
    BY <1>0, <1>19 DEF ClearQueue, At, Types, Goto, OnItsWay, Ops
  <2>. QED
    BY <1>3, <1>19, <2>1, <2>2 DEF ClearQueue, ClientLabels, Ops
<1>. QED
  BY <1>1, <1>7, <1>8, <1>9, <1>10, <1>11, <1>12, <1>13, <1>14, <1>15, <1>16, <1>17, <1>18, <1>19
     DEF Command

\* A step of the manager keeps the types.
LEMMA ManagerShape ==
  ASSUME Shape, ManagerStep
  PROVE  Shape'
<1>. USE DEF Shape
<1>. DEFINE l == loc[Manager]
<1>0. Manager \in Procs /\ Manager \notin Clients /\ ManagerOnItsWay /\ Types /\ l \in Local
  BY PlaybackConstants DEF Procs, Types
<1>1. ASSUME NEW new \in Local, NEW label \in ManagerLabels,
             loc' = [loc EXCEPT ![Manager] = new], Goto(Manager, label),
             UNCHANGED <<workload, queue, status, engine, inbox, cmd, sent>>,
             ManagerOnItsWay'
      PROVE  Shape'
  <2>1. Types'
    BY <1>0, <1>1 DEF Types, engine, player, Goto, Procs
  <2>2. \A q \in Procs \ {Manager} : pc'[q] = pc[q] /\ loc'[q] = loc[q] /\ cmd'[q] = cmd[q]
    BY <1>1 DEF Types, Goto
  <2>. QED
    BY <1>0, <1>1, <2>1, <2>2, OneMoves
<1>2. ASSUME NEW label \in ManagerLabels, Goto(Manager, label), Types', UNCHANGED <<loc, cmd>>,
             ManagerOnItsWay'
      PROVE  Shape'
  <2>1. \A q \in Procs \ {Manager} : pc'[q] = pc[q] /\ loc'[q] = loc[q] /\ cmd'[q] = cmd[q]
    BY <1>2 DEF Types, Goto
  <2>. QED
    BY <1>0, <1>2, <2>1, OneMoves
<1>3. ASSUME NEW label \in {"idle", "changed", "finished", "advanced", "position", "stop"},
             Goto(Manager, label),
             UNCHANGED <<workload, queue, status, engine, inbox, cmd, loc, sent>>
      PROVE  Shape'
  <2>1. Types'
    BY <1>0, <1>3 DEF Types, engine, player, Goto, Procs, ManagerLabels, Events
  <2>2. ManagerOnItsWay'
    BY <1>0, <1>3 DEF Types, Goto, ManagerOnItsWay
  <2>. QED
    BY <1>2, <1>3, <2>1, <2>2 DEF ManagerLabels, Events
<1>4. status \in Status /\ OptionsOf(status) \in Options
      /\ (status.current # None => status.current.position \in Nat /\ status.current.id \in Nat)
  BY <1>0 DEF Types, Status, OptionsOf, Options, Place
<1>5. CASE Receive
  <2>1. Head(inbox) \in Events /\ inbox' \in Seq(Events)
    BY <1>0, <1>5 DEF Receive, Types
  <2>2. Locals \in Local
    BY DEF Locals, Local, NatOr
  <2>3. Types'
    BY <1>0, <1>5, <2>1, <2>2 DEF Receive, Types, engine, player, Goto, Procs, ManagerLabels
  <2>4. ManagerOnItsWay'
    BY <1>0, <1>5, <2>1 DEF Receive, Types, Goto, ManagerOnItsWay, Events
  <2>5. \A q \in Procs \ {Manager} : pc'[q] = pc[q] /\ loc'[q] = loc[q] /\ cmd'[q] = cmd[q]
    BY <1>5 DEF Receive, Types, Goto
  <2>. QED
    BY <1>0, <2>3, <2>4, <2>5, OneMoves
<1>6. CASE SyncPosition
  <2>1. status' \in Status
    BY <1>0, <1>6 DEF SyncPosition, Types, Status
  <2>2. Types'
    BY <1>0, <1>6, <2>1 DEF SyncPosition, Types, engine, player, Goto, Procs, ManagerLabels
  <2>3. ManagerOnItsWay'
    BY <1>0, <1>6 DEF SyncPosition, Types, Goto, ManagerOnItsWay
  <2>. QED
    BY <1>2, <1>6, <2>2, <2>3 DEF SyncPosition, ManagerLabels
<1>7. CASE SongFinished
  <2>. DEFINE o    == OptionsOf(status)
              cur  == status.current
              base == [l EXCEPT !.pos = cur.position, !.opts = o]
  <2>1. UNCHANGED <<workload, queue, status, engine, inbox, cmd, sent>>
    BY <1>7 DEF SongFinished
  <2>2. CASE Goto(Manager, "idle") /\ UNCHANGED loc
    BY <1>3, <2>1, <2>2
  <2>3. ASSUME cur # None, ~((o.random \/ o.repeat) /\ queue = <<>>),
               NEW to \in Successors(cur.position, o)
        PROVE  base \in Local /\ base.pos \in Nat /\ base.opts \in Options
               /\ (to # None => to \in Nat /\ HasPos(to))
    <3>1. base \in Local /\ base.pos \in Nat /\ base.opts \in Options
      BY <1>0, <1>4, <2>3 DEF Local, NatOr
    <3>2. Len(queue) \in Nat /\ cur.position \in Nat /\ (queue # <<>> => Len(queue) > 0)
      BY <1>0, <1>4, <2>3 DEF Types
    <3>3. CASE o.random
      BY <2>3, <3>1, <3>2, <3>3 DEF Successors, HasPos
    <3>4. CASE ~o.random
      BY <2>3, <3>1, <3>2, <3>4 DEF Successors, HasPos
    <3>. QED
      BY <3>3, <3>4
  <2>4. ASSUME cur # None, base \in Local, base.pos \in Nat, base.opts \in Options,
               loc' = [loc EXCEPT ![Manager] = base], Goto(Manager, "stop")
        PROVE  Shape'
    <3>1. ManagerOnItsWay'
      BY <1>0, <2>1, <2>4 DEF Types, Goto, ManagerOnItsWay
    <3>. QED
      BY <1>1, <2>1, <2>4, <3>1 DEF ManagerLabels
  <2>5. ASSUME cur # None, base \in Local, base.pos \in Nat, base.opts \in Options,
               NEW to \in Nat, HasPos(to),
               loc' = [loc EXCEPT ![Manager] = [base EXCEPT !.to = to, !.id = IdAt(to),
                                                            !.limited = IdAt(to) \in Ranged]],
               Goto(Manager, "consume") \/ Prepared(Manager)
        PROVE  Shape'
    <3>. DEFINE lim == IdAt(to) \in Ranged
                new == [base EXCEPT !.to = to, !.id = IdAt(to), !.limited = lim]
    <3>1. IdAt(to) \in Nat /\ lim \in BOOLEAN
      BY <1>0, <2>5, QueueIds
    <3>2. loc' = [loc EXCEPT ![Manager] = new]
      BY <2>5
    <3>. HIDE DEF lim, base
    <3>3. new \in Local /\ new.pos \in Nat /\ new.opts \in Options /\ new.to = to /\ new.id = IdAt(to)
      BY <2>5, <3>1 DEF Local, NatOr
    <3>. HIDE DEF new
    <3>4. PICK label \in {"consume", "play", "idle"} : Goto(Manager, label)
      BY <2>5 DEF Prepared
    <3>5. ManagerOnItsWay'
      BY <1>0, <2>1, <3>1, <3>2, <3>3, <3>4, <2>5 DEF Types, Goto, ManagerOnItsWay
    <3>. QED
      BY <1>1, <2>1, <3>2, <3>3, <3>4, <3>5 DEF ManagerLabels
  <2>6. CASE /\ ~(cur = None \/ ((o.random \/ o.repeat) /\ queue = <<>>))
             /\ \E to \in Successors(cur.position, o) :
                  IF to = None
                  THEN loc' = [loc EXCEPT ![Manager] = base] /\ Goto(Manager, "stop")
                  ELSE /\ loc' = [loc EXCEPT ![Manager] =
                                    [base EXCEPT !.to = to, !.id = IdAt(to),
                                                 !.limited = IdAt(to) \in Ranged]]
                       /\ IF o.consume = "on" THEN Goto(Manager, "consume")
                          ELSE Prepared(Manager)
    <3>. HIDE DEF base, o, cur
    <3>. QED
      BY <2>3, <2>4, <2>5, <2>6
  <2>. QED
    BY <1>7, <2>2, <2>6 DEF SongFinished
<1>8. CASE Consume
  <2>1. l.pos \in Nat /\ pc[Manager] \in {"consume", "consumeadvanced"}
    BY <1>0, <1>8 DEF Consume, ManagerOnItsWay
  <2>2. queue' \in Seq(Nat)
    BY <1>0, <1>8, <2>1, QueueShrinks DEF Consume, Types
  <2>3. PICK label \in {"play", "idle", "advance"} : Goto(Manager, label)
    BY <1>8 DEF Consume, Prepared
  <2>4. Types'
    BY <1>0, <1>8, <2>2, <2>3 DEF Consume, Types, engine, player, Goto, Procs, ManagerLabels
  <2>5. ManagerOnItsWay'
    BY <1>0, <1>8, <2>1, <2>3 DEF Consume, Types, Goto, ManagerOnItsWay
  <2>. QED
    BY <1>2, <1>8, <2>3, <2>4, <2>5 DEF Consume, ManagerLabels
<1>9. CASE RecordAdvance
  <2>1. l.pos \in Nat /\ l.opts \in Options /\ l.to \in Nat /\ l.id \in Nat
    BY <1>0, <1>9 DEF RecordAdvance, ManagerOnItsWay
  <2>2. status' \in Status
    <3>. DEFINE pos == IF l.opts.consume = "on" /\ l.to > l.pos THEN l.to - 1 ELSE l.to
                cur == [position |-> pos, id |-> l.id]
                sng == IF l.opts.single = "oneshot" THEN "off" ELSE status.single
                con == IF l.opts.consume = "oneshot" THEN "off" ELSE status.consume
    <3>1. pos \in Nat
      BY <2>1
    <3>2. cur \in Place
      BY <2>1, <3>1 DEF Place
    <3>3. sng \in Modes /\ con \in Modes
      BY <1>4 DEF Status, Modes
    <3>4. status' = [status EXCEPT !.state = "play", !.current = cur, !.single = sng, !.consume = con]
      BY <1>9 DEF RecordAdvance, Advanced
    <3>. HIDE DEF cur, sng, con
    <3>. QED
      BY <1>4, <3>2, <3>3, <3>4 DEF Status, States
  <2>3. PICK label \in {"tell", "telladvanced"} :
          Goto(Manager, label) /\ (label = "tell" => pc[Manager] = "record")
    BY <1>9 DEF RecordAdvance, At
  <2>4. Types'
    BY <1>0, <1>9, <2>2, <2>3 DEF RecordAdvance, Types, engine, player, Goto, Procs, ManagerLabels
  <2>5. ManagerOnItsWay'
    BY <1>0, <1>9, <2>1, <2>3 DEF RecordAdvance, Types, Goto, ManagerOnItsWay
  <2>. QED
    BY <1>2, <1>9, <2>3, <2>4, <2>5 DEF RecordAdvance, ManagerLabels
<1>10. CASE TellAdvance
  <2>1. inbox' \in Seq(Events)
    BY <1>0, <1>10 DEF TellAdvance, Emit, Types, Events
  <2>2. PICK label \in {"stop", "idle", "changed"} : Goto(Manager, label)
    BY <1>10 DEF TellAdvance
  <2>3. owner' \in Procs \union {Nobody}
    BY <1>0, <1>10 DEF TellAdvance, Types
  <2>4. Types'
    BY <1>0, <1>10, <2>1, <2>2, <2>3 DEF TellAdvance, Types, player, Goto, Procs, ManagerLabels, Events
  <2>5. ManagerOnItsWay'
    BY <1>0, <1>10, <2>2 DEF TellAdvance, Types, Goto, ManagerOnItsWay
  <2>. QED
    BY <1>2, <1>10, <2>2, <2>4, <2>5 DEF TellAdvance, ManagerLabels, Events
<1>11. ASSUME NEW label \in ManagerLabels, status.current # None,
              loc' = [loc EXCEPT ![Manager].pos = status.current.position,
                                 ![Manager].opts = OptionsOf(status)],
              Goto(Manager, label), label \in {"where", "ahead"},
              UNCHANGED <<workload, queue, status, engine, inbox, cmd, sent>>
       PROVE  Shape'
  <2>. DEFINE new == [l EXCEPT !.pos = status.current.position, !.opts = OptionsOf(status)]
  <2>1. loc' = [loc EXCEPT ![Manager] = new]
    BY <1>0, <1>11 DEF Types
  <2>2. new \in Local /\ new.pos \in Nat /\ new.opts \in Options
    BY <1>0, <1>4, <1>11 DEF Local, NatOr
  <2>. HIDE DEF new
  <2>3. ManagerOnItsWay'
    BY <1>0, <1>11, <2>1, <2>2 DEF Types, Goto, ManagerOnItsWay
  <2>. QED
    BY <1>1, <1>11, <2>1, <2>2, <2>3
<1>12. CASE ReadAdvanced
  BY <1>3, <1>11, <1>12 DEF ReadAdvanced, ManagerLabels
<1>13. ASSUME NEW pos \in Nat, NEW o \in Options
       PROVE  Lookahead(pos, o) \in NatOr
  BY <1>13 DEF Lookahead, NatOr
<1>14. CASE LookWhere
  <2>. DEFINE to  == Lookahead(l.pos, l.opts)
              new == [l EXCEPT !.to = to]
  <2>1. l.pos \in Nat /\ l.opts \in Options /\ to \in NatOr
    BY <1>0, <1>13, <1>14 DEF LookWhere, At, ManagerOnItsWay
  <2>2. loc' = [loc EXCEPT ![Manager] = new]
        /\ UNCHANGED <<workload, queue, status, engine, inbox, cmd, sent>>
    BY <1>0, <1>14 DEF LookWhere, Types
  <2>3. PICK label \in {"changed", "which"} : Goto(Manager, label) /\ (label = "which" => to # None)
    BY <1>14 DEF LookWhere
  <2>. HIDE DEF to
  <2>4. new \in Local /\ new.pos = l.pos /\ new.opts = l.opts /\ new.to = to
    BY <1>0, <2>1 DEF Local, NatOr
  <2>. HIDE DEF new
  <2>5. ManagerOnItsWay'
    BY <1>0, <2>1, <2>2, <2>3, <2>4 DEF Types, Goto, ManagerOnItsWay, NatOr
  <2>. QED
    BY <1>1, <2>2, <2>3, <2>4, <2>5 DEF ManagerLabels, Events
<1>15. CASE LookWhich
  <2>1. l.pos \in Nat /\ l.opts \in Options /\ l.to \in Nat
        /\ UNCHANGED <<workload, queue, status, engine, inbox, cmd, sent>>
    BY <1>0, <1>15 DEF LookWhich, At, ManagerOnItsWay
  <2>2. CASE HasPos(l.to)
    <3>. DEFINE new == [l EXCEPT !.id = IdAt(l.to)]
    <3>1. loc' = [loc EXCEPT ![Manager] = new]
      BY <1>0, <1>15, <2>2 DEF LookWhich, Types
    <3>2. IdAt(l.to) \in Nat
      BY <1>0, <2>1, <2>2, QueueIds
    <3>3. new \in Local /\ new.pos = l.pos /\ new.opts = l.opts /\ new.to = l.to /\ new.id \in Nat
      BY <1>0, <2>1, <3>2 DEF Local, NatOr
    <3>. HIDE DEF new
    <3>4. PICK label \in {"consumeadvanced", "advance"} : Goto(Manager, label)
      BY <1>15, <2>2 DEF LookWhich
    <3>5. ManagerOnItsWay'
      BY <1>0, <2>1, <3>1, <3>3, <3>4 DEF Types, Goto, ManagerOnItsWay
    <3>. QED
      BY <1>1, <2>1, <3>1, <3>3, <3>4, <3>5 DEF ManagerLabels
  <2>3. CASE ~HasPos(l.to)
    BY <1>3, <1>15, <2>1, <2>3 DEF LookWhich
  <2>. QED
    BY <2>2, <2>3
\* the id to feed is chosen
<1>16. ASSUME NEW id \in NatOr, loc' = [loc EXCEPT ![Manager].id = id], Goto(Manager, "feed"),
              UNCHANGED <<workload, queue, status, engine, inbox, cmd, sent>>
       PROVE  Shape'
  <2>. DEFINE new == [l EXCEPT !.id = id]
  <2>1. loc' = [loc EXCEPT ![Manager] = new]
    BY <1>0, <1>16 DEF Types
  <2>2. new \in Local
    BY <1>0, <1>16 DEF Local
  <2>. HIDE DEF new
  <2>3. ManagerOnItsWay'
    BY <1>0, <1>16, <2>1, <2>2 DEF Types, Goto, ManagerOnItsWay
  <2>. QED
    BY <1>1, <1>16, <2>1, <2>2, <2>3 DEF ManagerLabels
<1>17. CASE FeedFrom
  BY <1>11, <1>16, <1>17 DEF FeedFrom, ManagerLabels, NatOr
<1>18. CASE FeedWhich
  <2>. DEFINE to == Lookahead(l.pos, l.opts)
              ok == to # None /\ HasPos(to) /\ IdAt(to) \notin Ranged
  <2>1. l.pos \in Nat /\ l.opts \in Options
    BY <1>0, <1>18 DEF FeedWhich, At, ManagerOnItsWay
  <2>2. to \in NatOr
    BY <1>13, <2>1
  <2>3. ok => IdAt(to) \in Nat
    BY <1>0, <2>2, QueueIds DEF NatOr
  <2>4. PICK id \in (IF ok THEN {IdAt(to)} ELSE {None})
                   \union (IF workload.failures THEN {None} ELSE {}) :
           loc' = [loc EXCEPT ![Manager].id = id]
    BY <1>18 DEF FeedWhich
  <2>5. id \in NatOr
    BY <2>3, <2>4 DEF NatOr
  <2>. QED
    BY <1>16, <1>18, <2>4, <2>5 DEF FeedWhich
<1>19. CASE Feed
  <2>1. next_song' \in NatOr
    BY <1>0, <1>19 DEF Feed, Local
  <2>2. Types'
    BY <1>0, <1>19, <2>1 DEF Feed, Types, Goto, Procs, ManagerLabels
  <2>3. ManagerOnItsWay'
    BY <1>0, <1>19 DEF Feed, Types, Goto, ManagerOnItsWay
  <2>. QED
    BY <1>2, <1>19, <2>2, <2>3 DEF Feed, ManagerLabels
<1>. QED
  BY <1>5, <1>6, <1>7, <1>8, <1>9, <1>10, <1>12, <1>14, <1>15, <1>17, <1>18, <1>19
     DEF ManagerStep

\* A step of the playback thread keeps the types.
LEMMA ThreadShape ==
  ASSUME Shape, ThreadMove \/ SongEnds \/ Break
  PROVE  Shape'
<1>. USE DEF Shape
<1>1. ThreadStep /\ Types
  BY DEF ThreadMove, Open, SeeStop, Decode, WriteChunk, SongEnds, Finish, Advance, Break
<1>2. thread' \in Thread
  <2>1. CASE thread' = NoThread
    BY <2>1 DEF NoThread, Thread, NatOr
  <2>2. CASE \E st \in {"looping", "decoding"} : thread' = [thread EXCEPT !.st = st]
    BY <1>1, <2>2 DEF Types, Thread
  <2>3. CASE Advance
    BY <1>1, <2>3 DEF Advance, Types, Thread
  <2>. QED
    BY <2>1, <2>2, <2>3 DEF ThreadMove, Open, SeeStop, Decode, WriteChunk, SongEnds, Finish, Break
<1>3. song' \in NatOr /\ next_song' \in NatOr /\ atomic' \in States
  <2>1. CASE UNCHANGED <<song, next_song, atomic>>
    BY <1>1, <2>1 DEF Types
  <2>2. CASE Open
    BY <1>1, <2>2 DEF Open, Types, States
  <2>3. CASE Finish
    BY <1>1, <2>3 DEF Finish, Types, NatOr
  <2>4. CASE Advance
    BY <1>1, <2>4 DEF Advance, Types, NatOr
  <2>. QED
    BY <2>1, <2>2, <2>3, <2>4 DEF ThreadMove, SeeStop, Decode, WriteChunk, SongEnds, Break
<1>4. inbox' \in Seq(Events)
  <2>1. inbox' = inbox \/ \E e \in Events : inbox' = Append(inbox, e)
    <3>1. CASE UNCHANGED inbox
      BY <3>1
    <3>2. CASE \E e \in Events : Emit(e)
      BY <3>2 DEF Emit
    <3>. QED
      BY <3>1, <3>2 DEF ThreadMove, Open, SeeStop, Decode, WriteChunk, SongEnds, Finish, Advance,
                        Break, Events
  <2>. QED
    BY <1>1, <2>1 DEF Types
<1>5. Types'
  BY <1>1, <1>2, <1>3, <1>4 DEF ThreadStep, Types
<1>6. ASSUME NEW c \in Clients PROVE OnItsWay(c)'
  BY <1>1, <1>6 DEF ThreadStep, OnItsWay
<1>7. ManagerOnItsWay'
  BY <1>1 DEF ThreadStep, ManagerOnItsWay
<1>. QED
  BY <1>5, <1>6, <1>7

\* Every step keeps the types, and every call on its way.
LEMMA NextShape == Shape /\ [Next]_vars => Shape'
<1>. SUFFICES ASSUME Shape, [Next]_vars PROVE Shape'
  OBVIOUS
<1>1. CASE UNCHANGED vars
  <2>1. Types'
    BY <1>1 DEF vars, engine, player, Shape, Types
  <2>2. ASSUME NEW c \in Clients PROVE OnItsWay(c)'
    BY <1>1, <2>2 DEF vars, Shape, OnItsWay
  <2>3. ManagerOnItsWay'
    BY <1>1 DEF vars, Shape, ManagerOnItsWay
  <2>. QED
    BY <2>1, <2>2, <2>3 DEF Shape
<1>. QED
  BY <1>1, EngineCallShape, CommandShape, ManagerShape, ThreadShape DEF Next

-----------------------------------------------------------------------------
(* The guard, the song that is to be recorded, and silence.                 *)
Three == Guarded /\ Unrecorded /\ Silent

\* A step of one process keeps the three if it takes or leaves the guard only for
\* itself, and changes the engine's song only while no other process holds the guard.
LEMMA OneGuards ==
  ASSUME Shape, Three, NEW p \in Procs,
         \A q \in Procs \ {p} : pc'[q] = pc[q] /\ loc'[q] = loc[q],
         pc'[p] \in {"join", "joinstop", "record", "tell"} => owner' = p,
         owner' # owner => owner \in {p, Nobody},
         pc'[p] = "record" => song' = loc'[p].id /\ next_song' = None,
         song' # song \/ next_song' # next_song => owner \in {p, Nobody},
         song' = None => ~Live' /\ atomic' = "stop"
  PROVE  Three'
<1>0. Nobody \notin Procs
  BY PlaybackConstants
<1>1. Guarded'
  BY <1>0 DEF Three, Guarded
<1>2. Unrecorded'
  BY <1>0 DEF Three, Guarded, Unrecorded
<1>. QED
  BY <1>1, <1>2 DEF Three, Silent

\* An engine call takes the guard when it is free, and starts or ends a thread only
\* when the old one has been joined.
LEMMA EngineCallGuards ==
  ASSUME Shape, Three, NEW p \in Procs, EngineCall(p)
  PROVE  Three'
<1>. USE DEF EngineCall
<1>0. Types /\ (pc[p] \in {"join", "joinstop"} => owner = p)
  BY DEF Shape, Three, Guarded
<1>1. \A q \in Procs \ {p} : pc'[q] = pc[q] /\ loc'[q] = loc[q]
  BY <1>0 DEF TakeGuard, JoinAndPlay, JoinAndStop, ReportStop, ForgetCurrent, Goto, Types
<1>2. CASE TakeGuard(p)
  BY <1>0, <1>1, <1>2, OneGuards DEF TakeGuard, Goto, Types, Three, Silent, Live
<1>3. CASE JoinAndPlay(p)
  <2>1. loc[p].id \in Nat /\ loc[p].id # None
    BY <1>3, PlaybackConstants DEF JoinAndPlay, At, Shape, OnItsWay, ManagerOnItsWay, Types, Procs
  <2>. QED
    BY <1>0, <1>1, <1>3, <2>1, OneGuards DEF JoinAndPlay, At, Goto, Types, Three, Silent, Live
<1>4. CASE JoinAndStop(p)
  BY <1>0, <1>1, <1>4, OneGuards DEF JoinAndStop, At, Goto, Types, Three, Silent, Live
<1>5. CASE ReportStop(p)
  BY <1>0, <1>1, <1>5, OneGuards DEF ReportStop, engine, player, Goto, Types, Three, Silent, Live
<1>6. CASE ForgetCurrent(p)
  BY <1>0, <1>1, <1>6, OneGuards DEF ForgetCurrent, player, Goto, Types, Three, Silent, Live
<1>. QED
  BY <1>2, <1>3, <1>4, <1>5, <1>6

\* A command leaves the guard only when it holds it.
LEMMA CommandGuards ==
  ASSUME Shape, Three, NEW c \in Clients, Request(c) \/ Command(c)
  PROVE  Three'
<1>. USE DEF Command
<1>0. Types /\ c \in Procs /\ (pc[c] \in {"record", "tell"} => owner = c)
  BY DEF Shape, Three, Guarded, Procs
<1>1. \A q \in Procs \ {c} : pc'[q] = pc[q] /\ loc'[q] = loc[q]
  BY <1>0 DEF Request, FindSong, FindCurrentSong, FindCurrentPosition, FindNeighbour, RecordPlay,
              TellChanged, DecidePause, SetPause, LoadState, SyncState, SetOption, DeleteSong,
              ClearQueue, Goto, Prepared, ChosenAt, Chosen, Types
<1>2. ASSUME UNCHANGED engine, pc'[c] \notin {"join", "joinstop", "record", "tell"}
      PROVE  Three'
  BY <1>0, <1>1, <1>2, OneGuards DEF engine, player, Three, Silent, Live
<1>3. CASE Request(c)
  <2>1. PICK k \in workload.requests[c] : Goto(c, k.op)
    BY <1>3 DEF Request
  <2>2. k.op \in Ops
    <3>1. k \in Commands
      BY <1>0, <2>1, PlaybackConstants DEF Types
    <3>. QED
      BY <3>1 DEF Commands, Ops
  <2>. QED
    BY <1>0, <1>2, <1>3, <2>1, <2>2 DEF Request, Goto, Types, Ops
<1>4. CASE FindSong(c)
  BY <1>0, <1>2, <1>4 DEF FindSong, Goto, Prepared, Types
<1>5. CASE FindCurrentSong(c)
  BY <1>0, <1>2, <1>5 DEF FindCurrentSong, Goto, Prepared, Types
<1>6. CASE FindCurrentPosition(c)
  BY <1>0, <1>2, <1>6 DEF FindCurrentPosition, Goto, Prepared, Types
<1>7. CASE FindNeighbour(c)
  BY <1>0, <1>2, <1>7 DEF FindNeighbour, Goto, Prepared, Types
<1>8. CASE RecordPlay(c)
  BY <1>0, <1>1, <1>8, OneGuards DEF RecordPlay, At, player, Goto, Types, Three, Silent, Live
<1>9. CASE TellChanged(c)
  BY <1>0, <1>1, <1>9, OneGuards DEF TellChanged, At, player, Goto, Types, Three, Silent, Live
<1>10. CASE SetPause(c)
  <2>1. atomic = "stop" => atomic' = "stop"
    BY <1>10 DEF SetPause
  <2>2. pc'[c] = "load" /\ UNCHANGED <<owner, song, next_song, thread>>
    BY <1>0, <1>10 DEF SetPause, Goto, Types
  <2>. QED
    BY <1>0, <1>1, <2>1, <2>2, OneGuards DEF Three, Silent, Live
<1>11. CASE DecidePause(c) \/ LoadState(c) \/ SyncState(c) \/ SetOption(c) \/ DeleteSong(c)
            \/ ClearQueue(c)
  BY <1>0, <1>2, <1>11 DEF DecidePause, LoadState, SyncState, SetOption, DeleteSong, ClearQueue,
                          Goto, Types
<1>. QED
  BY <1>3, <1>4, <1>5, <1>6, <1>7, <1>8, <1>9, <1>10, <1>11

\* The manager leaves the guard only when it holds it, and feeds a song only when
\* nobody does.
LEMMA ManagerGuards ==
  ASSUME Shape, Three, ManagerStep
  PROVE  Three'
<1>. USE DEF ManagerStep
<1>0. Types /\ Manager \in Procs /\ (pc[Manager] \in {"record", "tell"} => owner = Manager)
      /\ pc[Manager] \in ManagerLabels
  BY DEF Shape, Three, Guarded, Procs, Types
<1>1. \A q \in Procs \ {Manager} : pc'[q] = pc[q] /\ loc'[q] = loc[q]
  BY <1>0 DEF Receive, SyncPosition, SongFinished, Consume, RecordAdvance, TellAdvance,
              ReadAdvanced, LookWhere, LookWhich, FeedFrom, FeedWhich, Feed, Goto, Prepared, Types
<1>2. ASSUME UNCHANGED engine, pc'[Manager] \notin {"join", "joinstop", "record", "tell"}
      PROVE  Three'
  BY <1>0, <1>1, <1>2, OneGuards DEF engine, player, Three, Silent, Live
<1>3. CASE Receive
  <2>1. Head(inbox) \in Events
    BY <1>0, <1>3 DEF Receive, Types
  <2>. QED
    BY <1>0, <1>2, <1>3, <2>1 DEF Receive, Goto, Types, Events
<1>4. CASE SyncPosition \/ ReadAdvanced \/ LookWhere \/ LookWhich \/ FeedFrom \/ FeedWhich
  BY <1>0, <1>2, <1>4 DEF SyncPosition, ReadAdvanced, LookWhere, LookWhich, FeedFrom, FeedWhich,
                         Goto, Types
<1>5. CASE SongFinished
  <2>1. \E label \in {"idle", "stop", "consume", "play"} : Goto(Manager, label)
    BY <1>5 DEF SongFinished, Prepared
  <2>. QED
    BY <1>0, <1>2, <1>5, <2>1 DEF SongFinished, Goto, Types
<1>6. CASE Consume
  BY <1>0, <1>2, <1>6 DEF Consume, Prepared, Goto, Types
<1>7. CASE RecordAdvance
  BY <1>0, <1>1, <1>7, OneGuards DEF RecordAdvance, At, engine, player, Goto, Types, Three, Silent, Live
<1>8. CASE TellAdvance
  BY <1>0, <1>1, <1>8, OneGuards DEF TellAdvance, At, player, Goto, Types, Three, Silent, Live
<1>9. CASE Feed
  BY <1>0, <1>1, <1>9, OneGuards DEF Feed, At, Goto, Types, Three, Silent, Live
<1>. QED
  BY <1>3, <1>4, <1>5, <1>6, <1>7, <1>8, <1>9

\* The thread leaves the guard alone; it changes the song only to one that was fed,
\* which none has been while a song is to be recorded.
LEMMA ThreadGuards ==
  ASSUME Shape, Three, ThreadMove \/ SongEnds \/ Break
  PROVE  Three'
<1>1. ThreadStep
  BY DEF ThreadMove, Open, SeeStop, Decode, WriteChunk, SongEnds, Finish, Advance, Break
<1>2. Guarded'
  BY <1>1 DEF ThreadStep, Three, Guarded
<1>3. Unrecorded'
  BY <1>1 DEF ThreadStep, Three, Unrecorded, ThreadMove, Open, SeeStop, Decode, WriteChunk,
              SongEnds, Finish, Advance, Break
<1>4. Silent'
  BY DEF Three, Silent, Live, NoThread, ThreadMove, Open, SeeStop, Decode, WriteChunk,
         SongEnds, Finish, Advance, Break
<1>. QED
  BY <1>2, <1>3, <1>4 DEF Three

\* The invariant is inductive.
LEMMA PlaybackStepInv == PlaybackInv /\ [Next]_vars => PlaybackInv'
<1>. SUFFICES ASSUME PlaybackInv, [Next]_vars PROVE PlaybackInv'
  OBVIOUS
<1>1. Shape'
  BY NextShape DEF PlaybackInv
<1>2. CASE UNCHANGED vars
  <2>1. Three'
    BY <1>2 DEF vars, engine, player, PlaybackInv, Three, Guarded, Unrecorded, Silent, Live
  <2>. QED
    BY <1>1, <2>1 DEF PlaybackInv, Three
<1>3. CASE Next
  <2>1. Three'
    BY <1>3, EngineCallGuards, CommandGuards, ManagerGuards, ThreadGuards DEF Next, PlaybackInv, Three
  <2>. QED
    BY <1>1, <2>1 DEF PlaybackInv, Three
<1>. QED
  BY <1>2, <1>3

-----------------------------------------------------------------------------
(* The look-ahead.                                                          *)
HotLabels == {"record", "tell", "advanced", "where", "which", "consumeadvanced", "advance",
              "telladvanced", "changed", "consume", "play", "join"}

\* What the manager has to be told is in the inbox once it is emitted, and stays there
\* when something else is emitted.
LEMMA EmitPends ==
  ASSUME Types, NEW e \in Events, Emit(e)
  PROVE  /\ e \in {"changed", "advanced"} => Pending'
         /\ pc' = pc /\ Pending => Pending'
<1>1. inbox' = Append(inbox, e) /\ DOMAIN inbox' = 1 .. Len(inbox) + 1 /\ Len(inbox) \in Nat
      /\ inbox'[Len(inbox) + 1] = e /\ DOMAIN inbox = 1 .. Len(inbox)
  BY DEF Emit, Types
<1>2. \A i \in DOMAIN inbox : i \in DOMAIN inbox' /\ inbox'[i] = inbox[i]
  BY <1>1 DEF Types
<1>3. Len(inbox) + 1 \in DOMAIN inbox'
  BY <1>1
<1>. QED
  BY <1>1, <1>2, <1>3 DEF Pending

\* A change that is pending stays so while a connection or the manager does other things.
LEMMA MovesPend ==
  ASSUME Types, Pending, inbox' = inbox, NEW p \in Procs, NEW label, Goto(p, label),
         p \in Clients => pc[p] \notin {"record", "tell"},
         p = Manager => pc[p] \notin HotLabels
  PROVE  Pending'
<1>1. CASE \E i \in DOMAIN inbox : inbox[i] \in {"changed", "advanced"}
  BY <1>1 DEF Pending
<1>2. CASE \E c \in Clients : pc[c] \in {"record", "tell"}
  <2>1. PICK c \in Clients : pc[c] \in {"record", "tell"}
    BY <1>2
  <2>2. pc'[c] = pc[c]
    BY <2>1, PlaybackConstants DEF Goto, Types, HotLabels, Procs
  <2>. QED
    BY <2>1, <2>2 DEF Pending
<1>3. CASE pc[Manager] \in HotLabels
  <2>1. pc'[Manager] = pc[Manager]
    BY <1>3 DEF Goto, Types, Procs
  <2>. QED
    BY <1>3, <2>1 DEF Pending, HotLabels
<1>. QED
  BY <1>1, <1>2, <1>3 DEF Pending, HotLabels

\* What leaves the queue, the current song, the options, the look-ahead and the manager
\* alone, and starts no thread, leaves the look-ahead right.
LEMMA RefedKept ==
  ASSUME Refed, queue' = queue, status'.current = status.current,
         OptionsOf(status)' = OptionsOf(status), next_song' = next_song, Live' => Live,
         Pending => Pending',
         \/ pc'[Manager] = pc[Manager] /\ loc'[Manager] = loc[Manager]
         \/ {pc[Manager], pc'[Manager]} \cap {"ahead", "feed"} = {}
  PROVE  Refed'
<1>1. Target' = Target
  BY DEF Target, Lookahead, OptionsOf, HasPos, IdAt
<1>2. SUFFICES ASSUME status'.current # None, ~Pending'
               PROVE  CASE pc'[Manager] = "ahead" -> /\ loc'[Manager].pos = status'.current.position
                                                     /\ loc'[Manager].opts = OptionsOf(status)'
                        [] pc'[Manager] = "feed"  -> loc'[Manager].id = Target'
                        [] OTHER                  -> Live' => next_song' = Target'
  BY DEF Refed
<1>3. CASE pc[Manager] = "ahead"
  BY <1>2, <1>3 DEF Refed
<1>4. CASE pc[Manager] = "feed"
  BY <1>1, <1>2, <1>4 DEF Refed
<1>5. CASE pc[Manager] \notin {"ahead", "feed"}
  BY <1>1, <1>2, <1>5 DEF Refed
<1>. QED
  BY <1>3, <1>4, <1>5

\* A change that is pending promises nothing yet.
LEMMA RefedPending == Pending' => Refed'
BY DEF Refed

\* A call of the engine keeps the lookahead fed, or on its way: stopping empties it with
\* the thread, and starting is the manager's doing or a command's.
LEMMA EngineCallRefed ==
  ASSUME Shape, Plainly, PlainCommands, Refed, NEW p \in Procs, EngineCall(p)
  PROVE  Refed'
<1>0. Types /\ ManagerOnItsWay /\ (p \in Clients \/ p = Manager)
  BY DEF Shape, Procs
<1>1. CASE TakeGuard(p)
  <2>1. CASE p = Manager /\ pc[p] = "play"
    <3>1. pc'[Manager] = "join"
      BY <1>0, <1>1, <2>1 DEF TakeGuard, At, Goto, Types
    <3>. QED
      BY <3>1, RefedPending DEF Pending
  <2>2. CASE ~(p = Manager /\ pc[p] = "play")
    <3>1. PICK label \in {"join", "joinstop"} : Goto(p, label)
      BY <1>1 DEF TakeGuard
    <3>2. Pending => Pending'
      BY <1>0, <1>1, <2>2, <3>1, MovesPend DEF TakeGuard, HotLabels
    <3>3. \/ pc'[Manager] = pc[Manager] /\ loc'[Manager] = loc[Manager]
          \/ {pc[Manager], pc'[Manager]} \cap {"ahead", "feed"} = {}
      BY <1>0, <1>1, <3>1, PlaybackConstants DEF TakeGuard, Goto, Types, Procs
    <3>. QED
      BY <1>1, <3>2, <3>3, RefedKept DEF TakeGuard, Live
  <2>. QED
    BY <2>1, <2>2
<1>2. CASE JoinAndPlay(p)
  <2>1. pc'[p] = "record"
    BY <1>0, <1>2 DEF JoinAndPlay, Goto, Types
  <2>. QED
    BY <1>0, <2>1, RefedPending DEF Pending
<1>3. CASE JoinAndStop(p)
  BY <1>0, <1>3, EmitPends, RefedPending DEF JoinAndStop, Events
<1>4. CASE ReportStop(p)
  <2>1. PICK label \in {"idle", "forget"} : Goto(p, label)
    BY <1>4 DEF ReportStop
  <2>2. Pending => Pending'
    BY <1>0, <1>4, <2>1, MovesPend DEF ReportStop, At, HotLabels
  <2>3. \/ pc'[Manager] = pc[Manager] /\ loc'[Manager] = loc[Manager]
        \/ {pc[Manager], pc'[Manager]} \cap {"ahead", "feed"} = {}
    BY <1>0, <1>4, <2>1, PlaybackConstants DEF ReportStop, At, Goto, Types, Procs
  <2>4. status'.current = status.current /\ OptionsOf(status)' = OptionsOf(status)
    BY <1>0, <1>4 DEF ReportStop, Types, Status, OptionsOf
  <2>. QED
    BY <1>4, <2>2, <2>3, <2>4, RefedKept DEF ReportStop, engine, player, Live
<1>5. CASE ForgetCurrent(p)
  <2>1. status'.current = None
    BY <1>0, <1>5 DEF ForgetCurrent, Types, Status
  <2>. QED
    BY <2>1 DEF Refed
<1>. QED
  BY <1>1, <1>2, <1>3, <1>4, <1>5 DEF EngineCall

\* A plain command reaches the engine, or leaves the lookahead as it was.
LEMMA CommandRefed ==
  ASSUME Shape, Plainly, PlainCommands, Refed, NEW c \in Clients, Request(c) \/ Command(c)
  PROVE  Refed'
<1>0. Types /\ c \in Procs /\ Manager \in Procs \ {c}
  BY PlaybackConstants DEF Shape, Procs
<1>1. ASSUME NEW label, Goto(c, label), UNCHANGED <<queue, next_song, thread, inbox>>,
             pc[c] \notin {"record", "tell"}, loc'[Manager] = loc[Manager],
             status'.current = status.current, OptionsOf(status)' = OptionsOf(status)
      PROVE  Refed'
  <2>1. Pending => Pending'
    BY <1>0, <1>1, MovesPend
  <2>2. pc'[Manager] = pc[Manager]
    BY <1>0, <1>1 DEF Goto, Types
  <2>. QED
    BY <1>1, <2>1, <2>2, RefedKept DEF Live
<1>2. CASE Request(c)
  <2>1. PICK label : Goto(c, label)
    BY <1>2 DEF Request
  <2>. QED
    BY <1>0, <1>1, <1>2, <2>1 DEF Request, At, engine, player, OptionsOf, Types
<1>3. CASE FindSong(c) \/ FindCurrentSong(c) \/ FindCurrentPosition(c)
  <2>1. PICK label : Goto(c, label)
    BY <1>3 DEF FindSong, FindCurrentSong, FindCurrentPosition, Prepared
  <2>2. loc'[Manager] = loc[Manager]
    BY <1>0, <1>3 DEF FindSong, FindCurrentSong, FindCurrentPosition, ChosenAt, Chosen, Types
  <2>3. pc[c] \notin {"record", "tell"} /\ UNCHANGED <<queue, status, engine, inbox>>
    BY <1>3 DEF FindSong, FindCurrentSong, FindCurrentPosition, At
  <2>. QED
    BY <1>1, <2>1, <2>2, <2>3 DEF engine, player, OptionsOf
<1>4. CASE DecidePause(c) \/ SetPause(c) \/ LoadState(c)
  <2>1. PICK label : Goto(c, label)
    BY <1>4 DEF DecidePause, SetPause, LoadState
  <2>2. loc'[Manager] = loc[Manager]
    BY <1>0, <1>4 DEF DecidePause, SetPause, LoadState, Types
  <2>3. pc[c] \notin {"record", "tell"} /\ UNCHANGED <<queue, status, next_song, thread, inbox>>
    BY <1>4 DEF DecidePause, SetPause, LoadState, At, engine, player
  <2>. QED
    BY <1>1, <2>1, <2>2, <2>3 DEF OptionsOf
<1>5. CASE SyncState(c)
  <2>1. status'.current = status.current /\ OptionsOf(status)' = OptionsOf(status)
    BY <1>0, <1>5 DEF SyncState, Types, Status, OptionsOf
  <2>. QED
    BY <1>1, <1>5, <2>1 DEF SyncState, At, engine, player
<1>6. CASE RecordPlay(c)
  <2>1. cmd[c].op \notin {"next", "previous"}
    BY <1>6 DEF PlainCommands, RecordPlay, At
  <2>2. pc'[c] = "tell"
    BY <1>0, <1>6, <2>1 DEF RecordPlay, Goto, Types
  <2>. QED
    BY <2>2, RefedPending DEF Pending
<1>7. CASE TellChanged(c)
  BY <1>0, <1>7, EmitPends, RefedPending DEF TellChanged, Events
<1>8. ~(FindNeighbour(c) \/ SetOption(c) \/ DeleteSong(c) \/ ClearQueue(c))
  BY DEF PlainCommands, FindNeighbour, SetOption, DeleteSong, ClearQueue, At
<1>. QED
  BY <1>2, <1>3, <1>4, <1>5, <1>6, <1>7, <1>8 DEF Command

\* The manager feeds what it has found to be next, and nothing intervenes when the
\* commands are plain.
LEMMA ManagerRefed ==
  ASSUME Shape, Plainly, PlainCommands, Refed, ManagerStep
  PROVE  Refed'
<1>. DEFINE l == loc[Manager]
<1>0. Types /\ ManagerOnItsWay /\ Manager \in Procs /\ Manager \notin Clients
  BY PlaybackConstants DEF Shape, Procs
<1>1. ASSUME NEW label \in HotLabels, Goto(Manager, label)
      PROVE  Refed'
  <2>1. pc'[Manager] = label
    BY <1>0, <1>1 DEF Goto, Types
  <2>. QED
    BY <1>1, <2>1, RefedPending DEF Pending, HotLabels
<1>2. ASSUME NEW label, Goto(Manager, label), label \notin {"ahead", "feed"},
             pc[Manager] \notin HotLabels \union {"ahead", "feed"},
             UNCHANGED <<queue, next_song, thread, inbox>>,
             status'.current = status.current, OptionsOf(status)' = OptionsOf(status)
      PROVE  Refed'
  <2>1. Pending => Pending'
    BY <1>0, <1>2, MovesPend
  <2>2. pc'[Manager] = label
    BY <1>0, <1>2 DEF Goto, Types
  <2>. QED
    BY <1>2, <2>1, <2>2, RefedKept DEF Live
<1>3. CASE Receive
  <2>1. Head(inbox) \in Events /\ Goto(Manager, Head(inbox)) /\ inbox' = Tail(inbox)
        /\ pc'[Manager] = Head(inbox) /\ pc[Manager] = "idle" /\ inbox # <<>>
    BY <1>0, <1>3 DEF Receive, At, Goto, Types
  <2>2. CASE Head(inbox) \in {"changed", "advanced"}
    BY <1>1, <2>1, <2>2 DEF HotLabels
  <2>3. CASE Head(inbox) \in {"position", "finished"}
    <3>1. Pending => Pending'
      <4>1. CASE \E i \in DOMAIN inbox : inbox[i] \in {"changed", "advanced"}
        <5>1. PICK i \in DOMAIN inbox : inbox[i] \in {"changed", "advanced"}
          BY <4>1
        <5>2. i \in 1 .. Len(inbox) /\ i # 1
          BY <1>0, <2>3, <5>1 DEF Types
        <5>3. i - 1 \in DOMAIN inbox' /\ inbox'[i - 1] = inbox[i]
          BY <1>0, <2>1, <5>2 DEF Types
        <5>. QED
          BY <5>1, <5>3 DEF Pending
      <4>2. CASE \E c \in Clients : pc[c] \in {"record", "tell"}
        <5>1. PICK c \in Clients : pc[c] \in {"record", "tell"}
          BY <4>2
        <5>2. pc'[c] = pc[c]
          BY <1>0, <2>1, <5>1 DEF Goto, Types, Procs
        <5>. QED
          BY <5>1, <5>2 DEF Pending
      <4>. QED
        BY <2>1, <4>1, <4>2 DEF Pending
    <3>. QED
      BY <1>3, <2>1, <2>3, <3>1, RefedKept DEF Receive, engine, player, Live, OptionsOf
  <2>. QED
    BY <2>1, <2>2, <2>3 DEF Events
<1>4. CASE SyncPosition
  <2>1. status'.current = status.current /\ OptionsOf(status)' = OptionsOf(status)
    BY <1>0, <1>4 DEF SyncPosition, Types, Status, OptionsOf
  <2>. QED
    BY <1>2, <1>4, <2>1 DEF SyncPosition, At, engine, player, HotLabels
<1>5. CASE SongFinished
  <2>1. PICK label \in {"idle", "stop", "consume", "play"} : Goto(Manager, label)
    BY <1>5 DEF SongFinished, Prepared
  <2>2. pc[Manager] = "finished" /\ UNCHANGED <<queue, status, engine, inbox>>
    BY <1>5 DEF SongFinished, At
  <2>. QED
    BY <1>1, <1>2, <2>1, <2>2 DEF engine, player, HotLabels, OptionsOf
<1>6. CASE Consume
  <2>1. PICK label \in {"play", "advance"} : Goto(Manager, label)
    BY <1>6 DEF Consume, Prepared, Plainly
  <2>. QED
    BY <1>1, <2>1 DEF HotLabels
<1>7. CASE RecordAdvance
  BY <1>1, <1>7 DEF RecordAdvance, HotLabels
<1>8. CASE TellAdvance
  BY <1>0, <1>8, EmitPends, RefedPending DEF TellAdvance, Events
<1>9. CASE ReadAdvanced \/ LookWhere \/ LookWhich
  BY <1>1, <1>9 DEF ReadAdvanced, LookWhere, LookWhich, HotLabels
<1>10. CASE FeedFrom
  <2>1. CASE status.current = None
    BY <1>10, <2>1 DEF FeedFrom, Refed
  <2>2. CASE status.current # None
    <3>1. pc'[Manager] = "ahead" /\ status' = status
      BY <1>0, <1>10, <2>2 DEF FeedFrom, Goto, Types
    <3>2. loc'[Manager].pos = status.current.position /\ loc'[Manager].opts = OptionsOf(status)
      BY <1>0, <1>10, <2>2 DEF FeedFrom, Types, Local
    <3>. QED
      BY <3>1, <3>2 DEF Refed, OptionsOf
  <2>. QED
    BY <2>1, <2>2
<1>11. CASE FeedWhich
  <2>1. pc[Manager] = "ahead" /\ pc'[Manager] = "feed" /\ Goto(Manager, "feed")
        /\ UNCHANGED <<queue, status, inbox>>
    BY <1>0, <1>11 DEF FeedWhich, At, Goto, Types
  <2>2. Pending => Pending'
    BY <1>0, <2>1, MovesPend DEF HotLabels
  <2>3. ASSUME status.current # None, ~Pending
        PROVE  loc'[Manager].id = Target
    <3>1. l.pos = status.current.position /\ l.opts = OptionsOf(status)
      BY <2>1, <2>3 DEF Refed
    <3>. DEFINE to == Lookahead(l.pos, l.opts)
                ok == to # None /\ HasPos(to) /\ IdAt(to) \notin Ranged
    <3>2. loc' = [loc EXCEPT ![Manager].id = IF ok THEN IdAt(to) ELSE None]
      BY <1>11 DEF FeedWhich, Plainly
    <3>3. loc'[Manager].id = IF ok THEN IdAt(to) ELSE None
      BY <1>0, <3>2 DEF Types, Local
    <3>4. Target = IF ok THEN IdAt(to) ELSE None
      BY <3>1 DEF Target
    <3>. QED
      BY <3>3, <3>4
  <2>4. Target' = Target
    BY <2>1 DEF Target, Lookahead, OptionsOf, HasPos, IdAt
  <2>. QED
    BY <2>1, <2>2, <2>3, <2>4 DEF Refed
<1>12. CASE Feed
  <2>1. pc[Manager] = "feed" /\ pc'[Manager] = "idle" /\ Goto(Manager, "idle")
        /\ next_song' = l.id /\ UNCHANGED <<queue, status, inbox>>
    BY <1>0, <1>12 DEF Feed, At, Goto, Types
  <2>2. Pending => Pending'
    BY <1>0, <2>1, MovesPend DEF HotLabels
  <2>3. Target' = Target
    BY <2>1 DEF Target, Lookahead, OptionsOf, HasPos, IdAt
  <2>. QED
    BY <2>1, <2>2, <2>3 DEF Refed
<1>. QED
  BY <1>3, <1>4, <1>5, <1>6, <1>7, <1>8, <1>9, <1>10, <1>11, <1>12 DEF ManagerStep

\* The thread tells the manager of every song it takes from the lookahead.
LEMMA ThreadRefed ==
  ASSUME Shape, Refed, ThreadMove \/ SongEnds \/ Break
  PROVE  Refed'
<1>1. ThreadStep /\ Types
  BY DEF ThreadMove, Open, SeeStop, Decode, WriteChunk, SongEnds, Finish, Advance, Break, Shape
<1>2. status' = status /\ queue' = queue /\ pc' = pc /\ loc' = loc
      /\ OptionsOf(status)' = OptionsOf(status)
  BY <1>1 DEF ThreadStep, OptionsOf
<1>3. CASE Advance
  BY <1>1, <1>3, EmitPends, RefedPending DEF Advance, Events
<1>4. CASE ~Advance
  <2>1. Pending => Pending'
    <3>1. CASE UNCHANGED inbox
      BY <1>2, <3>1 DEF Pending
    <3>2. CASE \E e \in Events : Emit(e)
      BY <1>1, <1>2, <3>2, EmitPends
    <3>. QED
      BY <1>4, <3>1, <3>2 DEF ThreadMove, Open, SeeStop, Decode, WriteChunk, SongEnds, Finish, Break,
                              Events
  <2>2. Live' => Live /\ next_song' = next_song
    BY <1>4 DEF ThreadMove, Open, SeeStop, Decode, WriteChunk, SongEnds, Finish, Break, Live, NoThread
  <2>3. CASE Live'
    BY <1>2, <2>1, <2>2, <2>3, RefedKept
  <2>4. CASE ~Live'
    <3>1. Target' = Target
      BY <1>2 DEF Target, Lookahead, OptionsOf, HasPos, IdAt
    <3>. QED
      BY <1>2, <2>1, <2>4, <3>1 DEF Refed
  <2>. QED
    BY <2>3, <2>4
<1>. QED
  BY <1>3, <1>4

\* The connections stay at the commands they were given, which are plain.
LEMMA PlainStep ==
  ASSUME Shape, Plainly, PlainCommands, Next
  PROVE  Plainly' /\ PlainCommands'
<1>. DEFINE Plain == {"playat", "playid", "resume", "pause", "stop"}
            Good(c) == /\ pc'[c] \notin {"next", "previous", "set", "delete", "clear"}
                       /\ pc'[c] # "idle" => cmd'[c].op \in Plain
<1>0. Types /\ workload' = workload
  BY DEF Shape, Next, EngineCall, TakeGuard, JoinAndPlay, JoinAndStop, ReportStop, ForgetCurrent,
         Command, Request, FindSong, FindCurrentSong, FindCurrentPosition, FindNeighbour,
         RecordPlay, TellChanged, DecidePause, SetPause, LoadState, SyncState, SetOption,
         DeleteSong, ClearQueue, ManagerStep, Receive, SyncPosition, SongFinished, Consume,
         RecordAdvance, TellAdvance, ReadAdvanced, LookWhere, LookWhich, FeedFrom, FeedWhich, Feed,
         ThreadMove, Open, SeeStop, Decode, WriteChunk, SongEnds, Finish, Advance, Break, ThreadStep
<1>1. Plainly'
  BY <1>0 DEF Plainly
<1>2. ASSUME NEW p \in Procs, NEW label, Goto(p, label), cmd' = cmd, pc[p] # "idle",
             label \notin {"next", "previous", "set", "delete", "clear"}
      PROVE  PlainCommands'
  BY <1>0, <1>2 DEF Goto, Types, PlainCommands
<1>3. ASSUME NEW p \in Procs, EngineCall(p)
      PROVE  PlainCommands'
  <2>1. PICK label \in {"join", "joinstop", "record", "stopped", "forget", "idle"} : Goto(p, label)
    BY <1>3 DEF EngineCall, TakeGuard, JoinAndPlay, JoinAndStop, ReportStop, ForgetCurrent
  <2>2. cmd' = cmd /\ pc[p] # "idle"
    BY <1>3 DEF EngineCall, TakeGuard, JoinAndPlay, JoinAndStop, ReportStop, ForgetCurrent, At
  <2>. QED
    BY <1>2, <2>1, <2>2
<1>4. ASSUME NEW c \in Clients, Request(c)
      PROVE  PlainCommands'
  <2>1. PICK k \in workload.requests[c] : cmd' = [cmd EXCEPT ![c] = k] /\ Goto(c, k.op)
    BY <1>4 DEF Request
  <2>2. k.op \in Plain
    BY <2>1 DEF Plainly
  <2>. QED
    BY <1>0, <2>1, <2>2 DEF Goto, Types, PlainCommands, Procs
<1>5. ASSUME NEW c \in Clients, Command(c)
      PROVE  PlainCommands'
  <2>1. PICK label \in {"play", "idle", "position", "tell", "setpause", "load", "sync", "stop"} :
          Goto(c, label)
    BY <1>5 DEF Command, FindSong, FindCurrentSong, FindCurrentPosition, FindNeighbour, RecordPlay,
                TellChanged, DecidePause, SetPause, LoadState, SyncState, SetOption, DeleteSong,
                ClearQueue, Prepared
  <2>2. cmd' = cmd /\ pc[c] # "idle"
    BY <1>5 DEF Command, FindSong, FindCurrentSong, FindCurrentPosition, FindNeighbour, RecordPlay,
                TellChanged, DecidePause, SetPause, LoadState, SyncState, SetOption, DeleteSong,
                ClearQueue, At
  <2>. QED
    BY <1>2, <2>1, <2>2 DEF Procs
<1>6. CASE ManagerStep \/ ThreadMove \/ SongEnds \/ Break
  <2>1. cmd' = cmd
    BY <1>6 DEF ManagerStep, Receive, SyncPosition, SongFinished, Consume, RecordAdvance,
                TellAdvance, ReadAdvanced, LookWhere, LookWhich, FeedFrom, FeedWhich, Feed,
                ThreadMove, Open, SeeStop, Decode, WriteChunk, SongEnds, Finish, Advance, Break,
                ThreadStep
  <2>2. \A c \in Clients : pc'[c] = pc[c]
    <3>1. pc' = pc \/ \E label : Goto(Manager, label)
      BY <1>6 DEF ManagerStep, Receive, SyncPosition, SongFinished, Consume, RecordAdvance,
                  TellAdvance, ReadAdvanced, LookWhere, LookWhich, FeedFrom, FeedWhich, Feed,
                  ThreadMove, Open, SeeStop, Decode, WriteChunk, SongEnds, Finish, Advance, Break,
                  ThreadStep, Prepared
    <3>. QED
      BY <1>0, <3>1, PlaybackConstants DEF Goto, Types, Procs
  <2>3. ASSUME NEW c \in Clients
        PROVE  /\ pc'[c] \notin {"next", "previous", "set", "delete", "clear"}
               /\ pc'[c] # "idle" => cmd'[c].op \in Plain
    BY <2>1, <2>2, <2>3, PlainCommands DEF PlainCommands
  <2>. QED
    BY <1>1, <2>3 DEF PlainCommands
<1>. QED
  BY <1>1, <1>3, <1>4, <1>5, <1>6 DEF Next

\* The invariant of the lookahead is inductive, given the other.
LEMMA LookaheadStepInv == PlaybackInv /\ LookaheadInv /\ [Next]_vars => LookaheadInv'
<1>. SUFFICES ASSUME PlaybackInv, LookaheadInv, [Next]_vars PROVE LookaheadInv'
  OBVIOUS
<1>1. CASE UNCHANGED vars
  BY <1>1 DEF vars, engine, player, LookaheadInv, Plainly, PlainCommands, Refed, Pending, Target,
              Lookahead, OptionsOf, HasPos, IdAt, Live
<1>2. CASE Next
  <2>1. Plainly' => Plainly
    <3>1. workload' = workload
      BY <1>2 DEF Next, EngineCall, TakeGuard, JoinAndPlay, JoinAndStop, ReportStop, ForgetCurrent,
         Command, Request, FindSong, FindCurrentSong, FindCurrentPosition, FindNeighbour,
         RecordPlay, TellChanged, DecidePause, SetPause, LoadState, SyncState, SetOption,
         DeleteSong, ClearQueue, ManagerStep, Receive, SyncPosition, SongFinished, Consume,
         RecordAdvance, TellAdvance, ReadAdvanced, LookWhere, LookWhich, FeedFrom, FeedWhich, Feed,
         ThreadMove, Open, SeeStop, Decode, WriteChunk, SongEnds, Finish, Advance, Break, ThreadStep
    <3>. QED
      BY <3>1 DEF Plainly
  <2>2. SUFFICES ASSUME Plainly PROVE PlainCommands' /\ Refed'
    BY <2>1 DEF LookaheadInv
  <2>3. PlainCommands /\ Refed /\ Shape
    BY <2>2 DEF LookaheadInv, PlaybackInv
  <2>4. PlainCommands'
    BY <1>2, <2>2, <2>3, PlainStep
  <2>5. Refed'
    BY <1>2, <2>2, <2>3, EngineCallRefed, CommandRefed, ManagerRefed, ThreadRefed DEF Next
  <2>. QED
    BY <2>4, <2>5
<1>. QED
  BY <1>1, <1>2

-----------------------------------------------------------------------------
(* The theorems.                                                            *)

\* Both inductive invariants hold in every reachable state.
LEMMA PlaybackAlways == Spec => [](PlaybackInv /\ LookaheadInv)
<1>. DEFINE Inv == PlaybackInv /\ LookaheadInv
<1>1. Init => Inv
  BY PlaybackInvInit
<1>2. Inv /\ [Next]_vars => Inv'
  BY PlaybackStepInv, LookaheadStepInv
<1>. HIDE DEF Inv
<1>3. Spec => []Inv
  BY <1>1, <1>2, PTL DEF Spec
<1>. QED
  BY <1>3 DEF Inv

\* The shared state keeps its types: among others the position on record never goes
\* below 0, also when a consumed song was before it.
THEOREM PlaybackTypes == Spec => []TypeOK
<1>1. PlaybackInv => TypeOK
  BY DEF PlaybackInv, Shape, Types, TypeOK, Status, Thread, Place, States
<1>. QED
  BY <1>1, PlaybackAlways, PTL

\* An engine without a song has no thread and is stopped, whatever commands, manager
\* and thread did in what order.
THEOREM PlaybackSilence == Spec => []StoppedIsSilent
<1>1. PlaybackInv => StoppedIsSilent
  BY DEF PlaybackInv, Silent, StoppedIsSilent
<1>. QED
  BY <1>1, PlaybackAlways, PTL

\* A command and the manager record as current the song the engine is on: under the
\* guard nobody else starts, stops, feeds or advances.
THEOREM PlaybackRecords == Spec => RecordedIsPlaying
<1>. DEFINE Right == \A p \in Procs :
                       (At(p, "record") /\ pc'[p] # "record" /\ cmd[p].op # "resume")
                       => status'.current.id = song
<1>1. PlaybackInv /\ [Next]_vars => [Right]_vars
  <2>1. SUFFICES ASSUME PlaybackInv, Next, NEW p \in Procs, pc[p] = "record", pc'[p] # "record",
                        cmd[p].op # "resume"
                 PROVE  status'.current.id = song
    BY DEF At
  <2>2. Types /\ song = loc[p].id
    BY <2>1 DEF PlaybackInv, Shape, Unrecorded
  <2>3. CASE RecordPlay(p)
    <3>1. p \in Clients /\ loc[p].to = None /\ loc[p].pos \in Nat /\ loc[p].pos # None
      BY <2>1, <2>3, PlaybackConstants DEF PlaybackInv, Shape, OnItsWay, RecordPlay
    <3>2. status'.current = [position |-> loc[p].pos, id |-> loc[p].id]
      BY <2>2, <2>3, <3>1 DEF RecordPlay, Types, Status
    <3>. QED
      BY <2>2, <3>2
  <2>4. CASE p = Manager /\ RecordAdvance
    BY <2>2, <2>4 DEF RecordAdvance, Advanced, Types, Status
  <2>5. ASSUME NEW q \in Procs \ {p}, NEW label, Goto(q, label)
        PROVE  FALSE
    BY <2>1, <2>2, <2>5 DEF Goto, Types
  <2>6. ASSUME NEW q \in Procs, EngineCall(q)
        PROVE  FALSE
    <3>1. \E label : Goto(q, label)
      BY <2>6 DEF EngineCall, TakeGuard, JoinAndPlay, JoinAndStop, ReportStop, ForgetCurrent
    <3>2. pc[q] # "record"
      BY <2>6 DEF EngineCall, TakeGuard, JoinAndPlay, JoinAndStop, ReportStop, ForgetCurrent, At
    <3>. QED
      BY <2>1, <2>5, <3>1, <3>2
  <2>7. ASSUME NEW c \in Clients, Request(c) \/ Command(c)
        PROVE  c = p /\ RecordPlay(p)
    <3>1. \E label : Goto(c, label)
      BY <2>7 DEF Request, Command, FindSong, FindCurrentSong, FindCurrentPosition, FindNeighbour,
                  RecordPlay, TellChanged, DecidePause, SetPause, LoadState, SyncState, SetOption,
                  DeleteSong, ClearQueue, Prepared
    <3>2. c = p
      BY <2>5, <3>1 DEF Procs
    <3>. QED
      BY <2>1, <2>7, <3>2 DEF Request, Command, FindSong, FindCurrentSong, FindCurrentPosition,
                  FindNeighbour, TellChanged, DecidePause, SetPause, LoadState, SyncState, SetOption,
                  DeleteSong, ClearQueue, At
  <2>8. ASSUME ManagerStep
        PROVE  p = Manager /\ RecordAdvance
    <3>1. \E label : Goto(Manager, label)
      BY <2>8 DEF ManagerStep, Receive, SyncPosition, SongFinished, Consume, RecordAdvance,
                  TellAdvance, ReadAdvanced, LookWhere, LookWhich, FeedFrom, FeedWhich, Feed, Prepared
    <3>2. p = Manager
      BY <2>5, <3>1 DEF Procs
    <3>. QED
      BY <2>1, <2>8, <3>2 DEF ManagerStep, Receive, SyncPosition, SongFinished, Consume,
                  TellAdvance, ReadAdvanced, LookWhere, LookWhich, FeedFrom, FeedWhich, Feed, At
  <2>9. ~(ThreadMove \/ SongEnds \/ Break)
    BY <2>1 DEF ThreadMove, Open, SeeStop, Decode, WriteChunk, SongEnds, Finish, Advance, Break,
                ThreadStep
  <2>. QED
    BY <2>1, <2>3, <2>4, <2>6, <2>7, <2>8, <2>9 DEF Next
<1>. QED
  BY <1>1, PlaybackAlways, PTL DEF Spec, RecordedIsPlaying

\* As long as connections only start, stop and pause, the look-ahead is right whenever
\* things settle: after every change of song the manager has a change to hear of, or is
\* about to feed what follows the current song.
THEOREM PlaybackRefeeds == Spec => []LookaheadRefed
<1>1. PlaybackInv /\ LookaheadInv => LookaheadRefed
  <2>1. SUFFICES ASSUME PlaybackInv, LookaheadInv, Plainly, Settled, Live, status.current # None
                 PROVE  next_song = Target
    BY DEF LookaheadRefed, LookaheadFollows, Target, Plainly
  <2>2. ~Pending /\ pc[Manager] = "idle"
    BY <2>1 DEF Settled, Pending, At, Procs
  <2>. QED
    BY <2>1, <2>2 DEF LookaheadInv, Refed
<1>. QED
  BY <1>1, PlaybackAlways, PTL

=============================================================================
