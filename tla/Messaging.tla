------------------------------ MODULE Messaging ------------------------------
(***************************************************************************)
(* Connections (server.rs), the event bus (event.rs) and idle on top of    *)
(* the message broker: who is told what, and what a connection leaves      *)
(* behind.                                                                 *)
(*                                                                         *)
(* The bus is a broadcast channel: every connection has its own backlog,   *)
(* and one that falls BusCap behind loses its oldest events, which its     *)
(* next receive reports as a lag.  Events are represented by the idle      *)
(* subsystem they map to.                                                  *)
(***************************************************************************)
EXTENDS MessageBroker

CONSTANTS
  Conns,             \* connections, each opened at most once
  Subsystems,        \* idle subsystems in use, "message" and "subscription" among them
  Filters,           \* Filters[c]: the subsystem sets c idles on; {} is all
  BusCap,            \* capacity of the bus: 4096 in the code
  MaxSubscriptions,  \* per connection: 16 in the code
  MaxEvents,         \* bound: events emitted
  Failures           \* whether a read or write of a socket may fail

ASSUME MessagingConstants ==
  /\ {"message", "subscription"} \subseteq Subsystems
  /\ BusCap \in Nat \ {0} /\ MaxSubscriptions \in Nat /\ MaxEvents \in Nat

VARIABLES
  mode,      \* "new", "ready" for a command, "emit", "idle" waits, "drain",
             \* "closed", "broken"
  conn_id,   \* conn_state.message_client_id; 0 before registration
  channels,  \* conn_state.subscribed_channels
  emitting,  \* the event a handler is about to emit
  filter,    \* subsystems of the idle in progress
  unread,    \* the client was told of messages and has not read them
  rx,        \* backlog of the connection's bus receiver
  overwritten, \* events gone from the backlog since the last receive; not
             \* empty, the next receive is a lag
  drained,   \* raw_subsystems: what the drain in progress has taken
  owed,      \* subsystems that changed and the client does not know of
  lost,      \* history: of these, what a drain dropped without a report
  emitted    \* number of events so far

conns == <<mode, conn_id, channels, emitting, filter, unread>>
bus   == <<rx, overwritten, drained, owed, lost, emitted>>
vars  == <<broker, conns, bus>>

Open == {c \in Conns : mode[c] \in {"ready", "emit", "idle", "drain"}}
Watched(F) == IF F = {} THEN Subsystems ELSE F

Init ==
  /\ BrokerInit
  /\ mode = [c \in Conns |-> "new"]
  /\ conn_id = [c \in Conns |-> 0]
  /\ channels = [c \in Conns |-> {}]
  /\ emitting = [c \in Conns |-> "none"]
  /\ filter = [c \in Conns |-> {}]
  /\ unread = [c \in Conns |-> FALSE]
  /\ rx = [c \in Conns |-> <<>>]
  /\ overwritten = [c \in Conns |-> {}]
  /\ drained = [c \in Conns |-> {}]
  /\ owed = [c \in Conns |-> {}]
  /\ lost = [c \in Conns |-> {}]
  /\ emitted = 0

SetMode(c, m) == mode' = [mode EXCEPT ![c] = m]

\* Still room for the event a handler may emit.
MayEmit == emitted + Cardinality({c \in Conns : mode[c] = "emit"}) < MaxEvents

-----------------------------------------------------------------------------
(* Connections.                                                            *)
Connect(c) ==
  /\ mode[c] = "new"
  /\ RegisterClient
  /\ conn_id' = [conn_id EXCEPT ![c] = next_client_id]
  /\ SetMode(c, "ready")
  /\ UNCHANGED <<channels, emitting, filter, unread, bus>>

\* close, end of file, a malformed line, the idle timeout: the loop breaks
\* and the cleanup after it runs.
Disconnect(c) ==
  /\ mode[c] = "ready"
  /\ UnregisterClient(conn_id[c])
  /\ SetMode(c, "closed")
  /\ UNCHANGED <<conn_id, channels, emitting, filter, unread, bus>>

\* An I/O error leaves by the ? operator, past the cleanup: the mailbox stays
\* in the broker and keeps collecting messages.
Abort(c) ==
  /\ Failures /\ mode[c] = "ready"
  /\ SetMode(c, "broken")
  /\ UNCHANGED <<broker, conn_id, channels, emitting, filter, unread, bus>>

Subscribe(c, ch) ==
  /\ mode[c] = "ready" /\ MayEmit
  /\ ch \notin channels[c] /\ Cardinality(channels[c]) < MaxSubscriptions
  /\ channels' = [channels EXCEPT ![c] = @ \union {ch}]
  /\ RegisterSubscriber(conn_id[c], ch)
  /\ SetMode(c, "emit") /\ emitting' = [emitting EXCEPT ![c] = "subscription"]
  /\ UNCHANGED <<conn_id, filter, unread, bus>>

\* Mutant: the broker is not told.
UnsubscribeLocally(c, ch) ==
  /\ mode[c] = "ready" /\ MayEmit
  /\ ch \in channels[c]
  /\ channels' = [channels EXCEPT ![c] = @ \ {ch}]
  /\ SetMode(c, "emit") /\ emitting' = [emitting EXCEPT ![c] = "subscription"]
  /\ UNCHANGED <<broker, conn_id, filter, unread, bus>>

Unsubscribe(c, ch) ==
  /\ mode[c] = "ready" /\ MayEmit
  /\ ch \in channels[c]
  /\ channels' = [channels EXCEPT ![c] = @ \ {ch}]
  /\ UnregisterSubscriber(conn_id[c], ch)
  /\ SetMode(c, "emit") /\ emitting' = [emitting EXCEPT ![c] = "subscription"]
  /\ UNCHANGED <<conn_id, filter, unread, bus>>

\* The broker's lock is released before the event is emitted.
Send(c, ch, text) ==
  /\ mode[c] = "ready" /\ MayEmit
  /\ SendMessage(ch, text)
  /\ IF WakesIdle(ch)
     THEN SetMode(c, "emit") /\ emitting' = [emitting EXCEPT ![c] = "message"]
     ELSE UNCHANGED <<mode, emitting>>
  /\ UNCHANGED <<conn_id, channels, filter, unread, bus>>

\* A client that has read its messages knows of them.
Read(c) ==
  /\ mode[c] = "ready"
  /\ ReadMessages(conn_id[c])
  /\ unread' = [unread EXCEPT ![c] = FALSE]
  /\ owed' = [owed EXCEPT ![c] = @ \ {"message"}]
  /\ lost' = [lost EXCEPT ![c] = @ \ {"message"}]
  /\ UNCHANGED <<mode, conn_id, channels, emitting, filter, rx, overwritten, drained, emitted>>

-----------------------------------------------------------------------------
(* The bus.                                                                *)

\* A full backlog makes room for one more event.
Room(q) == IF Len(q) = BusCap THEN Tail(q) ELSE q

\* Mutant: the oldest event goes without a word.
PublishSilently(s) ==
  /\ rx' = [c \in Conns |-> IF c \in Open THEN Append(Room(rx[c]), s) ELSE rx[c]]
  /\ owed' = [c \in Conns |-> IF c \in Open THEN owed[c] \union {s} ELSE owed[c]]
  /\ emitted' = emitted + 1
  /\ UNCHANGED <<overwritten, drained, lost>>

\* Deliver to every receiver; a full backlog drops its oldest event.
Publish(s) ==
  /\ rx' = [c \in Conns |-> IF c \in Open THEN Append(Room(rx[c]), s) ELSE rx[c]]
  /\ overwritten' = [c \in Conns |->
                       IF c \in Open /\ Len(rx[c]) = BusCap
                       THEN overwritten[c] \union {Head(rx[c])} ELSE overwritten[c]]
  /\ owed' = [c \in Conns |-> IF c \in Open THEN owed[c] \union {s} ELSE owed[c]]
  /\ emitted' = emitted + 1
  /\ UNCHANGED <<drained, lost>>

Emit(c) ==
  /\ mode[c] = "emit"
  /\ Publish(emitting[c])
  /\ SetMode(c, "ready") /\ emitting' = [emitting EXCEPT ![c] = "none"]
  /\ UNCHANGED <<broker, conn_id, channels, filter, unread>>

\* Any other part of the server: a queue edit, the player, an output.
EmitOther(s) ==
  /\ MayEmit /\ s \notin {"message", "subscription"}
  /\ Publish(s)
  /\ UNCHANGED <<broker, conns>>

-----------------------------------------------------------------------------
(* idle.                                                                   *)

\* A client told of messages reads them before it idles again.
BeginIdle(c, F) ==
  /\ mode[c] = "ready" /\ ~unread[c]
  /\ SetMode(c, "idle") /\ filter' = [filter EXCEPT ![c] = F]
  /\ UNCHANGED <<broker, conn_id, channels, emitting, unread, bus>>

\* The answer names S, and the connection takes commands again.
Report(c, S) ==
  /\ SetMode(c, "ready")
  /\ owed' = [owed EXCEPT ![c] = @ \ S]
  /\ unread' = [unread EXCEPT ![c] = @ \/ "message" \in S]

\* What has been drained is reported as far as it is watched; if none of it
\* is, the idle goes on waiting.
Answer(c) ==
  LET changed == drained[c] \intersect Watched(filter[c])
  IN  IF changed = {} THEN SetMode(c, "idle") /\ UNCHANGED <<owed, unread>>
      ELSE Report(c, changed)

\* recv gives one event.
TakeEvent(c) ==
  /\ mode[c] = "idle" /\ overwritten[c] = {} /\ rx[c] # <<>>
  /\ SetMode(c, "drain")
  /\ drained' = [drained EXCEPT ![c] = {Head(rx[c])}]
  /\ rx' = [rx EXCEPT ![c] = Tail(@)]
  /\ UNCHANGED <<broker, conn_id, channels, emitting, filter, unread,
                 overwritten, owed, lost, emitted>>

\* Mutant: keeps the last event of the drain only.
DrainNewest(c) ==
  /\ mode[c] = "drain" /\ overwritten[c] = {} /\ rx[c] # <<>>
  /\ drained' = [drained EXCEPT ![c] = {Head(rx[c])}]
  /\ rx' = [rx EXCEPT ![c] = Tail(@)]
  /\ UNCHANGED <<broker, conns, overwritten, owed, lost, emitted>>

\* try_recv gives one more; other tasks may emit in between.
DrainEvent(c) ==
  /\ mode[c] = "drain" /\ overwritten[c] = {} /\ rx[c] # <<>>
  /\ drained' = [drained EXCEPT ![c] = @ \union {Head(rx[c])}]
  /\ rx' = [rx EXCEPT ![c] = Tail(@)]
  /\ UNCHANGED <<broker, conns, overwritten, owed, lost, emitted>>

\* try_recv has none: what the filter leaves out is dropped.
DrainEnds(c) ==
  /\ mode[c] = "drain" /\ overwritten[c] = {} /\ rx[c] = <<>>
  /\ Answer(c)
  /\ drained' = [drained EXCEPT ![c] = {}]
  /\ lost' = [lost EXCEPT ![c] = @ \intersect owed'[c]]
  /\ UNCHANGED <<broker, conn_id, channels, emitting, filter, rx, overwritten, emitted>>

\* try_recv reports a lag, which ends the loop like an empty backlog: what
\* was overwritten is not heard of again.  The backlog stays.
DrainLagged(c) ==
  /\ mode[c] = "drain" /\ overwritten[c] # {}
  /\ Answer(c)
  /\ drained' = [drained EXCEPT ![c] = {}]
  /\ overwritten' = [overwritten EXCEPT ![c] = {}]
  /\ lost' = [lost EXCEPT ![c] = (@ \union overwritten[c]) \intersect owed'[c]]
  /\ UNCHANGED <<broker, conn_id, channels, emitting, filter, rx, emitted>>

\* After a lag every watched subsystem is reported; the backlog stays.
IdleLagged(c) ==
  /\ mode[c] = "idle" /\ overwritten[c] # {}
  /\ Report(c, Watched(filter[c]))
  /\ overwritten' = [overwritten EXCEPT ![c] = {}]
  /\ lost' = [lost EXCEPT ![c] = @ \intersect owed'[c]]
  /\ UNCHANGED <<broker, conn_id, channels, emitting, filter, rx, drained, emitted>>

\* The task of a connection in idle.
Idling(c) ==
  TakeEvent(c) \/ DrainEvent(c) \/ DrainEnds(c) \/ DrainLagged(c) \/ IdleLagged(c)

\* noidle, or any other line, ends the idle with OK.
NoIdle(c) ==
  /\ mode[c] = "idle"
  /\ SetMode(c, "ready")
  /\ UNCHANGED <<broker, conn_id, channels, emitting, filter, unread, bus>>

Next ==
  \/ \E c \in Conns :
       \/ Connect(c) \/ Disconnect(c) \/ Abort(c) \/ Read(c) \/ Emit(c)
       \/ TakeEvent(c) \/ DrainEvent(c) \/ DrainEnds(c) \/ DrainLagged(c)
       \/ IdleLagged(c) \/ NoIdle(c)
       \/ \E F \in Filters[c] : BeginIdle(c, F)
       \/ \E ch \in Channels :
            \/ Subscribe(c, ch) \/ Unsubscribe(c, ch)
            \/ \E text \in Texts : Send(c, ch, text)
  \/ \E s \in Subsystems : EmitOther(s)

\* The runtime polls every connection task; a client owes nothing.
Fairness ==
  \A c \in Conns : WF_vars(Emit(c)) /\ WF_vars(Idling(c))

Spec == Init /\ [][Next]_vars
FairSpec == Spec /\ Fairness

-----------------------------------------------------------------------------
\* The broker, the event bus and the connections as the code declares them; no
\* receiver of the bus falls behind by more than its capacity.
TypeOK ==
  /\ BrokerTypeOK
  /\ mode \in [Conns -> {"new", "ready", "emit", "idle", "drain", "closed", "broken"}]
  /\ conn_id \in [Conns -> 0 .. MaxClients]
  /\ channels \in [Conns -> SUBSET Channels]
  /\ \A c \in Conns : Len(rx[c]) <= BusCap

\* The channel list a connection keeps for its own checks agrees with what
\* the broker has under its id.
ListsAgree ==
  \A c \in Open : conn_id[c] \in Registered
                  /\ clients[conn_id[c]].subscriptions = channels[c]

Inbox(c) == clients[conn_id[c]].messages

\* A client that waits in idle on message, having read what it was told of,
\* has an empty inbox, unless the wake-up is on its way: sends notify only
\* on the empty to non-empty edge, and read, send and emit interleave.  The
\* one exception is an announcement that the bus overwrote while an idle of
\* this client was draining, and no read since.
NoLostWakeup ==
  \A c \in Conns :
    (mode[c] = "idle" /\ "message" \in Watched(filter[c]) /\ Inbox(c) # <<>>)
    => \/ overwritten[c] # {}
       \/ \E i \in DOMAIN rx[c] : rx[c][i] = "message"
       \/ \E d \in Conns : emitting[d] = "message"
       \/ "message" \in lost[c]

\* A client waiting in idle with nothing left to receive was told of every
\* change in what it watches, however emits and the steps of the drain
\* interleave, but for what the bus overwrote in the middle of a drain.
NoLostChange ==
  \A c \in Conns :
    (mode[c] = "idle" /\ rx[c] = <<>> /\ overwritten[c] = {})
    => owed[c] \intersect Watched(filter[c]) \subseteq lost[c]

\* "Cleanup: unregister client and remove all of its subscriptions/messages":
\* a connection that was closed has no mailbox; one that broke keeps it.
ClosedIsForgotten ==
  \A c \in Conns : mode[c] = "closed" => conn_id[c] \notin Registered

\* The books agree, however connections come, go and break between the
\* broker's calls: counts with subscriptions, the broker's list of a
\* connection's channels with its own, and nothing is left of a closed one.
BooksAgree == CountsMatch /\ InboxBounded /\ ListsAgree /\ ClosedIsForgotten

\* A client that stays in idle on message with something in its inbox is
\* told so, unless a drain loses the announcement.
WakesUp ==
  \A c \in Conns :
    (mode[c] = "idle" /\ "message" \in Watched(filter[c]) /\ Inbox(c) # <<>>)
    ~> (mode[c] \notin {"idle", "drain"} \/ "message" \in lost[c])
=============================================================================
