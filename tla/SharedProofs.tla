---------------------------- MODULE SharedProofs ----------------------------
(***************************************************************************)
(* Theorems about MessageBroker and Messaging, for any number of           *)
(* connections, channels and events and for any caps, and about Locks, for *)
(* any number of tasks and any mix of commands.                            *)
(*                                                                         *)
(* The broker's own invariant is inductive over its methods.  A step of    *)
(* Messaging calls at most one method of the broker, so Messaging          *)
(* implements the broker's specification and inherits the invariant; the   *)
(* facts that tie a connection to its mailbox are proved on top of it.     *)
(*                                                                         *)
(* NoWaitCycle: of tasks that wait for each other take those that asked    *)
(* for a lock highest in the order, and of these the first in line.  Who   *)
(* it waits for holds that lock and asks for one higher up.  That the      *)
(* routes climb is shown by their parts: stretches one after the other and *)
(* one within a guard (Neat).                                              *)
(***************************************************************************)
EXTENDS Messaging, Locks, LoopsProofs, FiniteSetTheorems

-----------------------------------------------------------------------------
(* The broker.                                                             *)

\* The subscribers of a channel can be counted.
LEMMA SubscribersFinite ==
  ASSUME BrokerTypeOK, NEW ch
  PROVE  IsFiniteSet(Subscribers(ch))
<1>1. IsFiniteSet(1 .. next_client_id - 1)
  BY BrokerConstants, FS_Interval DEF BrokerTypeOK
<1>2. Subscribers(ch) \in SUBSET (1 .. next_client_id - 1)
  BY DEF BrokerTypeOK, Subscribers, Registered
<1> QED  BY <1>1, <1>2, FS_Subset

\* An empty broker satisfies the invariant.
LEMMA BrokerInitCorrect == BrokerInit => BrokerInv
<1> SUFFICES ASSUME BrokerInit  PROVE BrokerInv
  OBVIOUS
<1>1. Registered = {} /\ \A ch : Subscribers(ch) = {}
  BY DEF BrokerInit, Registered, Subscribers
<1>2. BrokerTypeOK
  BY <1>1, BrokerConstants DEF BrokerInit, BrokerTypeOK, Registered
<1>3. CountsMatch
  BY <1>1, FS_EmptySet DEF BrokerInit, CountsMatch
<1>4. InboxBounded
  BY <1>1 DEF InboxBounded
<1> QED  BY <1>2, <1>3, <1>4 DEF BrokerInv

\* A new client has no subscription, and its id was never handed out.
LEMMA RegisterClientCorrect == BrokerInv /\ RegisterClient => BrokerInv'
<1> SUFFICES ASSUME BrokerInv, RegisterClient  PROVE BrokerInv'
  OBVIOUS
<1> DEFINE new == next_client_id
<1>1. /\ DOMAIN clients' = DOMAIN clients \union {new} /\ new \notin DOMAIN clients
      /\ clients'[new] = [subscriptions |-> {}, messages |-> <<>>]
      /\ \A id \in DOMAIN clients : clients'[id] = clients[id]
  BY BrokerConstants DEF BrokerInv, BrokerTypeOK, RegisterClient, Registered
<1>2. [subscriptions |-> {}, messages |-> <<>>] \in Mailbox
  BY DEF Mailbox
<1>3. clients' \in [DOMAIN clients' -> Mailbox]
  BY <1>1, <1>2 DEF BrokerInv, BrokerTypeOK, Registered, RegisterClient
<1>4. BrokerTypeOK'
  BY <1>1, <1>3, BrokerConstants
  DEF BrokerInv, BrokerTypeOK, Registered, RegisterClient
<1>5. \A ch : Subscribers(ch)' = Subscribers(ch)
  BY <1>1 DEF Subscribers, Registered
<1>6. CountsMatch'
  BY <1>5 DEF CountsMatch, BrokerInv, RegisterClient
<1>7. InboxBounded'
  BY <1>1, BrokerConstants DEF InboxBounded, BrokerInv, Registered
<1> QED  BY <1>4, <1>6, <1>7 DEF BrokerInv

\* One subscriber less is one less in the count, which was not zero.
LEMMA OneLess ==
  ASSUME BrokerInv, NEW ch \in Channels, NEW id \in Subscribers(ch)
  PROVE  /\ Decrement(subscriber_counts[ch]) = Cardinality(Subscribers(ch) \ {id})
         /\ Decrement(subscriber_counts[ch]) \in Nat
<1>1. /\ IsFiniteSet(Subscribers(ch))
      /\ subscriber_counts[ch] = Cardinality(Subscribers(ch))
  BY SubscribersFinite DEF BrokerInv, CountsMatch
<1>2. /\ IsFiniteSet(Subscribers(ch) \ {id})
      /\ Cardinality(Subscribers(ch) \ {id}) = subscriber_counts[ch] - 1
  BY <1>1, FS_RemoveElement
<1>3. subscriber_counts[ch] \in Nat /\ Cardinality(Subscribers(ch) \ {id}) \in Nat
  BY <1>1, <1>2, FS_CardinalityType
<1> QED  BY <1>2, <1>3 DEF Decrement

\* A client that goes takes its subscriptions out of the counts.
LEMMA UnregisterClientCorrect ==
  ASSUME NEW id, BrokerInv, UnregisterClient(id)  PROVE BrokerInv'
<1>1. /\ DOMAIN clients' = DOMAIN clients \ {id}
      /\ \A other \in DOMAIN clients \ {id} : clients'[other] = clients[other]
      /\ id \in DOMAIN clients
  BY DEF UnregisterClient, Registered
<1>2. \A ch : Subscribers(ch)' = Subscribers(ch) \ {id}
  BY <1>1 DEF Subscribers, Registered
<1>3. ASSUME NEW ch \in Channels
      PROVE  /\ subscriber_counts'[ch] \in Nat
             /\ subscriber_counts'[ch] = Cardinality(Subscribers(ch)')
  <2>1. subscriber_counts'[ch] = IF ch \in clients[id].subscriptions
                                 THEN Decrement(subscriber_counts[ch])
                                 ELSE subscriber_counts[ch]
    BY DEF UnregisterClient
  <2>2. CASE ch \in clients[id].subscriptions
    <3>1. id \in Subscribers(ch)
      BY <1>1, <2>2 DEF Subscribers, Registered
    <3> QED  BY <1>2, <2>1, <2>2, <3>1, OneLess
  <2>3. CASE ch \notin clients[id].subscriptions
    <3>1. Subscribers(ch)' = Subscribers(ch)
      BY <1>2, <2>3 DEF Subscribers
    <3> QED  BY <2>1, <2>3, <3>1 DEF BrokerInv, BrokerTypeOK, CountsMatch
  <2> QED  BY <2>2, <2>3
<1>4. clients' \in [DOMAIN clients' -> Mailbox]
  BY <1>1 DEF BrokerInv, BrokerTypeOK, Registered, UnregisterClient
<1>5. subscriber_counts' \in [Channels -> Nat]
  BY <1>3 DEF UnregisterClient
<1>6. BrokerTypeOK'
  BY <1>1, <1>4, <1>5 DEF BrokerInv, BrokerTypeOK, Registered, UnregisterClient
<1>7. CountsMatch'
  BY <1>3 DEF CountsMatch
<1>8. InboxBounded'
  BY <1>1 DEF InboxBounded, BrokerInv, Registered
<1> QED  BY <1>6, <1>7, <1>8 DEF BrokerInv

\* Calls that change the mailbox of one registered client and nothing else.
LEMMA EditedMailbox ==
  ASSUME NEW id \in DOMAIN clients, NEW box \in Mailbox,
         BrokerTypeOK, InboxBounded, Len(box.messages) <= MaxMessages,
         clients' = [clients EXCEPT ![id] = box],
         subscriber_counts' \in [Channels -> Nat], next_client_id' = next_client_id
  PROVE  BrokerTypeOK' /\ InboxBounded'
<1>1. /\ clients' \in [DOMAIN clients -> Mailbox] /\ DOMAIN clients' = DOMAIN clients
      /\ \A other \in DOMAIN clients :
           clients'[other] = IF other = id THEN box ELSE clients[other]
  BY DEF BrokerTypeOK, Registered
<1>2. BrokerTypeOK'
  BY <1>1 DEF BrokerTypeOK, Registered
<1>3. InboxBounded'
  BY <1>1 DEF InboxBounded, Registered
<1> QED  BY <1>2, <1>3

\* A new subscription is counted once.
LEMMA RegisterSubscriberCorrect ==
  ASSUME NEW id, NEW ch \in Channels, BrokerInv, RegisterSubscriber(id, ch)
  PROVE  BrokerInv'
<1>1. CASE id \in Registered /\ ch \notin clients[id].subscriptions
  <2> DEFINE box == [clients[id] EXCEPT !.subscriptions = @ \union {ch}]
  <2>1. /\ clients' = [clients EXCEPT ![id] = box]
        /\ subscriber_counts' = [subscriber_counts EXCEPT ![ch] = @ + 1]
        /\ next_client_id' = next_client_id /\ id \in DOMAIN clients
    BY <1>1 DEF RegisterSubscriber, Registered
  <2>2. clients[id] \in Mailbox /\ Len(clients[id].messages) <= MaxMessages
    BY <2>1 DEF BrokerInv, BrokerTypeOK, InboxBounded, Registered
  <2>3. /\ box \in Mailbox /\ box.messages = clients[id].messages
        /\ box.subscriptions = clients[id].subscriptions \union {ch}
    BY <2>2 DEF Mailbox
  <2> HIDE DEF box
  <2>4. subscriber_counts' \in [Channels -> Nat]
    BY <2>1 DEF BrokerInv, BrokerTypeOK
  <2>5. BrokerTypeOK' /\ InboxBounded'
    BY <2>1, <2>2, <2>3, <2>4, EditedMailbox DEF BrokerInv
  <2>6. /\ Subscribers(ch)' = Subscribers(ch) \union {id}
        /\ id \notin Subscribers(ch)
        /\ \A other \in Channels \ {ch} : Subscribers(other)' = Subscribers(other)
    BY <1>1, <2>1, <2>3 DEF Subscribers, Registered
  <2>7. Cardinality(Subscribers(ch)') = Cardinality(Subscribers(ch)) + 1
    BY <2>6, SubscribersFinite, FS_AddElement DEF BrokerInv
  <2>8. CountsMatch'
    BY <2>1, <2>6, <2>7 DEF CountsMatch, BrokerInv, BrokerTypeOK
  <2> QED  BY <2>5, <2>8 DEF BrokerInv
<1>2. CASE UNCHANGED broker
  BY <1>2 DEF broker, BrokerInv, BrokerTypeOK, CountsMatch, InboxBounded,
              Registered, Subscribers
<1> QED  BY <1>1, <1>2 DEF RegisterSubscriber

\* A subscription that ends is uncounted once.
LEMMA UnregisterSubscriberCorrect ==
  ASSUME NEW id, NEW ch \in Channels, BrokerInv, UnregisterSubscriber(id, ch)
  PROVE  BrokerInv'
<1>1. CASE id \in Registered /\ ch \in clients[id].subscriptions
  <2> DEFINE box == [clients[id] EXCEPT !.subscriptions = @ \ {ch}]
  <2>1. /\ clients' = [clients EXCEPT ![id] = box]
        /\ subscriber_counts' = [subscriber_counts EXCEPT ![ch] = Decrement(@)]
        /\ next_client_id' = next_client_id /\ id \in DOMAIN clients
    BY <1>1 DEF UnregisterSubscriber, Registered
  <2>2. clients[id] \in Mailbox /\ Len(clients[id].messages) <= MaxMessages
    BY <2>1 DEF BrokerInv, BrokerTypeOK, InboxBounded, Registered
  <2>3. /\ box \in Mailbox /\ box.messages = clients[id].messages
        /\ box.subscriptions = clients[id].subscriptions \ {ch}
    BY <2>2 DEF Mailbox
  <2> HIDE DEF box
  <2>4. /\ Subscribers(ch)' = Subscribers(ch) \ {id}
        /\ id \in Subscribers(ch)
        /\ \A other \in Channels \ {ch} : Subscribers(other)' = Subscribers(other)
    BY <1>1, <2>1, <2>3 DEF Subscribers, Registered
  <2>5. /\ Decrement(subscriber_counts[ch]) = Cardinality(Subscribers(ch)')
        /\ Decrement(subscriber_counts[ch]) \in Nat
    BY <2>4, OneLess
  <2>6. /\ subscriber_counts' \in [Channels -> Nat]
        /\ subscriber_counts'[ch] = Cardinality(Subscribers(ch)')
        /\ \A other \in Channels \ {ch} :
             subscriber_counts'[other] = subscriber_counts[other]
    BY <2>1, <2>5 DEF BrokerInv, BrokerTypeOK
  <2>7. BrokerTypeOK' /\ InboxBounded'
    BY <2>1, <2>2, <2>3, <2>6, EditedMailbox DEF BrokerInv
  <2>8. CountsMatch'
    BY <2>4, <2>6 DEF CountsMatch, BrokerInv
  <2> QED  BY <2>7, <2>8 DEF BrokerInv
<1>2. CASE UNCHANGED broker
  BY <1>2 DEF broker, BrokerInv, BrokerTypeOK, CountsMatch, InboxBounded,
              Registered, Subscribers
<1> QED  BY <1>1, <1>2 DEF UnregisterSubscriber

\* A call that changes messages only leaves counts and subscribers alone.
LEMMA EditedMessages ==
  ASSUME BrokerInv, DOMAIN clients' = DOMAIN clients,
         clients' = [id \in DOMAIN clients |-> clients'[id]],
         \A id \in DOMAIN clients :
           /\ clients'[id] \in Mailbox
           /\ clients'[id].subscriptions = clients[id].subscriptions
           /\ Len(clients'[id].messages) <= MaxMessages,
         UNCHANGED <<next_client_id, subscriber_counts>>
  PROVE  BrokerInv'
<1>1. clients' \in [DOMAIN clients' -> Mailbox]
  OBVIOUS
<1>2. BrokerTypeOK'
  BY <1>1 DEF BrokerInv, BrokerTypeOK, Registered
<1>3. \A ch : Subscribers(ch)' = Subscribers(ch)
  BY DEF Subscribers, Registered
<1>4. CountsMatch'
  BY <1>3 DEF BrokerInv, CountsMatch
<1>5. InboxBounded'
  BY DEF InboxBounded, Registered
<1> QED  BY <1>2, <1>4, <1>5 DEF BrokerInv

\* A message goes into inboxes with room and changes no subscription.
LEMMA SendMessageCorrect ==
  ASSUME NEW ch \in Channels, NEW text \in Texts, BrokerInv, SendMessage(ch, text)
  PROVE  BrokerInv'
<1> DEFINE msg == [channel |-> ch, text |-> text]
<1>1. msg \in Message
  BY DEF Message
<1> HIDE DEF msg
<1>2. clients' = [id \in DOMAIN clients |->
                    IF id \in Accepting(ch)
                    THEN [clients[id] EXCEPT !.messages = Append(@, msg)]
                    ELSE clients[id]]
  BY DEF SendMessage, Registered, msg
<1>3. ASSUME NEW id \in DOMAIN clients
      PROVE  /\ clients'[id] \in Mailbox
             /\ clients'[id].subscriptions = clients[id].subscriptions
             /\ Len(clients'[id].messages) <= MaxMessages
  <2>1. clients[id] \in Mailbox /\ Len(clients[id].messages) <= MaxMessages
    BY DEF BrokerInv, BrokerTypeOK, InboxBounded, Registered
  <2>2. CASE id \in Accepting(ch)
    <3>1. /\ clients'[id] = [clients[id] EXCEPT !.messages = Append(@, msg)]
          /\ Len(clients[id].messages) < MaxMessages
      BY <1>2, <2>2 DEF Accepting
    <3> DEFINE old == clients[id].messages
               new == Append(old, msg)
    <3>2. old \in Seq(Message) /\ clients[id].subscriptions \in SUBSET Channels
      BY <2>1 DEF Mailbox
    <3>3. new \in Seq(Message) /\ Len(new) = Len(old) + 1
      BY <1>1, <3>2
    <3> HIDE DEF new
    <3>4. /\ clients'[id].messages = new
          /\ clients'[id].subscriptions = clients[id].subscriptions
          /\ clients'[id] \in Mailbox
      BY <2>1, <3>1, <3>3 DEF Mailbox, new
    <3>5. Len(old) \in Nat /\ Len(old) + 1 <= MaxMessages
      BY <3>1, <3>2, BrokerConstants
    <3> QED  BY <3>3, <3>4, <3>5
  <2>3. CASE id \notin Accepting(ch)
    BY <1>2, <2>1, <2>3
  <2> QED  BY <2>2, <2>3
<1> QED  BY <1>2, <1>3, EditedMessages DEF SendMessage

\* Reading empties an inbox and changes no subscription.
LEMMA ReadMessagesCorrect ==
  ASSUME NEW id, BrokerInv, ReadMessages(id)  PROVE BrokerInv'
<1>1. clients' = [other \in DOMAIN clients |->
                    IF other = id THEN [clients[other] EXCEPT !.messages = <<>>]
                    ELSE clients[other]]
  BY DEF ReadMessages, Registered
<1>2. ASSUME NEW other \in DOMAIN clients
      PROVE  /\ clients'[other] \in Mailbox
             /\ clients'[other].subscriptions = clients[other].subscriptions
             /\ Len(clients'[other].messages) <= MaxMessages
  <2>1. clients[other] \in Mailbox /\ Len(clients[other].messages) <= MaxMessages
    BY DEF BrokerInv, BrokerTypeOK, InboxBounded, Registered
  <2>2. CASE other = id
    <3>1. clients'[other] = [clients[other] EXCEPT !.messages = <<>>]
      BY <1>1, <2>2
    <3>2. \A none \in Seq(Message) : [clients[other] EXCEPT !.messages = none] \in Mailbox
      BY <2>1 DEF Mailbox
    <3>3. <<>> \in Seq(Message) /\ Len(<<>>) <= MaxMessages
      BY BrokerConstants
    <3>4. /\ clients'[other].subscriptions = clients[other].subscriptions
          /\ clients'[other].messages = <<>>
      BY <2>1, <3>1 DEF Mailbox
    <3>5. clients'[other] \in Mailbox
      BY <3>1, <3>2, <3>3
    <3> QED  BY <3>3, <3>4, <3>5
  <2>3. CASE other # id
    BY <1>1, <2>1, <2>3
  <2> QED  BY <2>2, <2>3
<1> QED  BY <1>1, <1>2, EditedMessages DEF ReadMessages

\* Each method of the broker keeps its invariant.
LEMMA BrokerStepCorrect == BrokerInv /\ [BrokerNext]_broker => BrokerInv'
<1> SUFFICES ASSUME BrokerInv, [BrokerNext]_broker  PROVE BrokerInv'
  OBVIOUS
<1>1. CASE RegisterClient
  BY <1>1, RegisterClientCorrect
<1>2. ASSUME NEW id, UnregisterClient(id)  PROVE BrokerInv'
  BY <1>2, UnregisterClientCorrect
<1>3. ASSUME NEW id, ReadMessages(id)  PROVE BrokerInv'
  BY <1>3, ReadMessagesCorrect
<1>4. ASSUME NEW id, NEW ch \in Channels, RegisterSubscriber(id, ch)
      PROVE  BrokerInv'
  BY <1>4, RegisterSubscriberCorrect
<1>5. ASSUME NEW id, NEW ch \in Channels, UnregisterSubscriber(id, ch)
      PROVE  BrokerInv'
  BY <1>5, UnregisterSubscriberCorrect
<1>6. ASSUME NEW ch \in Channels, NEW text \in Texts, SendMessage(ch, text)
      PROVE  BrokerInv'
  BY <1>6, SendMessageCorrect
<1>7. CASE UNCHANGED broker
  BY <1>7 DEF broker, BrokerInv, BrokerTypeOK, CountsMatch, InboxBounded,
              Registered, Subscribers
<1> QED  BY <1>1, <1>2, <1>3, <1>4, <1>5, <1>6, <1>7 DEF BrokerNext

\* Whatever is called on the broker, its counts are its subscriptions and no
\* inbox outgrows the cap.
THEOREM BrokerCorrect == BrokerSpec => [](CountsMatch /\ InboxBounded)
<1>1. BrokerInv => CountsMatch /\ InboxBounded
  BY DEF BrokerInv
<1> QED  BY <1>1, BrokerInitCorrect, BrokerStepCorrect, PTL DEF BrokerSpec

-----------------------------------------------------------------------------
(* Connections and their mailboxes.                                        *)

Modes == {"new", "ready", "emit", "idle", "drain", "closed", "broken"}

\* A connection keeps the id it was given, alone; while it is open the
\* mailbox under that id has the channels on the connection's own list.
Books ==
  /\ mode \in [Conns -> Modes]
  /\ conn_id \in [Conns -> 0 .. MaxClients]
  /\ channels \in [Conns -> SUBSET Channels]
  /\ \A c \in Conns : IF mode[c] = "new" THEN channels[c] = {}
                      ELSE conn_id[c] \in 1 .. next_client_id - 1
  /\ \A c, d \in Conns :
       (mode[c] # "new" /\ mode[d] # "new" /\ conn_id[c] = conn_id[d]) => c = d
  /\ ListsAgree
  /\ ClosedIsForgotten

\* With no connection open there is nothing to agree on.
LEMMA BooksInit == Init => Books
BY BrokerConstants DEF Init, Books, Modes, ListsAgree, Open, ClosedIsForgotten

\* A step of an idle leaves the broker and the other connections alone, and
\* ends in idle, in its drain or with an answer.
LEMMA IdlingMoves ==
  ASSUME NEW c \in Conns, Idling(c)
  PROVE  /\ UNCHANGED <<broker, conn_id, channels, emitting, filter, emitted>>
         /\ mode[c] \in {"idle", "drain"}
         /\ \/ mode' = mode
            \/ \E m \in {"ready", "idle", "drain"} : mode' = [mode EXCEPT ![c] = m]
<1>1. CASE TakeEvent(c)
  BY <1>1 DEF TakeEvent, SetMode
<1>2. CASE DrainEvent(c)
  BY <1>2 DEF DrainEvent, conns
<1>3. CASE DrainEnds(c)
  <2>1. mode[c] = "drain" /\ Answer(c)
        /\ UNCHANGED <<broker, conn_id, channels, emitting, filter, emitted>>
    BY <1>3 DEF DrainEnds
  <2> QED  BY <2>1 DEF Answer, Report, SetMode
<1>4. CASE DrainLagged(c)
  <2>1. mode[c] = "drain" /\ Answer(c)
        /\ UNCHANGED <<broker, conn_id, channels, emitting, filter, emitted>>
    BY <1>4 DEF DrainLagged
  <2> QED  BY <2>1 DEF Answer, Report, SetMode
<1>5. CASE IdleLagged(c)
  BY <1>5 DEF IdleLagged, Report, SetMode
<1> QED  BY <1>1, <1>2, <1>3, <1>4, <1>5 DEF Idling

\* A step of Messaging is at most one call of the broker.
LEMMA StepCallsBroker ==
  ASSUME BrokerInv, Books, [Next]_vars
  PROVE  [BrokerNext]_broker
<1>1. \A c \in Conns : mode[c] = "ready" => conn_id[c] \in ClientIds
  BY BrokerConstants
  DEF Books, ListsAgree, Open, ClientIds, BrokerInv, BrokerTypeOK
<1>2. ASSUME NEW c \in Conns, Connect(c)  PROVE BrokerNext
  BY <1>2 DEF Connect, BrokerNext
<1>3. ASSUME NEW c \in Conns, Disconnect(c)  PROVE BrokerNext
  BY <1>1, <1>3 DEF Disconnect, BrokerNext
<1>4. ASSUME NEW c \in Conns, NEW ch \in Channels,
             Subscribe(c, ch) \/ Unsubscribe(c, ch)
      PROVE  BrokerNext
  BY <1>1, <1>4 DEF Subscribe, Unsubscribe, BrokerNext
<1>5. ASSUME NEW c \in Conns, NEW ch \in Channels, NEW text \in Texts,
             Send(c, ch, text)
      PROVE  BrokerNext
  BY <1>5 DEF Send, BrokerNext
<1>6. ASSUME NEW c \in Conns, Read(c)  PROVE BrokerNext
  BY <1>1, <1>6 DEF Read, BrokerNext
<1>7. ASSUME NEW c \in Conns, NEW F,
             Abort(c) \/ Emit(c) \/ BeginIdle(c, F) \/ Idling(c) \/ NoIdle(c)
      PROVE  UNCHANGED broker
  BY <1>7, IdlingMoves DEF Abort, Emit, BeginIdle, NoIdle
<1>8. ASSUME NEW t \in Subsystems, EmitOther(t)  PROVE UNCHANGED broker
  BY <1>8 DEF EmitOther
<1>9. CASE UNCHANGED vars
  BY <1>9 DEF vars
<1> QED  BY <1>2, <1>3, <1>4, <1>5, <1>6, <1>7, <1>8, <1>9 DEF Next, Idling

\* Steps after which each connection is as it was, or open before and at
\* most broken after, and no subscription has changed.
LEMMA BooksKept ==
  ASSUME Books, mode' \in [Conns -> Modes],
         \A c \in Conns : mode'[c] # mode[c] =>
           c \in Open /\ mode'[c] \in {"ready", "emit", "idle", "drain", "broken"},
         UNCHANGED <<conn_id, channels, next_client_id>>,
         DOMAIN clients' = DOMAIN clients,
         \A id \in DOMAIN clients :
           clients'[id].subscriptions = clients[id].subscriptions
  PROVE  Books'
<1>1. \A c \in Conns : /\ mode'[c] = "new" <=> mode[c] = "new"
                       /\ mode'[c] = "closed" <=> mode[c] = "closed"
  BY DEF Open
<1>2. Open' \subseteq Open
  BY DEF Open
<1>3. ListsAgree'
  BY <1>2 DEF Books, ListsAgree, Registered, Open
<1>4. ClosedIsForgotten'
  BY <1>1 DEF Books, ClosedIsForgotten, Registered
<1> QED  BY <1>1, <1>3, <1>4 DEF Books

\* A connection that opens gets an id no other has, and an empty list.
LEMMA BooksConnect ==
  ASSUME BrokerInv, Books, NEW c \in Conns, Connect(c)  PROVE Books'
<1> DEFINE id == next_client_id
<1>1. /\ DOMAIN clients' = DOMAIN clients \union {id} /\ id \notin DOMAIN clients
      /\ clients'[id] = [subscriptions |-> {}, messages |-> <<>>]
      /\ \A other \in DOMAIN clients : clients'[other] = clients[other]
      /\ id \in 1 .. MaxClients /\ next_client_id' = id + 1
  BY BrokerConstants DEF BrokerInv, BrokerTypeOK, Connect, RegisterClient, Registered
<1>2. /\ mode[c] = "new" /\ mode' = [mode EXCEPT ![c] = "ready"]
      /\ conn_id' = [conn_id EXCEPT ![c] = id] /\ channels' = channels
  BY DEF Connect, SetMode
<1>3. /\ mode' \in [Conns -> Modes] /\ mode'[c] = "ready"
      /\ conn_id' \in [Conns -> 0 .. MaxClients] /\ conn_id'[c] = id
      /\ \A d \in Conns \ {c} : mode'[d] = mode[d] /\ conn_id'[d] = conn_id[d]
  BY <1>1, <1>2 DEF Books, Modes
<1>4. \A d \in Conns : mode[d] # "new" => conn_id[d] \in 1 .. id - 1
  BY DEF Books
<1>5. \A d \in Conns \ {c} : conn_id'[d] = id => mode'[d] = "new"
  BY <1>1, <1>3, <1>4
<1>6. \A d \in Conns : IF mode'[d] = "new" THEN channels'[d] = {}
                       ELSE conn_id'[d] \in 1 .. next_client_id' - 1
  BY <1>1, <1>2, <1>3, <1>4 DEF Books
<1>7. \A d, e \in Conns :
        (mode'[d] # "new" /\ mode'[e] # "new" /\ conn_id'[d] = conn_id'[e]) => d = e
  BY <1>3, <1>5 DEF Books
<1>8. ListsAgree'
  <2>1. Open' = Open \union {c}
    BY <1>2, <1>3 DEF Open
  <2>2. \A d \in Open \ {c} : conn_id'[d] \in DOMAIN clients
                              /\ clients[conn_id'[d]].subscriptions = channels'[d]
    BY <1>2, <1>3 DEF Books, ListsAgree, Registered, Open
  <2>3. channels[c] = {}
    BY <1>2 DEF Books
  <2>4. conn_id'[c] = id /\ channels'[c] = {} /\ clients'[id].subscriptions = {}
    BY <1>1, <1>2, <1>3, <2>3
  <2>5. ASSUME NEW d \in Open'
        PROVE  /\ conn_id'[d] \in DOMAIN clients'
               /\ clients'[conn_id'[d]].subscriptions = channels'[d]
    BY <1>1, <2>1, <2>2, <2>4
  <2> QED  BY <2>5 DEF ListsAgree, Registered
<1>9. ClosedIsForgotten'
  BY <1>1, <1>3, <1>5 DEF Books, ClosedIsForgotten, Registered
<1> QED  BY <1>2, <1>3, <1>6, <1>7, <1>8, <1>9 DEF Books

\* A connection that closes removes its mailbox and no other.
LEMMA BooksDisconnect ==
  ASSUME Books, NEW c \in Conns, Disconnect(c)  PROVE Books'
<1>1. /\ mode[c] = "ready" /\ mode' = [mode EXCEPT ![c] = "closed"]
      /\ conn_id' = conn_id /\ channels' = channels
      /\ next_client_id' = next_client_id
      /\ DOMAIN clients' = DOMAIN clients \ {conn_id[c]}
      /\ \A other \in DOMAIN clients \ {conn_id[c]} :
           clients'[other] = clients[other]
  BY DEF Disconnect, SetMode, UnregisterClient, Registered
<1>2. /\ mode' \in [Conns -> Modes] /\ mode'[c] = "closed"
      /\ \A d \in Conns \ {c} : mode'[d] = mode[d]
  BY <1>1 DEF Books, Modes
<1>3. \A d \in Conns : mode'[d] = "new" <=> mode[d] = "new"
  BY <1>1, <1>2
<1>4. ListsAgree'
  <2>1. ASSUME NEW d \in Open'
        PROVE  conn_id[d] \in DOMAIN clients' /\ clients'[conn_id[d]].subscriptions = channels[d]
    <3>1. d \in Open /\ d # c /\ d \in Conns
      BY <1>2, <2>1 DEF Open
    <3>2. conn_id[d] # conn_id[c]
      BY <1>1, <3>1 DEF Books, Open
    <3> QED  BY <1>1, <3>1, <3>2 DEF Books, ListsAgree, Registered
  <2> QED  BY <1>1, <2>1 DEF ListsAgree, Registered
<1>5. ClosedIsForgotten'
  BY <1>1, <1>2 DEF Books, ClosedIsForgotten, Registered
<1> QED  BY <1>1, <1>2, <1>3, <1>4, <1>5 DEF Books

\* A list and the mailbox under its id change together.
LEMMA BooksSubscribe ==
  ASSUME BrokerTypeOK, Books, NEW c \in Conns, NEW ch \in Channels,
         Subscribe(c, ch) \/ Unsubscribe(c, ch)
  PROVE  Books'
<1> DEFINE new == IF ch \in channels[c] THEN channels[c] \ {ch}
                  ELSE channels[c] \union {ch}
<1>1. /\ mode[c] = "ready" /\ mode' = [mode EXCEPT ![c] = "emit"]
      /\ conn_id' = conn_id /\ next_client_id' = next_client_id
      /\ channels' = [channels EXCEPT ![c] = new]
  BY DEF Subscribe, Unsubscribe, SetMode, RegisterSubscriber, UnregisterSubscriber, broker
<1>2. conn_id[c] \in DOMAIN clients /\ clients[conn_id[c]].subscriptions = channels[c]
  BY <1>1 DEF Books, ListsAgree, Open, Registered
<1>3. clients' = [clients EXCEPT ![conn_id[c]].subscriptions = new]
  BY <1>2 DEF Subscribe, Unsubscribe, RegisterSubscriber, UnregisterSubscriber, Registered
<1>4. /\ mode' \in [Conns -> Modes] /\ mode'[c] = "emit"
      /\ \A d \in Conns \ {c} : mode'[d] = mode[d] /\ channels'[d] = channels[d]
      /\ new \in SUBSET Channels /\ channels'[c] = new
      /\ channels' \in [Conns -> SUBSET Channels]
  BY <1>1 DEF Books, Modes
<1> HIDE DEF new
<1>5. /\ DOMAIN clients' = DOMAIN clients
      /\ \A id \in DOMAIN clients \ {conn_id[c]} : clients'[id] = clients[id]
  BY <1>3
<1>6. ListsAgree'
  <2>1. ASSUME NEW d \in Open'
        PROVE  conn_id[d] \in DOMAIN clients' /\ clients'[conn_id[d]].subscriptions = channels'[d]
    <3>1. d \in Open /\ d \in Conns
      BY <1>1, <1>4, <2>1 DEF Open
    <3>2. CASE d = c
      <4>1. clients'[conn_id[c]].subscriptions = new
        BY <1>2, <1>3 DEF BrokerTypeOK, Mailbox, Registered
      <4> QED  BY <1>2, <1>4, <1>5, <3>2, <4>1
    <3>3. CASE d # c
      <4>1. conn_id[d] # conn_id[c]
        BY <1>1, <3>1, <3>3 DEF Books, Open
      <4> QED  BY <1>4, <1>5, <3>1, <3>3, <4>1 DEF Books, ListsAgree, Registered
    <3> QED  BY <3>2, <3>3
  <2> QED  BY <1>1, <2>1 DEF ListsAgree, Registered
<1>7. ClosedIsForgotten'
  BY <1>1, <1>4, <1>5 DEF Books, ClosedIsForgotten, Registered
<1>8. \A d \in Conns : IF mode'[d] = "new" THEN channels'[d] = {}
                       ELSE conn_id[d] \in 1 .. next_client_id - 1
  BY <1>1, <1>4 DEF Books
<1>9. \A d \in Conns : mode'[d] # "new" => mode[d] # "new"
  BY <1>1, <1>4
<1> QED  BY <1>1, <1>4, <1>6, <1>7, <1>8, <1>9 DEF Books

\* Each step of Messaging keeps the books.
LEMMA BooksStep ==
  ASSUME BrokerInv, Books, [Next]_vars  PROVE Books'
<1>1. BrokerTypeOK
  BY DEF BrokerInv
<1>2. ASSUME NEW c \in Conns, Connect(c)  PROVE Books'
  BY <1>2, BooksConnect
<1>3. ASSUME NEW c \in Conns, Disconnect(c)  PROVE Books'
  BY <1>3, BooksDisconnect
<1>4. ASSUME NEW c \in Conns, NEW ch \in Channels,
             Subscribe(c, ch) \/ Unsubscribe(c, ch)
      PROVE  Books'
  BY <1>1, <1>4, BooksSubscribe
<1>5. ASSUME NEW c \in Conns, NEW ch \in Channels, NEW text \in Texts,
             Send(c, ch, text)
      PROVE  Books'
  <2>1. /\ DOMAIN clients' = DOMAIN clients /\ mode[c] = "ready"
        /\ mode' = mode \/ mode' = [mode EXCEPT ![c] = "emit"]
        /\ UNCHANGED <<conn_id, channels, next_client_id>>
    BY <1>5 DEF Send, SendMessage, SetMode, Registered
  <2>2. \A id \in DOMAIN clients :
          clients'[id].subscriptions = clients[id].subscriptions
    BY <1>1, <1>5 DEF Send, SendMessage, Registered, BrokerTypeOK, Mailbox
  <2>3. /\ mode' \in [Conns -> Modes]
        /\ \A d \in Conns : mode'[d] # mode[d] => d \in Open /\ mode'[d] = "emit"
    BY <2>1 DEF Books, Modes, Open
  <2> QED  BY <2>1, <2>2, <2>3, BooksKept
<1>6. ASSUME NEW c \in Conns, Read(c)  PROVE Books'
  <2>1. /\ DOMAIN clients' = DOMAIN clients
        /\ UNCHANGED <<mode, conn_id, channels, next_client_id>>
    BY <1>6 DEF Read, ReadMessages, Registered
  <2>2. \A id \in DOMAIN clients :
          clients'[id].subscriptions = clients[id].subscriptions
    BY <1>1, <1>6 DEF Read, ReadMessages, Registered, BrokerTypeOK, Mailbox
  <2>3. mode' \in [Conns -> Modes]
    BY <2>1 DEF Books
  <2> QED  BY <2>1, <2>2, <2>3, BooksKept
<1>7. ASSUME NEW c \in Conns, NEW F,
             Abort(c) \/ Emit(c) \/ BeginIdle(c, F) \/ Idling(c) \/ NoIdle(c)
      PROVE  Books'
  <2>1. UNCHANGED <<broker, conn_id, channels>>
    BY <1>7, IdlingMoves DEF Abort, Emit, BeginIdle, NoIdle
  <2>2. /\ mode[c] \in {"ready", "emit", "idle", "drain"}
        /\ \/ mode' = mode
           \/ \E m \in {"ready", "idle", "drain", "broken"} : mode' = [mode EXCEPT ![c] = m]
    BY <1>7, IdlingMoves DEF Abort, Emit, BeginIdle, NoIdle, SetMode
  <2>3. /\ mode' \in [Conns -> Modes]
        /\ \A d \in Conns : mode'[d] # mode[d] =>
             d \in Open /\ mode'[d] \in {"ready", "emit", "idle", "drain", "broken"}
    BY <2>2 DEF Books, Modes, Open
  <2> QED  BY <2>1, <2>3, BooksKept DEF broker
<1>8. ASSUME NEW t \in Subsystems, EmitOther(t)  PROVE Books'
  BY <1>8, BooksKept DEF EmitOther, conns, broker, Books
<1>9. CASE UNCHANGED vars
  BY <1>9, BooksKept DEF vars, conns, broker, Books
<1> QED  BY <1>2, <1>3, <1>4, <1>5, <1>6, <1>7, <1>8, <1>9 DEF Next, Idling

\* However connections come, go and break, all they do to the broker is call
\* its methods.
THEOREM MessagingImplementsBroker == Spec => BrokerSpec
<1>1. Init => BrokerInit
  BY DEF Init
<1> DEFINE Inv == BrokerInv /\ Books
<1>2. Init => Inv
  BY <1>1, BrokerInitCorrect, BooksInit
<1>3. Inv /\ [Next]_vars => Inv'
  BY StepCallsBroker, BrokerStepCorrect, BooksStep
<1>4. Inv /\ [Next]_vars => [BrokerNext]_broker
  BY StepCallsBroker
<1> HIDE DEF Inv
<1> QED  BY <1>1, <1>2, <1>3, <1>4, PTL DEF Spec, BrokerSpec

\* In every reachable state the counts are the subscriptions, no inbox is
\* over its cap, each open connection's channel list is what the broker has
\* under its id, and a closed one has left no mailbox.
THEOREM MessagingBooks == Spec => []BooksAgree
<1> DEFINE Inv == BrokerInv /\ Books
<1>1. Init => Inv
  BY BrokerInitCorrect, BooksInit DEF Init
<1>2. Inv /\ [Next]_vars => Inv'
  BY StepCallsBroker, BrokerStepCorrect, BooksStep
<1>3. Inv => BooksAgree
  BY DEF BrokerInv, Books, BooksAgree
<1> HIDE DEF Inv
<1> QED  BY <1>1, <1>2, <1>3, PTL DEF Spec

-----------------------------------------------------------------------------
(* The bus and idle.                                                       *)

\* An event is in a backlog.
Has(q, s) == \E i \in DOMAIN q : q[i] = s

Heaps == [Conns -> SUBSET Subsystems]

\* How the connections' ends of the bus look between steps.
Wires ==
  /\ rx \in [Conns -> Seq(Subsystems)]
  /\ \A c \in Conns : Len(rx[c]) <= BusCap
  /\ overwritten \in Heaps /\ drained \in Heaps /\ owed \in Heaps /\ lost \in Heaps
  /\ unread \in [Conns -> BOOLEAN]
  /\ emitting \in [Conns -> {"none", "message", "subscription"}]
  /\ \A c \in Conns : mode[c] = "emit" <=> emitting[c] # "none"
  /\ \A c \in Conns : mode[c] = "new" => owed[c] = {}
  /\ \A c \in Conns : mode[c] # "drain" => drained[c] = {}
  /\ filter = [c \in Conns |-> filter[c]]
  /\ \A c \in Conns : mode[c] \in {"idle", "drain"} => filter[c] \in Filters[c] /\ ~unread[c]

\* At the start all backlogs are empty.
LEMMA WiresInit == Init => Wires
BY MessagingConstants DEF Init, Wires, Heaps

\* A backlog that gives up its first event keeps the others.
LEMMA FirstTaken ==
  ASSUME NEW q \in Seq(Subsystems), q # <<>>
  PROVE  /\ Head(q) \in Subsystems /\ Tail(q) \in Seq(Subsystems)
         /\ Len(Tail(q)) = Len(q) - 1
         /\ \A t : Has(q, t) => t = Head(q) \/ Has(Tail(q), t)
<1>1. Head(q) \in Subsystems /\ Tail(q) \in Seq(Subsystems) /\ Len(Tail(q)) = Len(q) - 1
  OBVIOUS
<1>2. ASSUME NEW t, Has(q, t), t # Head(q)  PROVE Has(Tail(q), t)
  <2>1. PICK i \in 1 .. Len(q) : q[i] = t
    BY <1>2 DEF Has
  <2>2. i # 1
    BY <1>2, <2>1
  <2> DEFINE j == i - 1
  <2>3. j \in 1 .. Len(q) - 1 /\ j + 1 = i
    BY <2>1, <2>2
  <2>4. \A k \in 1 .. Len(q) - 1 : Tail(q)[k] = q[k + 1]
    OBVIOUS
  <2> HIDE DEF j
  <2>5. Tail(q)[j] = t
    BY <2>1, <2>3, <2>4
  <2>6. DOMAIN Tail(q) = 1 .. Len(q) - 1
    BY <1>1
  <2> QED  BY <2>3, <2>5, <2>6 DEF Has
<1> QED  BY <1>1, <1>2

\* One more event in a backlog: it is there, and the others are too, but for
\* the first of a full backlog.
LEMMA Queued ==
  ASSUME NEW q \in Seq(Subsystems), Len(q) <= BusCap, NEW s \in Subsystems
  PROVE  /\ Append(Room(q), s) \in Seq(Subsystems) /\ Len(Append(Room(q), s)) <= BusCap
         /\ Has(Append(Room(q), s), s)
         /\ \A t : Has(q, t) => Has(Append(Room(q), s), t) \/ (Len(q) = BusCap /\ t = Head(q))
         /\ Len(q) = BusCap => Head(q) \in Subsystems
<1> DEFINE u == Room(q)
<1>1. /\ u \in Seq(Subsystems) /\ Len(u) < BusCap
      /\ Len(q) = BusCap => Head(q) \in Subsystems
      /\ \A t : Has(q, t) => Has(u, t) \/ (Len(q) = BusCap /\ t = Head(q))
  <2>1. CASE Len(q) = BusCap
    <3>1. q # <<>> /\ u = Tail(q)
      BY <2>1, MessagingConstants DEF Room
    <3> QED  BY <2>1, <3>1, FirstTaken, MessagingConstants
  <2>2. CASE Len(q) # BusCap
    BY <2>2, MessagingConstants DEF Room
  <2> QED  BY <2>1, <2>2
<1> HIDE DEF u
<1> DEFINE r == Append(u, s)
           n == Len(u)
<1>2. n \in Nat /\ n = Len(u)
  BY <1>1
<1>3. r \in Seq(Subsystems)
  BY <1>1
<1>7. Len(r) = n + 1 /\ \A i \in 1 .. n : r[i] = u[i]
  BY <1>1
<1>4. r[n + 1] = s
  BY <1>1
<1> HIDE DEF n, r
<1>5. Len(r) <= BusCap /\ Has(r, s)
  BY <1>1, <1>2, <1>3, <1>7, <1>4, MessagingConstants DEF Has
<1>6. ASSUME NEW t, Has(u, t)  PROVE Has(r, t)
  <2>1. PICK i \in 1 .. n : u[i] = t
    BY <1>1, <1>2, <1>6 DEF Has
  <2> QED  BY <1>2, <1>3, <1>7, <2>1 DEF Has
<1>8. \A t : Has(q, t) => Has(r, t) \/ (Len(q) = BusCap /\ t = Head(q))
  BY <1>1, <1>6
<1>9. r = Append(Room(q), s)
  BY DEF r, u
<1> QED  BY <1>1, <1>3, <1>5, <1>8, <1>9

\* What a connection is still to be told, or was told would be: an event of s
\* is on its way to c or was dropped with a lag.
Pending(c, s) ==
  \/ s \in overwritten[c] \/ Has(rx[c], s) \/ s \in drained[c] \/ s \in lost[c]

\* What Publish does for a connection, open or not.
LEMMA Published ==
  ASSUME Wires, NEW s \in Subsystems, Publish(s)
  PROVE  /\ rx' \in [Conns -> Seq(Subsystems)] /\ \A c \in Conns : Len(rx'[c]) <= BusCap
         /\ overwritten' \in Heaps /\ owed' \in Heaps /\ UNCHANGED <<drained, lost>>
         /\ \A c \in Conns \ Open : owed'[c] = owed[c]
         /\ \A c \in Open : /\ owed'[c] = owed[c] \union {s} /\ Pending(c, s)'
                            /\ \A t : Pending(c, t) => Pending(c, t)'
<1>1. /\ rx' = [c \in Conns |-> rx'[c]] /\ overwritten' = [c \in Conns |-> overwritten'[c]]
      /\ owed' = [c \in Conns |-> owed'[c]] /\ UNCHANGED <<drained, lost>>
  BY DEF Publish
<1>2. ASSUME NEW c \in Conns
      PROVE  /\ rx'[c] \in Seq(Subsystems) /\ Len(rx'[c]) <= BusCap
             /\ overwritten'[c] \in SUBSET Subsystems /\ owed'[c] \in SUBSET Subsystems
             /\ c \notin Open => owed'[c] = owed[c]
             /\ c \in Open => /\ owed'[c] = owed[c] \union {s} /\ Has(rx'[c], s)
                              /\ overwritten[c] \subseteq overwritten'[c]
                              /\ \A t : Has(rx[c], t) => Has(rx'[c], t) \/ t \in overwritten'[c]
  <2>1. /\ rx[c] \in Seq(Subsystems) /\ Len(rx[c]) <= BusCap
        /\ overwritten[c] \in SUBSET Subsystems /\ owed[c] \in SUBSET Subsystems
    BY DEF Wires, Heaps
  <2>2. CASE c \notin Open
    <3>1. rx'[c] = rx[c] /\ overwritten'[c] = overwritten[c] /\ owed'[c] = owed[c]
      BY <2>2 DEF Publish
    <3> QED  BY <2>1, <2>2, <3>1
  <2>3. CASE c \in Open
    <3>1. /\ rx'[c] = Append(Room(rx[c]), s) /\ owed'[c] = owed[c] \union {s}
          /\ overwritten'[c] = IF Len(rx[c]) = BusCap
                               THEN overwritten[c] \union {Head(rx[c])} ELSE overwritten[c]
      BY <2>3 DEF Publish
    <3> QED  BY <2>1, <2>3, <3>1, Queued
  <2> QED  BY <2>2, <2>3
<1>3. Open \subseteq Conns
  BY DEF Open
<1>4. ASSUME NEW c \in Open
      PROVE  Pending(c, s)' /\ \A t : Pending(c, t) => Pending(c, t)'
  BY <1>1, <1>2, <1>3 DEF Pending, Has
<1> QED  BY <1>1, <1>2, <1>3, <1>4 DEF Heaps
-----------------------------------------------------------------------------
\* What a step of an idle does on the bus: the other connections' ends stay,
\* a watched subsystem still owed stays pending, and one that is no longer
\* owed was reported.
Idled(c) ==
  /\ rx' \in [Conns -> Seq(Subsystems)] /\ Len(rx'[c]) <= BusCap
  /\ overwritten' \in Heaps /\ drained' \in Heaps /\ owed' \in Heaps /\ lost' \in Heaps
  /\ unread' \in [Conns -> BOOLEAN]
  /\ \A d \in Conns \ {c} :
       /\ rx'[d] = rx[d] /\ overwritten'[d] = overwritten[d] /\ drained'[d] = drained[d]
       /\ owed'[d] = owed[d] /\ lost'[d] = lost[d] /\ unread'[d] = unread[d]
  /\ mode'[c] # "drain" => drained'[c] = {}
  /\ mode'[c] \in {"idle", "drain"} => ~unread'[c]
  /\ owed'[c] \subseteq owed[c]
  /\ \A s \in owed'[c] : s \in Watched(filter[c]) /\ Pending(c, s) => Pending(c, s)'
  /\ "message" \in owed[c] \ owed'[c] => unread'[c]

\* The first event of a backlog is drained.
LEMMA TakeEventIdled ==
  ASSUME Wires, mode \in [Conns -> Modes], NEW c \in Conns,
         TakeEvent(c) \/ DrainEvent(c)
  PROVE  Idled(c)
<1> DEFINE h == Head(rx[c])
           old == IF mode[c] = "idle" THEN {} ELSE drained[c]
<1>1. /\ rx[c] \in Seq(Subsystems) /\ rx[c] # <<>> /\ Len(rx[c]) <= BusCap
      /\ rx' = [rx EXCEPT ![c] = Tail(@)] /\ mode[c] \in {"idle", "drain"}
      /\ UNCHANGED <<unread, overwritten, owed, lost>>
      /\ mode' = [mode EXCEPT ![c] = "drain"]
      /\ drained' = [drained EXCEPT ![c] = old \union {h}]
  BY DEF TakeEvent, DrainEvent, conns, SetMode, Wires
<1>2. /\ h \in Subsystems /\ Tail(rx[c]) \in Seq(Subsystems)
      /\ Len(Tail(rx[c])) = Len(rx[c]) - 1
      /\ \A t : Has(rx[c], t) => t = h \/ Has(Tail(rx[c]), t)
  BY <1>1, FirstTaken
<1>3. old \in SUBSET Subsystems /\ drained[c] \subseteq old
  BY <1>1 DEF Wires, Heaps
<1> HIDE DEF h, old
<1>4. /\ rx' \in [Conns -> Seq(Subsystems)] /\ rx'[c] = Tail(rx[c])
      /\ \A d \in Conns \ {c} : rx'[d] = rx[d]
  BY <1>1, <1>2 DEF Wires
<1>5. /\ drained' \in Heaps /\ drained'[c] = old \union {h}
      /\ \A d \in Conns \ {c} : drained'[d] = drained[d]
  BY <1>1, <1>2, <1>3 DEF Wires, Heaps
<1>6. Len(rx'[c]) <= BusCap
  <2>1. Len(rx[c]) \in Nat /\ BusCap \in Nat
    BY <1>1, MessagingConstants
  <2> QED  BY <1>1, <1>2, <1>4, <2>1
<1>7. \A s : Pending(c, s) => Pending(c, s)'
  BY <1>1, <1>2, <1>3, <1>4, <1>5 DEF Pending, Has
<1>8. /\ overwritten' \in Heaps /\ owed' \in Heaps /\ lost' \in Heaps
      /\ unread' \in [Conns -> BOOLEAN] /\ ~unread'[c] /\ mode'[c] = "drain"
  BY <1>1 DEF Wires
<1> QED  BY <1>1, <1>4, <1>5, <1>6, <1>7, <1>8 DEF Idled

\* What was drained is reported as far as it is watched.
LEMMA AnswerTells ==
  ASSUME Wires, mode \in [Conns -> Modes], NEW c \in Conns, mode[c] = "drain", Answer(c)
  PROVE  /\ mode'[c] \in {"idle", "ready"} /\ owed' \in Heaps /\ unread' \in [Conns -> BOOLEAN]
         /\ \A d \in Conns \ {c} : owed'[d] = owed[d] /\ unread'[d] = unread[d]
         /\ mode'[c] = "idle" => ~unread'[c]
         /\ owed'[c] = owed[c] \ (drained[c] \intersect Watched(filter[c]))
         /\ "message" \in owed[c] \ owed'[c] => unread'[c]
<1> DEFINE S == drained[c] \intersect Watched(filter[c])
<1>1. ~unread[c]
  BY DEF Wires
<1>2. CASE S = {}
  BY <1>1, <1>2 DEF Answer, SetMode, Wires, Heaps
<1>3. CASE S # {}
  <2>1. Report(c, S)
    BY <1>3 DEF Answer
  <2> HIDE DEF S
  <2>2. /\ mode' = [mode EXCEPT ![c] = "ready"] /\ owed' = [owed EXCEPT ![c] = @ \ S]
        /\ unread' = [unread EXCEPT ![c] = @ \/ "message" \in S]
    BY <2>1 DEF Report, SetMode
  <2>3. /\ unread' \in [Conns -> BOOLEAN] /\ ("message" \in S => unread'[c])
        /\ \A d \in Conns \ {c} : unread'[d] = unread[d]
    BY <2>2 DEF Wires
  <2>4. /\ owed' \in Heaps /\ owed'[c] = owed[c] \ S
        /\ \A d \in Conns \ {c} : owed'[d] = owed[d]
    BY <2>2 DEF Wires, Heaps
  <2>5. "message" \in owed[c] \ owed'[c] => unread'[c]
    BY <2>3, <2>4
  <2>6. mode'[c] = "ready"
    BY <2>2
  <2>7. owed'[c] = owed[c] \ (drained[c] \intersect Watched(filter[c]))
    BY <2>4 DEF S
  <2> QED  BY <2>3, <2>4, <2>5, <2>6, <2>7
<1> QED  BY <1>2, <1>3

\* The end of a drain, by an empty backlog or by a lag.
LEMMA DrainEndsIdled ==
  ASSUME Wires, mode \in [Conns -> Modes], NEW c \in Conns,
         DrainEnds(c) \/ DrainLagged(c)
  PROVE  Idled(c)
<1>1. /\ mode[c] = "drain" /\ Answer(c) /\ rx' = rx
      /\ drained' = [drained EXCEPT ![c] = {}]
      /\ overwritten' = [overwritten EXCEPT ![c] = {}]
      /\ lost' = [lost EXCEPT ![c] = (@ \union overwritten[c]) \intersect owed'[c]]
  <2>1. CASE DrainEnds(c)
    <3>1. overwritten[c] = {} /\ overwritten' = overwritten
      BY <2>1 DEF DrainEnds
    <3>2. overwritten' = [overwritten EXCEPT ![c] = {}]
      BY <3>1 DEF Wires, Heaps
    <3> QED  BY <2>1, <3>1, <3>2 DEF DrainEnds
  <2>2. CASE DrainLagged(c)
    BY <2>2 DEF DrainLagged
  <2> QED  BY <2>1, <2>2
<1>2. /\ mode'[c] \in {"idle", "ready"} /\ owed' \in Heaps /\ unread' \in [Conns -> BOOLEAN]
      /\ \A d \in Conns \ {c} : owed'[d] = owed[d] /\ unread'[d] = unread[d]
      /\ mode'[c] = "idle" => ~unread'[c]
      /\ owed'[c] = owed[c] \ (drained[c] \intersect Watched(filter[c]))
      /\ "message" \in owed[c] \ owed'[c] => unread'[c]
  BY <1>1, AnswerTells
<1>3. /\ drained' \in Heaps /\ drained'[c] = {}
      /\ overwritten' \in Heaps
      /\ \A d \in Conns \ {c} : drained'[d] = drained[d] /\ overwritten'[d] = overwritten[d]
  BY <1>1 DEF Wires, Heaps
<1>4. /\ lost' \in Heaps /\ lost'[c] = (lost[c] \union overwritten[c]) \intersect owed'[c]
      /\ \A d \in Conns \ {c} : lost'[d] = lost[d]
  BY <1>1, <1>2 DEF Wires, Heaps
<1>5. ASSUME NEW s \in owed'[c], s \in Watched(filter[c]), Pending(c, s)
      PROVE  Pending(c, s)'
  <2>1. s \notin drained[c]
    BY <1>2, <1>5
  <2> QED  BY <1>1, <1>4, <1>5, <2>1 DEF Pending, Has
<1>6. rx' \in [Conns -> Seq(Subsystems)] /\ Len(rx'[c]) <= BusCap
  BY <1>1 DEF Wires
<1> QED  BY <1>1, <1>2, <1>3, <1>4, <1>5, <1>6 DEF Idled

\* A lag noticed while waiting is answered with all that is watched.
LEMMA IdleLaggedIdled ==
  ASSUME Wires, mode \in [Conns -> Modes], NEW c \in Conns, IdleLagged(c)
  PROVE  Idled(c)
<1> DEFINE S == Watched(filter[c])
<1>1. /\ mode[c] = "idle" /\ mode' = [mode EXCEPT ![c] = "ready"]
      /\ owed' = [owed EXCEPT ![c] = @ \ S]
      /\ unread' = [unread EXCEPT ![c] = @ \/ "message" \in S]
      /\ overwritten' = [overwritten EXCEPT ![c] = {}]
      /\ lost' = [lost EXCEPT ![c] = @ \intersect owed'[c]]
      /\ UNCHANGED <<rx, drained>>
  BY DEF IdleLagged, Report, SetMode
<1> HIDE DEF S
<1>2. /\ owed' \in Heaps /\ owed'[c] = owed[c] \ S
      /\ overwritten' \in Heaps /\ lost' \in Heaps
      /\ \A d \in Conns \ {c} : /\ owed'[d] = owed[d] /\ lost'[d] = lost[d]
                                /\ overwritten'[d] = overwritten[d]
  BY <1>1 DEF Wires, Heaps
<1>3. /\ unread' \in [Conns -> BOOLEAN] /\ ("message" \in S => unread'[c])
      /\ \A d \in Conns \ {c} : unread'[d] = unread[d]
  BY <1>1 DEF Wires
<1>4. mode'[c] = "ready" /\ drained[c] = {}
  BY <1>1 DEF Wires
<1>5. /\ rx' \in [Conns -> Seq(Subsystems)] /\ Len(rx'[c]) <= BusCap
      /\ drained' \in Heaps
  BY <1>1 DEF Wires
<1>6. "message" \in owed[c] \ owed'[c] => unread'[c]
  BY <1>2, <1>3
<1>7. \A s \in owed'[c] : s \notin Watched(filter[c])
  BY <1>2 DEF S
<1>8. \A d \in Conns \ {c} : rx'[d] = rx[d] /\ drained'[d] = drained[d]
  BY <1>1
<1>9. drained'[c] = {} /\ owed'[c] \subseteq owed[c]
  BY <1>1, <1>2, <1>4
<1> QED  BY <1>2, <1>3, <1>4, <1>5, <1>6, <1>7, <1>8, <1>9 DEF Idled

\* Each step of an idle.
LEMMA IdlingIdled ==
  ASSUME Wires, mode \in [Conns -> Modes], NEW c \in Conns, Idling(c)
  PROVE  Idled(c)
BY TakeEventIdled, DrainEndsIdled, IdleLaggedIdled DEF Idling

\* Each step of Messaging keeps the wires.
LEMMA WiresStep ==
  ASSUME Books, Wires, [Next]_vars  PROVE Wires'
<1>0. mode \in [Conns -> Modes]
  BY DEF Books
<1>1. ASSUME NEW c \in Conns,
             Connect(c) \/ Disconnect(c) \/ Abort(c) \/ NoIdle(c)
      PROVE  Wires'
  <2>1. /\ mode[c] \in {"new", "ready", "idle"}
        /\ \E m \in {"ready", "closed", "broken"} : mode' = [mode EXCEPT ![c] = m]
        /\ UNCHANGED <<emitting, filter, unread, bus>>
    BY <1>1 DEF Connect, Disconnect, Abort, NoIdle, SetMode
  <2> QED  BY <1>0, <2>1 DEF Wires, bus
<1>2. ASSUME NEW c \in Conns, Read(c)  PROVE Wires'
  <2>1. /\ unread' = [unread EXCEPT ![c] = FALSE]
        /\ owed' = [owed EXCEPT ![c] = @ \ {"message"}]
        /\ lost' = [lost EXCEPT ![c] = @ \ {"message"}]
        /\ UNCHANGED <<mode, emitting, filter, rx, overwritten, drained>>
    BY <1>2 DEF Read
  <2>2. /\ unread' \in [Conns -> BOOLEAN] /\ \A d \in Conns : unread'[d] => unread[d]
        /\ owed' \in Heaps /\ lost' \in Heaps
        /\ \A d \in Conns : owed'[d] \subseteq owed[d]
    BY <2>1 DEF Wires, Heaps
  <2> QED  BY <2>1, <2>2 DEF Wires
<1>3. ASSUME NEW c \in Conns, NEW ch \in Channels,
             \/ Subscribe(c, ch) \/ Unsubscribe(c, ch)
             \/ \E text \in Texts : Send(c, ch, text)
      PROVE  Wires'
  <2>1. /\ mode[c] = "ready" /\ UNCHANGED <<filter, unread, bus>>
        /\ \/ UNCHANGED <<mode, emitting>>
           \/ \E e \in {"message", "subscription"} :
                /\ mode' = [mode EXCEPT ![c] = "emit"]
                /\ emitting' = [emitting EXCEPT ![c] = e]
    BY <1>3 DEF Subscribe, Unsubscribe, Send, SetMode
  <2>2. CASE UNCHANGED <<mode, emitting>>
    BY <2>1, <2>2 DEF Wires, bus
  <2>3. ASSUME NEW e \in {"message", "subscription"},
               mode' = [mode EXCEPT ![c] = "emit"],
               emitting' = [emitting EXCEPT ![c] = e]
        PROVE  Wires'
    <3>1. /\ emitting' \in [Conns -> {"none", "message", "subscription"}]
          /\ \A d \in Conns : mode'[d] = "emit" <=> emitting'[d] # "none"
      BY <1>0, <2>3 DEF Wires
    <3>2. \A d \in Conns : /\ mode'[d] = "new" => mode[d] = "new"
                           /\ mode'[d] \in {"idle", "drain"} => mode[d] = mode'[d]
                           /\ mode'[d] # "drain" => mode[d] # "drain"
      BY <1>0, <2>1, <2>3
    <3> QED  BY <2>1, <3>1, <3>2 DEF Wires, bus
  <2> QED  BY <2>1, <2>2, <2>3
<1>4. ASSUME NEW c \in Conns, NEW F \in Filters[c], BeginIdle(c, F)  PROVE Wires'
  BY <1>0, <1>4 DEF BeginIdle, SetMode, Wires, bus
<1>5. ASSUME NEW c \in Conns, Emit(c)  PROVE Wires'
  <2>1. /\ mode[c] = "emit" /\ mode' = [mode EXCEPT ![c] = "ready"]
        /\ emitting' = [emitting EXCEPT ![c] = "none"]
        /\ UNCHANGED <<filter, unread>> /\ Publish(emitting[c])
    BY <1>5 DEF Emit, SetMode
  <2>2. emitting[c] \in Subsystems
    BY <2>1, MessagingConstants DEF Wires
  <2>3. /\ rx' \in [Conns -> Seq(Subsystems)] /\ \A d \in Conns : Len(rx'[d]) <= BusCap
        /\ overwritten' \in Heaps /\ owed' \in Heaps /\ UNCHANGED <<drained, lost>>
        /\ \A d \in Conns \ Open : owed'[d] = owed[d]
    BY <2>1, <2>2, Published
  <2> QED  BY <1>0, <2>1, <2>3 DEF Wires, Open
<1>6. ASSUME NEW s \in Subsystems, EmitOther(s)  PROVE Wires'
  <2>1. Publish(s) /\ UNCHANGED <<mode, emitting, filter, unread>>
    BY <1>6 DEF EmitOther, conns
  <2>2. /\ rx' \in [Conns -> Seq(Subsystems)] /\ \A d \in Conns : Len(rx'[d]) <= BusCap
        /\ overwritten' \in Heaps /\ owed' \in Heaps /\ UNCHANGED <<drained, lost>>
        /\ \A d \in Conns \ Open : owed'[d] = owed[d]
    BY <2>1, Published
  <2> QED  BY <1>0, <2>1, <2>2 DEF Wires, Open
<1>7. ASSUME NEW c \in Conns, Idling(c)  PROVE Wires'
  <2>1. /\ Idled(c) /\ UNCHANGED <<emitting, filter>> /\ mode[c] \in {"idle", "drain"}
        /\ \/ mode' = mode
           \/ \E m \in {"ready", "idle", "drain"} : mode' = [mode EXCEPT ![c] = m]
    BY <1>0, <1>7, IdlingIdled, IdlingMoves
  <2>2. /\ \A d \in Conns \ {c} : mode'[d] = mode[d]
        /\ mode'[c] \in {"ready", "idle", "drain"}
    BY <1>0, <2>1
  <2>3. \A d \in Conns : Len(rx'[d]) <= BusCap
    BY <2>1 DEF Idled, Wires
  <2>4. \A d \in Conns : mode'[d] = "emit" <=> emitting'[d] # "none"
    BY <2>1, <2>2 DEF Wires
  <2>8. \A d \in Conns \ {c} : owed'[d] = owed[d]
    BY <2>1 DEF Idled
  <2>5. \A d \in Conns : mode'[d] = "new" => owed'[d] = {}
    <3> SUFFICES ASSUME NEW d \in Conns, mode'[d] = "new"  PROVE owed'[d] = {}
      OBVIOUS
    <3>1. d # c /\ mode[d] = "new"
      BY <2>2
    <3> QED  BY <2>8, <3>1 DEF Wires
  <2>6. \A d \in Conns : mode'[d] # "drain" => drained'[d] = {}
    BY <2>1, <2>2 DEF Wires, Idled
  <2>7. \A d \in Conns : mode'[d] \in {"idle", "drain"} => filter'[d] \in Filters[d] /\ ~unread'[d]
    BY <2>1, <2>2 DEF Wires, Idled
  <2> QED  BY <2>1, <2>3, <2>4, <2>5, <2>6, <2>7 DEF Wires, Idled
<1>8. CASE UNCHANGED vars
  BY <1>8 DEF vars, conns, bus, Wires
<1> QED  BY <1>1, <1>2, <1>3, <1>4, <1>5, <1>6, <1>7, <1>8 DEF Next, Idling

\* What a client is owed and watches in each of its idles is pending.
Heard ==
  \A c \in Open : \A s \in owed[c] :
    (\A F \in Filters[c] : s \in Watched(F)) => Pending(c, s)

\* Steps that leave the bus and its receivers alone.
LEMMA HeardKept ==
  ASSUME Wires, Heard, UNCHANGED <<rx, overwritten, drained, owed, lost>>,
         \A c \in Open' : c \in Open \/ (c \in Conns /\ mode[c] = "new")
  PROVE  Heard'
BY DEF Wires, Heard, Pending, Has, Watched

\* An event is pending at every open connection, and costs none unmarked.
LEMMA HeardPublish ==
  ASSUME Wires, Heard, NEW t \in Subsystems, Publish(t), Open' = Open
  PROVE  Heard'
<1> SUFFICES ASSUME NEW c \in Open, NEW s \in owed'[c],
                    \A F \in Filters[c] : s \in Watched(F)
             PROVE  Pending(c, s)'
  BY DEF Heard, Watched
<1>1. /\ owed'[c] = owed[c] \union {t} /\ Pending(c, t)'
      /\ \A u : Pending(c, u) => Pending(c, u)'
  BY Published
<1>2. s = t \/ Pending(c, s)
  BY <1>1 DEF Heard
<1> QED  BY <1>1, <1>2

\* Each step keeps what is owed pending or reports it.
LEMMA HeardStep ==
  ASSUME Books, Wires, Heard, [Next]_vars  PROVE Heard'
<1>0. mode \in [Conns -> Modes]
  BY DEF Books
<1>1. ASSUME NEW c \in Conns, NEW F,
             Connect(c) \/ Disconnect(c) \/ Abort(c) \/ NoIdle(c) \/ BeginIdle(c, F)
      PROVE  Heard'
  <2>1. /\ mode[c] \in {"new", "ready", "idle"}
        /\ \E m \in {"ready", "closed", "broken", "idle"} : mode' = [mode EXCEPT ![c] = m]
        /\ UNCHANGED bus
    BY <1>1 DEF Connect, Disconnect, Abort, NoIdle, BeginIdle, SetMode
  <2>2. \A d \in Open' : d \in Open \/ (d \in Conns /\ mode[d] = "new")
    BY <1>0, <2>1 DEF Open
  <2> QED  BY <2>1, <2>2, HeardKept DEF bus
<1>2. ASSUME NEW c \in Conns, Read(c)  PROVE Heard'
  <2>1. /\ owed' = [owed EXCEPT ![c] = @ \ {"message"}]
        /\ lost' = [lost EXCEPT ![c] = @ \ {"message"}]
        /\ UNCHANGED <<mode, rx, overwritten, drained>>
    BY <1>2 DEF Read
  <2>2. \A d \in Conns : \A s \in owed'[d] : s \in owed[d] /\ (s \in lost[d] => s \in lost'[d])
    BY <2>1 DEF Wires, Heaps
  <2>3. Open' = Open /\ Open \subseteq Conns
    BY <2>1 DEF Open
  <2> QED  BY <2>1, <2>2, <2>3 DEF Heard, Pending, Has, Watched
<1>3. ASSUME NEW c \in Conns, NEW ch \in Channels,
             \/ Subscribe(c, ch) \/ Unsubscribe(c, ch)
             \/ \E text \in Texts : Send(c, ch, text)
      PROVE  Heard'
  <2>1. /\ mode[c] = "ready" /\ UNCHANGED bus
        /\ mode' = mode \/ mode' = [mode EXCEPT ![c] = "emit"]
    BY <1>3 DEF Subscribe, Unsubscribe, Send, SetMode
  <2>2. Open' = Open
    BY <1>0, <2>1 DEF Open
  <2> QED  BY <2>1, <2>2, HeardKept DEF bus
<1>4. ASSUME NEW c \in Conns, Emit(c)  PROVE Heard'
  <2>1. /\ mode[c] = "emit" /\ mode' = [mode EXCEPT ![c] = "ready"]
        /\ Publish(emitting[c])
    BY <1>4 DEF Emit, SetMode
  <2>2. emitting[c] \in Subsystems
    BY <2>1, MessagingConstants DEF Wires
  <2>3. Open' = Open
    BY <1>0, <2>1 DEF Open
  <2> QED  BY <2>1, <2>2, <2>3, HeardPublish
<1>5. ASSUME NEW s \in Subsystems, EmitOther(s)  PROVE Heard'
  BY <1>5, HeardPublish DEF EmitOther, conns, Open
<1>6. ASSUME NEW c \in Conns, Idling(c)  PROVE Heard'
  <2>1. Idled(c)
    BY <1>0, <1>6, IdlingIdled
  <2>2. /\ mode[c] \in {"idle", "drain"} /\ filter[c] \in Filters[c] /\ c \in Open
        /\ Open' \subseteq Open /\ Open \subseteq Conns
    BY <1>0, <1>6, IdlingMoves DEF Wires, Open
  <2> SUFFICES ASSUME NEW d \in Open', NEW s \in owed'[d],
                      \A F \in Filters[d] : s \in Watched(F)
               PROVE  Pending(d, s)'
    BY DEF Heard, Watched
  <2>3. CASE d = c
    <3>1. s \in owed[c] /\ s \in Watched(filter[c]) /\ Pending(c, s)
      BY <2>1, <2>2, <2>3 DEF Idled, Heard
    <3> QED  BY <2>1, <2>3, <3>1 DEF Idled
  <2>4. CASE d # c
    <3>1. /\ rx'[d] = rx[d] /\ overwritten'[d] = overwritten[d] /\ drained'[d] = drained[d]
          /\ owed'[d] = owed[d] /\ lost'[d] = lost[d] /\ d \in Open
      BY <2>1, <2>2, <2>4 DEF Idled
    <3>2. Pending(d, s)
      BY <3>1 DEF Heard
    <3> QED  BY <3>1, <3>2 DEF Pending, Has
  <2> QED  BY <2>3, <2>4
<1>7. CASE UNCHANGED vars
  BY <1>7, HeardKept DEF vars, conns, bus, Open
<1> QED  BY <1>1, <1>2, <1>3, <1>4, <1>5, <1>6, <1>7 DEF Next, Idling

\* Clients that idle on the same subsystems every time.
Steady == \A c \in Conns : \A F, G \in Filters[c] : F = G

\* A client that idles on the same subsystems every time, whichever they are,
\* is told of each change to them, but for those the bus overwrites while
\* one of its idles drains; a client that varies its filter is not, since
\* the drain of one idle discards what the next asks for.
THEOREM MessagingTellsChanges ==
  ASSUME Steady
  PROVE  Spec => []NoLostChange
<1> DEFINE Inv == BrokerInv /\ Books /\ Wires /\ Heard
<1>1. Init => Inv
  BY BrokerInitCorrect, BooksInit, WiresInit DEF Init, Heard, Open
<1>2. Inv /\ [Next]_vars => Inv'
  BY StepCallsBroker, BrokerStepCorrect, BooksStep, WiresStep, HeardStep
<1>3. Inv => NoLostChange
  <2> SUFFICES ASSUME Wires, Heard, NEW c \in Conns, mode[c] = "idle", rx[c] = <<>>,
                      overwritten[c] = {}, NEW s \in owed[c], s \in Watched(filter[c])
               PROVE  s \in lost[c]
    BY DEF NoLostChange
  <2>1. c \in Open /\ filter[c] \in Filters[c] /\ drained[c] = {}
    BY DEF Wires, Open
  <2>2. \A F \in Filters[c] : s \in Watched(F)
    BY <2>1 DEF Steady
  <2> QED  BY <2>1, <2>2 DEF Heard, Pending, Has
<1> HIDE DEF Inv
<1> QED  BY <1>1, <1>2, <1>3, PTL DEF Spec

\* A client that has read what it was told of and has something in its inbox
\* is owed a report of message, or will be when a sender has emitted.
Wake ==
  \A c \in Open : (~unread[c] /\ Inbox(c) # <<>>)
    => "message" \in owed[c] \/ \E d \in Conns : emitting[d] = "message"

\* Steps that report nothing, take back no announcement, and change no inbox
\* unless they empty it.
LEMMA WakeKept ==
  ASSUME Wake,
         \A d \in Conns : emitting[d] = "message" => emitting'[d] = "message",
         \A c \in Open' : \/ Inbox(c)' = <<>>
                          \/ /\ c \in Open /\ unread'[c] = unread[c] /\ Inbox(c)' = Inbox(c)
                             /\ owed[c] \subseteq owed'[c]
  PROVE  Wake'
BY DEF Wake

\* A message into an empty inbox is announced; one into another needs no more.
LEMMA WakeSend ==
  ASSUME BrokerInv, Books, Wires, Wake,
         NEW c \in Conns, NEW ch \in Channels, NEW text \in Texts, Send(c, ch, text)
  PROVE  Wake'
<1>1. /\ mode[c] = "ready" /\ UNCHANGED <<conn_id, unread, owed>>
      /\ SendMessage(ch, text)
      /\ IF WakesIdle(ch)
         THEN mode' = [mode EXCEPT ![c] = "emit"]
              /\ emitting' = [emitting EXCEPT ![c] = "message"]
         ELSE UNCHANGED <<mode, emitting>>
  BY DEF Send, SetMode, bus
<1>2. /\ Open' = Open
      /\ \A d \in Conns : emitting[d] = "message" => emitting'[d] = "message"
      /\ WakesIdle(ch) => emitting'[c] = "message"
  BY <1>1 DEF Books, Wires, Open
<1>3. SUFFICES ASSUME NEW d \in Open, ~unread[d], Inbox(d)' # <<>>
               PROVE  "message" \in owed[d] \/ \E e \in Conns : emitting'[e] = "message"
  BY <1>1, <1>2 DEF Wake
<1>4. conn_id[d] \in DOMAIN clients
  BY DEF Books, ListsAgree, Registered
<1>5. CASE Inbox(d) # <<>>
  BY <1>2, <1>3, <1>5 DEF Wake
<1>6. CASE Inbox(d) = <<>>
  <2>1. clients'[conn_id[d]] # clients[conn_id[d]]
    BY <1>1, <1>3, <1>6 DEF Inbox
  <2>2. conn_id[d] \in Accepting(ch)
    BY <1>1, <1>4, <2>1 DEF SendMessage, Registered
  <2>3. WakesIdle(ch)
    BY <1>6, <2>2 DEF WakesIdle, Inbox
  <2> QED  BY <1>2, <2>3
<1> QED  BY <1>5, <1>6

\* An event on the bus makes every open connection owe its report.
LEMMA WakePublish ==
  ASSUME Wires, Wake, NEW s \in Subsystems, Publish(s), Open' = Open,
         UNCHANGED <<clients, conn_id, unread>>,
         \A d \in Conns : emitting[d] = "message" => emitting'[d] = "message" \/ s = "message"
  PROVE  Wake'
<1>1. \A c \in Open : owed'[c] = owed[c] \union {s}
  BY Published
<1> QED  BY <1>1 DEF Wake, Inbox

\* An idle that reports message leaves its client something to read.
LEMMA WakeIdle ==
  ASSUME Books, Wires, Wake, NEW c \in Conns, Idling(c)
  PROVE  Wake'
<1>1. Idled(c)
  BY IdlingIdled DEF Books
<1>2. /\ c \in Open /\ Open' \subseteq Open /\ Open \subseteq Conns
      /\ UNCHANGED <<clients, conn_id, emitting>> /\ ~unread[c]
  BY IdlingMoves DEF Wires, Open, Books, broker
<1> SUFFICES ASSUME NEW d \in Open', ~unread'[d], Inbox(d)' # <<>>
             PROVE  "message" \in owed'[d] \/ \E e \in Conns : emitting'[e] = "message"
  BY DEF Wake
<1>3. CASE d = c
  BY <1>1, <1>2, <1>3 DEF Wake, Inbox, Idled
<1>4. CASE d # c
  <2>1. owed'[d] = owed[d] /\ ~unread[d]
    BY <1>1, <1>2, <1>4 DEF Idled
  <2> QED  BY <1>2, <2>1 DEF Wake, Inbox
<1> QED  BY <1>3, <1>4

\* Each step of Messaging keeps wake-ups on their way.
LEMMA WakeStep ==
  ASSUME BrokerInv, Books, Wires, Wake, [Next]_vars
  PROVE  Wake'
<1>0. /\ mode \in [Conns -> Modes] /\ BrokerTypeOK
      /\ \A c \in Conns : mode[c] = "ready" => emitting[c] = "none"
  BY DEF Books, BrokerInv, Wires
<1>1. ASSUME NEW c \in Conns, Connect(c)  PROVE Wake'
  <2>1. /\ mode[c] = "new" /\ mode' = [mode EXCEPT ![c] = "ready"]
        /\ conn_id' = [conn_id EXCEPT ![c] = next_client_id]
        /\ UNCHANGED <<emitting, unread, owed>>
    BY <1>1 DEF Connect, SetMode, bus
  <2>2. /\ clients'[next_client_id] = [subscriptions |-> {}, messages |-> <<>>]
        /\ \A id \in DOMAIN clients : id # next_client_id /\ clients'[id] = clients[id]
    BY <1>0, <1>1 DEF Connect, RegisterClient, BrokerTypeOK, Registered
  <2>3. Inbox(c)' = <<>>
    BY <2>1, <2>2 DEF Inbox, Books
  <2>4. ASSUME NEW d \in Open', d # c
        PROVE  d \in Open /\ Inbox(d)' = Inbox(d)
    <3>1. d \in Open /\ conn_id'[d] = conn_id[d] /\ conn_id[d] \in DOMAIN clients
      BY <1>0, <2>1, <2>4 DEF Open, Books, ListsAgree, Registered
    <3> QED  BY <2>2, <3>1 DEF Inbox
  <2> QED  BY <2>1, <2>3, <2>4, WakeKept
<1>2. ASSUME NEW c \in Conns, Disconnect(c)  PROVE Wake'
  <2>1. /\ mode[c] = "ready" /\ mode' = [mode EXCEPT ![c] = "closed"]
        /\ UNCHANGED <<conn_id, emitting, unread, owed>>
        /\ \A id \in DOMAIN clients \ {conn_id[c]} : clients'[id] = clients[id]
    BY <1>2 DEF Disconnect, UnregisterClient, SetMode, bus, Registered
  <2>2. ASSUME NEW d \in Open'
        PROVE  d \in Open /\ Inbox(d)' = Inbox(d)
    <3>1. d \in Open /\ d # c /\ d \in Conns
      BY <1>0, <2>1 DEF Open
    <3>2. conn_id[d] # conn_id[c] /\ conn_id[d] \in DOMAIN clients
      BY <2>1, <3>1 DEF Books, Open, ListsAgree, Registered
    <3> QED  BY <2>1, <3>1, <3>2 DEF Inbox
  <2> QED  BY <2>1, <2>2, WakeKept
<1>3. ASSUME NEW c \in Conns, NEW F, Abort(c) \/ BeginIdle(c, F) \/ NoIdle(c)  PROVE Wake'
  <2>1. /\ mode[c] \in {"ready", "idle"}
        /\ \E m \in {"ready", "idle", "broken"} : mode' = [mode EXCEPT ![c] = m]
        /\ UNCHANGED <<clients, conn_id, emitting, unread, owed>>
    BY <1>3 DEF Abort, BeginIdle, NoIdle, SetMode, bus, broker
  <2>2. Open' \subseteq Open
    BY <1>0, <2>1 DEF Open
  <2>3. \A d : Inbox(d)' = Inbox(d)
    BY <2>1 DEF Inbox
  <2> QED  BY <2>1, <2>2, <2>3, WakeKept
<1>4. ASSUME NEW c \in Conns, NEW ch \in Channels, Subscribe(c, ch) \/ Unsubscribe(c, ch)
      PROVE  Wake'
  <2>1. /\ mode[c] = "ready" /\ mode' = [mode EXCEPT ![c] = "emit"]
        /\ emitting' = [emitting EXCEPT ![c] = "subscription"]
        /\ UNCHANGED <<conn_id, unread, owed>>
    BY <1>4 DEF Subscribe, Unsubscribe, SetMode, bus
  <2>2. ASSUME NEW id \in DOMAIN clients
        PROVE  clients'[id].messages = clients[id].messages
    <3>1. \/ clients' = clients
          \/ \E T : clients' = [clients EXCEPT ![conn_id[c]].subscriptions = T]
      BY <1>4 DEF Subscribe, Unsubscribe, RegisterSubscriber, UnregisterSubscriber, broker
    <3>2. \/ clients'[id] = clients[id]
          \/ \E T : clients'[id] = [clients[id] EXCEPT !.subscriptions = T]
      BY <3>1
    <3>3. clients[id] \in Mailbox
      BY <1>0 DEF BrokerTypeOK, Registered
    <3> QED  BY <3>2, <3>3 DEF Mailbox
  <2>3. Open' = Open /\ \A d \in Open : conn_id[d] \in DOMAIN clients
    BY <1>0, <2>1 DEF Open, Books, ListsAgree, Registered
  <2>4. \A d \in Open : Inbox(d)' = Inbox(d)
    BY <2>1, <2>2, <2>3 DEF Inbox
  <2>5. \A d \in Conns : emitting[d] = "message" => emitting'[d] = "message"
    BY <1>0, <2>1 DEF Wires
  <2> QED  BY <2>1, <2>3, <2>4, <2>5, WakeKept
<1>5. ASSUME NEW c \in Conns, NEW ch \in Channels, NEW text \in Texts, Send(c, ch, text)
      PROVE  Wake'
  BY <1>5, WakeSend
<1>6. ASSUME NEW c \in Conns, Read(c)  PROVE Wake'
  <2>1. /\ UNCHANGED <<mode, conn_id, emitting>>
        /\ unread' = [unread EXCEPT ![c] = FALSE]
        /\ owed' = [owed EXCEPT ![c] = @ \ {"message"}]
        /\ ReadMessages(conn_id[c])
    BY <1>6 DEF Read
  <2>2. ASSUME NEW d \in Open'
        PROVE  \/ Inbox(d)' = <<>>
               \/ /\ d \in Open /\ unread'[d] = unread[d] /\ Inbox(d)' = Inbox(d)
                  /\ owed[d] \subseteq owed'[d]
    <3>1. d \in Open /\ d \in Conns /\ conn_id[d] \in DOMAIN clients
      BY <2>1 DEF Open, Books, ListsAgree, Registered
    <3>2. CASE conn_id[d] = conn_id[c]
      <4>1. clients'[conn_id[d]] = [clients[conn_id[d]] EXCEPT !.messages = <<>>]
        BY <2>1, <3>1, <3>2 DEF ReadMessages, Registered
      <4>2. clients[conn_id[d]] \in Mailbox
        BY <1>0, <3>1 DEF BrokerTypeOK, Registered
      <4>3. clients'[conn_id[d]].messages = <<>>
        BY <4>1, <4>2 DEF Mailbox
      <4> QED  BY <2>1, <4>3 DEF Inbox
    <3>3. CASE conn_id[d] # conn_id[c]
      <4>1. clients'[conn_id[d]] = clients[conn_id[d]] /\ d # c
        BY <2>1, <3>1, <3>3 DEF ReadMessages, Registered
      <4> QED  BY <2>1, <3>1, <4>1 DEF Inbox, Wires, Heaps
    <3> QED  BY <3>2, <3>3
  <2> QED  BY <2>1, <2>2, WakeKept
<1>7. ASSUME NEW c \in Conns, Emit(c)  PROVE Wake'
  <2>1. /\ mode[c] = "emit" /\ mode' = [mode EXCEPT ![c] = "ready"]
        /\ emitting' = [emitting EXCEPT ![c] = "none"] /\ Publish(emitting[c])
        /\ UNCHANGED <<clients, conn_id, unread>>
    BY <1>7 DEF Emit, SetMode, broker
  <2>2. emitting[c] \in Subsystems /\ Open' = Open
    BY <1>0, <2>1, MessagingConstants DEF Wires, Open
  <2>3. \A d \in Conns : emitting[d] = "message" =>
                           emitting'[d] = "message" \/ emitting[c] = "message"
    BY <2>1 DEF Wires
  <2> QED  BY <2>1, <2>2, <2>3, WakePublish
<1>8. ASSUME NEW s \in Subsystems, EmitOther(s)  PROVE Wake'
  <2>1. Publish(s) /\ UNCHANGED <<mode, clients, conn_id, unread, emitting>>
    BY <1>8 DEF EmitOther, conns, broker
  <2>2. Open' = Open
    BY <2>1 DEF Open
  <2> QED  BY <2>1, <2>2, WakePublish
<1>9. ASSUME NEW c \in Conns, Idling(c)  PROVE Wake'
  BY <1>9, WakeIdle
<1>10. CASE UNCHANGED vars
  BY <1>10 DEF vars, conns, bus, broker, Wake, Inbox, Open
<1> QED  BY <1>1, <1>2, <1>3, <1>4, <1>5, <1>6, <1>7, <1>8, <1>9, <1>10 DEF Next, Idling

\* Clients that watch message in each of their idles.
Attentive == \A c \in Conns : \A F \in Filters[c] : "message" \in Watched(F)

\* Sends announce themselves on the empty to non-empty edge of an inbox
\* only, read empties it, and send, read, emit and the steps of an idle
\* interleave: a client that idles on message is still never left waiting
\* beside a message with no wake-up on its way, unless the bus overwrote the
\* announcement while an idle of that client was draining.
THEOREM MessagingWakes ==
  ASSUME Attentive
  PROVE  Spec => []NoLostWakeup
<1> DEFINE Inv == BrokerInv /\ Books /\ Wires /\ Heard /\ Wake
<1>1. Init => Inv
  BY BrokerInitCorrect, BooksInit, WiresInit DEF Init, Heard, Wake, Open
<1>2. Inv /\ [Next]_vars => Inv'
  BY StepCallsBroker, BrokerStepCorrect, BooksStep, WiresStep, HeardStep, WakeStep
<1>3. Inv => NoLostWakeup
  <2> SUFFICES ASSUME Wires, Heard, Wake, NEW c \in Conns, mode[c] = "idle",
                      Inbox(c) # <<>>, \A d \in Conns : emitting[d] # "message",
                      overwritten[c] = {}, "message" \notin lost[c]
               PROVE  Has(rx[c], "message")
    BY DEF NoLostWakeup, Has
  <2>1. c \in Open /\ ~unread[c] /\ drained[c] = {}
    BY DEF Wires, Open
  <2>2. "message" \in owed[c]
    BY <2>1 DEF Wake
  <2>3. Pending(c, "message")
    BY <2>1, <2>2 DEF Heard, Attentive
  <2> QED  BY <2>1, <2>3 DEF Pending
<1> HIDE DEF Inv
<1> QED  BY <1>1, <1>2, <1>3, PTL DEF Spec

-----------------------------------------------------------------------------
(* The locks.                                                              *)

LocksTypeOK ==
  /\ mix \in Mixes
  /\ route \in [Tasks -> Seq(Steps)]
  /\ at \in [Tasks -> Nat \ {0}]
  /\ line \in [Names -> Seq(Tasks)]

\* A task is on a route of its commands.
OnRoute == \A t \in Tasks : Busy(t) => \E c \in mix[t] : route[t] \in Routes[c]

\* t is about to take l.
Asks(t, l) == Busy(t) /\ Now(t).op # "drop" /\ Now(t).lock = l

\* Who is in a line is about to take its lock, and is there once.
InLine ==
  \A l \in Names :
    /\ \A t \in Tasks : Waits(t, l) => Asks(t, l)
    /\ \A i, j \in DOMAIN line[l] : line[l][i] = line[l][j] => i = j

LocksInv == LocksTypeOK /\ OnRoute /\ InLine

\* Every route is a sequence of steps.
RoutesOK == \A c \in Commands : Routes[c] \subseteq Seq(Steps)

-----------------------------------------------------------------------------
\* Of the tasks of T that wait for a lock, one is first.
LEMMA FirstInLine ==
  ASSUME LocksInv, NEW T \in SUBSET Tasks, NEW l \in Names, NEW t \in T, Waits(t, l)
  PROVE  \E u \in T : /\ Asks(u, l)
                      /\ \A i, j \in DOMAIN line[l] : line[l][i] \in T /\ line[l][j] = u => ~(i < j)
<1> DEFINE P == {i \in DOMAIN line[l] : line[l][i] \in T}
<1>1. line[l] \in Seq(Tasks) /\ DOMAIN line[l] = 1 .. Len(line[l]) /\ Len(line[l]) \in Nat
  BY DEF LocksInv, LocksTypeOK
<1>2. P \in SUBSET Nat /\ P # {}
  BY <1>1 DEF Waits
<1>3. PICK x \in P : \A y \in P : x <= y
  BY <1>2, LeastNat
<1>4. /\ line[l][x] \in T /\ x \in DOMAIN line[l]
      /\ \A j \in DOMAIN line[l] : line[l][j] = line[l][x] => j = x
  BY <1>3 DEF LocksInv, InLine
<1>5. \A i, j \in DOMAIN line[l] : line[l][i] \in T /\ line[l][j] = line[l][x] => ~(i < j)
  BY <1>1, <1>3, <1>4
<1>6. Asks(line[l][x], l)
  BY <1>4 DEF LocksInv, InLine, Waits
<1> QED  BY <1>4, <1>5, <1>6

\* Of some tasks that ask for locks, one asks for the highest.
LEMMA HighestAsked ==
  ASSUME NEW T \in SUBSET Tasks, T # {}, \A t \in T : Now(t).lock \in Names
  PROVE  \E t \in T : \A u \in T : Rank[Now(u).lock] <= Rank[Now(t).lock]
<1> DEFINE D == {8 - Rank[Now(t).lock] : t \in T}
<1>1. \A l \in Names : Rank[l] \in 1 .. 8
  BY DEF Names, Rank
<1>2. D \in SUBSET Nat /\ D # {}
  BY <1>1
<1>3. PICK x \in D : \A y \in D : x <= y
  BY <1>2, LeastNat
<1>4. PICK t \in T : x = 8 - Rank[Now(t).lock]
  BY <1>3
<1>5. ASSUME NEW u \in T  PROVE Rank[Now(u).lock] <= Rank[Now(t).lock]
  <2>1. 8 - Rank[Now(u).lock] \in D
    OBVIOUS
  <2>2. 8 - Rank[Now(t).lock] <= 8 - Rank[Now(u).lock]
    BY <2>1, <1>3, <1>4
  <2>3. Rank[Now(u).lock] \in 1 .. 8 /\ Rank[Now(t).lock] \in 1 .. 8
    BY <1>1
  <2> QED  BY <2>2, <2>3
<1> QED  BY <1>5

\* What the invariant and climbing routes give: no cycle.
LEMMA ClimbingNeverCycles ==
  ASSUME LocksInv, Disciplined
  PROVE  NoWaitCycle
<1> SUFFICES ASSUME NEW T \in SUBSET Tasks, T # {}, \A t \in T : \E u \in T : WaitsFor(t, u)
             PROVE  FALSE
  BY Zenon DEF NoWaitCycle
<1> DEFINE W == Written(mix)
<1>1. ASSUME NEW t \in T
      PROVE  /\ Busy(t) /\ Now(t).op # "drop" /\ Waits(t, Now(t).lock)
             /\ at[t] \in DOMAIN route[t] /\ route[t] \in Seq(Steps) /\ Now(t) \in Steps /\ Now(t).lock \in Names
             /\ Now(t).op = "read" \/ Now(t) = ToWrite(Now(t).lock)
  <2>1. Busy(t) /\ Now(t).op # "drop" /\ Waits(t, Now(t).lock)
    BY DEF WaitsFor
  <2>2. route[t] \in Seq(Steps) /\ at[t] \in Nat \ {0}
    BY DEF LocksInv, LocksTypeOK
  <2>3. at[t] \in DOMAIN route[t] /\ Now(t) \in Steps
    BY <2>1, <2>2 DEF Busy, Now
  <2> QED  BY <2>1, <2>2, <2>3 DEF Steps, ToWrite
<1>2. ASSUME NEW t \in T
      PROVE  /\ Climbs(route[t], W)
             /\ \A i \in DOMAIN route[t] : route[t][i].op = "write" => route[t][i].lock \in W
  <2>1. PICK c \in mix[t] : route[t] \in Routes[c]
    BY <1>1 DEF LocksInv, OnRoute
  <2>2. mix \in Mixes
    BY DEF LocksInv, LocksTypeOK
  <2>3. Climbs(route[t], W)
    BY <2>1, <2>2 DEF Disciplined
  <2>4. ASSUME NEW i \in DOMAIN route[t], route[t][i].op = "write"  PROVE route[t][i].lock \in W
    <3>1. route[t][i] \in Steps
      BY <1>1
    <3>2. route[t][i] = ToWrite(route[t][i].lock) /\ route[t][i].lock \in Names
      BY <3>1, <2>4 DEF Steps, ToWrite
    <3> QED  BY <3>2, <2>1 DEF Written
  <2> QED  BY <2>3, <2>4
\* Who is first of T in a line waits for one that holds the lock.
<1>3. ASSUME NEW t \in T
      PROVE  \E v \in T, u \in T : Now(v).lock = Now(t).lock /\ Bars(u, v)
  <2> DEFINE l == Now(t).lock
  <2>1. PICK v \in T : /\ Busy(v) /\ Now(v).lock = l
                       /\ \A i, j \in DOMAIN line[l] : line[l][i] \in T /\ line[l][j] = v => ~(i < j)
    BY <1>1, FirstInLine DEF Asks
  <2>2. PICK u \in T : WaitsFor(v, u)
    OBVIOUS
  <2>3. Bars(u, v)
    BY <2>1, <2>2 DEF WaitsFor
  <2> QED  BY <2>1, <2>3
\* The lock is one that is written, since who is barred or who bars writes it.
<1>4. ASSUME NEW t \in T, NEW u \in T, Bars(u, t)
      PROVE  Now(t).lock \in W /\ Held(route[u], at[u], Now(t).lock)
  <2> DEFINE l == Now(t).lock
  <2>1. CASE Now(t).op = "write"
    BY <2>1, <1>1, <1>2, <1>4 DEF Bars, Now
  <2>2. CASE Now(t).op # "write"
    <3>1. PICK i \in 1 .. (at[u] - 1) : HeldFrom(route[u], at[u], i, l) /\ route[u][i].op = "write"
      BY <2>2, <1>4 DEF Bars, HeldWriting
    <3>2. i \in DOMAIN route[u]
      BY <1>1
    <3>3. route[u][i].lock = l
      BY <3>1 DEF HeldFrom
    <3> QED  BY <3>1, <3>2, <3>3, <1>2 DEF Held
  <2> QED  BY <2>1, <2>2
<1>5. PICK t \in T : \A u \in T : Rank[Now(u).lock] <= Rank[Now(t).lock]
  BY <1>1, HighestAsked
<1>6. PICK v \in T, u \in T : Now(v).lock = Now(t).lock /\ Bars(u, v)
  BY <1>3
<1>7. Now(t).lock \in W /\ Held(route[u], at[u], Now(t).lock)
  BY <1>4, <1>6
<1>8. Now(u).lock \in W
  <2>1. PICK x \in T, y \in T : Now(x).lock = Now(u).lock /\ Bars(y, x)
    BY <1>3
  <2> QED  BY <2>1, <1>4
<1>9. Rank[Now(t).lock] < Rank[Now(u).lock]
  BY <1>1, <1>2, <1>7, <1>8 DEF Climbs, Now
<1>10. Rank[Now(t).lock] \in Nat /\ Rank[Now(u).lock] \in Nat
  BY <1>1 DEF Names, Rank
<1> QED  BY <1>5, <1>9, <1>10

-----------------------------------------------------------------------------
(* Routes climb.                                                            *)

\* r takes locks of U only, of W upwards, drops them all, and writes only locks of W.
Neat(r, U, W) ==
  /\ r \in Seq(Steps)
  /\ \A i \in DOMAIN r : r[i].lock \in U /\ (r[i].op = "write" => r[i].lock \in W)
  /\ Climbs(r, W)
  /\ \A l \in Names : ~Held(r, Len(r) + 1, l)

LEMMA NeatMore ==
  ASSUME NEW U, NEW V, NEW W, NEW r, Neat(r, U, W), U \subseteq V
  PROVE  Neat(r, V, W)
BY DEF Neat

LEMMA NeatEmpty ==
  ASSUME NEW W
  PROVE  Neat(<<>>, Names, W)
BY DEF Neat, Climbs, Held

LEMMA NeatReads ==
  ASSUME NEW W, NEW l \in Names
  PROVE  Neat(Reads(l), {l}, W)
<1>1. Reads(l) \in Seq(Steps) /\ Len(Reads(l)) = 2 /\ DOMAIN Reads(l) = {1, 2}
      /\ Reads(l)[1] = [op |-> "read", lock |-> l] /\ Reads(l)[2] = [op |-> "drop", lock |-> l]
  BY DEF Reads, ToRead, Drop, Steps
<1>2. \A k : ~Held(Reads(l), 1, k) /\ ~Held(Reads(l), 3, k)
  BY <1>1 DEF Held, HeldFrom, Drop
<1> QED  BY <1>1, <1>2 DEF Neat, Climbs

LEMMA NeatWrites ==
  ASSUME NEW W \in SUBSET Names, NEW l \in W
  PROVE  Neat(Writes(l), {l}, W)
<1>1. Writes(l) \in Seq(Steps) /\ Len(Writes(l)) = 2 /\ DOMAIN Writes(l) = {1, 2}
      /\ Writes(l)[1] = [op |-> "write", lock |-> l] /\ Writes(l)[2] = [op |-> "drop", lock |-> l]
  BY DEF Writes, ToWrite, Drop, Steps
<1>2. \A k : ~Held(Writes(l), 1, k) /\ ~Held(Writes(l), 3, k)
  BY <1>1 DEF Held, HeldFrom, Drop
<1> QED  BY <1>1, <1>2 DEF Neat, Climbs

\* One stretch after another.
LEMMA NeatThen ==
  ASSUME NEW U, NEW V, NEW W \in SUBSET Names, NEW r, NEW s, Neat(r, U, W), Neat(s, V, W)
  PROVE  Neat(r \o s, U \union V, W)
<1> DEFINE x == r \o s
           m == Len(r)
<1>1. /\ r \in Seq(Steps) /\ s \in Seq(Steps) /\ m \in Nat /\ Len(s) \in Nat
      /\ DOMAIN r = 1 .. m /\ DOMAIN s = 1 .. Len(s)
  BY DEF Neat
<1>2. /\ x \in Seq(Steps) /\ Len(x) = m + Len(s) /\ DOMAIN x = 1 .. (m + Len(s))
      /\ \A i \in 1 .. m : x[i] = r[i]
      /\ \A i \in 1 .. Len(s) : x[m + i] = s[i]
  BY <1>1
<1> HIDE DEF x, m
<1>3. \A i \in DOMAIN x : i \in DOMAIN r \/ (i - m \in DOMAIN s /\ x[i] = s[i - m])
  BY <1>1, <1>2
<1>4. ASSUME NEW n \in 1 .. m + 1, NEW l, Held(x, n, l)
      PROVE  Held(r, n, l)
  <2>1. PICK i \in 1 .. (n - 1) : HeldFrom(x, n, i, l)
    BY <1>4 DEF Held
  <2>2. \A j \in 1 .. (n - 1) : x[j] = r[j]
    BY <1>1, <1>2
  <2>3. \A j \in (i + 1) .. (n - 1) : x[j] = r[j]
    BY <2>2
  <2> QED  BY <2>1, <2>2, <2>3 DEF Held, HeldFrom
<1>5. ASSUME NEW k \in 1 .. Len(s) + 1, NEW l \in Names, Held(x, m + k, l)
      PROVE  Held(s, k, l)
  <2>1. PICK i \in 1 .. (m + k - 1) : HeldFrom(x, m + k, i, l)
    BY <1>1, <1>5 DEF Held
  <2>4. \A h \in (i + 1) .. (m + k - 1) : x[h] # Drop(l)
    BY <1>1, <2>1 DEF HeldFrom
  <2>2. CASE i \in 1 .. m
    <3>1. \A j \in (i + 1) .. m : x[j] = r[j] /\ j \in (i + 1) .. (m + k - 1)
      <4>1. \A j \in (i + 1) .. m : j \in 1 .. m /\ j \in (i + 1) .. (m + k - 1)
        BY <1>1, <2>2
      <4> QED  BY <4>1, <1>2
    <3>2. HeldFrom(r, m + 1, i, l)
      BY <1>1, <1>2, <2>1, <2>2, <3>1 DEF HeldFrom
    <3>3. Held(r, Len(r) + 1, l)
      BY <1>1, <2>2, <3>2 DEF Held, m
    <3> QED  BY <3>3 DEF Neat
  <2>3. CASE i \notin 1 .. m
    <3>1. i - m \in 1 .. (k - 1) /\ i = m + (i - m)
      BY <1>1, <2>3
    <3>2. x[i] = s[i - m]
      BY <1>1, <1>2, <3>1
    <3>3. ASSUME NEW j \in (i - m + 1) .. (k - 1)  PROVE s[j] # Drop(l)
      <4>1. m + j \in (i + 1) .. (m + k - 1) /\ j \in 1 .. Len(s)
        BY <1>1, <3>1
      <4>2. x[m + j] = s[j]
        BY <4>1, <1>2
      <4>3. x[m + j] # Drop(l)
        BY <1>1, <4>1, <2>4
      <4> QED  BY <4>2, <4>3
    <3>4. HeldFrom(s, k, i - m, l)
      BY <2>1, <3>2, <3>3 DEF HeldFrom
    <3> QED  BY <3>1, <3>4 DEF Held
  <2> QED  BY <2>2, <2>3
<1>6. Climbs(x, W)
  <2> SUFFICES ASSUME NEW n \in DOMAIN x, x[n].op # "drop", x[n].lock \in W, NEW l \in W, Held(x, n, l)
               PROVE  Rank[l] < Rank[x[n].lock]
    BY DEF Climbs
  <2>1. CASE n \in DOMAIN r
    <3>1. Held(r, n, l) /\ x[n] = r[n]
      BY <1>1, <1>2, <1>4, <2>1
    <3> QED  BY <2>1, <3>1 DEF Neat, Climbs
  <2>2. CASE n - m \in DOMAIN s /\ x[n] = s[n - m]
    <3>1. Held(s, n - m, l)
      <4>1. n - m \in 1 .. Len(s) + 1 /\ m + (n - m) = n
        BY <1>1, <1>2, <2>2
      <4> QED  BY <4>1, <1>5
    <3> QED  BY <2>2, <3>1 DEF Neat, Climbs
  <2> QED  BY <1>3, <2>1, <2>2
<1>7. \A l \in Names : ~Held(x, Len(x) + 1, l)
  <2>1. Len(x) + 1 = m + (Len(s) + 1) /\ Len(s) + 1 \in 1 .. Len(s) + 1
    BY <1>1, <1>2
  <2> QED  BY <2>1, <1>5 DEF Neat
<1>8. \A i \in DOMAIN x : x[i].lock \in U \union V /\ (x[i].op = "write" => x[i].lock \in W)
  BY <1>1, <1>2, <1>3 DEF Neat
<1> QED  BY <1>2, <1>6, <1>7, <1>8 DEF Neat, x

\* One stretch within a guard of a lock that is lower, or that nobody writes.
LEMMA NeatWithin ==
  ASSUME NEW U, NEW W \in SUBSET Names, NEW g \in Steps, g.op # "drop", g.op = "write" => g.lock \in W,
         NEW s, Neat(s, U, W),
         \A u \in U : u # g.lock /\ (g.lock \in W /\ u \in W => Rank[g.lock] < Rank[u])
  PROVE  Neat(Within(g, s), U \union {g.lock}, W)
<1> DEFINE x == Within(g, s)
           d == Drop(g.lock)
<1>1. /\ s \in Seq(Steps) /\ Len(s) \in Nat /\ DOMAIN s = 1 .. Len(s)
      /\ d \in Steps /\ d.op = "drop" /\ d.lock = g.lock /\ g.lock \in Names
  BY DEF Neat, Drop, Steps
<1>2. /\ x \in Seq(Steps) /\ Len(x) = Len(s) + 2 /\ DOMAIN x = 1 .. (Len(s) + 2)
      /\ x[1] = g /\ x[Len(s) + 2] = d
      /\ \A i \in 1 .. Len(s) : x[i + 1] = s[i]
  BY <1>1 DEF Within
<1> HIDE DEF x, d
<1>3. \A i \in DOMAIN x : i = 1 \/ i = Len(s) + 2 \/ (i - 1 \in DOMAIN s /\ x[i] = s[i - 1])
  <2> SUFFICES ASSUME NEW i \in DOMAIN x, i # 1, i # Len(s) + 2
               PROVE  i - 1 \in DOMAIN s /\ x[i] = s[i - 1]
    OBVIOUS
  <2>1. i - 1 \in 1 .. Len(s) /\ (i - 1) + 1 = i
    BY <1>1, <1>2
  <2> QED  BY <1>1, <1>2, <2>1
<1>4. ASSUME NEW k \in 1 .. Len(s) + 1, NEW l \in Names, l # g.lock, Held(x, k + 1, l)
      PROVE  Held(s, k, l)
  <2>1. PICK i \in 1 .. k : HeldFrom(x, k + 1, i, l)
    BY <1>1, <1>4 DEF Held
  <2>2. i # 1
    BY <1>2, <1>4, <2>1 DEF HeldFrom
  <2>3. i - 1 \in 1 .. (k - 1) /\ x[i] = s[i - 1]
    <3>1. i - 1 \in 1 .. Len(s) /\ (i - 1) + 1 = i /\ i - 1 \in 1 .. (k - 1)
      BY <1>1, <2>2
    <3> QED  BY <1>2, <3>1
  <2>4. ASSUME NEW j \in i .. (k - 1)  PROVE s[j] # Drop(l)
    <3>1. j + 1 \in (i + 1) .. k /\ j \in 1 .. Len(s)
      BY <1>1
    <3> QED  BY <3>1, <1>2, <2>1 DEF HeldFrom
  <2>5. HeldFrom(s, k, i - 1, l)
    BY <1>1, <2>1, <2>3, <2>4 DEF HeldFrom
  <2> QED  BY <2>3, <2>5 DEF Held
<1>5. Climbs(x, W)
  <2> SUFFICES ASSUME NEW n \in DOMAIN x, x[n].op # "drop", x[n].lock \in W, NEW l \in W, Held(x, n, l)
               PROVE  Rank[l] < Rank[x[n].lock]
    BY DEF Climbs
  <2>1. CASE n = 1
    BY <2>1 DEF Held
  <2>2. CASE n = Len(s) + 2
    BY <1>1, <1>2, <2>2
  <2>3. CASE n - 1 \in DOMAIN s /\ x[n] = s[n - 1]
    <3>1. CASE l = g.lock
      BY <2>3, <3>1 DEF Neat
    <3>2. CASE l # g.lock
      <4>1. n - 1 \in 1 .. Len(s) + 1 /\ (n - 1) + 1 = n
        BY <1>1, <1>2, <2>3
      <4>2. Held(s, n - 1, l)
        BY <4>1, <3>2, <1>4
      <4> QED  BY <4>2, <2>3 DEF Neat, Climbs
    <3> QED  BY <3>1, <3>2
  <2> QED  BY <1>3, <2>1, <2>2, <2>3
<1>6. ASSUME NEW l \in Names, Held(x, Len(x) + 1, l)  PROVE FALSE
  <2>1. PICK i \in 1 .. (Len(s) + 2) : HeldFrom(x, Len(s) + 3, i, l)
    BY <1>1, <1>2, <1>6 DEF Held
  <2>2. i # Len(s) + 2
    BY <1>1, <1>2, <2>1 DEF HeldFrom
  <2>3. Len(s) + 2 \in (i + 1) .. (Len(s) + 3 - 1)
    BY <1>1, <2>2
  <2>4. l # g.lock
    BY <1>2, <2>1, <2>3 DEF HeldFrom, d
  <2>5. HeldFrom(x, (Len(s) + 1) + 1, i, l) /\ i \in 1 .. ((Len(s) + 1) + 1 - 1)
    <3>1. \A j \in (i + 1) .. ((Len(s) + 1) + 1 - 1) : j \in (i + 1) .. (Len(s) + 3 - 1)
      BY <1>1
    <3>2. i \in 1 .. ((Len(s) + 1) + 1 - 1)
      BY <1>1, <2>2
    <3> QED  BY <2>1, <3>1, <3>2 DEF HeldFrom
  <2>6. Held(s, Len(s) + 1, l)
    <3>1. Held(x, (Len(s) + 1) + 1, l) /\ Len(s) + 1 \in 1 .. Len(s) + 1
      BY <1>1, <2>5 DEF Held
    <3> QED  BY <3>1, <2>4, <1>4
  <2> QED  BY <2>6 DEF Neat
<1>7. \A i \in DOMAIN x : x[i].lock \in U \union {g.lock} /\ (x[i].op = "write" => x[i].lock \in W)
  BY <1>1, <1>2, <1>3 DEF Neat
<1> QED  BY <1>2, <1>5, <1>6, <1>7 DEF Neat, x

-----------------------------------------------------------------------------
(* The handlers' routes, by their parts.                                    *)

\* All routes of S are neat.
AllNeat(S, W) == \A r \in S : Neat(r, Names, W)

LEMMA NeatAfter ==
  ASSUME NEW W \in SUBSET Names, NEW r, NEW s, Neat(r, Names, W), Neat(s, Names, W)
  PROVE  Neat(r \o s, Names, W)
<1>1. Neat(r \o s, Names \union Names, W)
  BY NeatThen, Zenon
<1> QED  BY <1>1, NeatMore

LEMMA NeatAll ==
  ASSUME NEW W \in SUBSET Names, NEW r, Neat(r, Names, W), NEW S, AllNeat(S, W)
  PROVE  AllNeat(Then(r, S), W) /\ AllNeat({r}, W) /\ AllNeat({r} \union S, W)
<1>1. \A s \in S : Neat(r \o s, Names, W)
  BY NeatAfter DEF AllNeat
<1> QED  BY <1>1 DEF AllNeat, Then

LEMMA NamesRanked ==
  /\ Names = {"engine", "status", "queue", "title", "outputs", "partitions", "assigned", "order"}
  /\ Rank["engine"] = 1 /\ Rank["status"] = 2 /\ Rank["queue"] = 3 /\ Rank["title"] = 4 /\ Rank["outputs"] = 5
  /\ Rank["partitions"] = 6 /\ Rank["assigned"] = 7 /\ Rank["order"] = 8
BY DEF Names, Rank

\* A workload where everything is written, and one where the queue is not.
Common(W) == W = Names \/ W = Names \ {"queue"}

LEMMA NeatGuard ==
  ASSUME NEW W, Common(W), NEW l \in Names
  PROVE  /\ ToRead(l) \in Steps /\ ToRead(l).op = "read" /\ ToRead(l).lock = l
         /\ ToWrite(l) \in Steps /\ ToWrite(l).op = "write" /\ ToWrite(l).lock = l
         /\ W \in SUBSET Names
         /\ Neat(Reads(l), {l}, W) /\ Neat(Reads(l), Names, W)
         /\ l # "queue" => l \in W /\ Neat(Writes(l), {l}, W) /\ Neat(Writes(l), Names, W)
         /\ W = Names => Neat(Writes(l), {l}, W) /\ Neat(Writes(l), Names, W)
<1>1. W \in SUBSET Names /\ {l} \subseteq Names /\ (l # "queue" => l \in W)
  BY DEF Common
<1>2. Neat(Reads(l), {l}, W) /\ (l \in W => Neat(Writes(l), {l}, W))
  BY <1>1, NeatReads, NeatWrites
<1>3. Neat(Reads(l), Names, W) /\ (l \in W => Neat(Writes(l), Names, W))
  BY <1>1, <1>2, NeatMore
<1>4. ToRead(l) \in Steps /\ ToWrite(l) \in Steps
  BY DEF ToRead, ToWrite, Steps
<1> QED  BY <1>1, <1>2, <1>3, <1>4 DEF ToRead, ToWrite

\* A stretch under one guard, of locks above it.
LEMMA NeatUnder ==
  ASSUME NEW W, Common(W), NEW l \in Names, NEW U \in SUBSET Names, NEW s, Neat(s, U, W),
         \A u \in U : u # l /\ (l \in W /\ u \in W => Rank[l] < Rank[u])
  PROVE  /\ Neat(Within(ToRead(l), s), U \union {l}, W) /\ Neat(Within(ToRead(l), s), Names, W)
         /\ l \in W => Neat(Within(ToWrite(l), s), U \union {l}, W) /\ Neat(Within(ToWrite(l), s), Names, W)
<1>1. W \in SUBSET Names /\ U \union {l} \subseteq Names
  BY DEF Common
<1>2. ASSUME NEW g \in Steps, g.lock = l, g.op # "drop", g.op = "write" => l \in W
      PROVE  Neat(Within(g, s), U \union {l}, W) /\ Neat(Within(g, s), Names, W)
  <2>1. \A u \in U : u # g.lock /\ (g.lock \in W /\ u \in W => Rank[g.lock] < Rank[u])
    BY <1>2, Zenon
  <2>2. g.op = "write" => g.lock \in W
    BY <1>2, Zenon
  <2>3. Neat(Within(g, s), U \union {g.lock}, W)
    BY <1>1, <1>2, <2>1, <2>2, NeatWithin, Zenon
  <2>4. Neat(Within(g, s), U \union {l}, W)
    BY <1>2, <2>3, Zenon
  <2> QED  BY <1>1, <2>4, NeatMore, Zenon
<1>3. ToRead(l) \in Steps /\ ToRead(l).lock = l /\ ToRead(l).op = "read"
      /\ ToWrite(l) \in Steps /\ ToWrite(l).lock = l /\ ToWrite(l).op = "write"
  BY NeatGuard
<1>4. Neat(Within(ToRead(l), s), U \union {l}, W) /\ Neat(Within(ToRead(l), s), Names, W)
  <2>1. ToRead(l).op # "drop" /\ ToRead(l).op # "write"
    BY <1>3
  <2> QED  BY <1>2, <1>3, <2>1, Zenon
<1>5. ASSUME l \in W
      PROVE  Neat(Within(ToWrite(l), s), U \union {l}, W) /\ Neat(Within(ToWrite(l), s), Names, W)
  <2>1. ToWrite(l).op # "drop"
    BY <1>3
  <2> QED  BY <1>2, <1>3, <1>5, <2>1, Zenon
<1> QED  BY <1>4, <1>5

\* Stretches under one guard or two.
LEMMA NeatStretches ==
  ASSUME NEW W, Common(W)
  PROVE  /\ Neat(NewVersion, {"queue"} \union {"status"}, W) /\ Neat(NewVersion, Names, W)
         /\ Neat(Record, Names, W) /\ Neat(Enter, Names, W) /\ Neat(Sought, Names, W)
         /\ AllNeat(Playing, W)
<1>0. W \in SUBSET Names /\ {"queue"} \in SUBSET Names /\ {"status"} \in SUBSET Names
      /\ {"queue"} \union {"status"} \in SUBSET Names
      /\ "engine" \in Names /\ "status" \in Names /\ "queue" \in Names /\ "engine" \in W /\ "status" \in W
  BY NamesRanked DEF Common
<1>1. Neat(NewVersion, {"queue"} \union {"status"}, W) /\ Neat(NewVersion, Names, W)
  <2>1. \A u \in {"queue"} : u # "status" /\ ("status" \in W /\ u \in W => Rank["status"] < Rank[u])
    BY NamesRanked
  <2>2. Neat(Reads("queue"), {"queue"}, W)
    BY <1>0, NeatGuard
  <2> QED  BY <1>0, <2>1, <2>2, NeatUnder, Zenon DEF NewVersion
<1>2. Neat(Enter, Names, W) /\ Neat(Sought, Names, W)
  <2>1. \A u \in {"status"} : u # "engine" /\ ("engine" \in W /\ u \in W => Rank["engine"] < Rank[u])
    BY NamesRanked
  <2>2. Neat(Writes("status"), {"status"}, W)
    BY <1>0, NeatGuard
  <2> QED  BY <1>0, <2>1, <2>2, NeatUnder, Zenon DEF Enter, Sought
<1>3. Neat(Record, Names, W)
  <2>1. \A u \in {"queue"} \union {"status"} :
          u # "engine" /\ ("engine" \in W /\ u \in W => Rank["engine"] < Rank[u])
    BY NamesRanked
  <2> QED  BY <1>0, <1>1, <2>1, NeatUnder, Zenon DEF Record
<1>4. Neat(Writes("engine"), Names, W)
  BY <1>0, NeatGuard
<1> QED  BY <1>1, <1>2, <1>3, <1>4 DEF AllNeat, Playing

\* The manager's look at what follows, and that of next and previous where nobody writes the queue.
LEMMA NeatLooks ==
  ASSUME NEW W, Common(W)
  PROVE  /\ Neat(Over, Names, W)
         /\ W # Names => /\ Neat(Looked, Names, W)
                         /\ Neat(Within(ToRead("queue"), Reads("engine") \o Reads("status")), Names, W)
                         /\ Neat(Within(ToRead("queue"), Reads("engine")), Names, W)
                         /\ Neat(Within(ToRead("queue"), Reads("status")), Names, W)
<1>0. W \in SUBSET Names /\ "engine" \in Names /\ "status" \in Names /\ "queue" \in Names
      /\ "engine" \in W /\ "status" \in W
  BY NamesRanked DEF Common
<1>1. Neat(Over, Names, W)
  <2>1. /\ Over \in Seq(Steps) /\ Len(Over) = 4 /\ DOMAIN Over = {1, 2, 3, 4}
        /\ Over[1] = [op |-> "read", lock |-> "status"] /\ Over[2] = [op |-> "read", lock |-> "queue"]
        /\ Over[3] = [op |-> "drop", lock |-> "status"] /\ Over[4] = [op |-> "drop", lock |-> "queue"]
    BY <1>0 DEF Over, ToRead, Drop, Steps
  <2>2. \A k : ~Held(Over, 5, k) /\ ~Held(Over, 1, k) /\ (Held(Over, 2, k) => k = "status")
    BY <2>1 DEF Held, HeldFrom, Drop
  <2>3. Rank["status"] < Rank["queue"]
    BY NamesRanked
  <2>4. Climbs(Over, W)
    BY <2>1, <2>2, <2>3 DEF Climbs
  <2> QED  BY <1>0, <2>1, <2>2, <2>4 DEF Neat
<1> SUFFICES ASSUME "queue" \notin W
             PROVE  /\ Neat(Looked, Names, W)
                    /\ Neat(Within(ToRead("queue"), Reads("engine") \o Reads("status")), Names, W)
                    /\ Neat(Within(ToRead("queue"), Reads("engine")), Names, W)
                    /\ Neat(Within(ToRead("queue"), Reads("status")), Names, W)
  BY <1>1 DEF Common
<1>2. Neat(Looked, Names, W)
  <2>1. /\ Looked \in Seq(Steps) /\ Len(Looked) = 4 /\ DOMAIN Looked = {1, 2, 3, 4}
        /\ Looked[1] = [op |-> "read", lock |-> "queue"] /\ Looked[2] = [op |-> "read", lock |-> "status"]
        /\ Looked[3] = [op |-> "drop", lock |-> "queue"] /\ Looked[4] = [op |-> "drop", lock |-> "status"]
    BY <1>0 DEF Looked, ToRead, Drop, Steps
  <2>2. \A k : ~Held(Looked, 5, k) /\ ~Held(Looked, 1, k) /\ (Held(Looked, 2, k) => k = "queue")
    BY <2>1 DEF Held, HeldFrom, Drop
  <2>3. Climbs(Looked, W)
    BY <2>1, <2>2 DEF Climbs
  <2> QED  BY <1>0, <2>1, <2>2, <2>3 DEF Neat
<1>3. ASSUME NEW U \in SUBSET Names, "queue" \notin U, NEW s, Neat(s, U, W)
      PROVE  Neat(Within(ToRead("queue"), s), Names, W)
  <2>1. \A u \in U : u # "queue" /\ ("queue" \in W /\ u \in W => Rank["queue"] < Rank[u])
    BY <1>3
  <2> QED  BY <1>0, <1>3, <2>1, NeatUnder, Zenon
<1>4. Neat(Reads("engine"), {"engine"}, W) /\ Neat(Reads("status"), {"status"}, W)
  BY <1>0, NeatGuard
<1>5. Neat(Reads("engine") \o Reads("status"), {"engine"} \union {"status"}, W)
  BY <1>0, <1>4, NeatThen, Zenon
<1>6. {"engine"} \in SUBSET Names /\ {"status"} \in SUBSET Names /\ {"engine"} \union {"status"} \in SUBSET Names
      /\ "queue" \notin {"engine"} /\ "queue" \notin {"status"} /\ "queue" \notin {"engine"} \union {"status"}
  BY <1>0
<1> QED  BY <1>2, <1>3, <1>4, <1>5, <1>6

\* What one or two stretches make, over all locks.
LEMMA NeatParts ==
  ASSUME NEW W, Common(W)
  PROVE  /\ W \in SUBSET Names
         /\ \A l \in Names : Neat(Reads(l), Names, W) /\ (l # "queue" => Neat(Writes(l), Names, W))
         /\ \A r, s : Neat(r, Names, W) /\ Neat(s, Names, W) => Neat(r \o s, Names, W)
         /\ \A r, S : Neat(r, Names, W) /\ AllNeat(S, W) => AllNeat(Then(r, S), W)
         /\ Neat(<<>>, Names, W)
<1>1. W \in SUBSET Names
  BY DEF Common
<1>2. \A l \in Names : Neat(Reads(l), Names, W) /\ (l # "queue" => Neat(Writes(l), Names, W))
  BY NeatGuard, Zenon
<1>3. \A r, s : Neat(r, Names, W) /\ Neat(s, Names, W) => Neat(r \o s, Names, W)
  BY <1>1, NeatAfter, Zenon
<1>4. \A r, S : Neat(r, Names, W) /\ AllNeat(S, W) => AllNeat(Then(r, S), W)
  BY <1>1, NeatAll, Zenon
<1> QED  BY <1>1, <1>2, <1>3, <1>4, NeatEmpty, Zenon

\* The engine, status, queue and title: the routes that keep to the order and change
\* no queue.
LEMMA NeatPlayback ==
  ASSUME NEW W, Common(W)
  PROVE  /\ AllNeat(PlayAt, W) /\ AllNeat(Pause, W) /\ AllNeat(Stop, W) /\ AllNeat(Seek, W)
         /\ AllNeat(SeekCur, W) /\ AllNeat(Volume, W) /\ AllNeat(Option, W) /\ AllNeat(Status, W)
         /\ AllNeat(Finished, W) /\ AllNeat(Advanced, W) /\ AllNeat(Feed, W) /\ AllNeat(Title, W)
<1> DEFINE N(r) == Neat(r, Names, W)
<1>1. /\ "engine" \in Names /\ "status" \in Names /\ "queue" \in Names /\ "title" \in Names
      /\ {"status"} \in SUBSET Names /\ "engine" \in W
  BY NamesRanked DEF Common
<1>2. /\ N(Reads("engine")) /\ N(Reads("status")) /\ N(Reads("queue")) /\ N(<<>>)
      /\ N(Writes("engine")) /\ N(Writes("status")) /\ N(Writes("title"))
  <2>1. "engine" # "queue" /\ "status" # "queue" /\ "title" # "queue"
    OBVIOUS
  <2> QED  BY <1>1, <2>1, NeatParts, Zenon
<1>3. \A r, s : N(r) /\ N(s) => N(r \o s)
  BY NeatParts, Zenon
<1>4. \A r, S : N(r) /\ AllNeat(S, W) => AllNeat(Then(r, S), W)
  BY NeatParts, Zenon
<1>5. N(Enter) /\ N(Sought) /\ N(Over) /\ AllNeat(Playing, W)
  BY NeatStretches, NeatLooks
<1>6. AllNeat(PlayAt, W)
  BY <1>2, <1>4, <1>5 DEF PlayAt, AllNeat
<1>7. AllNeat(Pause, W) /\ AllNeat(Option, W)
  BY <1>2, <1>3 DEF Pause, Option, AllNeat
<1>8. AllNeat(Stop, W)
  <2>1. Neat(Writes("status"), {"status"}, W)
    BY <1>1, NeatGuard
  <2>2. Neat(Writes("status") \o Writes("status"), {"status"} \union {"status"}, W)
    BY <2>1, NeatParts, NeatThen, Zenon
  <2>3. Neat(Writes("status") \o Writes("status"), {"status"}, W)
    BY <2>2
  <2>4. \A u \in {"status"} : u # "engine" /\ ("engine" \in W /\ u \in W => Rank["engine"] < Rank[u])
    BY NamesRanked
  <2>5. N(Within(ToWrite("engine"), Writes("status") \o Writes("status")))
    BY <1>1, <2>3, <2>4, NeatUnder, Zenon
  <2> QED  BY <2>5 DEF Stop, AllNeat
<1>9. AllNeat(Seek, W)
  <2>1. N(Reads("queue") \o Reads("status"))
    BY <1>2, <1>3, Zenon
  <2>2. AllNeat(PlayAt \union {Sought}, W)
    BY <1>5, <1>6 DEF AllNeat
  <2> QED  BY <1>4, <2>1, <2>2, Zenon DEF Seek
<1>10. AllNeat(SeekCur, W)
  <2>1. AllNeat({Sought, Reads("engine")}, W)
    BY <1>2, <1>5 DEF AllNeat
  <2> QED  BY <1>2, <1>4, <2>1, Zenon DEF SeekCur
<1>11. AllNeat(Volume, W)
  BY <1>2, <1>3, <1>5 DEF Volume, AllNeat
<1>12. AllNeat(Status, W)
  BY <1>2, <1>3 DEF Status, AllNeat
<1>13. AllNeat(Finished, W)
  <2>1. N(Over \o Writes("engine") \o Writes("status") \o Writes("status"))
    BY <1>2, <1>3, <1>5, Zenon
  <2>2. AllNeat({<<>>, Enter, Writes("engine")}, W)
    BY <1>2, <1>5 DEF AllNeat
  <2>3. AllNeat(Then(Over, {<<>>, Enter, Writes("engine")}), W)
    BY <1>4, <1>5, <2>2, Zenon
  <2> QED  BY <2>1, <2>3 DEF Finished, AllNeat
<1>14. AllNeat(Advanced, W)
  <2>1. N(Following \o Writes("status"))
    BY <1>2, <1>3, Zenon DEF Following
  <2> QED  BY <2>1 DEF Advanced, AllNeat
<1>15. AllNeat(Feed, W)
  <2>1. N(Reads("status") \o Reads("queue") \o Reads("engine")) /\ N(Reads("status") \o Reads("engine"))
    BY <1>2, <1>3, Zenon
  <2> QED  BY <2>1 DEF Feed, AllNeat
<1>16. AllNeat(Title, W)
  BY <1>2, <1>4, <1>15, Zenon DEF Title
<1> QED  BY <1>6, <1>7, <1>8, <1>9, <1>10, <1>11, <1>12, <1>13, <1>14, <1>15, <1>16

\* Outputs and partitions, and the two that hold status, then the queue, then more.
LEMMA NeatNested ==
  ASSUME NEW W, Common(W)
  PROVE  /\ AllNeat(CurrentSong, W) /\ AllNeat(Save, W) /\ AllNeat(Toggle, W)
         /\ AllNeat(MoveOutput, W) /\ AllNeat(NewPartition, W) /\ AllNeat(DelPartition, W)
<1> DEFINE N(r) == Neat(r, Names, W)
<1>1. /\ "engine" \in Names /\ "status" \in Names /\ "queue" \in Names /\ "title" \in Names
      /\ "outputs" \in Names /\ "partitions" \in Names /\ "assigned" \in Names /\ "order" \in Names
      /\ "assigned" \in W /\ "order" \in W /\ "partitions" \in W /\ W \in SUBSET Names
  BY NamesRanked DEF Common
<1>2. N(Reads("outputs")) /\ N(Writes("outputs")) /\ N(Writes("engine"))
  <2>1. "engine" # "queue" /\ "outputs" # "queue"
    OBVIOUS
  <2> QED  BY <1>1, <2>1, NeatParts, Zenon
<1>3. \A r, s : N(r) /\ N(s) => N(r \o s)
  BY NeatParts, Zenon
<1>4. AllNeat(Toggle, W)
  BY <1>2, <1>3 DEF Toggle, AllNeat
\* Under status and queue.
<1>5. ASSUME NEW l \in {"title", "outputs"}
      PROVE  N(Within(ToRead("status"), Within(ToRead("queue"), Reads(l))))
  <2>1. Neat(Reads(l), {l}, W) /\ {l} \in SUBSET Names /\ {l} \union {"queue"} \in SUBSET Names
    BY <1>1, NeatGuard
  <2>2. \A u \in {l} : u # "queue" /\ ("queue" \in W /\ u \in W => Rank["queue"] < Rank[u])
    BY NamesRanked
  <2>3. Neat(Within(ToRead("queue"), Reads(l)), {l} \union {"queue"}, W)
    BY <1>1, <2>1, <2>2, NeatUnder, Zenon
  <2>4. \A u \in {l} \union {"queue"} : u # "status" /\ ("status" \in W /\ u \in W => Rank["status"] < Rank[u])
    BY NamesRanked
  <2> QED  BY <1>1, <2>1, <2>3, <2>4, NeatUnder, Zenon
<1>6. AllNeat(CurrentSong, W) /\ AllNeat(Save, W)
  BY <1>5 DEF CurrentSong, Save, AllNeat
\* Under the outputs: the partition manager's locks.
<1>7. AllNeat(MoveOutput, W)
  <2> DEFINE U == {"order", "partitions", "assigned"}
             M(r) == Neat(r, U, W)
  <2>1. U \in SUBSET Names
    BY <1>1
  <2>2. M(Reads("order")) /\ M(Reads("partitions")) /\ M(Reads("assigned")) /\ M(Writes("assigned"))
    <3>1. /\ Neat(Reads("order"), {"order"}, W) /\ Neat(Reads("partitions"), {"partitions"}, W)
          /\ Neat(Reads("assigned"), {"assigned"}, W) /\ Neat(Writes("assigned"), {"assigned"}, W)
      BY <1>1, NeatReads, NeatWrites, Zenon
    <3>2. {"order"} \subseteq U /\ {"partitions"} \subseteq U /\ {"assigned"} \subseteq U
      OBVIOUS
    <3> QED  BY <3>1, <3>2, NeatMore, Zenon
  <2>3. ASSUME NEW r, NEW s, M(r), M(s)  PROVE M(r \o s)
    <3>1. Neat(r \o s, U \union U, W)
      BY <1>1, <2>3, NeatThen, Zenon
    <3>2. U \union U = U
      OBVIOUS
    <3> QED  BY <3>1, <3>2, Zenon
  <2>4. M(Found \o Moved)
    <3>1. M(Found) /\ M(Moved)
      BY <2>2, <2>3, Zenon DEF Found, Moved
    <3> QED  BY <2>3, <3>1, Zenon
  <2>5. \A u \in U : u # "outputs" /\ ("outputs" \in W /\ u \in W => Rank["outputs"] < Rank[u])
    BY NamesRanked
  <2>6. N(Within(ToRead("outputs"), Found \o Moved))
    BY <1>1, <2>1, <2>4, <2>5, NeatUnder, Zenon
  <2>7. N(Within(ToRead("outputs"), Found \o Moved) \o Writes("outputs"))
    BY <1>2, <1>3, <2>6, Zenon
  <2> QED  BY <2>7 DEF MoveOutput, AllNeat
<1>8. AllNeat(NewPartition, W)
  <2>1. Neat(Writes("order"), {"order"}, W) /\ {"order"} \in SUBSET Names
    BY <1>1, NeatWrites
  <2>2. \A u \in {"order"} : u # "partitions" /\ ("partitions" \in W /\ u \in W => Rank["partitions"] < Rank[u])
    BY NamesRanked
  <2>3. N(Within(ToWrite("partitions"), Writes("order")))
    BY <1>1, <2>1, <2>2, NeatUnder, Zenon
  <2> QED  BY <2>3 DEF NewPartition, AllNeat
<1>9. AllNeat(DelPartition, W)
  <2> DEFINE U == {"assigned"} \union {"order"}
  <2>1. Neat(Reads("assigned"), {"assigned"}, W) /\ Neat(Writes("order"), {"order"}, W) /\ U \in SUBSET Names
    BY <1>1, NeatWrites, NeatReads
  <2>2. Neat(Reads("assigned") \o Writes("order"), U, W)
    BY <1>1, <2>1, NeatThen, Zenon
  <2>3. \A u \in U : u # "partitions" /\ ("partitions" \in W /\ u \in W => Rank["partitions"] < Rank[u])
    BY NamesRanked
  <2>4. N(Within(ToWrite("partitions"), Reads("assigned") \o Writes("order")))
    BY <1>1, <2>1, <2>2, <2>3, NeatUnder, Zenon
  <2> QED  BY <2>4 DEF DelPartition, AllNeat
<1> QED  BY <1>4, <1>6, <1>7, <1>8, <1>9

\* The routes that write the queue, by the order.
LEMMA NeatEdits ==
  /\ AllNeat(Edit, Names) /\ AllNeat(ClearAll, Names)
  /\ AllNeat(FinishedConsuming, Names) /\ AllNeat(AdvancedConsuming, Names)
<1> DEFINE W == Names
           N(r) == Neat(r, Names, W)
<1>0. Common(W)
  BY DEF Common
<1>1. N(Reads("queue")) /\ N(Reads("status")) /\ N(Writes("queue")) /\ N(Writes("status")) /\ N(Writes("engine"))
      /\ N(<<>>) /\ N(NewVersion) /\ N(Enter) /\ N(Over)
  <2>1. "queue" \in Names /\ "status" \in Names /\ "engine" \in Names
    BY NamesRanked
  <2> QED  BY <1>0, <2>1, NeatGuard, NeatStretches, NeatLooks, NeatEmpty
<1> HIDE DEF W
<1>2. \A r, s : N(r) /\ N(s) => N(r \o s)
  BY <1>0, NeatParts, Zenon
<1>3. \A r, S : N(r) /\ AllNeat(S, W) => AllNeat(Then(r, S), W)
  BY <1>0, NeatParts, Zenon
<1>4. N(Consume) /\ N(Following)
  BY <1>1, <1>2, Zenon DEF Consume, Following
<1>5. AllNeat(Edit, W)
  <2>1. N(Reads("queue") \o Reads("status")) /\ AllNeat({<<>>, Consume}, W)
    BY <1>1, <1>2, <1>4 DEF AllNeat
  <2>2. AllNeat(Then(Reads("queue") \o Reads("status"), {<<>>, Consume}), W)
    BY <1>3, <2>1, Zenon
  <2> QED  BY <1>1, <1>4, <2>2 DEF Edit, AllNeat
<1>6. AllNeat(ClearAll, W)
  <2>1. N(Writes("queue") \o Writes("engine") \o NewVersion \o Writes("status"))
    BY <1>1, <1>2, Zenon
  <2> QED  BY <2>1 DEF ClearAll, AllNeat
<1>7. AllNeat(FinishedConsuming, W)
  <2>1. N(Over \o Consume) /\ AllNeat({<<>>, Enter, Writes("engine")}, W)
    BY <1>1, <1>2, <1>4 DEF AllNeat
  <2> QED  BY <1>3, <2>1, Zenon DEF FinishedConsuming
<1>8. AllNeat(AdvancedConsuming, W)
  <2>1. N(Following \o Consume \o Writes("status"))
    BY <1>1, <1>2, <1>4, Zenon
  <2> QED  BY <2>1 DEF AdvancedConsuming, AllNeat
<1> QED  BY <1>5, <1>6, <1>7, <1>8 DEF W

\* The routes against the order, where nobody writes the queue.
LEMMA NeatHeld ==
  ASSUME NEW W, W = Names \ {"queue"}
  PROVE  AllNeat(PlayBare, W) /\ AllNeat(Skip, W) /\ AllNeat(SeekId, W)
<1> DEFINE N(r) == Neat(r, Names, W)
<1>0. Common(W) /\ W # Names
  BY NamesRanked DEF Common
<1>1. /\ N(Looked) /\ N(Within(ToRead("queue"), Reads("engine") \o Reads("status")))
      /\ N(Within(ToRead("queue"), Reads("engine"))) /\ N(Within(ToRead("queue"), Reads("status")))
      /\ N(Enter) /\ N(Sought) /\ N(<<>>) /\ AllNeat(Playing, W) /\ AllNeat(PlayAt, W)
  <2>1. N(<<>>)
    BY <1>0, NeatParts, Zenon
  <2>2. AllNeat(PlayAt, W)
    BY <1>0, NeatPlayback, Zenon
  <2> QED  BY <1>0, <2>1, <2>2, NeatStretches, NeatLooks
<1>2. \A r, S : N(r) /\ AllNeat(S, W) => AllNeat(Then(r, S), W)
  BY <1>0, NeatParts, Zenon
<1>3. AllNeat(Playing \union {Enter}, W) /\ AllNeat(Playing \union {<<>>}, W) /\ AllNeat(PlayAt \union {Sought}, W)
  BY <1>1 DEF AllNeat
<1>4. AllNeat(PlayBare, W)
  <2>1. /\ AllNeat(Then(Within(ToRead("queue"), Reads("engine") \o Reads("status")), Playing \union {Enter}), W)
        /\ AllNeat(Then(Within(ToRead("queue"), Reads("engine")), Playing \union {<<>>}), W)
    BY <1>1, <1>2, <1>3, Zenon
  <2> QED  BY <2>1 DEF PlayBare, AllNeat
<1>5. AllNeat(Skip, W)
  <2>1. AllNeat(Then(Looked, Playing), W)
    BY <1>1, <1>2, Zenon
  <2> QED  BY <1>1, <2>1 DEF Skip, AllNeat
<1>6. AllNeat(SeekId, W)
  BY <1>1, <1>2, <1>3, Zenon DEF SeekId
<1> QED  BY <1>4, <1>5, <1>6

\* Command by command.
LEMMA CommandsNeat ==
  /\ \A c \in Orderly : AllNeat(Routes[c], Names)
  /\ \A c \in Harmless : AllNeat(Routes[c], Names \ {"queue"})
<1>1. Common(Names) /\ Common(Names \ {"queue"})
  BY DEF Common
<1>2. Commands = {"playat", "play", "skip", "pause", "stop", "seek", "seekid", "seekcur", "volume", "option",
                  "edit", "clear", "status", "currentsong", "save", "toggle", "moveoutput", "newpartition",
                  "delpartition", "finished", "consumed", "advanced", "advancedconsuming", "feed", "title"}
  BY DEF Commands, Routes
<1>3. /\ Routes["playat"] = PlayAt /\ Routes["play"] = PlayBare /\ Routes["skip"] = Skip
      /\ Routes["pause"] = Pause /\ Routes["stop"] = Stop /\ Routes["seek"] = Seek
      /\ Routes["seekid"] = SeekId /\ Routes["seekcur"] = SeekCur /\ Routes["volume"] = Volume
      /\ Routes["option"] = Option /\ Routes["edit"] = Edit /\ Routes["clear"] = ClearAll
      /\ Routes["status"] = Status /\ Routes["currentsong"] = CurrentSong /\ Routes["save"] = Save
      /\ Routes["toggle"] = Toggle /\ Routes["moveoutput"] = MoveOutput
      /\ Routes["newpartition"] = NewPartition /\ Routes["delpartition"] = DelPartition
      /\ Routes["finished"] = Finished /\ Routes["consumed"] = FinishedConsuming
      /\ Routes["advanced"] = Advanced /\ Routes["advancedconsuming"] = AdvancedConsuming
      /\ Routes["feed"] = Feed /\ Routes["title"] = Title
  BY DEF Routes
<1>4. ASSUME NEW W, Common(W)
      PROVE  \A c \in Commands \ {"play", "skip", "seekid", "edit", "clear", "consumed", "advancedconsuming"} :
               AllNeat(Routes[c], W)
  BY <1>2, <1>3, <1>4, NeatPlayback, NeatNested
<1>5. \A c \in {"edit", "clear", "consumed", "advancedconsuming"} : AllNeat(Routes[c], Names)
  BY <1>3, NeatEdits
<1>6. \A c \in {"play", "skip", "seekid"} : AllNeat(Routes[c], Names \ {"queue"})
  BY <1>3, NeatHeld
<1> QED  BY <1>1, <1>4, <1>5, <1>6 DEF Orderly, Harmless

LEMMA SeparateIsDisciplined ==
  ASSUME Separate
  PROVE  Disciplined
<1> SUFFICES ASSUME NEW m \in Mixes  PROVE \A t \in Tasks : \A c \in m[t] : \A r \in Routes[c] : Climbs(r, Written(m))
  BY DEF Disciplined
<1>1. PICK W : \A t \in Tasks : \A c \in m[t] : AllNeat(Routes[c], W)
  BY CommandsNeat DEF Separate
<1>2. Written(m) \subseteq W
  <2> SUFFICES ASSUME NEW l \in Names, NEW t \in Tasks, NEW c \in m[t], NEW r \in Routes[c],
                      NEW i \in DOMAIN r, r[i] = ToWrite(l)
               PROVE  l \in W
    BY DEF Written
  <2>1. Neat(r, Names, W)
    BY <1>1 DEF AllNeat
  <2> QED  BY <2>1 DEF Neat, ToWrite
<1>3. ASSUME NEW t \in Tasks, NEW c \in m[t], NEW r \in Routes[c]
      PROVE  Climbs(r, Written(m))
  <2>1. Climbs(r, W)
    BY <1>1 DEF AllNeat, Neat
  <2> QED  BY <1>2, <2>1 DEF Climbs
<1> QED  BY <1>3

LEMMA RoutesAreSteps == RoutesOK
<1>1. \A c \in Commands : c \in Orderly \/ c \in Harmless
  BY DEF Orderly, Harmless
<1> QED  BY <1>1, CommandsNeat DEF RoutesOK, AllNeat, Neat

-----------------------------------------------------------------------------
(* The invariant.                                                           *)

LEMMA LocksInitOK == LocksInit => LocksInv
<1> SUFFICES ASSUME LocksInit  PROVE LocksInv
  OBVIOUS
<1>1. LocksTypeOK
  BY DEF LocksInit, LocksTypeOK
<1>2. \A t \in Tasks : ~Busy(t)
  BY DEF LocksInit, Busy
<1>3. InLine
  BY DEF LocksInit, InLine, Waits
<1> QED  BY <1>1, <1>2, <1>3 DEF LocksInv, OnRoute

LEMMA BeginOK ==
  ASSUME LocksInv, NEW t \in Tasks, Begin(t)
  PROVE  LocksInv'
<1>0. PICK c \in mix[t] : \E r \in Routes[c] : route' = [route EXCEPT ![t] = r]
  BY DEF Begin
<1>1. PICK r \in Routes[c] : route' = [route EXCEPT ![t] = r]
  BY <1>0
<1>2. mix' = mix /\ mix \in Mixes /\ c \in Commands /\ r \in Seq(Steps)
  BY LocksConstants, RoutesAreSteps DEF Begin, LocksInv, LocksTypeOK, RoutesOK
<1>3. LocksTypeOK'
  BY <1>1, <1>2 DEF Begin, LocksInv, LocksTypeOK
<1>4. \A u \in Tasks : u # t => route'[u] = route[u] /\ at'[u] = at[u]
  BY <1>1 DEF Begin, LocksInv, LocksTypeOK
<1>5. OnRoute'
  <2> SUFFICES ASSUME NEW u \in Tasks, Busy(u)'  PROVE \E k \in mix'[u] : route'[u] \in Routes[k]
    BY DEF OnRoute
  <2>1. CASE u = t
    BY <1>1, <1>2, <2>1 DEF LocksInv, LocksTypeOK
  <2>2. CASE u # t
    BY <1>2, <1>4, <2>2 DEF LocksInv, OnRoute, Busy
  <2> QED  BY <2>1, <2>2
<1>6. InLine'
  <2>1. line' = line
    BY DEF Begin
  <2>2. ASSUME NEW l \in Names, NEW u \in Tasks, Waits(u, l)  PROVE Asks(u, l)'
    <3>1. Asks(u, l)
      BY <2>2 DEF LocksInv, InLine
    <3>2. u # t
      BY <3>1 DEF Asks, Begin
    <3> QED  BY <3>1, <3>2, <1>4 DEF Asks, Busy, Now
  <2> QED  BY <2>1, <2>2 DEF LocksInv, InLine, Waits
<1> QED  BY <1>3, <1>5, <1>6 DEF LocksInv

LEMMA AskOK ==
  ASSUME LocksInv, NEW t \in Tasks, Ask(t)
  PROVE  LocksInv'
<1> DEFINE k == Now(t).lock
<1>1. route \in [Tasks -> Seq(Steps)] /\ at \in [Tasks -> Nat \ {0}] /\ line \in [Names -> Seq(Tasks)]
  BY DEF LocksInv, LocksTypeOK
<1>2. k \in Names
  <2>1. at[t] \in DOMAIN route[t] /\ route[t] \in Seq(Steps)
    BY <1>1 DEF Ask, Busy
  <2>2. Now(t) \in Steps
    BY <2>1 DEF Now
  <2> QED  BY <2>2 DEF Steps
<1>3. mix' = mix /\ route' = route /\ at' = at /\ line' = [line EXCEPT ![k] = Append(line[k], t)]
  BY DEF Ask
<1>4. LocksTypeOK'
  BY <1>1, <1>2, <1>3 DEF LocksInv, LocksTypeOK
<1>5. OnRoute'
  BY <1>3 DEF LocksInv, OnRoute, Busy
<1>6. InLine'
  <2> SUFFICES ASSUME NEW l \in Names
               PROVE  /\ \A u \in Tasks : Waits(u, l)' => Asks(u, l)
                      /\ \A i, j \in DOMAIN line'[l] : line'[l][i] = line'[l][j] => i = j
    BY <1>3 DEF InLine, Asks, Busy, Now
  <2>1. CASE l # k
    BY <2>1, <1>1, <1>3 DEF LocksInv, InLine, Waits
  <2>2. CASE l = k
    <3> DEFINE n == Len(line[l])
    <3>1. /\ n \in Nat /\ DOMAIN line[l] = 1 .. n /\ DOMAIN line'[l] = 1 .. (n + 1)
          /\ line'[l][n + 1] = t /\ \A i \in 1 .. n : line'[l][i] = line[l][i]
      BY <1>1, <1>2, <1>3, <2>2
    <3>2. \A i \in 1 .. n : line[l][i] # t
      BY <2>2, <3>1 DEF Ask, Waits
    <3> HIDE DEF n
    <3>3. \A i \in 1 .. (n + 1) : i \in 1 .. n \/ i = n + 1
      BY <3>1
    <3>4. ASSUME NEW u \in Tasks, Waits(u, l)'  PROVE Asks(u, l)
      <4>1. CASE u = t
        BY <2>2, <4>1 DEF Asks, Ask
      <4>2. CASE u # t
        <5>1. Waits(u, l)
          BY <4>2, <3>1, <3>3, <3>4 DEF Waits
        <5> QED  BY <5>1 DEF LocksInv, InLine
      <4> QED  BY <4>1, <4>2
    <3>5. \A i, j \in 1 .. (n + 1) : line'[l][i] = line'[l][j] => i = j
      <4>1. \A i, j \in 1 .. n : line[l][i] = line[l][j] => i = j
        BY <3>1 DEF LocksInv, InLine
      <4> QED  BY <4>1, <3>1, <3>2, <3>3
    <3> QED  BY <3>1, <3>4, <3>5
  <2> QED  BY <2>1, <2>2
<1> QED  BY <1>4, <1>5, <1>6 DEF LocksInv

\* The route of who steps on ends later or now; nobody else moves.
LEMMA GoesOn ==
  ASSUME LocksInv, NEW t \in Tasks, Busy(t), at' = [at EXCEPT ![t] = @ + 1], UNCHANGED <<mix, route>>
  PROVE  /\ at' \in [Tasks -> Nat \ {0}] /\ OnRoute'
         /\ \A u \in Tasks \ {t} : (Busy(u)' <=> Busy(u)) /\ Now(u)' = Now(u)
<1>1. route \in [Tasks -> Seq(Steps)] /\ at \in [Tasks -> Nat \ {0}]
  BY DEF LocksInv, LocksTypeOK
<1>2. \A u \in Tasks \ {t} : (Busy(u)' <=> Busy(u)) /\ Now(u)' = Now(u)
  BY <1>1 DEF Busy, Now
<1>3. OnRoute'
  BY <1>1, <1>2 DEF LocksInv, OnRoute
<1> QED  BY <1>1, <1>2, <1>3

LEMMA GrantOK ==
  ASSUME LocksInv, NEW t \in Tasks, Grant(t)
  PROVE  LocksInv'
<1> DEFINE k == Now(t).lock
<1>1. route \in [Tasks -> Seq(Steps)] /\ at \in [Tasks -> Nat \ {0}] /\ line \in [Names -> Seq(Tasks)]
  BY DEF LocksInv, LocksTypeOK
<1>2. k \in Names
  <2>1. at[t] \in DOMAIN route[t] /\ route[t] \in Seq(Steps)
    BY <1>1 DEF Grant, Busy
  <2>2. Now(t) \in Steps
    BY <2>1 DEF Now
  <2> QED  BY <2>2 DEF Steps
<1>3. /\ mix' = mix /\ route' = route /\ at' = [at EXCEPT ![t] = @ + 1] /\ Busy(t)
      /\ line[k] # <<>> /\ Head(line[k]) = t /\ line' = [line EXCEPT ![k] = Tail(line[k])]
  BY DEF Grant
<1>4. /\ at' \in [Tasks -> Nat \ {0}] /\ OnRoute'
      /\ \A u \in Tasks \ {t} : (Busy(u)' <=> Busy(u)) /\ Now(u)' = Now(u)
  BY <1>3, GoesOn
<1>5. LocksTypeOK'
  BY <1>1, <1>2, <1>3, <1>4 DEF LocksInv, LocksTypeOK
<1> DEFINE n == Len(line[k])
<1>6. /\ n \in Nat /\ DOMAIN line[k] = 1 .. n /\ DOMAIN line'[k] = 1 .. (n - 1)
      /\ n # 0 /\ line[k][1] = t /\ \A i \in 1 .. (n - 1) : line'[k][i] = line[k][i + 1]
  BY <1>1, <1>2, <1>3
<1> HIDE DEF n
\* Who steps is in no line any more.
<1>7. ASSUME NEW l \in Names, NEW u \in Tasks, Waits(u, l)'
      PROVE  u # t /\ Waits(u, l)
  <2>0. PICK i \in DOMAIN line'[l] : line'[l][i] = u
    BY <1>7 DEF Waits
  <2>1. CASE l # k
    <3>1. line'[l] = line[l]
      BY <2>1, <1>1, <1>3
    <3>2. Waits(u, l)
      BY <2>0, <3>1 DEF Waits
    <3>3. Now(u).lock = l
      BY <3>2 DEF LocksInv, InLine, Asks
    <3> QED  BY <2>1, <3>2, <3>3
  <2>2. CASE l = k
    <3>1. i \in 1 .. (n - 1) /\ i + 1 \in 1 .. n /\ 1 \in 1 .. n /\ i + 1 # 1
      BY <2>0, <2>2, <1>6
    <3>2. u = line[k][i + 1]
      BY <2>0, <2>2, <3>1, <1>6
    <3>3. line[k][i + 1] # line[k][1]
      BY <3>1, <1>2, <1>6 DEF LocksInv, InLine
    <3> QED  BY <2>2, <3>1, <3>2, <3>3, <1>6 DEF Waits
  <2> QED  BY <2>1, <2>2
<1>8. ASSUME NEW l \in Names
      PROVE  \A i, j \in DOMAIN line'[l] : line'[l][i] = line'[l][j] => i = j
  <2>1. CASE l # k
    BY <2>1, <1>1, <1>3 DEF LocksInv, InLine
  <2>2. CASE l = k
    <3> SUFFICES ASSUME NEW i \in 1 .. (n - 1), NEW j \in 1 .. (n - 1), line'[k][i] = line'[k][j]
                 PROVE  i = j
      BY <2>2, <1>6
    <3>1. i + 1 \in 1 .. n /\ j + 1 \in 1 .. n
      BY <1>6
    <3>2. line[k][i + 1] = line[k][j + 1]
      BY <1>6
    <3>3. i + 1 = j + 1
      BY <3>1, <3>2, <1>2, <1>6 DEF LocksInv, InLine
    <3> QED  BY <3>3, <1>6
  <2> QED  BY <2>1, <2>2
<1>9. InLine'
  <2>1. ASSUME NEW l \in Names, NEW u \in Tasks, Waits(u, l)'  PROVE Asks(u, l)'
    <3>1. Asks(u, l) /\ u \in Tasks \ {t}
      BY <2>1, <1>7 DEF LocksInv, InLine
    <3> QED  BY <3>1, <1>4 DEF Asks
  <2> QED  BY <2>1, <1>8 DEF InLine
<1> QED  BY <1>4, <1>5, <1>9 DEF LocksInv

LEMMA ReleaseOK ==
  ASSUME LocksInv, NEW t \in Tasks, Release(t)
  PROVE  LocksInv'
<1>1. /\ mix' = mix /\ route' = route /\ line' = line /\ at' = [at EXCEPT ![t] = @ + 1] /\ Busy(t)
      /\ Now(t).op = "drop"
  BY DEF Release
<1>2. /\ at' \in [Tasks -> Nat \ {0}] /\ OnRoute'
      /\ \A u \in Tasks \ {t} : (Busy(u)' <=> Busy(u)) /\ Now(u)' = Now(u)
  BY <1>1, GoesOn
<1>3. LocksTypeOK'
  BY <1>1, <1>2 DEF LocksInv, LocksTypeOK
<1>4. InLine'
  <2>1. ASSUME NEW l \in Names, NEW u \in Tasks, Waits(u, l)  PROVE Asks(u, l)'
    <3>1. Asks(u, l) /\ u \in Tasks \ {t}
      BY <2>1, <1>1 DEF LocksInv, InLine, Asks
    <3> QED  BY <3>1, <1>2 DEF Asks
  <2> QED  BY <1>1, <2>1 DEF LocksInv, InLine, Waits
<1> QED  BY <1>2, <1>3, <1>4 DEF LocksInv

\* Types; every task is on a route of its commands; who waits in a line is about to
\* take that lock and is there once.
THEOREM LinesAreSound == LocksSpec => []LocksInv
<1>1. ASSUME LocksInv, [LocksNext]_lockvars  PROVE LocksInv'
  <2>1. CASE LocksNext
    BY <2>1, <1>1, BeginOK, AskOK, GrantOK, ReleaseOK DEF LocksNext, Step
  <2>2. CASE UNCHANGED lockvars
    BY <2>2, <1>1 DEF lockvars, LocksInv, LocksTypeOK, OnRoute, InLine, Waits, Asks, Busy, Now
  <2> QED  BY <1>1, <2>1, <2>2
<1> QED  BY LocksInitOK, <1>1, PTL DEF LocksSpec

\* Any number of clients, with the manager and the task that saves, none of which
\* waits for each other for ever: when all run commands that take the locks by the
\* order, or when none of them changes the queue.
THEOREM NobodyWaitsInACircle ==
  ASSUME Separate
  PROVE  LocksSpec => []NoWaitCycle
<1>1. LocksInv => NoWaitCycle
  BY SeparateIsDisciplined, ClimbingNeverCycles
<1> QED  BY LinesAreSound, <1>1, PTL
=============================================================================
