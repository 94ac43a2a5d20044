---------------------------- MODULE MessageBroker ----------------------------
(***************************************************************************)
(* The client-to-client message broker of rmpd-core/src/messaging.rs.      *)
(* Every method runs under the write lock of its inner map, so each is one *)
(* step; a caller may hold an id that is no longer registered.             *)
(***************************************************************************)
EXTENDS Integers, FiniteSets, Sequences

CONSTANTS
  Channels,     \* channel names
  Texts,        \* message texts
  MaxMessages,  \* MAX_MESSAGES_PER_CLIENT: 64 in the code
  MaxClients    \* bound: ids handed out

ASSUME BrokerConstants ==
  /\ MaxMessages \in Nat \ {0}
  /\ MaxClients \in Nat

VARIABLES
  next_client_id,    \* next id to hand out
  clients,           \* registered id -> mailbox
  subscriber_counts  \* channel -> number of subscribers; 0 is an absent entry

broker == <<next_client_id, clients, subscriber_counts>>

ClientIds == 1 .. MaxClients
Message   == [channel : Channels, text : Texts]
Mailbox   == [subscriptions : SUBSET Channels, messages : Seq(Message)]

Registered      == DOMAIN clients
Subscribers(ch) == {id \in Registered : ch \in clients[id].subscriptions}
ListChannels    == {ch \in Channels : subscriber_counts[ch] > 0}

BrokerInit ==
  /\ next_client_id = 1
  /\ clients = [id \in {} |-> [subscriptions |-> {}, messages |-> <<>>]]
  /\ subscriber_counts = [ch \in Channels |-> 0]

-----------------------------------------------------------------------------
RegisterClient ==
  /\ next_client_id <= MaxClients
  /\ clients' = [id \in Registered \union {next_client_id} |->
                   IF id = next_client_id
                   THEN [subscriptions |-> {}, messages |-> <<>>]
                   ELSE clients[id]]
  /\ next_client_id' = next_client_id + 1
  /\ UNCHANGED subscriber_counts

\* The count of a channel never goes below zero.
Decrement(n) == IF n > 0 THEN n - 1 ELSE 0

\* Mutant: leaves the subscriptions counted.
UnregisterClientOnly(id) ==
  /\ id \in Registered
  /\ clients' = [other \in Registered \ {id} |-> clients[other]]
  /\ UNCHANGED <<next_client_id, subscriber_counts>>

UnregisterClient(id) ==
  /\ id \in Registered
  /\ clients' = [other \in Registered \ {id} |-> clients[other]]
  /\ subscriber_counts' =
       [ch \in Channels |-> IF ch \in clients[id].subscriptions
                            THEN Decrement(subscriber_counts[ch])
                            ELSE subscriber_counts[ch]]
  /\ UNCHANGED next_client_id

\* False in the code, and no change, when the id is unknown or already
\* subscribed.
RegisterSubscriber(id, ch) ==
  IF id \in Registered /\ ch \notin clients[id].subscriptions
  THEN /\ clients' = [clients EXCEPT ![id].subscriptions = @ \union {ch}]
       /\ subscriber_counts' = [subscriber_counts EXCEPT ![ch] = @ + 1]
       /\ UNCHANGED next_client_id
  ELSE UNCHANGED broker

UnregisterSubscriber(id, ch) ==
  IF id \in Registered /\ ch \in clients[id].subscriptions
  THEN /\ clients' = [clients EXCEPT ![id].subscriptions = @ \ {ch}]
       /\ subscriber_counts' = [subscriber_counts EXCEPT ![ch] = Decrement(@)]
       /\ UNCHANGED next_client_id
  ELSE UNCHANGED broker

\* The subscribers whose inbox takes one more message.
Accepting(ch) == {id \in Subscribers(ch) : Len(clients[id].messages) < MaxMessages}

\* Mutant: looks at the inbox after the push.
WakesIdleTooLate(ch) == \E id \in Accepting(ch) : Len(clients[id].messages) + 1 = 0

\* notified_idle_message: some inbox goes from empty to non-empty.
WakesIdle(ch) == \E id \in Accepting(ch) : clients[id].messages = <<>>

SendMessage(ch, text) ==
  /\ clients' = [id \in Registered |->
                   IF id \in Accepting(ch)
                   THEN [clients[id] EXCEPT
                           !.messages = Append(@, [channel |-> ch, text |-> text])]
                   ELSE clients[id]]
  /\ UNCHANGED <<next_client_id, subscriber_counts>>

ReadMessages(id) ==
  /\ clients' = [other \in Registered |->
                   IF other = id THEN [clients[other] EXCEPT !.messages = <<>>]
                   ELSE clients[other]]
  /\ UNCHANGED <<next_client_id, subscriber_counts>>

BrokerNext ==
  \/ RegisterClient
  \/ \E id \in ClientIds :
       \/ UnregisterClient(id)
       \/ ReadMessages(id)
       \/ \E ch \in Channels :
            RegisterSubscriber(id, ch) \/ UnregisterSubscriber(id, ch)
  \/ \E ch \in Channels, text \in Texts : SendMessage(ch, text)

BrokerSpec == BrokerInit /\ [][BrokerNext]_broker

-----------------------------------------------------------------------------
BrokerTypeOK ==
  /\ next_client_id \in 1 .. MaxClients + 1
  /\ Registered \subseteq 1 .. next_client_id - 1
  /\ clients \in [Registered -> Mailbox]
  /\ subscriber_counts \in [Channels -> Nat]

\* The counts kept beside the mailboxes agree with the subscriptions in
\* them, so channels lists a channel exactly while someone is subscribed.
CountsMatch ==
  \A ch \in Channels : subscriber_counts[ch] = Cardinality(Subscribers(ch))

\* "Per-client queue cap": no inbox outgrows it.
InboxBounded == \A id \in Registered : Len(clients[id].messages) <= MaxMessages

BrokerInv == BrokerTypeOK /\ CountsMatch /\ InboxBounded
=============================================================================
