-------------------------------- MODULE Httpd --------------------------------
(***************************************************************************)
(* Httpd: the streaming output of rmpd-player/src/httpd_output.rs, one     *)
(* lifetime, as its worker (FanOut's) starts, writes to and stops it.      *)
(*                                                                         *)
(* A thread accepts listeners while the worker writes; they share the list *)
(* of clients and the running flag.  The title is set by the engine at any *)
(* time.  Audio is counted in bytes, MetaInt of them between two metadata  *)
(* blocks.  The sockets and the listeners behind them are external: any    *)
(* operation on them may fail.                                             *)
(***************************************************************************)
EXTENDS Integers, SequencesExt

CONSTANTS
  Listeners,  \* who may connect, each once
  MetaInt,    \* ICY_METAINT
  Header,     \* bytes of the encoder's header
  Sizes,      \* bytes a write may encode to
  MaxSent,    \* bound: bytes written
  Titles,     \* what set_now_playing may be given
  NoTitle     \* its None

ASSUME HttpdConstants ==
  /\ MetaInt \in Nat \ {0} /\ Header \in 0 .. MetaInt - 1
  /\ Sizes \subseteq Nat /\ MaxSent \in Nat /\ NoTitle \notin Titles

VARIABLES
  running,   \* the flag both threads read
  acceptor,  \* the accept thread: [at, who], who it is greeting
  server,    \* the worker: [at, bytes, title], inside a write
  clients,   \* function: client kept -> its HttpdClient and what it was sent
  visitors,  \* listeners that have not connected yet
  title,     \* NOW_PLAYING
  sent       \* history: bytes served to all

httpdvars == <<running, acceptor, server, clients, visitors, title, sent>>

Nobody  == "nobody"
Serving == [at |-> "idle", bytes |-> 0, title |-> NoTitle]
Accepting(l) == [at |-> "greeting", who |-> l]

HttpdTypeOK ==
  /\ running \in BOOLEAN
  /\ acceptor.at \in {"none", "top", "greeting", "gone"}
  /\ server.at \in {"new", "idle", "serving", "stopping", "stopped"}
  /\ DOMAIN clients \subseteq Listeners /\ visitors \subseteq Listeners
  /\ \A l \in DOMAIN clients : clients[l].since \in 0 .. MetaInt - 1
  /\ title \in Titles \union {NoTitle} /\ sent \in 0 .. MaxSent

HttpdInit ==
  /\ running = FALSE /\ acceptor = [at |-> "none", who |-> Nobody]
  /\ server = [Serving EXCEPT !.at = "new"]
  /\ clients = <<>> /\ visitors = Listeners
  /\ title \in Titles \union {NoTitle} /\ sent = 0

-----------------------------------------------------------------------------
(* The accept thread.                                                       *)
\* The listener is accepted and its request head read.
Accept(l) ==
  /\ acceptor.at = "top" /\ running /\ l \in visitors
  /\ acceptor' = Accepting(l)
  /\ visitors' = visitors \ {l}
  /\ UNCHANGED <<running, server, clients, title, sent>>

\* Mutant: the header does not count.
ClientUncounted(wants) ==
  [wants |-> wants, since |-> 0, last |-> NoTitle,
   got |-> Header, blocks |-> 0, shown |-> NoTitle, block |-> NoTitle, from |-> sent]

\* A client as it is pushed.  The header is audio, so it counts to the first block.
\* got, blocks, shown and block say what it was sent, from where it came in.
Client(wants) ==
  [wants |-> wants, since |-> IF wants THEN Header ELSE 0, last |-> NoTitle,
   got |-> Header, blocks |-> 0, shown |-> NoTitle, block |-> NoTitle, from |-> sent]

\* The greeting and the header go out, or fail, and the client is pushed under the
\* lock of the list, which a write holds while it serves.
Greet ==
  /\ acceptor.at = "greeting"
  /\ \/ \E wants \in BOOLEAN :
          clients' = [l \in DOMAIN clients \union {acceptor.who} |->
                        IF l = acceptor.who THEN Client(wants) ELSE clients[l]]
     \/ UNCHANGED clients
  /\ acceptor' = [at |-> "top", who |-> Nobody]
  /\ UNCHANGED <<running, server, visitors, title, sent>>

\* The loop ends when told to, or by an error of accept.
AcceptEnds ==
  /\ acceptor.at = "top"
  /\ acceptor' = [at |-> "gone", who |-> Nobody]
  /\ running' = FALSE
  /\ UNCHANGED <<server, clients, visitors, title, sent>>

-----------------------------------------------------------------------------
(* The worker.                                                              *)
StartServer ==
  /\ server.at = "new"
  /\ \/ /\ server' = Serving /\ running' = TRUE
        /\ acceptor' = [at |-> "top", who |-> Nobody]
     \/ server' = [Serving EXCEPT !.at = "stopped"] /\ UNCHANGED <<running, acceptor>>
  /\ UNCHANGED <<clients, visitors, title, sent>>

\* A write encodes and reads the title once for all clients.  It is refused when the
\* accept thread has ended, and does nothing while paused.
Encode(n) ==
  /\ server.at = "idle" /\ running /\ sent + n <= MaxSent
  /\ server' = [at |-> "serving", bytes |-> n, title |-> title]
  /\ UNCHANGED <<running, acceptor, clients, visitors, title, sent>>

\* The metadata block after MetaInt bytes: a new title, or the block that says nothing.
MetaBlock(c, now) ==
  [c EXCEPT !.since = 0, !.last = now, !.blocks = @ + 1, !.block = now,
            !.shown = IF now # c.last /\ now # NoTitle THEN now ELSE @]

\* Mutant: a block only comes between two chunks.
ServeWhole(c, n, now) ==
  LET all == [c EXCEPT !.got = @ + n, !.since = @ + n]
  IN  IF c.wants /\ all.since >= MetaInt THEN MetaBlock(all, now)
      ELSE IF c.wants THEN all ELSE [c EXCEPT !.got = @ + n]

\* A byte of audio, and the block that is due after it.
ServeByte(c, now) ==
  LET more == [c EXCEPT !.got = @ + 1, !.since = IF c.wants THEN @ + 1 ELSE @]
  IN  IF more.since = MetaInt THEN MetaBlock(more, now) ELSE more

\* serve, byte by byte: the chunk is cut where a block is due.
Serve(c, n, now) ==
  LET served[i \in 0 .. n] == IF i = 0 THEN c ELSE ServeByte(served[i - 1], now)
  IN  served[n]

\* Every client is served under the lock; one whose socket fails is dropped.
ServeAll ==
  /\ server.at = "serving"
  /\ \E failing \in SUBSET DOMAIN clients :
       clients' = [l \in DOMAIN clients \ failing |-> Serve(clients[l], server.bytes, server.title)]
  /\ sent' = sent + server.bytes
  /\ server' = Serving
  /\ UNCHANGED <<running, acceptor, visitors, title>>

BeginShutdown ==
  /\ server.at = "idle"
  /\ running' = FALSE
  /\ server' = [Serving EXCEPT !.at = "stopping"]
  /\ UNCHANGED <<acceptor, clients, visitors, title, sent>>

\* Mutant: the accept thread is not waited for.
ShutdownUnjoined ==
  /\ server.at = "stopping"
  /\ clients' = <<>>
  /\ server' = [Serving EXCEPT !.at = "stopped"]
  /\ UNCHANGED <<running, acceptor, visitors, title, sent>>

\* stop joins the accept thread, then forgets the clients.
Shutdown ==
  /\ server.at = "stopping" /\ acceptor.at = "gone"
  /\ clients' = <<>>
  /\ server' = [Serving EXCEPT !.at = "stopped"]
  /\ UNCHANGED <<running, acceptor, visitors, title, sent>>

\* The engine, at the start and the end of a song.
SetNowPlaying(t) ==
  /\ title' = t
  /\ UNCHANGED <<running, acceptor, server, clients, visitors, sent>>

HttpdNext ==
  \/ \E l \in Listeners : Accept(l)
  \/ Greet \/ AcceptEnds \/ StartServer
  \/ \E n \in Sizes : Encode(n)
  \/ ServeAll \/ BeginShutdown \/ Shutdown
  \/ \E t \in Titles \union {NoTitle} : SetNowPlaying(t)

HttpdSpec == HttpdInit /\ [][HttpdNext]_httpdvars

-----------------------------------------------------------------------------
\* However chunks and blocks fall, every client kept has been sent the header and
\* every byte since it came; a block stands after each MetaInt bytes, where the client
\* looks for one, and it shows the title of its last block, unless that had none.
\* Once stopped there is no client left, and none comes any more.
ListenersAligned ==
  /\ \A l \in DOMAIN clients :
       LET c == clients[l]
       IN  /\ c.got - Header = sent - c.from
           /\ c.wants => c.since = c.got % MetaInt /\ c.blocks = c.got \div MetaInt
           /\ c.block # NoTitle => c.shown = c.block
  /\ server.at = "stopped" => DOMAIN clients = {} /\ acceptor.at # "greeting"
=============================================================================
