----------------------------- MODULE Connection -----------------------------
(***************************************************************************)
(* One client's connection: the loop of handle_client_inner, command lists *)
(* and idle (rmpd-protocol/src/server.rs), its permissions and its tag mask *)
(* (connection.rs, commands/reflection.rs).                                *)
(*                                                                         *)
(* A line is named for what it is to the loop.  An answer is a tuple: the   *)
(* ACK carries its index in the list.  Command bodies are left out.        *)
(***************************************************************************)
EXTENDS Integers, FiniteSets, SequencesExt

CONSTANTS
  Lines,       \* lines the client may send
  MaxLines,    \* bound: lines sent
  Password,    \* is a password configured
  Tags,        \* every tag type
  DefaultTags, \* those ConnectionState::default_tags lists
  AllTags      \* no mask: None

ASSUME ConnectionConstants ==
  /\ DefaultTags \subseteq Tags /\ \A set \in SUBSET Tags : AllTags # set
  /\ MaxLines \in Nat /\ Password \in BOOLEAN
  /\ "lost" \notin Lines                \* it marks in taken what idle has lost

VARIABLES
  pending,  \* lines sent and not yet read
  mode,     \* plain, batch, run, idle, closed
  listOk,   \* batch_ok_mode
  batch,    \* batch_commands
  ran,      \* commands of the batch already run
  response, \* what the list has answered so far
  granted,  \* has the permissions
  mask,     \* enabled_tags
  out,      \* answers written
  taken,    \* history: lines read
  torn      \* history: an event has made idle lose half a line

connvars == <<pending, mode, listOk, batch, ran, response, granted, mask, out, taken, torn>>

Ok     == <<"OK">>
ListOk == <<"list_OK">>
Ack(i) == <<"ACK", i>>

ConnectionInit ==
  /\ pending = <<>> /\ mode = "plain" /\ listOk = FALSE
  /\ batch = <<>> /\ ran = 0 /\ response = <<>>
  /\ granted = ~Password /\ mask = AllTags
  /\ out = <<>> /\ taken = <<>> /\ torn = FALSE

Send(l) ==
  /\ mode # "closed" /\ Len(taken) + Len(pending) < MaxLines
  /\ pending' = Append(pending, l)
  /\ UNCHANGED <<mode, listOk, batch, ran, response, granted, mask, out, taken, torn>>

-----------------------------------------------------------------------------
(* Commands.                                                                *)

Begins == {"command_list_begin", "command_list_ok_begin"}
Masks  == {[op |-> o, tags |-> t] : o \in {"enable", "disable", "reset"}, t \in SUBSET Tags \ {{}}}
          \union {[op |-> o, tags |-> {}] : o \in {"all", "clear"}}

\* From no mask at all, enable and disable start from the default tags, not from all.
AfterMask(m, c) ==
  LET set == IF m = AllTags THEN DefaultTags ELSE m
  IN  CASE c.op = "enable"  -> set \union c.tags
        [] c.op = "disable" -> set \ c.tags
        [] c.op = "reset"   -> IF m = AllTags THEN m ELSE m \union (c.tags \intersect DefaultTags)
        [] c.op = "all"     -> AllTags
        [] c.op = "clear"   -> {}

\* handle_command answers l with success: tagtypes and password need no permission.
Succeeds(l, success) ==
  CASE l = "password"    -> IF Password THEN success ELSE TRUE
    [] l = "tagtypes"    -> TRUE
    [] l = "unknown"     -> FALSE
    [] OTHER             -> granted /\ success

HandleCommand(l, success) ==
  /\ granted' = (granted \/ (l = "password" /\ Succeeds(l, success)))
  /\ IF l = "tagtypes" THEN \E c \in Masks : mask' = AfterMask(mask, c)
     ELSE UNCHANGED mask

Answer(l, success, i) == IF Succeeds(l, success) THEN Ok ELSE Ack(i)

-----------------------------------------------------------------------------
(* The loop.                                                                *)

Take(l) == pending' = Tail(pending) /\ taken' = Append(taken, l)

Close == mode' = "closed" /\ UNCHANGED <<listOk, batch, ran, response, granted, mask, torn>>

\* A line outside a list.
ReadPlain(success) ==
  /\ mode = "plain" /\ pending # <<>>
  /\ LET l == Head(pending)
     IN  /\ Take(l)
         /\ CASE l \in Begins ->
                   /\ mode' = "batch" /\ listOk' = (l = "command_list_ok_begin")
                   /\ UNCHANGED <<batch, ran, response, granted, mask, out, torn>>
              [] l = "idle" /\ granted ->
                   /\ mode' = "idle"
                   /\ UNCHANGED <<listOk, batch, ran, response, granted, mask, out, torn>>
              [] l \in {"close", "malformed"} -> Close /\ UNCHANGED out
              [] l = "noidle" ->                          \* the idle was over already
                   UNCHANGED <<mode, listOk, batch, ran, response, granted, mask, out, torn>>
              [] OTHER ->
                   /\ HandleCommand(l, success)
                   /\ out' = Append(out, IF l \in {"command_list_end", "idle"} THEN Ack(0)
                                         ELSE Answer(l, success, 0))
                   /\ UNCHANGED <<mode, listOk, batch, ran, response, torn>>

\* A line of a list is kept as it is.
ReadBatch ==
  /\ mode = "batch" /\ pending # <<>>
  /\ LET l == Head(pending)
     IN  /\ Take(l)
         /\ CASE l \in {"idle", "noidle", "malformed"} -> Close /\ UNCHANGED out
              [] l = "command_list_end" ->
                   /\ mode' = "run" /\ ran' = 0 /\ response' = <<>>
                   /\ UNCHANGED <<listOk, batch, granted, mask, out, torn>>
              [] OTHER ->
                   /\ batch' = Append(batch, l)
                   /\ UNCHANGED <<mode, listOk, ran, response, granted, mask, out, torn>>

\* Mutant: the lines of the list stay.
EndListKept(answer) ==
  /\ out' = out \o answer
  /\ mode' = "plain" /\ listOk' = FALSE /\ ran' = 0 /\ response' = <<>>
  /\ UNCHANGED <<pending, batch, taken, torn>>

\* The list is over: its answer is written.
EndList(answer) ==
  /\ out' = out \o answer
  /\ mode' = "plain" /\ listOk' = FALSE /\ batch' = <<>> /\ ran' = 0 /\ response' = <<>>
  /\ UNCHANGED <<pending, taken, torn>>

\* Mutant: an error does not end the list.
RunOn(success) ==
  /\ mode = "run"
  /\ IF ran = Len(batch) THEN EndList(response \o <<Ok>>) /\ UNCHANGED <<granted, mask>>
     ELSE LET l == batch[ran + 1]
          IN  /\ HandleCommand(l, success) /\ ran' = ran + 1
              /\ response' = IF ~Succeeds(l, success) THEN Append(response, Ack(ran))
                             ELSE IF listOk THEN Append(response, ListOk) ELSE response
              /\ UNCHANGED <<pending, mode, listOk, batch, out, taken, torn>>

\* execute_command_list, one command a step.  A nested list and a binary command drop
\* what the list has answered so far.
Run(success) ==
  /\ mode = "run"
  /\ IF ran = Len(batch) THEN EndList(response \o <<Ok>>) /\ UNCHANGED <<granted, mask>>
     ELSE LET l == batch[ran + 1]
          IN  CASE l \in Begins -> EndList(<<Ack(ran)>>) /\ UNCHANGED <<granted, mask>>
                [] l = "close" ->
                     /\ out' = out \o response /\ mode' = "closed"
                     /\ UNCHANGED <<pending, listOk, batch, ran, response, granted, mask, taken, torn>>
                [] l = "albumart" /\ Succeeds(l, success) ->
                     HandleCommand(l, success) /\ EndList(<<Ack(ran)>>)
                [] l \notin Begins \union {"close", "albumart"} /\ Succeeds(l, success) ->
                     /\ HandleCommand(l, success) /\ ran' = ran + 1
                     /\ response' = IF listOk THEN Append(response, ListOk) ELSE response
                     /\ UNCHANGED <<pending, mode, listOk, batch, out, taken, torn>>
                [] OTHER ->
                     HandleCommand(l, success) /\ EndList(Append(response, Ack(ran)))

\* idle ends with a change, or with any line: one that is not noidle is lost.
IdleLine ==
  /\ mode = "idle" /\ pending # <<>>
  /\ Take("lost")
  /\ mode' = "plain" /\ out' = Append(out, Ok)
  /\ UNCHANGED <<listOk, batch, ran, response, granted, mask, torn>>

\* A line of which only a part had come by then is lost with its beginning: the
\* rest is an unknown command.
IdleEvent(half) ==
  /\ mode = "idle"
  /\ mode' = "plain" /\ out' = Append(out, Ok)
  /\ IF half /\ pending # <<>>
     THEN pending' = <<"unknown">> \o Tail(pending) /\ torn' = TRUE
     ELSE UNCHANGED <<pending, torn>>
  /\ UNCHANGED <<listOk, batch, ran, response, granted, mask, taken>>

\* Nothing came for the length of the timeout; or the client hung up.
Leave ==
  /\ mode \in {"plain", "batch", "idle"} /\ pending = <<>>
  /\ Close /\ UNCHANGED <<pending, out, taken>>

ConnectionNext ==
  \/ \E l \in Lines : Send(l)
  \/ \E success \in BOOLEAN : ReadPlain(success) \/ Run(success) \/ IdleEvent(success)
  \/ ReadBatch \/ IdleLine \/ Leave

ConnectionSpec == ConnectionInit /\ [][ConnectionNext]_connvars

-----------------------------------------------------------------------------
ConnectionTypeOK ==
  /\ mode \in {"plain", "batch", "run", "idle", "closed"}
  /\ ran <= Len(batch) /\ Len(taken) + Len(pending) <= MaxLines
  /\ mask = AllTags \/ mask \subseteq Tags
  /\ mode = "plain" => batch = <<>> /\ response = <<>>

Inside(i) == \E j \in 1..i - 1 : taken[j] \in Begins
                                 /\ \A k \in j + 1..i - 1 : taken[k] # "command_list_end"
Answered  == {i \in DOMAIN taken : IF Inside(i) THEN taken[i] = "command_list_end"
                                   ELSE taken[i] \notin Begins \union {"noidle", "lost"}}
Final     == {i \in DOMAIN out : out[i] # ListOk}

\* Whenever the loop waits for a line outside a list, the client has had exactly one
\* final answer to each request it made, a list being one request, so that client
\* and server never lose step.  Not when idle has lost half a line.
AnswersInStep ==
  mode = "plain" /\ ~torn => Cardinality(Final) = Cardinality(Answered)
=============================================================================
