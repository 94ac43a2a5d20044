------------------------------ MODULE MCPlayback ------------------------------
(* Playback for TLC: the options at startup and what is sent, per run.     *)
EXTENDS Playback, TLC

CONSTANTS c1, c2

MCClients == {c1, c2}
MCQueue3 == <<1, 2, 3>>
MCNone   == {}
MCThird  == {3}
MCSecond == {2}

Plain == [repeat |-> FALSE, random |-> FALSE, single |-> "off", consume |-> "off"]

PlayAt(p) == [op |-> "playat", pos |-> p]
PlayId(i) == [op |-> "playid", id |-> i]
Resume    == [op |-> "resume"]
Pause(to) == [op |-> "pause", to |-> to]
Stop      == [op |-> "stop"]
Clear     == [op |-> "clear"]
Skip      == [op |-> "next"]
Back      == [op |-> "previous"]
Delete(p) == [op |-> "delete", pos |-> p]
Set(o, v) == [op |-> "set", option |-> o, value |-> v]

Load(k1, k2) == [requests |-> (c1 :> k1) @@ (c2 :> k2),
                 options |-> Plain, failures |-> FALSE]

\* Everything two connections may ask of the player, which may fail.
Control == [Load({PlayAt(0), Resume, Pause("pause"), Stop, Skip, Set("random", TRUE)},
                 {PlayId(2), Pause("toggle"), Pause("play"), Clear, Back})
            EXCEPT !.failures = TRUE]

\* What starts and stops playback without touching queue or options.
Starts == Load({PlayAt(0), PlayAt(7), Stop}, {PlayId(2), Resume, Pause("toggle")})

MCWorkloads == {Control, Starts}

\* What one listener does who wants to hear the queue out.
MCListen ==
  {Load({PlayAt(0), PlayId(3), Skip, Back, Delete(0), Pause("toggle"),
         Set("consume", "on"), Set("consume", "oneshot"), Set("single", "oneshot")},
        {})}

\* Play, with single on.
MCSingle == {[Load({PlayAt(0)}, {}) EXCEPT !.options.single = "on"]}

\* Play, then skip.
MCSkip == {Load({PlayAt(0), Skip}, {})}
=============================================================================
