-------------------------------- MODULE FanOut --------------------------------
(***************************************************************************)
(* FanOut: MultiOutput (rmpd-player/src/multi_output.rs), one lifetime.    *)
(*                                                                         *)
(* A worker thread per output reads a bounded channel.  The decode thread  *)
(* calls write, pause and resume and in the end drops the MultiOutput.     *)
(* Output 1 is the primary: its send blocks.  The others get what fits.    *)
(* Chunks are counted, not told apart.  Devices may fail to start and to   *)
(* write, and a write may take for ever (no fairness is assumed of a       *)
(* secondary).                                                             *)
(***************************************************************************)
EXTENDS Integers, Sequences

CONSTANTS
  Outputs,   \* how many outputs are enabled
  Depth,     \* capacity of a worker's channel
  MaxChunks, \* bound: chunks written
  MaxPauses  \* bound: calls to pause

ASSUME FanOutConstants ==
  /\ Outputs \in Nat \ {0} /\ Depth \in Nat \ {0}
  /\ MaxChunks \in Nat /\ MaxPauses \in Nat

VARIABLES
  active,   \* MultiOutput.active
  channel,  \* per worker: the messages queued
  worker,   \* per worker: where its thread is
  device,   \* per worker: the state of its AudioOutput
  paused,   \* per worker: output_paused
  call,     \* the call in progress: [op, at], at the worker served next
  chunks,   \* chunks the primary's channel has accepted
  pauses,   \* calls to pause so far
  late,     \* history, per worker: chunks written since active went false
  heard     \* history: chunks the primary's device has taken

fanvars == <<active, channel, worker, device, paused, call, chunks,
             pauses, late, heard>>

Workers == 1 .. Outputs
Primary == 1
Idle    == [op |-> "idle", at |-> 0]
Message == {"Samples", "Pause", "Resume", "Stop"}

FanOutTypeOK ==
  /\ active \in BOOLEAN
  /\ channel \in [Workers -> Seq(Message)]
  /\ \A w \in Workers : Len(channel[w]) <= Depth
  /\ worker \in [Workers -> {"starting", "loop", "receiving", "checking", "writing", "gone"}]
  /\ device \in [Workers -> {"closed", "running", "paused", "stopped"}]
  /\ paused \in [Workers -> BOOLEAN]
  /\ call \in [op : {"idle", "write", "pause", "resume", "drop", "dropped", "failed"},
               at : 0 .. Outputs + 1]
  /\ chunks \in 0 .. MaxChunks /\ pauses \in 0 .. MaxPauses
  /\ late \in [Workers -> Nat] /\ heard \in Nat

\* spawn.
FanOutInit ==
  /\ active = TRUE
  /\ channel = [w \in Workers |-> <<>>]
  /\ worker = [w \in Workers |-> "starting"]
  /\ device = [w \in Workers |-> "closed"]
  /\ paused = [w \in Workers |-> FALSE]
  /\ call = Idle
  /\ chunks = 0 /\ pauses = 0 /\ heard = 0
  /\ late = [w \in Workers |-> 0]

-----------------------------------------------------------------------------
(* The caller.                                                              *)
Gone(w) == worker[w] = "gone"
Full(w) == Len(channel[w]) >= Depth
Done    == call.at > Outputs
Sent(w, msg) == channel' = [channel EXCEPT ![w] = Append(@, msg)]

\* Mutant: the channel takes what does not fit.
TrySendUnbounded(w, msg) == IF Gone(w) THEN UNCHANGED channel ELSE Sent(w, msg)

\* try_send: a message that does not fit, or has no receiver, is dropped.
TrySend(w, msg) == IF Gone(w) \/ Full(w) THEN UNCHANGED channel ELSE Sent(w, msg)

CallWrite ==
  /\ call = Idle /\ chunks < MaxChunks
  /\ call' = [op |-> "write", at |-> Primary]
  /\ UNCHANGED <<active, channel, worker, device, paused, chunks, pauses,
                 late, heard>>

\* Mutant: the chunk is dropped when the primary lags.
WritePrimaryDropping ==
  /\ call = [op |-> "write", at |-> Primary]
  /\ TrySend(Primary, "Samples")
  /\ chunks' = chunks + 1
  /\ call' = [call EXCEPT !.at = 2]
  /\ UNCHANGED <<active, worker, device, paused, pauses, late, heard>>

\* send on the primary's channel: waits for room, fails once the worker has left.
WritePrimary ==
  /\ call = [op |-> "write", at |-> Primary]
  /\ \/ /\ Gone(Primary)
        /\ call' = [op |-> "failed", at |-> 0]
        /\ UNCHANGED <<channel, chunks>>
     \/ /\ ~Gone(Primary) /\ ~Full(Primary)
        /\ Sent(Primary, "Samples")
        /\ chunks' = chunks + 1
        /\ call' = [call EXCEPT !.at = 2]
  /\ UNCHANGED <<active, worker, device, paused, pauses, late, heard>>

\* Mutant: a secondary is served by a blocking send.
WriteSecondaryBlocking ==
  /\ call.op = "write" /\ call.at \in 2 .. Outputs
  /\ Gone(call.at) \/ ~Full(call.at)
  /\ TrySend(call.at, "Samples")
  /\ call' = [call EXCEPT !.at = @ + 1]
  /\ UNCHANGED <<active, worker, device, paused, chunks, pauses, late,
                 heard>>

WriteSecondary ==
  /\ call.op = "write" /\ call.at \in 2 .. Outputs
  /\ TrySend(call.at, "Samples")
  /\ call' = [call EXCEPT !.at = @ + 1]
  /\ UNCHANGED <<active, worker, device, paused, chunks, pauses, late,
                 heard>>

\* pause, resume and Drop store the flag, then tell every worker.
CallPause ==
  /\ call = Idle /\ active /\ pauses < MaxPauses
  /\ active' = FALSE
  /\ pauses' = pauses + 1
  /\ call' = [op |-> "pause", at |-> 1]
  /\ UNCHANGED <<channel, worker, device, paused, chunks, late, heard>>

CallResume ==
  /\ call = Idle /\ ~active
  /\ active' = TRUE
  /\ late' = [w \in Workers |-> 0]
  /\ call' = [op |-> "resume", at |-> 1]
  /\ UNCHANGED <<channel, worker, device, paused, chunks, pauses, heard>>

Drop ==
  /\ call \in {Idle, [op |-> "failed", at |-> 0]}
  /\ active' = FALSE
  /\ call' = [op |-> "drop", at |-> 1]
  /\ UNCHANGED <<channel, worker, device, paused, chunks, pauses, late, heard>>

Word == CASE call.op = "pause"  -> "Pause"
          [] call.op = "resume" -> "Resume"
          [] OTHER              -> "Stop"

TellWorker ==
  /\ call.op \in {"pause", "resume", "drop"} /\ ~Done
  /\ TrySend(call.at, Word)
  /\ call' = [call EXCEPT !.at = @ + 1]
  /\ UNCHANGED <<active, worker, device, paused, chunks, pauses, late,
                 heard>>

\* The call returns.  After Drop the senders are gone; threads are detached.
Return ==
  /\ call.op \in {"write", "pause", "resume", "drop"} /\ Done
  /\ call' = IF call.op = "drop" THEN [op |-> "dropped", at |-> 0] ELSE Idle
  /\ UNCHANGED <<active, channel, worker, device, paused, chunks, pauses,
                 late, heard>>

-----------------------------------------------------------------------------
(* A worker.                                                                *)
caller == <<active, call, chunks, pauses>>
Goes(w, at) == worker' = [worker EXCEPT ![w] = at]
DevicePaused(w, p) ==
  /\ device' = [device EXCEPT ![w] = IF p THEN "paused" ELSE "running"]
  /\ paused' = [paused EXCEPT ![w] = p]

WorkerStart(w) ==
  /\ worker[w] = "starting"
  /\ \/ /\ device' = [device EXCEPT ![w] = "running"] /\ Goes(w, "loop")
        /\ UNCHANGED channel
     \/ /\ Goes(w, "gone") /\ channel' = [channel EXCEPT ![w] = <<>>]
        /\ UNCHANGED device
  /\ UNCHANGED <<caller, paused, late, heard>>

\* Mutant: the device is left to the messages.
WorkerLoopIdle(w) ==
  /\ worker[w] = "loop"
  /\ Goes(w, "receiving")
  /\ UNCHANGED <<caller, channel, device, paused, late, heard>>

\* The top of the loop: the device follows active.
WorkerLoop(w) ==
  /\ worker[w] = "loop"
  /\ IF paused[w] = active THEN DevicePaused(w, ~active) ELSE UNCHANGED <<device, paused>>
  /\ Goes(w, "receiving")
  /\ UNCHANGED <<caller, channel, late, heard>>

WorkerReceive(w) ==
  /\ worker[w] = "receiving" /\ channel[w] # <<>>
  /\ channel' = [channel EXCEPT ![w] = Tail(@)]
  /\ \/ /\ Head(channel[w]) = "Samples"
        /\ Goes(w, "checking")
        /\ UNCHANGED <<device, paused>>
     \/ /\ Head(channel[w]) \in {"Pause", "Resume"}
        /\ DevicePaused(w, Head(channel[w]) = "Pause")
        /\ Goes(w, "loop")
  /\ UNCHANGED <<caller, late, heard>>

\* Mutant: only the Stop message ends a worker.
WorkerStopTold(w) ==
  /\ worker[w] = "receiving"
  /\ channel[w] # <<>> /\ Head(channel[w]) = "Stop"
  /\ device' = [device EXCEPT ![w] = "stopped"]
  /\ channel' = [channel EXCEPT ![w] = <<>>]
  /\ Goes(w, "gone")
  /\ UNCHANGED <<caller, paused, late, heard>>

\* Stop, or an empty channel whose sender is gone.
WorkerStop(w) ==
  /\ worker[w] = "receiving"
  /\ \/ channel[w] # <<>> /\ Head(channel[w]) = "Stop"
     \/ channel[w] = <<>> /\ call.op = "dropped"
  /\ device' = [device EXCEPT ![w] = "stopped"]
  /\ channel' = [channel EXCEPT ![w] = <<>>]
  /\ Goes(w, "gone")
  /\ UNCHANGED <<caller, paused, late, heard>>

\* Mutant: a queued chunk is played whatever the flag says.
WorkerCheckAlways(w) ==
  /\ worker[w] = "checking"
  /\ Goes(w, "writing")
  /\ UNCHANGED <<caller, channel, device, paused, late, heard>>

\* A chunk queued before the transition is discarded.
WorkerCheck(w) ==
  /\ worker[w] = "checking"
  /\ Goes(w, IF active THEN "writing" ELSE "loop")
  /\ UNCHANGED <<caller, channel, device, paused, late, heard>>

WorkerWrite(w) ==
  /\ worker[w] = "writing"
  /\ late' = [late EXCEPT ![w] = IF active THEN 0 ELSE @ + 1]
  /\ heard' = IF w = Primary THEN heard + 1 ELSE heard
  /\ Goes(w, "loop")
  /\ UNCHANGED <<caller, channel, device, paused>>

\* A failed write ends the primary's worker, and a secondary's goes on.
WorkerWriteFails(w) ==
  /\ worker[w] = "writing"
  /\ IF w = Primary
     THEN /\ device' = [device EXCEPT ![w] = "stopped"]
          /\ channel' = [channel EXCEPT ![w] = <<>>]
          /\ Goes(w, "gone")
     ELSE Goes(w, "loop") /\ UNCHANGED <<device, channel>>
  /\ UNCHANGED <<caller, paused, late, heard>>

-----------------------------------------------------------------------------
CallGoesOn == WritePrimary \/ WriteSecondary \/ TellWorker \/ Return

Caller == CallWrite \/ CallPause \/ CallResume \/ Drop \/ CallGoesOn

WorkerStep(w) == \/ WorkerStart(w) \/ WorkerLoop(w) \/ WorkerReceive(w) \/ WorkerStop(w)
                 \/ WorkerCheck(w) \/ WorkerWrite(w) \/ WorkerWriteFails(w)

FanOutNext == Caller \/ \E w \in Workers : WorkerStep(w)

\* A call goes on once it is made; the primary's thread and device keep going.
\* Nothing is assumed of when a call is made, nor of the secondaries.
FanOutFairness == WF_fanvars(CallGoesOn) /\ WF_fanvars(WorkerStep(Primary))

FanOutSpec == FanOutInit /\ [][FanOutNext]_fanvars /\ FanOutFairness

-----------------------------------------------------------------------------
\* Once nothing is queued and no call is under way, a worker that waits has its
\* device paused exactly when it should be: also when the channel was full and
\* the Pause or Resume message was dropped.
SettledAgrees ==
  \A w \in Workers :
    worker[w] = "receiving" /\ channel[w] = <<>> /\ call = Idle =>
      /\ paused[w] = ~active
      /\ device[w] = IF active THEN "running" ELSE "paused"

\* After pause, stop or Drop stored the flag at most the chunk already on its way to
\* the device is heard, whatever the backlog.
AtMostOneLate == \A w \in Workers : late[w] <= 1

\* active has been false at some time.
Silenced == pauses > 0 \/ call.op \in {"drop", "dropped"}

\* The primary loses nothing: until a pause silences it, what it accepted has
\* been heard, is in the worker's hand or is still queued.
PrimaryLossless ==
  ~Silenced /\ ~Gone(Primary) =>
    chunks = heard + Len(channel[Primary])
             + (IF worker[Primary] \in {"checking", "writing"} THEN 1 ELSE 0)

\* Nobody hangs: a secondary whose device never returns does not hold up the decode
\* thread, and once the MultiOutput is dropped the primary's device is let go, also
\* when its channel was full and the Stop message was dropped.
NothingHangs ==
  /\ call.op = "write" ~> call.op # "write"
  /\ call.op = "dropped" ~> worker[Primary] = "gone"
=============================================================================
