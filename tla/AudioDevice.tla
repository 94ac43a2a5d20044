----------------------------- MODULE AudioDevice -----------------------------
(***************************************************************************)
(* AudioDevice: what an output of FanOut's does with the chunks its worker *)
(* gives it, for the backends that play to a device: cpal (output.rs),     *)
(* PipeWire (pipewire_output.rs) and DoP (dop_output.rs, which the decode  *)
(* thread calls itself), with the resampler (resampler.rs) and the         *)
(* SampleBuffer of the audio callback (conversion.rs).                     *)
(*                                                                         *)
(* A write brings one unit of audio.  The worker starts an output once, so *)
(* a second start and a write to an output not started, which change       *)
(* nothing, are left out.  The device is external: it calls back while its *)
(* stream runs, may refuse to start or to pause, and may be lost, of which *)
(* neither backend takes notice.                                           *)
(***************************************************************************)
EXTENDS Integers, Sequences

CONSTANTS
  Backends,   \* [kind, resamples]: what start may be asked of
  Chunk,      \* input chunk of the resampler, in units
  LineDepth,  \* capacity of the channel to the callback, in messages
  MaxUnits    \* bound: units written

ASSUME AudioDeviceConstants ==
  /\ \A b \in Backends : b.kind \in {"cpal", "pipewire", "dop"} /\ b.resamples \in BOOLEAN
  /\ \A b \in Backends : b.resamples => b.kind = "cpal"
  /\ Chunk \in Nat \ {0} /\ LineDepth \in Nat \ {0} /\ MaxUnits \in Nat \ {0}

VARIABLES
  backend,  \* which of Backends this is
  started,  \* sample_sender is Some
  stream,   \* what the stream, or the loop thread with it, does
  line,     \* the channel to the callback: units per message
  sample,   \* units left in the SampleBuffer's chunk
  carry,    \* resampler.input
  muted,    \* pause_state
  doing,    \* the call in progress: [op, out], out still to be sent
  taken,    \* history: units accepted
  sounded,  \* history: units the device has played
  after     \* history: those of them played since the output was silenced

devicevars == <<backend, started, stream, line, sample, carry, muted, doing,
                taken, sounded, after>>

Nothing == [op |-> "none", out |-> 0]
Dop     == backend.kind = "dop"
Cpal    == backend.kind # "pipewire"  \* the stream is one of cpal's

DeviceTypeOK ==
  /\ backend \in Backends
  /\ started \in BOOLEAN /\ muted \in BOOLEAN
  /\ stream \in {"new", "running", "paused", "lost", "closed"}
  /\ line \in Seq(1 .. MaxUnits + 1) /\ Len(line) <= LineDepth
  /\ sample \in 0 .. MaxUnits /\ carry \in 0 .. Chunk - 1
  /\ doing \in [op : {"none", "write", "flush", "joining"}, out : 0 .. MaxUnits]
  /\ taken \in 0 .. MaxUnits + 1 /\ sounded \in Nat /\ after \in Nat

DeviceInit ==
  /\ backend \in Backends
  /\ started = FALSE /\ stream = "new" /\ line = <<>> /\ sample = 0 /\ carry = 0
  /\ muted = FALSE /\ doing = Nothing /\ taken = 0 /\ sounded = 0 /\ after = 0

-----------------------------------------------------------------------------
(* The calls of the worker.                                                 *)
StartOutput ==
  /\ stream = "new"
  /\ \/ ~Dop /\ stream' = "running" /\ started' = TRUE
     \/ stream' = "closed" /\ UNCHANGED started
  /\ UNCHANGED <<backend, line, sample, carry, muted, doing, taken, sounded, after>>

\* DoP goes on to send silence that tells the converter what comes.
StartDop ==
  /\ stream = "new" /\ Dop
  /\ stream' = "running" /\ started' = TRUE
  /\ doing' = [op |-> "write", out |-> 1] /\ taken' = 1
  /\ UNCHANGED <<backend, line, sample, carry, muted, sounded, after>>

\* What process gives for one unit more: whole chunks.
Resampled == IF backend.resamples THEN ((carry + 1) \div Chunk) * Chunk ELSE 1

\* write: what the resampler holds back is not sent; a paused output drops it all.
Write ==
  /\ doing = Nothing /\ started /\ ~muted /\ taken < MaxUnits
  /\ taken' = taken + 1
  /\ carry' = carry + 1 - Resampled
  /\ doing' = IF Resampled > 0 THEN [op |-> "write", out |-> Resampled] ELSE Nothing
  /\ UNCHANGED <<backend, started, stream, line, sample, muted, sounded, after>>

\* Mutant: what does not fit is dropped.
SendLossy ==
  /\ doing.out > 0
  /\ line' = IF Len(line) < LineDepth THEN Append(line, doing.out) ELSE line
  /\ doing' = IF doing.op = "write" THEN Nothing ELSE [doing EXCEPT !.out = 0]
  /\ UNCHANGED <<backend, started, stream, sample, carry, muted, taken, sounded, after>>

\* send on the channel to the callback waits for room.
Send ==
  /\ doing.out > 0 /\ Len(line) < LineDepth
  /\ line' = Append(line, doing.out)
  /\ doing' = IF doing.op = "write" THEN Nothing ELSE [doing EXCEPT !.out = 0]
  /\ UNCHANGED <<backend, started, stream, sample, carry, muted, taken, sounded, after>>

\* DoP waits for room up to a deadline, and then drops what it has.
GiveUp ==
  /\ Dop /\ doing.op = "write" /\ Len(line) = LineDepth
  /\ taken' = taken - doing.out
  /\ doing' = Nothing
  /\ UNCHANGED <<backend, started, stream, line, sample, carry, muted, sounded, after>>

\* Mutant: the flag alone pauses either backend.
PauseByFlag ==
  /\ doing = Nothing /\ started
  /\ muted' = TRUE
  /\ UNCHANGED <<backend, started, stream, line, sample, carry, doing, taken, sounded, after>>

\* cpal stops its stream, and stays as it was when that fails.  PipeWire sets a flag.
PauseOutput ==
  /\ doing = Nothing /\ started
  /\ muted' = TRUE
  /\ stream' = IF Cpal /\ stream = "running" THEN "paused" ELSE stream
  /\ UNCHANGED <<backend, started, line, sample, carry, doing, taken, sounded, after>>

ResumeOutput ==
  /\ doing = Nothing /\ started
  /\ muted' = FALSE /\ after' = 0
  /\ stream' = IF Cpal /\ stream = "paused" THEN "running" ELSE stream
  /\ UNCHANGED <<backend, started, line, sample, carry, doing, taken, sounded>>

\* stop: cpal first sends what its resampler holds; PipeWire first lets its sender go
\* and asks the loop to quit.
StopOutput ==
  /\ doing = Nothing /\ started /\ ~Dop
  /\ carry' = 0
  /\ started' = Cpal
  /\ doing' = [op |-> IF Cpal THEN "flush" ELSE "joining", out |-> carry]
  /\ UNCHANGED <<backend, stream, line, sample, muted, taken, sounded, after>>

\* DoP sends silence that ends it, if there is room.
StopDop ==
  /\ doing = Nothing /\ started /\ Dop
  /\ IF Len(line) < LineDepth THEN line' = Append(line, 1) /\ taken' = taken + 1
     ELSE UNCHANGED <<line, taken>>
  /\ doing' = [op |-> "flush", out |-> 0]
  /\ UNCHANGED <<backend, started, stream, sample, carry, muted, sounded, after>>

\* The stream is dropped, with all that is queued.
CloseStream ==
  /\ doing = [op |-> "flush", out |-> 0]
  /\ stream' = "closed" /\ started' = FALSE /\ muted' = FALSE
  /\ line' = <<>> /\ sample' = 0
  /\ doing' = Nothing
  /\ UNCHANGED <<backend, carry, taken, sounded, after>>

\* The loop thread quits, also after stop has given up on it.
LoopQuits ==
  /\ ~Cpal /\ ~started /\ stream \in {"running", "lost"}
  /\ stream' = "closed" /\ line' = <<>> /\ sample' = 0
  /\ UNCHANGED <<backend, started, carry, muted, doing, taken, sounded, after>>

\* Mutant: stop waits for the loop as long as it takes.
LoopLeftJoining ==
  /\ doing.op = "joining" /\ stream = "closed"
  /\ doing' = Nothing /\ muted' = FALSE
  /\ UNCHANGED <<backend, started, stream, line, sample, carry, taken, sounded, after>>

\* wait_with_timeout_or_detach: the loop is joined, or let be after STOP_TIMEOUT.
LoopLeft ==
  /\ doing.op = "joining"
  /\ doing' = Nothing /\ muted' = FALSE
  /\ UNCHANGED <<backend, started, stream, line, sample, carry, taken, sounded, after>>

-----------------------------------------------------------------------------
(* The device.                                                              *)
\* The audio callback takes the next unit: of the chunk at hand, else of the next
\* message; else it plays silence.
Callback ==
  /\ stream = "running"
  /\ \/ /\ sample > 0
        /\ sample' = sample - 1 /\ UNCHANGED line
     \/ /\ sample = 0 /\ line # <<>>
        /\ sample' = Head(line) - 1 /\ line' = Tail(line)
  /\ sounded' = sounded + 1
  /\ after' = IF muted \/ ~started THEN after + 1 ELSE 0
  /\ UNCHANGED <<backend, started, stream, carry, muted, doing, taken>>

\* The device goes away: the callbacks cease and the error is only logged.
LoseDevice ==
  /\ stream \in {"running", "paused"}
  /\ stream' = "lost"
  /\ UNCHANGED <<backend, started, line, sample, carry, muted, doing, taken, sounded, after>>

Continue == Send \/ GiveUp \/ CloseStream \/ LoopLeft

DeviceNext ==
  \/ StartOutput \/ StartDop \/ Write \/ PauseOutput \/ ResumeOutput
  \/ StopOutput \/ StopDop \/ Continue \/ LoopQuits \/ Callback \/ LoseDevice

\* A stream that runs calls back, and a call goes on.
DeviceFairness == WF_devicevars(Callback) /\ WF_devicevars(Continue)

DeviceSpec == DeviceInit /\ [][DeviceNext]_devicevars /\ DeviceFairness

-----------------------------------------------------------------------------
\* The units in a channel.
Units(messages) ==
  LET first[n \in 0 .. Len(messages)] == IF n = 0 THEN 0 ELSE first[n - 1] + messages[n]
  IN  first[Len(messages)]

\* Until it is stopped the device has played, or still holds somewhere, every unit
\* that was accepted: also across pauses and in the resampler.
DeviceKeeps ==
  started => taken = sounded + sample + Units(line) + carry + doing.out

\* Once an output is paused or stopped, cpal plays nothing more.  The graph drains
\* what PipeWire's channel held, and goes on to when the loop was let be.
DeviceSilent ==
  muted \/ ~started => after <= IF Cpal THEN 0 ELSE LineDepth

\* The call waits for room in a channel that nobody empties.
Stranded == ~Dop /\ doing.out > 0 /\ stream \in {"lost", "paused"}

\* write and stop return, whatever the device does, but for two cases: a call to a
\* device that is lost, and cpal's stop with something in the resampler while its
\* stream is paused.  PipeWire's stop always returns, and so do DoP's write and stop,
\* which wait for a deadline: "a plain blocking `send` would hang forever".
DeviceReturns == doing # Nothing ~> doing = Nothing \/ Stranded
=============================================================================
