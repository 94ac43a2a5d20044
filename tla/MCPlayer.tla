------------------------------ MODULE MCPlayer ------------------------------
(* The parts of the player for TLC: the playback thread with its cached    *)
(* output, the fan-out of its chunks to the outputs, and the outputs that  *)
(* play to a device or to listeners.  They meet in calls only, so each     *)
(* behaviour is one of them, chosen at the start.                          *)
EXTENDS FanOut, DecodeThread, AudioDevice, Httpd, TLC

CONSTANTS Parts, \* the parts this run is about
          s1, s2, s3

VARIABLE part

\* Two songs of one rate, the second shorter than a buffer, and a DSD song.
MCSongs ==
  (s1 :> [length |-> 9, rate |-> 1, dsd |-> FALSE]) @@
  (s2 :> [length |-> 1, rate |-> 1, dsd |-> FALSE]) @@
  (s3 :> [length |-> 4, rate |-> 5, dsd |-> TRUE])
MCDsdRates == <<1, 2, 4, 8>>
MCRanges   == {[start |-> 2, end |-> 5], [start |-> 3, end |-> 0]}

MCBackends == {[kind |-> "cpal", resamples |-> FALSE], [kind |-> "cpal", resamples |-> TRUE],
               [kind |-> "pipewire", resamples |-> FALSE], [kind |-> "dop", resamples |-> FALSE]}

vars == <<part, fanvars, threadvars, devicevars, httpdvars>>

\* A part that does not run keeps one of its initial states.
PlayerInit ==
  /\ part \in Parts
  /\ FanOutInit
  /\ ThreadInit /\ (part # "thread" => outputs = {})
  /\ DeviceInit /\ (part # "device" => backend = [kind |-> "cpal", resamples |-> FALSE])
  /\ HttpdInit /\ (part # "httpd" => title = NoTitle)

PlayerNext ==
  \/ part = "fanout" /\ FanOutNext /\ UNCHANGED <<part, threadvars, devicevars, httpdvars>>
  \/ part = "thread" /\ ThreadNext /\ UNCHANGED <<part, fanvars, devicevars, httpdvars>>
  \/ part = "device" /\ DeviceNext /\ UNCHANGED <<part, fanvars, threadvars, httpdvars>>
  \/ part = "httpd" /\ HttpdNext /\ UNCHANGED <<part, fanvars, threadvars, devicevars>>

\* The fairness of each part, while it is the one that runs.
PlayerFairness ==
  /\ WF_fanvars(part = "fanout" /\ CallGoesOn)
  /\ WF_fanvars(part = "fanout" /\ WorkerStep(Primary))
  /\ WF_devicevars(part = "device" /\ Continue)
  /\ WF_devicevars(part = "device" /\ Callback)

PlayerSpec == PlayerInit /\ [][PlayerNext]_vars /\ PlayerFairness

-----------------------------------------------------------------------------
\* The variables of every part keep their types.
PlayerTypeOK == FanOutTypeOK /\ ThreadTypeOK /\ DeviceTypeOK /\ HttpdTypeOK

\* A pause is heard: at most one chunk is on its way to an output, when all is quiet
\* every output is paused exactly when the MultiOutput is, and a device that is paused
\* or stopped plays no more than PipeWire's channel held.
PauseObeyed == SettledAgrees /\ AtMostOneLate /\ DeviceSilent

\* No audio is lost: neither what the primary's channel accepted, until it is silenced,
\* nor what a device accepted, until it is stopped.
NothingLost == PrimaryLossless /\ DeviceKeeps

\* No call hangs, from the decode thread's write down to the device's stop, but for
\* the two cases DeviceReturns names.
CallsReturn == NothingHangs /\ DeviceReturns
=============================================================================
