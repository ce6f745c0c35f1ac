-------------------------------- MODULE MCMedia --------------------------------
(***************************************************************************)
(* TLC instances of the components that pictures, samples and packets pass   *)
(* through.  A behaviour is one of one of them, `part'; the others stay as   *)
(* they were created.                                                        *)
(***************************************************************************)
EXTENDS Interleave, RenderLoop, AsyncFrames, AudioBuffering, Signals,
        ReplayBuffer, MCEncoders

VARIABLE part

mediaVars ==
    <<interleaveVars, renderVars, asyncVars, audioVars, pairingVars, signalVars,
      replayVars, part>>

\* Two tracks that begin two units apart, the first more than a frame of the
\* video late; and two of which the last one is late, with B-frames.
ApartOrReordered ==
    {[audio |-> <<4, 2>>, reorder |-> 0], [audio |-> <<2, 6>>, reorder |-> 2]}

\* A limit of both kinds, and of the time alone.
TwoLimits ==
    {[max_size |-> 6, max_time |-> 5], [max_size |-> 0, max_time |-> 4]}

MediaInit ==
    /\ part \in {"interleave", "render", "async", "audio", "encoders", "signals",
                 "replay"}
    /\ InterleaveInit /\ RenderInit /\ AsyncInit /\ AudioInit /\ PairingInit
    /\ SignalsInit /\ ReplayInit
    /\ part # "interleave" => beginning.reorder = 0
    /\ part # "render" => gpu_conversion
    /\ part # "encoders" => mishap = "none"
    /\ IF mishap = "none" /\ part = "encoders"
       THEN sharing # Alone /\ starts_left = MaxOutputStarts
       ELSE sharing = Alone /\ starts_left = 1

MediaNext ==
    \/ /\ part = "interleave" /\ InterleaveNext
       /\ UNCHANGED <<renderVars, asyncVars, audioVars, pairingVars,
                     signalVars, replayVars, part>>
    \/ /\ part = "render" /\ RenderNext
       /\ UNCHANGED <<interleaveVars, asyncVars, audioVars, pairingVars,
                     signalVars, replayVars, part>>
    \/ /\ part = "async" /\ AsyncNext
       /\ UNCHANGED <<interleaveVars, renderVars, audioVars, pairingVars,
                     signalVars, replayVars, part>>
    \/ /\ part = "audio" /\ AudioNext
       /\ UNCHANGED <<interleaveVars, renderVars, asyncVars, pairingVars,
                     signalVars, replayVars, part>>
    \/ /\ part = "encoders" /\ PairingNext
       /\ UNCHANGED <<interleaveVars, renderVars, asyncVars, audioVars,
                     signalVars, replayVars, part>>
    \/ /\ part = "signals" /\ SignalsNext
       /\ UNCHANGED <<interleaveVars, renderVars, asyncVars, audioVars,
                     pairingVars, replayVars, part>>
    \/ /\ part = "replay" /\ ReplayNext
       /\ UNCHANGED <<interleaveVars, renderVars, asyncVars, audioVars,
                     pairingVars, signalVars, part>>

MediaSpec == MediaInit /\ [][MediaNext]_mediaVars

\* Every variable of every component stays in its type.
MediaTypeOK ==
    /\ InterleaveTypeOK /\ RenderTypeOK /\ AsyncTypeOK /\ AudioTypeOK
    /\ PairingTypeOK /\ SignalsTypeOK /\ ReplayTypeOK
================================================================================
