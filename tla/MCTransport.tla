------------------------------ MODULE MCTransport ------------------------------
(***************************************************************************)
(* TLC instances of what holds packets back on their way to the server: the *)
(* delay of a stream and the queue of the RTMP output.  A behaviour is one  *)
(* of one of them, `part'; the other one stays as it was created, and no    *)
(* step of it is fair.                                                      *)
(***************************************************************************)
EXTENDS RtmpQueue, DelayedOutput

VARIABLE part

\* A keyframe, a disposable frame, frames that frames refer to, and audio.
GroupOfFrames == <<HIGHEST, HIGH, Audio, LOW, DISPOSABLE, HIGH, Audio>>

TransportInit == part \in {"queue", "delay"} /\ RtmpInit /\ DelayedInit

TransportNext ==
    \/ part = "queue" /\ RtmpNext /\ UNCHANGED <<delayedVars, part>>
    \/ part = "delay" /\ DelayedNext /\ UNCHANGED <<rtmpVars, part>>

TransportSpec ==
    /\ TransportInit /\ [][TransportNext]_<<rtmpVars, delayedVars, part>>
    /\ RtmpFairness /\ DelayedFairness

\* The queues hold packets and commands, the threads are where their code can
\* be.
TransportTypeOK == RtmpTypeOK /\ DelayedTypeOK
================================================================================
