------------------------------- MODULE MCOutputs -------------------------------
(***************************************************************************)
(* TLC instances of what is started and stopped, held and released: the two  *)
(* kinds of outputs, and a source.  A behaviour is one of one of them,       *)
(* `part'; the others stay as they were created.  So fairness is asked of    *)
(* that one only: of an output or a source that was just created no step is  *)
(* fair, because nobody has called it yet.                                   *)
(***************************************************************************)
EXTENDS MCStreamOutput, WebRTCSession, SourceRefs

CONSTANTS u1, u2

VARIABLE part

outputsVars == <<vars, rtcVars, refVars, part>>

\* The users are alike: the first one has created the source.
OutputsInit ==
    /\ part \in {"rtmp", "webrtc", "source"}
    /\ Init /\ RtcInit /\ RefInit
    /\ part # "rtmp" => races = {}
    /\ held[u1] = 1

OutputsNext ==
    \/ part = "rtmp" /\ Next /\ UNCHANGED <<rtcVars, refVars, part>>
    \/ part = "webrtc" /\ RtcNext /\ UNCHANGED <<vars, refVars, part>>
    \/ part = "source" /\ RefNext /\ UNCHANGED <<vars, rtcVars, part>>

OutputsSpec ==
    /\ OutputsInit /\ [][OutputsNext]_outputsVars
    /\ Fairness /\ RtcFairness /\ RefFairness

\* Every thread of an output is at a point its code has, and so is every thread
\* that uses the source.
OutputsTypeOK == TypeOK /\ RtcTypeOK /\ RefTypeOK
================================================================================
