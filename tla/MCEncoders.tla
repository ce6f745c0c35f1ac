------------------------------- MODULE MCEncoders ------------------------------
(***************************************************************************)
(* Who shares which encoders in the TLC instances of EncoderPairing.         *)
(***************************************************************************)
EXTENDS EncoderPairing

\* A recording that shares the audio of the stream and has a video of its own,
\* and one that shares the video and takes a second track before the stream's.
OwnVideo ==
    [stream |-> [video |-> "v1", audio |-> <<"a1">>],
     recording |-> [video |-> "v2", audio |-> <<"a1">>]]
OwnTrack ==
    [stream |-> [video |-> "v1", audio |-> <<"a2">>],
     recording |-> [video |-> "v1", audio |-> <<"a1", "a2">>]]

\* The output whose connection fails, or whose encoder does, is the only one that
\* starts here.
Alone ==
    [stream |-> [video |-> "v1", audio |-> <<"a1">>],
     recording |-> [video |-> "v1", audio |-> <<"a1">>]]

AloneOrNot == {OwnVideo, OwnTrack, Alone}

\* A recording of another track, with the video of the stream.
OtherTrack ==
    {[stream |-> [video |-> "v1", audio |-> <<"a1">>],
      recording |-> [video |-> "v1", audio |-> <<"a2">>]]}
================================================================================
