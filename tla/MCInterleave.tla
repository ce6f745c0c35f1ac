----------------------------- MODULE MCInterleave -----------------------------
(* TLC instances of Interleave.  A video frame lasts 2 and an audio packet 3 *)
(* time units, as 60 frames a second compare with AAC packets.               *)
EXTENDS Interleave

\* One audio track that begins with the video, whose frames are reordered, or
\* three frames after it.
Reordered == {[audio |-> <<1>>, reorder |-> 2]}
AudioLate == {[audio |-> <<6>>, reorder |-> 0]}

\* Two tracks that begin two units apart, the first more than a frame late.
Apart == {[audio |-> <<4, 2>>, reorder |-> 0]}

\* The same, and two tracks of which the last one is late, with B-frames.
ApartOrReordered == Apart \cup {[audio |-> <<2, 6>>, reorder |-> 2]}
===============================================================================
