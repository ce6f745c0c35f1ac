----------------------------- MODULE FrameStream -----------------------------
(***************************************************************************)
(* What the frame cache of video-io promises, with no cache in it: the time *)
(* line of frame intervals that the graphics thread has submitted is played *)
(* out one interval after the other, none left out and none repeated, and   *)
(* never ahead of what was submitted.                                       *)
(***************************************************************************)
EXTENDS Naturals

CONSTANT MaxCount   \* the most intervals one submitted frame may stand for

VARIABLES submitted, shown   \* intervals below these were submitted, shown

vars == <<submitted, shown>>

Init == submitted = 0 /\ shown = 0

Submit ==
    /\ \E count \in 1 .. MaxCount : submitted' = submitted + count
    /\ UNCHANGED shown

Show ==
    /\ shown < submitted
    /\ shown' = shown + 1
    /\ UNCHANGED submitted

Next == Submit \/ Show

Spec == Init /\ [][Next]_vars
=============================================================================
