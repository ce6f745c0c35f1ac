-------------------------------- MODULE MCScenes -------------------------------
(***************************************************************************)
(* TLC instances of SceneItems: a scene in a scene in a scene, of which the  *)
(* outermost could be put into the innermost.                                *)
(***************************************************************************)
EXTENDS SceneItems

Outer == <<"s", "n">>
Inner == <<"n", "m">>
Closing == <<"m", "s">>
Microphone == <<"m", "a">>
Camera == <<"s", "v">>

Nested == {Outer, Inner, Closing, Microphone, Camera}

\* All items visible; and the camera to be added, the inner scene hidden.
Collections ==
    {[i \in Nested \ {Closing} |-> TRUE],
     [i \in Nested \ {Closing, Camera} |-> i # Inner]}
================================================================================
