------------------------------ MODULE MCVideoIO ------------------------------
(* TLC instances of VideoIO: one input that takes the frames as they are and *)
(* one behind a scaler.                                                      *)
EXTENDS VideoIO

CONSTANTS plain, scaled
=============================================================================
