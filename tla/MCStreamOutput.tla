---------------------------- MODULE MCStreamOutput ----------------------------
(* TLC instances of StreamOutput: which threads may meet.                    *)
EXTENDS StreamOutput

\* No race, those that let every start return, and the one that does not.
NoneOrMore == {{}, {"end", "init"}, {"retry", "end", "init"}}

RetryOnly == {{"retry"}}
===============================================================================
