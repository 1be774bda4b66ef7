---------------------------- MODULE MCDeltaStream ----------------------------
EXTENDS DeltaStream

CONSTANTS p1, p2

\* Answers that repeat letters of their own and of each other.
MCLetters == (p1 :> <<"a", "b", "a">>) @@ (p2 :> <<"b">>)
=============================================================================
