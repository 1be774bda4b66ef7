------------------------ MODULE MCRequestIdempotency ------------------------
EXTENDS RequestIdempotency

CONSTANTS q1, q2, q3, q4, same, other

\* Three requests with the same body, one of them streaming, and one with
\* another.
Bodies == [r \in {q1, q2, q3, q4} |-> IF r = q4 THEN other ELSE same]
=============================================================================
