--------------------------- MODULE MCCaptureWorker ---------------------------
EXTENDS CaptureWorker

CONSTANTS j1, t1, t2

\* The job is for any page, or submitted for one of them.
Anywhere == [j \in Job |-> NoTab]
ForFirst == [j \in Job |-> t1]
=============================================================================
