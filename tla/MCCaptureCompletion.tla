------------------------ MODULE MCCaptureCompletion ------------------------
EXTENDS CaptureCompletion

Plain == [marker |-> FALSE, control |-> FALSE, earlier |-> TRUE, reused |-> FALSE,
          late |-> FALSE, status |-> FALSE, dictated |-> FALSE]

\* A page without signals behind a status line, one with a marker, a reused row
\* with a stop control, and a dictated reply in a row that gets its identity late.
AllSites ==
    {[Plain EXCEPT !.status = TRUE, !.earlier = FALSE],
     [Plain EXCEPT !.marker = TRUE],
     [Plain EXCEPT !.control = TRUE, !.reused = TRUE],
     [Plain EXCEPT !.earlier = FALSE, !.late = TRUE, !.dictated = TRUE, !.marker = TRUE, !.control = TRUE]}
=============================================================================
