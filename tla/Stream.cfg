\* Two pages, with answers of three letters and of one.
CONSTANTS
    p1 = p1
    p2 = p2
    Page = {p1, p2}
    Letters <- MCLetters
    Blank = "-"
    MaxEvents = 2
    MaxInFlight = 2
SPECIFICATION Spec
INVARIANTS TypeOK StreamIsAnswer NothingIsLost
\* The stream ends.
CHECK_DEADLOCK FALSE
