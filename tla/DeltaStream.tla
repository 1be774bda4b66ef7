----------------------------- MODULE DeltaStream -----------------------------
(***************************************************************************)
(* The live stream of one job: the page observes its answer and relays     *)
(* every change as a whole snapshot (src/extension/content.js and          *)
(* response_observation.js), the service worker posts each without waiting *)
(* for the one before, append_browser_delta records it in BROWSER_DELTAS,  *)
(* and the generator of iter_live_browser_sse turns the records into       *)
(* suffixes for the caller (src/server/api_server.py).                     *)
(*                                                                         *)
(* A text is a sequence of letters and blanks.  A page shows a prefix of   *)
(* its answer, laid out with blanks or without; a page may lay out anew    *)
(* what it shows, and show less of it again, but not both at once.         *)
(***************************************************************************)
EXTENDS Naturals, FiniteSets, SequencesExt

CONSTANTS
    Page,     \* the pages that claim the job, each at most once
    Letters,  \* the answer each page is given
    Blank,
    MaxEvents, \* the deltas that are kept, 500
    MaxInFlight \* bound: snapshots on their way at a time

ASSUME LettersAssumption ==
    /\ \A p \in Page : /\ Letters[p] \in Seq(Range(Letters[p])) /\ Len(Letters[p]) > 0
                       /\ Blank \notin Range(Letters[p])
    /\ MaxEvents \in Nat \ {0} /\ MaxInFlight \in Nat \ {0}

VARIABLES
    page,     \* what each page last relayed: how much, how laid out, and how many times
    wire,     \* snapshots on their way to the server
    status,   \* of the job
    owner,    \* the page that claimed the job last
    claims,   \* the pages that have claimed it
    snapshot, \* job["stream_snapshot"]
    events,   \* the texts in BROWSER_DELTAS[job]
    result,   \* the answer in job["result"]
    reader,   \* where the generator stands
    index,    \* its event_index
    seen,     \* its emitted_snapshot
    emitted,  \* all it has yielded to the caller
    newest,   \* the number of the newest snapshot that has come
    disorder  \* one has come after a newer one

serverVars == <<snapshot, events, result, newest, disorder>>
readerVars == <<index, seen, emitted>>
vars == <<page, wire, status, owner, claims, serverVars, reader, readerVars>>

-----------------------------------------------------------------------------
(* Texts.                                                                  *)

Compact(text) ==
    LET kept[n \in 0..Len(text)] ==
            IF n = 0 THEN <<>>
            ELSE IF text[n] = Blank THEN kept[n - 1] ELSE Append(kept[n - 1], text[n])
    IN  kept[Len(text)]

\* normalize_stream_snapshot, which strips the text as a whole: its line breaks
\* are the two characters of an escape, so that it sees a single line.
Normalized(text) ==
    LET kept == {i \in DOMAIN text : text[i] # Blank}
    IN  IF kept = {} THEN <<>> ELSE SubSeq(text, Min(kept), Max(kept))

\* Of the text, what comes after its first n letters.
AfterLetters(text, n) ==
    SubSeq(text, 1 + Min({i \in DOMAIN text : Len(Compact(SubSeq(text, 1, i))) = n}), Len(text))

\* stream_snapshot_delta.
Delta(previous, incoming) ==
    IF IsPrefix(incoming, previous) THEN <<>>
    ELSE IF IsPrefix(previous, incoming) THEN SubSeq(incoming, Len(previous) + 1, Len(incoming))
    ELSE IF Compact(previous) # <<>> /\ IsPrefix(Compact(previous), Compact(incoming))
    THEN LET suffix == AfterLetters(incoming, Len(Compact(previous)))
         IN  IF Compact(suffix) = <<>> THEN <<>> ELSE suffix
    ELSE LET overlaps == {n \in 0..Min({Len(previous), Len(incoming)}) :
                             SubSeq(previous, Len(previous) - n + 1, Len(previous)) = SubSeq(incoming, 1, n)}
         IN  SubSeq(incoming, Max(overlaps) + 1, Len(incoming))

\* Before the answer there is a line of status, which normalises to nothing.
Shown(p, upto, wide) ==
    LET letters == SubSeq(Letters[p], 1, upto)
    IN  IF upto = 0 THEN <<Blank>>
        ELSE IF wide THEN [i \in 1..(2 * upto) |-> IF i % 2 = 1 THEN letters[(i + 1) \div 2] ELSE Blank]
        ELSE letters

Relayed(p) == Shown(p, page[p].upto, page[p].wide)

-----------------------------------------------------------------------------
Init ==
    /\ page = [p \in Page |-> [upto |-> 0, wide |-> FALSE, sent |-> 0]]
    /\ wire = {}
    /\ status = "queued"
    /\ owner \in Page
    /\ claims = {}
    /\ snapshot = <<>> /\ events = <<>> /\ result = <<>>
    /\ newest = 0 /\ disorder = FALSE
    /\ reader = "open"
    /\ index = 0 /\ seen = <<>> /\ emitted = <<>>

(* The job.                                                                *)

Claim(p) ==
    /\ status = "queued"
    /\ p \notin claims
    /\ status' = "claimed"
    /\ owner' = p
    /\ claims' = claims \cup {p}
    /\ UNCHANGED <<page, wire, serverVars, reader, readerVars>>

\* Neither the snapshot nor the deltas are cleared.
Requeue ==
    /\ status = "claimed"
    /\ status' = "queued"
    /\ UNCHANGED <<page, wire, owner, claims, serverVars, reader, readerVars>>

Fail ==
    /\ status \in {"queued", "claimed"}
    /\ status' = "failed"
    /\ UNCHANGED <<page, wire, owner, claims, serverVars, reader, readerVars>>

(* The page and its snapshots.                                             *)

\* Mutant: what the page shows is relayed as it is.
NeverRegressed(before, now) == FALSE

\* observeCompletion: a projection that shows less of the same text.
Regressed(before, now) == Len(now) < Len(before) /\ IsPrefix(now, before)

Observe(p) ==
    /\ p \in claims
    /\ Cardinality(wire) < MaxInFlight
    /\ \E upto \in 0..Len(Letters[p]), wide \in BOOLEAN :
          /\ upto = 0 => page[p].sent = 0
          /\ wide # page[p].wide => wide /\ upto >= page[p].upto
          /\ Shown(p, upto, wide) # Relayed(p) \/ page[p].sent = 0
          /\ ~Regressed(Normalized(Relayed(p)), Normalized(Shown(p, upto, wide)))
          /\ LET n == page[p].sent + 1
             IN  /\ page' = [page EXCEPT ![p] = [upto |-> upto, wide |-> wide, sent |-> n]]
                 /\ wire' = wire \cup {[page |-> p, number |-> n, text |-> Shown(p, upto, wide)]}
    /\ UNCHANGED <<status, owner, claims, serverVars, reader, readerVars>>

\* The post fails, or the server refuses it, as it does what no claim of its
\* page covers.
SnapshotLost(s) ==
    /\ wire' = wire \ {s}
    /\ UNCHANGED <<page, status, owner, claims, serverVars, reader, readerVars>>

\* Mutant: the list grows without bound.
Untrimmed(list) == list

\* del events[:-500]
Trimmed(list) == IF Len(list) > MaxEvents THEN Tail(list) ELSE list

Recorded(text) ==
    \/ events = <<>>
    \/ Delta(snapshot, text) # <<>>
    \/ Len(text) > Len(snapshot)

SnapshotArrives(s) ==
    /\ status = "claimed" /\ owner = s.page
    /\ wire' = wire \ {s}
    /\ IF s.number > newest
       THEN newest' = s.number /\ UNCHANGED disorder
       ELSE disorder' = TRUE /\ UNCHANGED newest
    /\ LET text == Normalized(s.text)
       IN  IF text = <<>>
           THEN UNCHANGED <<snapshot, events>>
           ELSE /\ snapshot' = text
                /\ events' = IF Recorded(text) THEN Trimmed(Append(events, text)) ELSE events
    /\ UNCHANGED <<page, status, owner, claims, result, reader, readerVars>>

\* browser_result of the page's last snapshot, which it takes for complete.
ResultArrives ==
    /\ status = "claimed"
    /\ page[owner].upto > 0
    /\ status' = "completed"
    /\ result' = Relayed(owner)
    /\ UNCHANGED <<page, wire, owner, claims, snapshot, events, newest, disorder, reader, readerVars>>

-----------------------------------------------------------------------------
(* The generator.                                                          *)

MayYield == status # "failed"

ReaderTakes ==
    /\ reader = "open"
    /\ MayYield /\ index < Len(events)
    /\ index' = index + 1
    /\ emitted' = emitted \o Delta(seen, events[index + 1])
    /\ seen' = events[index + 1]
    /\ UNCHANGED <<page, wire, status, owner, claims, serverVars, reader>>

NothingToTake == reader = "open" /\ ~(MayYield /\ index < Len(events))

ReaderSleeps ==
    /\ NothingToTake
    /\ status \in {"queued", "claimed"}
    /\ reader' = "asleep"
    /\ UNCHANGED <<page, wire, status, owner, claims, serverVars, readerVars>>

ReaderWakes ==
    /\ reader = "asleep"
    /\ reader' = "open"
    /\ UNCHANGED <<page, wire, status, owner, claims, serverVars, readerVars>>

\* Its deadline has passed since it found nothing.
ReaderTimesOut ==
    /\ reader = "asleep"
    /\ reader' = "broken"
    /\ status' = IF status \in {"queued", "claimed"} THEN "failed" ELSE status
    /\ UNCHANGED <<page, wire, owner, claims, serverVars, readerVars>>

\* Mutant: the rest is reckoned from what the server has, not from what was
\* yielded.
RestOfSnapshot == Delta(snapshot, Normalized(result))

Rest == Delta(seen, Normalized(result))

ReaderCompletes ==
    /\ NothingToTake
    /\ status = "completed"
    /\ emitted' = emitted \o Rest
    /\ reader' = "done"
    /\ UNCHANGED <<page, wire, status, owner, claims, serverVars, index, seen>>

ReaderBreaks ==
    /\ NothingToTake
    /\ status = "failed"
    /\ reader' = "broken"
    /\ UNCHANGED <<page, wire, status, owner, claims, serverVars, readerVars>>

-----------------------------------------------------------------------------
Next ==
    \/ \E p \in Page : Claim(p) \/ Observe(p)
    \/ Requeue
    \/ Fail
    \/ \E s \in wire : SnapshotLost(s) \/ SnapshotArrives(s)
    \/ ResultArrives
    \/ ReaderTakes
    \/ ReaderSleeps
    \/ ReaderWakes
    \/ ReaderTimesOut
    \/ ReaderCompletes
    \/ ReaderBreaks

Spec == Init /\ [][Next]_vars

-----------------------------------------------------------------------------
\* Texts and counts are of the right kind, and the list of deltas stays within
\* its bound.
TypeOK ==
    /\ \A p \in Page : page[p].upto \in 0..Len(Letters[p]) /\ page[p].wide \in BOOLEAN /\ page[p].sent \in Nat
    /\ \A s \in wire : s.page \in claims /\ s.number \in 1..page[s.page].sent
    /\ status \in {"queued", "claimed", "completed", "failed"}
    /\ owner \in Page /\ claims \subseteq Page
    /\ Len(events) <= MaxEvents
    /\ index \in Nat
    /\ reader \in {"open", "asleep", "done", "broken"}
    /\ newest \in Nat /\ disorder \in BOOLEAN

\* Part(s, t): the letters of s are among those of t, in their order.
Part(s, t) ==
    \E at \in [DOMAIN s -> DOMAIN t] :
        /\ \A i, j \in DOMAIN s : i < j => at[i] < at[j]
        /\ \A i \in DOMAIN s : s[i] = t[at[i]]

\* What the caller has put together is the beginning of the answer and in the
\* end all of it, however the answer is laid out anew, posts are lost and deltas
\* trimmed, as long as one page answers and its posts come in order.
StreamIsAnswer ==
    Cardinality(claims) = 1 /\ ~disorder =>
        /\ IsPrefix(Compact(emitted), Letters[owner])
        /\ reader = "done" => Compact(emitted) = Compact(result)

\* Nothing of the answer is missing from a stream that ends well, in whatever
\* order the posts came and however many pages answered.
NothingIsLost == reader = "done" => Part(Compact(result), Compact(emitted))
=============================================================================
