------------------------- MODULE RequestIdempotency -------------------------
(***************************************************************************)
(* Requests to /v1/chat/completions that carry the same Idempotency-Key    *)
(* (src/server/api_server.py): the record of the key in IDEMPOTENCY, the   *)
(* request that owns it and submits the browser job, the requests that     *)
(* join it, the handler of /browser/result, which completes the key too,   *)
(* and a restart of the server between any two of their steps.             *)
(*                                                                         *)
(* A request with another key shares nothing with these but the lock, so   *)
(* that one key is enough; all its requests arrive within IDEMPOTENCY_TTL. *)
(* A response is known by the job it was built from, and the job by the    *)
(* request that submitted it.  What moves the job is JobCoordinator; here  *)
(* it is active or has ended, which is all its requesters can tell.        *)
(***************************************************************************)
EXTENDS FiniteSets

CONSTANTS
    Request,   \* requests, each served by a thread of its own
    Fingerprint,     \* request fingerprints
    FingerprintOf,   \* request_fingerprint of each request
    Streaming, \* the requests that ask for a stream
    NoJob, NoRecord

ASSUME FingerprintAssumption == FingerprintOf \in [Request -> Fingerprint]
ASSUME StreamingAssumption == Streaming \subseteq Request

VARIABLES
    record,  \* IDEMPOTENCY[key]
    job,     \* the browser job each request has submitted, if any
    pc,      \* where the thread of each request stands, or how it answered
    reply,   \* the job whose response a request was answered with
    posting  \* jobs a /browser/result has finished and whose key it will complete

vars == <<record, job, pc, reply, posting>>

Record ==
    [print: Fingerprint, status: {"processing", "completed", "failed"},
     job: Request \cup {NoJob}, response: Request \cup {NoJob}, event: BOOLEAN]

ASSUME NullAssumption == NoJob \notin Request /\ NoRecord \notin Record

\* listed: the job's event is in BROWSER_EVENTS, not set yet.
Job == [status: {"none", "active", "completed", "failed"}, listed: BOOLEAN,
        due: {"ahead", "past"}]

Serving == {"claimed", "submitted", "bound", "waiting", "streaming", "gaveup",
            "joined", "parked"}
Answered == {"ok", "error", "timeout", "conflict"}
Cut == {"hungup", "lost"}

TypeOK ==
    /\ record \in Record \cup {NoRecord}
    /\ job \in [Request -> Job]
    /\ pc \in [Request -> {"unsent"} \cup Serving \cup Answered \cup Cut]
    /\ reply \in [Request -> Request \cup {NoJob}]
    /\ posting \subseteq Request

Unsubmitted == [status |-> "none", listed |-> FALSE, due |-> "ahead"]
SubmittedJob == [status |-> "active", listed |-> TRUE, due |-> "ahead"]

Init ==
    /\ record = NoRecord
    /\ job = [r \in Request |-> Unsubmitted]
    /\ pc = [r \in Request |-> "unsent"]
    /\ reply = [r \in Request |-> NoJob]
    /\ posting = {}

Goes(r, there) == pc' = [pc EXCEPT ![r] = there]

Ended(b) == b.status \in {"completed", "failed"}

Settled(k) == k # NoRecord /\ k.status \in {"completed", "failed"}

-----------------------------------------------------------------------------
(* The record of the key.                                                  *)

\* Mutant: a request with another body joins.
AnyRequest(r) == TRUE

SameRequest(r) == record.print = FingerprintOf[r]

\* Mutant: a key that failed may be tried again.
ReopenedKey(k) == k = NoRecord \/ k.status = "failed"

\* claim_idempotency makes the caller the owner.
Unclaimed(k) == k = NoRecord

CompletedKey(k, j) == [k EXCEPT !.status = "completed", !.response = j, !.event = TRUE]

\* Mutant: the failure is not terminal.
RetriableKey(k) == [k EXCEPT !.status = "processing"]

FailedKey(k) == [k EXCEPT !.status = "failed", !.event = TRUE]

\* _fail_browser_job_due_to_request_deadline_locked, on the key of the job.
DeadlinedKey(k) == IF Settled(k) THEN k ELSE FailedKey(k)

-----------------------------------------------------------------------------
(* Requests.                                                               *)

\* claim_idempotency.
Receive(r) ==
    /\ pc[r] = "unsent"
    /\ IF Unclaimed(record)
       THEN /\ record' = [print |-> FingerprintOf[r], status |-> "processing",
                          job |-> NoJob, response |-> NoJob, event |-> FALSE]
            /\ Goes(r, "claimed")
       ELSE /\ Goes(r, IF SameRequest(r) THEN "joined" ELSE "conflict")
            /\ UNCHANGED record
    /\ UNCHANGED <<job, reply, posting>>

\* new_browser_job.
Submit(r) ==
    /\ pc[r] = "claimed"
    /\ job' = [job EXCEPT ![r] = SubmittedJob]
    /\ Goes(r, "submitted")
    /\ UNCHANGED <<record, reply, posting>>

\* bind_idempotency_job.
Bind(r) ==
    /\ pc[r] = "submitted"
    /\ record' = [record EXCEPT !.job = r]
    /\ Goes(r, "bound")
    /\ UNCHANGED <<job, reply, posting>>

\* After activate_browser_for_job: iter_live_browser_sse, or the event of the
\* job.  A job that has ended has no event any more, and that is a timeout.
Listen(r) ==
    /\ pc[r] = "bound"
    /\ Goes(r, IF r \in Streaming THEN "streaming"
               ELSE IF job[r].listed THEN "waiting"
               ELSE "gaveup")
    /\ UNCHANGED <<record, job, reply, posting>>

\* The wait found the event set, or the stream found the job ended.
OwnerAnswers(r) ==
    /\ \/ pc[r] = "waiting" /\ ~job[r].listed
       \/ pc[r] = "streaming" /\ Ended(job[r])
    /\ IF job[r].status = "completed"
       THEN /\ record' = CompletedKey(record, r)
            /\ reply' = [reply EXCEPT ![r] = r]
            /\ Goes(r, "ok")
       ELSE /\ record' = FailedKey(record)
            /\ Goes(r, "error")
            /\ UNCHANGED reply
    /\ UNCHANGED <<job, posting>>

\* Mutant: a job that has ended is not given up.
GiveUpActive(r) == job[r].status = "active" /\ job[r].due = "past"

\* The wait of the thread ends without the event.  A stream reads the job
\* before the clock, and goes by what the job was then.
WaitIsOver(r) == job[r].due = "past" /\ (pc[r] = "waiting" => job[r].listed)

\* finish_browser_job(jid, "failed", error="browser_timeout"), which leaves a
\* completed job alone.
OwnerGivesUp(r) ==
    /\ pc[r] \in {"waiting", "streaming"}
    /\ WaitIsOver(r)
    /\ IF job[r].status = "completed"
       THEN UNCHANGED job
       ELSE job' = [job EXCEPT ![r] = [@ EXCEPT !.status = "failed", !.listed = FALSE]]
    /\ Goes(r, "gaveup")
    /\ UNCHANGED <<record, reply, posting>>

OwnerTimesOut(r) ==
    /\ pc[r] = "gaveup"
    /\ record' = FailedKey(record)
    /\ Goes(r, "timeout")
    /\ UNCHANGED <<job, reply, posting>>

\* The caller of a stream goes away, and its generator is closed.
HangUp(r) ==
    /\ pc[r] = "streaming"
    /\ Goes(r, "hungup")
    /\ UNCHANGED <<record, job, reply, posting>>

\* A request that joined is answered at once if the key is settled, or waits.
Join(r) ==
    /\ pc[r] = "joined"
    /\ IF record.status = "completed"
       THEN reply' = [reply EXCEPT ![r] = record.response] /\ Goes(r, "ok")
       ELSE Goes(r, IF record.status = "failed" THEN "error" ELSE "parked") /\ UNCHANGED reply
    /\ UNCHANGED <<record, job, posting>>

Unpark(r) ==
    /\ pc[r] = "parked"
    /\ record.event
    /\ reply' = [reply EXCEPT ![r] = record.response]
    /\ Goes(r, IF record.response = NoJob THEN "error" ELSE "ok")
    /\ UNCHANGED <<record, job, posting>>

ParkTimeout(r) ==
    /\ pc[r] = "parked"
    /\ ~record.event
    /\ Goes(r, "timeout")
    /\ UNCHANGED <<record, job, reply, posting>>

-----------------------------------------------------------------------------
(* The job of request r.                                                   *)

\* browser_result finishes the job and lets the lock go before it completes
\* the key.
ResultFinishes(r) ==
    /\ job[r].status = "active"
    /\ job[r].due = "ahead"
    /\ job' = [job EXCEPT ![r] = [@ EXCEPT !.status = "completed", !.listed = FALSE]]
    /\ posting' = posting \cup {r}
    /\ UNCHANGED <<record, pc, reply>>

ResultCompletesKey(r) ==
    /\ r \in posting
    /\ record' = CompletedKey(record, r)
    /\ posting' = posting \ {r}
    /\ UNCHANGED <<job, pc, reply>>

\* A failed result, a reset, a tab that left its site, a job queued for too
\* long: the event is set and the key is left alone.  Giving up after the last
\* claim does not even set the event.
JobFails(r) ==
    /\ job[r].status = "active"
    /\ \E exhausted \in BOOLEAN :
          job' = [job EXCEPT ![r] = [@ EXCEPT !.status = "failed", !.listed = exhausted]]
    /\ UNCHANGED <<record, pc, reply, posting>>

\* _fail_browser_job_due_to_request_deadline_locked.
JobTimesOut(r) ==
    /\ job[r].status = "active"
    /\ job[r].due = "past"
    /\ job' = [job EXCEPT ![r] = [@ EXCEPT !.status = "failed", !.listed = FALSE]]
    /\ record' = DeadlinedKey(record)
    /\ UNCHANGED <<pc, reply, posting>>

DeadlinePasses(r) ==
    /\ job[r].status # "none"
    /\ job[r].due = "ahead"
    /\ job' = [job EXCEPT ![r].due = "past"]
    /\ UNCHANGED <<record, pc, reply, posting>>

-----------------------------------------------------------------------------
(* The server process dies, its threads with it, and restore_browser_state *)
(* loads the snapshot.                                                     *)

\* Mutant: a status outside the lifecycle of a job.
Interrupted(b) ==
    [b EXCEPT !.status = IF @ = "active" THEN "interrupted" ELSE @, !.listed = FALSE]

Restored(b) ==
    [b EXCEPT !.status = IF @ = "active" THEN "failed" ELSE @, !.listed = FALSE]

\* The job of a record that was still processing: the one bound to it, or the
\* one job whose request names the key.
JobOf(k) ==
    LET submitted == {r \in Request : job[r].status # "none"}
    IN  IF k.job # NoJob THEN k.job
        ELSE IF Cardinality(submitted) = 1 THEN CHOOSE r \in submitted : TRUE
        ELSE NoJob

RestoredKey(k) ==
    IF k = NoRecord \/ Settled(k) THEN k
    ELSE IF JobOf(k) = NoJob THEN NoRecord
    ELSE FailedKey([k EXCEPT !.job = JobOf(k)])

RestoreBrowserState ==
    /\ job' = [r \in Request |-> Restored(job[r])]
    /\ record' = RestoredKey(record)
    /\ pc' = [r \in Request |-> IF pc[r] \in Serving THEN "lost" ELSE pc[r]]
    /\ posting' = {}
    /\ UNCHANGED reply

-----------------------------------------------------------------------------
Thread(r) ==
    \/ Submit(r)
    \/ Bind(r)
    \/ Listen(r)
    \/ OwnerAnswers(r)
    \/ OwnerGivesUp(r)
    \/ OwnerTimesOut(r)
    \/ Join(r)
    \/ Unpark(r)
    \/ ParkTimeout(r)

Browser(r) == ResultFinishes(r) \/ JobFails(r)

Next ==
    \/ \E r \in Request :
          \/ Receive(r)
          \/ Thread(r)
          \/ HangUp(r)
          \/ Browser(r)
          \/ ResultCompletesKey(r)
          \/ JobTimesOut(r)
          \/ DeadlinePasses(r)
    \/ RestoreBrowserState

Spec == Init /\ [][Next]_vars

-----------------------------------------------------------------------------
(* Safety.                                                                 *)

\* One key submits one job, however its requests, a timeout of its owner and
\* restarts of the server interleave.
OneJobPerKey ==
    \A r, s \in Request : job[r].status # "none" /\ job[s].status # "none" => r = s

\* A success is never made up: whoever is answered with a response gets that of
\* a completed job that was submitted for the same body.
AnswersAreGenuine ==
    \A r \in Request :
        pc[r] = "ok" => /\ reply[r] \in Request
                        /\ job[reply[r]].status = "completed"
                        /\ FingerprintOf[reply[r]] = FingerprintOf[r]

StaysSettled == Settled(record) => Settled(record')

\* A key that was settled is never processing again, nor forgotten, so that a
\* later request never waits for it and never submits.
SettledForGood == [][StaysSettled]_vars

(* Liveness.                                                               *)

\* Threads run, time passes, and the reaper thread fails overdue jobs.
Fairness ==
    \A r \in Request :
        /\ WF_vars(Thread(r))
        /\ WF_vars(ResultCompletesKey(r))
        /\ WF_vars(JobTimesOut(r))
        /\ WF_vars(DeadlinePasses(r))

FairSpec == Spec /\ Fairness

\* Every request is answered, unless its caller or the server goes away.
EveryRequestAnswered ==
    \A r \in Request : (pc[r] # "unsent") ~> (pc[r] \in Answered \cup Cut)

\* A key does not stay processing, unless the caller of its stream hung up.
KeysSettle ==
    (record # NoRecord) ~> \/ record = NoRecord
                           \/ Settled(record)
                           \/ \E r \in Request : pc[r] = "hungup"
=============================================================================
