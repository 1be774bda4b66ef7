---------------------- MODULE RequestIdempotencyProofs ----------------------
(***************************************************************************)
(* Theorems about RequestIdempotency.  OneJobPerKey is not inductive: that *)
(* nobody submits a second job rests on who may be the owner of the key,   *)
(* and after a restart on the record being kept whenever there is a job.   *)
(* KeyInv says both, and what the record knows of the job's outcome.       *)
(***************************************************************************)
EXTENDS RequestIdempotency, FiniteSetTheorems, TLAPS

\* A request whose thread has submitted its job and not answered yet.
Owning == {"submitted", "bound", "waiting", "streaming", "gaveup"}

Submitted(r) == job[r].status # "none"

\* The record stands for every job and every thread that uses it.
RecordKept ==
    /\ \A r \in Request : Submitted(r) => record # NoRecord /\ record.print = FingerprintOf[r]
    /\ \A r \in Request : pc[r] \in Serving => record # NoRecord /\ record.print = FingerprintOf[r]

\* An owner without a job is the only one, and there is no job yet.
OwnerAlone ==
    \A r \in Request : pc[r] = "claimed" =>
        \A s \in Request : ~Submitted(s) /\ (pc[s] = "claimed" => s = r)

OwnersSubmitted == \A r \in Request : pc[r] \in Owning => Submitted(r)

\* What the record and the result handlers know of the job is so.
OutcomeKnown ==
    /\ record # NoRecord => /\ record.job # NoJob => Submitted(record.job)
                            /\ record.response # NoJob =>
                                  job[record.response].status = "completed"
                            /\ record.status = "completed" => record.response # NoJob
    /\ \A r \in posting : job[r].status = "completed"
    /\ \A r \in Request : job[r].listed => job[r].status # "completed"

KeyInv ==
    /\ TypeOK
    /\ RecordKept
    /\ OwnerAlone
    /\ OwnersSubmitted
    /\ OneJobPerKey
    /\ OutcomeKnown
    /\ AnswersAreGenuine

-----------------------------------------------------------------------------
LEMMA InitKey == Init => KeyInv
  BY FingerprintAssumption
  DEF Init, KeyInv, TypeOK, Job, Unsubmitted, RecordKept, OwnerAlone, OwnersSubmitted,
      OneJobPerKey, OutcomeKnown, AnswersAreGenuine, Submitted, Owning, Serving

\* What completing and failing a record leaves of it.
LEMMA SettledRecord ==
    ASSUME NEW k \in Record, NEW j \in Request
    PROVE  /\ CompletedKey(k, j) \in Record
           /\ CompletedKey(k, j).print = k.print
           /\ CompletedKey(k, j).job = k.job
           /\ CompletedKey(k, j).response = j
           /\ CompletedKey(k, j).status = "completed"
           /\ FailedKey(k) \in Record
           /\ FailedKey(k).print = k.print
           /\ FailedKey(k).job = k.job
           /\ FailedKey(k).response = k.response
           /\ FailedKey(k).status = "failed"
<1>1. CompletedKey(k, j) \in Record
  BY DEF Record, CompletedKey
<1>2. FailedKey(k) \in Record
  BY DEF Record, FailedKey
<1>3. /\ CompletedKey(k, j).print = k.print
      /\ CompletedKey(k, j).job = k.job
      /\ CompletedKey(k, j).response = j
      /\ CompletedKey(k, j).status = "completed"
  BY DEF Record, CompletedKey
<1>4. /\ FailedKey(k).print = k.print
      /\ FailedKey(k).job = k.job
      /\ FailedKey(k).response = k.response
      /\ FailedKey(k).status = "failed"
  BY DEF Record, FailedKey
<1> QED
  BY <1>1, <1>2, <1>3, <1>4

LEMMA ReceiveStep == ASSUME KeyInv, NEW r \in Request, Receive(r) PROVE KeyInv'
<1> USE DEF KeyInv
<1>1. UNCHANGED <<job, reply, posting>>
  BY DEF Receive
<1>2. CASE Unclaimed(record)
  <2> DEFINE new == [print |-> FingerprintOf[r], status |-> "processing",
                     job |-> NoJob, response |-> NoJob, event |-> FALSE]
  <2>1. record' = new /\ pc' = [pc EXCEPT ![r] = "claimed"]
    BY <1>2 DEF Receive, Goes
  <2>2. record = NoRecord
    BY <1>2 DEF Unclaimed
  <2>3. \A s \in Request : ~Submitted(s) /\ pc[s] \notin Serving
    BY <2>2 DEF RecordKept
  <2>4. new \in Record
    BY FingerprintAssumption DEF Record
  <2>5. record' # NoRecord
    BY <2>1, <2>4, NullAssumption
  <2>6. TypeOK'
    BY <1>1, <2>1, <2>4 DEF TypeOK, Serving
  <2>7. \A s \in Request : pc'[s] = IF s = r THEN "claimed" ELSE pc[s]
    BY <2>1 DEF TypeOK
  <2>8. RecordKept'
    BY <1>1, <2>1, <2>3, <2>5, <2>7 DEF RecordKept, Submitted
  <2>9. OwnerAlone' /\ OwnersSubmitted'
    BY <1>1, <2>3, <2>7 DEF OwnerAlone, OwnersSubmitted, Submitted, Owning, Serving
  <2>10. OutcomeKnown'
    BY <1>1, <2>1 DEF OutcomeKnown
  <2> QED
    BY <1>1, <2>6, <2>7, <2>8, <2>9, <2>10 DEF OneJobPerKey, AnswersAreGenuine
<1>3. CASE ~Unclaimed(record)
  <2>1. record # NoRecord /\ UNCHANGED record
    BY <1>3 DEF Unclaimed, Receive
  <2>2. \/ pc' = [pc EXCEPT ![r] = "joined"] /\ record.print = FingerprintOf[r]
        \/ pc' = [pc EXCEPT ![r] = "conflict"]
    BY <1>3 DEF Receive, Goes, SameRequest
  <2>3. TypeOK'
    BY <1>1, <2>1, <2>2 DEF TypeOK, Serving, Answered
  <2>4. \A s \in Request : s # r => pc'[s] = pc[s]
    BY <2>2 DEF TypeOK
  <2>5. (pc'[r] = "joined" /\ record.print = FingerprintOf[r]) \/ pc'[r] = "conflict"
    BY <2>2 DEF TypeOK
  <2>6. RecordKept'
    BY <1>1, <2>1, <2>4, <2>5 DEF RecordKept, Submitted, Serving
  <2>7. OwnerAlone' /\ OwnersSubmitted'
    BY <1>1, <2>4, <2>5 DEF OwnerAlone, OwnersSubmitted, Submitted, Owning
  <2>8. OneJobPerKey'
    BY <1>1 DEF OneJobPerKey
  <2>9. OutcomeKnown'
    BY <1>1, <2>1, Zenon DEF OutcomeKnown, Submitted
  <2>10. AnswersAreGenuine'
    BY <1>1, <2>4, <2>5 DEF AnswersAreGenuine
  <2> QED
    BY <2>3, <2>6, <2>7, <2>8, <2>9, <2>10
<1> QED
  BY <1>2, <1>3

LEMMA SubmitStep == ASSUME KeyInv, NEW r \in Request, Submit(r) PROVE KeyInv'
<1> USE DEF KeyInv
<1>1. pc[r] = "claimed" /\ UNCHANGED <<record, reply, posting>>
  BY DEF Submit
<1>2. job' = [job EXCEPT ![r] = SubmittedJob] /\ pc' = [pc EXCEPT ![r] = "submitted"]
  BY Zenon DEF Submit, Goes, SubmittedJob
<1>3. \A s \in Request : ~Submitted(s) /\ (s # r => pc[s] # "claimed")
  BY <1>1 DEF OwnerAlone
<1>4. SubmittedJob \in Job /\ SubmittedJob.status = "active"
  BY DEF Job, SubmittedJob
<1>5. TypeOK'
  BY <1>1, <1>2, <1>4 DEF TypeOK, Serving
<1>6. \A s \in Request : /\ pc'[s] = IF s = r THEN "submitted" ELSE pc[s]
                         /\ job'[s] = IF s = r THEN SubmittedJob ELSE job[s]
  BY <1>2 DEF TypeOK
<1>7. \A s \in Request : Submitted(s)' <=> s = r
  BY <1>3, <1>4, <1>6 DEF Submitted
<1>8. RecordKept'
  BY <1>1, <1>6, <1>7 DEF RecordKept, Serving
<1>9. OwnerAlone' /\ OwnersSubmitted'
  BY <1>3, <1>6, <1>7 DEF OwnerAlone, OwnersSubmitted, Submitted, Owning
<1>10. OneJobPerKey'
  BY <1>7 DEF OneJobPerKey, Submitted
<1>11. \A s \in Request : job[s].status # "completed"
  BY <1>3 DEF Submitted
<1>12. OutcomeKnown'
  BY <1>1, <1>3, <1>4, <1>6, <1>11 DEF OutcomeKnown, TypeOK, Record, Submitted
<1>13. AnswersAreGenuine'
  BY <1>1, <1>6, <1>11 DEF AnswersAreGenuine
<1> QED
  BY <1>5, <1>8, <1>9, <1>10, <1>12, <1>13

\* A step that neither claims the key nor submits, and keeps the fingerprint of
\* the record, leaves the ownership of the key as it was.
LEMMA OwnershipKept ==
    ASSUME KeyInv,
           record # NoRecord => record' # NoRecord /\ record'.print = record.print,
           \A s \in Request : Submitted(s)' <=> Submitted(s),
           \A s \in Request :
              /\ pc'[s] = "claimed" => pc[s] = "claimed"
              /\ pc'[s] \in Owning => pc[s] \in Owning
              /\ pc'[s] \in Serving => pc[s] \in Serving
    PROVE  RecordKept' /\ OwnerAlone' /\ OwnersSubmitted' /\ OneJobPerKey'
<1> USE DEF KeyInv
<1>1. RecordKept'
  BY DEF RecordKept
<1>2. OwnerAlone' /\ OwnersSubmitted'
  BY DEF OwnerAlone, OwnersSubmitted
<1>3. OneJobPerKey'
  BY DEF OneJobPerKey, Submitted
<1> QED
  BY <1>1, <1>2, <1>3

\* The thread of r moves on, and no record or job changes.
LEMMA ThreadMoves ==
    ASSUME KeyInv, NEW r \in Request, UNCHANGED <<record, job, posting>>,
           NEW there \in (Serving \ {"claimed"}) \cup Answered \cup Cut,
           pc' = [pc EXCEPT ![r] = there],
           there \in Owning => pc[r] \in Owning,
           there \in Serving => pc[r] \in Serving,
           UNCHANGED reply \/ \E a \in Request \cup {NoJob} : reply' = [reply EXCEPT ![r] = a],
           there = "ok" => /\ reply'[r] \in Request
                           /\ job[reply'[r]].status = "completed"
                           /\ FingerprintOf[reply'[r]] = FingerprintOf[r],
           pc[r] # "ok"
    PROVE  KeyInv'
<1> USE DEF KeyInv
<1>1. \A s \in Request : pc'[s] = IF s = r THEN there ELSE pc[s]
  BY DEF TypeOK
<1>2. TypeOK'
  BY DEF TypeOK
<1>3. RecordKept' /\ OwnerAlone' /\ OwnersSubmitted' /\ OneJobPerKey'
  <2>1. \A s \in Request : /\ Submitted(s)' <=> Submitted(s)
                           /\ pc'[s] = "claimed" => pc[s] = "claimed"
                           /\ pc'[s] \in Owning => pc[s] \in Owning
                           /\ pc'[s] \in Serving => pc[s] \in Serving
    BY <1>1 DEF Submitted, Answered, Cut
  <2> QED
    BY <2>1, OwnershipKept
<1>4. OutcomeKnown'
  BY DEF OutcomeKnown, Submitted
<1>5. \A s \in Request : s # r => reply'[s] = reply[s]
  BY DEF TypeOK
<1>6. AnswersAreGenuine'
  BY <1>1, <1>5 DEF AnswersAreGenuine
<1> QED
  BY <1>2, <1>3, <1>4, <1>6

LEMMA BindStep == ASSUME KeyInv, NEW r \in Request, Bind(r) PROVE KeyInv'
<1> USE DEF KeyInv
<1>1. pc[r] = "submitted" /\ UNCHANGED <<job, reply, posting>>
  BY DEF Bind
<1>2. pc' = [pc EXCEPT ![r] = "bound"] /\ record' = [record EXCEPT !.job = r]
  BY DEF Bind, Goes
<1>3. record \in Record /\ record # NoRecord
  BY <1>1 DEF TypeOK, RecordKept, Serving
<1>4. record' \in Record
  BY <1>2, <1>3 DEF Record
<1>5. record' # NoRecord
  BY <1>4, NullAssumption
<1>6. /\ record'.print = record.print
      /\ record'.job = r
      /\ record'.response = record.response
      /\ record'.status = record.status
  BY <1>2, <1>3 DEF Record
<1>7. \A s \in Request : pc'[s] = IF s = r THEN "bound" ELSE pc[s]
  BY <1>2 DEF TypeOK
<1>8. TypeOK'
  BY <1>1, <1>2, <1>4 DEF TypeOK, Serving
<1>9. \A s \in Request : /\ Submitted(s)' <=> Submitted(s)
                         /\ pc'[s] = "claimed" => pc[s] = "claimed"
                         /\ pc'[s] \in Owning => pc[s] \in Owning
                         /\ pc'[s] \in Serving => pc[s] \in Serving
  BY <1>1, <1>7 DEF Submitted, Owning, Serving
<1>10. RecordKept' /\ OwnerAlone' /\ OwnersSubmitted' /\ OneJobPerKey'
  BY <1>5, <1>6, <1>9, OwnershipKept
<1>11. OutcomeKnown'
  <2>1. Submitted(r)
    BY <1>1 DEF OwnersSubmitted, Owning
  <2> QED
    BY <1>1, <1>3, <1>6, <2>1 DEF OutcomeKnown, Submitted
<1>12. AnswersAreGenuine'
  BY <1>1, <1>7 DEF AnswersAreGenuine
<1> QED
  BY <1>8, <1>10, <1>11, <1>12

LEMMA ListenStep == ASSUME KeyInv, NEW r \in Request, Listen(r) PROVE KeyInv'
<1>1. PICK there \in {"streaming", "waiting", "gaveup"} : pc' = [pc EXCEPT ![r] = there]
  BY DEF Listen, Goes
<1>2. pc[r] = "bound" /\ UNCHANGED <<record, job, reply, posting>>
  BY DEF Listen
<1> QED
  BY <1>1, <1>2, ThreadMoves DEF Owning, Serving

LEMMA HangUpStep == ASSUME KeyInv, NEW r \in Request, HangUp(r) PROVE KeyInv'
<1>1. pc' = [pc EXCEPT ![r] = "hungup"] /\ pc[r] = "streaming"
  BY DEF HangUp, Goes
<1>2. UNCHANGED <<record, job, reply, posting>>
  BY DEF HangUp
<1> QED
  BY <1>1, <1>2, ThreadMoves DEF Owning, Serving, Cut

\* A record is completed or failed by the thread of its owner or by a result,
\* and r alone may move.
LEMMA KeySettled ==
    ASSUME KeyInv, NEW r \in Request, record # NoRecord, UNCHANGED job,
           \/ record' = FailedKey(record)
           \/ record' = CompletedKey(record, r) /\ job[r].status = "completed",
           posting' \subseteq posting
    PROVE  /\ record' \in Record /\ record' # NoRecord
           /\ record'.print = record.print
           /\ OutcomeKnown'
<1> USE DEF KeyInv
<1>1. record \in Record
  BY DEF TypeOK
<1>2. CASE record' = FailedKey(record)
  <2>1. /\ record' \in Record
        /\ record'.print = record.print
        /\ record'.job = record.job
        /\ record'.response = record.response
        /\ record'.status = "failed"
    BY <1>1, <1>2, SettledRecord
  <2>2. OutcomeKnown'
    BY <2>1 DEF OutcomeKnown, Submitted
  <2> QED
    BY <2>1, <2>2, NullAssumption
<1>3. CASE record' = CompletedKey(record, r) /\ job[r].status = "completed"
  <2>1. /\ record' \in Record
        /\ record'.print = record.print
        /\ record'.job = record.job
        /\ record'.response = r
    BY <1>1, <1>3, SettledRecord
  <2>2. OutcomeKnown'
    BY <1>3, <2>1, NullAssumption DEF OutcomeKnown, Submitted
  <2> QED
    BY <2>1, <2>2, NullAssumption
<1> QED
  BY <1>2, <1>3

LEMMA OwnerStep ==
    ASSUME KeyInv, NEW r \in Request, OwnerAnswers(r) \/ OwnerTimesOut(r) PROVE KeyInv'
<1> USE DEF KeyInv
<1>1. pc[r] \in {"waiting", "streaming", "gaveup"} /\ UNCHANGED <<job, posting>>
  BY DEF OwnerAnswers, OwnerTimesOut
<1>2. PICK there \in {"ok", "error", "timeout"} : pc' = [pc EXCEPT ![r] = there]
  BY DEF OwnerAnswers, OwnerTimesOut, Goes
<1>3. \/ record' = FailedKey(record) /\ UNCHANGED reply /\ there # "ok"
      \/ /\ record' = CompletedKey(record, r)
         /\ job[r].status = "completed"
         /\ reply' = [reply EXCEPT ![r] = r]
  <2>1. pc'[r] = there
    BY <1>2 DEF TypeOK
  <2>2. CASE OwnerAnswers(r)
    BY <2>1, <2>2 DEF OwnerAnswers, Goes, TypeOK
  <2>3. CASE OwnerTimesOut(r)
    BY <2>1, <2>3 DEF OwnerTimesOut, Goes, TypeOK
  <2> QED
    BY <2>2, <2>3
<1>4. record # NoRecord
  BY <1>1 DEF RecordKept, Serving
<1>5. record' \in Record /\ record' # NoRecord /\ record'.print = record.print /\ OutcomeKnown'
  BY <1>1, <1>3, <1>4, KeySettled
<1>6. TypeOK'
  BY <1>1, <1>2, <1>3, <1>5 DEF TypeOK, Answered
<1>7. \A s \in Request : pc'[s] = IF s = r THEN there ELSE pc[s]
  BY <1>2 DEF TypeOK
<1>8. \A s \in Request : /\ Submitted(s)' <=> Submitted(s)
                         /\ pc'[s] = "claimed" => pc[s] = "claimed"
                         /\ pc'[s] \in Owning => pc[s] \in Owning
                         /\ pc'[s] \in Serving => pc[s] \in Serving
  BY <1>1, <1>7 DEF Submitted, Owning, Serving
<1>9. RecordKept' /\ OwnerAlone' /\ OwnersSubmitted' /\ OneJobPerKey'
  BY <1>5, <1>8, OwnershipKept
<1>10. \A s \in Request : s # r => reply'[s] = reply[s]
  BY <1>3 DEF TypeOK
<1>11. there = "ok" => reply'[r] = r /\ job[r].status = "completed"
  BY <1>3 DEF TypeOK
<1>12. AnswersAreGenuine'
  BY <1>1, <1>7, <1>10, <1>11 DEF AnswersAreGenuine
<1> QED
  BY <1>5, <1>6, <1>9, <1>12

LEMMA JoinerStep ==
    ASSUME KeyInv, NEW r \in Request, Join(r) \/ Unpark(r) \/ ParkTimeout(r) PROVE KeyInv'
<1> USE DEF KeyInv
<1>1. pc[r] \in {"joined", "parked"} /\ UNCHANGED <<record, job, posting>>
  BY DEF Join, Unpark, ParkTimeout
<1>2. record # NoRecord /\ record \in Record /\ record.print = FingerprintOf[r]
  BY <1>1 DEF RecordKept, Serving, TypeOK
<1>3. PICK there \in {"ok", "error", "timeout", "parked"} : pc' = [pc EXCEPT ![r] = there]
  BY DEF Join, Unpark, ParkTimeout, Goes
<1>4. \/ reply' = [reply EXCEPT ![r] = record.response]
      \/ UNCHANGED reply /\ there # "ok"
  <2>1. pc'[r] = there
    BY <1>3 DEF TypeOK
  <2> QED
    BY <2>1 DEF Join, Unpark, ParkTimeout, Goes, TypeOK
<1>5. there = "ok" => record.response # NoJob
  <2>1. pc'[r] = there
    BY <1>3 DEF TypeOK
  <2>2. CASE Join(r)
    BY <1>2, <2>1, <2>2 DEF Join, Goes, TypeOK, OutcomeKnown
  <2>3. CASE Unpark(r) \/ ParkTimeout(r)
    BY <2>1, <2>3 DEF Unpark, ParkTimeout, Goes, TypeOK
  <2> QED
    BY <2>2, <2>3
<1>6. record.response \in Request \cup {NoJob}
  BY <1>2 DEF Record
<1>7. record.response # NoJob => /\ job[record.response].status = "completed"
                                 /\ FingerprintOf[record.response] = FingerprintOf[r]
  BY <1>2, <1>6 DEF OutcomeKnown, RecordKept, Submitted
<1>8. there = "ok" => /\ reply'[r] \in Request
                      /\ job[reply'[r]].status = "completed"
                      /\ FingerprintOf[reply'[r]] = FingerprintOf[r]
  BY <1>4, <1>5, <1>6, <1>7 DEF TypeOK
<1>9. UNCHANGED reply \/ \E a \in Request \cup {NoJob} : reply' = [reply EXCEPT ![r] = a]
  BY <1>4, <1>6
<1> QED
  BY <1>1, <1>3, <1>8, <1>9, ThreadMoves DEF Owning, Serving, Answered

\* The job of r, once submitted, changes; a completed one stays completed.
LEMMA JobChanges ==
    ASSUME KeyInv, NEW r \in Request, Submitted(r), UNCHANGED reply,
           NEW b \in Job, job' = [job EXCEPT ![r] = b], b.status # "none",
           job[r].status = "completed" => b.status = "completed",
           b.listed => b.status # "completed",
           \/ UNCHANGED record
           \/ record' = FailedKey(record) /\ record # NoRecord,
           posting' \subseteq posting \/ (b.status = "completed" /\ posting' = posting \cup {r}),
           \/ UNCHANGED pc
           \/ pc' = [pc EXCEPT ![r] = "gaveup"] /\ pc[r] \in Owning
    PROVE  KeyInv'
<1> USE DEF KeyInv
<1>1. \A s \in Request : job'[s] = IF s = r THEN b ELSE job[s]
  BY DEF TypeOK
<1>2. \A s \in Request : Submitted(s)' <=> Submitted(s)
  BY <1>1 DEF Submitted
<1>3. \A s \in Request : job[s].status = "completed" => job'[s].status = "completed"
  BY <1>1
<1>4. record # NoRecord => /\ record' \in Record /\ record' # NoRecord
                           /\ record'.print = record.print
                           /\ record'.job = record.job
                           /\ record'.response = record.response
                           /\ record'.status = "completed" => record.status = "completed"
  <2>1. CASE UNCHANGED record
    BY <2>1 DEF TypeOK
  <2>2. CASE record' = FailedKey(record) /\ record # NoRecord
    <3>1. record \in Record
      BY <2>2 DEF TypeOK
    <3> QED
      BY <2>2, <3>1, SettledRecord, NullAssumption
  <2> QED
    BY <2>1, <2>2
<1>5. record = NoRecord => record' = NoRecord
  OBVIOUS
<1>6. \A s \in Request : /\ pc'[s] = pc[s] \/ (pc'[s] = "gaveup" /\ pc[s] \in Owning)
                         /\ pc'[s] = "ok" => pc[s] = "ok"
  BY DEF TypeOK
<1>7. RecordKept' /\ OwnerAlone' /\ OwnersSubmitted' /\ OneJobPerKey'
  <2>1. \A s \in Request : /\ pc'[s] = "claimed" => pc[s] = "claimed"
                           /\ pc'[s] \in Owning => pc[s] \in Owning
                           /\ pc'[s] \in Serving => pc[s] \in Serving
    BY <1>6 DEF Owning, Serving
  <2> QED
    BY <1>2, <1>4, <2>1, OwnershipKept
<1>8. TypeOK'
  BY <1>4, <1>5 DEF TypeOK, Serving
<1>9. OutcomeKnown'
  <2>1. \/ record.job \in Request \cup {NoJob} /\ record.response \in Request \cup {NoJob}
        \/ record = NoRecord
    BY DEF TypeOK, Record
  <2>2. \A s \in posting' : job'[s].status = "completed"
    BY <1>1, <1>3 DEF OutcomeKnown, TypeOK
  <2> QED
    BY <1>1, <1>2, <1>3, <1>4, <1>5, <2>1, <2>2 DEF OutcomeKnown, Submitted
<1>10. AnswersAreGenuine'
  BY <1>3, <1>6 DEF AnswersAreGenuine
<1> QED
  BY <1>7, <1>8, <1>9, <1>10

LEMMA ResultCompletesKeyStep ==
    ASSUME KeyInv, NEW r \in Request, ResultCompletesKey(r) PROVE KeyInv'
<1> USE DEF KeyInv
<1>1. /\ r \in posting /\ posting' = posting \ {r}
      /\ record' = CompletedKey(record, r)
      /\ UNCHANGED <<job, pc, reply>>
  BY DEF ResultCompletesKey
<1>2. job[r].status = "completed" /\ record # NoRecord
  BY <1>1 DEF OutcomeKnown, RecordKept, Submitted
<1>3. record' \in Record /\ record' # NoRecord /\ record'.print = record.print /\ OutcomeKnown'
  BY <1>1, <1>2, KeySettled
<1>4. RecordKept' /\ OwnerAlone' /\ OwnersSubmitted' /\ OneJobPerKey'
  <2>1. \A s \in Request : Submitted(s)' <=> Submitted(s)
    BY <1>1 DEF Submitted
  <2> QED
    BY <1>1, <1>3, <2>1, OwnershipKept
<1>5. TypeOK'
  BY <1>1, <1>3 DEF TypeOK
<1>6. AnswersAreGenuine'
  BY <1>1 DEF AnswersAreGenuine
<1> QED
  BY <1>3, <1>4, <1>5, <1>6

LEMMA JobStep ==
    ASSUME KeyInv, NEW r \in Request,
           \/ ResultFinishes(r) \/ JobFails(r) \/ JobTimesOut(r)
           \/ DeadlinePasses(r) \/ OwnerGivesUp(r)
    PROVE  KeyInv'
<1> USE DEF KeyInv
<1>1. job[r] \in Job /\ UNCHANGED reply
  BY DEF TypeOK, ResultFinishes, JobFails, JobTimesOut, DeadlinePasses, OwnerGivesUp
<1>2. CASE ResultFinishes(r)
  <2>1. PICK b : job' = [job EXCEPT ![r] = b]
                 /\ b = [job[r] EXCEPT !.status = "completed", !.listed = FALSE]
    BY <1>2, Zenon DEF ResultFinishes
  <2>2. b \in Job /\ b.status = "completed" /\ ~b.listed
    BY <1>1, <2>1 DEF Job
  <2>3. Submitted(r) /\ posting' = posting \cup {r} /\ UNCHANGED <<record, pc>>
    BY <1>2 DEF ResultFinishes, Submitted
  <2> QED
    BY <1>1, <2>1, <2>2, <2>3, JobChanges
<1>3. CASE JobFails(r)
  <2>1. PICK e \in BOOLEAN : job' = [job EXCEPT ![r] = [@ EXCEPT !.status = "failed", !.listed = e]]
    BY <1>3 DEF JobFails
  <2>2. PICK b : job' = [job EXCEPT ![r] = b]
                 /\ b = [job[r] EXCEPT !.status = "failed", !.listed = e]
    BY <2>1
  <2>3. b \in Job /\ b.status = "failed"
    BY <1>1, <2>2 DEF Job
  <2>4. job[r].status = "active" /\ UNCHANGED <<record, pc, posting>>
    BY <1>3 DEF JobFails
  <2> QED
    BY <1>1, <2>2, <2>3, <2>4, JobChanges DEF Submitted
<1>4. CASE JobTimesOut(r)
  <2>1. PICK b : job' = [job EXCEPT ![r] = b]
                 /\ b = [job[r] EXCEPT !.status = "failed", !.listed = FALSE]
    BY <1>4, Zenon DEF JobTimesOut
  <2>2. b \in Job /\ b.status = "failed"
    BY <1>1, <2>1 DEF Job
  <2>3. job[r].status = "active" /\ UNCHANGED <<pc, posting>>
    BY <1>4 DEF JobTimesOut
  <2>4. record # NoRecord
    BY <2>3 DEF RecordKept, Submitted
  <2>5. UNCHANGED record \/ record' = FailedKey(record)
    BY <1>4 DEF JobTimesOut, DeadlinedKey
  <2> QED
    BY <1>1, <2>1, <2>2, <2>3, <2>4, <2>5, JobChanges DEF Submitted
<1>6. CASE OwnerGivesUp(r)
  <2>1. pc[r] \in {"waiting", "streaming"} /\ UNCHANGED <<record, posting>>
    BY <1>6 DEF OwnerGivesUp
  <2>2. pc[r] \in Owning /\ pc' = [pc EXCEPT ![r] = "gaveup"] /\ pc[r] # "ok"
    BY <1>6, <2>1 DEF OwnerGivesUp, Owning, Goes
  <2>3. CASE job[r].status = "completed"
    <3>1. UNCHANGED job
      BY <1>6, <2>3 DEF OwnerGivesUp
    <3> QED
      BY <1>1, <2>1, <2>2, <3>1, ThreadMoves DEF Owning, Serving
  <2>4. CASE job[r].status # "completed"
    <3>1. PICK b : job' = [job EXCEPT ![r] = b]
                   /\ b = [job[r] EXCEPT !.status = "failed", !.listed = FALSE]
      BY <1>6, <2>4, Zenon DEF OwnerGivesUp
    <3>2. b \in Job /\ b.status = "failed"
      BY <1>1, <3>1 DEF Job
    <3>3. Submitted(r)
      BY <2>2 DEF OwnersSubmitted
    <3> QED
      BY <1>1, <2>1, <2>2, <2>4, <3>1, <3>2, <3>3, JobChanges
  <2> QED
    BY <2>3, <2>4
<1>5. CASE DeadlinePasses(r)
  <2>1. PICK b : job' = [job EXCEPT ![r] = b] /\ b = [job[r] EXCEPT !.due = "past"]
    BY <1>5, Zenon DEF DeadlinePasses
  <2>2. b \in Job /\ b.status = job[r].status /\ b.listed = job[r].listed
    BY <1>1, <2>1 DEF Job
  <2>3. Submitted(r) /\ UNCHANGED <<record, pc, posting>>
    BY <1>5 DEF DeadlinePasses, Submitted
  <2> QED
    BY <1>1, <2>1, <2>2, <2>3, JobChanges DEF Submitted, OutcomeKnown
<1> QED
  BY <1>2, <1>3, <1>4, <1>5, <1>6

\* A restart forgets the record of a key only if nobody submitted under it, and
\* otherwise keeps its fingerprint and response.
LEMMA RecordRestored ==
    ASSUME KeyInv, RestoreBrowserState
    PROVE  \/ /\ \A r \in Request : ~Submitted(r)
              /\ ~Settled(record)
              /\ record' = NoRecord
           \/ /\ record # NoRecord /\ record' \in Record /\ record' # NoRecord
              /\ record'.print = record.print
              /\ record'.response = record.response
              /\ record'.job # NoJob => record'.job = record.job \/ Submitted(record'.job)
              /\ Settled(record) => record' = record
              /\ record'.status = "completed" => record.status = "completed"
<1> USE DEF KeyInv
<1> DEFINE submitted == {r \in Request : job[r].status # "none"}
<1>1. record' = RestoredKey(record)
  BY DEF RestoreBrowserState
<1>2. CASE record = NoRecord \/ Settled(record)
  BY <1>1, <1>2 DEF RestoredKey, TypeOK, Settled, RecordKept
<1>3. CASE record # NoRecord /\ ~Settled(record) /\ JobOf(record) = NoJob
  <2>1. record' = NoRecord
    BY <1>1, <1>3 DEF RestoredKey
  <2>2. ASSUME NEW r \in Request, Submitted(r) PROVE FALSE
    <3>1. submitted = {r}
      BY <2>2 DEF OneJobPerKey, Submitted
    <3>2. Cardinality(submitted) = 1
      BY <3>1, FS_Singleton
    <3>3. (CHOOSE s \in submitted : TRUE) \in Request
      BY <3>1
    <3>4. JobOf(record) # NoJob
      BY <3>2, <3>3, NullAssumption DEF JobOf
    <3> QED
      BY <1>3, <3>4
  <2> QED
    BY <1>3, <2>1, <2>2
<1>4. CASE record # NoRecord /\ ~Settled(record) /\ JobOf(record) # NoJob
  <2>1. JobOf(record) \in Request /\ (JobOf(record) = record.job \/ Submitted(JobOf(record)))
    <3>1. record.job \in Request \cup {NoJob}
      BY <1>4 DEF TypeOK, Record
    <3>2. CASE record.job # NoJob
      BY <3>1, <3>2 DEF JobOf
    <3>3. CASE record.job = NoJob
      <4>1. Cardinality(submitted) = 1 /\ JobOf(record) = CHOOSE s \in submitted : TRUE
        BY <1>4, <3>3 DEF JobOf
      <4>2. submitted # {}
        BY <4>1, FS_EmptySet
      <4>3. JobOf(record) \in submitted
        BY <4>1, <4>2
      <4> QED
        BY <4>3 DEF Submitted
    <3> QED
      BY <3>2, <3>3
  <2> DEFINE k == [record EXCEPT !.job = JobOf(record)]
  <2>2. record \in Record
    BY <1>4 DEF TypeOK
  <2>3. k \in Record
    BY <2>1, <2>2 DEF Record
  <2>4. k.print = record.print /\ k.job = JobOf(record) /\ k.response = record.response
    BY <2>1, <2>2 DEF Record
  <2>5. record' = FailedKey(k)
    BY <1>1, <1>4 DEF RestoredKey
  <2> HIDE DEF k
  <2>6. /\ record' \in Record
        /\ record'.print = record.print
        /\ record'.job = JobOf(record)
        /\ record'.response = record.response
        /\ record'.status = "failed"
    BY <2>1, <2>3, <2>4, <2>5, SettledRecord
  <2> QED
    BY <1>4, <2>1, <2>6, NullAssumption
<1> QED
  BY <1>2, <1>3, <1>4

LEMMA RestoreStep == ASSUME KeyInv, RestoreBrowserState PROVE KeyInv'
<1> USE DEF KeyInv
<1>1. /\ job' = [r \in Request |-> Restored(job[r])]
      /\ pc' = [r \in Request |-> IF pc[r] \in Serving THEN "lost" ELSE pc[r]]
      /\ posting' = {} /\ UNCHANGED reply
  BY DEF RestoreBrowserState
<1>2. \A r \in Request :
         /\ job'[r] \in Job
         /\ ~job'[r].listed
         /\ job'[r].status = IF job[r].status = "active" THEN "failed" ELSE job[r].status
  <2> SUFFICES ASSUME NEW r \in Request
               PROVE  /\ job'[r] \in Job
                      /\ ~job'[r].listed
                      /\ job'[r].status = IF job[r].status = "active" THEN "failed"
                                          ELSE job[r].status
    OBVIOUS
  <2>1. job[r] \in Job /\ job'[r] = Restored(job[r])
    BY <1>1 DEF TypeOK
  <2>2. Restored(job[r]) \in Job
    BY <2>1 DEF Restored, Job
  <2>3. ~Restored(job[r]).listed
    BY <2>1 DEF Restored, Job
  <2>4. Restored(job[r]).status = IF job[r].status = "active" THEN "failed" ELSE job[r].status
    BY <2>1 DEF Restored, Job
  <2> QED
    BY <2>1, <2>2, <2>3, <2>4
<1>3. \A r \in Request : Submitted(r)' <=> Submitted(r)
  BY <1>2 DEF Submitted
<1>4. \A r \in Request : pc'[r] \notin Serving /\ (pc'[r] = "ok" => pc[r] = "ok")
  BY <1>1 DEF Serving
<1>5. TypeOK'
  <2>1. pc' \in [Request -> {"unsent"} \cup Serving \cup Answered \cup Cut]
    BY <1>1 DEF TypeOK, Cut
  <2>2. job' \in [Request -> Job]
    BY <1>1, <1>2
  <2>3. record' \in Record \cup {NoRecord}
    BY RecordRestored
  <2> QED
    BY <1>1, <2>1, <2>2, <2>3 DEF TypeOK
<1>6. RecordKept'
  BY <1>3, <1>4, RecordRestored DEF RecordKept
<1>7. OwnerAlone' /\ OwnersSubmitted'
  BY <1>4 DEF OwnerAlone, OwnersSubmitted, Owning, Serving
<1>8. OneJobPerKey'
  BY <1>3 DEF OneJobPerKey, Submitted
<1>9. \A r \in Request : job[r].status = "completed" => job'[r].status = "completed"
  BY <1>2
<1>10. OutcomeKnown'
  <2>1. CASE record' = NoRecord
    BY <1>1, <1>2, <2>1 DEF OutcomeKnown
  <2>2. CASE record' # NoRecord
    <3>1. record' \in Record /\ record \in Record
      BY <2>2, RecordRestored DEF TypeOK
    <3>2. record'.job \in Request \cup {NoJob} /\ record'.response \in Request \cup {NoJob}
      BY <3>1 DEF Record
    <3>3. record'.job # NoJob => job'[record'.job].status # "none"
      BY <1>3, <2>2, <3>2, RecordRestored DEF OutcomeKnown, Submitted
    <3>4. record'.response # NoJob => job'[record'.response].status = "completed"
      BY <1>9, <2>2, <3>2, RecordRestored DEF OutcomeKnown
    <3>5. record'.status = "completed" => record'.response # NoJob
      BY <2>2, RecordRestored DEF OutcomeKnown
    <3> QED
      BY <1>1, <1>2, <3>3, <3>4, <3>5 DEF OutcomeKnown, Submitted
  <2> QED
    BY <2>1, <2>2
<1>11. AnswersAreGenuine'
  BY <1>1, <1>4, <1>9 DEF AnswersAreGenuine
<1> QED
  BY <1>5, <1>6, <1>7, <1>8, <1>10, <1>11

-----------------------------------------------------------------------------
LEMMA KeyStep == KeyInv /\ [Next]_vars => KeyInv'
<1> SUFFICES ASSUME KeyInv, [Next]_vars PROVE KeyInv'
  OBVIOUS
<1>1. CASE RestoreBrowserState
  BY <1>1, RestoreStep
<1>2. ASSUME NEW r \in Request,
             \/ Receive(r) \/ Thread(r) \/ HangUp(r) \/ Browser(r)
             \/ ResultCompletesKey(r) \/ JobTimesOut(r) \/ DeadlinePasses(r)
      PROVE  KeyInv'
  <2>1. CASE Receive(r)
    BY <2>1, ReceiveStep
  <2>2. CASE Thread(r)
    BY <2>2, SubmitStep, BindStep, ListenStep, OwnerStep, JoinerStep, JobStep DEF Thread
  <2>3. CASE HangUp(r)
    BY <2>3, HangUpStep
  <2>4. CASE Browser(r) \/ JobTimesOut(r) \/ DeadlinePasses(r)
    BY <2>4, JobStep DEF Browser
  <2>5. CASE ResultCompletesKey(r)
    BY <2>5, ResultCompletesKeyStep
  <2> QED
    BY <1>2, <2>1, <2>2, <2>3, <2>4, <2>5
<1>3. CASE UNCHANGED vars
  BY <1>3
  DEF vars, KeyInv, TypeOK, RecordKept, OwnerAlone, OwnersSubmitted, OneJobPerKey,
      OutcomeKnown, AnswersAreGenuine, Submitted
<1> QED
  BY <1>1, <1>2, <1>3 DEF Next

\* The key's record, its owner and its jobs always fit together.
THEOREM KeyInvariant == Spec => []KeyInv
  BY InitKey, KeyStep, PTL DEF Spec

\* Every variable keeps its type.
THEOREM TypeCorrect == Spec => []TypeOK
<1>1. KeyInv => TypeOK
  BY DEF KeyInv
<1> QED
  BY <1>1, KeyInvariant, PTL

\* At-most-once submission: however many requests carry the key, and however
\* claim_idempotency, new_browser_job, bind_idempotency_job and restarts of the
\* server interleave, one of them submits a browser job.
THEOREM AtMostOneJob == Spec => []OneJobPerKey
<1>1. KeyInv => OneJobPerKey
  BY DEF KeyInv
<1> QED
  BY <1>1, KeyInvariant, PTL

\* A request that is answered with a response gets that of a completed job
\* submitted for the same request body.
THEOREM GenuineAnswers == Spec => []AnswersAreGenuine
<1>1. KeyInv => AnswersAreGenuine
  BY DEF KeyInv
<1> QED
  BY <1>1, KeyInvariant, PTL

LEMMA SettledStep == ASSUME KeyInv, [Next]_vars PROVE StaysSettled
<1> SUFFICES ASSUME Settled(record) PROVE Settled(record')
  BY DEF StaysSettled
<1>1. record \in Record /\ record # NoRecord
  BY DEF Settled, KeyInv, TypeOK
<1>2. ASSUME UNCHANGED record PROVE Settled(record')
  BY <1>2
<1>3. ASSUME NEW r \in Request,
             record' = FailedKey(record) \/ record' = CompletedKey(record, r)
      PROVE  Settled(record')
  BY <1>1, <1>3, SettledRecord, NullAssumption DEF Settled
<1>4. CASE RestoreBrowserState
  BY <1>4, <1>2 DEF RestoreBrowserState, RestoredKey
<1>5. ASSUME NEW r \in Request, Bind(r) PROVE Settled(record')
  <2>1. record' = [record EXCEPT !.job = r]
    BY <1>5 DEF Bind
  <2>2. record' \in Record /\ record'.status = record.status
    BY <1>1, <2>1 DEF Record
  <2> QED
    BY <2>2, NullAssumption DEF Settled
<1>6. ASSUME NEW r \in Request, Receive(r) PROVE Settled(record')
  BY <1>1, <1>2, <1>6 DEF Receive, Unclaimed
<1>7. ASSUME NEW r \in Request,
             \/ OwnerAnswers(r) \/ OwnerTimesOut(r) \/ ResultCompletesKey(r) \/ JobTimesOut(r)
      PROVE  Settled(record')
  BY <1>2, <1>3, <1>7 DEF OwnerAnswers, OwnerTimesOut, ResultCompletesKey, JobTimesOut, DeadlinedKey
<1>8. ASSUME NEW r \in Request,
             \/ Submit(r) \/ Listen(r) \/ OwnerGivesUp(r) \/ Join(r) \/ Unpark(r)
             \/ ParkTimeout(r) \/ HangUp(r) \/ Browser(r) \/ DeadlinePasses(r)
      PROVE  Settled(record')
  BY <1>2, <1>8
  DEF Submit, Listen, OwnerGivesUp, Join, Unpark, ParkTimeout, HangUp, Browser,
      ResultFinishes, JobFails, DeadlinePasses
<1>9. CASE UNCHANGED vars
  BY <1>2, <1>9 DEF vars
<1> QED
  BY <1>4, <1>5, <1>6, <1>7, <1>8, <1>9 DEF Next, Thread

\* A key that was completed or failed stays so, over restarts too: no step makes
\* it processing again or forgets it.
THEOREM SettledKeysStay == Spec => SettledForGood
<1>1. KeyInv /\ [Next]_vars => StaysSettled
  BY SettledStep
<1>2. KeyInv /\ [Next]_vars => [StaysSettled]_vars
  BY <1>1
<1> QED
  BY <1>2, KeyInvariant, PTL DEF Spec, SettledForGood
=============================================================================
