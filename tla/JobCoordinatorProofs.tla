------------------------ MODULE JobCoordinatorProofs ------------------------
(***************************************************************************)
(* Proofs about the job coordinator, for every number of jobs, tabs,       *)
(* workers, runtime sessions, conversations and handlers.                  *)
(*                                                                         *)
(* JobMove lists what one lock section may do to one job record.  The      *)
(* lemma EveryStepMovesJobs shows, action by action, that no step does     *)
(* anything else; most properties then follow from JobMove alone.          *)
(***************************************************************************)
EXTENDS JobCoordinator, TLAPS

Ousted(c) == c \in Client /\ TurnedOut(c)

\* What a step may do to a record short of claiming the job.
QuietMove(b, d) ==
    \/ d = b
    \/ /\ b.status = "none"
       /\ \E p \in Presets, t \in Deadlines :
             d = [NoJob EXCEPT !.status = "queued", !.tab = p, !.due = t, !.event = "waiting"]
    \/ d = Finished(b, "failed")
    \/ b.status \in Active /\ d = TimedOut(b)
    \/ b.status = "claimed" /\ d = Renewed(b)
    \/ b.status = "claimed" /\ b.lease = "lapsed" /\ d = LeaseExpired(b)
    \/ b.status = "claimed" /\ b.lease # "held" /\ d = BrowserStale(b)
    \/ b.status = "claimed" /\ Ousted(b.owner) /\ d = RuntimeReplaced(b)
    \/ b.status = "claimed" /\ b.due # "past" /\ d = Finished(b, "completed")
    \/ b.lease = "held" /\ d = Lapsed(b)
    \/ b.due = "ahead" /\ d = [Lapsed(b) EXCEPT !.due = "past"]
    \/ d = Restored(b)

JobMove(b, d) ==
    \/ QuietMove(b, d)
    \/ /\ b.status = "queued" /\ b.due # "past"
       /\ \E t \in Tab, c \in Client : d = ClaimedBy(b, t, c)
    \/ b.status = "queued" /\ d = [b EXCEPT !.status = "claimed"]

-----------------------------------------------------------------------------
(* Records.                                                                *)

\* The operators on one record, with those they call.
LEMMA NoJobType == NoJob \in JobRecord
BY NullAssumption DEF NoJob, JobRecord, Status

\* The parts the moves put into a record.
LEMMA PartsType ==
    ASSUME NEW b \in JobRecord
    PROVE  /\ RetryState(b) \in {"queued", "failed"}
           /\ LeaseFor(b) \in {"held", "lapsed"}
           /\ b.due = "past" => LeaseFor(b) = "lapsed"
           /\ Signalled(b) \in {"none", "set"}
           /\ b.token + 1 \in Nat
           /\ b.attempt + 1 \in Nat
BY DEF RetryState, LeaseFor, Signalled, JobRecord

\* Every move keeps the record well typed.
LEMMA JobMoveType ==
    ASSUME NEW b \in JobRecord, NEW d, JobMove(b, d)
    PROVE  d \in JobRecord
<1> USE PartsType DEF JobRecord, Status
<1>1. CASE d = b
  BY <1>1
<1>2. CASE \E p \in Presets, t \in Deadlines :
              d = [NoJob EXCEPT !.status = "queued", !.tab = p, !.due = t, !.event = "waiting"]
  <2>1. PICK p \in Presets, t \in Deadlines :
           d = [NoJob EXCEPT !.status = "queued", !.tab = p, !.due = t, !.event = "waiting"]
    BY <1>2
  <2>2. p \in Tab \cup {NoTab} /\ t \in {"none", "ahead", "past"}
    BY PresetsAssumption, DeadlinesAssumption
  <2> QED
    BY <2>1, <2>2 DEF NoJob
<1>3. CASE d = Finished(b, "failed")
  BY <1>3 DEF Finished
<1>4. CASE d = TimedOut(b)
  BY <1>4 DEF TimedOut
<1>5. CASE d = Renewed(b)
  BY <1>5 DEF Renewed
<1>6. CASE d = LeaseExpired(b)
  BY <1>6 DEF LeaseExpired
<1>7. CASE d = BrowserStale(b)
  BY <1>7 DEF BrowserStale
<1>8. CASE d = RuntimeReplaced(b)
  BY <1>8 DEF RuntimeReplaced, BrowserStale
<1>9. CASE \E t \in Tab, c \in Client : d = ClaimedBy(b, t, c)
  BY <1>9 DEF ClaimedBy
<1>10. CASE d = [b EXCEPT !.status = "claimed"]
  BY <1>10
<1>11. CASE d = Finished(b, "completed")
  BY <1>11 DEF Finished
<1>12. CASE d = Lapsed(b)
  BY <1>12 DEF Lapsed
<1>13. CASE d = [Lapsed(b) EXCEPT !.due = "past"]
  BY <1>13 DEF Lapsed
<1>14. CASE d = Restored(b)
  BY <1>14 DEF Restored
<1> QED
  BY <1>1, <1>2, <1>3, <1>4, <1>5, <1>6, <1>7, <1>8, <1>9, <1>10, <1>11, <1>12, <1>13, <1>14
     DEF JobMove, QuietMove

-----------------------------------------------------------------------------
(* Steps.                                                                  *)

JobsQuiet ==
    /\ job' = [j \in Job |-> job'[j]]
    /\ \A j \in Job : QuietMove(job[j], job'[j])

\* The steps that claim the job i: a poll, or a result with the job's token.
ClaimStep(i, t, c, v) ==
    /\ Eligible(i, t, v)
    /\ job' = [j \in Job |-> job'[j]]
    /\ job'[i] = ClaimedBy(job[i], t, c)
    /\ \A j \in Job \ {i} : QuietMove(job[j], job'[j])

ResumeStep(i) ==
    /\ job[i].status = "queued"
    /\ job[i].tab \in Tab
    /\ job' = [job EXCEPT ![i] = [@ EXCEPT !.status = "claimed"]]

JobsStep ==
    \/ JobsQuiet
    \/ \E i \in Job, t \in Tab, c \in Client, v \in Conv : ClaimStep(i, t, c, v)
    \/ \E i \in Job : ResumeStep(i)

\* A step that assigns no record is quiet.
LEMMA NoJobMoves == TypeOK /\ UNCHANGED job => JobsQuiet
BY DEF TypeOK, JobsQuiet, QuietMove

\* A step that assigns one record is quiet if that record moves quietly.
LEMMA OneQuietJob ==
    ASSUME TypeOK, NEW i \in Job, NEW d,
           QuietMove(job[i], d),
           job' = [job EXCEPT ![i] = d]
    PROVE  JobsQuiet
<1>1. \A b : QuietMove(b, b)
  BY DEF QuietMove
<1> QED
  BY <1>1 DEF JobsQuiet, TypeOK

\* The actions of requests.
LEMMA RequestIsQuiet ==
    ASSUME TypeOK, Request
    PROVE  JobsQuiet
<1>1. ASSUME NEW j \in Job, NewBrowserJob(j)
      PROVE  JobsQuiet
  BY <1>1, OneQuietJob DEF NewBrowserJob, QuietMove
<1>2. ASSUME NEW j \in Job, RequesterTimeout(j)
      PROVE  JobsQuiet
  BY <1>2, OneQuietJob DEF RequesterTimeout, QuietMove
<1>3. ASSUME NEW j \in Job, ResetJob(j)
      PROVE  JobsQuiet
  BY <1>3, OneQuietJob DEF ResetJob, QuietMove
<1>4. CASE ResetBegin
  BY <1>4 DEF ResetBegin, JobsQuiet, QuietMove, TypeOK
<1> QED
  BY <1>1, <1>2, <1>3, <1>4 DEF Request

\* reap_expired_browser_jobs, in a poll and on its own.
LEMMA ReapIsQuiet ==
    ASSUME TypeOK, ReapExpiredBrowserJobs
    PROVE  JobsQuiet
<1>1. PICK aged \in SUBSET Job :
         /\ AgedQueue(aged)
         /\ job' = [j \in Job |-> Reaped(job[j], j \in aged)]
  BY DEF ReapExpiredBrowserJobs, ReapedOf
<1>2. ASSUME NEW j \in Job
      PROVE  QuietMove(job[j], Reaped(job[j], j \in aged))
  <2>1. CASE PastDue(job[j]) \/ j \in aged
    BY <1>1, <2>1 DEF Reaped, QuietMove, AgedQueue, PastDue, Active
  <2>2. CASE ~(PastDue(job[j]) \/ j \in aged)
    BY <2>2 DEF Reaped, QuietMove
  <2> QED
    BY <2>1, <2>2
<1> QED
  BY <1>1, <1>2 DEF JobsQuiet

\* The background thread and the purge.
LEMMA HousekeepingIsQuiet ==
    ASSUME TypeOK, Housekeeping
    PROVE  JobsQuiet
<1>1. CASE Reap
  BY <1>1, ReapIsQuiet DEF Reap
<1>2. CASE ReapBrowserRequestDeadlines
  BY <1>2 DEF ReapBrowserRequestDeadlines, JobsQuiet, QuietMove, PastDue
<1>3. CASE PurgeStaleBrowserState
  <2>1. PICK old \in SUBSET Tab :
           job' = [j \in Job |-> IF j \in Lost(old) THEN BrowserStale(job[j]) ELSE job[j]]
    BY <1>3 DEF PurgeStaleBrowserState, PurgedOf
  <2>2. ASSUME NEW j \in Lost(old)
        PROVE  job[j].status = "claimed" /\ job[j].lease # "held"
    BY DEF Lost, LiveTabs, ClaimedOn, Claimed
  <2> QED
    BY <2>1, <2>2 DEF JobsQuiet, QuietMove
<1> QED
  BY <1>1, <1>2, <1>3 DEF Housekeeping

\* Polls.
LEMMA PollStep ==
    ASSUME TypeOK, Poll
    PROVE  JobsStep
<1>1. ASSUME NEW V
      PROVE  /\ Skipped(V) = [j \in Job |-> Skipped(V)[j]]
             /\ \A j \in Job : QuietMove(job[j], Skipped(V)[j])
             /\ \A j \in Job : job[j].due # "past" => Skipped(V)[j] = job[j]
  BY DEF Skipped, QuietMove, PastDue
<1>2. ASSUME NEW c \in Client, PollReap(c)
      PROVE  JobsQuiet
  BY <1>2, ReapIsQuiet DEF PollReap
<1>3. ASSUME NEW c \in Client, PollIgnored(c) \/ \E r \in Runtime : PollAdmit(c, r)
      PROVE  JobsQuiet
  BY <1>3 DEF PollIgnored, PollAdmit, JobsQuiet, QuietMove, TypeOK
<1>4. ASSUME NEW c \in Client, NEW t \in Tab, NEW v \in Conv, PollFindsNothing(c, t, v)
      PROVE  JobsQuiet
  BY <1>1, <1>4 DEF PollFindsNothing, JobsQuiet
<1>5. ASSUME NEW c \in Client, NEW t \in Tab, NEW v \in Conv, PollClaim(c, t, v)
      PROVE  JobsStep
  <2>1. PICK i \in Job :
           /\ Eligible(i, t, v)
           /\ job' = [Skipped({k \in Job : ListedBefore(k, i)}) EXCEPT ![i] = ClaimedBy(@, t, c)]
    BY <1>5 DEF PollClaim
  <2> DEFINE S == Skipped({k \in Job : ListedBefore(k, i)})
  <2>2. S[i] = job[i]
    BY <2>1, <1>1 DEF Eligible
  <2>3. S = [j \in Job |-> S[j]] /\ \A j \in Job : QuietMove(job[j], S[j])
    BY <1>1
  <2>4. job' = [S EXCEPT ![i] = ClaimedBy(S[i], t, c)]
    BY <2>1
  <2> HIDE DEF S
  <2>5. job' = [j \in Job |-> IF j = i THEN ClaimedBy(job[i], t, c) ELSE S[j]]
    BY <2>2, <2>3, <2>4
  <2>6. ClaimStep(i, t, c, v)
    BY <2>1, <2>3, <2>5 DEF ClaimStep
  <2> QED
    BY <2>6 DEF JobsStep
<1> QED
  BY <1>2, <1>3, <1>4, <1>5 DEF Poll, JobsStep

\* A replaced worker keeps neither the claim nor its token.
LEMMA ReplacedLosesClaim ==
    ASSUME NEW b \in JobRecord
    PROVE  RuntimeReplaced(b).owner = NoClient /\ RuntimeReplaced(b).token # b.token
BY DEF RuntimeReplaced, BrowserStale, JobRecord

\* Heartbeats and registrations.
LEMMA InventoryIsQuiet ==
    ASSUME TypeOK, Inventory
    PROVE  JobsQuiet
<1>1. ASSUME NEW c \in Client, NEW t \in Tab, NEW r \in Runtime, NEW onSite \in BOOLEAN,
             NegativeHeartbeat(c, t, r, onSite)
      PROVE  JobsQuiet
  BY <1>1 DEF NegativeHeartbeat, JobsQuiet, QuietMove
<1>2. ASSUME NEW c \in Client, NEW t \in Tab, NEW r \in Runtime, NEW onSite \in BOOLEAN,
             NEW mode, NEW v, ReadyHeartbeat(c, t, r, onSite, mode, v)
      PROVE  JobsQuiet
  BY <1>2 DEF ReadyHeartbeat, JobsQuiet, QuietMove, ActiveClaim, ClaimedOn, Claimed
<1>3. ASSUME NEW c \in Client, NEW r \in Runtime, BrowserRegister(c, r)
      PROVE  JobsQuiet
  <2>1. PICK away \in SUBSET Tab :
           job' = [j \in Job |-> IF j \in Revoked(c, r) THEN RuntimeReplaced(job[j])
                                 ELSE IF j \in Left(c, away, Revoked(c, r))
                                      THEN Finished(job[j], "failed")
                                 ELSE job[j]]
    BY <1>3 DEF BrowserRegister, Registered
  <2>2. reg' = [reg EXCEPT ![c] = r]
    BY <1>3 DEF BrowserRegister, Registered
  <2>3. ASSUME NEW j \in Revoked(c, r)
        PROVE  job[j].status = "claimed" /\ Ousted(job[j].owner)
    <3>1. reg[c] \notin {NoRuntime, r} /\ Revoked(c, r) = ClaimsOf(c)
      BY DEF Revoked
    <3>2. reg'[c] # reg[c]
      BY <2>2, <3>1 DEF TypeOK
    <3>3. \A i \in ClaimsOf(c) : i \in Job /\ job'[i] = RuntimeReplaced(job[i])
      BY <2>1, <3>1 DEF ClaimsOf
    <3> QED
      BY <3>1, <3>2, <3>3, ReplacedLosesClaim DEF ClaimsOf, Claimed, Ousted, TurnedOut, TypeOK
  <2> QED
    BY <2>1, <2>3 DEF JobsQuiet, QuietMove
<1>4. ASSUME NEW t \in Tab, NEW onSite \in BOOLEAN, PagePresence(t, onSite)
      PROVE  JobsQuiet
  BY <1>4 DEF PagePresence, JobsQuiet, QuietMove, TypeOK
<1>5. ASSUME NEW c \in Client, RegistrationRefused(c)
      PROVE  JobsQuiet
  <2>1. job' = [j \in Job |-> IF j \in ClaimsOf(c) THEN RuntimeReplaced(job[j]) ELSE job[j]]
    BY <1>5 DEF RegistrationRefused
  <2>2. \A t \in Tab : entry'[t] # NoEntry => entry'[t].client # c
    BY <1>5 DEF RegistrationRefused, TabsOf
  <2>3. \A i \in ClaimsOf(c) : i \in Job /\ job'[i] = RuntimeReplaced(job[i])
    BY <2>1 DEF ClaimsOf
  <2>4. TurnedOut(c)
    BY <2>2, <2>3, ReplacedLosesClaim DEF TurnedOut, TypeOK
  <2>5. \A j \in ClaimsOf(c) : job[j].status = "claimed" /\ Ousted(job[j].owner)
    BY <2>4 DEF ClaimsOf, Claimed, Ousted
  <2> QED
    BY <2>1, <2>5 DEF JobsQuiet, QuietMove
<1> QED
  BY <1>1, <1>2, <1>3, <1>4, <1>5 DEF Inventory

\* What pages send.
LEMMA PageStep ==
    ASSUME TypeOK, Page
    PROVE  JobsStep
<1>1. ASSUME NEW j \in Job, NEW t \in Tab, NEW c \in Client, NEW tok, NEW empty \in BOOLEAN,
             AppendBrowserDelta(j, tok, t, c, empty)
      PROVE  JobsQuiet
  <2>1. job[j].status = "claimed"
    BY <1>1 DEF AppendBrowserDelta, ValidActor
  <2> QED
    BY <1>1, <2>1, OneQuietJob DEF AppendBrowserDelta, QuietMove, Active
<1>2. ASSUME NEW j \in Job, NEW t \in Tab, NEW c \in Client, NEW tok, RenewBrowserClaim(j, tok, t, c)
      PROVE  JobsQuiet
  <2>1. job[j].status = "claimed"
    BY <1>2 DEF RenewBrowserClaim, ValidActor
  <2> QED
    BY <1>2, <2>1, OneQuietJob DEF RenewBrowserClaim, QuietMove, Active
<1>3. ASSUME NEW h \in Handler, NEW j \in Job, NEW t \in Tab, NEW c \in Client,
             NEW ok \in BOOLEAN, NEW tok, ResultReceived(h, j, tok, t, c, ok)
      PROVE  JobsStep
  <2>1. CASE job[j].status = "queued" /\ tok = job[j].token /\ job[j].tab = t
    BY <1>3, <2>1 DEF ResultReceived, ResumeStep, JobsStep
  <2>2. CASE ~(job[j].status = "queued" /\ tok = job[j].token /\ job[j].tab = t)
    BY <1>3, <2>2, OneQuietJob DEF ResultReceived, QuietMove, JobsStep
  <2> QED
    BY <2>1, <2>2
<1>4. ASSUME NEW h \in Handler, ResultValidated(h)
      PROVE  JobsQuiet
  <2>1. answer[h].job \in Job
    BY <1>4 DEF ResultValidated, TypeOK, Answer
  <2> QED
    BY <1>4, <2>1, OneQuietJob DEF ResultValidated, QuietMove, PastDue
<1>5. ASSUME NEW h \in Handler, ResultCommitted(h)
      PROVE  JobsQuiet
  <2>1. answer[h].job \in Job
    BY <1>5 DEF ResultCommitted, TypeOK, Answer
  <2>2. QuietMove(job[answer[h].job], Committed(job[answer[h].job], answer[h].ok))
    BY DEF Committed, QuietMove, PastDue, Active
  <2> QED
    BY <1>5, <2>1, <2>2, OneQuietJob DEF ResultCommitted
<1>6. ASSUME NEW h \in Handler, ResultRefused(h)
      PROVE  JobsQuiet
  BY <1>6 DEF ResultRefused, JobsQuiet, QuietMove, TypeOK
<1> QED
  BY <1>1, <1>2, <1>3, <1>4, <1>5, <1>6 DEF Page, JobsStep

\* Every step, stutters included, is quiet or claims one job.
LEMMA EveryStep ==
    ASSUME TypeOK, [Next]_vars
    PROVE  JobsStep
<1>1. ASSUME NEW j \in Job, LeaseLapses(j) \/ DeadlinePasses(j)
      PROVE  JobsQuiet
  BY <1>1, OneQuietJob DEF LeaseLapses, DeadlinePasses, QuietMove
<1>2. ASSUME NEW v \in Conv, BindingExpires(v)
      PROVE  JobsQuiet
  BY <1>2, NoJobMoves DEF BindingExpires
<1>3. CASE RestoreBrowserState
  BY <1>3 DEF RestoreBrowserState, JobsQuiet, QuietMove, JobsStep
<1>4. CASE UNCHANGED vars
  BY <1>4, NoJobMoves DEF vars, JobsStep
<1> QED
  BY <1>1, <1>2, <1>3, <1>4, RequestIsQuiet, HousekeepingIsQuiet, PollStep,
     InventoryIsQuiet, PageStep
     DEF Next, Clock, JobsStep

\* So that every step moves each job as JobMove says.
LEMMA EveryStepMovesJobs ==
    ASSUME TypeOK, [Next]_vars
    PROVE  /\ job' = [j \in Job |-> job'[j]]
           /\ \A j \in Job : job[j] \in JobRecord /\ JobMove(job[j], job'[j])
<1>1. CASE JobsQuiet
  BY <1>1 DEF JobsQuiet, JobMove, TypeOK
<1>2. ASSUME NEW i \in Job, NEW t \in Tab, NEW c \in Client, NEW v \in Conv, ClaimStep(i, t, c, v)
      PROVE  /\ job' = [j \in Job |-> job'[j]]
             /\ \A j \in Job : JobMove(job[j], job'[j])
  BY <1>2 DEF ClaimStep, Eligible, JobMove
<1>3. ASSUME NEW i \in Job, ResumeStep(i)
      PROVE  /\ job' = [j \in Job |-> job'[j]]
             /\ \A j \in Job : JobMove(job[j], job'[j])
  <2>1. \A j \in Job \ {i} : QuietMove(job[j], job'[j])
    BY <1>3 DEF ResumeStep, QuietMove, TypeOK
  <2> QED
    BY <1>3, <2>1 DEF ResumeStep, JobMove, TypeOK
<1> QED
  BY <1>1, <1>2, <1>3, EveryStep DEF JobsStep, TypeOK

-----------------------------------------------------------------------------
(* Type correctness.                                                       *)

\* TypeOK without the job records.
RestOK ==
    /\ queue \in [Job -> SUBSET Nat]
    /\ entry \in [Tab -> Entry \cup {NoEntry}]
    /\ reg \in [Client -> Runtime \cup {NoRuntime}]
    /\ binding \in [Conv -> Tab \cup {NoTab}]
    /\ polling \in [Client -> {"idle", "reaped", "admitted"}]
    /\ resetting \subseteq Job
    /\ answer \in [Handler -> Answer \cup {NoAnswer}]

\* A job is appended after the last place of the list, a natural number.
LEMMA RequeuedType ==
    ASSUME TypeOK, NEW gone, NEW back
    PROVE  Requeued(gone, back) \in [Job -> SUBSET Nat]
<1>1. Last \in Nat
  BY DEF Last, TypeOK
<1>2. \A j \in Job : Last + j \in Nat
  BY <1>1 DEF Job
<1> QED
  BY <1>2 DEF Requeued, TypeOK

LEMMA RequestType ==
    ASSUME TypeOK, Request
    PROVE  RestOK'
<1> USE RequeuedType DEF RestOK, TypeOK
<1>1. ASSUME NEW j \in Job, NewBrowserJob(j)
      PROVE  RestOK'
  BY <1>1 DEF NewBrowserJob
<1>2. ASSUME NEW j \in Job, RequesterTimeout(j) \/ ResetJob(j)
      PROVE  RestOK'
  BY <1>2 DEF RequesterTimeout, ResetJob
<1>3. CASE ResetBegin
  BY <1>3 DEF ResetBegin
<1> QED
  BY <1>1, <1>2, <1>3 DEF Request

\* What the purge leaves of an entry is an entry.
LEMMA PurgedType ==
    ASSUME TypeOK, NEW old
    PROVE  Purged(old) \in [Tab -> Entry \cup {NoEntry}]
BY DEF Purged, TypeOK, Entry

LEMMA ReapType ==
    ASSUME TypeOK, ReapExpiredBrowserJobs
    PROVE  queue' \in [Job -> SUBSET Nat] /\ binding' \in [Conv -> Tab \cup {NoTab}]
BY RequeuedType DEF ReapExpiredBrowserJobs, ReapedOf, TypeOK

LEMMA HousekeepingType ==
    ASSUME TypeOK, Housekeeping
    PROVE  RestOK'
<1> USE RequeuedType DEF RestOK
<1>1. CASE Reap
  BY <1>1, ReapType DEF Reap, TypeOK
<1>2. CASE ReapBrowserRequestDeadlines
  BY <1>2 DEF ReapBrowserRequestDeadlines, TypeOK
<1>3. CASE PurgeStaleBrowserState
  BY <1>3, PurgedType DEF PurgeStaleBrowserState, PurgedOf, TypeOK
<1> QED
  BY <1>1, <1>2, <1>3 DEF Housekeeping

LEMMA PollType ==
    ASSUME TypeOK, Poll
    PROVE  RestOK'
<1> USE RequeuedType DEF RestOK
<1>1. ASSUME NEW c \in Client, PollReap(c)
      PROVE  RestOK'
  BY <1>1, ReapType DEF PollReap, TypeOK
<1>2. ASSUME NEW c \in Client, PollIgnored(c) \/ \E r \in Runtime : PollAdmit(c, r)
      PROVE  RestOK'
  BY <1>2 DEF PollIgnored, PollAdmit, TypeOK
<1>3. ASSUME NEW c \in Client, NEW t \in Tab, NEW v \in Conv, PollFindsNothing(c, t, v)
      PROVE  RestOK'
  BY <1>3 DEF PollFindsNothing, TypeOK
<1>4. ASSUME NEW c \in Client, NEW t \in Tab, NEW v \in Conv, PollClaim(c, t, v)
      PROVE  RestOK'
  <2>1. entry[t] \in Entry
    BY <1>4 DEF PollClaim, MayExecute, TypeOK
  <2>2. [entry[t] EXCEPT !.mode = "ready", !.onSite = TRUE] \in Entry
    BY <2>1 DEF Entry
  <2> QED
    BY <1>4, <2>2 DEF PollClaim, TypeOK
<1> QED
  BY <1>1, <1>2, <1>3, <1>4 DEF Poll

LEMMA InventoryType ==
    ASSUME TypeOK, Inventory
    PROVE  RestOK'
<1> USE RequeuedType DEF RestOK, Entry
<1>1. ASSUME NEW c \in Client, NEW t \in Tab, NEW r \in Runtime, NEW onSite \in BOOLEAN,
             NegativeHeartbeat(c, t, r, onSite)
      PROVE  RestOK'
  BY <1>1 DEF NegativeHeartbeat, TypeOK
<1>2. ASSUME NEW c \in Client, NEW t \in Tab, NEW r \in Runtime, NEW onSite \in BOOLEAN,
             NEW mode \in {"ready", "idle"}, NEW v, ReadyHeartbeat(c, t, r, onSite, mode, v)
      PROVE  RestOK'
  BY <1>2 DEF ReadyHeartbeat, TypeOK
<1>3. ASSUME NEW c \in Client, NEW r \in Runtime, BrowserRegister(c, r)
      PROVE  RestOK'
  BY <1>3 DEF BrowserRegister, Registered, TypeOK
<1>4. ASSUME NEW t \in Tab, NEW onSite \in BOOLEAN, PagePresence(t, onSite)
      PROVE  RestOK'
  BY <1>4 DEF PagePresence, TypeOK
<1>5. ASSUME NEW c \in Client, RegistrationRefused(c)
      PROVE  RestOK'
  BY <1>5 DEF RegistrationRefused, TypeOK
<1> QED
  BY <1>1, <1>2, <1>3, <1>4, <1>5 DEF Inventory

LEMMA PageType ==
    ASSUME TypeOK, Page
    PROVE  RestOK'
<1> USE RequeuedType DEF RestOK, TypeOK
<1>1. ASSUME NEW j \in Job, NEW t \in Tab, NEW c \in Client, NEW tok, NEW empty \in BOOLEAN,
             AppendBrowserDelta(j, tok, t, c, empty) \/ RenewBrowserClaim(j, tok, t, c)
      PROVE  RestOK'
  BY <1>1 DEF AppendBrowserDelta, RenewBrowserClaim
<1>2. ASSUME NEW h \in Handler, NEW j \in Job, NEW t \in Tab, NEW c \in Client,
             NEW ok \in BOOLEAN, NEW tok \in Tokens(j) \cup {NoToken},
             ResultReceived(h, j, tok, t, c, ok)
      PROVE  RestOK'
  <2>1. tok \in Nat \cup {NoToken} /\ job[j].token \in Nat
    BY DEF Tokens, JobRecord
  <2>2. answer'[h] \in Answer
    BY <1>2, <2>1 DEF ResultReceived, Answer
  <2> QED
    BY <1>2, <2>2 DEF ResultReceived
<1>3. ASSUME NEW h \in Handler, ResultValidated(h)
      PROVE  RestOK'
  <2>1. [answer[h] EXCEPT !.stage = "checked"] \in Answer
    BY <1>3 DEF ResultValidated, Answer
  <2> QED
    BY <1>3, <2>1 DEF ResultValidated
<1>4. ASSUME NEW h \in Handler, ResultRefused(h) \/ ResultCommitted(h)
      PROVE  RestOK'
  BY <1>4 DEF ResultRefused, ResultCommitted
<1> HIDE DEF RestOK, TypeOK
<1> QED
  BY <1>1, <1>2, <1>3, <1>4 DEF Page

\* TypeOK is inductive.
LEMMA TypeStep ==
    ASSUME TypeOK, [Next]_vars
    PROVE  TypeOK'
<1>1. job' \in [Job -> JobRecord]
  <2>1. \A j \in Job : job'[j] \in JobRecord
    BY EveryStepMovesJobs, JobMoveType
  <2> QED
    BY <2>1, EveryStepMovesJobs
<1>2. RestOK'
  <2> USE DEF RestOK, TypeOK
  <2>1. ASSUME NEW j \in Job, LeaseLapses(j) \/ DeadlinePasses(j)
        PROVE  RestOK'
    BY <2>1 DEF LeaseLapses, DeadlinePasses
  <2>2. ASSUME NEW v \in Conv, BindingExpires(v)
        PROVE  RestOK'
    BY <2>2 DEF BindingExpires
  <2>3. CASE RestoreBrowserState
    BY <2>3 DEF RestoreBrowserState
  <2>4. CASE UNCHANGED vars
    BY <2>4 DEF vars
  <2> HIDE DEF RestOK, TypeOK
  <2> QED
    BY <2>1, <2>2, <2>3, <2>4, RequestType, HousekeepingType, PollType, InventoryType, PageType
       DEF Next, Clock
<1> QED
  BY <1>1, <1>2 DEF RestOK, TypeOK

LEMMA TypeInit == Init => TypeOK
BY NoJobType DEF Init, TypeOK

\* Every variable keeps to its type, whatever the interleaving of handlers.
THEOREM TypeCorrect == Spec => []TypeOK
BY TypeInit, TypeStep, PTL DEF Spec

-----------------------------------------------------------------------------
(* Properties of single records: attempts, leases, outcomes and tokens.    *)

\* What holds of every job record by itself.
RecordOK(b) ==
    /\ b.status = "none" => b.token = 0 /\ b.attempt = 0 /\ b.due = "none"
    /\ b.status = "queued" => b.attempt <= MaxClaimAttempts
    /\ b.status = "claimed" => b.attempt <= MaxClaimAttempts + 1
    /\ b.due = "past" => b.lease # "held"
    /\ b.status \in Terminal /\ b.event = "waiting"
       => b.status = "failed" /\ b.attempt >= MaxClaimAttempts

\* What a move does to the status, the tab, the token and the attempts.
LEMMA JobMoveEffect ==
    ASSUME NEW b \in JobRecord, NEW d, JobMove(b, d)
    PROVE  /\ b.status \in Terminal => d.status = b.status
           /\ b.due = "past" /\ b.status # "completed" => d.status # "completed"
           /\ b.status \in Active /\ d.tab # b.tab => d.token > b.token
           /\ RecordOK(b) => RecordOK(d)
<1> DEFINE Effect ==
        /\ b.status \in Terminal => d.status = b.status
        /\ b.due = "past" /\ b.status # "completed" => d.status # "completed"
        /\ b.status \in Active /\ d.tab # b.tab => d.token > b.token
        /\ RecordOK(b) => RecordOK(d)
<1> SUFFICES Effect
  OBVIOUS
<1> USE AttemptsAssumption DEF JobRecord, Status, Terminal, Active, RecordOK
<1>1. CASE d = b
  BY <1>1
<1>2. CASE /\ b.status = "none"
           /\ \E p \in Presets, t \in Deadlines :
                 d = [NoJob EXCEPT !.status = "queued", !.tab = p, !.due = t, !.event = "waiting"]
  BY <1>2, DeadlinesAssumption DEF NoJob
<1>3. CASE d = Finished(b, "failed")
  BY <1>3 DEF Finished, CanFinish, Signalled
<1>4. CASE b.status \in Active /\ d = TimedOut(b)
  BY <1>4 DEF TimedOut, Signalled
<1>5. CASE b.status = "claimed" /\ d = Renewed(b)
  BY <1>5 DEF Renewed, LeaseFor
<1>6. CASE b.status = "claimed" /\ d = LeaseExpired(b)
  BY <1>6 DEF LeaseExpired, RetryState
<1>7. CASE b.status = "claimed" /\ d = BrowserStale(b)
  BY <1>7 DEF BrowserStale, RetryState
<1>8. CASE b.status = "claimed" /\ d = RuntimeReplaced(b)
  BY <1>8 DEF RuntimeReplaced, BrowserStale, RetryState
<1>9. CASE b.status = "queued" /\ b.due # "past" /\ \E t \in Tab, c \in Client : d = ClaimedBy(b, t, c)
  BY <1>9 DEF ClaimedBy, LeaseFor
<1>10. CASE b.status = "queued" /\ d = [b EXCEPT !.status = "claimed"]
  BY <1>10
<1>11. CASE b.status = "claimed" /\ b.due # "past" /\ d = Finished(b, "completed")
  BY <1>11 DEF Finished, CanFinish, Signalled
<1>12. CASE d = Lapsed(b)
  BY <1>12 DEF Lapsed
<1>13. CASE b.due = "ahead" /\ d = [Lapsed(b) EXCEPT !.due = "past"]
  BY <1>13 DEF Lapsed
<1>14. CASE d = Restored(b)
  BY <1>14 DEF Restored
<1> HIDE DEF Effect, JobRecord, Status, Terminal, Active, RecordOK
<1> QED
  BY <1>1, <1>2, <1>3, <1>4, <1>5, <1>6, <1>7, <1>8, <1>9, <1>10, <1>11, <1>12, <1>13, <1>14
     DEF JobMove, QuietMove

RecordsOK == \A j \in Job : RecordOK(job[j])

LEMMA RecordsInit == Init => RecordsOK
BY AttemptsAssumption DEF Init, RecordsOK, RecordOK, NoJob, Terminal

LEMMA RecordsStep ==
    ASSUME TypeOK, RecordsOK, [Next]_vars
    PROVE  RecordsOK'
<1>1. \A j \in Job : job[j] \in JobRecord /\ JobMove(job[j], job'[j])
  BY EveryStepMovesJobs
<1>2. \A j \in Job : RecordOK(job'[j])
  BY <1>1, JobMoveEffect DEF RecordsOK
<1> QED
  BY <1>2 DEF RecordsOK

\* The other conjuncts of RecordOK are three properties of the runs.
LEMMA RecordsImply == RecordsOK => /\ AttemptsBounded
                                   /\ NoLeaseAfterDeadline
                                   /\ LostWakeupOnlyByExhaustion
BY DEF RecordsOK, RecordOK, AttemptsBounded, NoLeaseAfterDeadline, LostWakeupOnlyByExhaustion

LEMMA RecordsCorrect == Spec => []RecordsOK
<1>1. RecordsOK /\ TypeOK /\ [Next]_vars => RecordsOK'
  BY RecordsStep
<1> QED
  BY <1>1, RecordsInit, TypeCorrect, PTL DEF Spec

\* However claims, lost tabs, replaced workers and lapsed leases alternate, a
\* job is claimed no more often than its attempts allow.
THEOREM AttemptsStayBounded == Spec => []AttemptsBounded
BY RecordsCorrect, RecordsImply, PTL

\* No renewal brings a lease back into force once the request deadline passed.
THEOREM LeasesEndAtDeadline == Spec => []NoLeaseAfterDeadline
BY RecordsCorrect, RecordsImply, PTL

\* A requester is woken by the end of its job, unless its attempts ran out.
THEOREM WakeupLostOnlyByExhaustion == Spec => []LostWakeupOnlyByExhaustion
BY RecordsCorrect, RecordsImply, PTL

\* A job that has completed or failed never changes its outcome.
THEOREM OutcomesAreFinal == Spec => OutcomeIsFinal
<1>1. TypeOK /\ [Next]_vars => [KeepsOutcomes]_vars
  BY EveryStepMovesJobs, JobMoveEffect DEF KeepsOutcomes
<1> QED
  BY <1>1, TypeCorrect, PTL DEF Spec, OutcomeIsFinal

\* No step completes a job whose deadline has passed.
THEOREM NothingCompletesLate == Spec => NoCompletionAfterDeadline
<1>1. TypeOK /\ [Next]_vars => [CompletesInTime]_vars
  BY EveryStepMovesJobs, JobMoveEffect DEF CompletesInTime
<1> QED
  BY <1>1, TypeCorrect, PTL DEF Spec, NoCompletionAfterDeadline

\* A job never changes its tab and keeps its token.
THEOREM TokensFollowTabs == Spec => TokenFollowsTab
<1>1. TypeOK /\ [Next]_vars => [RenewsTokens]_vars
  BY EveryStepMovesJobs, JobMoveEffect DEF RenewsTokens
<1> QED
  BY <1>1, TypeCorrect, PTL DEF Spec, TokenFollowsTab

-----------------------------------------------------------------------------
(* Exclusive claims.                                                       *)

\* A quiet move claims nothing and gives no waiting job a tab, and the only one
\* that takes a claim from a lease in force is one that turns the worker out.
LEMMA QuietMoveEffect ==
    ASSUME NEW b \in JobRecord, NEW d, QuietMove(b, d)
    PROVE  /\ d.status = "claimed" => b.status = "claimed" /\ d.tab = b.tab
           /\ Presets = {NoTab} /\ (b.status = "queued" => b.tab = NoTab)
              => (d.status = "queued" => d.tab = NoTab)
           /\ /\ b.status = "claimed" /\ b.lease = "held"
              /\ d.status \in Active /\ d.token # b.token
              => Ousted(b.owner)
<1> DEFINE Effect ==
        /\ d.status = "claimed" => b.status = "claimed" /\ d.tab = b.tab
        /\ Presets = {NoTab} /\ (b.status = "queued" => b.tab = NoTab)
           => (d.status = "queued" => d.tab = NoTab)
        /\ /\ b.status = "claimed" /\ b.lease = "held"
           /\ d.status \in Active /\ d.token # b.token
           => Ousted(b.owner)
<1> SUFFICES Effect
  OBVIOUS
<1> USE DEF JobRecord, Status, Active
<1>1. CASE d = b
  BY <1>1
<1>2. CASE /\ b.status = "none"
           /\ \E p \in Presets, t \in Deadlines :
                 d = [NoJob EXCEPT !.status = "queued", !.tab = p, !.due = t, !.event = "waiting"]
  BY <1>2 DEF NoJob
<1>3. CASE d = Finished(b, "failed")
  BY <1>3 DEF Finished, CanFinish, Signalled
<1>4. CASE b.status \in Active /\ d = TimedOut(b)
  BY <1>4 DEF TimedOut, Signalled
<1>5. CASE b.status = "claimed" /\ d = Renewed(b)
  BY <1>5 DEF Renewed, LeaseFor
<1>6. CASE b.status = "claimed" /\ b.lease = "lapsed" /\ d = LeaseExpired(b)
  BY <1>6 DEF LeaseExpired, RetryState
<1>7. CASE b.status = "claimed" /\ b.lease # "held" /\ d = BrowserStale(b)
  BY <1>7 DEF BrowserStale, RetryState
<1>8. CASE b.status = "claimed" /\ Ousted(b.owner) /\ d = RuntimeReplaced(b)
  BY <1>8 DEF RuntimeReplaced, BrowserStale, RetryState
<1>9. CASE b.status = "claimed" /\ b.due # "past" /\ d = Finished(b, "completed")
  BY <1>9 DEF Finished, CanFinish, Signalled
<1>10. CASE d = Lapsed(b)
  BY <1>10 DEF Lapsed
<1>11. CASE d = [Lapsed(b) EXCEPT !.due = "past"]
  BY <1>11 DEF Lapsed
<1>12. CASE d = Restored(b)
  BY <1>12 DEF Restored
<1> HIDE DEF Effect, JobRecord, Status, Active
<1> QED
  BY <1>1, <1>2, <1>3, <1>4, <1>5, <1>6, <1>7, <1>8, <1>9, <1>10, <1>11, <1>12 DEF QuietMove

\* A waiting job has no tab unless its submission named one.
QueuedFree == \A j \in Job : job[j].status = "queued" => job[j].tab = NoTab

LEMMA ExclusiveStep ==
    ASSUME Presets = {NoTab}, TypeOK, QueuedFree, OneClaimPerTab, [Next]_vars
    PROVE  QueuedFree' /\ OneClaimPerTab'
<1> USE DEF QueuedFree, OneClaimPerTab, Claimed
<1>1. \A j \in Job : job[j] \in JobRecord
  BY DEF TypeOK
<1>2. CASE JobsQuiet
  BY <1>1, <1>2, QuietMoveEffect DEF JobsQuiet
<1>3. ASSUME NEW i \in Job, NEW t \in Tab, NEW c \in Client, NEW v \in Conv, ClaimStep(i, t, c, v)
      PROVE  QueuedFree' /\ OneClaimPerTab'
  <2>1. job'[i].status = "claimed" /\ job'[i].tab = t
    BY <1>1, <1>3 DEF ClaimStep, ClaimedBy, JobRecord
  <2>2. \A k \in Job \ {i} : ~(job[k].status = "claimed" /\ job[k].tab = t)
    BY <1>3 DEF ClaimStep, Eligible, ClaimedOn
  <2>3. \A k \in Job \ {i} :
           /\ job'[k].status = "claimed" => job[k].status = "claimed" /\ job'[k].tab = job[k].tab
           /\ job'[k].status = "queued" => job'[k].tab = NoTab
    BY <1>1, <1>3, QuietMoveEffect DEF ClaimStep
  <2> QED
    BY <2>1, <2>2, <2>3
<1>4. ASSUME NEW i \in Job, ResumeStep(i)
      PROVE  FALSE
  BY <1>4, NullAssumption DEF ResumeStep
<1> QED
  BY <1>2, <1>3, <1>4, EveryStep DEF JobsStep

\* No tab ever executes two jobs, provided no submission names a tab: a result
\* can resume a waiting job only on the tab the submission named.
THEOREM TabsAreExclusive ==
    ASSUME Presets = {NoTab}
    PROVE  Spec => []OneClaimPerTab
<1>1. Init => QueuedFree /\ OneClaimPerTab
  BY DEF Init, QueuedFree, OneClaimPerTab, Claimed, NoJob
<1>2. TypeOK /\ QueuedFree /\ OneClaimPerTab /\ [Next]_vars => QueuedFree' /\ OneClaimPerTab'
  BY ExclusiveStep
<1> QED
  BY <1>1, <1>2, TypeCorrect, PTL DEF Spec

\* A job under a lease in force changes hands only in a step that turns its
\* worker out as a whole: all its claims, and its session or its tabs.
THEOREM LeasesAreRespected == Spec => HeldLeaseIsRespected
<1>1. ASSUME TypeOK, [Next]_vars
      PROVE  RespectsLeases
  <2> SUFFICES ASSUME NEW j \in Job, job[j].status = "claimed", job[j].lease = "held",
                      job'[j].token # job[j].token, job'[j].status \in Active
               PROVE  Ousted(job[j].owner)
    BY DEF RespectsLeases, Claimed, Ousted
  <2>1. job[j] \in JobRecord /\ JobMove(job[j], job'[j])
    BY <1>1, EveryStepMovesJobs
  <2>2. QuietMove(job[j], job'[j])
    BY <2>1 DEF JobMove
  <2> QED
    BY <2>1, <2>2, QuietMoveEffect
<1>2. TypeOK /\ [Next]_vars => [RespectsLeases]_vars
  BY <1>1
<1> QED
  BY <1>2, TypeCorrect, PTL DEF Spec, HeldLeaseIsRespected

-----------------------------------------------------------------------------
(* Refinement.                                                             *)

\* What the refinement mapping shows of one job.
LEMMA MappedJob ==
    ASSUME NEW j \in Job
    PROVE  /\ [k \in Job |-> PhaseOf(job[k])][j] = PhaseOf(job[j])
           /\ [k \in Job |-> job[k].token][j] = job[j].token
           /\ [k \in Job |-> job[k].attempt][j] = job[j].attempt
           /\ [k \in Job |-> job[k].due = "past"][j] = (job[j].due = "past")
OBVIOUS

\* What JobMove means for the variables of the abstract specification.
AbstractMove(b, d) ==
    LET same == d.token = b.token /\ d.attempt = b.attempt
        new  == d.token = b.token + 1 /\ d.attempt \in {b.attempt, b.attempt + 1}
    IN  /\ \/ d.status = b.status /\ same
           \/ b.status = "none" /\ d.status = "queued" /\ same
           \/ /\ b.status = "queued" /\ d.status = "claimed" /\ b.due # "past"
              /\ d.token = b.token + 1 /\ d.attempt = b.attempt + 1
           \/ b.status = "queued" /\ d.status = "claimed" /\ same
           \/ /\ b.status = "claimed" /\ d.status = "queued" /\ new
              /\ b.attempt < MaxClaimAttempts
           \/ b.status = "claimed" /\ d.status = "completed" /\ b.due # "past" /\ same
           \/ b.status \in Active /\ d.status = "failed" /\ (same \/ new)
        /\ \/ (d.due = "past") = (b.due = "past")
           \/ d.due = "past" /\ d.status = b.status /\ same

LEMMA JobMoveIsAbstract ==
    ASSUME NEW b \in JobRecord, NEW d, RecordOK(b), JobMove(b, d)
    PROVE  AbstractMove(b, d)
<1> USE AttemptsAssumption DEF JobRecord, Status, Active, AbstractMove
<1>1. CASE d = b
  BY <1>1
<1>2. CASE /\ b.status = "none"
           /\ \E p \in Presets, t \in Deadlines :
                 d = [NoJob EXCEPT !.status = "queued", !.tab = p, !.due = t, !.event = "waiting"]
  BY <1>2, DeadlinesAssumption DEF NoJob, RecordOK
<1>3. CASE d = Finished(b, "failed")
  BY <1>3 DEF Finished, CanFinish
<1>4. CASE b.status \in Active /\ d = TimedOut(b)
  BY <1>4 DEF TimedOut
<1>5. CASE b.status = "claimed" /\ d = Renewed(b)
  BY <1>5 DEF Renewed
<1>6. CASE b.status = "claimed" /\ d = LeaseExpired(b)
  BY <1>6 DEF LeaseExpired, RetryState
<1>7. CASE b.status = "claimed" /\ d = BrowserStale(b)
  BY <1>7 DEF BrowserStale, RetryState
<1>8. CASE b.status = "claimed" /\ d = RuntimeReplaced(b)
  BY <1>8 DEF RuntimeReplaced, BrowserStale, RetryState
<1>9. CASE b.status = "queued" /\ b.due # "past" /\ \E t \in Tab, c \in Client : d = ClaimedBy(b, t, c)
  BY <1>9 DEF ClaimedBy
<1>10. CASE b.status = "queued" /\ d = [b EXCEPT !.status = "claimed"]
  BY <1>10
<1>11. CASE b.status = "claimed" /\ b.due # "past" /\ d = Finished(b, "completed")
  BY <1>11 DEF Finished, CanFinish
<1>12. CASE d = Lapsed(b)
  BY <1>12 DEF Lapsed
<1>13. CASE d = [Lapsed(b) EXCEPT !.due = "past"]
  BY <1>13 DEF Lapsed
<1>14. CASE d = Restored(b)
  BY <1>14 DEF Restored
<1> HIDE DEF AbstractMove, JobRecord, Status, Active
<1> QED
  BY <1>1, <1>2, <1>3, <1>4, <1>5, <1>6, <1>7, <1>8, <1>9, <1>10, <1>11, <1>12, <1>13, <1>14
     DEF JobMove, QuietMove

\* A move of a record is a move of the abstract job.
LEMMA MoveRefines ==
    ASSUME NEW j \in Job, job[j] \in JobRecord, AbstractMove(job[j], job'[j])
    PROVE  Lifecycle!Move(j)
BY DEF AbstractMove, Lifecycle!Move, Lifecycle!Stay, Lifecycle!Submit, Lifecycle!Claim,
       Lifecycle!Resume, Lifecycle!Release, Lifecycle!Complete, Lifecycle!Fail, Lifecycle!Late,
       Lifecycle!Moves, Lifecycle!SameClaim, Lifecycle!NewToken, PhaseOf, JobRecord, Status, Active

\* At most one job is claimed in a step.
LEMMA OneNewClaim ==
    ASSUME TypeOK, [Next]_vars, NEW j \in Job, NEW k \in Job,
           Lifecycle!Claim(j), Lifecycle!Claim(k)
    PROVE  j = k
<1>1. ASSUME NEW i \in Job, Lifecycle!Claim(i)
      PROVE  /\ job[i].status = "queued" /\ job'[i].status = "claimed"
             /\ job'[i].token = job[i].token + 1
  <2>1. job[i] \in JobRecord /\ job'[i] \in JobRecord
    BY TypeStep DEF TypeOK
  <2> QED
    BY <1>1, <2>1 DEF Lifecycle!Claim, Lifecycle!Moves, PhaseOf, JobRecord, Status
<1>2. \A i \in Job : job[i] \in JobRecord /\ job[i].token + 1 # job[i].token
  BY DEF TypeOK, JobRecord
<1>3. \A i \in Job : job[i].status = "queued" /\ job'[i].status = "claimed"
                    => ~QuietMove(job[i], job'[i])
  BY <1>2, QuietMoveEffect
<1>4. CASE JobsQuiet
  BY <1>1, <1>3, <1>4 DEF JobsQuiet
<1>5. ASSUME NEW i \in Job, NEW t \in Tab, NEW c \in Client, NEW v \in Conv, ClaimStep(i, t, c, v)
      PROVE  j = k
  BY <1>1, <1>3, <1>5 DEF ClaimStep
<1>6. ASSUME NEW i \in Job, ResumeStep(i)
      PROVE  j = k
  BY <1>1, <1>2, <1>6 DEF ResumeStep, TypeOK, JobRecord
<1> QED
  BY <1>4, <1>5, <1>6, EveryStep DEF JobsStep

\* Every behaviour of the coordinator is one of the abstract job lifecycle.
THEOREM Refinement == Spec => ImplementsLifecycle
<1>1. Init => Lifecycle!Init
  <2>1. /\ PhaseOf(NoJob) = "absent"
        /\ NoJob.token = 0 /\ NoJob.attempt = 0 /\ (NoJob.due = "past") = FALSE
    BY DEF PhaseOf, NoJob
  <2> QED
    BY <2>1 DEF Init, Lifecycle!Init
<1>2. TypeOK /\ RecordsOK /\ [Next]_vars => [Lifecycle!Next]_Lifecycle!vars
  <2> SUFFICES ASSUME TypeOK, RecordsOK, [Next]_vars
               PROVE  Lifecycle!Next
    OBVIOUS
  <2>1. ASSUME NEW j \in Job
        PROVE  Lifecycle!Move(j)
    BY EveryStepMovesJobs, JobMoveIsAbstract, MoveRefines DEF RecordsOK
  <2> QED
    BY <2>1, OneNewClaim DEF Lifecycle!Next
<1> QED
  BY <1>1, <1>2, TypeCorrect, RecordsCorrect, PTL DEF Spec, ImplementsLifecycle, Lifecycle!Spec

-----------------------------------------------------------------------------
(* The queue.                                                              *)

\* The status each operator on a record leaves it in.
LEMMA StatusAfter ==
    ASSUME NEW b \in JobRecord
    PROVE  /\ Finished(b, "failed").status # "queued"
           /\ Finished(b, "completed").status = "queued" => b.status = "queued"
           /\ TimedOut(b).status = "failed"
           /\ Renewed(b).status = b.status
           /\ LeaseExpired(b).status = RetryState(b)
           /\ BrowserStale(b).status = RetryState(b)
           /\ RuntimeReplaced(b).status = RetryState(b)
           /\ Lapsed(b).status = b.status
           /\ [Lapsed(b) EXCEPT !.due = "past"].status = b.status
           /\ Restored(b).status # "queued"
<1>1. /\ Finished(b, "failed").status # "queued"
      /\ Finished(b, "completed").status = "queued" => b.status = "queued"
  BY DEF Finished, CanFinish, JobRecord, Status
<1>2. TimedOut(b).status = "failed"
  BY DEF TimedOut, JobRecord
<1>3. Renewed(b).status = b.status
  BY DEF Renewed, JobRecord
<1>4. /\ LeaseExpired(b).status = RetryState(b)
      /\ BrowserStale(b).status = RetryState(b)
      /\ RuntimeReplaced(b).status = RetryState(b)
  BY DEF LeaseExpired, BrowserStale, RuntimeReplaced, JobRecord
<1>5. Lapsed(b).status = b.status /\ [Lapsed(b) EXCEPT !.due = "past"].status = b.status
  BY DEF Lapsed, JobRecord
<1>6. Restored(b).status # "queued"
  BY DEF Restored, JobRecord, Active
<1> QED
  BY <1>1, <1>2, <1>3, <1>4, <1>5, <1>6

QueueOK == NoLostJob /\ ListedOnce

\* What a step must do to the jobs for the list to stay right: it may only make
\* those of back wait, and only those of gone that no longer wait leave the list.
LEMMA StillListed ==
    ASSUME TypeOK, QueueOK, NEW gone, NEW back,
           queue' = Requeued(gone, back),
           resetting' = resetting,
           \A j \in Job : job'[j].status = "queued"
                         => j \notin gone /\ (j \in back \/ job[j].status = "queued")
    PROVE  QueueOK'
<1>1. ListedOnce'
  BY DEF QueueOK, ListedOnce, Requeued
<1>2. \A j \in Job : j \notin gone /\ (j \in back \/ InQueue(j)) => queue'[j] # {}
  BY DEF Requeued, InQueue
<1>3. NoLostJob'
  BY <1>2 DEF QueueOK, NoLostJob, InQueue
<1> QED
  BY <1>1, <1>3 DEF QueueOK

\* A step that leaves the list alone must not make a job wait.
LEMMA ListUntouched ==
    ASSUME QueueOK, queue' = queue, resetting \subseteq resetting',
           \A j \in Job : job'[j].status = "queued" => job[j].status = "queued"
    PROVE  QueueOK'
BY DEF QueueOK, NoLostJob, ListedOnce, InQueue

LEMMA RequestQueue ==
    ASSUME TypeOK, QueueOK, Request
    PROVE  QueueOK'
<1>1. \A j \in Job : job[j] \in JobRecord
  BY DEF TypeOK
<1>2. ASSUME NEW j \in Job, NewBrowserJob(j)
      PROVE  QueueOK'
  <2>1. \A k \in Job : job'[k].status = "queued" => k \notin {} /\ (k \in {j} \/ job[k].status = "queued")
    BY <1>2 DEF NewBrowserJob, TypeOK
  <2> QED
    BY <1>2, <2>1, StillListed DEF NewBrowserJob
<1>3. ASSUME NEW j \in Job, RequesterTimeout(j)
      PROVE  QueueOK'
  <2>1. Finished(job[j], "failed").status # "queued"
    BY <1>1, StatusAfter
  <2>2. \A k \in Job : job'[k].status = "queued" => job[k].status = "queued"
    BY <1>3, <2>1 DEF RequesterTimeout, TypeOK
  <2> QED
    BY <1>3, <2>2, ListUntouched DEF RequesterTimeout
<1>4. ASSUME NEW j \in Job, ResetJob(j)
      PROVE  QueueOK'
  <2>1. Finished(job[j], "failed").status # "queued"
    BY <1>1, StatusAfter
  <2>2. job'[j].status # "queued" /\ \A k \in Job \ {j} : job'[k] = job[k]
    BY <1>4, <2>1 DEF ResetJob, TypeOK
  <2> QED
    BY <1>4, <2>2 DEF ResetJob, QueueOK, NoLostJob, ListedOnce, InQueue
<1>5. CASE ResetBegin
  BY <1>5 DEF ResetBegin, QueueOK, NoLostJob, ListedOnce, Active
<1> QED
  BY <1>2, <1>3, <1>4, <1>5 DEF Request

LEMMA ReapQueue ==
    ASSUME TypeOK, QueueOK, ReapExpiredBrowserJobs, resetting' = resetting
    PROVE  QueueOK'
<1>1. PICK aged \in SUBSET Job : AgedQueue(aged) /\ ReapedOf(aged)
  BY DEF ReapExpiredBrowserJobs
<1> DEFINE gone == {j \in Job : PastDue(job[j])} \cup aged
           back == {j \in Expired(gone) : RetryState(job[j]) = "queued"}
<1>2. ASSUME NEW j \in Job, job'[j].status = "queued"
      PROVE  j \notin gone /\ (j \in back \/ job[j].status = "queued")
  <2>1. job[j] \in JobRecord /\ job'[j] = Reaped(job[j], j \in aged)
    BY <1>1 DEF ReapedOf, TypeOK
  <2>2. j \notin gone
    BY <1>2, <2>1, StatusAfter DEF Reaped
  <2>3. CASE job[j].status = "claimed" /\ job[j].lease = "lapsed"
    <3>1. ~PastDue(job[j]) /\ ~(j \in aged)
      BY <2>2
    <3>2. job'[j] = LeaseExpired(job[j])
      BY <2>1, <2>3, <3>1 DEF Reaped
    <3>3. RetryState(job[j]) = "queued"
      BY <1>2, <2>1, <3>2, StatusAfter
    <3> QED
      BY <2>2, <2>3, <3>3 DEF Expired, Claimed
  <2>4. CASE ~(job[j].status = "claimed" /\ job[j].lease = "lapsed")
    <3>1. ~PastDue(job[j]) /\ ~(j \in aged)
      BY <2>2
    <3>2. job'[j] = job[j] \/ job'[j] = Renewed(job[j])
      BY <2>1, <2>4, <3>1 DEF Reaped
    <3> QED
      BY <1>2, <2>1, <2>2, <3>2, StatusAfter
  <2> QED
    BY <2>2, <2>3, <2>4
<1>3. queue' = Requeued(gone, back)
  BY <1>1 DEF ReapedOf
<1> HIDE DEF gone, back
<1> QED
  BY <1>2, <1>3, StillListed

LEMMA HousekeepingQueue ==
    ASSUME TypeOK, QueueOK, Housekeeping
    PROVE  QueueOK'
<1>1. \A j \in Job : job[j] \in JobRecord
  BY DEF TypeOK
<1>2. CASE Reap
  BY <1>2, ReapQueue DEF Reap
<1>3. CASE ReapBrowserRequestDeadlines
  <2> DEFINE gone == {j \in Job : PastDue(job[j])}
  <2>1. \A j \in Job : job'[j].status = "queued" => j \notin gone /\ (j \in {} \/ job[j].status = "queued")
    BY <1>1, <1>3, StatusAfter DEF ReapBrowserRequestDeadlines
  <2>2. queue' = Requeued(gone, {}) /\ resetting' = resetting
    BY <1>3 DEF ReapBrowserRequestDeadlines
  <2> QED
    BY <2>1, <2>2, StillListed
<1>4. CASE PurgeStaleBrowserState
  <2>1. PICK old \in SUBSET Tab, forgotten \in SUBSET Client : PurgedOf(old, forgotten)
    BY <1>4 DEF PurgeStaleBrowserState
  <2> DEFINE back == {j \in Lost(old) : RetryState(job[j]) = "queued"}
  <2>2. \A j \in Job : job'[j].status = "queued" => j \notin {} /\ (j \in back \/ job[j].status = "queued")
    BY <1>1, <2>1, StatusAfter DEF PurgedOf
  <2>3. queue' = Requeued({}, back) /\ resetting' = resetting
    BY <2>1 DEF PurgedOf
  <2> QED
    BY <2>2, <2>3, StillListed
<1> QED
  BY <1>2, <1>3, <1>4 DEF Housekeeping

LEMMA PollQueue ==
    ASSUME TypeOK, QueueOK, Poll
    PROVE  QueueOK'
<1>1. \A j \in Job : job[j] \in JobRecord
  BY DEF TypeOK
<1>2. ASSUME NEW V, NEW j \in Job, Skipped(V)[j].status = "queued"
      PROVE  j \notin Dropped(V) /\ job[j].status = "queued"
  BY <1>1, <1>2, StatusAfter DEF Skipped, Dropped, PastDue
<1>3. ASSUME NEW c \in Client, PollReap(c)
      PROVE  QueueOK'
  BY <1>3, ReapQueue DEF PollReap
<1>4. ASSUME NEW c \in Client, PollIgnored(c) \/ \E r \in Runtime : PollAdmit(c, r)
      PROVE  QueueOK'
  BY <1>4, ListUntouched DEF PollIgnored, PollAdmit
<1>5. ASSUME NEW c \in Client, NEW t \in Tab, NEW v \in Conv, PollFindsNothing(c, t, v)
      PROVE  QueueOK'
  <2> DEFINE V == {k \in Job : InQueue(k)}
  <2>1. job' = Skipped(V) /\ queue' = Requeued(Dropped(V), {}) /\ resetting' = resetting
    BY <1>5 DEF PollFindsNothing
  <2> HIDE DEF V
  <2>2. \A j \in Job : job'[j].status = "queued"
                      => j \notin Dropped(V) /\ (j \in {} \/ job[j].status = "queued")
    BY <1>2, <2>1
  <2> QED
    BY <2>1, <2>2, StillListed
<1>6. ASSUME NEW c \in Client, NEW t \in Tab, NEW v \in Conv, PollClaim(c, t, v)
      PROVE  QueueOK'
  <2>1. PICK i \in Job :
           /\ job' = [Skipped({k \in Job : ListedBefore(k, i)}) EXCEPT ![i] = ClaimedBy(@, t, c)]
           /\ queue' = Requeued(Dropped({k \in Job : ListedBefore(k, i)}) \cup {i}, {})
           /\ Eligible(i, t, v)
    BY <1>6 DEF PollClaim
  <2> DEFINE V == {k \in Job : ListedBefore(k, i)}
             S == Skipped(V)
  <2>2. S[i] = job[i] /\ S = [j \in Job |-> S[j]]
    BY <2>1 DEF Skipped, Eligible, PastDue
  <2>3. resetting' = resetting
    BY <1>6 DEF PollClaim
  <2>4. job' = [S EXCEPT ![i] = ClaimedBy(S[i], t, c)] /\ queue' = Requeued(Dropped(V) \cup {i}, {})
    BY <2>1
  <2>5. ClaimedBy(job[i], t, c).status = "claimed"
    BY <1>1 DEF ClaimedBy, JobRecord
  <2>6. \A j \in Job : S[j].status = "queued" => j \notin Dropped(V) /\ job[j].status = "queued"
    BY <1>2
  <2> HIDE DEF V, S
  <2>7. job'[i].status = "claimed" /\ \A j \in Job \ {i} : job'[j] = S[j]
    BY <2>2, <2>4, <2>5
  <2>8. \A j \in Job : job'[j].status = "queued"
                      => j \notin Dropped(V) \cup {i} /\ (j \in {} \/ job[j].status = "queued")
    BY <2>6, <2>7
  <2> QED
    BY <2>3, <2>4, <2>8, StillListed
<1> QED
  BY <1>3, <1>4, <1>5, <1>6 DEF Poll

LEMMA InventoryQueue ==
    ASSUME TypeOK, QueueOK, Inventory
    PROVE  QueueOK'
<1>1. \A j \in Job : job[j] \in JobRecord
  BY DEF TypeOK
<1>2. ASSUME NEW c \in Client, NEW t \in Tab, NEW r \in Runtime, NEW onSite \in BOOLEAN,
             NegativeHeartbeat(c, t, r, onSite)
      PROVE  QueueOK'
  <2>1. \A j \in Job : job'[j].status = "queued" => job[j].status = "queued"
    BY <1>1, <1>2, StatusAfter DEF NegativeHeartbeat
  <2> QED
    BY <1>2, <2>1, ListUntouched DEF NegativeHeartbeat
<1>3. ASSUME NEW c \in Client, NEW t \in Tab, NEW r \in Runtime, NEW onSite \in BOOLEAN,
             NEW mode, NEW v, ReadyHeartbeat(c, t, r, onSite, mode, v)
      PROVE  QueueOK'
  <2>1. \A j \in Job : job'[j].status = "queued" => job[j].status = "queued"
    BY <1>1, <1>3, StatusAfter DEF ReadyHeartbeat
  <2> QED
    BY <1>3, <2>1, ListUntouched DEF ReadyHeartbeat
<1>4. ASSUME NEW c \in Client, NEW r \in Runtime, BrowserRegister(c, r)
      PROVE  QueueOK'
  <2> DEFINE back == {j \in Revoked(c, r) : RetryState(job[j]) = "queued"}
  <2>1. PICK away \in SUBSET Tab :
           /\ job' = [j \in Job |-> IF j \in Revoked(c, r) THEN RuntimeReplaced(job[j])
                                    ELSE IF j \in Left(c, away, Revoked(c, r))
                                         THEN Finished(job[j], "failed")
                                    ELSE job[j]]
           /\ queue' = Requeued({}, back)
           /\ resetting' = resetting
    BY <1>4 DEF BrowserRegister, Registered
  <2>2. \A j \in Job : job'[j].status = "queued" => j \notin {} /\ (j \in back \/ job[j].status = "queued")
    BY <1>1, <2>1, StatusAfter
  <2> QED
    BY <2>1, <2>2, StillListed
<1>5. ASSUME NEW t \in Tab, NEW onSite \in BOOLEAN, PagePresence(t, onSite)
      PROVE  QueueOK'
  BY <1>5, ListUntouched DEF PagePresence
<1>6. ASSUME NEW c \in Client, RegistrationRefused(c)
      PROVE  QueueOK'
  <2> DEFINE back == {j \in ClaimsOf(c) : RetryState(job[j]) = "queued"}
  <2>1. /\ job' = [j \in Job |-> IF j \in ClaimsOf(c) THEN RuntimeReplaced(job[j]) ELSE job[j]]
        /\ queue' = Requeued({}, back)
        /\ resetting' = resetting
    BY <1>6 DEF RegistrationRefused
  <2>2. \A j \in Job : job'[j].status = "queued" => j \notin {} /\ (j \in back \/ job[j].status = "queued")
    BY <1>1, <2>1, StatusAfter
  <2> QED
    BY <2>1, <2>2, StillListed
<1> QED
  BY <1>2, <1>3, <1>4, <1>5, <1>6 DEF Inventory

LEMMA PageQueue ==
    ASSUME TypeOK, QueueOK, Page
    PROVE  QueueOK'
<1>1. \A j \in Job : job[j] \in JobRecord
  BY DEF TypeOK
<1>2. ASSUME NEW j \in Job, NEW gone, gone = (IF PastDue(job[j]) THEN {j} ELSE {}),
             job[j].status = "claimed",
             \/ job' = [job EXCEPT ![j] = TimedOut(job[j])]
             \/ job' = job /\ gone = {}
             \/ job' = [job EXCEPT ![j] = Renewed(job[j])] /\ gone = {},
             queue' = Requeued(gone, {}), resetting' = resetting
      PROVE  QueueOK'
  <2>1. \A k \in Job : job'[k].status = "queued"
                      => k \notin gone /\ (k \in {} \/ job[k].status = "queued")
    BY <1>1, <1>2, StatusAfter DEF TypeOK
  <2> QED
    BY <1>2, <2>1, StillListed
<1>3. ASSUME NEW j \in Job, NEW t \in Tab, NEW c \in Client, NEW tok, NEW empty \in BOOLEAN,
             AppendBrowserDelta(j, tok, t, c, empty)
      PROVE  QueueOK'
  BY <1>2, <1>3 DEF AppendBrowserDelta, ValidActor, TypeOK
<1>4. ASSUME NEW j \in Job, NEW t \in Tab, NEW c \in Client, NEW tok, RenewBrowserClaim(j, tok, t, c)
      PROVE  QueueOK'
  BY <1>2, <1>4 DEF RenewBrowserClaim, ValidActor
<1>5. ASSUME NEW h \in Handler, NEW j \in Job, NEW t \in Tab, NEW c \in Client,
             NEW ok \in BOOLEAN, NEW tok, ResultReceived(h, j, tok, t, c, ok)
      PROVE  QueueOK'
  <2>1. \A k \in Job : job'[k].status = "queued" => job[k].status = "queued"
    BY <1>1, <1>5 DEF ResultReceived, TypeOK, JobRecord
  <2> QED
    BY <1>5, <2>1, ListUntouched DEF ResultReceived
<1>6. ASSUME NEW h \in Handler, ResultValidated(h)
      PROVE  QueueOK'
  <2> DEFINE a == answer[h]
             late == ValidActor(job[a.job], a.token, a.tab, a.client) /\ PastDue(job[a.job])
             gone == IF late THEN {a.job} ELSE {}
  <2>1. a.job \in Job
    BY <1>6 DEF ResultValidated, TypeOK, Answer
  <2>2. /\ job' = [job EXCEPT ![a.job] = IF late THEN TimedOut(@) ELSE @]
        /\ queue' = Requeued(gone, {})
        /\ resetting' = resetting
    BY <1>6 DEF ResultValidated
  <2> HIDE DEF late
  <2>3. \A k \in Job : job'[k].status = "queued"
                      => k \notin gone /\ (k \in {} \/ job[k].status = "queued")
    BY <1>1, <2>1, <2>2, StatusAfter DEF TypeOK
  <2> QED
    BY <2>2, <2>3, StillListed
<1>7. ASSUME NEW h \in Handler, ResultCommitted(h)
      PROVE  QueueOK'
  <2> DEFINE i == answer[h].job
             ok == answer[h].ok
             gone == IF PastDue(job[i]) THEN {i} ELSE {}
  <2>1. i \in Job
    BY <1>7 DEF ResultCommitted, TypeOK, Answer
  <2>2. /\ job' = [job EXCEPT ![i] = Committed(job[i], ok)]
        /\ queue' = Requeued(gone, {})
        /\ resetting' = resetting
    BY <1>7 DEF ResultCommitted
  <2>3. Committed(job[i], ok).status = "queued" => i \notin gone /\ job[i].status = "queued"
    BY <1>1, <2>1, StatusAfter DEF Committed
  <2> HIDE DEF gone
  <2>4. gone \subseteq {i}
    BY DEF gone
  <2>5. \A k \in Job : job'[k].status = "queued"
                      => k \notin gone /\ (k \in {} \/ job[k].status = "queued")
    BY <2>1, <2>2, <2>3, <2>4 DEF TypeOK
  <2> QED
    BY <2>2, <2>5, StillListed
<1>8. ASSUME NEW h \in Handler, ResultRefused(h)
      PROVE  QueueOK'
  BY <1>8, ListUntouched DEF ResultRefused
<1> QED
  BY <1>3, <1>4, <1>5, <1>6, <1>7, <1>8 DEF Page

LEMMA QueueStep ==
    ASSUME TypeOK, QueueOK, [Next]_vars
    PROVE  QueueOK'
<1>1. \A j \in Job : job[j] \in JobRecord
  BY DEF TypeOK
<1>2. ASSUME NEW j \in Job, LeaseLapses(j) \/ DeadlinePasses(j)
      PROVE  QueueOK'
  <2>1. \E b \in {Lapsed(job[j]), [Lapsed(job[j]) EXCEPT !.due = "past"]} :
          job' = [job EXCEPT ![j] = b]
    BY <1>2 DEF LeaseLapses, DeadlinePasses
  <2>2. \A b \in {Lapsed(job[j]), [Lapsed(job[j]) EXCEPT !.due = "past"]} :
          b.status = job[j].status
    BY <1>1 DEF Lapsed, JobRecord
  <2>3. \A k \in Job : job'[k].status = "queued" => job[k].status = "queued"
    BY <2>1, <2>2 DEF TypeOK
  <2> QED
    BY <1>2, <2>3, ListUntouched DEF LeaseLapses, DeadlinePasses
<1>3. ASSUME NEW v \in Conv, BindingExpires(v)
      PROVE  QueueOK'
  BY <1>3, ListUntouched DEF BindingExpires
<1>4. CASE RestoreBrowserState
  BY <1>1, <1>4, StatusAfter DEF RestoreBrowserState, QueueOK, NoLostJob, ListedOnce
<1>5. CASE UNCHANGED vars
  BY <1>5, ListUntouched DEF vars
<1> QED
  BY <1>2, <1>3, <1>4, <1>5, RequestQueue, HousekeepingQueue, PollQueue, InventoryQueue, PageQueue
     DEF Next, Clock

LEMMA QueueCorrect == Spec => []QueueOK
<1>1. Init => QueueOK
  BY DEF Init, QueueOK, NoLostJob, ListedOnce, NoJob
<1>2. TypeOK /\ QueueOK /\ [Next]_vars => QueueOK'
  BY QueueStep
<1> QED
  BY <1>1, <1>2, TypeCorrect, PTL DEF Spec

\* A job that waits is in the list, unless a reset is about to fail it.
THEOREM NoJobIsLost == Spec => []NoLostJob
BY QueueCorrect, PTL DEF QueueOK

\* No job is listed twice.
THEOREM JobsAreListedOnce == Spec => []ListedOnce
BY QueueCorrect, PTL DEF QueueOK
=============================================================================
