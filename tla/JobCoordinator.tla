--------------------------- MODULE JobCoordinator ---------------------------
(***************************************************************************)
(* The job coordinator of the relay server (src/server/api_server.py): the *)
(* browser jobs, the queue they wait in, the claims extension workers take *)
(* on them, the leases and request deadlines that end a claim, and the tab *)
(* inventory that decides which claims are still served.                   *)
(*                                                                         *)
(* Flask serves every request in its own thread, and the handlers share    *)
(* the state under one re-entrant lock, BROWSER_LOCK.  A lock section is   *)
(* one atomic step here; a handler with several sections is several steps, *)
(* and the state it carries between them is modelled (polling, resetting,  *)
(* answer).                                                                *)
(*                                                                         *)
(* Time.  The code compares time.time() with stored instants.  The         *)
(* comparisons that must agree with one another are stored as flags: the   *)
(* request deadline (due) passes once, a lease lapses once per renewal,    *)
(* and a lease is never in force after the deadline since its instant is   *)
(* min(now + 300, request deadline).  The ages of the inventory, the       *)
(* registrations and the queue entries are only tested, so that each test  *)
(* may go either way.                                                      *)
(*                                                                         *)
(* All jobs are for one recorded hostname; a tab is on that site or not.   *)
(* Workers poll with a client_id.  ALLOW_LEGACY_BROWSER_RUNTIME is off,    *)
(* its default: heartbeats and registrations without a runtime session, or *)
(* with a "legacy:" one, are refused, and of the two only a refused        *)
(* registration changes anything.                                          *)
(***************************************************************************)
EXTENDS Integers, FiniteSets

CONSTANTS
    NumJobs,          \* jobs are numbered in the order they are created
    Tab,              \* browser tab ids
    Client,           \* extension client ids
    Runtime,          \* runtime session ids of extension workers
    Conv,             \* conversation ids
    ConvOf,           \* the conversation of each job
    Presets,          \* the tab_id a submission may name, or NoTab
    Deadlines,        \* "ahead": the request has a deadline, "none": it has not
    Handler,          \* threads serving /browser/result
    MaxClaimAttempts, \* MAX_CLAIM_ATTEMPTS
    NoTab, NoClient, NoRuntime, NoConv, NoEntry, NoAnswer

Job == 1..NumJobs
NoToken == -1

ASSUME NumJobsAssumption == NumJobs \in Nat
ASSUME ConvAssumption == ConvOf \in [Job -> Conv] /\ NoConv \notin Conv
ASSUME PresetsAssumption == Presets \subseteq Tab \cup {NoTab}
ASSUME DeadlinesAssumption == Deadlines \subseteq {"none", "ahead"}
ASSUME AttemptsAssumption == MaxClaimAttempts \in Nat
ASSUME NullAssumption ==
    /\ NoTab \notin Tab
    /\ NoClient \notin Client
    /\ NoRuntime \notin Runtime

VARIABLES
    job,       \* BROWSER_JOBS: one record per job
    queue,     \* BROWSER_QUEUE: the places at which a job is listed
    entry,     \* BROWSER_CLIENTS: what the server knows of each tab
    reg,       \* BROWSER_REGISTRATIONS: the runtime session of each client
    binding,   \* BROWSER_BINDINGS: the tab a conversation last ran on
    polling,   \* the lock sections each client's /browser/poll has been through
    resetting, \* jobs a /browser/reset has collected and not yet failed
    answer     \* the /browser/result request each handler is serving

vars == <<job, queue, entry, reg, binding, polling, resetting, answer>>

Status == {"none", "queued", "claimed", "completed", "failed"}
Terminal == {"completed", "failed"}
Active == {"queued", "claimed"}

JobRecord ==
    [status: Status, tab: Tab \cup {NoTab}, owner: Client \cup {NoClient},
     token: Nat, attempt: Nat, lease: {"none", "held", "lapsed"},
     due: {"none", "ahead", "past"}, event: {"none", "waiting", "set"}]

\* mode "ready": a content-ready heartbeat or a claim vouches for the tab;
\* "listed": only the worker's inventory calls it ready; "idle": not executable.
Entry == [client: Client \cup {NoClient}, onSite: BOOLEAN, mode: {"ready", "listed", "idle"}]

\* A /browser/result body and the lock sections it has been through.
Answer == [stage: {"received", "checked"}, job: Job, token: Nat \cup {NoToken},
           tab: Tab, client: Client, ok: BOOLEAN]

TypeOK ==
    /\ job \in [Job -> JobRecord]
    /\ queue \in [Job -> SUBSET Nat]
    /\ entry \in [Tab -> Entry \cup {NoEntry}]
    /\ reg \in [Client -> Runtime \cup {NoRuntime}]
    /\ binding \in [Conv -> Tab \cup {NoTab}]
    /\ polling \in [Client -> {"idle", "reaped", "admitted"}]
    /\ resetting \subseteq Job
    /\ answer \in [Handler -> Answer \cup {NoAnswer}]

NoJob == [status |-> "none", tab |-> NoTab, owner |-> NoClient, token |-> 0,
          attempt |-> 0, lease |-> "none", due |-> "none", event |-> "none"]

Init ==
    /\ job = [j \in Job |-> NoJob]
    /\ queue = [j \in Job |-> {}]
    /\ entry = [t \in Tab |-> NoEntry]
    /\ reg = [c \in Client |-> NoRuntime]
    /\ binding = [v \in Conv |-> NoTab]
    /\ polling = [c \in Client |-> "idle"]
    /\ resetting = {}
    /\ answer = [h \in Handler |-> NoAnswer]

-----------------------------------------------------------------------------
(* The queue.  BROWSER_QUEUE is a Python list.  Each place in it is a      *)
(* number, and queue[j] holds the places at which job j is listed, so that *)
(* a job appended twice would be seen.                                     *)

InQueue(j) == queue[j] # {}

First(j) == CHOOSE n \in queue[j] : \A m \in queue[j] : n <= m

Last ==
    LET places == UNION {queue[j] : j \in Job}
        last   == {n \in places : \A m \in places : m <= n}
    IN  IF last = {} THEN 0 ELSE CHOOSE n \in last : TRUE

\* Mutant: a job is appended without looking whether it is listed.
RequeuedBlindly(gone, back) ==
    [j \in Job |->
        IF j \in gone /\ InQueue(j) THEN queue[j] \ {First(j)}
        ELSE IF j \in back THEN queue[j] \cup {Last + j}
        ELSE queue[j]]

\* BROWSER_QUEUE.remove(jid) for the jobs of gone, then BROWSER_QUEUE.append(jid),
\* in creation order, for those of the jobs in back that are not listed.
Requeued(gone, back) ==
    [j \in Job |->
        IF j \in gone /\ InQueue(j) THEN queue[j] \ {First(j)}
        ELSE IF j \in back /\ ~InQueue(j) THEN {Last + j}
        ELSE queue[j]]

-----------------------------------------------------------------------------
(* What the handlers do to one job record.                                 *)

Signalled(b) == IF b.event = "waiting" THEN "set" ELSE b.event

\* Mutant: the lease is not capped by the request deadline.
UncappedLease(b) == "held"

\* browser_job_lease_deadline: min(now + 300, request deadline).
LeaseFor(b) == IF b.due = "past" THEN "lapsed" ELSE "held"

Renewed(b) == [b EXCEPT !.lease = LeaseFor(b)]

\* Mutant: the requester's event is forgotten.
TimedOutSilently(b) == [b EXCEPT !.status = "failed", !.lease = "none"]

\* _fail_browser_job_due_to_request_deadline_locked, on an active job.
TimedOut(b) == [b EXCEPT !.status = "failed", !.lease = "none",
                         !.event = Signalled(b)]

\* Mutant: the name of the recovery action is stored as the status.
RecoveryAction(b) == IF b.attempt >= MaxClaimAttempts THEN "fail" ELSE "requeue"

\* Mutant: one attempt too many.
LenientRetryState(b) == IF b.attempt > MaxClaimAttempts THEN "failed" ELSE "queued"

\* next_job_state(..., "lease_expired" | "browser_stale").
RetryState(b) == IF b.attempt >= MaxClaimAttempts THEN "failed" ELSE "queued"

\* reap_expired_browser_jobs, on a claimed job whose lease has lapsed.
LeaseExpired(b) ==
    [b EXCEPT !.status = RetryState(b), !.tab = NoTab, !.lease = "none",
              !.token = @ + 1, !.attempt = @ + 1]

\* purge_stale_browser_state, on a claimed job whose tab is not live.
BrowserStale(b) ==
    [b EXCEPT !.status = RetryState(b), !.tab = NoTab, !.lease = "none",
              !.token = @ + 1]

\* Mutant: the old worker's token stays good.
RuntimeReplacedKeepingToken(b) ==
    [b EXCEPT !.status = RetryState(b), !.tab = NoTab, !.owner = NoClient, !.lease = "none"]

\* _requeue_claimed_job_for_runtime_replacement_locked.
RuntimeReplaced(b) == [BrowserStale(b) EXCEPT !.owner = NoClient]

\* Mutant: the claim keeps the token of the claim before it.
ClaimedWithOldToken(b, t, c) ==
    [b EXCEPT !.status = "claimed", !.tab = t, !.owner = c,
              !.attempt = @ + 1, !.lease = LeaseFor(b)]

\* claim_browser_job, on the job it hands out.
ClaimedBy(b, t, c) ==
    [b EXCEPT !.status = "claimed", !.tab = t, !.owner = c,
              !.token = @ + 1, !.attempt = @ + 1, !.lease = LeaseFor(b)]

\* Mutant: the state machine is not asked.
CanAlwaysFinish(b, status) == b.status # "none"

\* finish_browser_job(jid, status), when next_job_state lets the job end so: a
\* claimed job may complete, an active one may fail, and an ended one may end
\* once more the way it has.
CanFinish(b, status) ==
    \/ b.status = "claimed"
    \/ b.status = "queued" /\ status = "failed"
    \/ b.status = status

Finished(b, status) ==
    IF CanFinish(b, status)
    THEN [b EXCEPT !.status = status, !.lease = "none", !.event = Signalled(b)]
    ELSE b

PastDue(b) == b.due = "past" /\ b.status \in Active

Claimed(j) == job[j].status = "claimed"

ClaimedOn(j, t) == Claimed(j) /\ job[j].tab = t

\* _active_claim_for_tab: the first of the jobs of among claimed on the tab.
ActiveClaim(j, t, among) ==
    /\ ClaimedOn(j, t)
    /\ \A k \in among : k < j => ~ClaimedOn(k, t)

\* fail_claimed_tab_domain_change: the job a report from another site fails.
LeavesSite(j, t, c, among) ==
    ActiveClaim(j, t, among) /\ job[j].owner \in {NoClient, c}

-----------------------------------------------------------------------------
(* Requests.                                                               *)

\* new_browser_job: /v1/chat/completions, or /browser/submit with its
\* optional tab_id p.
NewBrowserJob(j) ==
    /\ job[j].status = "none"
    /\ \A k \in Job : k < j => job[k].status # "none"
    /\ \E p \in Presets, d \in Deadlines :
          job' = [job EXCEPT ![j] = [NoJob EXCEPT !.status = "queued", !.tab = p,
                                                  !.due = d, !.event = "waiting"]]
    /\ queue' = Requeued({}, {j})
    /\ UNCHANGED <<entry, reg, binding, polling, resetting, answer>>

\* The requester's own timeout: finish_browser_job(jid, "failed") once the
\* event wait of chat_completions, or the SSE loop, has run out of time.  Its
\* thread is gone after a restart, and so is the event.
RequesterTimeout(j) ==
    /\ job[j].due = "past"
    /\ job[j].event # "none"
    /\ job' = [job EXCEPT ![j] = Finished(@, "failed")]
    /\ UNCHANGED <<queue, entry, reg, binding, polling, resetting, answer>>

\* browser_reset, first lock section: collect the active jobs, clear the list.
ResetBegin ==
    /\ resetting = {}
    /\ resetting' = {j \in Job : job[j].status \in Active}
    /\ queue' = [j \in Job |-> {}]
    /\ UNCHANGED <<job, entry, reg, binding, polling, answer>>

\* browser_reset, the loop: finish_browser_job(jid, "failed", error="reset").
ResetJob(j) ==
    /\ j \in resetting
    /\ resetting' = resetting \ {j}
    /\ job' = [job EXCEPT ![j] = Finished(@, "failed")]
    /\ UNCHANGED <<queue, entry, reg, binding, polling, answer>>

-----------------------------------------------------------------------------
(* Reaping and purging.                                                    *)

\* reap_expired_browser_jobs; aged are the jobs queued for BROWSER_QUEUE_TIMEOUT.
\* Queue ages follow the creation order: queued_at is never set again.
AgedQueue(aged) ==
    /\ aged \subseteq {j \in Job : job[j].status = "queued"}
    /\ \A j \in aged, k \in Job : k < j /\ job[k].status = "queued" => k \in aged

Reaped(b, isAged) ==
    IF PastDue(b) \/ isAged THEN TimedOut(b)
    ELSE IF b.status # "claimed" THEN b
    ELSE IF b.lease = "none" THEN Renewed(b)
    ELSE IF b.lease = "lapsed" THEN LeaseExpired(b)
    ELSE b

Expired(gone) == {j \in Job \ gone : Claimed(j) /\ job[j].lease = "lapsed"}

ReapedOf(aged) ==
    LET gone == {j \in Job : PastDue(job[j])} \cup aged
        back == {j \in Expired(gone) : RetryState(job[j]) = "queued"}
    IN  /\ job' = [j \in Job |-> Reaped(job[j], j \in aged)]
        /\ queue' = Requeued(gone, back)
        /\ binding' = [v \in Conv |->
              IF \E j \in back : ConvOf[j] = v /\ binding[v] = job[j].tab
              THEN NoTab ELSE binding[v]]

ReapExpiredBrowserJobs == \E aged \in SUBSET Job : AgedQueue(aged) /\ ReapedOf(aged)

\* /browser/status and /browser/pending-domains reap before they answer.
Reap ==
    /\ ReapExpiredBrowserJobs
    /\ UNCHANGED <<entry, reg, polling, resetting, answer>>

\* Mutant: the reaper only looks at jobs nobody has claimed.
ReapQueuedRequestDeadlines ==
    LET gone == {j \in Job : PastDue(job[j]) /\ job[j].status = "queued"}
    IN  /\ gone # {}
        /\ job' = [j \in Job |-> IF j \in gone THEN TimedOut(job[j]) ELSE job[j]]
        /\ queue' = Requeued(gone, {})
        /\ UNCHANGED <<entry, reg, binding, polling, resetting, answer>>

\* reap_browser_request_deadlines, the background thread's 0.25 s loop.
ReapBrowserRequestDeadlines ==
    LET gone == {j \in Job : PastDue(job[j])}
    IN  /\ gone # {}
        /\ job' = [j \in Job |-> IF j \in gone THEN TimedOut(job[j]) ELSE job[j]]
        /\ queue' = Requeued(gone, {})
        /\ UNCHANGED <<entry, reg, binding, polling, resetting, answer>>

\* purge_stale_browser_state.  old are the tabs and forgotten the clients whose
\* last_seen is older than CLIENT_TTL.
LeaseHeldOn(t) == \E j \in Job : ActiveClaim(j, t, Job) /\ job[j].lease = "held"

Purged(old) ==
    [t \in Tab |->
        IF entry[t] = NoEntry \/ t \notin old THEN entry[t]
        ELSE IF LeaseHeldOn(t) THEN [entry[t] EXCEPT !.mode = "idle"]
        ELSE NoEntry]

\* Mutant: only the inventory makes a tab live, a lease does not.
ReadyTabs(old) == {t \in Tab : entry[t] # NoEntry /\ t \notin old /\ entry[t].mode = "ready"}

\* live_tabs: executable content-ready tabs, tabs under a lease in force, and
\* tabs of a claim that has no lease yet and whose inventory still matches.
LiveTabs(old) ==
    {t \in Tab :
        \/ Purged(old)[t] # NoEntry /\ t \notin old /\ entry[t].mode = "ready"
        \/ \E j \in Job :
              /\ ClaimedOn(j, t)
              /\ \/ job[j].lease = "held"
                 \/ /\ job[j].lease = "none"
                    /\ entry[t] # NoEntry /\ t \notin old
                    /\ entry[t].onSite
                    /\ job[j].owner \in {NoClient, entry[t].client}}

HasLiveClaim(c) == \E j \in Job : Claimed(j) /\ job[j].owner = c /\ job[j].lease = "held"

Lost(old) == {j \in Job : Claimed(j) /\ job[j].tab \in Tab \ LiveTabs(old)}

PurgedOf(old, forgotten) ==
    LET back == {j \in Lost(old) : RetryState(job[j]) = "queued"}
    IN  /\ entry' = Purged(old)
        /\ binding' = [v \in Conv |->
              IF binding[v] \in LiveTabs(old) THEN binding[v] ELSE NoTab]
        /\ job' = [j \in Job |-> IF j \in Lost(old) THEN BrowserStale(job[j]) ELSE job[j]]
        /\ queue' = Requeued({}, back)
        /\ reg' = [c \in Client |->
              IF c \in forgotten /\ ~HasLiveClaim(c) THEN NoRuntime ELSE reg[c]]
        /\ UNCHANGED <<polling, resetting, answer>>

PurgeStaleBrowserState ==
    \E old \in SUBSET {t \in Tab : entry[t] # NoEntry},
       forgotten \in SUBSET {c \in Client : reg[c] # NoRuntime} : PurgedOf(old, forgotten)

-----------------------------------------------------------------------------
(* /browser/poll: reap, then look the registration up, then claim.         *)

PollReap(c) ==
    /\ polling[c] = "idle"
    /\ polling' = [polling EXCEPT ![c] = "reaped"]
    /\ ReapExpiredBrowserJobs
    /\ UNCHANGED <<entry, reg, resetting, answer>>

\* The poll's runtime session r must be the registered one.
PollAdmit(c, r) ==
    /\ polling[c] = "reaped"
    /\ reg[c] \in {NoRuntime, r}
    /\ polling' = [polling EXCEPT ![c] = "admitted"]
    /\ UNCHANGED <<job, queue, entry, reg, binding, resetting, answer>>

\* A poll that is throttled, of a runtime that was replaced, or for a tab that
\* is unknown, stale, another client's or not executable.
PollIgnored(c) ==
    /\ polling[c] # "idle"
    /\ polling' = [polling EXCEPT ![c] = "idle"]
    /\ UNCHANGED <<job, queue, entry, reg, binding, resetting, answer>>

\* claim_browser_job, the tests on the tab.
MayExecute(c, t) ==
    /\ entry[t] # NoEntry
    /\ entry[t].client = c
    /\ entry[t].mode \in {"ready", "listed"}

\* Mutant: a tab that already executes a job may claim another.
EligibleOnBusyTab(j, t, v) ==
    /\ job[j].status = "queued"
    /\ job[j].due # "past"
    /\ ConvOf[j] = v
    /\ job[j].tab \in {NoTab, t}
    /\ binding[v] \in {NoTab, t}

\* claim_browser_job, the tests on one queued job; v is the poll's conversation.
Eligible(j, t, v) ==
    /\ job[j].status = "queued"
    /\ job[j].due # "past"
    /\ ConvOf[j] = v
    /\ job[j].tab \in {NoTab, t}
    /\ binding[v] \in {NoTab, t}
    /\ \A k \in Job \ {j} : ~ClaimedOn(k, t)

\* The loop visits the list in order and stops at the first eligible job: what
\* it passes on the way is dropped when stale and failed when past its deadline.
ListedBefore(j, k) == InQueue(j) /\ First(j) < First(k)

Skipped(visited) ==
    [j \in Job |->
        IF j \in visited /\ PastDue(job[j]) /\ job[j].status = "queued"
        THEN TimedOut(job[j]) ELSE job[j]]

\* Mutant: a job is taken off the list before it is found ineligible.
DroppedAll(visited) == visited

Dropped(visited) ==
    {j \in visited : job[j].status # "queued" \/ PastDue(job[j])}

PollClaim(c, t, v) ==
    /\ polling[c] = "admitted"
    /\ MayExecute(c, t)
    /\ polling' = [polling EXCEPT ![c] = "idle"]
    /\ \E j \in Job :
          LET visited == {k \in Job : ListedBefore(k, j)}
          IN  /\ InQueue(j)
              /\ Eligible(j, t, v)
              /\ \A k \in visited : ~Eligible(k, t, v)
              /\ job' = [Skipped(visited) EXCEPT ![j] = ClaimedBy(@, t, c)]
              /\ queue' = Requeued(Dropped(visited) \cup {j}, {})
    /\ binding' = [binding EXCEPT ![v] = t]
    /\ entry' = [entry EXCEPT ![t] = [@ EXCEPT !.mode = "ready", !.onSite = TRUE]]
    /\ UNCHANGED <<reg, resetting, answer>>

\* The loop ran to the end of the list without an eligible job.
PollFindsNothing(c, t, v) ==
    /\ polling[c] = "admitted"
    /\ MayExecute(c, t)
    /\ polling' = [polling EXCEPT ![c] = "idle"]
    /\ LET visited == {k \in Job : InQueue(k)}
       IN  /\ \A k \in visited : ~Eligible(k, t, v)
           /\ job' = Skipped(visited)
           /\ queue' = Requeued(Dropped(visited), {})
    /\ UNCHANGED <<entry, reg, binding, resetting, answer>>

-----------------------------------------------------------------------------
(* The inventory: heartbeats and registrations.                            *)

\* mark_browser_ready, by a worker of runtime r; v is the conversation the
\* heartbeat names.  Leaving the site fails the claim on the tab; staying on it
\* renews the claim's lease.
ReadyHeartbeat(c, t, r, onSite, mode, v) ==
    LET left    == {j \in Job : ~onSite /\ LeavesSite(j, t, c, Job)}
        renewed == {j \in Job : onSite /\ ActiveClaim(j, t, Job) /\ v \in {NoConv, ConvOf[j]}}
    IN  /\ reg[c] \in {NoRuntime, r}
        /\ job' = [j \in Job |-> IF j \in left THEN Finished(job[j], "failed")
                                 ELSE IF j \in renewed THEN Renewed(job[j])
                                 ELSE job[j]]
        /\ entry' = [entry EXCEPT ![t] =
              [client |-> c, onSite |-> onSite,
               mode |-> IF left # {} THEN "idle" ELSE mode]]
        /\ binding' = [w \in Conv |-> IF onSite /\ w = v THEN t ELSE binding[w]]
        /\ UNCHANGED <<queue, reg, polling, resetting, answer>>

\* browser_heartbeat with ready false: an explicit revocation.
NegativeHeartbeat(c, t, r, onSite) ==
    /\ reg[c] \in {NoRuntime, r}
    /\ job' = [j \in Job |-> IF ~onSite /\ LeavesSite(j, t, c, Job)
                             THEN Finished(job[j], "failed") ELSE job[j]]
    /\ entry' = [entry EXCEPT ![t] =
          [client |-> c, onSite |-> onSite, mode |-> "idle"]]
    /\ UNCHANGED <<queue, reg, binding, polling, resetting, answer>>

\* The tabs of a report whose content-ready entry may be preserved.
Vouched(c, seen) ==
    {t \in seen : entry[t] # NoEntry /\ entry[t].client = c /\ entry[t].mode = "ready"}

ClaimsOf(c) == {j \in Job : Claimed(j) /\ job[j].owner = c}

TabsOf(c) == {t \in Tab : entry[t] # NoEntry /\ entry[t].client = c}

\* The claims the client loses because it registers with a new runtime session.
Revoked(c, r) == IF reg[c] \in {NoRuntime, r} THEN {} ELSE ClaimsOf(c)

\* The claims that fail because their tab is reported on another site.
Left(c, away, revoked) ==
    {j \in Job \ revoked : \E t \in away : LeavesSite(j, t, c, Job \ revoked)}

\* browser_register, its lock section: seen are the tabs of the report, away
\* those on another site, usable those the worker calls ready, and aged those
\* whose content-ready entry is too old to be kept.
Registered(c, r, seen, away, usable, aged) ==
    LET revoked == Revoked(c, r)
        left    == Left(c, away, revoked)
        back    == {j \in revoked : RetryState(job[j]) = "queued"}
        kept    == {t \in Vouched(c, seen) \ aged :
                       reg[c] \in {NoRuntime, r} /\ entry[t].onSite = (t \notin away)}
        gone    == TabsOf(c) \ seen
        shut    == {t \in away : \E j \in left : job[j].tab = t}
    IN  /\ job' = [j \in Job |-> IF j \in revoked THEN RuntimeReplaced(job[j])
                                 ELSE IF j \in left THEN Finished(job[j], "failed")
                                 ELSE job[j]]
        /\ queue' = Requeued({}, back)
        /\ entry' = [t \in Tab |->
              IF t \in gone THEN NoEntry
              ELSE IF t \notin seen \/ t \in kept THEN entry[t]
              ELSE [client |-> c, onSite |-> t \notin away,
                    mode |-> IF t \in usable \ shut THEN "listed" ELSE "idle"]]
        /\ reg' = [reg EXCEPT ![c] = r]
        /\ UNCHANGED <<binding, polling, resetting, answer>>

BrowserRegister(c, r) ==
    \E seen \in SUBSET Tab :
      \E away, usable \in SUBSET seen, aged \in SUBSET Vouched(c, seen) :
         Registered(c, r, seen, away, usable, aged)

\* browser_register refuses a client that names no runtime session, or a
\* "legacy:" one, and evict_browser_client_runtime_locked takes from the client
\* its tabs and its claims; the registered session stays.
RegistrationRefused(c) ==
    LET back == {j \in ClaimsOf(c) : RetryState(job[j]) = "queued"}
    IN  /\ job' = [j \in Job |-> IF j \in ClaimsOf(c) THEN RuntimeReplaced(job[j]) ELSE job[j]]
        /\ queue' = Requeued({}, back)
        /\ entry' = [t \in Tab |-> IF t \in TabsOf(c) THEN NoEntry ELSE entry[t]]
        /\ UNCHANGED <<reg, binding, polling, resetting, answer>>

\* mark_browser_page_presence: a page trace is not a readiness heartbeat.
PagePresence(t, onSite) ==
    /\ ~(entry[t] # NoEntry /\ entry[t].mode = "ready" /\ entry[t].onSite = onSite)
    /\ entry' = [entry EXCEPT ![t] =
          [client |-> IF @ = NoEntry THEN NoClient ELSE @.client,
           onSite |-> onSite, mode |-> "idle"]]
    /\ UNCHANGED <<job, queue, reg, binding, polling, resetting, answer>>

\* A binding older than CLIENT_TTL is dropped by whoever reads it.
BindingExpires(v) ==
    /\ binding[v] # NoTab
    /\ binding' = [binding EXCEPT ![v] = NoTab]
    /\ UNCHANGED <<job, queue, entry, reg, polling, resetting, answer>>

-----------------------------------------------------------------------------
(* What a capturing page sends: deltas, claim renewals and results.  The   *)
(* conversation and the domain of a body are those of its job.             *)

\* _validate_job_actor_locked.
ValidActor(b, tok, t, c) ==
    /\ b.status = "claimed"
    /\ tok = b.token
    /\ t = b.tab
    /\ b.owner \in {NoClient, c}

\* append_browser_delta; an empty snapshot fails an expired job and no more.
AppendBrowserDelta(j, tok, t, c, empty) ==
    /\ ValidActor(job[j], tok, t, c)
    /\ job' = [job EXCEPT ![j] = IF PastDue(@) THEN TimedOut(@)
                                ELSE IF empty THEN @ ELSE Renewed(@)]
    /\ queue' = Requeued(IF PastDue(job[j]) THEN {j} ELSE {}, {})
    /\ UNCHANGED <<entry, reg, binding, polling, resetting, answer>>

\* renew_browser_claim, the first lock section of a capture heartbeat.
RenewBrowserClaim(j, tok, t, c) ==
    /\ ValidActor(job[j], tok, t, c)
    /\ job[j].owner = c
    /\ job' = [job EXCEPT ![j] = IF PastDue(@) THEN TimedOut(@) ELSE Renewed(@)]
    /\ queue' = Requeued(IF PastDue(job[j]) THEN {j} ELSE {}, {})
    /\ UNCHANGED <<entry, reg, binding, polling, resetting, answer>>

\* browser_result, the recovery sections.  A body without a token takes that of
\* the claim on its tab; a body with the token of a queued job claims the job.
ResultReceived(h, j, tok, t, c, ok) ==
    LET b         == job[j]
        recovered == tok = NoToken /\ ClaimedOn(j, t)
        claims    == b.status = "queued" /\ tok = b.token /\ b.tab = t
    IN  /\ answer[h] = NoAnswer
        /\ b.status # "none"
        /\ answer' = [answer EXCEPT ![h] =
              [stage |-> "received", job |-> j, tab |-> t, client |-> c, ok |-> ok,
               token |-> IF recovered THEN b.token ELSE tok]]
        /\ job' = [job EXCEPT ![j] =
              IF claims THEN [@ EXCEPT !.status = "claimed"] ELSE @]
        /\ UNCHANGED <<queue, entry, reg, binding, polling, resetting>>

\* browser_result: validate_job_actor, then the first deadline test.  Any step
\* between the two is caught by the deadline test of the last section.
ResultValidated(h) ==
    LET a     == answer[h]
        b     == job[a.job]
        valid == ValidActor(b, a.token, a.tab, a.client)
        late  == valid /\ PastDue(b)
    IN  /\ a # NoAnswer
        /\ a.stage = "received"
        /\ answer' = [answer EXCEPT ![h] =
              IF valid /\ ~late THEN [a EXCEPT !.stage = "checked"] ELSE NoAnswer]
        /\ job' = [job EXCEPT ![a.job] = IF late THEN TimedOut(@) ELSE @]
        /\ queue' = Requeued(IF late THEN {a.job} ELSE {}, {})
        /\ UNCHANGED <<entry, reg, binding, polling, resetting>>

\* validate_tool_call_for_job refused the result's tool call.
ResultRefused(h) ==
    /\ answer[h] # NoAnswer
    /\ answer[h].stage = "checked"
    /\ answer[h].ok
    /\ answer' = [answer EXCEPT ![h] = NoAnswer]
    /\ UNCHANGED <<job, queue, entry, reg, binding, polling, resetting>>

\* Mutant: the deadline is not tested again.
CommittedLate(b, ok) ==
    IF b.status = "claimed" THEN Finished(b, IF ok THEN "completed" ELSE "failed") ELSE b

\* browser_result, the last section: the deadline again, then
\* finish_browser_job if the job is still claimed.
Committed(b, ok) ==
    IF PastDue(b) THEN TimedOut(b)
    ELSE IF b.status = "claimed"
         THEN Finished(b, IF ok THEN "completed" ELSE "failed")
         ELSE b

ResultCommitted(h) ==
    LET a == answer[h]
    IN  /\ a # NoAnswer
        /\ a.stage = "checked"
        /\ answer' = [answer EXCEPT ![h] = NoAnswer]
        /\ job' = [job EXCEPT ![a.job] = Committed(@, a.ok)]
        /\ queue' = Requeued(IF PastDue(job[a.job]) THEN {a.job} ELSE {}, {})
        /\ UNCHANGED <<entry, reg, binding, polling, resetting>>

-----------------------------------------------------------------------------
(* Time and crashes.                                                       *)

Lapsed(b) == [b EXCEPT !.lease = IF b.lease = "held" THEN "lapsed" ELSE b.lease]

LeaseLapses(j) ==
    /\ job[j].lease = "held"
    /\ job' = [job EXCEPT ![j] = Lapsed(@)]
    /\ UNCHANGED <<queue, entry, reg, binding, polling, resetting, answer>>

DeadlinePasses(j) ==
    /\ job[j].due = "ahead"
    /\ job' = [job EXCEPT ![j] = [Lapsed(@) EXCEPT !.due = "past"]]
    /\ UNCHANGED <<queue, entry, reg, binding, polling, resetting, answer>>

\* The server process dies and restore_browser_state loads its snapshot: a job
\* that was still active fails, and nothing else survives but the outcome of
\* the others.  A step whose save is pending leaves an active job active in the
\* snapshot, so that it is failed either way.  The bindings lose their tabs.
Restored(b) ==
    IF b.status \in Active
    THEN [b EXCEPT !.status = "failed", !.tab = NoTab, !.owner = NoClient,
                   !.token = @ + 1, !.lease = "none", !.event = "none"]
    ELSE [b EXCEPT !.event = "none"]

RestoreBrowserState ==
    /\ job' = [j \in Job |-> Restored(job[j])]
    /\ queue' = [j \in Job |-> {}]
    /\ entry' = [t \in Tab |-> NoEntry]
    /\ reg' = [c \in Client |-> NoRuntime]
    /\ binding' = [v \in Conv |-> NoTab]
    /\ polling' = [c \in Client |-> "idle"]
    /\ resetting' = {}
    /\ answer' = [h \in Handler |-> NoAnswer]

-----------------------------------------------------------------------------
Tokens(j) == 0..job[j].token

Request ==
    \/ \E j \in Job : NewBrowserJob(j) \/ RequesterTimeout(j) \/ ResetJob(j)
    \/ ResetBegin

Housekeeping == Reap \/ ReapBrowserRequestDeadlines \/ PurgeStaleBrowserState

Poll ==
    \E c \in Client :
        \/ PollReap(c)
        \/ PollIgnored(c)
        \/ \E r \in Runtime : PollAdmit(c, r)
        \/ \E t \in Tab, v \in Conv : PollClaim(c, t, v) \/ PollFindsNothing(c, t, v)

Inventory ==
    \/ \E c \in Client, t \in Tab, r \in Runtime, onSite \in BOOLEAN :
          \/ NegativeHeartbeat(c, t, r, onSite)
          \/ \E mode \in {"ready", "idle"}, v \in Conv \cup {NoConv} :
                ReadyHeartbeat(c, t, r, onSite, mode, v)
    \/ \E c \in Client : RegistrationRefused(c) \/ \E r \in Runtime : BrowserRegister(c, r)
    \/ \E t \in Tab, onSite \in BOOLEAN : PagePresence(t, onSite)

Page ==
    \/ \E j \in Job, t \in Tab, c \in Client : \E tok \in Tokens(j) :
          \/ \E empty \in BOOLEAN : AppendBrowserDelta(j, tok, t, c, empty)
          \/ RenewBrowserClaim(j, tok, t, c)
    \/ \E h \in Handler, j \in Job, t \in Tab, c \in Client, ok \in BOOLEAN :
          \E tok \in Tokens(j) \cup {NoToken} : ResultReceived(h, j, tok, t, c, ok)
    \/ \E h \in Handler : ResultValidated(h) \/ ResultRefused(h) \/ ResultCommitted(h)

Clock ==
    \/ \E j \in Job : LeaseLapses(j) \/ DeadlinePasses(j)
    \/ \E v \in Conv : BindingExpires(v)

Next ==
    \/ Request
    \/ Housekeeping
    \/ Poll
    \/ Inventory
    \/ Page
    \/ Clock
    \/ RestoreBrowserState

Spec == Init /\ [][Next]_vars

-----------------------------------------------------------------------------
(* Safety.                                                                 *)

\* No request is forgotten: a job that waits to be claimed is listed in the
\* queue, whatever lapsed, was purged or was replaced under it, unless a
\* /browser/reset that cleared the list is about to fail it.
NoLostJob == \A j \in Job : job[j].status = "queued" => InQueue(j) \/ j \in resetting

\* Several lock sections give a job back to the queue; no two of them list it
\* twice, so that one submission is not handed out as two.
ListedOnce == \A j \in Job : \A m, n \in queue[j] : m = n

\* Two jobs are never executed in the same tab at once.
OneClaimPerTab ==
    \A j, k \in Job : /\ Claimed(j) /\ Claimed(k)
                      /\ job[j].tab = job[k].tab
                      => j = k

\* The requester's event is set by every way a job ends, but one: giving up
\* after the last attempt leaves the requester to its own timeout.
LostWakeupOnlyByExhaustion ==
    \A j \in Job : job[j].status \in Terminal /\ job[j].event = "waiting"
                  => /\ job[j].status = "failed"
                     /\ job[j].attempt >= MaxClaimAttempts

\* A worker cannot make a job go round for ever: runtime replacements and lost
\* tabs do not count as attempts, yet the claims that follow them do.
AttemptsBounded ==
    \A j \in Job :
        /\ job[j].status = "queued" => job[j].attempt <= MaxClaimAttempts
        /\ job[j].status = "claimed" => job[j].attempt <= MaxClaimAttempts + 1

\* No lease outlives the request: once the deadline has passed no renewal, by a
\* heartbeat, a delta or a claim, makes the lease count again.
NoLeaseAfterDeadline ==
    \A j \in Job : job[j].due = "past" => job[j].lease # "held"

(* Action properties.                                                      *)

KeepsOutcomes == \A j \in Job : job[j].status \in Terminal => job'[j].status = job[j].status

\* A job that has ended keeps its outcome: late results, timeouts, resets,
\* reaping and a restart of the server never turn it into another.
OutcomeIsFinal == [][KeepsOutcomes]_vars

CompletesInTime ==
    \A j \in Job : job[j].due = "past" /\ job[j].status # "completed"
                  => job'[j].status # "completed"

\* The request deadline is irreversible: no result completes a job after it.
NoCompletionAfterDeadline == [][CompletesInTime]_vars

RenewsTokens ==
    \A j \in Job : job[j].status \in Active /\ job'[j].tab # job[j].tab
                  => job'[j].token > job[j].token

\* A page that lost its job lost its token: whenever a job moves to another tab,
\* or from a tab back to the queue, its token changes.
TokenFollowsTab == [][RenewsTokens]_vars

\* The server has turned the worker out: it knows another runtime session of
\* the client, or none of its tabs any more, and each of its claims has ended.
TurnedOut(c) ==
    /\ reg'[c] # reg[c] \/ \A t \in Tab : entry'[t] # NoEntry => entry'[t].client # c
    /\ \A j \in ClaimsOf(c) : job'[j].owner = NoClient /\ job'[j].token # job[j].token

RespectsLeases ==
    \A j \in Job : /\ Claimed(j)
                   /\ job[j].lease = "held"
                   /\ job'[j].token # job[j].token
                   /\ job'[j].status \in Active
                   => \E c \in Client : job[j].owner = c /\ TurnedOut(c)

\* A lease in force is an exclusive right: the server gives the job to somebody
\* else only when it turns out the whole worker that holds it, because another
\* runtime session registers under its client id or a registration under that id
\* is refused.  No purge, reaping, claim or report takes the job of one tab from
\* a worker that goes on.
HeldLeaseIsRespected == [][RespectsLeases]_vars

CommitsOwnClaim ==
    \A h \in Handler :
        /\ answer[h] # NoAnswer
        /\ job[answer[h].job].status = "claimed"
        /\ job'[answer[h].job].status = "completed"
        /\ answer'[h] = NoAnswer
        => answer[h].token = job[answer[h].job].token

\* Only the claim that holds the job completes it: the token a result carried
\* is the job's token when the result is committed.
CompletedByItsClaim == [][CommitsOwnClaim]_vars

(* Liveness.                                                               *)

\* The reaper thread runs until the process ends, and time passes.
Fairness ==
    /\ WF_vars(ReapBrowserRequestDeadlines)
    /\ \A j \in Job : WF_vars(DeadlinePasses(j))

FairSpec == Spec /\ Fairness

\* A request with a deadline is never left hanging.
EveryRequestEnds ==
    \A j \in Job : (job[j].due # "none") ~> (job[j].status \in Terminal)
(* Refinement.                                                             *)

PhaseOf(b) ==
    CASE b.status = "none" -> "absent"
      [] b.status = "queued" -> "waiting"
      [] b.status = "claimed" -> "running"
      [] OTHER -> b.status

Lifecycle ==
    INSTANCE JobLifecycle WITH
        phase <- [j \in Job |-> PhaseOf(job[j])],
        token <- [j \in Job |-> job[j].token],
        tries <- [j \in Job |-> job[j].attempt],
        late <- [j \in Job |-> job[j].due = "past"]

\* Every lock section of the server moves each job as JobLifecycle promises.
ImplementsLifecycle == Lifecycle!Spec
=============================================================================
