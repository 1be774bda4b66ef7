# Verification of phantom-relay

phantom-relay lets OpenAI-style clients use a chat site in the user's own
browser. A Flask server (`src/server/api_server.py`) turns each request into a
*browser job*; a browser extension (`src/extension/`) polls for jobs, types the
prompt into a tab of the recorded site, watches the answer appear, and posts it
back. The two halves share nothing but HTTP: the server sees tabs only through
what the extension last said of them, and the extension sees a job only through
the claim it was handed. Everything in between can be lost, late or repeated.

This directory holds TLA+ modules of that system, the TLC runs that check them,
and TLAPS proofs. `PROJECT.json` lists the parts, the runs, the hazards and, for
every definition, the source lines it stands for.

## 1. Inventory

| part | state | operations | talks to |
|---|---|---|---|
| job coordinator (`api_server.py`) | `BROWSER_JOBS`, `BROWSER_QUEUE`, `BROWSER_CLIENTS`, `BROWSER_REGISTRATIONS`, `BROWSER_BINDINGS`, `BROWSER_EVENTS` | submit, poll/claim, heartbeat, register, delta, result, reap, purge, reset, restart | requests, extension, job store |
| job and client state machines (`state_machine.py`) | none (tables) | `next_job_state`, `recovery_action` | coordinator |
| chat requests and idempotency (`api_server.py`) | `IDEMPOTENCY`, one thread per request | claim, bind, complete and fail a key; wait for the job's event | coordinator, callers |
| wake coordinator (`api_server.py`) | `_BROWSER_WAKE_PENDING`, `_BROWSER_WAKE_LAST`, two recovery threads per job | open the browser on a route at most once per lease | inventory, OS |
| live stream (`api_server.py`) | `BROWSER_DELTAS`, a reader index per stream | append and trim snapshots, emit suffixes | coordinator, callers |
| durable job store (`job_store.py`) | one SQLite file | replace the snapshot, load it | coordinator |
| profile registry (`registry.py`) | profiles by id with revision and checksum | upsert, delete, health | extension |
| service worker (`background.js`) | `activeClaims` and its copy in session storage, the tab records, the runtime session | bridge tick (reconcile, register, poll, dispatch), press recorded keys, relay results, cancel captures | server, pages |
| content script (`content.js`, `*_observation.js`) | the capture in progress, the observer's record of the response | send the prompt, observe, decide that the answer is complete, post deltas, heartbeats and the result | worker, server |
| recorded profiles (`profile_*.js`, `background.js`) | the profile store with an active and a pending envelope, its saved copy, the selectors the pages use | record, boot, synchronise, recover, repair, reset | server registry, other browsers |
| client contract, protocol, traces, popup, scripts | none that the others read | validation, translation, logging, UI, test harnesses | - |

What makes it hard: Flask runs every handler in a thread of its own, and a
handler takes the one lock several times; five different causes give a claimed
job up and three of them requeue it; a tab goes silent while it still works, so
that its messages arrive after its job was given to another; a request ends by
its result, its deadline, its caller's timeout, a reset, a domain change, by
exhaustion or by a restart, in any order. In the browser nothing runs in parallel,
but every `await` lets other handlers in, and the service worker itself is
stopped whenever the browser likes: its memory is gone, the pages go on. The
properties that make the parts correct:

* coordinator: no job is lost, listed twice or run twice at a time; a lease in
  force is exclusive until its whole worker is turned out; outcomes are final; nothing completes after its deadline;
  attempts are bounded; a request with a deadline ends;
* idempotency: one job per key; a replay answers what the first request was
  answered; a settled key stays settled; a waiting request is answered;
* wake: at most one browser opening per host and lease, none beside a ready tab,
  yet a cold start is always tried;
* stream: what a reader emits is a prefix of the final answer, whatever is
  trimmed or rewritten under it;
* extension: the prompt of one claim is sent at most once; who reports under a
  claim's token names the claim's tab; an answer is given up only when the server
  has it or no longer wants it; a stale claim does not block its site for good;
* completion: what is returned is the whole reply and nothing else, what is relayed
  never shrinks, and a reply that is there is returned;
* profiles: the active envelope, of the worker and in storage, was accepted by the server (what
  pages run may be a restored profile or a template that was not); a pending recording stays ahead of
  it; the server's revision is never overwritten by an older one.

## 2. Modules

| module | what it is |
|---|---|
| `JobLifecycle` | the abstract specification: what each job may do, without tabs, queues, leases or threads |
| `JobCoordinator` | the coordinator, one action per lock section of `api_server.py`; instantiates `JobLifecycle` with a refinement mapping |
| `JobCoordinatorProofs` | theorems about `JobCoordinator` |
| `MCJobCoordinator` | constants and symmetry for TLC |
| `RequestIdempotency` | the requests that carry one `Idempotency-Key`, its record, their jobs as far as requesters can tell, results and restarts |
| `RequestIdempotencyProofs` | theorems about `RequestIdempotency` |
| `MCRequestIdempotency` | constants for TLC |
| `BrowserWake` | the wake coordinator for the jobs of one host: activation, pending wake, cooldown, recovery threads |
| `BrowserWakeProofs` | theorems about `BrowserWake` |
| `MCBrowserWake` | constants for TLC |
| `DeltaStream` | the live stream of one job, from the text a page shows to what the caller has put together |
| `DeltaStreamProofs` | theorems about `DeltaStream` and its functions on texts |
| `MCDeltaStream` | constants for TLC |
| `CaptureWorker` | the service worker and the pages of one hostname around the claims of its jobs: ticks, storage writes, captures, reports and relays, with restarts of the worker |
| `CaptureWorkerProofs` | theorems about `CaptureWorker` |
| `CaptureDeliveryProofs` | the theorem that answers are delivered, on top of those |
| `MCCaptureWorker` | constants for TLC |
| `CaptureCompletion` | the loop that looks for the reply in a page and decides when it is complete, with the page it looks at |
| `CaptureCompletionProofs` | theorems about `CaptureCompletion` |
| `MCCaptureCompletion` | the kinds of page for TLC |
| `ProfileSync` | one recorded profile: the store of the extension, its synchronisation, recovery, repair and reset, and the server's copy |
| `ProfileSyncProofs` | theorems about `ProfileSync` |
| `MCProfileSync` | symmetry for TLC |

### JobCoordinator

State and code:

| variable | code |
|---|---|
| `job[j]` | `BROWSER_JOBS[jid]`: status, `tab_id`, `client_id`, `claim_token` (a counter: every `uuid4` is new), `claim_attempt`, `lease_expires_at` (`none`, `held`, `lapsed`), `request_deadline_at` (`none`, `ahead`, `past`), and its `BROWSER_EVENTS` entry |
| `queue[j]` | the places of the job in `BROWSER_QUEUE`; a set, so that a job appended twice would show |
| `entry[t]` | `BROWSER_CLIENTS[tab]`: its client, whether it is on the recorded site, and how executable it is |
| `reg[c]` | the runtime session in `BROWSER_REGISTRATIONS[client]` |
| `binding[v]` | the tab in `BROWSER_BINDINGS[(conversation, domain)]` |
| `polling[c]`, `resetting`, `answer[h]` | where a `/browser/poll`, a `/browser/reset` and a `/browser/result` stand between their lock sections |

An action is one `with BROWSER_LOCK` section. Handlers with several sections are
several actions, and other threads run in between: `/browser/poll` reaps
(`PollReap`), looks the registration up (`PollAdmit`) and claims (`PollClaim`,
`PollFindsNothing`); `/browser/result` recovers a token (`ResultReceived`),
validates (`ResultValidated`) and commits (`ResultCommitted`); a reset collects
and then fails job by job. `purge_stale_browser_state`, which registration,
`/browser/clients` and the status snapshot end with, and the readiness update
that follows a claim renewal, take the lock anew and are the actions
`PurgeStaleBrowserState` and `ReadyHeartbeat`, which those handlers and others
run at any time.

Time is abstract. The comparisons that must agree with each other are flags: the
deadline passes once and takes the lease with it, because
`browser_job_lease_deadline` is the minimum of both. Ages that are only tested
(the inventory's, a registration's, a binding's, a queue entry's) make the test go
either way; queue ages respect the order of creation.

Inputs are wider than the extension sends: any client may report any tab, and a
delta, renewal or result may carry any token the job has had, any tab and any
client, so that stale pages, replays and duplicates are all there.

A registration is `BrowserRegister`, or `RegistrationRefused` when it names no runtime
session or a `legacy:` one (`normalize_registration` makes one up for a body without a session): as
`ALLOW_LEGACY_BROWSER_RUNTIME` is off by default, the server answers 409, and
still `evict_browser_client_runtime_locked` drops the tabs registered under that client id and
requeues its claimed jobs, leases in force included. Heartbeats and polls without an allowed session are
refused too, and evict nobody.

A restart (`RestoreBrowserState`) may happen at any moment. Sections that end a job
as completed save in the same section; those that only save later leave an active job
active in the snapshot, which the restart fails either way, so that one rule
describes what is found.

### RequestIdempotency

| variable | code |
|---|---|
| `record` | `IDEMPOTENCY[key]`: the fingerprint, `status`, `job_id`, `response` and whether `event` is set; `NoRecord` when the key is unknown |
| `job[r]` | the job request `r` submitted: `none`, `active` (queued or claimed), `completed`, `failed`; whether its event is in `BROWSER_EVENTS`; whether its deadline has passed |
| `pc[r]` | where the thread of request `r` stands in `chat_completions` or `iter_live_browser_sse`, or how it answered |
| `reply[r]` | the job whose response `r` was answered with |
| `posting` | results that have finished a job and not completed the key yet |

One action per lock section or per unlocked step that another thread can fall
before: `Receive` (`claim_idempotency`), `Submit`, `Bind`, `Listen` (the event
looked up, or the stream opened), `OwnerAnswers`, `OwnerGivesUp` and
`OwnerTimesOut` (the wait is over, the job is failed, then the key), `HangUp`,
`Join`, `Unpark`, `ParkTimeout`; `ResultFinishes` and `ResultCompletesKey` are the
two sections of `browser_result`; `JobFails` and `JobTimesOut` stand for all the
other ends `JobCoordinator` has for a job, which differ here only in the event
and the key. `OneJobPerKey` is what the coordinator may rely on: it is submitted
one job per key. Keys share nothing but the lock, so one is enough.

### BrowserWake

| variable | code |
|---|---|
| `cooling` | what is left of the cooldown since `_BROWSER_WAKE_LAST[host]` |
| `lease` | what is left of the lease of `_BROWSER_WAKE_PENDING[host]`, 0 if there is none |
| `fresh` | what is left of the window in which the last content-ready heartbeat makes `browser_extension_recently_ready` true |
| `releasing` | `mark_browser_ready` has left `BROWSER_LOCK` and has yet to drop the pending wake under the other lock |
| `pc[j]` | where the thread of job `j` stands in `activate_browser_for_job`, `request_browser_wake`, `wake_browser_host` or its recovery thread |
| `ready`, `waiting` | the jobs whose activation read `recently_ready`, and those queued with `claim_attempt` 0 |
| `attempted[j]` | `stalled_wake_attempted` or `unclaimed_wake_attempted` |
| `nap[j]`, `left[j]` | what is left of the sleep and of the deadline of the recovery thread |
| `gap`, `seen`, `tried` | history, for the properties alone: the time since the browser was opened, the jobs that have seen a ready tab, those for which the opener was started |

Three clocks race here, so time is counted: every duration is what is left of it, and
`Tick` takes a unit off all of them. Threads may be as late as they like. The one
exception is the opener, which takes less than a unit (`Tick` waits for it): it only spawns a process.
`_BROWSER_WAKE_PENDING_LOCK` is held over the opener, `_BROWSER_WAKE_LOCK` is
not: `PendingUnlocked` guards the sections of the first, and the recovery of an
unclaimed job, which calls the opener without it (`WakeAlone`, `OpenAlone`), runs beside
them. A job is claimed by, or lost to, whatever `JobCoordinator` does (`Leaves`).

### DeltaStream

| variable | code |
|---|---|
| `page[p]` | the text `observeCompletion` retains for the capture in page `p` (how much of the answer, in which layout), and the number of snapshots relayed |
| `wire` | the `capture_delta` posts that the worker has started and the server has not handled: a set, since nothing waits for the one before |
| `status`, `owner`, `claims`, `result` | the job, as far as a stream can tell; a page is a claim |
| `snapshot`, `events` | `job["stream_snapshot"]` and the texts in `BROWSER_DELTAS[job]` |
| `reader`, `index`, `seen` | the generator, its `event_index` and `emitted_snapshot` |
| `emitted`, `newest`, `disorder` | history: all that was yielded, and whether a post came after a newer one |

This is the one module in which texts are letter by letter, because what the caller puts
together is. `Delta` is `stream_snapshot_delta` with its four cases, and `Normalized` does what
`normalize_stream_snapshot` does to such texts: its patterns are written with doubled
backslashes, so that it never splits a text into lines but strips it as a whole. The
record's `delta` field is left out: the generator reckons its own from the text, and uses the field only
where both are the same.

### CaptureWorker

| variable | code |
|---|---|
| `status[j]`, `token[j]`, `held[j]`, `registered` | what a worker can tell of the server: `JobCoordinator` with its queue, leases and events left out; `token` counts the claims of a job, 0 is no token |
| `claims[j]` | `activeClaims`, a map by job; a claim restored after a restart has no token |
| `stored`, `saves` | the claims in `chrome.storage.session`, and the writes under way, which are made in order |
| `tick` | the run of `browserBridgeTick` with its local variables: the copy that `reconcileClaims` works on, the job and tab it has chosen, the claim it has yet to save and to dispatch |
| `cap[t]` | the capture of page `t`: its job, its token, how far it is, and whether it was told to stop |
| `posts` | outcomes that pages report (`postBrowserResultWithRetry`), with the tries made |
| `relays` | results the worker is relaying (`relayBrowserResult`), with the token and tab it settled on |
| `refusals` | answers to heartbeats, under way to a page, that call its claim invalid |
| `sent[j][k]` | history: how often the prompt of `j` was sent under its `k`-th claim |
| `faults` | lost calls, lost and unready pages and restarts so far |

An action is what runs between two `await`s. `LookUp` to `Dispatch` are the
tick: the token of each claim is asked for (`LookUp`), the pages of those the
server does not know are cancelled (`CancelClaimedPageCapture`) and the claims
replaced as a whole by what is left of the copy (`Reconciled`), whatever was added or deleted
meanwhile; then registration, the choice of a job and a tab, `Poll`, and the claim is in session storage
before the page hears of it (`ClaimSaved`). `Prepare`, `Send`, `Observe` and
`Answer` are the page, with the three recorded ways to send: a click, an Enter and a shortcut that
the worker presses if it still has that claim (`KeyboardAllowed`). An outcome
goes to the worker with retries (`TryPost`, `AckTimeout`, `PostEnds`), which looks a missing token up,
posts and forgets the claim (`LookUpToken`, `RelayPosts`, `RelayDone`). `WorkerRestart` keeps the
pages, the server and what was written to the session storage. Any call of the
worker may fail, before or after it took effect at the server (`Fault`).

### CaptureCompletion

| variable | code |
|---|---|
| `watch` | the states that `observeResponseIdentity` and `observeCompletion` return and are given again: text retained, activity token, time quiet, age, time since the last look, activity seen, longest text, discontinuity, observations of the identity |
| `relayed`, `best`, `pendingGap`, `outcome` | the other local variables of `waitForFreshAssistantResponse`, and how it ended |
| `site` | what was recorded of the page and what kind of page it is |
| `past`, `bubble`, `reply` | the nodes of the earlier turn, of the user's message and of the reply |
| `idle`, `faults` | external: how long the reply has stood still; late looks, shrinks and other changes so far |

`Observe` is one turn of the loop: the eligible nodes of the region, the last
of them, its identity and its text into the observer, the snapshot relayed, the
decision. Texts are a source and a length, so that covering a text is what it is in the code.

The page is not under `src/`: its actions are assumptions, and the
properties mean nothing without them. A page may show a status line or an earlier
row in the place of the reply, give its node an identity late or another one, repeat the prompt, draw the earlier turn
anew, have or lack a marker and a stop control, drop the end of a text for a while, and be looked at too late.
It may not (`MayPass`) stand still with an unfinished reply and no sign of being at work
for longer than the quiet window, or, before its first sign of activity, the
minimum age: an observer that has only the text to go by cannot tell such a page from one that is done.
That a text is dropped and comes back is no activity: the clock of the page goes on (`idle`), since a loop
that looks at neither moment learns nothing of it.

### ProfileSync

| variable | code |
|---|---|
| `entry` | `profileStore.profiles[id]`: the active and the pending envelope, each a revision and a content (its checksum) |
| `saved` | the same in `chrome.storage.local` |
| `view` | `selectors[domain].profile`, which pages use and which need not be the active envelope |
| `slot[p]` | an operation under way: which one, before which step it waits, and the store it has read |
| `phase` | whether start-up is over, and whether the server has everything |
| `remote`, `accepted` | the server's copy, and (history) every envelope it has ever taken |
| `ops`, `others`, `faults` | what was started, what another browser published, what failed |

The store is an object that operations replace as a whole: they read it, wait
for a checksum, a call or a write, and write what they derive from what they
had read. Actions end at these waits, so that an operation with a stale copy
can undo another's step. `Sync` is `syncPendingProfile` with its single
rebase after a conflict (`Refused` to `Restage`); `Recording`, `Booting`, `Recovering`,
`Repairing` and `Resetting` are the handlers around it. A profile that the extension fetches is
answered (`Fetch`: the registry's, or whatever the selector template of the site holds if the registry has none),
arrives (`Arrive`, where the active envelope and the view are read), and is compared once
its checksum is known (`Weigh`): one that is not the active one closes the view, one that may be new is
bootstrapped from the store of that later moment. The server takes an envelope
with a later revision, or the one it has (`Takes`). A call may fail before or after it took
effect, the `DELETE` of a reset included.

## 3. Runs

Ten runs pass and two show a disagreement. Those of `MCJobCoordinator` are without symmetry unless said, with
`MaxClaimAttempts = 2` (the code has 5: two suffice to be requeued after an
expired lease, after a lost tab, and to be exhausted by either).

| run | instance | checks |
|---|---|---|
| `job_claims` (`MCJobCoordinator`) | 1 job, 2 tabs, 1 worker with 2 runtime sessions; tabs and sessions symmetric | `AttemptsBounded`, `TokenFollowsTab`, `HeldLeaseIsRespected` |
| `job_queue` (`MCJobCoordinator`) | 2 jobs of one conversation, 1 tab, no deadlines | `NoLostJob`, `OneClaimPerTab`, `ImplementsLifecycle` |
| `job_results` (`MCJobCoordinator`) | 1 job, which may be submitted for the tab, 1 result handler; fair reaper and clock | `TypeOK`, `ListedOnce`, `NoLeaseAfterDeadline`, `LostWakeupOnlyByExhaustion`, `OutcomeIsFinal`, `NoCompletionAfterDeadline`, `EveryRequestEnds` |
| `late_result` (`MCJobCoordinator`) | 1 job, 1 result handler | `CompletedByItsClaim`, violated |
| `keys` (`MCRequestIdempotency`) | 4 requests with one key, one of them a stream, one with another body; fair threads, reaper and clock | `TypeOK`, `OneJobPerKey`, `AnswersAreGenuine`, `SettledForGood`, `EveryRequestAnswered`, `KeysSettle` |
| `wakes` (`MCBrowserWake`) | 2 jobs of one host, fair threads and clock | `TypeOK`, `OpeningsApart`, `NoColdStartForgotten`, `RecoveryEnds` |
| `stream` (`MCDeltaStream`) | 2 pages with answers of 3 letters and of 1, 2 posts on their way, 2 deltas kept | `TypeOK`, `StreamIsAnswer`, `NothingIsLost` |
| `captures` (`MCCaptureWorker`) | 1 job submitted for one of 2 pages, sent by a shortcut, 2 claims, 2 tries to report, 1 fault | `TypeOK`, `OneSendPerClaim`, `TokenNamesItsTab`, `AnswerIsDelivered` |
| `capture_ends` (`MCCaptureWorker`) | 1 job, 1 page, sent by a click or an Enter, 2 claims, 1 try, 1 fault; fair worker and pages | `QueuedIsServed` |
| `restart_claim` (`MCCaptureWorker`) | 1 job, 1 page | `RestartMakesNoSecondClaim`, violated |
| `profiles` (`MCProfileSync`) | 2 overlapping operations and 2 contents (symmetric), 3 operations, 3 revisions, 1 publication by another browser, 1 fault | `TypeOK`, `ActiveWasAccepted`, `PendingIsAhead`, `SecondConflictIsNews`, `NewerRemoteIsKept` |
| `completion` (`MCCaptureCompletion`) | 4 kinds of page, a reply of 2 pieces, 1 late look, 1 shrink, 1 other change; fair clock and loop | `TypeOK`, `WholeReply`, `RelaysOnlyGrow`, `SettledIsReturned` |

**Bounds.** Two jobs are what competition for a tab and for places in the queue takes; two
tabs and two sessions what a claim moving away from its page takes; one handler
interleaves with every other action, and its stale claim needs no second one.
There are no counters to cap: tokens and attempts stop growing because attempts
are bounded and a job that ended is never revived.

Of four requests one owns the key, one more joins it, one conflicts, and one comes
after a restart or a failure; whichever arrives first is the owner, so the stream
is one in some behaviours and joins in others.

The times of `BrowserWake` keep the order of the code's: a cooldown of 15 s is 2 units and
the lease of 45 s is 3, the readiness window of 8 s and the grace of 2 s are 1, the watchdog's
10 s are 2. What can happen depends on which of them ends first, and that the lease
outlasts the cooldown is what `NoColdStartForgotten` needs; the proofs cover all other values.
Two jobs are one that opens and one that is told of the opening.

For a stream, three letters are what it takes to overtake, repeat a letter and trim; a second
page needs one; two posts on their way (`MaxInFlight`) overtake each other; and two deltas kept
(`MaxEvents`, 500 in the code) are trimmed by the third.

For `captures`, one job is submitted for one page and claimed by it, lost to its lease and claimed by the
other (only the first claim is bound to the page), while the first page still reports: two claims (`MaxClaims`, 5 in the code) and two pages. Its properties
speak of one job, and jobs meet only in a page, which runs one capture at a
time. A fault (`MaxFaults`) is a restart, a failed call or a lost page; lapsing leases, refusals and slow answers come on top and are
not counted. The shortcut is the way to send that asks the worker for its claim and can fail after
it has pressed; the other two are in `capture_ends`. The proofs have no bounds.

For `profiles`, two operations with stale copies of each other's store are what an
overlap takes, the third one finds what they have left, and three revisions
are a recording, a conflicting publication and the rebase above it. The proofs have no bounds.

For `completion`, the quiet window is 2 ticks, as is the longest gap between two
looks that are still taken for continuous, and the minimum age 3: the order of
`DEFAULT_RESPONSE_QUIET_MS`, `DEFAULT_OBSERVATION_GAP_MS` and `DEFAULT_UNKNOWN_ACTIVITY_MIN_AGE_MS`.
The four kinds of page have between them each trait with and
without a signal to go by: no signal behind a status line, a marker,
a row used again with a stop control, and a reply that the prompt dictates in a row with a late identity.
Two pieces are a part of the reply and the whole; the liveness property makes more of them costly, and the
theorems about safety hold for any length, any kinds of page and any times.

**What the runs show.** `late_result`: `browser_result` validates
the claim token in one section and commits in another that tests only that the
job is claimed. In between the lease can lapse, a poll can requeue the job and
another poll claim it: the first page's result completes the second page's
claim, while the documentation makes ownership depend on the token. The outcome
is still a single, final one (`OutcomeIsFinal` holds), and the window is as short
as the result handler.

`restart_claim`: the runtime session of a worker is made anew at each start. A worker that was stopped
while its page captures restores the claim, and the registration with which its
next tick begins takes over from the session before: the server puts the job
back into the queue, although the page and the worker still have it, and it is claimed a second time, where the recovery
plan says a restart makes no second claim. The prompt can then be sent once more, under
the new claim; `OneSendPerClaim` is what remains true.

Some behaviours met on the way are no run of their own. They follow from the modules as they stand:

* `chat_completions` looks the event of its job up after it has
  activated the browser, which may take seconds. A job that ended by then has no event
  any more (`finish_browser_job` pops it), and the request takes that for a timeout: it
  answers 504 and fails the key that the result handler has just completed. Every later
  request with the key gets the failure. That the
  key stays settled (`SettledForGood`) and that no second job is submitted
  (`OneJobPerKey`) hold all the same.
* A job that finds a ready tab leaves a recovery thread that wakes the
  browser once if the tab disappears before the job is claimed. If the browser was opened for
  an earlier job less than a cooldown ago, `wake_browser_host` refuses, the attempt is spent, and
  the browser is never opened for this job, which waits for its queue timeout.
* A job whose conversation is bound to a ready tab schedules the recovery of a
  stalled page, for the case that the page never claims the job. The thread starts by looking for a
  ready tab, finds the one that was just chosen, and ends.
* The list of deltas is cut to its last 500, and the generator counts from the start of
  the uncut list. Once it has taken 500 it waits for a 501st that never shows, and is silent until the
  job is completed; the rest then comes in one piece, so that nothing is lost (`NothingIsLost`). A
  page is looked at every 250 ms, so that two minutes of a growing answer are enough.
* `StreamIsAnswer` is conditional: a post that is overtaken, or a second page, can make the stream repeat itself.
* A registration that is refused turns its worker out: a body under a known client id without a runtime session
  drops the tabs of the worker that is registered and requeues its claims, though that worker's own session is still valid
  and its leases are in force. The worker registers again at its next tick, and what its pages still report carries old tokens. `HeldLeaseIsRespected` says that the
  claims then end all together and under new tokens.
* A reset deletes a profile on the server and then here. If the answer to the `DELETE` is lost, the profile is
  gone there and active here, and a later repair can publish it again. A recording under way can post after that, and the
  profile is back; it is one the server has accepted (`ActiveWasAccepted`). For the same reason
  `NewerRemoteIsKept` excepts the reset.
* An operation that fails writes back the store it had read, and so an active revision that was promoted meanwhile
  can fall back to an earlier one, in the worker and in its saved copy. It never falls back to one that was not accepted.
* A response that changed while nobody looked, and that shows no sign of activity, is returned only once it outgrows all
  that was seen before; else the wait ends by its timeout (`Blocked`, which `SettledIsReturned` excepts).
* The last step of a relay deletes the claim of its job by the job's id, which may by then be a newer claim
  of the same job. A shortcut of the new capture is then refused, and its job fails.

**Fairness.** `EveryRequestEnds` assumes `WF(ReapBrowserRequestDeadlines)`, since
`start_browser_job_reaper` runs that loop every 0.25 s in a daemon thread that
catches its exceptions, and `WF(DeadlinePasses(j))`, since time passes. Nothing
is assumed of workers, pages or callers. `keys` adds weak fairness of each request's
thread and of the result handler's second section, since a thread that can run does; a
caller need not hang up, a result need not come, and a request need not be sent.
`KeysSettle` excepts a key whose stream was hung up: closing the generator settles
nothing, and a job that then fails other than by its deadline leaves the key processing. `wakes` assumes `WF(Tick)` and weak
fairness of each job's thread, its recovery thread included; heartbeats need not come or stop, and
a job need not be claimed.

`capture_ends` assumes weak fairness of the tick (an alarm starts it every half minute, and its calls have timeouts), of the
writes to session storage, of a relay and of a report (retries and acknowledgements are timed), and of each page's capture
(every wait in it has a timeout); and that a claim the server still stands by lapses or expires in the end, which its lease and the
reaper see to. No call need succeed beyond the bound on faults, nobody need cancel anything. `completion` assumes that time passes, that the
loop is woken (by its timer if by nothing else) and that a page which dropped part of a text brings it back (`Restore`, an assumption on
the page); it need not be given up, and the page need not ever finish.

Deadlock is not checked in any run: a server without requests may rest, and so may a worker without jobs.

## 4. Proofs

`JobCoordinatorProofs` proves every property above but liveness, for all values
of the constants, from the assumptions `JobCoordinator` declares.

* **Types.** `TypeCorrect`, one lemma per handler group.
* **Record invariants.** `AttemptsBounded`, `NoLeaseAfterDeadline` and
  `LostWakeupOnlyByExhaustion` speak of one job at a time. They are proved through a
  relation between a job record and its successor (`JobMove`): every action moves
  every job by one of a dozen moves, and each move preserves the record invariant
  `RecordOK`. The action properties `OutcomeIsFinal`, `NoCompletionAfterDeadline`
  and `TokenFollowsTab` follow from the same relation.
* **Tab exclusivity.** `OneClaimPerTab` is inductive only where no submission names a
  tab: a queued job with a preset tab can be claimed by a result that carries its
  token, without the test on the tab. The theorem says so in its assumption.
* **Leases.** `HeldLeaseIsRespected`: every action but a registration leaves a held
  lease's token alone, for which the purge needs that a tab under a lease is live. A registration that
  replaces the session, or is refused, ends every claim of the client at once (`ReplacedLosesClaim`).
* **Queue.** `NoLostJob` and `ListedOnce` are inductive together (`QueueOK`).
* **Refinement.** `Refinement` proves `Spec => ImplementsLifecycle`. The mapping
  drops tabs, owners, leases, queue and events; that at most one claim starts per
  step comes from `PollClaim` claiming one job.

Liveness stays with TLC, as does everything about fairness.

`RequestIdempotencyProofs` proves the safety of the keys, for any number of requests,
bodies and streams, from `FingerprintAssumption` and `NullAssumption` (null values are not
data). `OneJobPerKey` is not inductive: that nobody submits a second job rests on
who may own the key, and after a restart on the record outliving every job. `KeyInv`
adds that a job or a serving thread has a record with its fingerprint (`RecordKept`),
that an owner without a job is alone and precedes every job (`OwnerAlone`), that later
owners have submitted, and what the record knows of its job (`OutcomeKnown`). The
restart is the delicate step: it forgets a processing record only where no job names
the key, for which the count of the matching jobs must be 1 whenever there is one,
which is `OneJobPerKey` itself. Three frame lemmas (`ThreadMoves`, `KeySettled`,
`JobChanges`) cover the fifteen other steps. `SettledKeysStay` follows from the same
invariant.

`BrowserWakeProofs` proves the safety of the wakes for any number of jobs and any times with
`TimesAssumption` (the `max` calls where the code reads its configuration: the lease is at least the cooldown, the
watchdog at least the grace). `OpeningsApart` rests on `GapCovered`: while an
opener runs the cooldown is whole, and otherwise it covers what is left of the gap.
`NoColdStartForgotten` is a race between clocks: `Timing` says that while a recovery
thread has a job that saw no ready tab and no try, its own deadline is no nearer than the end of the lease and
of the cooldown, and than the lease an opener in progress may still set. When the deadline is
there, neither can coalesce its wake. Three frame lemmas (`QuietStep`, `ReserveStep`, `OpenerStep`) serve
the thirteen thread steps. `RecoveryEnds` stays with TLC.

`CaptureWorkerProofs` proves the safety invariants of the extension for any number of jobs and pages and any bounds, from
the assumptions `CaptureWorker` declares: `TypeCorrect`, `SentAtMostOnce` (`OneSendPerClaim`) and
`TokensNameTheirTabs` (`TokenNamesItsTab`). Neither of the last two is inductive. The first part of the invariant is
about names: whatever names a claim (the worker's claims, the copy `reconcileClaims` works on, what the tick is about to save and
dispatch, captures, outcomes, relays) names a token that was given out, and with the token of a running claim its tab (`Names`). A step of
the server can only make that easier (`Moves`: tokens grow, and a running claim keeps its tab), so that each
part of the state needs to be looked at only where it changes. The second part is freshness: under the claim on its way to a
page nothing was sent and no page has it (`Fresh`); a capture that has not sent yet has nothing sent under its claim, and no two
pages run the same claim (`SentIn`).

`CaptureDeliveryProofs` adds `AnswersAreDelivered` (`AnswerIsDelivered`): a page that gives up reporting an answer has been told that
its claim is over, or as much went wrong as it has tries. That depends on the whole way of a report, from the page through the
worker's memory to the server. `Memory` says that once a claim has been handed to a page, and as long as the server stands by it, all
the worker keeps of the job is this claim or nothing: in `activeClaims`, in the copy that `reconcileClaims` will put in its place, in
session storage and in the writes still pending there. The claim before may be in storage until the writes that precede the dispatch
are made, so that the invariant counts them (`Due`: the claim is n writes from being handed over, and only what comes after those is of
it). A restart then restores this claim or nothing, and a relay, which falls back from the message to what is kept, posts with the token
and the tab of the claim (`Informed`): a refusal means that the claim is over. What is left is that every failed try of a
running claim is one of the counted faults (`Tries`). `QueuedIsServed` stays with TLC.

`ProfileSyncProofs` proves every property of `ProfileSync`, for any contents, overlaps and bounds, from `ContentAssumption` and
`BoundsAssumption`. The store and its saved copy are sound (`EntryOK`: what is active was accepted, what is pending is ahead), and
so is what each operation has read (`OpOK`): writing a stale copy back is then harmless, for the server forgets nothing it
has accepted. Beyond that an operation knows just enough for its place: an envelope that was acknowledged is an accepted one, what is
promoted is what was submitted, and what was rebased is above the revision that was seen, so that a second refusal is by a
later one. `NewerKept` follows from `Takes` and from who may delete.

`CaptureCompletionProofs` proves the safety of the decision, `WholeReplyReturned` (`WholeReply`) and `RelaysGrow` (`RelaysOnlyGrow`),
for any kinds of page, any length of the reply and any times, from `SitesAssumption`, `TimesAssumption` and `BoundsAssumption`. An answer
without a marker is taken for complete when two clocks of the observer have run out, so that the proof is again a race: while the observer has the last of what
the page has made (`InSync`: the text, what is around it, and the sign of activity), its quiet time is at most the page's (`idle`), and its
age at most the reply's (`Remembers`). A page still at work has one of its two clocks below the limit (`ReplyOK`, which `MayPass`
keeps up). Whatever the page then makes takes the observer out of step, and the observation that brings it back sets its quiet time to 0
(`ObserveOK`); what is left is that a text cut short is always noticed (`RegressedIs`) and that no node but the reply's is taken for it
(`FoundIsReply`). `SettledIsReturned` stays with TLC.

`DeltaStreamProofs` proves every property of `DeltaStream`, for any pages, answers of any length and any bounds, from
`LettersAssumption` (an answer is a sequence that is not empty and has no blanks). Most of it is about texts, by induction. The induction
theorems of the library take an operator as a parameter, which no installed prover can instantiate; `Induction` and `TextInduction`
say the same of a set, from the least element of a set of numbers, and are used with the set of those for which the
claim holds. `Compact` is written as a recursive function for that purpose, and `Part` as an embedding. The proofs show that `Compact` takes a
text apart at any place (`CompactConcat`), that `Normalized` costs no letter, that what a page shows is its answer up to a letter in
either layout (`ShownText`), that it never relays less in the layout it had (`LessIsRegressed`), and what `stream_snapshot_delta`
returns (`DeltaCases`).

* `StreamLosesNothing` (`NothingIsLost`) needs little more: whichever case a delta is, what held the letters of the text before
  holds those of the new one with the delta appended (`DeltaLosesNothing`), so that what was yielded always holds the
  snapshot that was taken last (`Held`), whatever its order.
* `StreamGivesTheAnswer` (`StreamIsAnswer`) rests on order (`OneAnswer`): while one page answers and nothing is overtaken, the numbers of the
  snapshots on their way agree with how much of the answer they have; they have no less than the server's snapshot, that no less than
  the last delta, the deltas grow, and those still to come have no less than the generator took. Each text is then a beginning of the next, and
  the delta is exactly what it adds (`DeltaContinues`). Before the first claim there is nothing to agree with (`Unclaimed`), and a
  page that has relayed nothing has shown nothing (`Unsent`).

Out of reach of these proofs, and checked by TLC only, are the liveness properties: `EveryRequestEnds`, `EveryRequestAnswered`, `KeysSettle`,
`RecoveryEnds`, `QueuedIsServed` and `SettledIsReturned`.

## 5. Not modelled

Of the coordinator: a server with `ALLOW_LEGACY_BROWSER_RUNTIME` set (it is off by default, and the refusal of `legacy:`
runtimes that follows is modelled), and polls without a `client_id`; jobs
for several hostnames; jobs without a bound conversation or with `new_tab`;
`reserve-tab` and `commit-tab`, whose marker no claim reads; `close_previous`;
payload texts; the wording of states and traces. Of wakes: another activation owner, automatic wakes
switched off, targets that are invalid or on another host than the job's domain, restarts, and the shell
helpers behind `wake_command`. Of streams: pages that rewrite
their answer, and tool calls. Of requests: the expiry of a key's record
after 24 hours, requests without a key, and handlers that raise.

Of the extension's captures: several hostnames, jobs that open a new tab or navigate to a bound conversation, a reload of the extension (pages with an old content script) and of the browser (the session
storage is lost with the pages), the badge and the debug log, and the network capture, which `NETWORK_CAPTURE_RUNTIME_ENABLED = false` keeps out of the
product path. Of completion: selectors that must be recovered, profiles that describe
the network only, and the final text's formatting. Of profiles: life-cycle states and health (they decide what
is shown and reported, not which envelope is kept), the recovery of selectors, several profiles, the
recording user interface, the copy of the view in browser storage (a restart of the worker keeps `view` as it is), the template that the
preparation of a tab sends straight to the page without going through the store, a browser storage that is full or fails, the validation and migration of envelopes.

No module has the translation of protocols and routes, traces and the conversation log,
the popup and the network calibration, and the operator scripts: they are pure functions, logging, user interface and
sequential harnesses, and no state of theirs is read by the parts above.

## 6. Plan

What would come next, the most important behaviour first:

1. Jobs of several hostnames, in `CaptureWorker` and in the coordinator: one tick serves one site at a time.
2. The composition of `CaptureWorker` with `JobCoordinator` in the place of its reduced server.
3. Expiry of keys, and the composition of `RequestIdempotency` with the coordinator.
