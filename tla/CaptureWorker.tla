--------------------------- MODULE CaptureWorker ---------------------------
(***************************************************************************)
(* How the extension runs the jobs of one recorded hostname: the service   *)
(* worker (src/extension/background.js) polls the server for a job, keeps  *)
(* the claim in memory and in session storage, hands the prompt to a page  *)
(* and relays what the page reports; the page's content script             *)
(* (src/extension/content.js) types the prompt, sends it once, waits for   *)
(* the answer and posts the outcome with retries.                          *)
(*                                                                         *)
(* Each await of the worker ends a step: ticks, relays, heartbeats and     *)
(* storage writes interleave there, and the browser may stop the worker    *)
(* there.  A stopped worker loses its memory; the next one has another     *)
(* runtime session and rebuilds the claims, without their tokens, from the *)
(* session storage.  The pages live on.                                    *)
(*                                                                         *)
(* The server is reduced to what a worker sees of it: the status of a job, *)
(* how often it was claimed (which names its claim token, 0 is no token),  *)
(* the tab that holds it, and whether it knows the worker's present        *)
(* runtime session.  JobCoordinator has the rest.  faults counts what goes *)
(* wrong around the extension; nothing else limits it.                     *)
(***************************************************************************)
EXTENDS Integers, Sequences, FiniteSets

CONSTANTS
    Job,        \* jobs for the hostname
    Tab,        \* recorded pages of the hostname, all owned by this worker
    PresetOf,   \* the tab a job is submitted for, or NoTab
    SendKinds,  \* the recorded ways to send: "button", "enter", "shortcut"
    MaxClaims,  \* MAX_CLAIM_ATTEMPTS of the server
    Attempts,   \* how often a page tries to report an outcome
    MaxFaults,  \* bound: restarts, failed calls, lost pages and unready pages
    NoTab, NoJob

ASSUME TabsAssumption == NoTab \notin Tab /\ NoJob \notin Job
ASSUME PresetAssumption == PresetOf \in [Job -> Tab \cup {NoTab}]
ASSUME BoundsAssumption == MaxClaims \in Nat \ {0} /\ Attempts \in Nat /\ MaxFaults \in Nat

VARIABLES
    status,     \* the server's jobs
    token,      \* how many claim tokens a job has had
    held,       \* the tab a claimed job runs on, for the server
    registered, \* the server knows the worker's runtime session
    claims,     \* activeClaims
    stored,     \* the tabs of the claims in session storage
    saves,      \* writes to session storage under way
    tick,       \* the run of browserBridgeTick, of which there is one at a time
    relays,     \* results the worker is relaying
    cap,        \* the capture each page runs
    posts,      \* outcomes the pages are reporting
    refusals,   \* heartbeat answers under way that call a claim invalid
    sent,       \* how often the prompt was sent under each claim
    faults      \* what has gone wrong around the extension

serverVars == <<status, token, held, registered>>
workerVars == <<claims, stored, saves, tick>>
pageVars   == <<cap, posts, refusals, sent>>
vars == <<serverVars, workerVars, relays, pageVars, faults>>

Token == 0..MaxClaims
NoClaim == [tab |-> NoTab, token |-> 0]
Claim == [tab : Tab \cup {NoTab}, token : Token]
NoCapture == [job |-> NoJob, token |-> 0, step |-> "none", stop |-> FALSE]
Capture == [job : Job \cup {NoJob}, token : Token, stop : BOOLEAN,
            step : {"none", "prepare", "ready", "unsent", "observe", "answer", "report"}]
Post == [job : Job, token : Token, tab : Tab, ok : BOOLEAN, tries : 0..Attempts, open : BOOLEAN]
\* A relay posts with the token "use" and the tab "on"; try 0 is the worker's own.
Relay == [job : Job, token : Token, tab : Tab, ok : BOOLEAN, try : 0..Attempts,
          use : Token, on : Tab, stage : {"lookup", "post", "accepted", "refused"}]
Tick == [at : {"idle", "reconcile", "cancel", "register", "load", "inventory", "choose",
               "poll", "save", "dispatch"},
         todo : SUBSET Job, kept : [Job -> Claim], gone : SUBSET Job,
         busy : SUBSET Tab, job : Job \cup {NoJob}, token : Token, tab : Tab \cup {NoTab},
         left : Nat]

TypeOK ==
    /\ status \in [Job -> {"absent", "queued", "claimed", "completed", "failed"}]
    /\ token \in [Job -> Token]
    /\ held \in [Job -> Tab \cup {NoTab}]
    /\ registered \in BOOLEAN
    /\ claims \in [Job -> Claim]
    /\ stored \in [Job -> Tab \cup {NoTab}]
    /\ saves \in Seq([Job -> Tab \cup {NoTab}])
    /\ tick \in Tick
    /\ relays \subseteq Relay
    /\ cap \in [Tab -> Capture]
    /\ posts \subseteq Post
    /\ refusals \subseteq [tab : Tab, job : Job]
    /\ sent \in [Job -> [Token -> Nat]]
    /\ faults \in 0..MaxFaults

-----------------------------------------------------------------------------
(* The server.                                                             *)

Ended == {"completed", "failed"}

\* A claim the server stands by.
Live(j, k, t) == status[j] = "claimed" /\ token[j] = k /\ held[j] = t

\* Mutant: a job is retried for ever.
RetriedForever(j) == "queued"

\* What becomes of a claimed job that loses its page or its worker.
Retried(j) == IF token[j] < MaxClaims THEN "queued" ELSE "failed"

Submit(j) ==
    /\ status[j] = "absent"
    /\ status' = [status EXCEPT ![j] = "queued"]
    /\ UNCHANGED <<token, held, registered, workerVars, relays, pageVars, faults>>

\* The lease of the job lapses, or its tab is stale.
Lapse(j) ==
    /\ status[j] = "claimed"
    /\ status' = [status EXCEPT ![j] = Retried(j)]
    /\ held' = [held EXCEPT ![j] = NoTab]
    /\ UNCHANGED <<token, registered, workerVars, relays, pageVars, faults>>

\* The requester's deadline passes.
Expire(j) ==
    /\ status[j] \in {"queued", "claimed"}
    /\ status' = [status EXCEPT ![j] = "failed"]
    /\ UNCHANGED <<token, held, registered, workerVars, relays, pageVars, faults>>

\* browser_register: another runtime session takes over the client, and the
\* jobs its predecessor had claimed go back to the queue.
TakeOver ==
    LET revoked == {j \in Job : status[j] = "claimed" /\ ~registered}
    IN  /\ status' = [j \in Job |-> IF j \in revoked THEN Retried(j) ELSE status[j]]
        /\ held' = [j \in Job |-> IF j \in revoked THEN NoTab ELSE held[j]]
        /\ registered' = TRUE
        /\ UNCHANGED token

\* browser_result, and the replay of a result it already has.
Accepts(r) == Live(r.job, r.use, r.on)
Replays(r) == r.ok /\ status[r.job] = "completed" /\ token[r.job] = r.use /\ held[r.job] = r.on

-----------------------------------------------------------------------------
(* The claims the worker keeps.                                            *)

Fault == faults < MaxFaults /\ faults' = faults + 1

Known(j) == claims[j] # NoClaim

ClaimTabs == {claims[j].tab : j \in {k \in Job : Known(k)}}

\* serializeClaims and deserializeClaims: a stored claim has no token.
Serialised(c) == [j \in Job |-> c[j].tab]
Deserialised(s) == [j \in Job |-> [tab |-> s[j], token |-> 0]]

\* persistActiveClaims: the writes are made one after the other; one that
\* writes what the last one does is not told from it.
Persist(c) ==
    LET last == IF saves = <<>> THEN stored ELSE saves[Len(saves)]
    IN  saves' = IF last = Serialised(c) THEN saves ELSE Append(saves, Serialised(c))

\* The first of the pending writes reaches the session storage.
WriteClaims ==
    /\ saves # <<>>
    /\ stored' = Head(saves)
    /\ saves' = Tail(saves)
    /\ tick' = [tick EXCEPT !.left = IF @ = 0 THEN 0 ELSE @ - 1]
    /\ UNCHANGED <<serverVars, claims, relays, pageVars, faults>>

\* Deletes a claim by its job and saves the rest.
Forget(j) ==
    /\ claims' = [claims EXCEPT ![j] = NoClaim]
    /\ Persist(claims')

-----------------------------------------------------------------------------
(* browserBridgeTick.                                                      *)

IdleTick == [at |-> "idle", todo |-> {}, kept |-> [j \in Job |-> NoClaim], gone |-> {},
             busy |-> {}, job |-> NoJob, token |-> 0, tab |-> NoTab, left |-> 0]

TickOnly == UNCHANGED <<claims, stored, saves, relays, pageVars>>

TickEnds == tick' = IdleTick

\* An alarm, a tab event or a ready page starts a run unless one is under way.
TickStart ==
    /\ tick.at = "idle"
    /\ tick' = IF ClaimTabs = {} THEN [IdleTick EXCEPT !.at = "register"]
               ELSE [IdleTick EXCEPT !.at = "reconcile",
                                     !.todo = {j \in Job : Known(j)}, !.kept = claims]
    /\ TickOnly /\ UNCHANGED <<serverVars, faults>>

\* Mutant: a refused lookup is taken for an unreachable server.
AlwaysStillClaimed(j) == TRUE

StillClaimed(j) == status[j] = "claimed" /\ held[j] = tick.kept[j].tab

\* reconcileClaims asks for the token of each claim of its copy in turn; a
\* claim is given up when the server knows of none, never because of silence.
LookUp(j) ==
    /\ tick.at = "reconcile"
    /\ j \in tick.todo
    /\ LET valid == StillClaimed(j)
           next  == IF tick.todo = {j} THEN "cancel" ELSE "reconcile"
       IN  \/ /\ tick' = [tick EXCEPT !.at = next, !.todo = @ \ {j},
                                      !.gone = IF valid THEN @ ELSE @ \cup {j}]
              /\ UNCHANGED faults
           \/ /\ tick' = [tick EXCEPT !.at = next, !.todo = @ \ {j}]
              /\ Fault
    /\ TickOnly /\ UNCHANGED serverVars

\* requestAutoCaptureCancellation goes by the job alone.
Stopped(t, j) ==
    IF cap[t].job = j THEN [cap EXCEPT ![t].stop = TRUE] ELSE cap

\* cancelClaimedPageCapture, for one claim after the other.
CancelClaimedPageCapture(j) ==
    /\ tick.at = "cancel"
    /\ j \in tick.gone \cap {k \in Job : tick.kept[k] # NoClaim}
    /\ cap' = Stopped(tick.kept[j].tab, j)
    /\ tick' = [tick EXCEPT !.kept[j] = NoClaim]
    /\ UNCHANGED <<serverVars, claims, stored, saves, relays, posts, refusals, sent, faults>>

\* reconcileActiveClaims puts what is left of its copy in place of the claims.
Reconciled ==
    /\ tick.at = "cancel"
    /\ \A j \in tick.gone : tick.kept[j] = NoClaim
    /\ IF tick.gone = {}
       THEN /\ tick' = [IdleTick EXCEPT !.at = "register"]
            /\ UNCHANGED <<claims, saves>>
       ELSE /\ claims' = tick.kept
            /\ Persist(claims')
            /\ tick' = [IdleTick EXCEPT !.at = "register"]
    /\ UNCHANGED <<serverVars, stored, relays, pageVars, faults>>

\* registerBrowserClient, at the start of the run and before a tab is chosen.
RegisterBrowserClient ==
    /\ tick.at \in {"register", "inventory"}
    /\ LET next == IF tick.at = "register" THEN "load" ELSE "choose"
       IN  tick' = [tick EXCEPT !.at = next]
    /\ \/ TakeOver /\ UNCHANGED faults
       \/ Fault /\ UNCHANGED serverVars
    /\ TickOnly

\* /browser/pending-domains: a queued job, and the tabs the server sees at work.
LoadPending ==
    /\ tick.at = "load"
    /\ \/ /\ \E j \in Job :
                /\ status[j] = "queued"
                /\ tick' = [tick EXCEPT !.at = "inventory", !.job = j,
                              !.busy = {held[k] : k \in {i \in Job : status[i] = "claimed"}}]
          /\ UNCHANGED faults
       \/ (\A j \in Job : status[j] # "queued") /\ TickEnds /\ UNCHANGED faults
       \/ TickEnds /\ Fault
    /\ TickOnly /\ UNCHANGED serverVars

\* The tab the job was submitted for, until it is first claimed; otherwise a
\* free page, and none while the worker has a claim on the hostname.
Choices(j) ==
    IF token[j] = 0 /\ PresetOf[j] # NoTab THEN {PresetOf[j]}
    ELSE IF ClaimTabs # {} THEN {} ELSE Tab \ tick.busy

\* ensureContentScript: the page does not answer, or has no use for the recording.
PageUnready == Fault /\ TickEnds

ChooseTab ==
    /\ tick.at = "choose"
    /\ \/ /\ registered
          /\ \E t \in Choices(tick.job) : tick' = [IdleTick EXCEPT !.at = "poll", !.tab = t]
          /\ UNCHANGED faults
       \/ (~registered \/ Choices(tick.job) = {}) /\ TickEnds /\ UNCHANGED faults
       \/ PageUnready
    /\ TickOnly /\ UNCHANGED serverVars

\* claim_browser_job: a queued job this tab may run, of a registered worker.
Offered(j, t) ==
    /\ registered
    /\ status[j] = "queued"
    /\ token[j] = 0 => PresetOf[j] \in {NoTab, t}
    /\ \A k \in Job : status[k] = "claimed" => held[k] # t

ClaimedFor(j, t) ==
    /\ status' = [status EXCEPT ![j] = "claimed"]
    /\ token' = [token EXCEPT ![j] = @ + 1]
    /\ held' = [held EXCEPT ![j] = t]
    /\ UNCHANGED registered

\* /browser/poll; when its answer is lost, nobody knows of the claim.
Poll ==
    /\ tick.at = "poll"
    /\ LET t == tick.tab
       IN  \/ \E j \in Job :
                /\ Offered(j, t)
                /\ ClaimedFor(j, t)
                /\ \/ /\ claims' = [claims EXCEPT ![j] = [tab |-> t, token |-> token'[j]]]
                      /\ Persist(claims')
                      /\ tick' = [tick EXCEPT !.at = "save", !.job = j, !.token = token'[j],
                                              !.left = Len(saves')]
                      /\ UNCHANGED faults
                   \/ TickEnds /\ Fault /\ UNCHANGED <<claims, saves>>
           \/ /\ \A j \in Job : ~Offered(j, t)
              /\ TickEnds
              /\ UNCHANGED <<claims, saves, serverVars, faults>>
    /\ UNCHANGED <<stored, relays, pageVars>>

\* The claim is in session storage.
ClaimSaved ==
    /\ tick.at = "save"
    /\ tick.left = 0
    /\ tick' = [tick EXCEPT !.at = "dispatch"]
    /\ TickOnly /\ UNCHANGED <<serverVars, faults>>

\* The job's target is on another site: the run ends and leaves the claim.
RefuseTarget ==
    /\ tick.at = "dispatch"
    /\ Fault
    /\ TickEnds
    /\ TickOnly /\ UNCHANGED serverVars

\* The worker's own report of a failure, whose claim it then deletes.
OwnFailure == [job |-> tick.job, token |-> tick.token, tab |-> tick.tab, ok |-> FALSE, try |-> 0,
               use |-> tick.token, on |-> tick.tab, stage |-> "post"]

Failure(t, j, k) ==
    [job |-> j, token |-> k, tab |-> t, ok |-> FALSE, tries |-> 0, open |-> FALSE]

\* auto_capture reaches the page, which runs one capture at a time.
Received(t, j, k) ==
    IF cap[t] = NoCapture
    THEN /\ cap' = [cap EXCEPT ![t] = [job |-> j, token |-> k, step |-> "prepare", stop |-> FALSE]]
         /\ UNCHANGED posts
    ELSE posts' = posts \cup {Failure(t, j, k)} /\ UNCHANGED cap

Dispatch ==
    /\ tick.at = "dispatch"
    /\ \/ Received(tick.tab, tick.job, tick.token) /\ UNCHANGED <<relays, faults>>
       \/ relays' = relays \cup {OwnFailure} /\ Fault /\ UNCHANGED <<cap, posts>>
    /\ TickEnds
    /\ UNCHANGED <<serverVars, claims, stored, saves, refusals, sent>>

-----------------------------------------------------------------------------
(* The capture of a page.                                                  *)

PageOnly == UNCHANGED <<serverVars, workerVars>>

\* The capture ends; its failure is reported from then on.
Fails(t) ==
    /\ posts' = posts \cup {Failure(t, cap[t].job, cap[t].token)}
    /\ cap' = [cap EXCEPT ![t] = NoCapture]

Advance(t, step) == cap' = [cap EXCEPT ![t].step = step] /\ UNCHANGED posts

\* The recorded input is not there, is not usable or is not alone.
InputUnusable(t) == Fails(t)

\* setInputValue
PromptEntered(t) == ~cap[t].stop /\ Advance(t, "ready")

Prepare(t) ==
    /\ cap[t].step = "prepare"
    /\ InputUnusable(t) \/ PromptEntered(t)
    /\ PageOnly /\ UNCHANGED <<relays, refusals, sent, faults>>

\* dispatch_recorded_keyboard: the worker presses the key for the claim it has.
KeyboardAllowed(t) == claims[cap[t].job] = [tab |-> t, token |-> cap[t].token]

Sent(t) == sent' = [sent EXCEPT ![cap[t].job][cap[t].token] = @ + 1]

\* safeClick, once; the button may not be ready in time.
Click(t) ==
    \/ ~cap[t].stop /\ Sent(t) /\ Advance(t, "observe")
    \/ Fails(t) /\ UNCHANGED sent

\* dispatchRecordedKeyboardOnce: an Enter that may not have been pressed is
\* watched for its effect all the same.
PressEnter(t) ==
    \/ KeyboardAllowed(t) /\ Sent(t) /\ Advance(t, "observe")
    \/ UNCHANGED sent /\ Advance(t, "unsent")

\* A shortcut that may not have been pressed is a failure.
PressShortcut(t) ==
    \/ ~cap[t].stop /\ KeyboardAllowed(t) /\ Sent(t) /\ (Advance(t, "observe") \/ Fails(t))
    \/ Fails(t) /\ UNCHANGED sent

Send(t) ==
    /\ cap[t].step = "ready"
    /\ \/ "button" \in SendKinds /\ Click(t)
       \/ "enter" \in SendKinds /\ PressEnter(t)
       \/ "shortcut" \in SendKinds /\ PressShortcut(t)
    /\ PageOnly /\ UNCHANGED <<relays, refusals, faults>>

\* Mutant: a send without a visible effect is made again.
ObserveOrResend(t) ==
    /\ \/ cap[t].step = "observe" /\ ~cap[t].stop /\ Advance(t, "answer")
       \/ cap[t].step \in {"observe", "unsent"} /\ Advance(t, "ready")
    /\ PageOnly /\ UNCHANGED <<relays, refusals, sent, faults>>

\* waitForSendObservation: some effect is seen, or there is none in time.
Observe(t) ==
    /\ \/ cap[t].step = "observe" /\ ~cap[t].stop /\ Advance(t, "answer")
       \/ cap[t].step \in {"observe", "unsent"} /\ Fails(t)
    /\ PageOnly /\ UNCHANGED <<relays, refusals, sent, faults>>

\* The answer is complete and reported by the capture itself, or none comes.
Answer(t) ==
    /\ cap[t].step = "answer"
    /\ \/ Fails(t)
       \/ /\ ~cap[t].stop
          /\ cap' = [cap EXCEPT ![t].step = "report"]
          /\ posts' = posts \cup {[Failure(t, cap[t].job, cap[t].token) EXCEPT !.ok = TRUE]}
    /\ PageOnly /\ UNCHANGED <<relays, refusals, sent, faults>>

\* The page is closed or navigates away.
PageLost(t) ==
    /\ cap[t] # NoCapture \/ \E p \in posts : p.tab = t
    /\ Fault
    /\ cap' = [cap EXCEPT ![t] = NoCapture]
    /\ posts' = {p \in posts : p.tab # t}
    /\ refusals' = {b \in refusals : b.tab # t}
    /\ PageOnly /\ UNCHANGED <<relays, sent>>

\* The heartbeat of a capture names its claim; the server calls it invalid.
HeartbeatRefused(t) ==
    /\ cap[t] # NoCapture
    /\ ~Live(cap[t].job, cap[t].token, t)
    /\ refusals' = refusals \cup {[tab |-> t, job |-> cap[t].job]}
    /\ PageOnly /\ UNCHANGED <<relays, cap, posts, sent, faults>>

\* The answer cancels the capture the page runs by then, if it is of that job.
RefusalArrives(b) ==
    /\ b \in refusals
    /\ refusals' = refusals \ {b}
    /\ cap' = Stopped(b.tab, b.job)
    /\ PageOnly /\ UNCHANGED <<relays, posts, sent, faults>>

-----------------------------------------------------------------------------
(* Outcomes: postBrowserResultWithRetry and relayBrowserResult.            *)

\* Mutant: the token is the worker's, the tab the page's.
RelayOfPage(p) ==
    LET k == IF Known(p.job) THEN claims[p.job].token ELSE p.token
    IN  [job |-> p.job, token |-> p.token, tab |-> p.tab, ok |-> p.ok, try |-> p.tries + 1,
         use |-> k, on |-> p.tab, stage |-> IF k = 0 THEN "lookup" ELSE "post"]

\* What the worker knows of the claim outranks what the page says of it.
RelayOf(p) ==
    LET c == claims[p.job]
        source == IF Known(p.job) THEN c ELSE [tab |-> p.tab, token |-> p.token]
    IN  [job |-> p.job, token |-> p.token, tab |-> p.tab, ok |-> p.ok, try |-> p.tries + 1,
         use |-> source.token, on |-> source.tab,
         stage |-> IF source.token = 0 THEN "lookup" ELSE "post"]

\* The page sends its outcome to the worker, again if need be.
TryPost(p) ==
    /\ p \in posts
    /\ ~p.open /\ p.tries < Attempts
    /\ posts' = (posts \ {p}) \cup {[p EXCEPT !.tries = @ + 1, !.open = TRUE]}
    /\ relays' = relays \cup {RelayOf(p)}
    /\ PageOnly /\ UNCHANGED <<cap, refusals, sent, faults>>

IsTryOf(r, p) == r.job = p.job /\ r.token = p.token /\ r.try = p.tries

\* The page waits no longer for this try: the worker is slow or is no more.
AckTimeout(p) ==
    /\ p \in posts
    /\ p.open
    /\ posts' = (posts \ {p}) \cup {[p EXCEPT !.open = FALSE]}
    /\ IF \E r \in relays : IsTryOf(r, p) THEN Fault ELSE UNCHANGED faults
    /\ PageOnly /\ UNCHANGED <<relays, cap, refusals, sent>>

\* Reporting is over, and with it the capture that waited for it.
Reported(p) ==
    cap' = IF p.ok THEN [cap EXCEPT ![p.tab] = NoCapture] ELSE cap

\* Mutant: the page tries once.
PostEndsAtOnce(p) ==
    /\ p \in posts
    /\ ~p.open /\ p.tries > 0
    /\ posts' = posts \ {p}
    /\ Reported(p)
    /\ PageOnly /\ UNCHANGED <<relays, refusals, sent, faults>>

PostEnds(p) ==
    /\ p \in posts
    /\ ~p.open /\ p.tries = Attempts
    /\ posts' = posts \ {p}
    /\ Reported(p)
    /\ PageOnly /\ UNCHANGED <<relays, refusals, sent, faults>>

\* The page hears of the try it waits for; it is done once one succeeds.
Acknowledged(r, ok) ==
    LET waiting == {p \in posts : p.open /\ IsTryOf(r, p)}
    IN  IF waiting = {} THEN UNCHANGED <<posts, cap>>
        ELSE \E p \in waiting :
                IF ok THEN posts' = posts \ {p} /\ Reported(p)
                ELSE /\ posts' = (posts \ {p}) \cup {[p EXCEPT !.open = FALSE]}
                     /\ UNCHANGED cap

\* A claim restored without its token: the relay asks the server for it.
LookUpToken(r) ==
    /\ r \in relays
    /\ r.stage = "lookup"
    /\ \/ /\ status[r.job] = "claimed" /\ held[r.job] = r.on
          /\ relays' = (relays \ {r}) \cup {[r EXCEPT !.use = token[r.job], !.stage = "post"]}
          /\ UNCHANGED <<claims, saves, posts, cap, faults>>
       \/ /\ ~(status[r.job] = "claimed" /\ held[r.job] = r.on)
          /\ relays' = relays \ {r}
          /\ Forget(r.job)
          /\ Acknowledged(r, FALSE)
          /\ UNCHANGED faults
       \/ /\ relays' = relays \ {r}
          /\ Acknowledged(r, FALSE)
          /\ Fault
          /\ UNCHANGED <<claims, saves>>
    /\ UNCHANGED <<serverVars, stored, tick, refusals, sent>>

\* /browser/result takes the outcome of a claim it stands by, once.
Decide(r) ==
    /\ status' = IF Accepts(r) THEN [status EXCEPT ![r.job] = IF r.ok THEN "completed" ELSE "failed"]
                 ELSE status
    /\ UNCHANGED <<token, held, registered>>

Verdict(r) == IF Accepts(r) \/ Replays(r) THEN "accepted" ELSE "refused"

RelayPosts(r) ==
    /\ r \in relays
    /\ r.stage = "post"
    /\ relays' = (relays \ {r}) \cup {[r EXCEPT !.stage = Verdict(r)]}
    /\ Decide(r)
    /\ UNCHANGED <<workerVars, pageVars, faults>>

\* The post fails on its way, or its answer does: the claim stays, except
\* that the worker's own report drops it in any case.
RelayLost(r) ==
    /\ r \in relays
    /\ r.stage = "post"
    /\ Fault
    /\ relays' = relays \ {r}
    /\ Decide(r) \/ UNCHANGED serverVars
    /\ IF r.try = 0 THEN Forget(r.job) ELSE UNCHANGED <<claims, saves>>
    /\ Acknowledged(r, FALSE)
    /\ UNCHANGED <<stored, tick, refusals, sent>>

\* The server has taken or refused the outcome: the job's claim is over.
RelayDone(r) ==
    /\ r \in relays
    /\ r.stage \in {"accepted", "refused"}
    /\ relays' = relays \ {r}
    /\ Forget(r.job)
    /\ Acknowledged(r, r.stage = "accepted")
    /\ UNCHANGED <<serverVars, stored, tick, refusals, sent, faults>>

-----------------------------------------------------------------------------
\* The browser stops the worker; another one starts from the session storage.
WorkerRestart ==
    /\ Fault
    /\ claims' = Deserialised(stored)
    /\ saves' = <<>>
    /\ tick' = IdleTick
    /\ relays' = {}
    /\ refusals' = {}
    /\ registered' = FALSE
    /\ UNCHANGED <<status, token, held, stored, cap, posts, sent>>

Init ==
    /\ status = [j \in Job |-> "absent"]
    /\ token = [j \in Job |-> 0]
    /\ held = [j \in Job |-> NoTab]
    /\ registered = FALSE
    /\ claims = [j \in Job |-> NoClaim]
    /\ stored = [j \in Job |-> NoTab]
    /\ saves = <<>>
    /\ tick = IdleTick
    /\ relays = {}
    /\ cap = [t \in Tab |-> NoCapture]
    /\ posts = {}
    /\ refusals = {}
    /\ sent = [j \in Job |-> [k \in Token |-> 0]]
    /\ faults = 0

Server == \E j \in Job : Submit(j) \/ Lapse(j) \/ Expire(j)

TickStep ==
    \/ TickStart
    \/ \E j \in Job : LookUp(j) \/ CancelClaimedPageCapture(j)
    \/ Reconciled \/ RegisterBrowserClient \/ LoadPending \/ ChooseTab
    \/ Poll \/ ClaimSaved \/ Dispatch

CaptureStep(t) == Prepare(t) \/ Send(t) \/ Observe(t) \/ Answer(t)

PostStep == \E p \in posts : TryPost(p) \/ AckTimeout(p) \/ PostEnds(p)

RelayStep == \E r \in relays : LookUpToken(r) \/ RelayPosts(r) \/ RelayDone(r)

Next ==
    \/ Server
    \/ TickStep
    \/ WriteClaims
    \/ RefuseTarget
    \/ \E t \in Tab : CaptureStep(t) \/ PageLost(t) \/ HeartbeatRefused(t)
    \/ \E b \in refusals : RefusalArrives(b)
    \/ PostStep
    \/ RelayStep
    \/ \E r \in relays : RelayLost(r)
    \/ WorkerRestart

Spec == Init /\ [][Next]_vars

\* The worker is woken by its alarm twice a minute, calls and pages are bounded
\* by timeouts, and no claim lasts: its lease or its request's deadline ends it.
Fairness ==
    /\ WF_vars(TickStep)
    /\ WF_vars(WriteClaims)
    /\ WF_vars(PostStep)
    /\ WF_vars(RelayStep)
    /\ \A t \in Tab : WF_vars(CaptureStep(t))
    /\ \A j \in Job : WF_vars(status[j] = "claimed" /\ (Lapse(j) \/ Expire(j)))

FairSpec == Spec /\ Fairness

-----------------------------------------------------------------------------
(* Properties.                                                             *)

\* Whatever is retried, restarted or claimed again, the prompt of a job is
\* sent at most once under each of its claims.
OneSendPerClaim == \A j \in Job, k \in Token : sent[j][k] <= 1

\* Who has the token of a running claim has the claim's tab with it, so that no
\* report is refused for naming the wrong page.
TokenNamesItsTab ==
    \A j \in Job : status[j] = "claimed" =>
        /\ claims[j].token = token[j] => claims[j].tab = held[j]
        /\ \A t \in Tab : cap[t].job = j /\ cap[t].token = token[j] => t = held[j]
        /\ \A p \in posts : p.job = j /\ p.token = token[j] => p.tab = held[j]
        /\ \A r \in relays : r.job = j /\ r.use = token[j] => r.on = held[j]

Reporting(j, k) == \E p \in posts : p.job = j /\ p.token = k /\ p.ok

\* While fewer things went wrong than a page has tries, and unless the page
\* itself is lost, the page gives up reporting an answer only when the server
\* has it or has ended the claim.
AnswerIsDelivered ==
    [][faults' = faults /\ faults < Attempts =>
          \A p \in posts : p.ok /\ ~Reporting(p.job, p.token)' =>
              ~Live(p.job, p.token, p.tab)]_vars

\* A queued job is claimed or ends: no stale claim keeps its site blocked.
QueuedIsServed == \A j \in Job : status[j] = "queued" ~> status[j] # "queued"

\* A restart of the worker does not make a live claim be claimed again: a job
\* whose claim the new worker has restored is not put back into the queue.
RestartMakesNoSecondClaim ==
    [][\A j \in Job : ~registered /\ registered' /\ status[j] = "claimed" /\ Known(j)
          => status'[j] # "queued"]_vars
=============================================================================
