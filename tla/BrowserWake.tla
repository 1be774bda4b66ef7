----------------------------- MODULE BrowserWake -----------------------------
(***************************************************************************)
(* The wake coordinator of src/server/api_server.py for the jobs of one    *)
(* recorded host: activate_browser_for_job in the thread of each request,  *)
(* request_browser_wake and wake_browser_host with their two locks, and    *)
(* the recovery thread a request leaves behind, for a job nobody claims or *)
(* for a page that never comes up.                                         *)
(*                                                                         *)
(* Times are what is left of them, in units of a clock: of the cooldown,   *)
(* of the pending lease, of the readiness of the last heartbeat, of a      *)
(* sleep, of a thread's deadline.  A thread may run as late as it likes,   *)
(* except that the opener of the operating system is started within a unit *)
(* of its reservation.  A job's target has the job's host for its host,    *)
(* and the server is the activation owner, with automatic wakes on.        *)
(***************************************************************************)
EXTENDS Integers

CONSTANTS
    Job,
    Cooldown, \* _BROWSER_WAKE_COOLDOWN
    LeaseTTL, \* _BROWSER_WAKE_LEASE_TTL
    Window,   \* _BROWSER_WAKE_RECENT_WINDOW
    Grace,    \* _UNCLAIMED_WAKE_GRACE
    MaxWait   \* _UNCLAIMED_WAKE_MAX_WAIT

ASSUME TimesAssumption ==
    /\ Cooldown \in Nat \ {0} /\ LeaseTTL \in Nat /\ LeaseTTL >= Cooldown
    /\ Window \in Nat \ {0}
    /\ Grace \in Nat \ {0} /\ MaxWait \in Nat /\ MaxWait >= Grace

VARIABLES
    cooling,   \* of the cooldown since _BROWSER_WAKE_LAST[host]
    lease,     \* of the lease of _BROWSER_WAKE_PENDING[host], 0 if there is none
    fresh,     \* of the window of the last content-ready heartbeat
    releasing, \* a heartbeat is about to release the pending wake
    pc,        \* where the thread of each job stands
    ready,     \* jobs whose activation read recently_ready
    waiting,   \* jobs that are queued and were never claimed
    attempted, \* stalled_wake_attempted or unclaimed_wake_attempted
    nap,       \* of the sleep of its recovery thread
    left,      \* of the deadline of its recovery thread
    gap,       \* of a cooldown since the browser was last opened
    seen,      \* jobs since whose activation a tab of the host has been ready
    tried      \* jobs since whose activation an opening has been tried

hostVars == <<cooling, lease, fresh, releasing>>
jobVars == <<ready, waiting, attempted, nap, left>>
history == <<gap, seen, tried>>
vars == <<hostVars, pc, jobVars, history>>

\* request_browser_wake, for a new job or for a recovery thread.
First == {"ask", "drop", "lock", "open"}
Again == {"ask again", "drop again", "lock again", "open again"}

\* The thread has reserved the wake and starts the opener; with the first two
\* it holds _BROWSER_WAKE_PENDING_LOCK.
Opening == {"open", "open again", "open alone"}

Stalled == {"stalled", "mark stalled"}
Unclaimed == {"unclaimed", "mark unclaimed", "forget", "wake alone", "open alone"}

PC == {"new", "bound", "done"} \cup First \cup Again \cup Stalled \cup Unclaimed

TypeOK ==
    /\ cooling \in 0..Cooldown
    /\ lease \in 0..LeaseTTL
    /\ fresh \in 0..Window
    /\ releasing \in BOOLEAN
    /\ pc \in [Job -> PC]
    /\ ready \subseteq Job
    /\ waiting \subseteq Job
    /\ attempted \in [Job -> {"no", "stalled", "unclaimed"}]
    /\ nap \in [Job -> Nat]
    /\ left \in [Job -> Nat]
    /\ gap \in 0..Cooldown
    /\ seen \subseteq Job
    /\ tried \subseteq Job

Init ==
    /\ cooling = 0 /\ lease = 0 /\ fresh = 0 /\ releasing = FALSE
    /\ pc = [j \in Job |-> "new"]
    /\ ready = {}
    /\ waiting = {}
    /\ attempted = [j \in Job |-> "no"]
    /\ nap = [j \in Job |-> 0]
    /\ left = [j \in Job |-> 0]
    /\ gap = 0
    /\ seen = {}
    /\ tried = {}

Goes(j, there) == pc' = [pc EXCEPT ![j] = there]

\* Nobody holds _BROWSER_WAKE_PENDING_LOCK over an opening.
PendingUnlocked == \A k \in Job : pc[k] \notin {"open", "open again"}

\* browser_extension_recently_ready.
RecentlyReady == fresh > 0

-----------------------------------------------------------------------------
(* wake_browser_host.                                                      *)

\* Mutant: the slot is not reserved before the opener is started.
PassCooldown == cooling' = cooling

\* _BROWSER_WAKE_LAST[host] = now.
ReserveSlot == cooling' = Cooldown

Reserve ==
    /\ cooling = 0
    /\ ReserveSlot
    /\ tried' = {k \in Job : pc[k] # "new"}

\* The opener opens the browser, says it did not, or raises an exception, upon
\* which the slot is given back.
Opener(opened) ==
    \/ opened /\ gap' = Cooldown /\ UNCHANGED cooling
    \/ ~opened /\ cooling' \in {cooling, 0} /\ UNCHANGED gap

-----------------------------------------------------------------------------
(* The recovery threads.                                                   *)

\* Mutant: it only waits for the cooldown.
RecoverAfterCooldown == Cooldown

\* max(LeaseTTL, Cooldown), by TimesAssumption.
RecoveryWait == LeaseTTL

\* schedule_stalled_browser_wake and schedule_unclaimed_job_wake.
ScheduleStalled(j) ==
    /\ Goes(j, "stalled")
    /\ left' = [left EXCEPT ![j] = RecoveryWait]
    /\ UNCHANGED nap

ScheduleUnclaimed(j) ==
    /\ Goes(j, "unclaimed")
    /\ left' = [left EXCEPT ![j] = MaxWait]
    /\ nap' = [nap EXCEPT ![j] = Grace]

Ends(j) == Goes(j, "done") /\ UNCHANGED <<left, nap>>

\* request_browser_wake returns to activate_browser_for_job or to the thread.
Returns(j, opened) ==
    \/ pc[j] \in First /\ j \notin ready /\ ScheduleStalled(j)
    \/ pc[j] \in First /\ j \in ready /\ ~opened /\ ScheduleUnclaimed(j)
    \/ pc[j] \in First /\ j \in ready /\ opened /\ Ends(j)
    \/ pc[j] \in Again /\ Ends(j)

-----------------------------------------------------------------------------
(* activate_browser_for_job, after new_browser_job.                        *)

\* The binding of the job's conversation may be of the tab that is ready.
Activate(j) ==
    /\ pc[j] = "new"
    /\ waiting' = waiting \cup {j}
    /\ IF RecentlyReady
       THEN ready' = ready \cup {j} /\ seen' = seen \cup {j}
       ELSE UNCHANGED <<ready, seen>>
    /\ \/ RecentlyReady /\ Goes(j, "bound")
       \/ Goes(j, "ask")
    /\ UNCHANGED <<hostVars, attempted, nap, left, gap, tried>>

ReuseBound(j) ==
    /\ pc[j] = "bound"
    /\ PendingUnlocked
    /\ lease' = 0
    /\ ScheduleStalled(j)
    /\ UNCHANGED <<cooling, fresh, releasing, ready, waiting, attempted, history>>

Ask(j) ==
    /\ \/ pc[j] = "ask" /\ Goes(j, IF RecentlyReady THEN "drop" ELSE "lock")
       \/ pc[j] = "ask again" /\ Goes(j, IF RecentlyReady THEN "drop again" ELSE "lock again")
    /\ UNCHANGED <<hostVars, jobVars, history>>

\* A tab is ready: the pending wake is dropped.
Drop(j) ==
    /\ pc[j] \in {"drop", "drop again"}
    /\ PendingUnlocked
    /\ lease' = 0
    /\ Returns(j, FALSE)
    /\ UNCHANGED <<cooling, fresh, releasing, ready, waiting, attempted, history>>

Coalesce(j) ==
    /\ pc[j] \in {"lock", "lock again"}
    /\ PendingUnlocked
    /\ lease > 0 \/ cooling > 0
    /\ Returns(j, FALSE)
    /\ UNCHANGED <<hostVars, ready, waiting, attempted, history>>

ReserveWake(j) ==
    /\ pc[j] \in {"lock", "lock again"}
    /\ PendingUnlocked
    /\ lease = 0
    /\ Reserve
    /\ Goes(j, IF pc[j] = "lock" THEN "open" ELSE "open again")
    /\ UNCHANGED <<lease, fresh, releasing, jobVars, gap, seen>>

Open(j) ==
    /\ pc[j] \in {"open", "open again"}
    /\ \E opened \in BOOLEAN :
          /\ Opener(opened)
          /\ lease' = IF opened THEN LeaseTTL ELSE lease
          /\ Returns(j, opened)
    /\ UNCHANGED <<fresh, releasing, ready, waiting, attempted, seen, tried>>

-----------------------------------------------------------------------------
(* recover_stalled_job.                                                    *)

CheckStalled(j) ==
    /\ pc[j] = "stalled"
    /\ nap[j] = 0
    /\ \/ (j \notin waiting \/ RecentlyReady) /\ Ends(j)
       \/ /\ j \in waiting /\ ~RecentlyReady /\ left[j] > 0
          /\ nap' = [nap EXCEPT ![j] = IF Grace < left[j] THEN Grace ELSE left[j]]
          /\ UNCHANGED <<pc, left>>
       \/ /\ j \in waiting /\ ~RecentlyReady /\ left[j] = 0
          /\ Goes(j, "mark stalled")
          /\ UNCHANGED <<nap, left>>
    /\ UNCHANGED <<hostVars, ready, waiting, attempted, history>>

MarkStalled(j) ==
    /\ pc[j] = "mark stalled"
    /\ IF j \in waiting
       THEN attempted' = [attempted EXCEPT ![j] = "stalled"] /\ Goes(j, "ask again")
       ELSE Goes(j, "done") /\ UNCHANGED attempted
    /\ UNCHANGED <<hostVars, ready, waiting, nap, left, history>>

-----------------------------------------------------------------------------
(* recover_unclaimed_job.                                                  *)

\* Mutant: it goes on while the heartbeats do.
NeverExpires(j) == FALSE

\* time.monotonic() >= deadline.
WatchdogExpired(j) == left[j] = 0

CheckUnclaimed(j) ==
    /\ pc[j] = "unclaimed"
    /\ nap[j] = 0
    /\ \/ (j \notin waiting \/ (RecentlyReady /\ WatchdogExpired(j))) /\ Ends(j)
       \/ /\ j \in waiting /\ RecentlyReady /\ ~WatchdogExpired(j)
          /\ nap' = [nap EXCEPT ![j] = Grace]
          /\ UNCHANGED <<pc, left>>
       \/ /\ j \in waiting /\ ~RecentlyReady
          /\ Goes(j, "mark unclaimed")
          /\ UNCHANGED <<nap, left>>
    /\ UNCHANGED <<hostVars, ready, waiting, attempted, history>>

MarkUnclaimed(j) ==
    /\ pc[j] = "mark unclaimed"
    /\ IF j \in waiting
       THEN attempted' = [attempted EXCEPT ![j] = "unclaimed"] /\ Goes(j, "forget")
       ELSE Goes(j, "done") /\ UNCHANGED attempted
    /\ UNCHANGED <<hostVars, ready, waiting, nap, left, history>>

\* The pending wake is dropped, whoever asked for it.
Forget(j) ==
    /\ pc[j] = "forget"
    /\ PendingUnlocked
    /\ lease' = 0
    /\ Goes(j, "wake alone")
    /\ UNCHANGED <<cooling, fresh, releasing, jobVars, history>>

\* wake_browser_host without request_browser_wake: no new wake is pending.
WakeAlone(j) ==
    /\ pc[j] = "wake alone"
    /\ \/ Reserve /\ Goes(j, "open alone")
       \/ cooling > 0 /\ Goes(j, "done") /\ UNCHANGED <<cooling, tried>>
    /\ UNCHANGED <<lease, fresh, releasing, jobVars, gap, seen>>

OpenAlone(j) ==
    /\ pc[j] = "open alone"
    /\ \E opened \in BOOLEAN : Opener(opened)
    /\ Goes(j, "done")
    /\ UNCHANGED <<lease, fresh, releasing, jobVars, seen, tried>>

-----------------------------------------------------------------------------
(* The browser and the clock.                                              *)

\* mark_browser_ready of a content-ready tab, and then its release of the
\* pending wake under the other lock.
ReadyHeartbeat ==
    /\ fresh' = Window
    /\ releasing' = TRUE
    /\ seen' = {j \in Job : pc[j] # "new"}
    /\ UNCHANGED <<cooling, lease, pc, jobVars, gap, tried>>

ReleasePending ==
    /\ releasing
    /\ PendingUnlocked
    /\ lease' = 0
    /\ releasing' = FALSE
    /\ UNCHANGED <<cooling, fresh, pc, jobVars, history>>

\* The last ready tab says that it is not, navigates away, or is purged.
TabLost ==
    /\ RecentlyReady
    /\ fresh' = 0
    /\ UNCHANGED <<cooling, lease, releasing, pc, jobVars, history>>

\* The job is claimed, or ends.
Leaves(j) ==
    /\ j \in waiting
    /\ waiting' = waiting \ {j}
    /\ UNCHANGED <<hostVars, pc, ready, attempted, nap, left, history>>

\* Mutant: what is left is not bounded from below.
LessBlindly(n) == n - 1

Less(n) == IF n > 0 THEN n - 1 ELSE 0

Tick ==
    /\ \A j \in Job : pc[j] \notin Opening
    /\ cooling' = Less(cooling)
    /\ lease' = Less(lease)
    /\ fresh' = Less(fresh)
    /\ nap' = [j \in Job |-> Less(nap[j])]
    /\ left' = [j \in Job |-> Less(left[j])]
    /\ gap' = Less(gap)
    /\ UNCHANGED <<releasing, pc, ready, waiting, attempted, seen, tried>>

-----------------------------------------------------------------------------
Thread(j) ==
    \/ ReuseBound(j)
    \/ Ask(j)
    \/ Drop(j)
    \/ Coalesce(j)
    \/ ReserveWake(j)
    \/ Open(j)
    \/ CheckStalled(j)
    \/ MarkStalled(j)
    \/ CheckUnclaimed(j)
    \/ MarkUnclaimed(j)
    \/ Forget(j)
    \/ WakeAlone(j)
    \/ OpenAlone(j)

Next ==
    \/ \E j \in Job : Activate(j) \/ Thread(j) \/ Leaves(j)
    \/ ReadyHeartbeat
    \/ ReleasePending
    \/ TabLost
    \/ Tick

Spec == Init /\ [][Next]_vars

-----------------------------------------------------------------------------
(* Safety.                                                                 *)

\* However many requests and recovery threads wake the same host at once, one
\* of them starts the opener, and a whole cooldown after it last opened.
OpeningsApart ==
    \A j \in Job : pc[j] \in Opening =>
        gap = 0 /\ \A k \in Job : pc[k] \in Opening => k = j

\* A job that is still waiting when its recovery is over, without any tab of the
\* host ever ready since, is not one that was only told of an earlier opening:
\* the browser has been tried since the job came.
NoColdStartForgotten ==
    \A j \in Job : pc[j] = "done" /\ j \in waiting /\ j \notin seen => j \in tried

(* Liveness.                                                               *)

\* Threads run and time passes.
Fairness == WF_vars(Tick) /\ \A j \in Job : WF_vars(Thread(j))

FairSpec == Spec /\ Fairness

\* No recovery thread stays for ever, though heartbeats go on and nobody claims
\* its job.
RecoveryEnds == \A j \in Job : (pc[j] # "new") ~> (pc[j] = "done")
=============================================================================
