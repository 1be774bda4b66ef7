---------------------------- MODULE JobLifecycle ----------------------------
(***************************************************************************)
(* What the job coordinator promises of each job, whatever tabs, queues,   *)
(* leases and threads it takes: a job waits, runs under one claim at a     *)
(* time, goes back to waiting only while attempts are left and only with a *)
(* new token, and ends once, completed while its deadline is still ahead   *)
(* or failed.                                                              *)
(*                                                                         *)
(* A lock section of the server may move several jobs (a purge gives up    *)
(* every job of a dead tab), so that a step moves each job by one of the   *)
(* moves below, or leaves it alone; it starts at most one new claim.       *)
(***************************************************************************)
EXTENDS Integers

CONSTANTS Job, MaxClaimAttempts

VARIABLES
    phase, \* where the job is in its life
    token, \* counts the tokens the job has had
    tries, \* the attempts spent on it
    late   \* its request deadline has passed

vars == <<phase, token, tries, late>>

Phase == {"absent", "waiting", "running", "completed", "failed"}

Init ==
    /\ phase = [j \in Job |-> "absent"]
    /\ token = [j \in Job |-> 0]
    /\ tries = [j \in Job |-> 0]
    /\ late = [j \in Job |-> FALSE]

Moves(j, p, q) == phase[j] = p /\ phase'[j] = q

SameClaim(j) == token'[j] = token[j] /\ tries'[j] = tries[j]

NewToken(j) == token'[j] = token[j] + 1 /\ tries'[j] \in {tries[j], tries[j] + 1}

Stay(j) == phase'[j] = phase[j] /\ SameClaim(j)

Submit(j) == Moves(j, "absent", "waiting") /\ SameClaim(j)

Claim(j) ==
    /\ ~late[j]
    /\ Moves(j, "waiting", "running")
    /\ token'[j] = token[j] + 1
    /\ tries'[j] = tries[j] + 1

\* A result that carries the token of a waiting job resumes it.
Resume(j) == Moves(j, "waiting", "running") /\ SameClaim(j)

Release(j) ==
    /\ tries[j] < MaxClaimAttempts
    /\ Moves(j, "running", "waiting")
    /\ NewToken(j)

Complete(j) == ~late[j] /\ Moves(j, "running", "completed") /\ SameClaim(j)

Fail(j) ==
    /\ phase[j] \in {"waiting", "running"}
    /\ phase'[j] = "failed"
    /\ SameClaim(j) \/ NewToken(j)

\* The deadline passes once, and nothing else happens to the job then.
Late(j) == late'[j] # late[j] => late'[j] /\ Stay(j)

Move(j) ==
    /\ Stay(j) \/ Submit(j) \/ Claim(j) \/ Resume(j) \/ Release(j) \/ Complete(j) \/ Fail(j)
    /\ Late(j)

Next ==
    /\ \A j \in Job : Move(j)
    /\ \A j, k \in Job : Claim(j) /\ Claim(k) => j = k

Spec == Init /\ [][Next]_vars
=============================================================================
