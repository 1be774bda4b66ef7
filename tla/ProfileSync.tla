---------------------------- MODULE ProfileSync ----------------------------
(***************************************************************************)
(* How the extension keeps the recorded profile of a site: the local store *)
(* with an active and a pending envelope (profile_store.js), its           *)
(* synchronisation with the server (profile_sync.js), the recovery of      *)
(* pending and active profiles (profile_recovery.js), and the handlers of  *)
(* background.js that run them: recordings, start-up, rehydration, reset.  *)
(*                                                                         *)
(* The store is one object that every operation replaces as a whole.  An   *)
(* operation that computes a checksum, calls the server or writes to the   *)
(* browser's storage waits there, and others run in the meantime; what it  *)
(* then writes derives from what it had read before.  Each action below    *)
(* ends at such a wait, and a slot holds what its operation has read.      *)
(*                                                                         *)
(* One profile is modelled.  An envelope is its revision and its content   *)
(* (for its checksum); the life-cycle state, the health report, the last   *)
(* error and the diagnostics are left out.                                 *)
(***************************************************************************)
EXTENDS Integers, FiniteSets

CONSTANTS
    Content,     \* what can be recorded
    NoContent,
    Slot,        \* bound: how many operations of the worker overlap
    MaxRevision, \* bound: revisions of the profile
    MaxOps,      \* bound: operations started
    MaxOthers,   \* bound: what other browsers publish
    MaxFaults    \* bound: failed calls and restarts of the worker

ASSUME ContentAssumption == NoContent \notin Content
ASSUME BoundsAssumption ==
    MaxRevision \in Nat /\ MaxOps \in Nat /\ MaxOthers \in Nat /\ MaxFaults \in Nat

VARIABLES
    entry,      \* profileStore.profiles[profileId]
    saved,      \* the same in chrome.storage.local
    view,       \* the content of selectors[domain].profile
    slot,       \* the operations under way
    phase,      \* of the worker: initialising, then ready, then reconciled
    remote,     \* the profile the server has
    accepted,   \* every envelope the server has ever taken
    ops, others, faults

local == <<entry, saved, view, phase>>
server == <<remote, accepted, others>>
vars == <<local, slot, server, ops, faults>>

Nothing == [rev |-> 0, sum |-> NoContent]
Envelope == [rev : 1..MaxRevision, sum : Content] \cup {Nothing}
Entry == [active : Envelope, pending : Envelope]
Empty == [active |-> Nothing, pending |-> Nothing]

Idle == [kind |-> "none", at |-> "idle", want |-> NoContent, base |-> Empty,
         sub |-> Nothing, seen |-> 0, rebased |-> FALSE, shown |-> NoContent]
Operation ==
    [kind : {"none", "record", "boot", "fetch", "recover", "repair", "reset"},
     at : {"idle", "stage", "begin", "post", "acked", "refused", "failed", "lookup", "found",
           "restage", "promote", "synced", "unsynced", "publish", "answer", "weigh", "ask",
           "adopt", "bootstrap", "compare", "republish", "delete", "clear"},
     want : Content \cup {NoContent},   \* what is recorded
     base : Entry,                      \* the store as the operation has read it
     sub : Envelope,                    \* the pending envelope it submits
     seen : 0..MaxRevision,             \* the server's revision when it looked
     rebased : BOOLEAN,                 \* it has met a conflict already
     shown : Content \cup {NoContent}]  \* the view as the operation has read it

TypeOK ==
    /\ entry \in Entry /\ saved \in Entry
    /\ view \in Content \cup {NoContent}
    /\ phase \in {"starting", "ready", "reconciled"}
    /\ slot \in [Slot -> Operation]
    /\ remote \in Envelope
    /\ accepted \subseteq Envelope
    /\ ops \in 0..MaxOps /\ others \in 0..MaxOthers /\ faults \in 0..MaxFaults

-----------------------------------------------------------------------------
Higher(m, n) == IF m > n THEN m ELSE n

Fault == faults < MaxFaults /\ faults' = faults + 1

At(p, step) == slot[p].at = step

\* The operation waits again, with what else it now knows.
Goes(p, op) == slot' = [slot EXCEPT ![p] = op]
To(p, step) == [slot[p] EXCEPT !.at = step]
Ends(p) == Goes(p, Idle)

\* What it has read is of no more use, the view apart.
Afresh(p, step) == [Idle EXCEPT !.kind = slot[p].kind, !.at = step, !.shown = slot[p].shown]

\* An operation of a kind begins in a free slot.
Begins(p, op) ==
    /\ At(p, "idle")
    /\ ops < MaxOps
    /\ ops' = ops + 1
    /\ Goes(p, op)

\* profileInitializationReady and the single flights: one run of a kind at a time.
Single(kind) == \A q \in Slot : slot[q].kind # kind

\* Mutant: the revision is not raised.
StagedInPlace(e, sum, floor) ==
    [e EXCEPT !.pending = [rev |-> Higher(e.active.rev, floor), sum |-> sum]]

\* Mutant: the revision follows the remote one alone.
StagedAfterRemote(e, sum, floor) ==
    [e EXCEPT !.pending = [rev |-> floor + 1, sum |-> sum]]

\* Mutant: the revision follows the local one alone.
StagedAfterLocal(e, sum, floor) ==
    [e EXCEPT !.pending = [rev |-> e.active.rev + 1, sum |-> sum]]

\* stageProfile: the next revision after the local and the known remote one.
Staged(e, sum, floor) ==
    [e EXCEPT !.pending = [rev |-> Higher(e.active.rev, floor) + 1, sum |-> sum]]

\* persist: the store is replaced and saved.
Keeps(e) == entry' = e /\ saved' = e

\* The store is replaced, unless it would leave the bound on revisions.
Stores(e) == e.pending.rev <= MaxRevision /\ entry' = e

-----------------------------------------------------------------------------
(* The server: POST, GET and DELETE /browser/profiles.                     *)

\* Mutant: the last writer wins.
TakesAnything(e) == TRUE

\* An older revision, or other content under the same one, is a conflict.
Takes(e) == remote = Nothing \/ e.rev > remote.rev \/ e = remote

Upsert(e) ==
    /\ remote' = e
    /\ accepted' = accepted \cup {e}
    /\ UNCHANGED others

\* Another browser records the site.
OtherPublishes ==
    /\ others < MaxOthers /\ remote.rev < MaxRevision
    /\ others' = others + 1
    /\ \E sum \in Content :
          /\ remote' = [rev |-> remote.rev + 1, sum |-> sum]
          /\ accepted' = accepted \cup {remote'}
    /\ UNCHANGED <<local, slot, ops, faults>>

-----------------------------------------------------------------------------
(* syncPendingProfile.                                                     *)

\* It posts the pending envelope the store has when it starts; there may be none.
Begin(p) ==
    /\ At(p, "begin")
    /\ IF entry.pending = Nothing THEN Ends(p)
       ELSE Goes(p, [To(p, "post") EXCEPT !.sub = entry.pending])
    /\ UNCHANGED <<local, server, ops, faults>>

Post(p) ==
    /\ At(p, "post")
    /\ LET e == slot[p].sub
       IN  \/ Takes(e) /\ Upsert(e) /\ Goes(p, To(p, "acked")) /\ UNCHANGED faults
           \/ ~Takes(e) /\ Goes(p, To(p, "refused")) /\ UNCHANGED <<server, faults>>
           \/ /\ Goes(p, To(p, "failed")) /\ Fault
              /\ UNCHANGED server \/ (Takes(e) /\ Upsert(e))
    /\ UNCHANGED <<local, ops>>

\* Mutant: an acknowledgement is for whatever is pending.
MatchesAnything(p) == TRUE

\* pendingEnvelopeMatches: the store still has what was submitted.
Matches(p) == entry.pending = slot[p].sub

\* The sync is over without success: the store is saved as it is.
Unsynced(p, e) == Goes(p, [Afresh(p, "unsynced") EXCEPT !.base = e]) /\ saved' = e

\* promoteProfile verifies the checksum before it writes.
Acked(p) ==
    /\ At(p, "acked")
    /\ IF Matches(p)
       THEN Goes(p, [To(p, "promote") EXCEPT !.base = entry]) /\ UNCHANGED saved
       ELSE Unsynced(p, entry)
    /\ UNCHANGED <<entry, view, phase, server, ops, faults>>

Promote(p) ==
    /\ At(p, "promote")
    /\ Keeps([active |-> slot[p].base.pending, pending |-> Nothing])
    /\ Goes(p, [Afresh(p, "synced") EXCEPT !.base = entry'])
    /\ UNCHANGED <<view, phase, server, ops, faults>>

\* A network error or a 5xx: the pending envelope stays.
Failed(p) ==
    /\ At(p, "failed")
    /\ Unsynced(p, entry)
    /\ UNCHANGED <<entry, view, phase, server, ops, faults>>

\* rebaseConflictingPendingProfile, once.
Refused(p) ==
    /\ At(p, "refused")
    /\ IF Matches(p) /\ ~slot[p].rebased
       THEN Goes(p, [To(p, "lookup") EXCEPT !.base = entry]) /\ UNCHANGED saved
       ELSE Unsynced(p, entry)
    /\ UNCHANGED <<entry, view, phase, server, ops, faults>>

\* The lookup of the remote profile; its failure is noted in the store as it
\* was before the lookup.
Lookup(p) ==
    /\ At(p, "lookup")
    /\ \/ /\ remote # Nothing
          /\ Goes(p, [To(p, "found") EXCEPT !.seen = remote.rev])
          /\ UNCHANGED <<entry, saved, faults>>
       \/ /\ IF remote = Nothing THEN UNCHANGED faults ELSE Fault
          /\ entry' = slot[p].base
          /\ Unsynced(p, slot[p].base)
    /\ UNCHANGED <<view, phase, server, ops>>

Found(p) ==
    /\ At(p, "found")
    /\ IF Matches(p)
       THEN Goes(p, [To(p, "restage") EXCEPT !.base = entry]) /\ UNCHANGED saved
       ELSE Unsynced(p, entry)
    /\ UNCHANGED <<entry, view, phase, server, ops, faults>>

Restage(p) ==
    /\ At(p, "restage")
    /\ Stores(Staged(slot[p].base, slot[p].sub.sum, slot[p].seen))
    /\ Goes(p, [To(p, "post") EXCEPT !.sub = entry'.pending, !.rebased = TRUE])
    /\ UNCHANGED <<saved, view, phase, server, ops, faults>>

-----------------------------------------------------------------------------
(* A recording: selector_captured.                                         *)

Record(p) ==
    /\ \E sum \in Content :
          Begins(p, [Idle EXCEPT !.kind = "record", !.at = "stage", !.want = sum,
                                 !.base = entry, !.shown = view])
    /\ UNCHANGED <<local, server, faults>>

\* A newer capture of the same role makes this one give up.
MaySupersede(p) == \E q \in Slot \ {p} : slot[q].kind = "record"

Stage(p) ==
    /\ At(p, "stage")
    /\ Stores(Staged(slot[p].base, slot[p].want, 0))
    /\ \/ Goes(p, [Afresh(p, "post") EXCEPT !.sub = entry'.pending])
       \/ MaySupersede(p) /\ Ends(p)
    /\ UNCHANGED <<saved, view, phase, server, ops, faults>>

\* The synchronised store becomes the worker's again once it is saved.
RecordSynced(p) ==
    /\ slot[p].kind = "record" /\ At(p, "synced")
    /\ Keeps(slot[p].base)
    /\ view' = entry'.active.sum
    /\ Ends(p)
    /\ UNCHANGED <<phase, server, ops, faults>>

\* restoreSelectorCaptureState, unless a newer capture is under way.
RecordFailed(p) ==
    /\ slot[p].kind = "record" /\ At(p, "unsynced")
    /\ \/ view' = slot[p].shown /\ saved' = entry
       \/ MaySupersede(p) /\ UNCHANGED <<view, saved>>
    /\ Ends(p)
    /\ UNCHANGED <<entry, phase, server, ops, faults>>

-----------------------------------------------------------------------------
(* bootstrapRecordedProfileLifecycle: at start for the restored view       *)
(* (reconcileRestoredProfiles), and later for what the server has of the   *)
(* site (reconcileFetchedSelectors).                                       *)

\* It starts from the store of that moment.
Bootstrapping(op) ==
    [op EXCEPT !.at = IF entry = Empty THEN "ask" ELSE "bootstrap", !.base = entry]

Boot(p) ==
    /\ phase = "starting" /\ Single("boot")
    /\ view # NoContent
    /\ Begins(p, Bootstrapping([Idle EXCEPT !.kind = "boot", !.want = view,
                                           !.seen = entry.active.rev]))
    /\ UNCHANGED <<local, server, faults>>

\* GET /browser/selectors: the profile of the registry, or else whatever profile
\* the template of the site holds.
Fetch(p) ==
    /\ \E sum \in Content :
          /\ remote # Nothing => sum = remote.sum
          /\ Begins(p, [Idle EXCEPT !.kind = "fetch", !.at = "answer", !.want = sum,
                                   !.seen = remote.rev])
    /\ UNCHANGED <<local, server, faults>>

\* The answer arrives, and its checksum is computed.
Arrive(p) ==
    /\ At(p, "answer")
    /\ Goes(p, [To(p, "weigh") EXCEPT !.base = entry, !.shown = view,
                                     !.seen = IF @ = 0 THEN entry.active.rev ELSE @])
    /\ UNCHANGED <<local, server, ops, faults>>

\* A profile that is not the active one fails closed; the one in view is kept.
Weigh(p) ==
    /\ At(p, "weigh")
    /\ LET active == slot[p].base.active
           same == active.sum = slot[p].want
       IN  \/ active # Nothing /\ ~same /\ view' = NoContent /\ Ends(p)
           \/ same /\ slot[p].shown = slot[p].want /\ Ends(p) /\ UNCHANGED view
           \/ /\ active = Nothing \/ same
              /\ Goes(p, Bootstrapping([slot[p] EXCEPT !.shown = NoContent]))
              /\ UNCHANGED view
    /\ UNCHANGED <<entry, saved, phase, server, ops, faults>>

\* profileInitializationReady
Initialised ==
    /\ phase = "starting" /\ Single("boot")
    /\ phase' = "ready"
    /\ UNCHANGED <<entry, saved, view, slot, server, ops, faults>>

\* A failure at start keeps the view; one of a fetched profile closes it.
ViewAfterFailure(p) ==
    view' = IF slot[p].kind = "fetch" THEN NoContent ELSE view

\* No envelope here: the server's is taken over if it has the same content.
Ask(p) ==
    /\ At(p, "ask")
    /\ \/ /\ remote # Nothing /\ remote.sum = slot[p].want
          /\ Goes(p, [To(p, "adopt") EXCEPT !.base = entry, !.sub = remote])
          /\ UNCHANGED <<view, faults>>
       \/ /\ remote # Nothing /\ remote.sum # slot[p].want
          /\ ViewAfterFailure(p) /\ Ends(p) /\ UNCHANGED faults
       \/ /\ IF remote = Nothing THEN UNCHANGED faults ELSE Fault
          /\ Goes(p, [To(p, "bootstrap") EXCEPT !.base = entry])
          /\ UNCHANGED view
    /\ UNCHANGED <<entry, saved, phase, server, ops>>

\* adoptSyncedProfile; an active profile that has come meanwhile is not replaced.
Adopt(p) ==
    /\ At(p, "adopt")
    /\ IF slot[p].base.active = Nothing
       THEN /\ Keeps([active |-> slot[p].sub, pending |-> Nothing])
            /\ view' = slot[p].want
            /\ Ends(p)
       ELSE /\ Goes(p, [To(p, "bootstrap") EXCEPT !.base = entry,
                                                     !.seen = Higher(@, slot[p].sub.rev)])
            /\ UNCHANGED <<entry, saved, view>>
    /\ UNCHANGED <<phase, server, ops, faults>>

\* bootstrapProfile
Bootstrap(p) ==
    /\ At(p, "bootstrap")
    /\ LET e == slot[p].base
       IN  \/ /\ e.active.sum = slot[p].want
              /\ entry' = e /\ view' = slot[p].want /\ Ends(p) /\ UNCHANGED saved
           \/ /\ e.active.sum # slot[p].want
              /\ IF e.pending # Nothing THEN entry' = e
                 ELSE Stores(Staged(e, slot[p].want, slot[p].seen))
              /\ saved' = entry' /\ Goes(p, Afresh(p, "begin")) /\ UNCHANGED view
    /\ UNCHANGED <<phase, server, ops, faults>>

BootSynced(p) ==
    /\ slot[p].kind \in {"boot", "fetch"} /\ At(p, "synced")
    /\ Keeps(slot[p].base)
    /\ view' = entry'.active.sum
    /\ Ends(p)
    /\ UNCHANGED <<phase, server, ops, faults>>

BootFailed(p) ==
    /\ slot[p].kind \in {"boot", "fetch"} /\ At(p, "unsynced")
    /\ ViewAfterFailure(p)
    /\ Ends(p)
    /\ UNCHANGED <<entry, saved, phase, server, ops, faults>>

-----------------------------------------------------------------------------
(* recoverPendingProfiles: at start, and until the server has everything.  *)

\* retryPendingProfilesAfterBackendReady: one run at a time, until it has all.
MayReconcile == phase = "ready" /\ Single("recover") /\ Single("repair")

Recover(p) ==
    /\ MayReconcile
    /\ entry.pending # Nothing
    /\ Begins(p, [Idle EXCEPT !.kind = "recover", !.at = "post", !.sub = entry.pending])
    /\ UNCHANGED <<local, server, faults>>

\* applyRecoveredProfile projects the profile and publishes the selectors.
Recovered(p) ==
    /\ slot[p].kind = "recover" /\ At(p, "synced")
    /\ view' = slot[p].base.active.sum
    /\ Goes(p, To(p, "publish"))
    /\ UNCHANGED <<entry, saved, phase, server, ops, faults>>

\* The store of the last sync becomes the worker's.
RecoveryEnds(p) ==
    /\ \/ At(p, "publish")
       \/ slot[p].kind = "recover" /\ At(p, "unsynced")
    /\ Keeps(slot[p].base)
    /\ Ends(p)
    /\ UNCHANGED <<view, phase, server, ops, faults>>

-----------------------------------------------------------------------------
(* recoverActiveProfileReplica: the server's copy of the active profile.   *)

Repair(p) ==
    /\ MayReconcile
    /\ entry.active # Nothing
    /\ Begins(p, [Idle EXCEPT !.kind = "repair", !.at = "compare", !.sub = entry.active])
    /\ UNCHANGED <<local, server, faults>>

\* currentEntryDecision: nothing has changed here since.
Current(p) == entry = [active |-> slot[p].sub, pending |-> Nothing]

\* The replica agrees: a stale view is renewed, and it was the last attempt
\* unless the recovery before it had failed.
Agrees(p) ==
    /\ view' \in {view, slot[p].sub.sum}
    /\ phase' \in {phase, "reconciled"}

\* planActiveProfileBackendRepair
Compare(p) ==
    /\ At(p, "compare")
    /\ \/ /\ Current(p) /\ remote.rev < slot[p].sub.rev
          /\ Goes(p, To(p, "republish"))
          /\ UNCHANGED <<view, phase, faults>>
       \/ /\ Current(p) /\ remote = slot[p].sub
          /\ Agrees(p) /\ Ends(p) /\ UNCHANGED faults
       \/ /\ ~Current(p) \/ (remote # slot[p].sub /\ remote.rev >= slot[p].sub.rev)
          /\ Ends(p) /\ UNCHANGED <<view, phase, faults>>
       \/ Fault /\ Ends(p) /\ UNCHANGED <<view, phase>>
    /\ UNCHANGED <<entry, saved, server, ops>>

\* publishActive, if nothing has changed; the server may have moved on.
Republish(p) ==
    /\ At(p, "republish")
    /\ LET e == slot[p].sub
       IN  \/ /\ Current(p) /\ Takes(e) /\ Upsert(e)
              /\ Agrees(p) /\ UNCHANGED faults
           \/ ~(Current(p) /\ Takes(e)) /\ UNCHANGED <<view, phase, server, faults>>
           \/ /\ Fault
              /\ UNCHANGED server \/ (Current(p) /\ Takes(e) /\ Upsert(e))
              /\ UNCHANGED <<view, phase>>
    /\ Ends(p)
    /\ UNCHANGED <<entry, saved, ops>>

-----------------------------------------------------------------------------
(* resetRecordedDomain and clear_selectors.                                *)

Reset(p) ==
    /\ phase # "starting" /\ Single("recover")
    /\ Begins(p, [Idle EXCEPT !.kind = "reset", !.at = "delete"])
    /\ UNCHANGED <<local, server, faults>>

\* DELETE /browser/profiles; the local store follows once it is saved, and not
\* at all when the answer is lost, whatever the server has done.
Delete(p) ==
    /\ At(p, "delete")
    /\ \/ remote' = Nothing /\ saved' = Empty /\ Goes(p, To(p, "clear")) /\ UNCHANGED faults
       \/ Ends(p) /\ Fault /\ remote' \in {remote, Nothing} /\ UNCHANGED saved
    /\ UNCHANGED <<entry, view, phase, accepted, others, ops>>

Clear(p) ==
    /\ At(p, "clear")
    /\ Keeps(Empty)
    /\ view' = NoContent
    /\ Ends(p)
    /\ UNCHANGED <<phase, server, ops, faults>>

ClearSelectors ==
    /\ view # NoContent
    /\ view' = NoContent
    /\ saved' = entry
    /\ UNCHANGED <<entry, phase, slot, server, ops, faults>>

-----------------------------------------------------------------------------
\* The browser stops the worker; the next one loads what was saved.
WorkerRestart ==
    /\ Fault
    /\ entry' = saved
    /\ phase' = "starting"
    /\ slot' = [p \in Slot |-> Idle]
    /\ UNCHANGED <<saved, view, server, ops>>

\* A browser may come with a view recorded before there were envelopes.
Init ==
    /\ entry = Empty /\ saved = Empty
    /\ view \in Content \cup {NoContent}
    /\ phase = "starting"
    /\ slot = [p \in Slot |-> Idle]
    /\ remote = Nothing /\ accepted = {}
    /\ ops = 0 /\ others = 0 /\ faults = 0

Sync(p) ==
    \/ Begin(p) \/ Post(p) \/ Acked(p) \/ Promote(p) \/ Failed(p)
    \/ Refused(p) \/ Lookup(p) \/ Found(p) \/ Restage(p)

Recording(p) == Record(p) \/ Stage(p) \/ RecordSynced(p) \/ RecordFailed(p)

Booting(p) ==
    \/ Boot(p) \/ Fetch(p) \/ Arrive(p) \/ Weigh(p)
    \/ Ask(p) \/ Adopt(p) \/ Bootstrap(p) \/ BootSynced(p) \/ BootFailed(p)

Recovering(p) == Recover(p) \/ Recovered(p) \/ RecoveryEnds(p)

Repairing(p) == Repair(p) \/ Compare(p) \/ Republish(p)

Resetting(p) == Reset(p) \/ Delete(p) \/ Clear(p)

Next ==
    \/ \E p \in Slot : \/ Sync(p) \/ Recording(p) \/ Booting(p)
                       \/ Recovering(p) \/ Repairing(p) \/ Resetting(p)
    \/ Initialised
    \/ OtherPublishes
    \/ ClearSelectors
    \/ WorkerRestart

Spec == Init /\ [][Next]_vars

-----------------------------------------------------------------------------
(* Properties.                                                             *)

Known == {entry, saved}

\* Whatever overlaps, fails or restarts, the active envelope of the worker and
\* the one in storage are ones the server has taken, with that revision and that
\* content.  The view may hold a profile that no server has taken: the one
\* restored at start, until and unless it is synchronised.
ActiveWasAccepted == \A e \in Known : e.active # Nothing => e.active \in accepted

\* A pending recording is ahead of the active profile, so that the server need
\* not refuse it for good.
PendingIsAhead == \A e \in Known : e.pending # Nothing => e.pending.rev > e.active.rev

\* A rebased recording meets a second conflict only because another revision
\* has come since the first.
SecondConflictIsNews ==
    \A p \in Slot : At(p, "refused") /\ slot[p].rebased =>
        \E e \in accepted : e.rev > slot[p].seen

\* What the server has is replaced by a later revision or by a reset only,
\* however old the copy is that a repair or a recovery publishes.
NewerRemoteIsKept ==
    [][remote # Nothing /\ remote' # remote =>
          remote'.rev > remote.rev \/ \E p \in Slot : At(p, "delete")]_vars
=============================================================================
