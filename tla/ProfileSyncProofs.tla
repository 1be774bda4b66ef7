-------------------------- MODULE ProfileSyncProofs --------------------------
(***************************************************************************)
(* Theorems about ProfileSync, for any slots, contents and bounds.  They   *)
(* share one inductive invariant: what every operation has read of the     *)
(* store would itself be a sound store, and what it has submitted is known *)
(* well enough for the place it is at.                                     *)
(***************************************************************************)
EXTENDS ProfileSync, TLAPS

\* A store that ActiveWasAccepted and PendingIsAhead allow.
EntryOK(e, acc) ==
    /\ e \in Entry
    /\ e.active # Nothing => e.active \in acc
    /\ e.pending # Nothing => e.pending.rev > e.active.rev

Wanting == {"stage", "answer", "weigh", "ask", "adopt", "bootstrap"}
Submitting == {"post", "acked", "refused", "failed", "lookup", "found", "restage", "promote",
               "adopt", "compare", "republish"}
Taken == {"acked", "promote", "adopt"}
Fresh == {"stage", "begin", "answer", "weigh", "ask", "adopt", "bootstrap", "lookup", "found",
          "restage"}

\* What an operation under way may rely on.
OpOK(op, acc) ==
    /\ op \in Operation
    /\ EntryOK(op.base, acc)
    /\ op.at \in Wanting => op.want \in Content
    /\ op.at \in Submitting => op.sub # Nothing
    /\ op.at \in Taken => op.sub \in acc
    /\ op.at = "promote" => op.base.pending = op.sub
    /\ op.at \in Fresh => ~op.rebased
    /\ op.at = "post" /\ op.rebased => op.sub.rev > op.seen
    /\ op.at = "refused" /\ op.rebased => \E e \in acc : e.rev > op.seen

LocalOK ==
    /\ EntryOK(entry, accepted) /\ EntryOK(saved, accepted)
    /\ view \in Content \cup {NoContent}
    /\ phase \in {"starting", "ready", "reconciled"}

SlotsOK == slot \in [Slot -> Operation] /\ \A p \in Slot : OpOK(slot[p], accepted)

ServerOK ==
    /\ remote \in Envelope
    /\ accepted \subseteq Envelope
    /\ remote # Nothing => remote \in accepted

CountersOK == ops \in 0..MaxOps /\ others \in 0..MaxOthers /\ faults \in 0..MaxFaults

IInv == LocalOK /\ SlotsOK /\ ServerOK /\ CountersOK

-----------------------------------------------------------------------------
(* Envelopes, stores and operations.                                       *)

LEMMA EnvelopeType ==
    /\ Nothing \in Envelope
    /\ \A e \in Envelope : e.rev \in 0..MaxRevision /\ e.rev \in Nat
                           /\ e.sum \in Content \cup {NoContent}
    /\ \A e \in Envelope : e # Nothing <=> e.rev > 0
    /\ \A e \in Envelope : e # Nothing => e.sum \in Content
BY BoundsAssumption, ContentAssumption, SMT DEF Envelope, Nothing

LEMMA EmptyOK == \A acc : EntryOK(Empty, acc)
BY SMT DEF EntryOK, Empty, Entry, Nothing, Envelope

\* The server forgets nothing it has accepted.
LEMMA EntryKept ==
    ASSUME NEW e, NEW acc, NEW more, acc \subseteq more, EntryOK(e, acc)
    PROVE  EntryOK(e, more)
BY DEF EntryOK

LEMMA OpKept ==
    ASSUME NEW op, NEW acc, NEW more, acc \subseteq more, OpOK(op, acc)
    PROVE  OpOK(op, more)
<1>1. EntryOK(op.base, more)
  BY EntryKept DEF OpOK
<1>2. QED
  BY <1>1 DEF OpOK

LEMMA IdleOK == \A acc : OpOK(Idle, acc)
<1>1. Empty \in Entry
  BY SMT DEF Empty, Entry, Envelope, Nothing
<1>2. Idle \in Operation /\ Idle.at = "idle" /\ Idle.base = Empty
  BY <1>1, BoundsAssumption, SMT DEF Idle, Operation, Envelope, Nothing
<1>3. QED
  BY <1>2, EmptyOK DEF OpOK, Wanting, Submitting, Taken, Fresh

\* An operation moves on: the slots stay sound if what it becomes is sound.
LEMMA SlotStep ==
    ASSUME IInv, NEW p \in Slot, NEW op, Goes(p, op),
           accepted \subseteq accepted', OpOK(op, accepted')
    PROVE  SlotsOK'
<1>1. slot' \in [Slot -> Operation]
  BY DEF IInv, SlotsOK, Goes, OpOK
<1>2. ASSUME NEW q \in Slot PROVE OpOK(slot'[q], accepted')
  <2>1. CASE q = p
    BY <2>1 DEF Goes, IInv, SlotsOK
  <2>2. CASE q # p
    <3>1. slot'[q] = slot[q] /\ OpOK(slot[q], accepted)
      BY <2>2 DEF Goes, IInv, SlotsOK
    <3>2. QED
      BY <3>1, OpKept
  <2>3. QED
    BY <2>1, <2>2
<1>3. QED
  BY <1>1, <1>2 DEF SlotsOK

LEMMA SlotsKept ==
    ASSUME IInv, UNCHANGED slot, accepted \subseteq accepted'
    PROVE  SlotsOK'
<1>1. ASSUME NEW q \in Slot PROVE OpOK(slot'[q], accepted')
  BY OpKept DEF IInv, SlotsOK
<1>2. QED
  BY <1>1 DEF IInv, SlotsOK

LEMMA SlotFree ==
    ASSUME IInv, NEW p \in Slot, Ends(p), accepted \subseteq accepted'
    PROVE  SlotsOK'
BY SlotStep, IdleOK DEF Ends

\* The store and the server are left alone.
LEMMA LocalKept ==
    ASSUME IInv, UNCHANGED <<entry, saved, view, phase>>, accepted \subseteq accepted'
    PROVE  LocalOK'
<1>1. EntryOK(entry, accepted') /\ EntryOK(saved, accepted')
  BY EntryKept DEF IInv, LocalOK
<1>2. QED
  BY <1>1 DEF IInv, LocalOK

LEMMA ServerKept ==
    ASSUME IInv, UNCHANGED server
    PROVE  ServerOK' /\ accepted \subseteq accepted'
BY DEF IInv, ServerOK, server

LEMMA Upserted ==
    ASSUME IInv, NEW e \in Envelope, e # Nothing, Upsert(e)
    PROVE  ServerOK' /\ accepted \subseteq accepted' /\ e \in accepted'
BY DEF IInv, ServerOK, Upsert

LEMMA FaultCounted == ASSUME IInv, Fault PROVE faults' \in 0..MaxFaults
BY BoundsAssumption, SMT DEF IInv, CountersOK, Fault

\* What the operation in a slot is, spelt out.
LEMMA SlotFacts ==
    ASSUME IInv, NEW p \in Slot
    PROVE  /\ OpOK(slot[p], accepted)
           /\ slot[p] \in Operation
           /\ slot[p].base \in Entry
           /\ slot[p].sub \in Envelope
           /\ slot[p].seen \in Nat /\ slot[p].seen <= MaxRevision
           /\ slot[p].want \in Content \cup {NoContent}
           /\ slot[p].shown \in Content \cup {NoContent}
BY BoundsAssumption, SMT DEF IInv, SlotsOK, OpOK, EntryOK, Operation

\* The operation at its next step, and with another store or submission.
Steps == {"idle", "stage", "begin", "post", "acked", "refused", "failed", "lookup", "found",
          "restage", "promote", "synced", "unsynced", "publish", "answer", "weigh", "ask",
          "adopt", "bootstrap", "compare", "republish", "delete", "clear"}

LEMMA StepNames ==
    /\ "idle" \in Steps /\ "stage" \in Steps /\ "begin" \in Steps
    /\ "post" \in Steps /\ "acked" \in Steps /\ "refused" \in Steps
    /\ "failed" \in Steps /\ "lookup" \in Steps /\ "found" \in Steps
    /\ "restage" \in Steps /\ "promote" \in Steps /\ "synced" \in Steps
    /\ "unsynced" \in Steps /\ "publish" \in Steps /\ "ask" \in Steps
    /\ "adopt" \in Steps /\ "bootstrap" \in Steps /\ "compare" \in Steps
    /\ "republish" \in Steps /\ "delete" \in Steps /\ "clear" \in Steps
    /\ "answer" \in Steps /\ "weigh" \in Steps
BY SMT DEF Steps

LEMMA Moved ==
    ASSUME NEW op \in Operation, NEW step \in Steps
    PROVE  LET o == [op EXCEPT !.at = step]
           IN  /\ o \in Operation /\ o.at = step /\ o.kind = op.kind /\ o.want = op.want
               /\ o.base = op.base /\ o.sub = op.sub /\ o.seen = op.seen
               /\ o.rebased = op.rebased /\ o.shown = op.shown
BY SMT DEF Operation, Steps

LEMMA WithBase ==
    ASSUME NEW op \in Operation, NEW e \in Entry
    PROVE  LET o == [op EXCEPT !.base = e]
           IN  /\ o \in Operation /\ o.at = op.at /\ o.kind = op.kind /\ o.want = op.want
               /\ o.base = e /\ o.sub = op.sub /\ o.seen = op.seen
               /\ o.rebased = op.rebased /\ o.shown = op.shown
BY SMT DEF Operation

LEMMA WithSub ==
    ASSUME NEW op \in Operation, NEW e \in Envelope
    PROVE  LET o == [op EXCEPT !.sub = e]
           IN  /\ o \in Operation /\ o.at = op.at /\ o.kind = op.kind /\ o.want = op.want
               /\ o.base = op.base /\ o.sub = e /\ o.seen = op.seen
               /\ o.rebased = op.rebased /\ o.shown = op.shown
BY SMT DEF Operation

LEMMA WithSeen ==
    ASSUME NEW op \in Operation, NEW n \in 0..MaxRevision
    PROVE  LET o == [op EXCEPT !.seen = n]
           IN  /\ o \in Operation /\ o.at = op.at /\ o.kind = op.kind /\ o.want = op.want
               /\ o.base = op.base /\ o.sub = op.sub /\ o.seen = n
               /\ o.rebased = op.rebased /\ o.shown = op.shown
BY SMT DEF Operation

\* One operation moves on, and nothing else changes but what is counted.
LEMMA QuietStep ==
    ASSUME IInv, NEW p \in Slot, NEW op, Goes(p, op), OpOK(op, accepted),
           UNCHANGED <<local, server>>, CountersOK'
    PROVE  IInv'
<1>1. accepted' = accepted
  BY DEF server
<1>2. SlotsOK'
  BY <1>1, SlotStep
<1>3. LocalOK' /\ ServerOK'
  BY <1>1, LocalKept, ServerKept DEF local
<1>4. QED
  BY <1>2, <1>3 DEF IInv

LEMMA QuietEnd ==
    ASSUME IInv, NEW p \in Slot, Ends(p), UNCHANGED <<local, server>>, CountersOK'
    PROVE  IInv'
BY QuietStep, IdleOK DEF Ends

LEMMA Begun == ASSUME IInv, NEW p \in Slot, NEW op, Begins(p, op) PROVE ops' \in 0..MaxOps
BY BoundsAssumption, SMT DEF IInv, CountersOK, Begins

\* stageProfile: what is staged is ahead of the active and of the remote revision.
LEMMA StagedOK ==
    ASSUME NEW acc, NEW e, EntryOK(e, acc), NEW sum \in Content, NEW floor \in Nat,
           Staged(e, sum, floor).pending.rev <= MaxRevision
    PROVE  /\ EntryOK(Staged(e, sum, floor), acc)
           /\ Staged(e, sum, floor).pending # Nothing
           /\ Staged(e, sum, floor).pending \in Envelope
           /\ Staged(e, sum, floor).pending.rev > floor
<1> DEFINE n == Higher(e.active.rev, floor) + 1
<1> DEFINE s == Staged(e, sum, floor)
<1>1. e \in Entry /\ e.active \in Envelope
  BY SMT DEF EntryOK, Entry
<1>2. e.active.rev \in Nat
  BY <1>1, EnvelopeType
<1>3. n \in Nat /\ n > floor /\ n > e.active.rev /\ n >= 1
  BY <1>2, SMT DEF Higher
<1>4. s = [e EXCEPT !.pending = [rev |-> n, sum |-> sum]]
  BY DEF Staged
<1>5. s.active = e.active /\ s.pending = [rev |-> n, sum |-> sum]
  BY <1>1, <1>4, SMT DEF Entry
<1>6. n <= MaxRevision
  BY <1>5, SMT
<1>7. s.pending \in Envelope
  BY <1>3, <1>5, <1>6, BoundsAssumption, SMT DEF Envelope
<1>8. s.pending # Nothing
  BY <1>3, <1>5, SMT DEF Nothing
<1>9. s \in Entry
  BY <1>1, <1>4, <1>5, <1>7, SMT DEF Entry
<1>10. s.pending.rev = n
  BY <1>5, SMT
<1> HIDE DEF s, n
<1>11. EntryOK(s, acc)
  BY <1>3, <1>5, <1>9, <1>10 DEF EntryOK
<1>12. s.pending.rev > floor
  BY <1>3, <1>10
<1>13. QED
  BY <1>7, <1>8, <1>11, <1>12 DEF s

Kinds == {"none", "record", "boot", "fetch", "recover", "repair", "reset"}

LEMMA KindNames ==
    /\ "record" \in Kinds /\ "boot" \in Kinds /\ "fetch" \in Kinds
    /\ "recover" \in Kinds /\ "repair" \in Kinds /\ "reset" \in Kinds
BY SMT DEF Kinds

LEMMA IdleFacts == Idle \in Operation /\ Idle.base = Empty /\ ~Idle.rebased
<1>1. Idle \in Operation
  BY IdleOK DEF OpOK
<1>2. QED
  BY <1>1, SMT DEF Idle

\* What an operation keeps when it starts afresh.
LEMMA AfreshFacts ==
    ASSUME IInv, NEW p \in Slot, NEW step \in Steps
    PROVE  /\ Afresh(p, step) \in Operation /\ Afresh(p, step).at = step
           /\ Afresh(p, step).base = Empty /\ ~Afresh(p, step).rebased
<1> DEFINE k == slot[p].kind
<1> DEFINE v == slot[p].shown
<1>1. k \in Kinds /\ v \in Content \cup {NoContent}
  BY SlotFacts, SMT DEF Operation, Kinds
<1> HIDE DEF k, v
<1> DEFINE r == [Idle EXCEPT !.kind = k, !.at = step, !.shown = v]
<1>2. r \in Operation
  BY <1>1, IdleFacts, Zenon DEF Operation, Kinds, Steps
<1>3. r.at = step /\ r.base = Idle.base /\ r.rebased = Idle.rebased
  BY IdleFacts, Zenon DEF Operation
<1>4. Afresh(p, step) = r
  BY DEF Afresh, k, v
<1> HIDE DEF r
<1>5. QED
  BY <1>2, <1>3, <1>4, IdleFacts, Zenon

LEMMA ToFacts ==
    ASSUME IInv, NEW p \in Slot, NEW step \in Steps
    PROVE  /\ To(p, step) \in Operation
           /\ To(p, step).at = step
           /\ To(p, step).kind = slot[p].kind
           /\ To(p, step).want = slot[p].want
           /\ To(p, step).base = slot[p].base
           /\ To(p, step).sub = slot[p].sub
           /\ To(p, step).seen = slot[p].seen
           /\ To(p, step).rebased = slot[p].rebased
<1>1. slot[p] \in Operation
  BY SlotFacts
<1>2. QED
  BY <1>1, Moved, Zenon DEF To

\* Several fields at once.
BaseSub(op, e, f) == [op EXCEPT !.base = e, !.sub = f]
BaseSeen(op, e, n) == [op EXCEPT !.base = e, !.seen = n]
Rebase(op, e) == [op EXCEPT !.sub = e, !.rebased = TRUE]

LEMMA WithBaseSub ==
    ASSUME NEW op \in Operation, NEW e \in Entry, NEW f \in Envelope
    PROVE  /\ BaseSub(op, e, f) \in Operation
           /\ BaseSub(op, e, f).at = op.at
           /\ BaseSub(op, e, f).want = op.want
           /\ BaseSub(op, e, f).base = e
           /\ BaseSub(op, e, f).sub = f
           /\ BaseSub(op, e, f).rebased = op.rebased
BY Zenon DEF Operation, BaseSub

LEMMA WithBaseSeen ==
    ASSUME NEW op \in Operation, NEW e \in Entry, NEW n \in 0..MaxRevision
    PROVE  /\ BaseSeen(op, e, n) \in Operation
           /\ BaseSeen(op, e, n).at = op.at
           /\ BaseSeen(op, e, n).want = op.want
           /\ BaseSeen(op, e, n).base = e
           /\ BaseSeen(op, e, n).rebased = op.rebased
BY Zenon DEF Operation, BaseSeen

LEMMA WithSubRebased ==
    ASSUME NEW op \in Operation, NEW e \in Envelope
    PROVE  /\ Rebase(op, e) \in Operation
           /\ Rebase(op, e).at = op.at
           /\ Rebase(op, e).base = op.base
           /\ Rebase(op, e).sub = e
           /\ Rebase(op, e).seen = op.seen
BY Zenon DEF Operation, Rebase

-----------------------------------------------------------------------------
(* Sound operations, by the place they are at.                             *)

LEMMA AtFresh ==
    ASSUME NEW acc, NEW op \in Operation,
           op.at \in {"stage", "answer", "weigh", "ask", "bootstrap"},
           EntryOK(op.base, acc), op.want \in Content, ~op.rebased
    PROVE  OpOK(op, acc)
BY SMT DEF OpOK, Wanting, Submitting, Taken, Fresh

LEMMA AtAdopt ==
    ASSUME NEW acc, NEW op \in Operation, op.at = "adopt", EntryOK(op.base, acc),
           op.want \in Content, ~op.rebased, op.sub # Nothing, op.sub \in acc
    PROVE  OpOK(op, acc)
BY SMT DEF OpOK, Wanting, Submitting, Taken, Fresh

LEMMA AtBegin ==
    ASSUME NEW acc, NEW op \in Operation, op.at = "begin", EntryOK(op.base, acc), ~op.rebased
    PROVE  OpOK(op, acc)
BY SMT DEF OpOK, Wanting, Submitting, Taken, Fresh

LEMMA AtPost ==
    ASSUME NEW acc, NEW op \in Operation, op.at = "post", EntryOK(op.base, acc),
           op.sub # Nothing, op.rebased => op.sub.rev > op.seen
    PROVE  OpOK(op, acc)
BY SMT DEF OpOK, Wanting, Submitting, Taken, Fresh

LEMMA AtAcked ==
    ASSUME NEW acc, NEW op \in Operation, op.at \in {"acked", "promote"}, EntryOK(op.base, acc),
           op.sub # Nothing, op.sub \in acc, op.at = "promote" => op.base.pending = op.sub
    PROVE  OpOK(op, acc)
BY SMT DEF OpOK, Wanting, Submitting, Taken, Fresh

LEMMA AtRefused ==
    ASSUME NEW acc, NEW op \in Operation, op.at = "refused", EntryOK(op.base, acc),
           op.sub # Nothing, op.rebased => \E e \in acc : e.rev > op.seen
    PROVE  OpOK(op, acc)
BY SMT DEF OpOK, Wanting, Submitting, Taken, Fresh

LEMMA AtLookup ==
    ASSUME NEW acc, NEW op \in Operation, op.at \in {"lookup", "found", "restage"},
           EntryOK(op.base, acc), op.sub # Nothing, ~op.rebased
    PROVE  OpOK(op, acc)
BY SMT DEF OpOK, Wanting, Submitting, Taken, Fresh

LEMMA AtSubmitted ==
    ASSUME NEW acc, NEW op \in Operation, op.at \in {"failed", "compare", "republish"},
           EntryOK(op.base, acc), op.sub # Nothing
    PROVE  OpOK(op, acc)
BY SMT DEF OpOK, Wanting, Submitting, Taken, Fresh

LEMMA AtRest ==
    ASSUME NEW acc, NEW op \in Operation, EntryOK(op.base, acc),
           op.at \in {"idle", "synced", "unsynced", "publish", "delete", "clear"}
    PROVE  OpOK(op, acc)
BY SMT DEF OpOK, Wanting, Submitting, Taken, Fresh

-----------------------------------------------------------------------------
(* Steps of an operation.                                                  *)

LEMMA ToWithBase ==
    ASSUME IInv, NEW p \in Slot, NEW step \in Steps, NEW e \in Entry
    PROVE  LET o == [To(p, step) EXCEPT !.base = e]
           IN  /\ o \in Operation /\ o.at = step /\ o.want = slot[p].want /\ o.base = e
               /\ o.sub = slot[p].sub /\ o.rebased = slot[p].rebased
<1>1. /\ To(p, step) \in Operation /\ To(p, step).at = step /\ To(p, step).want = slot[p].want
      /\ To(p, step).base = slot[p].base /\ To(p, step).sub = slot[p].sub
      /\ To(p, step).seen = slot[p].seen /\ To(p, step).rebased = slot[p].rebased
  BY ToFacts
<1>2. QED
  BY <1>1, WithBase

LEMMA ToWithSub ==
    ASSUME IInv, NEW p \in Slot, NEW step \in Steps, NEW e \in Envelope
    PROVE  LET o == [To(p, step) EXCEPT !.sub = e]
           IN  /\ o \in Operation /\ o.at = step /\ o.base = slot[p].base
               /\ o.sub = e /\ o.rebased = slot[p].rebased
<1>1. /\ To(p, step) \in Operation /\ To(p, step).at = step /\ To(p, step).want = slot[p].want
      /\ To(p, step).base = slot[p].base /\ To(p, step).sub = slot[p].sub
      /\ To(p, step).seen = slot[p].seen /\ To(p, step).rebased = slot[p].rebased
  BY ToFacts
<1>2. QED
  BY <1>1, WithSub

LEMMA ToWithSeen ==
    ASSUME IInv, NEW p \in Slot, NEW step \in Steps, NEW n \in 0..MaxRevision
    PROVE  LET o == [To(p, step) EXCEPT !.seen = n]
           IN  /\ o \in Operation /\ o.at = step /\ o.base = slot[p].base
               /\ o.sub = slot[p].sub /\ o.rebased = slot[p].rebased
<1>1. /\ To(p, step) \in Operation /\ To(p, step).at = step /\ To(p, step).want = slot[p].want
      /\ To(p, step).base = slot[p].base /\ To(p, step).sub = slot[p].sub
      /\ To(p, step).seen = slot[p].seen /\ To(p, step).rebased = slot[p].rebased
  BY ToFacts
<1>2. QED
  BY <1>1, WithSeen

LEMMA ToRebased ==
    ASSUME IInv, NEW p \in Slot, NEW step \in Steps, NEW e \in Envelope
    PROVE  LET o == Rebase(To(p, step), e)
           IN  /\ o \in Operation /\ o.at = step /\ o.base = slot[p].base
               /\ o.sub = e /\ o.seen = slot[p].seen
BY ToFacts, WithSubRebased

LEMMA ToWithBaseSub ==
    ASSUME IInv, NEW p \in Slot, NEW step \in Steps, NEW e \in Entry, NEW f \in Envelope
    PROVE  LET o == BaseSub(To(p, step), e, f)
           IN  /\ o \in Operation /\ o.at = step /\ o.want = slot[p].want
               /\ o.base = e /\ o.sub = f /\ o.rebased = slot[p].rebased
BY ToFacts, WithBaseSub

LEMMA ToWithBaseSeen ==
    ASSUME IInv, NEW p \in Slot, NEW step \in Steps, NEW e \in Entry, NEW n \in 0..MaxRevision
    PROVE  LET o == BaseSeen(To(p, step), e, n)
           IN  /\ o \in Operation /\ o.at = step /\ o.want = slot[p].want
               /\ o.base = e /\ o.rebased = slot[p].rebased
BY ToFacts, WithBaseSeen

LEMMA EntryFacts ==
    ASSUME NEW e, NEW acc, EntryOK(e, acc)
    PROVE  /\ e \in Entry /\ e.active \in Envelope /\ e.pending \in Envelope
           /\ e.active.sum \in Content \cup {NoContent}
<1>1. e \in Entry /\ e.active \in Envelope /\ e.pending \in Envelope
  BY SMT DEF EntryOK, Entry
<1>2. QED
  BY <1>1, EnvelopeType

\* promoteProfile, adoptSyncedProfile
LEMMA ActivatedOK ==
    ASSUME NEW acc, NEW e \in Envelope, e # Nothing => e \in acc
    PROVE  EntryOK([active |-> e, pending |-> Nothing], acc)
<1> DEFINE s == [active |-> e, pending |-> Nothing]
<1>1. s.active = e /\ s.pending = Nothing
  BY SMT
<1>2. s \in Entry
  BY EnvelopeType, SMT DEF Entry
<1> HIDE DEF s
<1>3. EntryOK(s, acc)
  BY <1>1, <1>2 DEF EntryOK
<1>4. QED
  BY <1>3 DEF s

LEMMA Counted ==
    ASSUME IInv, UNCHANGED <<ops, others>>, UNCHANGED faults \/ Fault
    PROVE  CountersOK'
BY FaultCounted DEF IInv, CountersOK

\* One operation moves on and may replace the store.
LEMMA LocalStep ==
    ASSUME IInv, NEW p \in Slot, NEW op, Goes(p, op), OpOK(op, accepted),
           UNCHANGED <<server, phase>>, CountersOK',
           EntryOK(entry', accepted), EntryOK(saved', accepted),
           view' \in Content \cup {NoContent}
    PROVE  IInv'
<1>1. accepted' = accepted /\ ServerOK'
  BY ServerKept DEF server
<1>2. SlotsOK'
  BY <1>1, SlotStep
<1>3. LocalOK'
  BY <1>1 DEF IInv, LocalOK
<1>4. QED
  BY <1>1, <1>2, <1>3 DEF IInv

\* Where an operation is sound with whatever it has read.
LEMMA StoredOK ==
    ASSUME IInv, NEW p \in Slot, NEW e, EntryOK(e, accepted), NEW step \in Steps,
           step \in {"synced", "unsynced"}
    PROVE  OpOK([Afresh(p, step) EXCEPT !.base = e], accepted)
<1> DEFINE r == [Afresh(p, step) EXCEPT !.base = e]
<1>1. e \in Entry
  BY DEF EntryOK
<1>2. Afresh(p, step) \in Operation /\ Afresh(p, step).at = step
  BY AfreshFacts
<1>3. r \in Operation /\ r.at = step /\ r.base = e
  BY <1>1, <1>2, WithBase
<1> HIDE DEF r
<1>4. OpOK(r, accepted)
  BY <1>3, AtRest, SMT
<1>5. QED
  BY <1>4 DEF r

LEMMA UnsyncedEnds ==
    ASSUME IInv, NEW p \in Slot, NEW e, EntryOK(e, accepted), Unsynced(p, e),
           entry' = entry \/ entry' = e,
           UNCHANGED <<view, phase, server, ops>>, UNCHANGED faults \/ Fault
    PROVE  IInv'
<1>1. accepted' = accepted /\ others' = others /\ CountersOK'
  BY Counted DEF server
<1>2. OpOK([Afresh(p, "unsynced") EXCEPT !.base = e], accepted)
  BY StepNames, StoredOK
<1>3. Goes(p, [Afresh(p, "unsynced") EXCEPT !.base = e]) /\ saved' = e
  BY DEF Unsynced
<1>4. EntryOK(entry', accepted)
  BY DEF IInv, LocalOK
<1>5. QED
  BY <1>1, <1>2, <1>3, <1>4, LocalStep DEF IInv, LocalOK

-----------------------------------------------------------------------------
(* syncPendingProfile.                                                     *)

LEMMA BeginStep == ASSUME IInv, NEW p \in Slot, Begin(p) PROVE IInv'
<1>0. CountersOK' /\ UNCHANGED <<local, server>>
  BY DEF Begin, IInv, CountersOK, server
<1>1. CASE entry.pending = Nothing
  BY <1>0, <1>1, QuietEnd DEF Begin
<1>2. CASE entry.pending # Nothing
  <2> DEFINE o == To(p, "post")
  <2> DEFINE r == [o EXCEPT !.sub = entry.pending]
  <2>1. OpOK(slot[p], accepted) /\ slot[p] \in Operation
    BY SlotFacts
  <2>2. entry.pending \in Envelope
    BY SMT DEF IInv, LocalOK, EntryOK, Entry
  <2>3. o \in Operation /\ o.at = "post" /\ o.base = slot[p].base /\ o.rebased = slot[p].rebased
    BY ToFacts, StepNames, Zenon
  <2>4. r \in Operation /\ r.at = "post" /\ r.base = slot[p].base
        /\ r.rebased = slot[p].rebased /\ r.sub = entry.pending
    BY <2>2, <2>3, WithSub
  <2>5. ~slot[p].rebased
    BY <2>1, SMT DEF OpOK, Begin, At, Fresh
  <2>6. Goes(p, r)
    BY <1>2 DEF Begin
  <2> HIDE DEF o, r
  <2>7. OpOK(r, accepted)
    <3>1. EntryOK(r.base, accepted) /\ r.sub # Nothing /\ ~r.rebased
      BY <1>2, <2>1, <2>4, <2>5, Zenon DEF OpOK
    <3>2. QED
      BY <2>4, <3>1, AtPost
  <2>8. QED
    BY <1>0, <2>6, <2>7, QuietStep
<1>3. QED
  BY <1>1, <1>2

LEMMA PostStep == ASSUME IInv, NEW p \in Slot, Post(p) PROVE IInv'
<1> DEFINE e == slot[p].sub
<1>1. /\ OpOK(slot[p], accepted) /\ slot[p] \in Operation /\ e \in Envelope
      /\ slot[p].seen \in Nat /\ slot[p].at = "post"
  BY SlotFacts DEF Post, At
<1>2. e # Nothing
  BY <1>1 DEF OpOK, Submitting
<1>3. UNCHANGED <<entry, saved, view, phase, ops>>
  BY DEF Post, local
<1>4. CASE Takes(e) /\ Upsert(e) /\ Goes(p, To(p, "acked")) /\ UNCHANGED faults
  <2>1. ServerOK' /\ accepted \subseteq accepted' /\ e \in accepted'
    BY <1>1, <1>2, <1>4, Upserted
  <2>2. OpOK(To(p, "acked"), accepted')
    <3> DEFINE o == To(p, "acked")
    <3>1. o \in Operation /\ o.at = "acked" /\ o.base = slot[p].base /\ o.sub = e
      BY ToFacts, StepNames, Zenon
    <3>2. EntryOK(slot[p].base, accepted')
      BY <1>1, <2>1, EntryKept DEF OpOK
    <3> HIDE DEF o
    <3>3. OpOK(o, accepted')
      BY <1>2, <2>1, <3>1, <3>2, AtAcked, Zenon
    <3>4. QED
      BY <3>3 DEF o
  <2>3. SlotsOK' /\ LocalOK'
    BY <1>3, <1>4, <2>1, <2>2, SlotStep, LocalKept
  <2>4. CountersOK'
    BY <1>3, <1>4 DEF IInv, CountersOK, Upsert
  <2>5. QED
    BY <2>1, <2>3, <2>4 DEF IInv
<1>5. CASE ~Takes(e) /\ Goes(p, To(p, "refused")) /\ UNCHANGED <<server, faults>>
  <2> DEFINE o == To(p, "refused")
  <2>1. o \in Operation /\ o.at = "refused" /\ o.base = slot[p].base /\ o.sub = e
        /\ o.seen = slot[p].seen /\ o.rebased = slot[p].rebased
    BY ToFacts, StepNames, Zenon
  <2>2. remote # Nothing /\ ~(e.rev > remote.rev) /\ remote \in accepted /\ remote \in Envelope
    BY <1>5 DEF Takes, IInv, ServerOK
  <2>3. slot[p].rebased => remote.rev > slot[p].seen
    <3>1. remote.rev \in Nat /\ e.rev \in Nat
      BY <1>1, <2>2, EnvelopeType
    <3>2. slot[p].rebased => e.rev > slot[p].seen
      BY <1>1 DEF OpOK
    <3>3. QED
      BY <1>1, <2>2, <3>1, <3>2
  <2> HIDE DEF o
  <2>4. OpOK(o, accepted)
    <3>1. EntryOK(o.base, accepted) /\ o.sub # Nothing
      BY <1>1, <1>2, <2>1, Zenon DEF OpOK
    <3>2. o.rebased => \E m \in accepted : m.rev > o.seen
      BY <2>1, <2>2, <2>3, Zenon
    <3>3. QED
      BY <2>1, <3>1, <3>2, AtRefused
  <2>5. UNCHANGED <<local, server>> /\ CountersOK'
    BY <1>3, <1>5 DEF local, IInv, CountersOK, server
  <2>6. QED
    BY <1>5, <2>4, <2>5, QuietStep DEF o
<1>6. CASE /\ Goes(p, To(p, "failed")) /\ Fault
           /\ UNCHANGED server \/ (Takes(e) /\ Upsert(e))
  <2>1. ServerOK' /\ accepted \subseteq accepted' /\ others' = others
    BY <1>1, <1>2, <1>6, Upserted, ServerKept DEF Upsert, server
  <2>2. OpOK(To(p, "failed"), accepted')
    <3> DEFINE o == To(p, "failed")
    <3>1. o \in Operation /\ o.at = "failed" /\ o.base = slot[p].base /\ o.sub = e
      BY ToFacts, StepNames, Zenon
    <3>2. EntryOK(slot[p].base, accepted')
      BY <1>1, <2>1, EntryKept DEF OpOK
    <3> HIDE DEF o
    <3>3. OpOK(o, accepted')
      BY <1>2, <2>1, <3>1, <3>2, AtSubmitted, Zenon
    <3>4. QED
      BY <3>3 DEF o
  <2>3. SlotsOK' /\ LocalOK'
    BY <1>3, <1>6, <2>1, <2>2, SlotStep, LocalKept
  <2>4. CountersOK'
    BY <1>3, <1>6, <2>1, FaultCounted DEF IInv, CountersOK
  <2>5. QED
    BY <2>1, <2>3, <2>4 DEF IInv
<1>7. QED
  BY <1>4, <1>5, <1>6 DEF Post

LEMMA AckedStep == ASSUME IInv, NEW p \in Slot, Acked(p) PROVE IInv'
<1>1. UNCHANGED <<entry, view, phase, server, ops, faults>>
  BY DEF Acked
<1>2. EntryOK(entry, accepted) /\ entry \in Entry
  BY EntryFacts DEF IInv, LocalOK
<1>3. CASE Matches(p)
  <2> DEFINE r == [To(p, "promote") EXCEPT !.base = entry]
  <2>1. r \in Operation /\ r.at = "promote" /\ r.base = entry /\ r.sub = slot[p].sub
    BY <1>2, ToWithBase, StepNames
  <2>2. slot[p].sub # Nothing /\ slot[p].sub \in accepted
    BY SlotFacts, SMT DEF OpOK, Acked, At, Submitting, Taken
  <2>3. Goes(p, r) /\ UNCHANGED saved
    BY <1>3 DEF Acked
  <2> HIDE DEF r
  <2>4. OpOK(r, accepted)
    BY <1>2, <1>3, <2>1, <2>2, AtAcked DEF Matches
  <2>5. UNCHANGED <<local, server>> /\ CountersOK'
    BY <1>1, <2>3, Counted DEF local, server
  <2>6. QED
    BY <2>3, <2>4, <2>5, QuietStep
<1>4. CASE ~Matches(p)
  BY <1>1, <1>2, <1>4, UnsyncedEnds DEF Acked
<1>5. QED
  BY <1>3, <1>4

LEMMA PromoteStep == ASSUME IInv, NEW p \in Slot, Promote(p) PROVE IInv'
<1> DEFINE e == [active |-> slot[p].base.pending, pending |-> Nothing]
<1>1. entry' = e /\ saved' = e /\ UNCHANGED <<view, phase, server, ops, faults>>
  BY DEF Promote, Keeps
<1>2. slot[p].base.pending = slot[p].sub /\ slot[p].sub \in accepted /\ slot[p].sub \in Envelope
  BY SlotFacts, SMT DEF OpOK, Promote, At, Taken
<1>3. EntryOK(e, accepted)
  BY <1>2, ActivatedOK
<1>4. Goes(p, [Afresh(p, "synced") EXCEPT !.base = e])
  BY <1>1 DEF Promote
<1> HIDE DEF e
<1>5. OpOK([Afresh(p, "synced") EXCEPT !.base = e], accepted)
  BY <1>3, StepNames, StoredOK
<1>6. CountersOK'
  BY <1>1, Counted DEF server
<1>7. QED
  BY <1>1, <1>3, <1>4, <1>5, <1>6, LocalStep DEF IInv, LocalOK

LEMMA FailedStep == ASSUME IInv, NEW p \in Slot, Failed(p) PROVE IInv'
BY UnsyncedEnds DEF Failed, IInv, LocalOK

\* The store still has what was refused: the operation looks further.
LEMMA Rereads ==
    ASSUME IInv, NEW p \in Slot, NEW step \in {"lookup", "restage"},
           slot[p].sub # Nothing, ~slot[p].rebased,
           Goes(p, [To(p, step) EXCEPT !.base = entry]),
           UNCHANGED <<local, server, ops, faults>>
    PROVE  IInv'
<1> DEFINE r == [To(p, step) EXCEPT !.base = entry]
<1>1. EntryOK(entry, accepted) /\ entry \in Entry
  BY EntryFacts DEF IInv, LocalOK
<1>2. step \in Steps
  BY SMT DEF Steps
<1>3. /\ r \in Operation /\ r.at = step /\ r.base = entry /\ r.sub = slot[p].sub
      /\ r.rebased = slot[p].rebased
  BY <1>1, <1>2, ToWithBase
<1>4. EntryOK(r.base, accepted) /\ r.sub # Nothing /\ ~r.rebased
  BY <1>1, <1>3, Zenon
<1> HIDE DEF r
<1>5. OpOK(r, accepted)
  BY <1>3, <1>4, AtLookup
<1>6. CountersOK'
  BY Counted DEF server
<1>7. QED
  BY <1>5, <1>6, QuietStep DEF r

LEMMA RefusedStep == ASSUME IInv, NEW p \in Slot, Refused(p) PROVE IInv'
<1>1. slot[p].sub # Nothing
  BY SlotFacts, SMT DEF OpOK, Refused, At, Submitting
<1>2. CASE Matches(p) /\ ~slot[p].rebased
  BY <1>1, <1>2, Rereads DEF Refused, local
<1>3. CASE ~(Matches(p) /\ ~slot[p].rebased)
  BY <1>3, UnsyncedEnds DEF Refused, IInv, LocalOK
<1>4. QED
  BY <1>2, <1>3

LEMMA FoundStep == ASSUME IInv, NEW p \in Slot, Found(p) PROVE IInv'
<1>1. slot[p].sub # Nothing
  BY SlotFacts, SMT DEF OpOK, Found, At, Submitting
<1>2. ~slot[p].rebased
  BY SlotFacts, SMT DEF OpOK, Found, At, Fresh
<1>3. CASE Matches(p)
  BY <1>1, <1>2, <1>3, Rereads DEF Found, local
<1>4. CASE ~Matches(p)
  BY <1>4, UnsyncedEnds DEF Found, IInv, LocalOK
<1>5. QED
  BY <1>3, <1>4

LEMMA LookupStep == ASSUME IInv, NEW p \in Slot, Lookup(p) PROVE IInv'
<1>1. OpOK(slot[p], accepted) /\ EntryOK(slot[p].base, accepted)
  BY SlotFacts DEF OpOK
<1>2. slot[p].sub # Nothing
  BY <1>1, SMT DEF OpOK, Lookup, At, Submitting
<1>3. ~slot[p].rebased
  BY <1>1, SMT DEF OpOK, Lookup, At, Fresh
<1>4. CASE /\ Goes(p, [To(p, "found") EXCEPT !.seen = remote.rev])
           /\ UNCHANGED <<entry, saved, faults>>
  <2> DEFINE r == [To(p, "found") EXCEPT !.seen = remote.rev]
  <2>1. remote.rev \in 0..MaxRevision
    BY EnvelopeType DEF IInv, ServerOK
  <2>2. /\ r \in Operation /\ r.at = "found" /\ r.base = slot[p].base
        /\ r.sub = slot[p].sub /\ r.rebased = slot[p].rebased
    BY <2>1, ToWithSeen, StepNames
  <2>3. EntryOK(r.base, accepted) /\ r.sub # Nothing /\ ~r.rebased
    BY <1>1, <1>2, <1>3, <2>2, Zenon
  <2> HIDE DEF r
  <2>4. OpOK(r, accepted)
    BY <2>2, <2>3, AtLookup
  <2>5. UNCHANGED <<local, server>> /\ CountersOK'
    BY <1>4, Counted DEF Lookup, local, server
  <2>6. QED
    BY <1>4, <2>4, <2>5, QuietStep DEF r
<1>5. CASE /\ IF remote = Nothing THEN UNCHANGED faults ELSE Fault
           /\ entry' = slot[p].base
           /\ Unsynced(p, slot[p].base)
  BY <1>1, <1>5, UnsyncedEnds DEF Lookup
<1>6. QED
  BY <1>4, <1>5 DEF Lookup

LEMMA RestageStep == ASSUME IInv, NEW p \in Slot, Restage(p) PROVE IInv'
<1> DEFINE e == Staged(slot[p].base, slot[p].sub.sum, slot[p].seen)
<1>1. OpOK(slot[p], accepted) /\ EntryOK(slot[p].base, accepted) /\ slot[p].seen \in Nat
      /\ slot[p].sub \in Envelope
  BY SlotFacts DEF OpOK
<1>2. slot[p].sub # Nothing
  BY <1>1, SMT DEF OpOK, Restage, At, Submitting
<1>3. slot[p].sub.sum \in Content
  BY <1>1, <1>2, EnvelopeType
<1>4. e.pending.rev <= MaxRevision /\ entry' = e
  BY DEF Restage, Stores
<1>5. /\ EntryOK(e, accepted) /\ e.pending # Nothing /\ e.pending \in Envelope
      /\ e.pending.rev > slot[p].seen
  BY <1>1, <1>3, <1>4, StagedOK
<1> HIDE DEF e
<1> DEFINE r == Rebase(To(p, "post"), e.pending)
<1>6. /\ r \in Operation /\ r.at = "post" /\ r.base = slot[p].base
      /\ r.sub = e.pending /\ r.seen = slot[p].seen
  BY <1>5, ToRebased, StepNames
<1>7. Goes(p, r)
  BY <1>4 DEF Restage, Rebase
<1> HIDE DEF r
<1>8. OpOK(r, accepted)
  BY <1>1, <1>5, <1>6, AtPost
<1>9. UNCHANGED <<saved, view, phase, server>> /\ CountersOK'
  BY Counted DEF Restage, server
<1>10. QED
  BY <1>4, <1>5, <1>7, <1>8, <1>9, LocalStep DEF IInv, LocalOK

-----------------------------------------------------------------------------
(* Operations begin, end, and replace the store.                           *)

RecordOp(op, sum, e, v) ==
    [op EXCEPT !.kind = "record", !.at = "stage", !.want = sum, !.base = e, !.shown = v]
WantOp(op, kind, sum, n) == [op EXCEPT !.kind = kind, !.want = sum, !.seen = n]
FetchOp(op, kind, step, sum, n) ==
    [op EXCEPT !.kind = kind, !.at = step, !.want = sum, !.seen = n]
ReadOp(op, e, v, n) == [op EXCEPT !.base = e, !.shown = v, !.seen = n]
StartOp(op, step, e) == [op EXCEPT !.at = step, !.base = e]
HiddenOp(op) == [op EXCEPT !.shown = NoContent]
SubOp(op, kind, step, e) == [op EXCEPT !.kind = kind, !.at = step, !.sub = e]

LEMMA RecordOpFacts ==
    ASSUME NEW op \in Operation, NEW k \in Kinds, NEW step \in Steps, NEW sum \in Content,
           NEW e \in Entry, NEW v \in Content \cup {NoContent}, k = "record", step = "stage"
    PROVE  /\ RecordOp(op, sum, e, v) \in Operation
           /\ RecordOp(op, sum, e, v).at = "stage"
           /\ RecordOp(op, sum, e, v).want = sum
           /\ RecordOp(op, sum, e, v).base = e
           /\ RecordOp(op, sum, e, v).rebased = op.rebased
<1>1. /\ [op EXCEPT !.kind = k, !.at = step, !.want = sum, !.base = e, !.shown = v] \in Operation
      /\ [op EXCEPT !.kind = k, !.at = step, !.want = sum, !.base = e, !.shown = v].at = step
      /\ [op EXCEPT !.kind = k, !.at = step, !.want = sum, !.base = e, !.shown = v].want = sum
      /\ [op EXCEPT !.kind = k, !.at = step, !.want = sum, !.base = e, !.shown = v].base = e
      /\ [op EXCEPT !.kind = k, !.at = step, !.want = sum, !.base = e,
                    !.shown = v].rebased = op.rebased
  BY Zenon DEF Operation, Kinds, Steps
<1>2. QED
  BY <1>1, Zenon DEF RecordOp

LEMMA WantOpFacts ==
    ASSUME NEW op \in Operation, NEW k \in Kinds, NEW sum \in Content,
           NEW n \in 0..MaxRevision
    PROVE  /\ WantOp(op, k, sum, n) \in Operation
           /\ WantOp(op, k, sum, n).want = sum
           /\ WantOp(op, k, sum, n).rebased = op.rebased
<1> DEFINE r == [op EXCEPT !.kind = k, !.want = sum, !.seen = n]
<1>1. r \in Operation
  BY Zenon DEF Operation, Kinds, Steps
<1>2. r.want = sum /\ r.rebased = op.rebased
  BY Zenon DEF Operation
<1>3. WantOp(op, k, sum, n) = r
  BY DEF WantOp
<1> HIDE DEF r
<1>4. QED
  BY <1>1, <1>2, <1>3, Zenon

LEMMA FetchOpFacts ==
    ASSUME NEW op \in Operation, NEW k \in Kinds, NEW step \in Steps, NEW sum \in Content,
           NEW n \in 0..MaxRevision
    PROVE  /\ FetchOp(op, k, step, sum, n) \in Operation
           /\ FetchOp(op, k, step, sum, n).at = step
           /\ FetchOp(op, k, step, sum, n).want = sum
           /\ FetchOp(op, k, step, sum, n).base = op.base
           /\ FetchOp(op, k, step, sum, n).rebased = op.rebased
<1> DEFINE r == [op EXCEPT !.kind = k, !.at = step, !.want = sum, !.seen = n]
<1>1. r \in Operation
  BY Zenon DEF Operation, Kinds, Steps
<1>2. r.at = step /\ r.want = sum /\ r.base = op.base /\ r.rebased = op.rebased
  BY Zenon DEF Operation
<1>3. FetchOp(op, k, step, sum, n) = r
  BY DEF FetchOp
<1> HIDE DEF r
<1>4. QED
  BY <1>1, <1>2, <1>3, Zenon

LEMMA ReadOpFacts ==
    ASSUME NEW op \in Operation, NEW e \in Entry, NEW v \in Content \cup {NoContent},
           NEW n \in 0..MaxRevision
    PROVE  /\ ReadOp(op, e, v, n) \in Operation
           /\ ReadOp(op, e, v, n).at = op.at
           /\ ReadOp(op, e, v, n).want = op.want
           /\ ReadOp(op, e, v, n).base = e
           /\ ReadOp(op, e, v, n).rebased = op.rebased
<1> DEFINE r == [op EXCEPT !.base = e, !.shown = v, !.seen = n]
<1>1. r \in Operation
  BY Zenon DEF Operation, Kinds, Steps
<1>2. r.at = op.at /\ r.want = op.want /\ r.base = e /\ r.rebased = op.rebased
  BY Zenon DEF Operation
<1>3. ReadOp(op, e, v, n) = r
  BY DEF ReadOp
<1> HIDE DEF r
<1>4. QED
  BY <1>1, <1>2, <1>3, Zenon

LEMMA StartOpFacts ==
    ASSUME NEW op \in Operation, NEW step \in Steps, NEW e \in Entry
    PROVE  /\ StartOp(op, step, e) \in Operation
           /\ StartOp(op, step, e).at = step
           /\ StartOp(op, step, e).want = op.want
           /\ StartOp(op, step, e).base = e
           /\ StartOp(op, step, e).rebased = op.rebased
<1> DEFINE r == [op EXCEPT !.at = step, !.base = e]
<1>1. r \in Operation
  BY Zenon DEF Operation, Kinds, Steps
<1>2. r.at = step /\ r.want = op.want /\ r.base = e /\ r.rebased = op.rebased
  BY Zenon DEF Operation
<1>3. StartOp(op, step, e) = r
  BY DEF StartOp
<1> HIDE DEF r
<1>4. QED
  BY <1>1, <1>2, <1>3, Zenon

LEMMA HiddenOpFacts ==
    ASSUME NEW op \in Operation
    PROVE  /\ HiddenOp(op) \in Operation
           /\ HiddenOp(op).want = op.want
           /\ HiddenOp(op).rebased = op.rebased
<1> DEFINE r == [op EXCEPT !.shown = NoContent]
<1>1. r \in Operation
  BY Zenon DEF Operation, Kinds, Steps
<1>2. r.want = op.want /\ r.rebased = op.rebased
  BY Zenon DEF Operation
<1>3. HiddenOp(op) = r
  BY DEF HiddenOp
<1> HIDE DEF r
<1>4. QED
  BY <1>1, <1>2, <1>3, Zenon

LEMMA SubOpFacts ==
    ASSUME NEW op \in Operation, NEW k \in Kinds, NEW step \in Steps, NEW e \in Envelope
    PROVE  /\ SubOp(op, k, step, e) \in Operation
           /\ SubOp(op, k, step, e).at = step
           /\ SubOp(op, k, step, e).base = op.base
           /\ SubOp(op, k, step, e).sub = e
           /\ SubOp(op, k, step, e).rebased = op.rebased
<1> DEFINE r == [op EXCEPT !.kind = k, !.at = step, !.sub = e]
<1>1. r \in Operation
  BY Zenon DEF Operation, Kinds, Steps
<1>2. r.at = step /\ r.base = op.base /\ r.sub = e /\ r.rebased = op.rebased
  BY Zenon DEF Operation
<1>3. SubOp(op, k, step, e) = r
  BY DEF SubOp
<1> HIDE DEF r
<1>4. QED
  BY <1>1, <1>2, <1>3, Zenon

LEMMA BeginCounted ==
    ASSUME IInv, NEW p \in Slot, NEW op, Begins(p, op), UNCHANGED <<server, faults>>
    PROVE  CountersOK'
BY Begun DEF IInv, CountersOK, server

LEMMA BeginsQuietly ==
    ASSUME IInv, NEW p \in Slot, NEW op, Begins(p, op), OpOK(op, accepted),
           UNCHANGED <<local, server, faults>>
    PROVE  IInv'
<1>1. CountersOK'
  BY BeginCounted
<1>2. Goes(p, op)
  BY DEF Begins
<1>3. QED
  BY <1>1, <1>2, QuietStep

\* The store, the view and the phase change; the server does not.
LEMMA StoreStep ==
    ASSUME IInv, SlotsOK', UNCHANGED server, CountersOK',
           EntryOK(entry', accepted), EntryOK(saved', accepted),
           view' \in Content \cup {NoContent},
           phase' \in {"starting", "ready", "reconciled"}
    PROVE  IInv'
<1>1. accepted' = accepted /\ ServerOK'
  BY ServerKept DEF server
<1>2. LocalOK'
  BY <1>1 DEF LocalOK
<1>3. QED
  BY <1>1, <1>2 DEF IInv

LEMMA EndStep ==
    ASSUME IInv, NEW p \in Slot, Ends(p), UNCHANGED <<server, ops>>,
           UNCHANGED faults \/ Fault,
           EntryOK(entry', accepted), EntryOK(saved', accepted),
           view' \in Content \cup {NoContent},
           phase' \in {"starting", "ready", "reconciled"}
    PROVE  IInv'
<1>1. accepted' = accepted /\ CountersOK'
  BY Counted DEF server
<1>2. SlotsOK'
  BY <1>1, SlotFree
<1>3. QED
  BY <1>1, <1>2, StoreStep

LEMMA NowOK ==
    ASSUME IInv
    PROVE  /\ EntryOK(entry, accepted) /\ EntryOK(saved, accepted)
           /\ entry \in Entry /\ entry.active \in Envelope /\ entry.pending \in Envelope
           /\ view \in Content \cup {NoContent}
           /\ phase \in {"starting", "ready", "reconciled"}
           /\ remote \in Envelope
           /\ remote # Nothing => remote \in accepted
BY EntryFacts DEF IInv, LocalOK, ServerOK

LEMMA BaseOK ==
    ASSUME IInv, NEW p \in Slot
    PROVE  /\ EntryOK(slot[p].base, accepted)
           /\ slot[p].base.active.sum \in Content \cup {NoContent}
<1>1. EntryOK(slot[p].base, accepted)
  BY SlotFacts DEF OpOK
<1>2. QED
  BY <1>1, EntryFacts

\* The synchronised store becomes the worker's, and its profile the view.
LEMMA Installed ==
    ASSUME IInv, NEW p \in Slot, Keeps(slot[p].base), Ends(p),
           view' = entry'.active.sum \/ view' = view, UNCHANGED <<phase, server, ops, faults>>
    PROVE  IInv'
<1>1. entry' = slot[p].base /\ saved' = slot[p].base
  BY DEF Keeps
<1>2. EntryOK(entry', accepted) /\ EntryOK(saved', accepted)
  BY <1>1, BaseOK
<1>3. view' \in Content \cup {NoContent}
  BY <1>1, BaseOK, NowOK
<1>4. QED
  BY <1>2, <1>3, NowOK, EndStep

-----------------------------------------------------------------------------
(* Recordings.                                                             *)

LEMMA RecordStep == ASSUME IInv, NEW p \in Slot, Record(p) PROVE IInv'
<1>1. PICK sum \in Content : Begins(p, RecordOp(Idle, sum, entry, view))
  BY DEF Record, RecordOp
<1> DEFINE r == RecordOp(Idle, sum, entry, view)
<1>2. /\ r \in Operation /\ r.at = "stage" /\ r.want = sum /\ r.base = entry
      /\ r.rebased = Idle.rebased
  BY IdleFacts, NowOK, KindNames, StepNames, RecordOpFacts
<1>3. EntryOK(r.base, accepted) /\ r.want \in Content /\ ~r.rebased
  BY <1>2, NowOK, IdleFacts, Zenon
<1> HIDE DEF r
<1>4. OpOK(r, accepted)
  BY <1>2, <1>3, AtFresh
<1>5. QED
  BY <1>1, <1>4, BeginsQuietly DEF Record, r

LEMMA StageStep == ASSUME IInv, NEW p \in Slot, Stage(p) PROVE IInv'
<1> DEFINE e == Staged(slot[p].base, slot[p].want, 0)
<1>1. OpOK(slot[p], accepted) /\ EntryOK(slot[p].base, accepted)
  BY SlotFacts, BaseOK
<1>2. slot[p].want \in Content
  BY <1>1, SMT DEF OpOK, Stage, At, Wanting
<1>3. e.pending.rev <= MaxRevision /\ entry' = e
  BY DEF Stage, Stores
<1>4. EntryOK(e, accepted) /\ e.pending # Nothing /\ e.pending \in Envelope
  <2>1. 0 \in Nat
    OBVIOUS
  <2>2. QED
    BY <1>1, <1>2, <1>3, <2>1, StagedOK
<1>5. UNCHANGED <<saved, view, phase, server, ops, faults>>
  BY DEF Stage
<1>6. CASE Goes(p, [Afresh(p, "post") EXCEPT !.sub = entry'.pending])
  <2> DEFINE r == [Afresh(p, "post") EXCEPT !.sub = e.pending]
  <2>1. Goes(p, r)
    BY <1>3, <1>6
  <2> HIDE DEF e
  <2>2. /\ r \in Operation /\ r.at = "post" /\ r.base = Afresh(p, "post").base
        /\ r.sub = e.pending /\ r.rebased = Afresh(p, "post").rebased
    BY <1>4, AfreshFacts, WithSub, StepNames
  <2>3. r.base = Empty /\ ~r.rebased
    BY <2>2, AfreshFacts, StepNames
  <2>4. EntryOK(r.base, accepted) /\ r.sub # Nothing
    BY <1>4, <2>2, <2>3, EmptyOK, Zenon
  <2> HIDE DEF r
  <2>5. OpOK(r, accepted)
    BY <2>2, <2>3, <2>4, AtPost
  <2>6. CountersOK'
    BY <1>5, Counted DEF server
  <2>7. QED
    BY <1>3, <1>4, <1>5, <2>1, <2>5, <2>6, NowOK, LocalStep
<1>7. CASE MaySupersede(p) /\ Ends(p)
  BY <1>3, <1>4, <1>5, <1>7, NowOK, EndStep
<1>8. QED
  BY <1>6, <1>7 DEF Stage

LEMMA RecordSyncedStep == ASSUME IInv, NEW p \in Slot, RecordSynced(p) PROVE IInv'
BY Installed DEF RecordSynced

LEMMA RecordFailedStep == ASSUME IInv, NEW p \in Slot, RecordFailed(p) PROVE IInv'
<1>1. /\ Ends(p) /\ UNCHANGED <<entry, phase, server, ops, faults>>
      /\ \/ view' = slot[p].shown /\ saved' = entry
         \/ UNCHANGED <<view, saved>>
  BY DEF RecordFailed
<1>2. view' \in Content \cup {NoContent} /\ EntryOK(saved', accepted)
  BY <1>1, SlotFacts, NowOK
<1>3. QED
  BY <1>1, <1>2, NowOK, EndStep

-----------------------------------------------------------------------------
(* bootstrapRecordedProfileLifecycle.                                      *)

LEMMA BootstrappingOK ==
    ASSUME IInv, NEW op \in Operation, op.want \in Content, ~op.rebased
    PROVE  OpOK(Bootstrapping(op), accepted)
<1> DEFINE step == IF entry = Empty THEN "ask" ELSE "bootstrap"
<1> DEFINE r == StartOp(op, step, entry)
<1>1. step \in Steps /\ step \in {"stage", "answer", "weigh", "ask", "bootstrap"}
  BY SMT DEF Steps
<1>2. Bootstrapping(op) = r
  BY DEF Bootstrapping, StartOp
<1> HIDE DEF step
<1>3. r \in Operation /\ r.at = step /\ r.want = op.want /\ r.base = entry
      /\ r.rebased = op.rebased
  BY <1>1, NowOK, StartOpFacts
<1> HIDE DEF r
<1>4. EntryOK(r.base, accepted) /\ r.want \in Content /\ ~r.rebased
  BY <1>3, NowOK, Zenon
<1>5. OpOK(r, accepted)
  BY <1>1, <1>3, <1>4, AtFresh
<1>6. QED
  BY <1>2, <1>5

LEMMA BootStep == ASSUME IInv, NEW p \in Slot, Boot(p) PROVE IInv'
<1> DEFINE o == WantOp(Idle, "boot", view, entry.active.rev)
<1>1. view \in Content /\ entry.active.rev \in 0..MaxRevision
  BY NowOK, EnvelopeType DEF Boot
<1>2. o \in Operation /\ o.want = view /\ o.rebased = Idle.rebased
  BY <1>1, IdleFacts, KindNames, WantOpFacts
<1>3. Begins(p, Bootstrapping(o)) /\ UNCHANGED <<local, server, faults>>
  BY DEF Boot, WantOp
<1> HIDE DEF o
<1>4. o.want \in Content /\ ~o.rebased
  BY <1>1, <1>2, IdleFacts, Zenon
<1>5. OpOK(Bootstrapping(o), accepted)
  BY <1>2, <1>4, BootstrappingOK
<1>6. QED
  BY <1>3, <1>5, BeginsQuietly

LEMMA FetchStep == ASSUME IInv, NEW p \in Slot, Fetch(p) PROVE IInv'
<1>1. PICK sum \in Content : Begins(p, FetchOp(Idle, "fetch", "answer", sum, remote.rev))
  BY DEF Fetch, FetchOp
<1> DEFINE k == "fetch"
<1> DEFINE step == "answer"
<1> DEFINE r == FetchOp(Idle, k, step, sum, remote.rev)
<1>2. remote.rev \in 0..MaxRevision /\ k \in Kinds /\ step \in Steps /\ Idle \in Operation
  BY NowOK, EnvelopeType, IdleFacts, KindNames, StepNames
<1>3. Begins(p, r) /\ step \in {"stage", "answer", "weigh", "ask", "bootstrap"}
  BY <1>1
<1> HIDE DEF k, step
<1>4. /\ r \in Operation /\ r.at = step /\ r.want = sum /\ r.base = Idle.base
      /\ r.rebased = Idle.rebased
  BY <1>2, FetchOpFacts
<1> HIDE DEF r
<1>5. EntryOK(r.base, accepted) /\ r.want \in Content /\ ~r.rebased
  BY <1>4, IdleFacts, EmptyOK, Zenon
<1>6. OpOK(r, accepted)
  BY <1>3, <1>4, <1>5, AtFresh
<1>7. QED
  BY <1>3, <1>6, BeginsQuietly DEF Fetch

LEMMA ArriveStep == ASSUME IInv, NEW p \in Slot, Arrive(p) PROVE IInv'
<1> DEFINE o == To(p, "weigh")
<1> DEFINE n == IF o.seen = 0 THEN entry.active.rev ELSE o.seen
<1> DEFINE r == ReadOp(o, entry, view, n)
<1>1. OpOK(slot[p], accepted)
  BY SlotFacts
<1>2. slot[p].want \in Content /\ ~slot[p].rebased
  BY <1>1, SMT DEF OpOK, Arrive, At, Wanting, Fresh
<1>3. Goes(p, r) /\ UNCHANGED <<local, server, ops, faults>>
  BY DEF Arrive, ReadOp
<1>4. /\ o \in Operation /\ o.at = "weigh" /\ o.want = slot[p].want
      /\ o.seen = slot[p].seen /\ o.rebased = slot[p].rebased
  BY ToFacts, StepNames
<1> HIDE DEF o
<1>5. n \in 0..MaxRevision
  BY <1>4, SlotFacts, NowOK, EnvelopeType, SMT
<1> HIDE DEF n
<1>6. /\ r \in Operation /\ r.at = o.at /\ r.want = o.want /\ r.base = entry
      /\ r.rebased = o.rebased
  BY <1>4, <1>5, NowOK, ReadOpFacts
<1> HIDE DEF r
<1>7. EntryOK(r.base, accepted) /\ r.want \in Content /\ ~r.rebased /\ r.at = "weigh"
  BY <1>2, <1>4, <1>6, NowOK, Zenon
<1>8. OpOK(r, accepted)
  BY <1>6, <1>7, AtFresh
<1>9. CountersOK'
  BY <1>3, Counted DEF server
<1>10. QED
  BY <1>3, <1>8, <1>9, QuietStep

LEMMA WeighStep == ASSUME IInv, NEW p \in Slot, Weigh(p) PROVE IInv'
<1>1. UNCHANGED <<entry, saved, phase, server, ops, faults>>
  BY DEF Weigh
<1>2. CASE view' \in {view, NoContent} /\ Ends(p)
  BY <1>1, <1>2, NowOK, EndStep
<1>3. CASE Goes(p, Bootstrapping([slot[p] EXCEPT !.shown = NoContent])) /\ UNCHANGED view
  <2> DEFINE o == HiddenOp(slot[p])
  <2>1. OpOK(slot[p], accepted) /\ slot[p] \in Operation
    BY SlotFacts
  <2>2. slot[p].want \in Content /\ ~slot[p].rebased
    BY <2>1, SMT DEF OpOK, Weigh, At, Wanting, Fresh
  <2>3. o \in Operation /\ o.want = slot[p].want /\ o.rebased = slot[p].rebased
    BY <2>1, HiddenOpFacts
  <2>4. Goes(p, Bootstrapping(o))
    BY <1>3 DEF HiddenOp
  <2> HIDE DEF o
  <2>5. o.want \in Content /\ ~o.rebased
    BY <2>2, <2>3, Zenon
  <2>6. OpOK(Bootstrapping(o), accepted)
    BY <2>3, <2>5, BootstrappingOK
  <2>7. CountersOK'
    BY <1>1, Counted DEF server
  <2>8. QED
    BY <1>1, <1>3, <2>4, <2>6, <2>7, QuietStep DEF local
<1>4. QED
  BY <1>2, <1>3 DEF Weigh

LEMMA InitialisedStep == ASSUME IInv, Initialised PROVE IInv'
<1>1. UNCHANGED <<entry, saved, view, slot, server, ops, faults>> /\ phase' = "ready"
  BY DEF Initialised
<1>2. accepted' = accepted /\ CountersOK'
  BY <1>1, Counted DEF server
<1>3. SlotsOK'
  BY <1>1, <1>2, SlotsKept
<1>4. QED
  BY <1>1, <1>2, <1>3, NowOK, StoreStep

\* The store is read once more.
LEMMA ReadAgain ==
    ASSUME IInv, NEW p \in Slot, slot[p].want \in Content, ~slot[p].rebased
    PROVE  OpOK([To(p, "bootstrap") EXCEPT !.base = entry], accepted)
<1> DEFINE r == [To(p, "bootstrap") EXCEPT !.base = entry]
<1>1. /\ r \in Operation /\ r.at = "bootstrap" /\ r.base = entry /\ r.want = slot[p].want
      /\ r.rebased = slot[p].rebased
  BY NowOK, ToWithBase, StepNames
<1>2. EntryOK(r.base, accepted) /\ r.want \in Content /\ ~r.rebased
  BY <1>1, NowOK, Zenon
<1> HIDE DEF r
<1>3. OpOK(r, accepted)
  BY <1>1, <1>2, AtFresh
<1>4. QED
  BY <1>3 DEF r

LEMMA AskStep == ASSUME IInv, NEW p \in Slot, Ask(p) PROVE IInv'
<1>1. OpOK(slot[p], accepted)
  BY SlotFacts
<1>2. slot[p].want \in Content
  BY <1>1, SMT DEF OpOK, Ask, At, Wanting
<1>3. ~slot[p].rebased
  BY <1>1, SMT DEF OpOK, Ask, At, Fresh
<1>4. UNCHANGED <<entry, saved, phase, server, ops>>
  BY DEF Ask
<1>5. CASE /\ remote # Nothing /\ remote.sum = slot[p].want
           /\ Goes(p, [To(p, "adopt") EXCEPT !.base = entry, !.sub = remote])
           /\ UNCHANGED <<view, faults>>
  <2> DEFINE r == BaseSub(To(p, "adopt"), entry, remote)
  <2>1. /\ r \in Operation /\ r.at = "adopt" /\ r.base = entry /\ r.want = slot[p].want
        /\ r.sub = remote /\ r.rebased = slot[p].rebased
    BY NowOK, ToWithBaseSub, StepNames
  <2>2. EntryOK(r.base, accepted) /\ r.want \in Content /\ ~r.rebased
    BY <1>2, <1>3, <2>1, NowOK, Zenon
  <2>3. Goes(p, r)
    BY <1>5 DEF BaseSub
  <2> HIDE DEF r
  <2>4. OpOK(r, accepted)
    BY <1>5, <2>1, <2>2, NowOK, AtAdopt
  <2>5. CountersOK'
    BY <1>4, <1>5, Counted DEF server
  <2>6. QED
    BY <1>4, <1>5, <2>3, <2>4, <2>5, QuietStep DEF local
<1>6. CASE ViewAfterFailure(p) /\ Ends(p) /\ UNCHANGED faults
  <2>1. view' \in Content \cup {NoContent}
    BY <1>6, NowOK DEF ViewAfterFailure
  <2>2. QED
    BY <1>4, <1>6, <2>1, NowOK, EndStep
<1>7. CASE /\ IF remote = Nothing THEN UNCHANGED faults ELSE Fault
           /\ Goes(p, [To(p, "bootstrap") EXCEPT !.base = entry])
           /\ UNCHANGED view
  <2>1. CountersOK'
    BY <1>4, <1>7, Counted DEF server
  <2>2. QED
    BY <1>2, <1>3, <1>4, <1>7, <2>1, ReadAgain, QuietStep DEF local
<1>8. QED
  BY <1>5, <1>6, <1>7 DEF Ask

LEMMA AdoptStep == ASSUME IInv, NEW p \in Slot, Adopt(p) PROVE IInv'
<1>1. OpOK(slot[p], accepted) /\ slot[p].sub \in Envelope
  BY SlotFacts
<1>2. slot[p].want \in Content /\ slot[p].sub \in accepted
  BY <1>1, SMT DEF OpOK, Adopt, At, Wanting, Taken
<1>3. ~slot[p].rebased
  BY <1>1, SMT DEF OpOK, Adopt, At, Fresh
<1>4. UNCHANGED <<phase, server, ops, faults>>
  BY DEF Adopt
<1>5. CASE slot[p].base.active = Nothing
  <2>1. /\ Keeps([active |-> slot[p].sub, pending |-> Nothing])
        /\ view' = slot[p].want /\ Ends(p)
    BY <1>5 DEF Adopt
  <2>2. EntryOK(entry', accepted) /\ EntryOK(saved', accepted)
    BY <1>1, <1>2, <2>1, ActivatedOK DEF Keeps
  <2>3. QED
    BY <1>2, <1>4, <2>1, <2>2, NowOK, EndStep
<1>6. CASE slot[p].base.active # Nothing
  <2> DEFINE r == BaseSeen(To(p, "bootstrap"), entry, Higher(slot[p].seen, slot[p].sub.rev))
  <2>1. Higher(slot[p].seen, slot[p].sub.rev) \in 0..MaxRevision
    BY <1>1, EnvelopeType, SlotFacts, SMT DEF Higher
  <2>2. /\ r \in Operation /\ r.at = "bootstrap" /\ r.base = entry /\ r.want = slot[p].want
        /\ r.rebased = slot[p].rebased
    BY <2>1, NowOK, ToWithBaseSeen, StepNames
  <2>3. EntryOK(r.base, accepted) /\ r.want \in Content /\ ~r.rebased
    BY <1>2, <1>3, <2>2, NowOK, Zenon
  <2>4. Goes(p, r) /\ UNCHANGED <<entry, saved, view>>
    <3>1. To(p, "bootstrap").seen = slot[p].seen
      BY ToFacts, StepNames
    <3>2. QED
      BY <1>6, <3>1 DEF Adopt, BaseSeen
  <2> HIDE DEF r
  <2>5. OpOK(r, accepted)
    BY <2>2, <2>3, AtFresh
  <2>6. CountersOK'
    BY <1>4, Counted DEF server
  <2>7. QED
    BY <1>4, <2>4, <2>5, <2>6, QuietStep DEF local
<1>7. QED
  BY <1>5, <1>6

LEMMA BootstrapStep == ASSUME IInv, NEW p \in Slot, Bootstrap(p) PROVE IInv'
<1> DEFINE e == slot[p].base
<1>1. OpOK(slot[p], accepted) /\ EntryOK(e, accepted)
      /\ slot[p].seen \in Nat
  BY SlotFacts, BaseOK
<1>2. slot[p].want \in Content
  BY <1>1, SMT DEF OpOK, Bootstrap, At, Wanting
<1>3. UNCHANGED <<phase, server, ops, faults>>
  BY DEF Bootstrap
<1>4. CASE entry' = e /\ view' = slot[p].want /\ Ends(p) /\ UNCHANGED saved
  BY <1>1, <1>2, <1>3, <1>4, NowOK, EndStep
<1>5. CASE /\ IF e.pending # Nothing THEN entry' = e
              ELSE Stores(Staged(e, slot[p].want, slot[p].seen))
           /\ saved' = entry' /\ Goes(p, Afresh(p, "begin")) /\ UNCHANGED view
  <2>1. EntryOK(entry', accepted)
    <3>1. CASE entry' = e
      BY <1>1, <3>1
    <3>2. CASE Stores(Staged(e, slot[p].want, slot[p].seen))
      <4> DEFINE f == Staged(e, slot[p].want, slot[p].seen)
      <4>1. f.pending.rev <= MaxRevision /\ entry' = f
        BY <3>2 DEF Stores
      <4>2. EntryOK(f, accepted)
        BY <1>1, <1>2, <4>1, StagedOK
      <4>3. QED
        BY <4>1, <4>2
    <3>3. QED
      BY <1>5, <3>1, <3>2
  <2> DEFINE r == Afresh(p, "begin")
  <2>2. r \in Operation /\ r.at = "begin" /\ r.base = Empty /\ ~r.rebased
    BY AfreshFacts, StepNames, Zenon
  <2>3. EntryOK(r.base, accepted) /\ ~r.rebased
    BY <2>2, EmptyOK, Zenon
  <2> HIDE DEF r
  <2>4. OpOK(r, accepted)
    BY <2>2, <2>3, AtBegin
  <2>5. CountersOK'
    BY <1>3, Counted DEF server
  <2>6. QED
    BY <1>3, <1>5, <2>1, <2>4, <2>5, NowOK, LocalStep DEF r
<1>6. QED
  BY <1>4, <1>5 DEF Bootstrap

LEMMA BootSyncedStep == ASSUME IInv, NEW p \in Slot, BootSynced(p) PROVE IInv'
BY Installed DEF BootSynced

LEMMA BootFailedStep == ASSUME IInv, NEW p \in Slot, BootFailed(p) PROVE IInv'
<1>1. Ends(p) /\ UNCHANGED <<entry, saved, phase, server, ops, faults>>
  BY DEF BootFailed
<1>2. view' \in Content \cup {NoContent}
  BY NowOK DEF BootFailed, ViewAfterFailure
<1>3. QED
  BY <1>1, <1>2, NowOK, EndStep

-----------------------------------------------------------------------------
(* Recovery and repair.                                                    *)

LEMMA Submitted ==
    ASSUME IInv, NEW k \in Kinds, NEW step \in {"post", "compare"}, NEW e \in Envelope,
           e # Nothing
    PROVE  OpOK(SubOp(Idle, k, step, e), accepted)
<1> DEFINE r == SubOp(Idle, k, step, e)
<1>1. step \in Steps
  BY SMT DEF Steps
<1>2. /\ r \in Operation /\ r.at = step /\ r.base = Idle.base /\ r.sub = e
      /\ r.rebased = Idle.rebased
  BY <1>1, IdleFacts, SubOpFacts
<1>3. EntryOK(r.base, accepted) /\ ~r.rebased
  BY <1>2, IdleFacts, EmptyOK, Zenon
<1> HIDE DEF r
<1>4. OpOK(r, accepted)
  BY <1>2, <1>3, AtPost, AtSubmitted
<1>5. QED
  BY <1>4 DEF r

LEMMA RecoverStep == ASSUME IInv, NEW p \in Slot, Recover(p) PROVE IInv'
<1>1. OpOK(SubOp(Idle, "recover", "post", entry.pending), accepted)
  BY NowOK, KindNames, Submitted DEF Recover
<1>2. Begins(p, SubOp(Idle, "recover", "post", entry.pending))
  BY DEF Recover, SubOp
<1>3. QED
  BY <1>1, <1>2, BeginsQuietly DEF Recover

LEMMA RepairStep == ASSUME IInv, NEW p \in Slot, Repair(p) PROVE IInv'
<1>1. OpOK(SubOp(Idle, "repair", "compare", entry.active), accepted)
  BY NowOK, KindNames, Submitted DEF Repair
<1>2. Begins(p, SubOp(Idle, "repair", "compare", entry.active))
  BY DEF Repair, SubOp
<1>3. QED
  BY <1>1, <1>2, BeginsQuietly DEF Repair

LEMMA RecoveredStep == ASSUME IInv, NEW p \in Slot, Recovered(p) PROVE IInv'
<1> DEFINE r == To(p, "publish")
<1>1. r \in Operation /\ r.at = "publish" /\ r.base = slot[p].base
  BY ToFacts, StepNames, Zenon
<1>2. Goes(p, r) /\ UNCHANGED <<entry, saved, phase, server, ops, faults>>
      /\ view' = slot[p].base.active.sum
  BY DEF Recovered
<1> HIDE DEF r
<1>3. OpOK(r, accepted)
  BY <1>1, BaseOK, AtRest
<1>4. CountersOK' /\ view' \in Content \cup {NoContent}
  BY <1>2, BaseOK, Counted DEF server
<1>5. QED
  BY <1>2, <1>3, <1>4, NowOK, LocalStep

LEMMA RecoveryEndsStep == ASSUME IInv, NEW p \in Slot, RecoveryEnds(p) PROVE IInv'
BY Installed DEF RecoveryEnds

LEMMA AgreesType ==
    ASSUME IInv, NEW p \in Slot, Agrees(p), slot[p].sub # Nothing
    PROVE  view' \in Content \cup {NoContent} /\ phase' \in {"starting", "ready", "reconciled"}
BY SlotFacts, NowOK, EnvelopeType DEF Agrees

LEMMA CompareStep == ASSUME IInv, NEW p \in Slot, Compare(p) PROVE IInv'
<1>1. slot[p].sub # Nothing
  BY SlotFacts, SMT DEF OpOK, Compare, At, Submitting
<1>2. UNCHANGED <<entry, saved, server, ops>>
  BY DEF Compare
<1>3. CASE Goes(p, To(p, "republish")) /\ UNCHANGED <<view, phase, faults>>
  <2> DEFINE r == To(p, "republish")
  <2>1. r \in Operation /\ r.at = "republish" /\ r.base = slot[p].base /\ r.sub = slot[p].sub
    BY ToFacts, StepNames, Zenon
  <2> HIDE DEF r
  <2>2. OpOK(r, accepted)
    BY <1>1, <2>1, BaseOK, AtSubmitted
  <2>3. CountersOK'
    BY <1>2, <1>3, Counted DEF server
  <2>4. QED
    BY <1>2, <1>3, <2>2, <2>3, QuietStep DEF local, r
<1>4. CASE Agrees(p) /\ Ends(p) /\ UNCHANGED faults
  BY <1>1, <1>2, <1>4, AgreesType, NowOK, EndStep
<1>5. CASE Ends(p) /\ UNCHANGED <<view, phase, faults>>
  BY <1>2, <1>5, NowOK, EndStep
<1>6. CASE Fault /\ Ends(p) /\ UNCHANGED <<view, phase>>
  BY <1>2, <1>6, NowOK, EndStep
<1>7. QED
  BY <1>3, <1>4, <1>5, <1>6 DEF Compare

LEMMA RepublishStep == ASSUME IInv, NEW p \in Slot, Republish(p) PROVE IInv'
<1> DEFINE e == slot[p].sub
<1>1. e # Nothing
  BY SlotFacts, SMT DEF OpOK, Republish, At, Submitting
<1>2. e \in Envelope
  BY SlotFacts
<1>3. Ends(p) /\ UNCHANGED <<entry, saved, ops>>
  BY DEF Republish
<1>4. ASSUME Upsert(e), view' \in Content \cup {NoContent},
             phase' \in {"starting", "ready", "reconciled"}, UNCHANGED faults \/ Fault
      PROVE  IInv'
  <2>1. ServerOK' /\ accepted \subseteq accepted'
    BY <1>1, <1>2, <1>4, Upserted
  <2>2. SlotsOK'
    BY <1>3, <2>1, SlotFree
  <2>3. EntryOK(entry, accepted') /\ EntryOK(saved, accepted')
    BY <2>1, NowOK, EntryKept
  <2>4. LocalOK'
    BY <1>3, <1>4, <2>3 DEF LocalOK
  <2>5. CountersOK'
    BY <1>3, <1>4, Counted DEF Upsert
  <2>6. QED
    BY <2>1, <2>2, <2>4, <2>5 DEF IInv
<1>5. CASE Upsert(e) /\ Agrees(p) /\ UNCHANGED faults
  BY <1>1, <1>4, <1>5, AgreesType
<1>6. CASE UNCHANGED <<view, phase, server, faults>>
  BY <1>3, <1>6, NowOK, EndStep
<1>7. CASE Fault /\ Upsert(e) /\ UNCHANGED <<view, phase>>
  BY <1>4, <1>7, NowOK
<1>8. CASE Fault /\ UNCHANGED server /\ UNCHANGED <<view, phase>>
  BY <1>3, <1>8, NowOK, EndStep
<1>9. QED
  BY <1>5, <1>6, <1>7, <1>8 DEF Republish

-----------------------------------------------------------------------------
(* Resets, other browsers and restarts.                                    *)

ResetOp(op, k, step) == [op EXCEPT !.kind = k, !.at = step]

LEMMA ResetOpFacts ==
    ASSUME NEW op \in Operation, NEW k \in Kinds, NEW step \in Steps
    PROVE  /\ ResetOp(op, k, step) \in Operation
           /\ ResetOp(op, k, step).at = step
           /\ ResetOp(op, k, step).base = op.base
<1> DEFINE r == [op EXCEPT !.kind = k, !.at = step]
<1>1. r \in Operation
  BY Zenon DEF Operation, Kinds, Steps
<1>2. r.at = step /\ r.base = op.base
  BY Zenon DEF Operation
<1>3. ResetOp(op, k, step) = r
  BY DEF ResetOp
<1> HIDE DEF r
<1>4. QED
  BY <1>1, <1>2, <1>3, Zenon

LEMMA ResetStep == ASSUME IInv, NEW p \in Slot, Reset(p) PROVE IInv'
<1> DEFINE r == ResetOp(Idle, "reset", "delete")
<1>0. Idle \in Operation /\ "reset" \in Kinds /\ "delete" \in Steps
  BY IdleFacts, KindNames, StepNames
<1>1. r \in Operation /\ r.at = "delete" /\ r.base = Empty
  BY <1>0, IdleFacts, ResetOpFacts
<1>2. Begins(p, r)
  BY DEF Reset, ResetOp
<1> HIDE DEF r
<1>3. OpOK(r, accepted)
  BY <1>1, EmptyOK, AtRest
<1>4. QED
  BY <1>2, <1>3, BeginsQuietly DEF Reset

LEMMA DeleteStep == ASSUME IInv, NEW p \in Slot, Delete(p) PROVE IInv'
<1>1. UNCHANGED <<entry, view, phase, accepted, others, ops>>
  BY DEF Delete
<1>2. CASE remote' = Nothing /\ saved' = Empty /\ Goes(p, To(p, "clear")) /\ UNCHANGED faults
  <2> DEFINE r == To(p, "clear")
  <2>1. r \in Operation /\ r.at = "clear" /\ r.base = slot[p].base
    BY ToFacts, StepNames, Zenon
  <2> HIDE DEF r
  <2>2. OpOK(r, accepted)
    BY <2>1, BaseOK, AtRest
  <2>3. SlotsOK'
    BY <1>1, <1>2, <2>2, SlotStep DEF r
  <2>4. ServerOK'
    BY <1>1, <1>2, EnvelopeType DEF IInv, ServerOK
  <2>5. LocalOK'
    BY <1>1, <1>2, NowOK, EmptyOK DEF LocalOK
  <2>6. CountersOK'
    BY <1>1, <1>2, Counted
  <2>7. QED
    BY <2>3, <2>4, <2>5, <2>6 DEF IInv
<1>3. CASE Ends(p) /\ Fault /\ remote' \in {remote, Nothing} /\ UNCHANGED saved
  <2>1. SlotsOK'
    BY <1>1, <1>3, SlotFree
  <2>2. ServerOK'
    BY <1>1, <1>3, EnvelopeType DEF IInv, ServerOK
  <2>3. LocalOK'
    BY <1>1, <1>3, NowOK DEF LocalOK
  <2>4. CountersOK'
    BY <1>1, <1>3, Counted
  <2>5. QED
    BY <2>1, <2>2, <2>3, <2>4 DEF IInv
<1>4. QED
  BY <1>2, <1>3 DEF Delete

LEMMA ClearStep == ASSUME IInv, NEW p \in Slot, Clear(p) PROVE IInv'
<1>1. /\ entry' = Empty /\ saved' = Empty /\ view' = NoContent /\ Ends(p)
      /\ UNCHANGED <<phase, server, ops, faults>>
  BY DEF Clear, Keeps
<1>2. QED
  BY <1>1, EmptyOK, NowOK, EndStep

LEMMA ClearSelectorsStep == ASSUME IInv, ClearSelectors PROVE IInv'
<1>1. /\ view' = NoContent /\ saved' = entry
      /\ UNCHANGED <<entry, phase, slot, server, ops, faults>>
  BY DEF ClearSelectors
<1>2. accepted' = accepted /\ CountersOK'
  BY <1>1, Counted DEF server
<1>3. SlotsOK'
  BY <1>1, <1>2, SlotsKept
<1>4. QED
  BY <1>1, <1>2, <1>3, NowOK, StoreStep

LEMMA OtherPublishesStep == ASSUME IInv, OtherPublishes PROVE IInv'
<1>1. PICK sum \in Content : /\ remote' = [rev |-> remote.rev + 1, sum |-> sum]
                             /\ accepted' = accepted \cup {remote'}
  BY DEF OtherPublishes
<1>2. remote.rev \in Nat
  BY NowOK, EnvelopeType
<1>3. remote' \in Envelope
  BY <1>1, <1>2, BoundsAssumption, SMT DEF OtherPublishes, Envelope
<1>4. ServerOK' /\ accepted \subseteq accepted'
  BY <1>1, <1>3 DEF IInv, ServerOK
<1>5. LocalOK' /\ SlotsOK'
  BY <1>4, LocalKept, SlotsKept DEF OtherPublishes, local
<1>6. CountersOK'
  BY BoundsAssumption, SMT DEF OtherPublishes, IInv, CountersOK
<1>7. QED
  BY <1>4, <1>5, <1>6 DEF IInv

LEMMA RestartStep == ASSUME IInv, WorkerRestart PROVE IInv'
<1>1. /\ entry' = saved /\ phase' = "starting" /\ slot' = [p \in Slot |-> Idle] /\ Fault
      /\ UNCHANGED <<saved, view, server, ops>>
  BY DEF WorkerRestart
<1>2. SlotsOK'
  BY <1>1, IdleFacts, IdleOK DEF SlotsOK
<1>3. CountersOK'
  BY <1>1, Counted DEF server
<1>4. QED
  BY <1>1, <1>2, <1>3, NowOK, StoreStep

-----------------------------------------------------------------------------
(* The invariant and what follows from it.                                 *)

LEMMA InitInv == Init => IInv
<1> SUFFICES ASSUME Init PROVE IInv
  OBVIOUS
<1>1. SlotsOK
  BY IdleFacts, IdleOK DEF Init, SlotsOK
<1>2. LocalOK
  BY EmptyOK DEF Init, LocalOK
<1>3. ServerOK
  BY EnvelopeType DEF Init, ServerOK
<1>4. CountersOK
  BY BoundsAssumption, SMT DEF Init, CountersOK
<1>5. QED
  BY <1>1, <1>2, <1>3, <1>4 DEF IInv

LEMMA StutterStep == ASSUME IInv, UNCHANGED vars PROVE IInv'
<1>1. UNCHANGED <<entry, saved, view, phase, slot, server, ops, faults>>
  BY DEF vars, local
<1>2. accepted' = accepted /\ CountersOK'
  BY <1>1, Counted DEF server
<1>3. SlotsOK'
  BY <1>1, <1>2, SlotsKept
<1>4. QED
  BY <1>1, <1>2, <1>3, NowOK, StoreStep

LEMMA NextInv == IInv /\ [Next]_vars => IInv'
<1> SUFFICES ASSUME IInv, [Next]_vars PROVE IInv'
  OBVIOUS
<1>1. ASSUME NEW p \in Slot, Sync(p) PROVE IInv'
  BY <1>1, BeginStep, PostStep, AckedStep, PromoteStep, FailedStep, RefusedStep, LookupStep,
     FoundStep, RestageStep DEF Sync
<1>2. ASSUME NEW p \in Slot, Recording(p) PROVE IInv'
  BY <1>2, RecordStep, StageStep, RecordSyncedStep, RecordFailedStep DEF Recording
<1>3. ASSUME NEW p \in Slot, Booting(p) PROVE IInv'
  BY <1>3, BootStep, FetchStep, ArriveStep, WeighStep, AskStep, AdoptStep, BootstrapStep,
     BootSyncedStep, BootFailedStep DEF Booting
<1>4. ASSUME NEW p \in Slot, Recovering(p) PROVE IInv'
  BY <1>4, RecoverStep, RecoveredStep, RecoveryEndsStep DEF Recovering
<1>5. ASSUME NEW p \in Slot, Repairing(p) PROVE IInv'
  BY <1>5, RepairStep, CompareStep, RepublishStep DEF Repairing
<1>6. ASSUME NEW p \in Slot, Resetting(p) PROVE IInv'
  BY <1>6, ResetStep, DeleteStep, ClearStep DEF Resetting
<1>7. QED
  BY <1>1, <1>2, <1>3, <1>4, <1>5, <1>6, InitialisedStep, OtherPublishesStep,
     ClearSelectorsStep, RestartStep, StutterStep DEF Next

\* The strengthened invariant holds always: what any operation has read, and the
\* saved store, would itself be a sound store (see IInv).
THEOREM Invariance == Spec => []IInv
BY InitInv, NextInv, PTL DEF Spec

\* Every variable keeps its type, whatever overlaps in the worker.
THEOREM TypeCorrect == Spec => []TypeOK
<1>1. IInv => TypeOK
  BY DEF IInv, LocalOK, SlotsOK, ServerOK, CountersOK, EntryOK, TypeOK
<1>2. QED
  BY <1>1, Invariance, PTL

\* The active envelope of the worker and the one in storage are ones the server
\* has taken.  (The view is another matter, see ActiveWasAccepted.)
THEOREM ActiveAccepted == Spec => []ActiveWasAccepted
<1>1. IInv => ActiveWasAccepted
  BY DEF IInv, LocalOK, EntryOK, ActiveWasAccepted, Known
<1>2. QED
  BY <1>1, Invariance, PTL

\* A pending recording never falls behind the active profile.
THEOREM PendingAhead == Spec => []PendingIsAhead
<1>1. IInv => PendingIsAhead
  BY DEF IInv, LocalOK, EntryOK, PendingIsAhead, Known
<1>2. QED
  BY <1>1, Invariance, PTL

\* A second conflict is never with the revision the first rebase has seen.
THEOREM ConflictIsNews == Spec => []SecondConflictIsNews
<1>1. IInv => SecondConflictIsNews
  BY SlotFacts DEF OpOK, At, SecondConflictIsNews
<1>2. QED
  BY <1>1, Invariance, PTL

\* What the server takes in place of what it had is a later revision.
LEMMA TakenIsNewer ==
    ASSUME IInv, NEW p \in Slot, Takes(slot[p].sub), Upsert(slot[p].sub),
           remote # Nothing, remote' # remote
    PROVE  remote'.rev > remote.rev
BY DEF Takes, Upsert

\* A later revision on the server is never replaced by an older copy, a reset
\* of the site apart.
THEOREM NewerKept == Spec => NewerRemoteIsKept
<1> DEFINE A == remote # Nothing /\ remote' # remote =>
                    remote'.rev > remote.rev \/ \E p \in Slot : At(p, "delete")
<1>1. IInv /\ [Next]_vars => [A]_vars
  <2> SUFFICES ASSUME IInv, [Next]_vars, remote # Nothing, remote' # remote,
                      ~\E p \in Slot : At(p, "delete")
               PROVE  remote'.rev > remote.rev
    OBVIOUS
  <2>1. ASSUME NEW p \in Slot, Post(p) PROVE remote'.rev > remote.rev
    BY <2>1, TakenIsNewer DEF Post, server
  <2>2. ASSUME NEW p \in Slot, Republish(p) PROVE remote'.rev > remote.rev
    BY <2>2, TakenIsNewer DEF Republish, server
  <2>3. ASSUME OtherPublishes PROVE remote'.rev > remote.rev
    <3>1. remote.rev \in Nat
      BY NowOK, EnvelopeType
    <3>2. PICK sum \in Content : remote' = [rev |-> remote.rev + 1, sum |-> sum]
      BY <2>3 DEF OtherPublishes
    <3>3. remote'.rev = remote.rev + 1
      BY <3>2, SMT
    <3>4. QED
      BY <3>1, <3>3
  <2>4. ASSUME NEW p \in Slot, Sync(p) PROVE Post(p)
    BY <2>4 DEF Sync, Begin, Acked, Promote, Failed, Refused, Lookup, Found, Restage, server
  <2>5. ASSUME NEW p \in Slot, Repairing(p) PROVE Republish(p)
    BY <2>5 DEF Repairing, Repair, Compare, server
  <2>6. ASSUME NEW p \in Slot PROVE ~Resetting(p)
    BY DEF Resetting, Reset, Delete, Clear, server
  <2>7. ASSUME NEW p \in Slot PROVE ~Recording(p) /\ ~Recovering(p)
    BY DEF Recording, Record, Stage, RecordSynced, RecordFailed, Recovering, Recover, Recovered,
           RecoveryEnds, server
  <2>8. ASSUME NEW p \in Slot PROVE ~Booting(p)
    BY DEF Booting, Boot, Fetch, Arrive, Weigh, Ask, Adopt, Bootstrap, BootSynced, BootFailed,
           server
  <2>9. ~Initialised /\ ~ClearSelectors /\ ~WorkerRestart /\ ~UNCHANGED vars
    BY DEF Initialised, ClearSelectors, WorkerRestart, vars, server
  <2>10. QED
    BY <2>1, <2>2, <2>3, <2>4, <2>5, <2>6, <2>7, <2>8, <2>9 DEF Next
<1>2. QED
  BY <1>1, Invariance, PTL DEF Spec, NewerRemoteIsKept
=============================================================================
