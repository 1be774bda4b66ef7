-------------------------- MODULE BrowserWakeProofs --------------------------
(***************************************************************************)
(* Theorems about BrowserWake, for any number of jobs and any times that   *)
(* TimesAssumption allows.  That no cold start is forgotten is a race of   *)
(* two clocks: Timing says that a recovery thread whose job was only told  *)
(* of an earlier opening has at least as much left as the lease and the    *)
(* cooldown of that opening.                                               *)
(***************************************************************************)
EXTENDS BrowserWake, TLAPS

Active(j) == pc[j] # "new"

Recovering(j) == pc[j] \in Stalled \cup Again

SomeoneOpens == \E k \in Job : pc[k] \in Opening

\* The cooldown covers the last opening or the one that is reserved.
GapCovered ==
    /\ SomeoneOpens => cooling = Cooldown
    /\ ~SomeoneOpens => gap <= cooling

\* A ready tab has been seen by every job there is, and by every job whose
\* thread has acted on one.
SeenReady ==
    /\ fresh > 0 => \A j \in Job : Active(j) => j \in seen
    /\ \A j \in Job : pc[j] \in Unclaimed \cup {"bound", "drop again"} => j \in seen
    /\ ready \subseteq seen
    /\ \A j \in Job : j \in seen => Active(j)

Deadlines == \A j \in Job : pc[j] \in Again \cup {"mark stalled"} => left[j] = 0

\* LeaseTTL is what an opening in progress may still make of the lease.
Timing ==
    \A j \in Job : Recovering(j) /\ j \notin tried /\ j \notin seen =>
        /\ lease <= left[j]
        /\ cooling <= left[j]
        /\ SomeoneOpens => LeaseTTL <= left[j]

OpenersTried == \A j \in Job : pc[j] \in Opening => j \in tried

WakeInv ==
    /\ TypeOK
    /\ OpeningsApart
    /\ GapCovered
    /\ SeenReady
    /\ Deadlines
    /\ Timing
    /\ OpenersTried
    /\ NoColdStartForgotten

-----------------------------------------------------------------------------
LEMMA Times ==
    /\ Cooldown \in Nat /\ LeaseTTL \in Nat /\ Window \in Nat /\ Grace \in Nat /\ MaxWait \in Nat
    /\ 0 < Cooldown /\ Cooldown <= LeaseTTL
  BY TimesAssumption

LEMMA Bounds ==
    ASSUME TypeOK
    PROVE  /\ lease \in Int /\ cooling \in Int /\ gap \in Int /\ 0 <= lease /\ 0 <= cooling /\ 0 <= gap
           /\ lease <= LeaseTTL /\ cooling <= Cooldown
           /\ \A j \in Job : left[j] \in Int /\ 0 <= left[j]
<1>1. lease \in 0..LeaseTTL /\ cooling \in 0..Cooldown /\ gap \in 0..Cooldown
  BY DEF TypeOK
<1>2. \A j \in Job : left[j] \in Nat
  BY DEF TypeOK
<1> QED
  BY <1>1, <1>2, Times

LEMMA LeaseShrinks ==
    ASSUME TypeOK, lease' \in {lease, 0}
    PROVE  lease' \in 0..LeaseTTL /\ lease' \in Int /\ lease' <= lease
  BY Bounds, Times

LEMMA Shorter == \A a, b \in Int, c \in Nat : a <= b /\ b <= c => a <= c
  OBVIOUS

LEMMA NatInt == Nat \subseteq Int
  OBVIOUS

LEMMA AtMostItself == \A n \in Nat : n <= n
  OBVIOUS

LEMMA InitWake == Init => WakeInv
<1> SUFFICES ASSUME Init PROVE WakeInv
  OBVIOUS
<1>1. \A j \in Job : pc[j] = "new" /\ attempted[j] = "no"
  BY DEF Init
<1>2. TypeOK
  <2>1. lease \in 0..LeaseTTL /\ cooling \in 0..Cooldown /\ gap \in 0..Cooldown /\ fresh \in 0..Window
    BY Times DEF Init
  <2>2. pc \in [Job -> PC] /\ attempted \in [Job -> {"no", "stalled", "unclaimed"}]
    BY DEF Init, PC
  <2>3. nap \in [Job -> Nat] /\ left \in [Job -> Nat]
    BY DEF Init
  <2> QED
    BY <2>1, <2>2, <2>3 DEF Init, TypeOK
<1>3. ~SomeoneOpens
  BY <1>1 DEF SomeoneOpens, Opening
<1>4. OpeningsApart /\ GapCovered /\ OpenersTried
  BY <1>1, <1>3 DEF Init, OpeningsApart, GapCovered, OpenersTried, SomeoneOpens
<1>5. SeenReady
  BY <1>1 DEF Init, SeenReady, Active, Unclaimed
<1>6. Deadlines /\ Timing /\ NoColdStartForgotten
  BY <1>1 DEF Deadlines, Timing, NoColdStartForgotten, Recovering, Stalled, Again
<1> QED
  BY <1>2, <1>4, <1>5, <1>6 DEF WakeInv

\* The thread of j moves on to a place where it opens nothing, and the times of
\* the host do not grow.
LEMMA QuietStep ==
    ASSUME WakeInv, NEW j \in Job, NEW there \in PC \ (Opening \cup {"new"}),
           pc' = [pc EXCEPT ![j] = there], pc[j] # "new", pc[j] \notin Opening,
           UNCHANGED <<cooling, fresh, releasing, ready, waiting, gap, seen, tried>>,
           lease' \in {lease, 0},
           attempted' \in [Job -> {"no", "stalled", "unclaimed"}],
           nap' \in [Job -> Nat], left' \in [Job -> Nat],
           \A k \in Job : k # j => left'[k] = left[k],
           there \in Unclaimed \cup {"bound", "drop again"} => j \in seen,
           there \in Again \cup {"mark stalled"} => left'[j] = 0,
           there \in Stalled \cup Again =>
              \/ pc[j] \in Stalled \cup Again /\ left'[j] = left[j]
              \/ left'[j] = LeaseTTL,
           there = "done" /\ j \in waiting => j \in seen \/ j \in tried
    PROVE  WakeInv'
<1> USE DEF WakeInv
<1>1. \A k \in Job : pc'[k] = IF k = j THEN there ELSE pc[k]
  BY DEF TypeOK
<1>2. TypeOK'
  <2>1. pc' \in [Job -> PC]
    BY DEF TypeOK
  <2>2. lease' \in 0..LeaseTTL
    BY LeaseShrinks
  <2> QED
    BY <2>1, <2>2 DEF TypeOK
<1>3. SomeoneOpens' <=> SomeoneOpens
  BY <1>1 DEF SomeoneOpens
<1>4. OpeningsApart' /\ GapCovered' /\ OpenersTried'
  BY <1>1, <1>3 DEF OpeningsApart, GapCovered, OpenersTried
<1>5. SeenReady'
  BY <1>1 DEF SeenReady, Active
<1>6. Deadlines'
  BY <1>1 DEF Deadlines
<1>7. lease \in Int /\ cooling \in Int /\ lease' \in Int /\ lease' <= lease
  BY Bounds, LeaseShrinks
<1>8. Timing'
  <2> SUFFICES ASSUME NEW k \in Job, pc'[k] \in Stalled \cup Again, k \notin tried, k \notin seen
               PROVE  /\ lease' <= left'[k]
                      /\ cooling <= left'[k]
                      /\ SomeoneOpens => LeaseTTL <= left'[k]
    BY <1>3 DEF Timing, Recovering
  <2>1. left[k] \in Nat /\ left'[k] \in Nat
    BY DEF TypeOK
  <2>2. CASE k = j /\ left'[j] = LeaseTTL
    <3>1. lease <= LeaseTTL /\ cooling <= Cooldown
      BY Bounds
    <3>2. left'[k] = LeaseTTL
      BY <2>2, Zenon
    <3>3. cooling <= LeaseTTL /\ lease' <= LeaseTTL
      BY <1>7, <3>1, Shorter, Times, NatInt, Zenon
    <3>4. LeaseTTL <= LeaseTTL
      BY Times, AtMostItself, Zenon
    <3> QED
      BY <3>2, <3>3, <3>4, Zenon
  <2>3. CASE Recovering(k) /\ left'[k] = left[k]
    <3>1. lease <= left[k] /\ cooling <= left[k] /\ (SomeoneOpens => LeaseTTL <= left[k])
      BY <2>3 DEF Timing
    <3>2. lease' <= left[k]
      BY <1>7, <2>1, <3>1, Shorter, Zenon
    <3> QED
      BY <2>3, <3>1, <3>2, Zenon
  <2>4. (k = j /\ left'[j] = LeaseTTL) \/ (Recovering(k) /\ left'[k] = left[k])
    BY <1>1 DEF Recovering
  <2> QED
    BY <2>2, <2>3, <2>4
<1>9. NoColdStartForgotten'
  BY <1>1 DEF NoColdStartForgotten
<1> QED
  BY <1>2, <1>4, <1>5, <1>6, <1>8, <1>9

\* The thread of j reserves the wake.
LEMMA ReserveStep ==
    ASSUME WakeInv, NEW j \in Job, NEW there \in Opening, pc[j] # "new", pc[j] \notin Opening,
           there \in Unclaimed => j \in seen,
           there \in Again => left[j] = 0,
           Reserve, pc' = [pc EXCEPT ![j] = there],
           UNCHANGED <<lease, fresh, releasing, ready, waiting, attempted, nap, left, gap, seen>>
    PROVE  WakeInv'
<1> USE DEF WakeInv
<1>1. cooling = 0 /\ cooling' = Cooldown /\ tried' = {k \in Job : pc[k] # "new"}
  BY DEF Reserve, ReserveSlot
<1>2. \A k \in Job : pc'[k] = IF k = j THEN there ELSE pc[k]
  BY DEF TypeOK
<1>3. ~SomeoneOpens /\ gap = 0
  BY <1>1, Times DEF GapCovered, TypeOK
<1>4. there \in PC
  BY DEF Opening, PC, First, Again, Unclaimed
<1>5. TypeOK'
  BY <1>1, <1>4, Times DEF TypeOK
<1>6. OpeningsApart'
  BY <1>2, <1>3 DEF OpeningsApart, SomeoneOpens
<1>7. GapCovered'
  BY <1>1, <1>2 DEF GapCovered, SomeoneOpens
<1>8. \A k \in Job : pc'[k] # "new" => k \in tried'
  BY <1>1, <1>2 DEF Active
<1>9. there # "new" /\ there # "done" /\ there # "bound" /\ there # "drop again" /\ there # "mark stalled"
  BY DEF Opening
<1>10. SeenReady'
  BY <1>2, <1>9 DEF SeenReady, Active
<1>11. Deadlines'
  BY <1>2, <1>9 DEF Deadlines
<1>12. Timing'
  BY <1>8 DEF Timing, Recovering, Stalled, Again
<1>13. OpenersTried'
  BY <1>8 DEF OpenersTried, Opening
<1>14. NoColdStartForgotten'
  BY <1>8 DEF NoColdStartForgotten
<1> QED
  BY <1>5, <1>6, <1>7, <1>10, <1>11, <1>12, <1>13, <1>14

\* The opener of the thread of j ends, and the thread moves on.
LEMMA OpenerStep ==
    ASSUME WakeInv, NEW j \in Job, NEW there \in {"stalled", "unclaimed", "done"},
           pc[j] \in Opening, pc' = [pc EXCEPT ![j] = there],
           there = "unclaimed" => j \in seen,
           NEW opened \in BOOLEAN, Opener(opened), lease' \in {lease, LeaseTTL},
           nap' \in [Job -> Nat], left' \in [Job -> Nat],
           \A k \in Job : k # j => left'[k] = left[k],
           UNCHANGED <<fresh, releasing, ready, waiting, attempted, seen, tried>>
    PROVE  WakeInv'
<1> USE DEF WakeInv
<1>1. \A k \in Job : pc'[k] = IF k = j THEN there ELSE pc[k]
  BY DEF TypeOK
<1>2. \A k \in Job : pc'[k] \notin Opening
  BY <1>1 DEF OpeningsApart, Opening
<1>3. gap = 0 /\ cooling = Cooldown /\ j \in tried /\ SomeoneOpens
  BY DEF OpeningsApart, GapCovered, OpenersTried, SomeoneOpens
<1>4. cooling' \in {cooling, 0} /\ gap' \in 0..Cooldown /\ gap' <= cooling'
  BY <1>3, Times DEF Opener
<1>5. there \in PC
  BY DEF PC, Stalled, Unclaimed
<1>6. TypeOK'
  <2>1. pc' \in [Job -> PC]
    BY <1>5 DEF TypeOK
  <2>2. lease' \in 0..LeaseTTL /\ cooling' \in 0..Cooldown
    BY <1>3, <1>4, Times DEF TypeOK
  <2> QED
    BY <1>4, <2>1, <2>2 DEF TypeOK
<1>7. OpeningsApart' /\ GapCovered' /\ OpenersTried'
  BY <1>2, <1>4 DEF OpeningsApart, GapCovered, OpenersTried, SomeoneOpens
<1>8. SeenReady'
  BY <1>1 DEF SeenReady, Active, Unclaimed, Opening
<1>9. Deadlines'
  BY <1>1 DEF Deadlines, Again
<1>10. Timing'
  <2> SUFFICES ASSUME NEW k \in Job, Recovering(k)', k \notin tried, k \notin seen
               PROVE  lease' <= left'[k] /\ cooling' <= left'[k]
    BY <1>2 DEF Timing, SomeoneOpens
  <2>1. k # j
    BY <1>3
  <2>2. /\ left'[k] = left[k] /\ LeaseTTL <= left[k]
        /\ lease <= left[k] /\ cooling <= left[k]
    BY <1>1, <1>3, <2>1 DEF Timing, Recovering
  <2> QED
    BY <1>4, <2>2, Times DEF TypeOK
<1>11. NoColdStartForgotten'
  BY <1>1, <1>3 DEF NoColdStartForgotten
<1> QED
  BY <1>6, <1>7, <1>8, <1>9, <1>10, <1>11

-----------------------------------------------------------------------------
\* request_browser_wake returns, and its caller acts on what it returned.
LEMMA ReturnsTo ==
    ASSUME WakeInv, NEW j \in Job, NEW opened \in BOOLEAN, Returns(j, opened)
    PROVE  \E there \in {"stalled", "unclaimed", "done"} :
              /\ pc' = [pc EXCEPT ![j] = there]
              /\ nap' \in [Job -> Nat] /\ left' \in [Job -> Nat]
              /\ \A k \in Job : k # j => left'[k] = left[k]
              /\ there = "unclaimed" => j \in seen
              /\ there = "stalled" => left'[j] = LeaseTTL
              /\ there = "done" => pc[j] \in Again \/ (opened /\ j \in ready)
<1> USE DEF WakeInv
<1>1. nap \in [Job -> Nat] /\ left \in [Job -> Nat] /\ Grace \in Nat /\ MaxWait \in Nat /\ LeaseTTL \in Nat
  BY Times DEF TypeOK
<1>2. CASE ScheduleStalled(j)
  BY <1>1, <1>2 DEF ScheduleStalled, Goes, RecoveryWait
<1>3. CASE j \in ready /\ ScheduleUnclaimed(j)
  <2>1. j \in seen
    BY <1>3 DEF SeenReady
  <2> QED
    BY <1>1, <1>3, <2>1 DEF ScheduleUnclaimed, Goes
<1>4. CASE (pc[j] \in Again \/ (opened /\ j \in ready)) /\ Ends(j)
  BY <1>1, <1>4 DEF Ends, Goes
<1> QED
  BY <1>2, <1>3, <1>4 DEF Returns

\* A tab that is ready has been seen by the thread that finds it so.
LEMMA ReadySeen ==
    ASSUME WakeInv, NEW j \in Job, pc[j] # "new", RecentlyReady
    PROVE  j \in seen
  BY DEF WakeInv, SeenReady, RecentlyReady, Active

LEMMA ReuseBoundStep == ASSUME WakeInv, NEW j \in Job, ReuseBound(j) PROVE WakeInv'
<1> DEFINE there == "stalled"
<1>1. there \in PC \ (Opening \cup {"new"}) /\ there \notin Unclaimed \cup {"bound", "drop again"}
      /\ there \notin Again \cup {"mark stalled"} /\ pc[j] \notin Opening
  BY DEF PC, Opening, Stalled, Unclaimed, Again, ReuseBound
<1>2. left' \in [Job -> Nat] /\ left'[j] = LeaseTTL /\ \A k \in Job : k # j => left'[k] = left[k]
  BY Times DEF ReuseBound, ScheduleStalled, RecoveryWait, WakeInv, TypeOK
<1>3. nap' \in [Job -> Nat] /\ attempted' \in [Job -> {"no", "stalled", "unclaimed"}]
  BY DEF ReuseBound, ScheduleStalled, WakeInv, TypeOK
<1>4. pc[j] # "new" /\ pc' = [pc EXCEPT ![j] = there]
      /\ UNCHANGED <<cooling, fresh, releasing, ready, waiting, gap, seen, tried>> /\ lease' \in {lease, 0}
  BY DEF ReuseBound, ScheduleStalled, Goes, history
<1> QED
  BY <1>1, <1>2, <1>3, <1>4, QuietStep

LEMMA AskStep == ASSUME WakeInv, NEW j \in Job, Ask(j) PROVE WakeInv'
<1>1. PICK there \in {"drop", "lock", "drop again", "lock again"} :
         /\ pc' = [pc EXCEPT ![j] = there]
         /\ there = "drop again" => RecentlyReady
         /\ there \in {"drop again", "lock again"} => pc[j] = "ask again"
  BY DEF Ask, Goes
<1>2. there \in PC \ (Opening \cup {"new"}) /\ there \notin Unclaimed \cup {"bound", "mark stalled", "done"} \cup Stalled
      /\ pc[j] \notin Opening /\ pc[j] # "new" /\ (there \in Again => there \in {"drop again", "lock again"})
  BY DEF PC, Opening, Stalled, Unclaimed, First, Again, Ask
<1>3. left' \in [Job -> Nat] /\ (\A k \in Job : left'[k] = left[k]) /\ nap' \in [Job -> Nat]
      /\ attempted' \in [Job -> {"no", "stalled", "unclaimed"}]
  BY DEF Ask, jobVars, WakeInv, TypeOK
<1>4. UNCHANGED <<cooling, fresh, releasing, ready, waiting, gap, seen, tried>> /\ lease' \in {lease, 0}
  BY DEF Ask, jobVars, hostVars, history
<1>5. there = "drop again" => j \in seen
  BY <1>1, <1>2, ReadySeen
<1>6. there \in Again => pc[j] \in Again /\ left'[j] = 0
  BY <1>1, <1>2, <1>3 DEF Again, WakeInv, Deadlines
<1> QED
  BY <1>1, <1>2, <1>3, <1>4, <1>5, <1>6, QuietStep

LEMMA DropStep == ASSUME WakeInv, NEW j \in Job, Drop(j) PROVE WakeInv'
<1>1. PICK there \in {"stalled", "unclaimed", "done"} :
         /\ pc' = [pc EXCEPT ![j] = there]
         /\ nap' \in [Job -> Nat] /\ left' \in [Job -> Nat]
         /\ \A k \in Job : k # j => left'[k] = left[k]
         /\ there = "unclaimed" => j \in seen
         /\ there = "stalled" => left'[j] = LeaseTTL
         /\ there = "done" => pc[j] \in Again
  BY ReturnsTo DEF Drop
<1>2. there \in PC \ (Opening \cup {"new"}) /\ there \notin Again \cup {"bound", "mark stalled", "drop again"}
      /\ (there \in Unclaimed => there = "unclaimed") /\ (there \in Stalled => there = "stalled")
      /\ pc[j] \notin Opening /\ pc[j] # "new"
  BY DEF PC, Opening, Stalled, Unclaimed, First, Again, Drop
<1>3. UNCHANGED <<cooling, fresh, releasing, ready, waiting, gap, seen, tried>> /\ lease' \in {lease, 0}
      /\ attempted' \in [Job -> {"no", "stalled", "unclaimed"}]
  BY DEF Drop, history, WakeInv, TypeOK
<1>4. there = "done" => j \in seen
  BY <1>1 DEF Drop, Again, WakeInv, SeenReady
<1> QED
  BY <1>1, <1>2, <1>3, <1>4, QuietStep

LEMMA CoalesceStep == ASSUME WakeInv, NEW j \in Job, Coalesce(j) PROVE WakeInv'
<1>1. PICK there \in {"stalled", "unclaimed", "done"} :
         /\ pc' = [pc EXCEPT ![j] = there]
         /\ nap' \in [Job -> Nat] /\ left' \in [Job -> Nat]
         /\ \A k \in Job : k # j => left'[k] = left[k]
         /\ there = "unclaimed" => j \in seen
         /\ there = "stalled" => left'[j] = LeaseTTL
         /\ there = "done" => pc[j] \in Again
  BY ReturnsTo DEF Coalesce
<1>2. there \in PC \ (Opening \cup {"new"}) /\ there \notin Again \cup {"bound", "mark stalled", "drop again"}
      /\ (there \in Unclaimed => there = "unclaimed") /\ (there \in Stalled => there = "stalled")
      /\ pc[j] \notin Opening /\ pc[j] # "new"
  BY DEF PC, Opening, Stalled, Unclaimed, First, Again, Coalesce
<1>3. UNCHANGED <<cooling, fresh, releasing, ready, waiting, gap, seen, tried>> /\ lease' \in {lease, 0}
      /\ attempted' \in [Job -> {"no", "stalled", "unclaimed"}]
  BY DEF Coalesce, hostVars, history, WakeInv, TypeOK
<1>4. there = "done" => j \in seen \/ j \in tried
  \* Otherwise the lease and the cooldown would be over.
  <2> SUFFICES ASSUME pc[j] \in Again, j \notin seen, j \notin tried PROVE FALSE
    BY <1>1
  <2>1. left[j] = 0
    BY DEF WakeInv, Deadlines
  <2>2. lease <= 0 /\ cooling <= 0
    BY <2>1 DEF WakeInv, Timing, Recovering
  <2>3. lease \in Int /\ cooling \in Int
    BY Bounds DEF WakeInv
  <2>4. lease > 0 \/ cooling > 0
    BY Zenon DEF Coalesce
  <2> QED
    BY ONLY <2>2, <2>3, <2>4
<1> QED
  BY <1>1, <1>2, <1>3, <1>4, QuietStep

LEMMA ReserveWakeStep == ASSUME WakeInv, NEW j \in Job, ReserveWake(j) PROVE WakeInv'
<1> DEFINE there == IF pc[j] = "lock" THEN "open" ELSE "open again"
<1>1. there \in Opening /\ there \notin Unclaimed /\ pc[j] # "new" /\ pc[j] \notin Opening
  BY DEF Opening, Unclaimed, ReserveWake
<1>2. there \in Again => left[j] = 0
  BY DEF Again, ReserveWake, WakeInv, Deadlines
<1>3. Reserve /\ pc' = [pc EXCEPT ![j] = there]
      /\ UNCHANGED <<lease, fresh, releasing, ready, waiting, attempted, nap, left, gap, seen>>
  BY DEF ReserveWake, Goes, jobVars
<1> QED
  BY <1>1, <1>2, <1>3, ReserveStep

LEMMA OpenStep == ASSUME WakeInv, NEW j \in Job, Open(j) PROVE WakeInv'
<1>1. PICK opened \in BOOLEAN : Opener(opened) /\ lease' \in {lease, LeaseTTL} /\ Returns(j, opened)
  BY DEF Open
<1>2. PICK there \in {"stalled", "unclaimed", "done"} :
         /\ pc' = [pc EXCEPT ![j] = there]
         /\ nap' \in [Job -> Nat] /\ left' \in [Job -> Nat]
         /\ \A k \in Job : k # j => left'[k] = left[k]
         /\ there = "unclaimed" => j \in seen
  BY <1>1, ReturnsTo
<1>3. pc[j] \in Opening /\ UNCHANGED <<fresh, releasing, ready, waiting, attempted, seen, tried>>
  BY DEF Open, Opening
<1> QED
  BY <1>1, <1>2, <1>3, OpenerStep

-----------------------------------------------------------------------------
(* The recovery threads.                                                   *)

LEMMA CheckStalledStep == ASSUME WakeInv, NEW j \in Job, CheckStalled(j) PROVE WakeInv'
<1>1. pc[j] = "stalled" /\ pc[j] # "new" /\ pc[j] \notin Opening /\ pc[j] \in Stalled
  BY DEF CheckStalled, Opening, Stalled
<1>2. PICK there \in {"done", "stalled", "mark stalled"} :
         /\ pc' = [pc EXCEPT ![j] = there]
         /\ there = "done" => j \notin waiting \/ RecentlyReady
         /\ there = "mark stalled" => left[j] = 0
  <2>1. pc = [pc EXCEPT ![j] = "stalled"]
    BY <1>1 DEF WakeInv, TypeOK
  <2> QED
    BY <2>1 DEF CheckStalled, Ends, Goes
<1>3. left' = left /\ left' \in [Job -> Nat]
  BY DEF CheckStalled, Ends, WakeInv, TypeOK
<1>4. nap' \in [Job -> Nat]
  <2>1. nap \in [Job -> Nat] /\ left[j] \in Nat /\ Grace \in Nat
    BY Times DEF WakeInv, TypeOK
  <2>2. (IF Grace < left[j] THEN Grace ELSE left[j]) \in Nat
    BY <2>1
  <2>3. nap' = nap \/ nap' = [nap EXCEPT ![j] = IF Grace < left[j] THEN Grace ELSE left[j]]
    BY DEF CheckStalled, Ends
  <2> QED
    BY <2>1, <2>2, <2>3
<1>5. there \in PC \ (Opening \cup {"new"}) /\ there \notin Unclaimed \cup Again \cup {"bound", "drop again"}
  BY <1>2 DEF PC, Opening, Stalled, Unclaimed, Again
<1>6. UNCHANGED <<cooling, fresh, releasing, ready, waiting, gap, seen, tried>> /\ lease' \in {lease, 0}
      /\ attempted' \in [Job -> {"no", "stalled", "unclaimed"}]
  BY DEF CheckStalled, hostVars, history, WakeInv, TypeOK
<1>7. there = "done" /\ j \in waiting => j \in seen
  BY <1>1, <1>2, ReadySeen
<1> QED
  BY <1>1, <1>2, <1>3, <1>4, <1>5, <1>6, <1>7, QuietStep

LEMMA MarkStalledStep == ASSUME WakeInv, NEW j \in Job, MarkStalled(j) PROVE WakeInv'
<1>1. pc[j] = "mark stalled" /\ pc[j] # "new" /\ pc[j] \notin Opening /\ pc[j] \in Stalled
  BY DEF MarkStalled, Opening, Stalled
<1>2. PICK there \in {"done", "ask again"} :
         /\ pc' = [pc EXCEPT ![j] = there]
         /\ there = "done" => j \notin waiting
  BY DEF MarkStalled, Goes
<1>3. left' = left /\ left' \in [Job -> Nat] /\ nap' \in [Job -> Nat] /\ left[j] = 0
  BY <1>1 DEF MarkStalled, WakeInv, TypeOK, Deadlines
<1>4. there \in PC \ (Opening \cup {"new"})
      /\ there \notin Unclaimed \cup {"bound", "drop again", "mark stalled"}
  BY <1>2 DEF PC, Opening, Stalled, Unclaimed, Again
<1>5. UNCHANGED <<cooling, fresh, releasing, ready, waiting, gap, seen, tried>> /\ lease' \in {lease, 0}
  BY DEF MarkStalled, hostVars, history
<1>6. attempted' \in [Job -> {"no", "stalled", "unclaimed"}]
  BY DEF MarkStalled, WakeInv, TypeOK
<1> QED
  BY <1>1, <1>2, <1>3, <1>4, <1>5, <1>6, QuietStep

LEMMA CheckUnclaimedStep == ASSUME WakeInv, NEW j \in Job, CheckUnclaimed(j) PROVE WakeInv'
<1>1. pc[j] = "unclaimed" /\ pc[j] # "new" /\ pc[j] \notin Opening /\ j \in seen
  BY DEF CheckUnclaimed, Opening, Unclaimed, WakeInv, SeenReady
<1>2. PICK there \in {"done", "unclaimed", "mark unclaimed"} : pc' = [pc EXCEPT ![j] = there]
  <2>1. pc = [pc EXCEPT ![j] = "unclaimed"]
    BY <1>1 DEF WakeInv, TypeOK
  <2> QED
    BY <2>1 DEF CheckUnclaimed, Ends, Goes
<1>3. left' = left /\ left' \in [Job -> Nat] /\ nap' \in [Job -> Nat]
  BY Times DEF CheckUnclaimed, Ends, WakeInv, TypeOK
<1>4. there \in PC \ (Opening \cup {"new"}) /\ there \notin Stalled \cup Again
  BY <1>2 DEF PC, Opening, Stalled, Unclaimed, Again
<1>5. UNCHANGED <<cooling, fresh, releasing, ready, waiting, gap, seen, tried>> /\ lease' \in {lease, 0}
      /\ attempted' \in [Job -> {"no", "stalled", "unclaimed"}]
  BY DEF CheckUnclaimed, hostVars, history, WakeInv, TypeOK
<1>6. there \notin Again \cup {"mark stalled"}
  BY <1>4 DEF Stalled
<1> QED
  BY <1>1, <1>2, <1>3, <1>4, <1>5, <1>6, QuietStep

LEMMA MarkUnclaimedStep == ASSUME WakeInv, NEW j \in Job, MarkUnclaimed(j) PROVE WakeInv'
<1>1. pc[j] # "new" /\ pc[j] \notin Opening /\ j \in seen
  BY DEF MarkUnclaimed, Opening, Unclaimed, WakeInv, SeenReady
<1>2. PICK there \in {"done", "forget"} : pc' = [pc EXCEPT ![j] = there]
  BY DEF MarkUnclaimed, Goes
<1>3. left' = left /\ left' \in [Job -> Nat] /\ nap' \in [Job -> Nat]
  BY DEF MarkUnclaimed, WakeInv, TypeOK
<1>4. there \in PC \ (Opening \cup {"new"}) /\ there \notin Stalled \cup Again \cup {"mark stalled"}
  BY <1>2 DEF PC, Opening, Stalled, Unclaimed, Again
<1>5. UNCHANGED <<cooling, fresh, releasing, ready, waiting, gap, seen, tried>> /\ lease' \in {lease, 0}
  BY DEF MarkUnclaimed, hostVars, history
<1>6. attempted' \in [Job -> {"no", "stalled", "unclaimed"}]
  BY DEF MarkUnclaimed, WakeInv, TypeOK
<1> QED
  BY <1>1, <1>2, <1>3, <1>4, <1>5, <1>6, QuietStep

LEMMA ForgetStep == ASSUME WakeInv, NEW j \in Job, Forget(j) PROVE WakeInv'
<1> DEFINE there == "wake alone"
<1>1. pc[j] # "new" /\ pc[j] \notin Opening /\ j \in seen
  BY DEF Forget, Opening, Unclaimed, WakeInv, SeenReady
<1>2. pc' = [pc EXCEPT ![j] = there]
  BY DEF Forget, Goes
<1>3. left' = left /\ left' \in [Job -> Nat] /\ nap' \in [Job -> Nat]
      /\ attempted' \in [Job -> {"no", "stalled", "unclaimed"}]
  BY DEF Forget, jobVars, WakeInv, TypeOK
<1>4. there \in PC \ (Opening \cup {"new"}) /\ there \notin Stalled \cup Again \cup {"mark stalled", "done"}
  BY DEF PC, Opening, Stalled, Unclaimed, Again
<1>5. UNCHANGED <<cooling, fresh, releasing, ready, waiting, gap, seen, tried>> /\ lease' \in {lease, 0}
  BY DEF Forget, jobVars, history
<1> QED
  BY <1>1, <1>2, <1>3, <1>4, <1>5, QuietStep

LEMMA WakeAloneStep == ASSUME WakeInv, NEW j \in Job, WakeAlone(j) PROVE WakeInv'
<1>1. pc[j] # "new" /\ pc[j] \notin Opening /\ j \in seen
  BY DEF WakeAlone, Opening, Unclaimed, WakeInv, SeenReady
<1>2. CASE Reserve /\ Goes(j, "open alone")
  <2> DEFINE there == "open alone"
  <2>1. there \in Opening /\ there \notin Again
    BY DEF Opening, Again
  <2>2. pc' = [pc EXCEPT ![j] = there]
    BY <1>2 DEF Goes
  <2>3. UNCHANGED <<lease, fresh, releasing, ready, waiting, attempted, nap, left, gap, seen>>
    BY DEF WakeAlone, jobVars
  <2> QED
    BY <1>1, <1>2, <2>1, <2>2, <2>3, ReserveStep
<1>3. CASE cooling > 0 /\ Goes(j, "done") /\ UNCHANGED <<cooling, tried>>
  <2> DEFINE there == "done"
  <2>1. there \in PC \ (Opening \cup {"new"}) /\ there \notin Stalled \cup Again \cup {"mark stalled"}
    BY DEF PC, Opening, Stalled, Again
  <2>2. pc' = [pc EXCEPT ![j] = there]
    BY <1>3 DEF Goes
  <2>3. left' = left /\ left' \in [Job -> Nat] /\ nap' \in [Job -> Nat]
        /\ attempted' \in [Job -> {"no", "stalled", "unclaimed"}]
    BY DEF WakeAlone, jobVars, WakeInv, TypeOK
  <2>4. UNCHANGED <<cooling, fresh, releasing, ready, waiting, gap, seen, tried>> /\ lease' \in {lease, 0}
    BY <1>3 DEF WakeAlone, jobVars
  <2> QED
    BY <1>1, <2>1, <2>2, <2>3, <2>4, QuietStep
<1> QED
  BY <1>2, <1>3 DEF WakeAlone

LEMMA OpenAloneStep == ASSUME WakeInv, NEW j \in Job, OpenAlone(j) PROVE WakeInv'
<1> DEFINE there == "done"
<1>1. PICK opened \in BOOLEAN : Opener(opened)
  BY DEF OpenAlone
<1>2. pc[j] \in Opening /\ pc' = [pc EXCEPT ![j] = there] /\ there \in {"stalled", "unclaimed", "done"}
      /\ there # "unclaimed"
  BY DEF OpenAlone, Opening, Goes
<1>3. UNCHANGED <<lease, fresh, releasing, ready, waiting, attempted, nap, left, seen, tried>>
      /\ nap' \in [Job -> Nat] /\ left' \in [Job -> Nat]
  BY DEF OpenAlone, jobVars, WakeInv, TypeOK
<1> QED
  BY <1>1, <1>2, <1>3, OpenerStep

-----------------------------------------------------------------------------
(* Requests, the browser, and the clock.                                   *)

LEMMA ActivateStep == ASSUME WakeInv, NEW j \in Job, Activate(j) PROVE WakeInv'
<1> USE DEF WakeInv
<1>1. PICK there \in {"bound", "ask"} : pc' = [pc EXCEPT ![j] = there] /\ (there = "bound" => RecentlyReady)
  BY DEF Activate, Goes
<1>2. \A k \in Job : pc'[k] = IF k = j THEN there ELSE pc[k]
  BY <1>1 DEF TypeOK
<1>3. pc[j] = "new" /\ there \in PC /\ there \notin Opening \cup Again \cup Stalled \cup Unclaimed \cup {"new", "done"}
      /\ there # "drop again" /\ there # "mark stalled"
  BY <1>1 DEF Activate, PC, First, Opening, Again, Stalled, Unclaimed
<1>4. IF fresh > 0
      THEN ready' = ready \cup {j} /\ seen' = seen \cup {j}
      ELSE ready' = ready /\ seen' = seen
  BY DEF Activate, RecentlyReady
<1>5. waiting' = waiting \cup {j}
      /\ UNCHANGED <<cooling, lease, fresh, releasing, attempted, nap, left, gap, tried>>
  BY DEF Activate, hostVars
<1>6. TypeOK'
  <2>1. pc' \in [Job -> PC]
    BY <1>1, <1>3 DEF TypeOK
  <2>2. ready' \subseteq Job /\ seen' \subseteq Job /\ waiting' \subseteq Job
    BY <1>4, <1>5 DEF TypeOK
  <2> QED
    BY <1>5, <2>1, <2>2 DEF TypeOK
<1>7. SomeoneOpens' <=> SomeoneOpens
  BY <1>2, <1>3 DEF SomeoneOpens, Opening
<1>8. OpeningsApart' /\ GapCovered' /\ OpenersTried'
  BY <1>2, <1>3, <1>5, <1>7 DEF OpeningsApart, GapCovered, OpenersTried
<1>9. SeenReady'
  <2>1. fresh > 0 => \A k \in Job : Active(k)' => k \in seen'
    BY <1>2, <1>4, <1>5 DEF SeenReady, Active
  <2>2. \A k \in Job : pc'[k] \in Unclaimed \cup {"bound", "drop again"} => k \in seen'
    BY <1>1, <1>2, <1>3, <1>4 DEF SeenReady, RecentlyReady
  <2>3. ready' \subseteq seen'
    BY <1>4 DEF SeenReady
  <2>4. \A k \in Job : k \in seen' => Active(k)'
    BY <1>2, <1>3, <1>4 DEF SeenReady, Active
  <2> QED
    BY <1>5, <2>1, <2>2, <2>3, <2>4 DEF SeenReady
<1>10. Deadlines'
  BY <1>2, <1>3, <1>5 DEF Deadlines
<1>11. seen \subseteq seen'
  BY <1>4
<1>12. Timing'
  BY <1>2, <1>3, <1>5, <1>7, <1>11 DEF Timing, Recovering
<1>13. NoColdStartForgotten'
  BY <1>2, <1>3, <1>5, <1>11 DEF NoColdStartForgotten
<1> QED
  BY <1>6, <1>8, <1>9, <1>10, <1>12, <1>13

LEMMA ReadyHeartbeatStep == ASSUME WakeInv, ReadyHeartbeat PROVE WakeInv'
<1> USE DEF WakeInv
<1>1. fresh' = Window /\ releasing' = TRUE /\ seen' = {j \in Job : pc[j] # "new"}
      /\ UNCHANGED <<cooling, lease, pc, ready, waiting, attempted, nap, left, gap, tried>>
  BY DEF ReadyHeartbeat, jobVars
<1>2. TypeOK'
  BY <1>1, Times DEF TypeOK
<1>3. OpeningsApart' /\ GapCovered' /\ OpenersTried' /\ Deadlines'
  BY <1>1 DEF OpeningsApart, GapCovered, OpenersTried, Deadlines, SomeoneOpens
<1>4. seen \subseteq seen'
  BY <1>1 DEF SeenReady, Active, TypeOK
<1>5. SeenReady'
  BY <1>1, <1>4 DEF SeenReady, Active
<1>6. Timing'
  BY <1>1, <1>4 DEF Timing, Recovering, SomeoneOpens
<1>7. NoColdStartForgotten'
  BY <1>1, <1>4 DEF NoColdStartForgotten
<1> QED
  BY <1>2, <1>3, <1>5, <1>6, <1>7

\* The pending wake is released, the tab is lost, or the job leaves.
LEMMA LessAsked ==
    ASSUME WakeInv, UNCHANGED <<cooling, pc, ready, attempted, nap, left, gap, seen, tried>>,
           releasing' \in BOOLEAN, lease' \in {lease, 0}, fresh' \in {fresh, 0}, waiting' \subseteq waiting
    PROVE  WakeInv'
<1> USE DEF WakeInv
<1>1. lease' \in 0..LeaseTTL /\ lease' \in Int /\ lease \in Int /\ lease' <= lease
  BY Bounds, LeaseShrinks
<1>2. fresh' \in 0..Window /\ (fresh' > 0 => fresh > 0)
  BY Times DEF TypeOK
<1>3. TypeOK'
  BY <1>1, <1>2 DEF TypeOK
<1>4. OpeningsApart' /\ GapCovered' /\ OpenersTried' /\ Deadlines' /\ NoColdStartForgotten'
  BY DEF OpeningsApart, GapCovered, OpenersTried, Deadlines, NoColdStartForgotten, SomeoneOpens
<1>5. SeenReady'
  BY <1>2 DEF SeenReady, Active
<1>6. Timing'
  <2> SUFFICES ASSUME NEW j \in Job, Recovering(j), j \notin tried, j \notin seen
               PROVE  lease' <= left[j] /\ cooling <= left[j] /\ (SomeoneOpens => LeaseTTL <= left[j])
    BY DEF Timing, Recovering, SomeoneOpens
  <2>1. lease <= left[j] /\ cooling <= left[j] /\ (SomeoneOpens => LeaseTTL <= left[j])
    BY DEF Timing
  <2>2. left[j] \in Nat
    BY DEF TypeOK
  <2>3. lease' <= left[j]
    BY <1>1, <2>1, <2>2, Shorter, Zenon
  <2> QED
    BY <2>1, <2>3
<1> QED
  BY <1>3, <1>4, <1>5, <1>6

LEMMA LessFacts ==
    ASSUME NEW n \in Nat
    PROVE  Less(n) \in Nat /\ Less(n) <= n /\ (Less(n) > 0 => n > 0) /\ (n = 0 => Less(n) = 0)
           /\ \A m \in Nat : m <= n => Less(m) <= Less(n)
  BY DEF Less

LEMMA TickStep == ASSUME WakeInv, Tick PROVE WakeInv'
<1> USE DEF WakeInv
<1>1. ~SomeoneOpens
  BY DEF Tick, SomeoneOpens
<1>2. cooling' = Less(cooling) /\ lease' = Less(lease) /\ fresh' = Less(fresh) /\ gap' = Less(gap)
      /\ UNCHANGED <<releasing, pc, ready, waiting, attempted, seen, tried>>
  BY DEF Tick
<1>3. nap' = [j \in Job |-> Less(nap[j])] /\ left' = [j \in Job |-> Less(left[j])]
  BY DEF Tick
<1>4. cooling \in Nat /\ lease \in Nat /\ fresh \in Nat /\ gap \in Nat
      /\ \A j \in Job : nap[j] \in Nat /\ left[j] \in Nat
  BY Times DEF TypeOK
<1>5. TypeOK'
  <2>1. cooling' \in 0..Cooldown /\ lease' \in 0..LeaseTTL /\ fresh' \in 0..Window /\ gap' \in 0..Cooldown
    BY <1>2, Times DEF TypeOK, Less
  <2>2. nap' \in [Job -> Nat] /\ left' \in [Job -> Nat]
    BY <1>3, <1>4, LessFacts
  <2> QED
    BY <1>2, <2>1, <2>2 DEF TypeOK
<1>6. ~SomeoneOpens'
  BY <1>1, <1>2 DEF SomeoneOpens
<1>7. GapCovered'
  BY <1>1, <1>2, <1>4, <1>6, LessFacts DEF GapCovered
<1>8. OpeningsApart' /\ OpenersTried' /\ NoColdStartForgotten'
  BY <1>1, <1>2 DEF OpeningsApart, OpenersTried, NoColdStartForgotten, SomeoneOpens
<1>9. fresh' > 0 => fresh > 0
  BY <1>2, <1>4, LessFacts
<1>10. SeenReady'
  BY <1>2, <1>9 DEF SeenReady, Active
<1>11. Deadlines'
  BY <1>2, <1>3, <1>4, LessFacts DEF Deadlines
<1>12. Timing'
  <2> SUFFICES ASSUME NEW j \in Job, Recovering(j), j \notin tried, j \notin seen
               PROVE  Less(lease) <= Less(left[j]) /\ Less(cooling) <= Less(left[j])
    BY <1>2, <1>3, <1>6 DEF Timing, Recovering
  <2>1. lease <= left[j] /\ cooling <= left[j]
    BY DEF Timing
  <2> QED
    BY <1>4, <2>1, LessFacts
<1> QED
  BY <1>5, <1>7, <1>8, <1>10, <1>11, <1>12

LEMMA UnchangedStep == ASSUME WakeInv, UNCHANGED vars PROVE WakeInv'
<1> USE DEF vars, hostVars, jobVars, history
<1>1. TypeOK'
  BY DEF WakeInv, TypeOK
<1>2. UNCHANGED <<cooling, pc, ready, attempted, nap, left, gap, seen, tried>>
      /\ releasing' \in BOOLEAN /\ lease' \in {lease, 0} /\ fresh' \in {fresh, 0} /\ waiting' \subseteq waiting
  BY DEF WakeInv, TypeOK
<1> QED
  BY <1>2, LessAsked

-----------------------------------------------------------------------------
LEMMA ThreadStep == ASSUME WakeInv, NEW j \in Job, Thread(j) PROVE WakeInv'
<1>1. CASE ReuseBound(j)
  BY <1>1, ReuseBoundStep
<1>2. CASE Ask(j)
  BY <1>2, AskStep
<1>3. CASE Drop(j)
  BY <1>3, DropStep
<1>4. CASE Coalesce(j)
  BY <1>4, CoalesceStep
<1>5. CASE ReserveWake(j)
  BY <1>5, ReserveWakeStep
<1>6. CASE Open(j)
  BY <1>6, OpenStep
<1>7. CASE CheckStalled(j)
  BY <1>7, CheckStalledStep
<1>8. CASE MarkStalled(j)
  BY <1>8, MarkStalledStep
<1>9. CASE CheckUnclaimed(j)
  BY <1>9, CheckUnclaimedStep
<1>10. CASE MarkUnclaimed(j)
  BY <1>10, MarkUnclaimedStep
<1>11. CASE Forget(j)
  BY <1>11, ForgetStep
<1>12. CASE WakeAlone(j)
  BY <1>12, WakeAloneStep
<1>13. CASE OpenAlone(j)
  BY <1>13, OpenAloneStep
<1> QED
  BY <1>1, <1>2, <1>3, <1>4, <1>5, <1>6, <1>7, <1>8, <1>9, <1>10, <1>11, <1>12, <1>13 DEF Thread

LEMMA WakeStep == WakeInv /\ [Next]_vars => WakeInv'
<1> SUFFICES ASSUME WakeInv, [Next]_vars PROVE WakeInv'
  OBVIOUS
<1>1. CASE \E j \in Job : Activate(j)
  BY <1>1, ActivateStep
<1>2. CASE \E j \in Job : Thread(j)
  BY <1>2, ThreadStep
<1>3. ASSUME NEW j \in Job, Leaves(j) PROVE WakeInv'
  <2>1. UNCHANGED <<cooling, pc, ready, attempted, nap, left, gap, seen, tried>>
        /\ releasing' \in BOOLEAN /\ lease' \in {lease, 0} /\ fresh' \in {fresh, 0} /\ waiting' \subseteq waiting
    BY <1>3 DEF Leaves, hostVars, history, WakeInv, TypeOK
  <2> QED
    BY <2>1, LessAsked
<1>4. CASE ReadyHeartbeat
  BY <1>4, ReadyHeartbeatStep
<1>5. CASE ReleasePending
  <2>1. UNCHANGED <<cooling, pc, ready, attempted, nap, left, gap, seen, tried>>
        /\ releasing' \in BOOLEAN /\ lease' \in {lease, 0} /\ fresh' \in {fresh, 0} /\ waiting' \subseteq waiting
    BY <1>5 DEF ReleasePending, jobVars, history, WakeInv, TypeOK
  <2> QED
    BY <2>1, LessAsked
<1>6. CASE TabLost
  <2>1. UNCHANGED <<cooling, pc, ready, attempted, nap, left, gap, seen, tried>>
        /\ releasing' \in BOOLEAN /\ lease' \in {lease, 0} /\ fresh' \in {fresh, 0} /\ waiting' \subseteq waiting
    BY <1>6 DEF TabLost, jobVars, history, WakeInv, TypeOK
  <2> QED
    BY <2>1, LessAsked
<1>7. CASE Tick
  BY <1>7, TickStep
<1>8. CASE UNCHANGED vars
  BY <1>8, UnchangedStep
<1> QED
  BY <1>1, <1>2, <1>3, <1>4, <1>5, <1>6, <1>7, <1>8 DEF Next

\* The invariant that the theorems below rest on.
THEOREM WakeInvariant == Spec => []WakeInv
<1>1. WakeInv /\ [Next]_vars => WakeInv'
  BY WakeStep
<1> QED
  BY InitWake, <1>1, PTL DEF Spec

\* Every time that is left stays within its constant, and nothing goes below
\* zero, however the threads, the heartbeats and the clock interleave.
THEOREM TypeCorrect == Spec => []TypeOK
<1>1. WakeInv => TypeOK
  BY DEF WakeInv
<1> QED
  BY WakeInvariant, <1>1, PTL

\* At most one thread is in the opener, and it started it a cooldown after the
\* browser was last opened.
THEOREM OneOpener == Spec => []OpeningsApart
<1>1. WakeInv => OpeningsApart
  BY DEF WakeInv
<1> QED
  BY WakeInvariant, <1>1, PTL

\* A recovery never gives up on a waiting job that saw no ready tab before the
\* browser was tried for it: for this the recovery waits for the lease as well
\* as for the cooldown.
THEOREM ColdStartsRecovered == Spec => []NoColdStartForgotten
<1>1. WakeInv => NoColdStartForgotten
  BY DEF WakeInv
<1> QED
  BY WakeInvariant, <1>1, PTL
=============================================================================
