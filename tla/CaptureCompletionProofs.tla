---------------------- MODULE CaptureCompletionProofs ----------------------
(***************************************************************************)
(* Theorems about CaptureCompletion, for any kinds of page and any times.  *)
(* The observer returns a text once it has stood still for the quiet       *)
(* window, or once the page says that it is done.  The first is a race     *)
(* between its clocks and those of the page: while the loop has all that   *)
(* the page has to show (InSync), its quiet time is no more than the       *)
(* page's, and the age it reckons no more than the reply's; a page that is *)
(* still at work keeps one of the two below its limit (MayPass).           *)
(***************************************************************************)
EXTENDS CaptureCompletion, TLAPS

\* The whole of what the page has so far, whether it shows it or not.
Projected(r) == IF r.made = 0 THEN Status ELSE Answer(r.made)

\* The loop has seen the last of it.
InSync(w, r, d) ==
    /\ w.text = Projected(r)
    /\ w.token.decor = d
    /\ w.seen => w.token.streaming = r.active

\* The nodes of the earlier turn are all in the list of what was there before.
PastOK(s, p) ==
    /\ p \in {NoShot, Earlier, Redrawn, [key |-> "moved", text |-> Old]}
    /\ p # NoShot => s.earlier

ReplyOK(s, r, i) ==
    /\ r \in Reply /\ i \in 0..Quiet
    /\ r.view <= r.made
    /\ r.stage = "waiting" => r.made = 0 /\ r.key = "" /\ ~r.wasActive
    /\ r.stage = "finished" => r.made = Full /\ ~r.active
    /\ r.active => r.wasActive /\ (s.marker \/ s.control)
    /\ s.marker /\ r.wasActive /\ ~r.active => r.stage = "finished"
    /\ r.stage = "generating" /\ ~r.active => i < Quiet \/ (~r.wasActive /\ r.age < MinAge)

Follows(w, r) == w.key # "" /\ w.key = r.key

\* What the loop remembers of the node it follows.
Remembers(w, r, i, d) ==
    /\ w.text = Status \/ \E k \in 0..r.made : w.text = Answer(k)
    /\ r.made = 0 => w.text = Status
    /\ w.token.decor <= d
    /\ w.age <= r.age
    /\ w.seen /\ r.active => w.token.streaming
    /\ r.stage = "generating" /\ InSync(w, r, d) => w.quiet <= i

WatchOK(w, r, i, d) ==
    /\ w.key \in {"", r.key} \/ (w.key = "first" /\ r.key = "second")
    /\ w.key = "" => w.text = Blank
    /\ w.seen => r.wasActive
    /\ Follows(w, r) => Remembers(w, r, i, d)
    /\ r.view < r.made => Follows(w, r) /\ w.text = Answer(r.made)

\* A snapshot on its way is a status line or a part of what the page has.
RelayedOK(x, r) ==
    /\ x \in Shot
    /\ x = NoShot \/ x.text = Status \/ \E k \in 0..r.made : x.text = Answer(k)

OutcomeOK(o) ==
    /\ o \in [kind : {"pending", "returned", "timed_out", "identity_missing", "cancelled"},
              text : Text]
    /\ o.kind = "returned" => o.text = Answer(Full)

IInv ==
    /\ site \in Sites
    /\ PastOK(site, past)
    /\ bubble \in BOOLEAN
    /\ ReplyOK(site, reply, idle)
    /\ faults \in Faults
    /\ watch \in Watch
    /\ Pending => WatchOK(watch, reply, idle, faults.decor)
    /\ RelayedOK(relayed, reply)
    /\ best \in BOOLEAN /\ pendingGap \in BOOLEAN
    /\ OutcomeOK(outcome)

-----------------------------------------------------------------------------
(* Numbers and texts.                                                      *)

LEMMA Numbers ==
    /\ Full \in Nat /\ Identity \in Nat /\ Quiet \in Nat /\ Gap \in Nat /\ MinAge \in Nat
    /\ 1 <= Full /\ 1 <= Identity /\ 1 <= Quiet /\ 1 <= Gap /\ 1 <= MinAge
    /\ MaxGaps \in Nat /\ MaxShrinks \in Nat /\ MaxDecor \in Nat
BY TimesAssumption, BoundsAssumption, SMT

\* A clock with a limit.
LEMMA Capped == \A n \in Nat : \A k \in 0..n : Least(k + 1, n) \in 0..n
BY SMT DEF Least

LEMMA CappedTogether ==
    \A n \in Nat : \A j, k \in 0..n : j <= k => Least(j + 1, n) <= Least(k + 1, n)
BY SMT DEF Least

LEMMA Texts ==
    /\ \A k : Answer(k).src = "answer" /\ Answer(k).len = k
    /\ Status.src = "status" /\ Status.len = Full
    /\ Blank.src = "" /\ Old.src = "old" /\ Prompt.src = "prompt" /\ Old.len = 1
BY DEF Answer, Status, Blank, Old, Prompt

LEMMA TextType ==
    /\ Blank \in Text /\ Old \in Text /\ Prompt \in Text /\ Status \in Text
    /\ \A k \in 0..Full : Answer(k) \in Text
    /\ NoShot \in Shot /\ Earlier \in Shot /\ Redrawn \in Shot
    /\ [key |-> "moved", text |-> Old] \in Shot
BY Numbers, SMT DEF Text, Blank, Old, Prompt, Status, Answer, Shot, NoShot, Key, Earlier, Redrawn

LEMMA ReplyFields ==
    \A r \in Reply :
        /\ r.key \in Key /\ r.made \in 0..Full /\ r.view \in 0..Full /\ r.age \in 0..MinAge
        /\ r.active \in BOOLEAN /\ r.wasActive \in BOOLEAN
        /\ r.stage \in {"waiting", "generating", "finished"}
BY DEF Reply

LEMMA WatchFields ==
    \A w \in Watch :
        /\ w.key \in Key /\ w.text \in Text /\ w.quiet \in 0..Quiet /\ w.age \in 0..MinAge
        /\ w.since \in 0..(Gap + 1) /\ w.seen \in BOOLEAN /\ w.streaming \in BOOLEAN
        /\ w.token.len \in Nat /\ w.token.decor \in Nat /\ w.token.streaming \in BOOLEAN
        /\ w.maxLen \in 0..(Full + 2) /\ w.discontinuous \in BOOLEAN
        /\ w.observations \in 0..Identity /\ w.qualified \in BOOLEAN
BY DEF Watch, Token

-----------------------------------------------------------------------------
(* What becomes of a reply and of what the loop remembers.                 *)

Begun(r, k, m) ==
    [r EXCEPT !.stage = "generating", !.age = 0, !.key = k, !.made = m, !.view = m]
Renamed(r, k) == [r EXCEPT !.key = k, !.age = 0, !.view = r.made]
Grown(r) == [r EXCEPT !.made = r.made + 1, !.view = r.made + 1]
Working(r) == [r EXCEPT !.active = TRUE, !.wasActive = TRUE]
Resting(r) == [r EXCEPT !.active = FALSE]
Done(r) == [r EXCEPT !.stage = "finished", !.active = FALSE]
Showing(r, n) == [r EXCEPT !.view = n]
Older(r, n) == [r EXCEPT !.age = n]
Waited(w, q, a, x) == [w EXCEPT !.quiet = q, !.age = a, !.since = x]

LEMMA BegunFacts ==
    ASSUME NEW r \in Reply, NEW k \in Key, NEW m \in 0..Full
    PROVE  LET q == Begun(r, k, m)
           IN  /\ q \in Reply /\ q.stage = "generating" /\ q.age = 0 /\ q.key = k /\ q.made = m
               /\ q.view = m /\ q.active = r.active /\ q.wasActive = r.wasActive
<1>1. 0 \in 0..MinAge /\ "generating" \in {"waiting", "generating", "finished"}
  BY Numbers, SMT
<1>2. QED
  BY <1>1, Zenon DEF Reply, Begun

LEMMA RenamedFacts ==
    ASSUME NEW r \in Reply, NEW k \in Key
    PROVE  LET q == Renamed(r, k)
           IN  /\ q \in Reply /\ q.stage = r.stage /\ q.age = 0 /\ q.key = k /\ q.made = r.made
               /\ q.view = r.made /\ q.active = r.active /\ q.wasActive = r.wasActive
<1>1. 0 \in 0..MinAge /\ r.made \in 0..Full
  BY Numbers, ReplyFields, SMT
<1>2. QED
  BY <1>1, Zenon DEF Reply, Renamed

LEMMA GrownFacts ==
    ASSUME NEW r \in Reply, r.made < Full
    PROVE  LET q == Grown(r)
           IN  /\ q \in Reply /\ q.stage = r.stage /\ q.age = r.age /\ q.key = r.key
               /\ q.made = r.made + 1 /\ q.view = r.made + 1
               /\ q.active = r.active /\ q.wasActive = r.wasActive
<1>1. r.made + 1 \in 0..Full
  BY Numbers, ReplyFields, SMT
<1>2. QED
  BY <1>1, Zenon DEF Reply, Grown

LEMMA WorkingFacts ==
    ASSUME NEW r \in Reply
    PROVE  LET q == Working(r)
           IN  /\ q \in Reply /\ q.stage = r.stage /\ q.age = r.age /\ q.key = r.key
               /\ q.made = r.made /\ q.view = r.view /\ q.active /\ q.wasActive
BY Zenon DEF Reply, Working

LEMMA RestingFacts ==
    ASSUME NEW r \in Reply
    PROVE  LET q == Resting(r)
           IN  /\ q \in Reply /\ q.stage = r.stage /\ q.age = r.age /\ q.key = r.key
               /\ q.made = r.made /\ q.view = r.view /\ ~q.active /\ q.wasActive = r.wasActive
BY Zenon DEF Reply, Resting

LEMMA DoneFacts ==
    ASSUME NEW r \in Reply
    PROVE  LET q == Done(r)
           IN  /\ q \in Reply /\ q.stage = "finished" /\ q.age = r.age /\ q.key = r.key
               /\ q.made = r.made /\ q.view = r.view /\ ~q.active /\ q.wasActive = r.wasActive
BY Zenon DEF Reply, Done

LEMMA ShowingFacts ==
    ASSUME NEW r \in Reply, NEW n \in 0..Full
    PROVE  LET q == Showing(r, n)
           IN  /\ q \in Reply /\ q.stage = r.stage /\ q.age = r.age /\ q.key = r.key
               /\ q.made = r.made /\ q.view = n
               /\ q.active = r.active /\ q.wasActive = r.wasActive
BY Zenon DEF Reply, Showing

LEMMA OlderFacts ==
    ASSUME NEW r \in Reply, NEW n \in 0..MinAge
    PROVE  LET q == Older(r, n)
           IN  /\ q \in Reply /\ q.stage = r.stage /\ q.age = n /\ q.key = r.key
               /\ q.made = r.made /\ q.view = r.view
               /\ q.active = r.active /\ q.wasActive = r.wasActive
BY Zenon DEF Reply, Older

LEMMA WaitedFacts ==
    ASSUME NEW w \in Watch, NEW q \in 0..Quiet, NEW a \in 0..MinAge, NEW x \in 0..(Gap + 1)
    PROVE  LET v == Waited(w, q, a, x)
           IN  /\ v \in Watch /\ v.quiet = q /\ v.age = a /\ v.since = x
               /\ v.key = w.key /\ v.text = w.text /\ v.token = w.token /\ v.seen = w.seen
BY Zenon DEF Watch, Waited

-----------------------------------------------------------------------------
(* The steps of the page.                                                  *)

LEMMA Now ==
    ASSUME IInv
    PROVE  /\ site \in Sites /\ PastOK(site, past) /\ bubble \in BOOLEAN
           /\ ReplyOK(site, reply, idle) /\ faults \in Faults /\ watch \in Watch
           /\ Pending => WatchOK(watch, reply, idle, faults.decor)
           /\ reply \in Reply /\ idle \in 0..Quiet /\ idle \in Nat /\ faults.decor \in 0..MaxDecor
           /\ reply.made \in Nat /\ reply.view \in Nat /\ reply.age \in Nat
           /\ reply.made \in 0..Full
<1>1. reply \in Reply /\ idle \in 0..Quiet /\ faults \in Faults
  BY DEF IInv, ReplyOK
<1>2. faults.decor \in 0..MaxDecor
  BY <1>1 DEF Faults
<1>3. idle \in Nat
  BY <1>1, Numbers, SMT
<1>4. reply.made \in Nat /\ reply.view \in Nat /\ reply.age \in Nat /\ reply.made \in 0..Full
  BY <1>1, ReplyFields, Numbers, SMT
<1>5. QED
  BY <1>1, <1>2, <1>3, <1>4 DEF IInv

LEMMA RelayedKept ==
    ASSUME NEW x, NEW r \in Reply, NEW q \in Reply, RelayedOK(x, r), r.made <= q.made
    PROVE  RelayedOK(x, q)
<1>1. 0..r.made \subseteq 0..q.made
  BY ReplyFields, Numbers, SMT
<1>2. QED
  BY <1>1 DEF RelayedOK

\* Whatever the page does, the loop's own state stays as it is.
LEMMA PageMoves ==
    ASSUME IInv, UNCHANGED <<site, watch, loopVars>>,
           PastOK(site, past'), bubble' \in BOOLEAN, faults' \in Faults,
           ReplyOK(site, reply', idle'), reply.made <= reply'.made,
           Pending => WatchOK(watch, reply', idle', faults'.decor)
    PROVE  IInv'
<1>1. reply' \in Reply
  BY DEF ReplyOK
<1>2. RelayedOK(relayed', reply')
  BY <1>1, Now, RelayedKept DEF IInv, loopVars
<1>3. Pending' <=> Pending
  BY DEF Pending, loopVars
<1>4. QED
  BY <1>2, <1>3 DEF IInv, loopVars

\* The reply is not touched.
LEMMA ReplyStill ==
    ASSUME IInv, UNCHANGED <<site, watch, loopVars, reply, idle, faults>>,
           PastOK(site, past'), bubble' \in BOOLEAN
    PROVE  IInv'
BY Now, PageMoves, SMT

LEMMA BubbleShownStep == ASSUME IInv, BubbleShown PROVE IInv'
<1>1. PastOK(site, past')
  <2>1. CASE past' = past
    BY <2>1, Now
  <2>2. CASE past = Earlier /\ past' \in {Redrawn, [key |-> "moved", text |-> Old]}
    <3>1. Earlier # NoShot
      BY Zenon DEF Earlier, NoShot
    <3>2. QED
      BY <2>2, <3>1, Now DEF PastOK
  <2>3. QED
    BY <2>1, <2>2 DEF BubbleShown
<1>2. QED
  BY <1>1, ReplyStill DEF BubbleShown, PageStep

\* A text shown anew from its beginning is remembered by nobody.
LEMMA Unfollowed ==
    ASSUME NEW w \in Watch, NEW r \in Reply, NEW i, NEW d,
           w.key = "" \/ (w.key = "first" /\ r.key = "second"),
           w.key = "" => w.text = Blank, w.seen => r.wasActive, ~(r.view < r.made)
    PROVE  WatchOK(w, r, i, d)
BY DEF WatchOK, Follows

LEMMA ReplyStartsStep == ASSUME IInv, ReplyStarts PROVE IInv'
<1> DEFINE k == IF site.reused THEN "earlier" ELSE IF site.late THEN "" ELSE "first"
<1> DEFINE m == IF site.status THEN 0 ELSE 1
<1> DEFINE q == Begun(reply, k, m)
<1>1. k \in Key /\ m \in 0..Full
  BY Numbers, SMT DEF Key
<1>2. reply' = q
  BY DEF ReplyStarts, Begun
<1>3. reply.stage = "waiting"
  BY DEF ReplyStarts
<1> HIDE DEF k, m
<1>4. /\ q \in Reply /\ q.stage = "generating" /\ q.age = 0 /\ q.made = m
      /\ q.view = m /\ q.active = reply.active /\ q.wasActive = reply.wasActive
  BY <1>1, Now, BegunFacts
<1> HIDE DEF q
<1>5. reply.made = 0 /\ reply.key = "" /\ ~reply.wasActive /\ ~reply.active
  BY <1>3, Now DEF ReplyOK
<1>6. 0 < Quiet /\ 0 \in 0..Quiet /\ m <= m /\ 0 <= m
  BY <1>1, Numbers, SMT
<1>7. ReplyOK(site, q, 0)
  BY <1>4, <1>5, <1>6 DEF ReplyOK
<1>8. ASSUME Pending PROVE WatchOK(watch, q, 0, faults.decor)
  <2>1. watch.key = "" /\ watch.text = Blank /\ ~watch.seen
    BY <1>5, <1>8, Now DEF WatchOK
  <2>2. ~(q.view < q.made)
    BY <1>1, <1>4, Numbers, SMT
  <2>3. QED
    BY <1>4, <2>1, <2>2, Now, Unfollowed
<1>9. PastOK(site, past')
  BY Now DEF ReplyStarts, PastOK
<1>10. QED
  BY <1>2, <1>4, <1>5, <1>6, <1>7, <1>8, <1>9, Now, PageMoves DEF ReplyStarts, ReplyStep

LEMMA RekeyedStep == ASSUME IInv, Rekeyed PROVE IInv'
<1> DEFINE k == IF reply.key = "" THEN "first" ELSE "second"
<1> DEFINE q == Renamed(reply, k)
<1>1. k \in Key
  BY DEF Key
<1>2. reply' = q
  BY DEF Rekeyed, Renamed
<1>3. reply.stage = "generating" /\ reply.key \in {"", "first"}
  BY DEF Rekeyed
<1>4. (k = "first" /\ reply.key = "") \/ (k = "second" /\ reply.key = "first")
  BY <1>3
<1> HIDE DEF k
<1>5. /\ q \in Reply /\ q.stage = "generating" /\ q.age = 0 /\ q.key = k /\ q.made = reply.made
      /\ q.view = reply.made /\ q.active = reply.active /\ q.wasActive = reply.wasActive
  BY <1>1, <1>3, Now, RenamedFacts
<1> HIDE DEF q
<1>6. 0 < Quiet /\ 0 \in 0..Quiet /\ reply.made <= reply.made
  BY Now, Numbers, SMT
<1>7. ReplyOK(site, q, 0)
  BY <1>3, <1>5, <1>6, Now DEF ReplyOK
<1>8. ASSUME Pending PROVE WatchOK(watch, q, 0, faults.decor)
  <2>1. watch.key = "" \/ (watch.key = "first" /\ k = "second")
    BY <1>3, <1>4, <1>8, Now DEF WatchOK
  <2>2. (watch.seen => q.wasActive) /\ (watch.key = "" => watch.text = Blank)
    BY <1>5, <1>8, Now DEF WatchOK
  <2>3. ~(q.view < q.made)
    BY <1>5, Now, SMT
  <2>4. QED
    BY <1>5, <2>1, <2>2, <2>3, Now, Unfollowed
<1>9. QED
  BY <1>2, <1>5, <1>6, <1>7, <1>8, Now, PageMoves DEF Rekeyed, ReplyStep

\* The loop has not seen a text that is longer than all it remembers.
LEMMA GrowStep == ASSUME IInv, Grow PROVE IInv'
<1> DEFINE q == Grown(reply)
<1>1. reply' = q /\ reply.made < Full /\ reply.stage = "generating"
  BY DEF Grow, Grown
<1>2. /\ q \in Reply /\ q.stage = reply.stage /\ q.age = reply.age /\ q.key = reply.key
      /\ q.made = reply.made + 1 /\ q.view = reply.made + 1
      /\ q.active = reply.active /\ q.wasActive = reply.wasActive
  BY <1>1, Now, GrownFacts
<1> HIDE DEF q
<1>3. 0 < Quiet /\ 0 \in 0..Quiet /\ reply.made <= q.made /\ q.view <= q.made
      /\ ~(q.view < q.made) /\ q.made # 0 /\ q.made = reply.made + 1
  BY <1>2, Now, Numbers, SMT
<1>4. ReplyOK(site, q, 0)
  BY <1>1, <1>2, <1>3, Now DEF ReplyOK
<1>5. ASSUME Pending PROVE WatchOK(watch, q, 0, faults.decor)
  <2>1. WatchOK(watch, reply, idle, faults.decor)
    BY <1>5, Now
  <2>2. ASSUME Follows(watch, q) PROVE Remembers(watch, q, 0, faults.decor)
    <3>1. Remembers(watch, reply, idle, faults.decor)
      BY <1>2, <2>1, <2>2 DEF WatchOK, Follows
    <3>2. CASE watch.text = Status
      <4>0. Answer(q.made) # Status
        BY Texts
      <4>1. ~InSync(watch, q, faults.decor)
        BY <1>3, <3>2, <4>0 DEF InSync, Projected
      <4>2. QED
        BY <1>2, <1>3, <3>1, <3>2, <4>1 DEF Remembers
    <3>3. CASE \E k \in 0..reply.made : watch.text = Answer(k)
      <4>1. PICK k \in 0..reply.made : watch.text = Answer(k)
        BY <3>3
      <4>2. k \in 0..q.made /\ k # q.made
        BY <1>3, Now, SMT
      <4>3. Answer(k) # Answer(q.made)
        BY <4>2, Texts
      <4>5. ~InSync(watch, q, faults.decor)
        BY <1>3, <4>1, <4>3 DEF InSync, Projected
      <4>4. QED
        BY <1>2, <1>3, <3>1, <4>1, <4>2, <4>5 DEF Remembers
    <3>4. QED
      BY <3>1, <3>2, <3>3 DEF Remembers
  <2>3. QED
    BY <1>2, <1>3, <2>1, <2>2 DEF WatchOK
<1>6. QED
  BY <1>1, <1>2, <1>3, <1>4, <1>5, Now, PageMoves DEF Grow, ReplyStep

LEMMA ActivateStep == ASSUME IInv, Activate PROVE IInv'
<1> DEFINE q == Working(reply)
<1>1. reply' = q /\ ~reply.wasActive /\ (site.marker \/ site.control)
      /\ reply.stage = "generating"
  BY DEF Activate, Working
<1>2. /\ q \in Reply /\ q.stage = reply.stage /\ q.age = reply.age /\ q.key = reply.key
      /\ q.made = reply.made /\ q.view = reply.view /\ q.active /\ q.wasActive
  BY Now, WorkingFacts
<1> HIDE DEF q
<1>3. ReplyOK(site, q, idle)
  BY <1>1, <1>2, Now DEF ReplyOK
<1>4. ASSUME Pending PROVE WatchOK(watch, q, idle, faults.decor)
  <2>1. WatchOK(watch, reply, idle, faults.decor) /\ ~watch.seen
    BY <1>1, <1>4, Now DEF WatchOK
  <2>2. InSync(watch, q, faults.decor) => InSync(watch, reply, faults.decor)
    BY <1>2, <2>1 DEF InSync, Projected
  <2>3. QED
    BY <1>2, <2>1, <2>2 DEF WatchOK, Remembers, Follows
<1>5. reply.made <= q.made
  BY <1>2, Now, SMT
<1>6. QED
  BY <1>1, <1>2, <1>3, <1>4, <1>5, Now, PageMoves DEF Activate, PageStep

\* A control that the loop has seen is missed by it.
LEMMA DeactivateStep == ASSUME IInv, Deactivate PROVE IInv'
<1> DEFINE q == Resting(reply)
<1> DEFINE i == IF watch.seen THEN 0 ELSE idle
<1>1. reply' = q /\ reply.active /\ ~site.marker /\ idle' = i /\ (watch.seen \/ idle < Quiet)
  BY DEF Deactivate, Resting
<1>2. /\ q \in Reply /\ q.stage = reply.stage /\ q.age = reply.age /\ q.key = reply.key
      /\ q.made = reply.made /\ q.view = reply.view /\ ~q.active /\ q.wasActive = reply.wasActive
  BY Now, RestingFacts
<1> HIDE DEF q
<1>3. i \in 0..Quiet /\ i < Quiet /\ 0 \in Nat
  BY <1>1, Now, Numbers, SMT
<1>4. ReplyOK(site, q, i)
  <2>1. i \in 0..Quiet /\ i < Quiet
    BY <1>3
  <2> HIDE DEF i
  <2>2. QED
    BY <1>1, <1>2, <2>1, Now DEF ReplyOK
<1>5. ASSUME Pending PROVE WatchOK(watch, q, i, faults.decor)
  <2>1. WatchOK(watch, reply, idle, faults.decor)
    BY <1>5, Now
  <2>2. CASE watch.seen
    <3>1. ASSUME Follows(watch, q) PROVE Remembers(watch, q, i, faults.decor)
      <4>1. Remembers(watch, reply, idle, faults.decor)
        BY <1>2, <2>1, <3>1 DEF WatchOK, Follows
      <4>2. watch.token.streaming
        BY <1>1, <2>2, <4>1 DEF Remembers
      <4>3. ~InSync(watch, q, faults.decor)
        BY <1>2, <2>2, <4>2 DEF InSync
      <4>4. QED
        BY <1>2, <4>1, <4>3 DEF Remembers
    <3>2. QED
      BY <1>2, <2>1, <3>1 DEF WatchOK, Follows
  <2>3. CASE ~watch.seen
    <3>1. i = idle
      BY <2>3
    <3>2. InSync(watch, q, faults.decor) => InSync(watch, reply, faults.decor)
      BY <1>2, <2>3 DEF InSync, Projected
    <3>3. QED
      BY <1>2, <2>1, <3>1, <3>2 DEF WatchOK, Remembers, Follows
  <2>4. QED
    BY <2>2, <2>3
<1>6. reply.made <= q.made
  BY <1>2, Now, SMT
<1>7. QED
  BY <1>1, <1>2, <1>4, <1>5, <1>6, Now, PageMoves DEF Deactivate

LEMMA FinishStep == ASSUME IInv, Finish PROVE IInv'
<1> DEFINE q == Done(reply)
<1>1. reply' = q /\ reply.made = Full
  BY DEF Finish, Done
<1>2. /\ q \in Reply /\ q.stage = "finished" /\ q.age = reply.age /\ q.key = reply.key
      /\ q.made = reply.made /\ q.view = reply.view /\ ~q.active /\ q.wasActive = reply.wasActive
  BY Now, DoneFacts
<1> HIDE DEF q
<1>3. 0 \in 0..Quiet /\ reply.made <= q.made
  BY <1>2, Now, Numbers, SMT
<1>4. ReplyOK(site, q, 0)
  BY <1>1, <1>2, <1>3, Now DEF ReplyOK
<1>5. ASSUME Pending PROVE WatchOK(watch, q, 0, faults.decor)
  BY <1>2, <1>5, Now DEF WatchOK, Remembers, Follows
<1>6. QED
  BY <1>1, <1>3, <1>4, <1>5, Now, PageMoves DEF Finish, ReplyStep

\* Only the text that the loop has just seen is dropped.
LEMMA ShrinkStep == ASSUME IInv, Pending, Shrink PROVE IInv'
<1> DEFINE q == Showing(reply, reply.view - 1)
<1>1. /\ reply' = q /\ reply.view > 1 /\ watch.key = reply.key /\ watch.text = Shown
      /\ faults' = [faults EXCEPT !.shrinks = @ + 1] /\ faults.shrinks < MaxShrinks
  BY DEF Shrink, Showing
<1>2. reply.view - 1 \in 0..Full
  BY <1>1, Now, ReplyFields, Numbers, SMT
<1>3. /\ q \in Reply /\ q.stage = reply.stage /\ q.age = reply.age /\ q.key = reply.key
      /\ q.made = reply.made /\ q.view = reply.view - 1
      /\ q.active = reply.active /\ q.wasActive = reply.wasActive
  BY <1>2, Now, ShowingFacts
<1> HIDE DEF q
<1>4. q.view <= q.made /\ reply.made <= q.made /\ reply.made # 0 /\ reply.made \in Nat
  <2>1. reply.view <= reply.made
    BY Now DEF ReplyOK
  <2>2. QED
    BY <1>1, <1>3, <2>1, Now, SMT
<1>5. ReplyOK(site, q, idle)
  BY <1>3, <1>4, Now DEF ReplyOK
<1>6. WatchOK(watch, reply, idle, faults.decor)
  BY Now
<1>7. Shown = Answer(reply.view)
  BY <1>4, Now DEF Shown, ReplyOK
<1>8. watch.key # ""
  BY <1>1, <1>6, <1>7, Texts DEF WatchOK
<1>9. reply.view = reply.made
  <2>1. CASE reply.view < reply.made
    <3>1. Answer(reply.view) = Answer(reply.made)
      BY <1>1, <1>6, <1>7, <2>1 DEF WatchOK
    <3>2. QED
      BY <3>1, Texts
  <2>2. QED
    <3>1. reply.view <= reply.made
      BY Now DEF ReplyOK
    <3>2. QED
      BY <2>1, <3>1, Now, SMT
<1>10. WatchOK(watch, q, idle, faults.decor)
  <2>1. Follows(watch, q) /\ watch.text = Answer(q.made)
    BY <1>1, <1>3, <1>7, <1>8, <1>9 DEF Follows
  <2>2. Remembers(watch, reply, idle, faults.decor)
    BY <1>1, <1>6, <1>8 DEF WatchOK, Follows
  <2>3. Remembers(watch, q, idle, faults.decor)
    BY <1>3, <2>2 DEF Remembers, InSync, Projected
  <2>4. QED
    BY <1>3, <1>6, <2>1, <2>3 DEF WatchOK
<1>11. faults' \in Faults /\ faults'.decor = faults.decor
  <2>1. faults \in Faults /\ faults.shrinks \in 0..MaxShrinks
    BY Now DEF Faults
  <2>2. faults.shrinks + 1 \in 0..MaxShrinks
    BY <1>1, <2>1, Numbers, SMT
  <2>3. QED
    BY <1>1, <2>1, <2>2, Zenon DEF Faults
<1>12. QED
  BY <1>1, <1>4, <1>5, <1>10, <1>11, Now, PageMoves DEF Shrink, PageStep

LEMMA RestoreStep == ASSUME IInv, Restore PROVE IInv'
<1> DEFINE q == Showing(reply, reply.made)
<1>1. reply' = q /\ reply.view < reply.made
  BY DEF Restore, Showing
<1>2. /\ q \in Reply /\ q.stage = reply.stage /\ q.age = reply.age /\ q.key = reply.key
      /\ q.made = reply.made /\ q.view = reply.made
      /\ q.active = reply.active /\ q.wasActive = reply.wasActive
  BY Now, ShowingFacts
<1> HIDE DEF q
<1>3. q.view <= q.made /\ reply.made <= q.made /\ ~(q.view < q.made)
  BY <1>2, Now, SMT
<1>4. ReplyOK(site, q, idle)
  BY <1>2, <1>3, Now DEF ReplyOK
<1>5. ASSUME Pending PROVE WatchOK(watch, q, idle, faults.decor)
  BY <1>2, <1>3, <1>5, Now DEF WatchOK, Follows, Remembers, InSync, Projected
<1>6. QED
  BY <1>1, <1>3, <1>4, <1>5, Now, PageMoves DEF Restore, PageStep

LEMMA DecorateStep == ASSUME IInv, Decorate PROVE IInv'
<1>1. /\ faults.decor < MaxDecor /\ faults' = [faults EXCEPT !.decor = @ + 1]
      /\ reply' = reply /\ idle' = 0 /\ reply.stage # "waiting"
  BY DEF Decorate, ReplyStep
<1>2. faults' \in Faults /\ faults'.decor = faults.decor + 1
  <2>1. faults \in Faults /\ faults.decor + 1 \in 0..MaxDecor
    BY <1>1, Now, Numbers, SMT
  <2>2. QED
    BY <1>1, <2>1, Zenon DEF Faults
<1>3. 0 \in 0..Quiet /\ 0 < Quiet /\ reply.made <= reply.made
  BY Now, Numbers, SMT
<1>4. ReplyOK(site, reply, 0)
  BY <1>3, Now DEF ReplyOK
<1>5. ASSUME Pending PROVE WatchOK(watch, reply, 0, faults.decor + 1)
  <2>1. WatchOK(watch, reply, idle, faults.decor)
    BY <1>5, Now
  <2>2. ASSUME Follows(watch, reply)
        PROVE  Remembers(watch, reply, 0, faults.decor + 1)
    <3>1. Remembers(watch, reply, idle, faults.decor)
      BY <2>1, <2>2 DEF WatchOK
    <3>2. watch.token.decor \in Nat /\ faults.decor \in Nat /\ watch.token.decor <= faults.decor
      BY <3>1, Now, WatchFields, Numbers, SMT DEF Remembers
    <3>3. watch.token.decor <= faults.decor + 1 /\ watch.token.decor # faults.decor + 1
      BY <3>2, SMT
    <3>4. ~InSync(watch, reply, faults.decor + 1)
      BY <3>3 DEF InSync
    <3>5. QED
      BY <3>1, <3>3, <3>4 DEF Remembers
  <2>3. QED
    BY <2>1, <2>2 DEF WatchOK
<1>6. QED
  BY <1>1, <1>2, <1>3, <1>4, <1>5, Now, PageMoves DEF Decorate, ReplyStep

-----------------------------------------------------------------------------
(* Time.                                                                   *)

\* A page that is still at work does not reach the limit of both its clocks.
LEMMA StillWithin ==
    ASSUME IInv, MayPass, reply.stage = "generating", ~reply.active
    PROVE  \/ Least(idle + 1, Quiet) < Quiet
           \/ ~reply.wasActive /\ Least(reply.age + 1, MinAge) < MinAge
<1>1. idle + 1 < Quiet \/ (~reply.wasActive /\ reply.age + 1 < MinAge)
  BY DEF MayPass
<1>2. CASE idle + 1 < Quiet
  BY <1>2, Now, Numbers, SMT DEF Least
<1>3. CASE ~reply.wasActive /\ reply.age + 1 < MinAge
  BY <1>3, Now, Numbers, SMT DEF Least
<1>4. QED
  BY <1>1, <1>2, <1>3

LEMMA TickStep == ASSUME IInv, Tick PROVE IInv'
<1> DEFINE a == Least(reply.age + 1, MinAge)
<1> DEFINE i == Least(idle + 1, Quiet)
<1> DEFINE q == IF reply.stage = "waiting" THEN reply ELSE Older(reply, a)
<1> DEFINE c == Least(watch.quiet + 1, Quiet)
<1> DEFINE b == Least(watch.age + 1, MinAge)
<1> DEFINE x == Least(watch.since + 1, Gap + 1)
<1> DEFINE w == Waited(watch, c, b, x)
<1>1. reply' = q /\ watch' = w /\ idle' = i
  BY DEF Tick, Older, Waited
<1>2. MayPass /\ Pending /\ UNCHANGED <<site, past, bubble, loopVars>>
  BY DEF Tick
<1>3. a \in 0..MinAge /\ b \in 0..MinAge /\ i \in 0..Quiet /\ c \in 0..Quiet /\ x \in 0..(Gap + 1)
  <2>1. /\ reply.age \in 0..MinAge /\ watch.age \in 0..MinAge /\ idle \in 0..Quiet
        /\ watch.quiet \in 0..Quiet /\ watch.since \in 0..(Gap + 1) /\ Gap + 1 \in Nat
    BY Now, ReplyFields, WatchFields, Numbers, SMT
  <2>2. QED
    BY <2>1, Capped, Numbers
<1>4. (watch.age <= reply.age => b <= a) /\ (watch.quiet <= idle => c <= i)
  BY Now, ReplyFields, WatchFields, CappedTogether, Numbers
<1>5. reply.stage = "generating" /\ ~reply.active
      => i < Quiet \/ (~reply.wasActive /\ a < MinAge)
  BY <1>2, StillWithin
<1> HIDE DEF a, b, c, i, x
<1>6. /\ q \in Reply /\ q.stage = reply.stage /\ q.key = reply.key /\ q.made = reply.made
      /\ q.view = reply.view /\ q.active = reply.active /\ q.wasActive = reply.wasActive
      /\ reply.stage # "waiting" => q.age = a
  BY <1>3, Now, OlderFacts
<1>7. /\ w \in Watch /\ w.quiet = c /\ w.age = b /\ w.key = watch.key /\ w.text = watch.text
      /\ w.token = watch.token /\ w.seen = watch.seen
  BY <1>3, Now, WaitedFacts
<1> HIDE DEF q, w
<1>8. ReplyOK(site, q, i)
  BY <1>3, <1>5, <1>6, Now DEF ReplyOK
<1>9. WatchOK(w, q, i, faults.decor)
  <2>1. WatchOK(watch, reply, idle, faults.decor) /\ ReplyOK(site, reply, idle)
    BY <1>2, Now
  <2>2. ASSUME Follows(w, q) PROVE Remembers(w, q, i, faults.decor)
    <3>1. Remembers(watch, reply, idle, faults.decor) /\ reply.stage # "waiting"
      BY <1>6, <1>7, <2>1, <2>2 DEF WatchOK, Follows, ReplyOK
    <3>2. QED
      BY <1>4, <1>6, <1>7, <3>1 DEF Remembers, InSync, Projected
  <2>3. QED
    BY <1>6, <1>7, <2>1, <2>2 DEF WatchOK, Follows
<1>10. faults' \in Faults /\ faults'.decor = faults.decor
  <2>1. faults \in Faults /\ faults.late \in 0..MaxGaps
    BY Now DEF Faults
  <2> DEFINE n == IF watch.since = Gap /\ watch.key # "" THEN faults.late + 1 ELSE faults.late
  <2>2. n \in 0..MaxGaps
    <3>1. CASE watch.since = Gap /\ watch.key # ""
      <4>1. faults.late < MaxGaps
        BY <3>1 DEF Tick
      <4>2. faults.late + 1 \in 0..MaxGaps
        BY <2>1, <4>1, Numbers, SMT
      <4>3. QED
        BY <3>1, <4>2
    <3>2. CASE ~(watch.since = Gap /\ watch.key # "")
      BY <2>1, <3>2
    <3>3. QED
      BY <3>1, <3>2
  <2>3. faults' = [faults EXCEPT !.late = n]
    BY DEF Tick
  <2> HIDE DEF n
  <2>4. QED
    BY <2>1, <2>2, <2>3, Zenon DEF Faults
<1>11. RelayedOK(relayed', q)
  BY <1>2, <1>6, Now, RelayedKept, SMT DEF IInv, loopVars
<1>12. QED
  BY <1>1, <1>2, <1>7, <1>8, <1>9, <1>10, <1>11, Now DEF IInv, loopVars

-----------------------------------------------------------------------------
(* What the loop sees.                                                     *)

\* Neither the earlier turn nor the user's message is taken for the reply.
LEMMA FoundIsReply ==
    ASSUME IInv, NEW n \in RecordedResponseSnapshot(Regions), Accepted(n)
    PROVE  /\ n.key = reply.key /\ n.key # "" /\ n.text = Shown /\ n.place = ReplyPlace
           /\ Shown # Blank
<1>1. n \in Regions /\ n.key # ""
  BY DEF RecordedResponseSnapshot
<1>2. n.text # Blank
  BY <1>1 DEF Regions
<1>3. CASE n = [place |-> PastPlace, key |-> past.key, text |-> past.text]
  <2>1. n.key = past.key /\ n.text = past.text
    BY <1>3
  <2>2. past # NoShot
    <3>1. NoShot.text = Blank
      BY DEF NoShot
    <3>2. QED
      BY <1>2, <2>1, <3>1
  <2>3. site.earlier
    BY <2>2, Now DEF PastOK
  <2>4. n.text # Old
    BY <2>3 DEF Accepted, IsLikelyUserEcho, PreviousTexts
  <2>5. past = Redrawn
    <3>1. Earlier.text = Old /\ [key |-> "moved", text |-> Old].text = Old
      BY DEF Earlier
    <3>2. past # Earlier /\ past # [key |-> "moved", text |-> Old]
      BY <2>1, <2>4, <3>1
    <3>3. QED
      BY <2>2, <3>2, Now DEF PastOK
  <2>6. n.key = "earlier" /\ n.text = [src |-> "old", len |-> 2]
    BY <2>1, <2>5 DEF Redrawn
  <2>7. n.key \in BeforeKeys
    BY <2>3, <2>6 DEF BeforeKeys
  <2>8. Covers(n.text, Old)
    BY <2>6, SMT DEF Covers, Old
  <2>9. QED
    BY <2>7, <2>8 DEF Accepted, IsFreshRecordedResponse, ChangedSinceBefore
<1>4. CASE n = [place |-> BubblePlace, key |-> "bubble",
                text |-> IF bubble THEN Prompt ELSE Blank]
  BY <1>2, <1>4 DEF Accepted, IsLikelyUserEcho
<1>5. CASE n = [place |-> ReplyPlace, key |-> reply.key, text |-> Shown]
  BY <1>1, <1>2, <1>5
<1>6. QED
  BY <1>1, <1>3, <1>4, <1>5 DEF Regions

LEMMA WhatIsShown ==
    ASSUME IInv, Shown # Blank
    PROVE  /\ reply.stage # "waiting" /\ Shown \in Text
           /\ reply.made = 0 => Shown = Status
           /\ reply.made # 0 => Shown = Answer(reply.view)
<1>1. reply.stage # "waiting"
  BY DEF Shown
<1>2. reply.view \in 0..Full
  BY Now, ReplyFields
<1>3. (reply.made = 0 => Shown = Status) /\ (reply.made # 0 => Shown = Answer(reply.view))
  BY <1>1 DEF Shown
<1>4. QED
  BY <1>1, <1>2, <1>3, TextType

LEMMA ObservedFields ==
    ASSUME NEW n
    PROVE  LET w == Observed(n)
           IN  /\ w.key = n.key
               /\ w.text = IF ProjectionRegressed(n) THEN watch.text ELSE n.text
               /\ w.token = ActivityToken(n)
               /\ w.quiet = IF Changed(n) \/ ActivityChanged(n) \/ StreamingStopped(n) THEN 0
                            ELSE watch.quiet
               /\ w.age = IF Same(n) /\ ~(watch.discontinuous /\ GrewBeyondMaximum(n))
                          THEN watch.age ELSE 0
               /\ w.since = 0 /\ w.seen = Seen(n) /\ w.streaming = Streaming(n)
BY DEF Observed

LEMMA TokenFields ==
    ASSUME NEW n
    PROVE  /\ ActivityToken(n).len = n.text.len /\ ActivityToken(n).decor = faults.decor
           /\ ActivityToken(n).streaming = Streaming(n)
BY DEF ActivityToken

LEMMA StreamingIsActive ==
    ASSUME IInv, NEW n, n.place = ReplyPlace
    PROVE  Streaming(n) = reply.active
<1>1. Streaming(n) <=> reply.active
  BY Now DEF ReplyOK, Streaming, MarkerOn
<1>2. reply.active \in BOOLEAN
  BY Now, ReplyFields
<1>3. Streaming(n) \in BOOLEAN
  BY Zenon DEF Streaming
<1>4. QED
  BY <1>1, <1>2, <1>3, Zenon

LEMMA WatchType ==
    ASSUME NEW k \in Key, NEW t \in Text, NEW u \in Token, NEW c \in 0..Quiet,
           NEW a \in 0..MinAge, NEW x \in 0..(Gap + 1), NEW s \in BOOLEAN, NEW b \in BOOLEAN,
           NEW m \in 0..(Full + 2), NEW d \in BOOLEAN, NEW o \in 0..Identity, NEW q \in BOOLEAN
    PROVE  [key |-> k, text |-> t, token |-> u, quiet |-> c, age |-> a, since |-> x,
            seen |-> s, streaming |-> b, maxLen |-> m, discontinuous |-> d,
            observations |-> o, qualified |-> q] \in Watch
BY Zenon DEF Watch

LEMMA ObservedType ==
    ASSUME IInv, NEW n, n.key \in Key, n.text \in Text, n.place = ReplyPlace
    PROVE  Observed(n) \in Watch
<1>1. Streaming(n) \in BOOLEAN /\ Seen(n) \in BOOLEAN
  BY Now, WatchFields DEF Streaming, MarkerOn, Seen
<1>2. n.text.len \in 0..(Full + 2)
  BY DEF Text
<1>3. ActivityToken(n) \in Token
  <2>1. n.text.len \in Nat /\ faults.decor \in Nat
    BY <1>2, Now, Numbers, SMT
  <2>2. QED
    BY <1>1, <2>1 DEF ActivityToken, Token
<1>4. Observations(n) \in 0..Identity
  <2>1. watch.observations \in 0..Identity /\ 1 \in 0..Identity
    BY Now, WatchFields, Numbers, SMT
  <2>2. Least(watch.observations + 1, Identity) \in 0..Identity
    BY <2>1, Capped, Numbers
  <2>3. QED
    BY <2>1, <2>2 DEF Observations
<1>5. 0 \in 0..Quiet /\ 0 \in 0..MinAge /\ 0 \in 0..(Gap + 1) /\ 0 \in 0..(Full + 2)
  BY Numbers, SMT
<1>6. Qualified(n) \in BOOLEAN
  BY DEF Qualified
<1> DEFINE t == IF ProjectionRegressed(n) THEN watch.text ELSE n.text
<1> DEFINE c == IF Changed(n) \/ ActivityChanged(n) \/ StreamingStopped(n) THEN 0
                ELSE watch.quiet
<1> DEFINE a == IF Same(n) /\ ~(watch.discontinuous /\ GrewBeyondMaximum(n)) THEN watch.age
                ELSE 0
<1> DEFINE l == IF Same(n) THEN watch.maxLen ELSE 0
<1> DEFINE m == IF n.text.len > l THEN n.text.len ELSE l
<1> DEFINE d == /\ Same(n) /\ ~GrewBeyondMaximum(n)
                /\ watch.discontinuous \/ ChangedAfterGap(n)
<1>7. t \in Text /\ c \in 0..Quiet /\ a \in 0..MinAge /\ d \in BOOLEAN
  <2>1. t \in Text
    BY Now, WatchFields
  <2>2. c \in 0..Quiet /\ a \in 0..MinAge
    BY <1>5, Now, WatchFields
  <2>3. d \in BOOLEAN
    OBVIOUS
  <2>4. QED
    BY <2>1, <2>2, <2>3
<1>10. m \in 0..(Full + 2)
  <2>1. l \in 0..(Full + 2)
    BY <1>5, Now, WatchFields
  <2> HIDE DEF l
  <2>2. QED
    BY <1>2, <2>1
<1>8. Observed(n) = [key |-> n.key, text |-> t, token |-> ActivityToken(n), quiet |-> c,
                     age |-> a, since |-> 0, seen |-> Seen(n), streaming |-> Streaming(n),
                     maxLen |-> m, discontinuous |-> d, observations |-> Observations(n),
                     qualified |-> Qualified(n)]
  BY DEF Observed
<1> HIDE DEF t, c, a, l, m, d
<1>9. [key |-> n.key, text |-> t, token |-> ActivityToken(n), quiet |-> c,
       age |-> a, since |-> 0, seen |-> Seen(n), streaming |-> Streaming(n),
       maxLen |-> m, discontinuous |-> d, observations |-> Observations(n),
       qualified |-> Qualified(n)] \in Watch
  BY <1>1, <1>3, <1>4, <1>5, <1>6, <1>7, <1>10, WatchType
<1>11. QED
  BY <1>8, <1>9, Zenon

\* The loop looks at the reply's node.
Seeing(n) ==
    /\ n.key = reply.key /\ n.key # "" /\ n.place = ReplyPlace
    /\ n.text = Shown /\ Shown # Blank

LEMMA Sees ==
    ASSUME IInv, NEW n, Seeing(n)
    PROVE  /\ reply.stage # "waiting" /\ n.text \in Text /\ n.key \in Key
           /\ reply.made = 0 => n.text = Status
           /\ reply.made # 0 => n.text = Answer(reply.view)
           /\ Streaming(n) = reply.active
           /\ Same(n) <=> Follows(watch, reply)
           /\ reply.view <= reply.made
<1>1. reply.key \in Key
  BY Now, ReplyFields
<1>2. Same(n) <=> Follows(watch, reply)
  BY DEF Seeing, Same, Follows
<1>3. reply.view <= reply.made
  BY Now DEF ReplyOK
<1>4. Streaming(n) = reply.active
  BY StreamingIsActive DEF Seeing
<1>5. QED
  BY <1>1, <1>2, <1>3, <1>4, WhatIsShown DEF Seeing

LEMMA RegressedIs ==
    ASSUME IInv, Pending, NEW n, Seeing(n), reply.view < reply.made
    PROVE  ProjectionRegressed(n) /\ watch.text = Answer(reply.made)
<1>1. Follows(watch, reply) /\ watch.text = Answer(reply.made)
  BY Now DEF WatchOK
<1>2. reply.made # 0
  BY Now, SMT
<1>3. n.text = Answer(reply.view) /\ Same(n)
  BY <1>1, <1>2, Sees
<1>4. n.text.src = watch.text.src /\ n.text.len = reply.view /\ watch.text.len = reply.made
  BY <1>1, <1>3, Texts
<1>5. watch.text.len >= n.text.len /\ n.text.len < watch.text.len
  BY <1>4, Now, SMT
<1>6. QED
  BY <1>1, <1>3, <1>4, <1>5 DEF ProjectionRegressed, Covers

\* An observation keeps what the loop remembers right.
LEMMA ObserveOK ==
    ASSUME IInv, Pending, NEW n, Seeing(n)
    PROVE  /\ Follows(Observed(n), reply)
           /\ WatchOK(Observed(n), reply, idle, faults.decor)
<1> DEFINE w == Observed(n)
<1>1. /\ w.key = n.key
      /\ w.text = IF ProjectionRegressed(n) THEN watch.text ELSE n.text
      /\ w.token = ActivityToken(n)
      /\ w.quiet = IF Changed(n) \/ ActivityChanged(n) \/ StreamingStopped(n) THEN 0
                   ELSE watch.quiet
      /\ w.age = IF Same(n) /\ ~(watch.discontinuous /\ GrewBeyondMaximum(n))
                 THEN watch.age ELSE 0
      /\ w.seen = Seen(n)
  BY ObservedFields
<1>2. w.token.decor = faults.decor /\ w.token.streaming = Streaming(n)
  BY <1>1, TokenFields
<1> HIDE DEF w
<1>3. WatchOK(watch, reply, idle, faults.decor)
  BY Now
<1>4. Same(n) => Remembers(watch, reply, idle, faults.decor)
  BY <1>3, Sees DEF WatchOK
<1>5. w.key = reply.key /\ Follows(w, reply)
  BY <1>1 DEF Seeing, Follows
<1>6. ASSUME w.seen PROVE reply.wasActive
  <2>1. CASE watch.seen
    BY <1>3, <2>1 DEF WatchOK
  <2>2. CASE Streaming(n)
    BY <2>2, Sees, Now DEF ReplyOK
  <2>3. QED
    BY <1>1, <1>6, <2>1, <2>2 DEF Seen
<1>7. (w.text = Status \/ \E k \in 0..reply.made : w.text = Answer(k))
      /\ (reply.made = 0 => w.text = Status)
  <2>1. CASE ProjectionRegressed(n)
    <3>1. Same(n) /\ w.text = watch.text
      BY <1>1, <2>1 DEF ProjectionRegressed
    <3>2. QED
      BY <1>4, <3>1 DEF Remembers
  <2>2. CASE ~ProjectionRegressed(n)
    <3>1. w.text = n.text
      BY <1>1, <2>2
    <3>2. reply.view \in 0..reply.made
      BY Sees, Now, SMT
    <3>3. QED
      BY <3>1, <3>2, Sees
  <2>3. QED
    BY <2>1, <2>2
<1>8. w.age <= reply.age
  <2>1. 0 <= reply.age
    BY Now, SMT
  <2>2. Same(n) => watch.age <= reply.age
    BY <1>4 DEF Remembers
  <2>3. QED
    BY <1>1, <2>1, <2>2
<1>9. ASSUME reply.stage = "generating", InSync(w, reply, faults.decor) PROVE w.quiet <= idle
  <2>1. CASE Changed(n) \/ ActivityChanged(n) \/ StreamingStopped(n)
    <3>1. w.quiet = 0
      BY <1>1, <2>1
    <3>2. QED
      BY <3>1, Now, SMT
  <2>2. CASE ~(Changed(n) \/ ActivityChanged(n) \/ StreamingStopped(n))
    <3>1. w.quiet = watch.quiet /\ Same(n)
      BY <1>1, <2>2 DEF Changed
    <3>2. w.text = watch.text
      BY <1>1, <2>2, <3>1 DEF Changed
    <3>3. watch.token = w.token
      BY <1>1, <2>2, <3>1 DEF ActivityChanged
    <3>4. InSync(watch, reply, faults.decor)
      BY <1>2, <1>9, <3>2, <3>3, Sees DEF InSync
    <3>5. QED
      BY <1>4, <1>9, <3>1, <3>4 DEF Remembers
  <2>3. QED
    BY <2>1, <2>2
<1>10. reply.view < reply.made => w.text = Answer(reply.made)
  BY <1>1, RegressedIs
<1>11. w.token.decor <= faults.decor
  BY <1>2, Now, Numbers, SMT
<1>12. Remembers(w, reply, idle, faults.decor)
  BY <1>2, <1>7, <1>8, <1>9, <1>11, Sees DEF Remembers
<1>13. WatchOK(w, reply, idle, faults.decor)
  BY <1>5, <1>6, <1>10, <1>12 DEF WatchOK, Follows
<1>14. QED
  BY <1>5, <1>13 DEF w

\* The race: while the page still has something to show, the loop's clocks
\* have not both run out.
LEMMA CompleteIsWhole ==
    ASSUME IInv, Pending, NEW n, Seeing(n), Complete(n, Observed(n))
    PROVE  n.text = Answer(Full)
<1> DEFINE w == Observed(n)
<1>1. /\ w.text = IF ProjectionRegressed(n) THEN watch.text ELSE n.text
      /\ w.token = ActivityToken(n) /\ w.streaming = Streaming(n)
  BY ObservedFields
<1>2. w.token.decor = faults.decor /\ w.token.streaming = Streaming(n)
  BY <1>1, TokenFields
<1>3. Follows(w, reply) /\ WatchOK(w, reply, idle, faults.decor)
  BY ObserveOK
<1>4. /\ ~ProjectionRegressed(n) /\ ~w.streaming
      /\ \/ ExplicitlySettled(n) /\ w.seen
         \/ (w.seen \/ w.age = MinAge) /\ w.quiet = Quiet
  BY DEF Complete
<1> HIDE DEF w
<1>5. Remembers(w, reply, idle, faults.decor) /\ (w.seen => reply.wasActive)
  BY <1>3 DEF WatchOK
<1>6. ~reply.active /\ w.text = n.text
  BY <1>1, <1>4, Sees
<1>7. reply.view = reply.made
  <2>1. ~(reply.view < reply.made)
    BY <1>4, RegressedIs
  <2>2. QED
    BY <2>1, Sees, Now, SMT
<1>8. CASE reply.stage = "finished"
  <2>1. reply.made = Full /\ reply.made # 0
    BY <1>8, Now, Numbers, SMT DEF ReplyOK
  <2>2. QED
    BY <1>7, <2>1, Sees
<1>9. CASE reply.stage = "generating"
  <2>1. idle < Quiet \/ (~reply.wasActive /\ reply.age < MinAge)
    BY <1>6, <1>9, Now DEF ReplyOK
  <2>2. CASE ExplicitlySettled(n) /\ w.seen
    <3>1. site.marker /\ reply.wasActive
      BY <1>5, <2>2 DEF ExplicitlySettled
    <3>2. QED
      BY <1>6, <1>9, <3>1, Now DEF ReplyOK
  <2>3. CASE (w.seen \/ w.age = MinAge) /\ w.quiet = Quiet
    <3>1. w.text = Projected(reply)
      BY <1>6, <1>7, Sees DEF Projected
    <3>2. InSync(w, reply, faults.decor)
      BY <1>2, <3>1, Sees DEF InSync
    <3>3. Quiet <= idle /\ w.age <= reply.age
      BY <1>5, <1>9, <2>3, <3>2 DEF Remembers
    <3>4. ~(idle < Quiet)
      BY <3>3, Now, Numbers, SMT
    <3>5. ~reply.wasActive /\ reply.age < MinAge /\ ~w.seen /\ w.age = MinAge
      BY <1>5, <2>1, <2>3, <3>4
    <3>6. QED
      BY <3>3, <3>5, Now, Numbers, SMT
  <2>4. QED
    BY <1>4, <2>2, <2>3
<1>10. QED
  <2>1. reply.stage \in {"waiting", "generating", "finished"}
    BY Now, ReplyFields
  <2>2. QED
    BY <1>8, <1>9, <2>1, Sees

\* A turn of the loop sees nothing of this request, or the reply.
LEMMA Turn ==
    ASSUME IInv, Observe
    PROVE  /\ Pending /\ UNCHANGED <<pageVars, idle>>
           /\ SeesNothing(Regions) \/ \E n : Seeing(n) /\ SeesReply(n, Observed(n))
<1>1. Pending /\ UNCHANGED <<pageVars, idle>>
  BY DEF Observe
<1>2. \/ SeesNothing(Regions)
      \/ \E n \in RecordedResponseSnapshot(Regions) : Accepted(n) /\ SeesReply(n, Observed(n))
  BY DEF Observe
<1>3. \A n \in RecordedResponseSnapshot(Regions) : Accepted(n) => Seeing(n)
  BY FoundIsReply DEF Seeing
<1>4. QED
  BY <1>1, <1>2, <1>3

\* What is relayed is all that the page has.
LEMMA RelaysAll ==
    ASSUME IInv, Pending, NEW n, Seeing(n), Relays(n, Observed(n)), relayed' # relayed
    PROVE  /\ relayed' = [key |-> n.key, text |-> n.text]
           /\ \/ reply.made = 0 /\ n.text = Status
              \/ n.text = Answer(reply.made)
<1>1. relayed' = [key |-> n.key, text |-> n.text] /\ ~ProjectionRegressed(n)
  BY DEF Relays
<1>2. reply.view = reply.made
  <2>1. ~(reply.view < reply.made)
    BY <1>1, RegressedIs
  <2>2. QED
    BY <2>1, Sees, Now, SMT
<1>3. QED
  BY <1>1, <1>2, Sees

LEMMA RelayedStep ==
    ASSUME IInv, Pending, NEW n, Seeing(n), Relays(n, Observed(n))
    PROVE  RelayedOK(relayed', reply)
<1>1. CASE relayed' = relayed
  BY <1>1 DEF IInv
<1>2. CASE relayed' # relayed
  <2>1. relayed' = [key |-> n.key, text |-> n.text]
    BY <1>2, RelaysAll
  <2>2. relayed' \in Shot /\ relayed'.text = n.text
    BY <2>1, Sees DEF Shot
  <2>3. reply.made \in 0..reply.made
    BY Now, SMT
  <2>4. QED
    BY <1>2, <2>2, <2>3, RelaysAll DEF RelayedOK
<1>3. QED
  BY <1>1, <1>2

LEMMA NoWatchType == NoWatch \in Watch
<1>1. NoToken \in Token
  BY DEF NoToken, Token
<1>2. /\ "" \in Key /\ Blank \in Text /\ 0 \in 0..Quiet /\ 0 \in 0..MinAge /\ 0 \in 0..(Gap + 1)
      /\ 0 \in 0..(Full + 2) /\ 0 \in 0..Identity /\ FALSE \in BOOLEAN
  BY Numbers, TextType, SMT DEF Key
<1>3. QED
  BY <1>1, <1>2, WatchType DEF NoWatch

LEMMA EndsOutcome ==
    ASSUME NEW kind \in {"returned", "timed_out", "identity_missing", "cancelled"},
           NEW text \in Text, kind = "returned" => text = Answer(Full), Ends(kind, text)
    PROVE  /\ OutcomeOK(outcome') /\ ~Pending' /\ watch' \in Watch
           /\ best' \in BOOLEAN /\ pendingGap' \in BOOLEAN
BY NoWatchType DEF Ends, OutcomeOK, Pending

LEMMA SeesReplyStep ==
    ASSUME IInv, Pending, UNCHANGED <<pageVars, idle>>, NEW n, Seeing(n),
           SeesReply(n, Observed(n))
    PROVE  IInv'
<1> DEFINE w == Observed(n)
<1>1. Relays(n, w)
  BY DEF SeesReply
<1>2. RelayedOK(relayed', reply)
  BY <1>1, RelayedStep
<1>3. n.text \in Text
  BY Sees
<1>4. CASE Complete(n, w)
  <2>1. Ends("returned", n.text) /\ n.text = Answer(Full)
    BY <1>4, CompleteIsWhole DEF SeesReply
  <2>2. /\ OutcomeOK(outcome') /\ ~Pending' /\ watch' \in Watch
        /\ best' \in BOOLEAN /\ pendingGap' \in BOOLEAN
    BY <1>3, <2>1, EndsOutcome
  <2>3. QED
    BY <1>2, <2>2, Now DEF IInv, pageVars
<1>5. CASE ~Complete(n, w)
  <2>1. watch' = w /\ pendingGap' = FALSE /\ outcome' = outcome /\ best' \in BOOLEAN
    BY <1>5, Zenon DEF SeesReply
  <2>2. w \in Watch
    BY Sees, ObservedType DEF Seeing
  <2>3. WatchOK(w, reply, idle, faults.decor)
    BY ObserveOK
  <2> HIDE DEF w
  <2>4. QED
    BY <1>2, <2>1, <2>2, <2>3, Now DEF IInv, pageVars, Pending
<1>6. QED
  BY <1>4, <1>5

LEMMA SeesNothingStep ==
    ASSUME IInv, UNCHANGED <<pageVars, idle>>, SeesNothing(Regions)
    PROVE  IInv'
<1>1. pendingGap' \in BOOLEAN
  BY Zenon DEF SeesNothing, IdentityGap
<1>2. QED
  BY <1>1 DEF SeesNothing, IInv, pageVars, Pending

LEMMA ObserveStep == ASSUME IInv, Observe PROVE IInv'
<1>1. Pending /\ UNCHANGED <<pageVars, idle>>
  BY Turn
<1>2. CASE SeesNothing(Regions)
  BY <1>1, <1>2, SeesNothingStep
<1>3. CASE \E n : Seeing(n) /\ SeesReply(n, Observed(n))
  <2>1. PICK n : Seeing(n) /\ SeesReply(n, Observed(n))
    BY <1>3
  <2>2. QED
    BY <1>1, <2>1, SeesReplyStep
<1>4. QED
  BY <1>2, <1>3, Turn

LEMMA EndsStep ==
    ASSUME IInv, NEW kind \in {"timed_out", "identity_missing", "cancelled"},
           Ends(kind, Blank), UNCHANGED <<pageVars, idle, relayed>>
    PROVE  IInv'
<1>1. /\ OutcomeOK(outcome') /\ ~Pending' /\ watch' \in Watch
      /\ best' \in BOOLEAN /\ pendingGap' \in BOOLEAN
  BY TextType, EndsOutcome
<1>2. QED
  BY <1>1, Now DEF IInv, pageVars

-----------------------------------------------------------------------------
(* The invariant.                                                          *)

LEMMA InitInv == Init => IInv
<1> SUFFICES ASSUME Init PROVE IInv
  OBVIOUS
<1>1. site \in Sites /\ bubble = FALSE /\ watch = NoWatch /\ relayed = NoShot /\ idle = 0
      /\ best = FALSE /\ pendingGap = FALSE
      /\ outcome = [kind |-> "pending", text |-> Blank]
  BY DEF Init
<1>2. PastOK(site, past)
  <2>1. CASE site.earlier
    BY <2>1 DEF Init, PastOK
  <2>2. CASE ~site.earlier
    BY <2>2 DEF Init, PastOK
  <2>3. QED
    BY <2>1, <2>2
<1>3. /\ reply.key = "" /\ reply.made = 0 /\ reply.view = 0 /\ ~reply.active
      /\ ~reply.wasActive /\ reply.stage = "waiting"
  BY DEF Init
<1>4. reply \in Reply
  <2>1. 0 \in 0..Full /\ 0 \in 0..MinAge /\ "" \in Key
    BY Numbers, SMT DEF Key
  <2>2. QED
    BY <2>1 DEF Init, Reply
<1>5. 0 \in 0..Quiet /\ 0 <= 0
  BY Numbers, SMT
<1>6. ReplyOK(site, reply, idle)
  BY <1>1, <1>3, <1>4, <1>5 DEF ReplyOK
<1>7. faults \in Faults
  <2>1. 0 \in 0..MaxGaps /\ 0 \in 0..MaxShrinks /\ 0 \in 0..MaxDecor
    BY Numbers, SMT
  <2>2. QED
    BY <2>1 DEF Init, Faults
<1>8. watch.key = "" /\ watch.text = Blank /\ ~watch.seen /\ ~(reply.view < reply.made)
  <2>1. NoWatch.key = "" /\ NoWatch.text = Blank /\ ~NoWatch.seen
    BY DEF NoWatch
  <2>2. ~(0 < 0)
    BY SMT
  <2>3. QED
    BY <1>1, <1>3, <2>1, <2>2
<1>9. WatchOK(watch, reply, idle, faults.decor)
  BY <1>1, <1>3, <1>8, NoWatchType, Unfollowed, <1>4
<1>10. RelayedOK(relayed, reply)
  BY <1>1, TextType DEF RelayedOK
<1>11. OutcomeOK(outcome)
  BY <1>1, TextType DEF OutcomeOK
<1>12. QED
  BY <1>1, <1>2, <1>6, <1>7, <1>9, <1>10, <1>11, NoWatchType DEF IInv

LEMMA NextInv == IInv /\ [Next]_vars => IInv'
<1> SUFFICES ASSUME IInv, [Next]_vars PROVE IInv'
  OBVIOUS
<1>1. CASE Pending /\ Page
  BY <1>1, BubbleShownStep, ReplyStartsStep, RekeyedStep, GrowStep, ActivateStep,
     DeactivateStep, FinishStep, ShrinkStep, RestoreStep, DecorateStep DEF Page
<1>2. CASE Tick
  BY <1>2, TickStep
<1>3. CASE Observe
  BY <1>3, ObserveStep
<1>4. CASE Timeout
  BY <1>4, EndsStep DEF Timeout
<1>5. CASE Cancelled
  BY <1>5, EndsStep DEF Cancelled
<1>6. CASE UNCHANGED vars
  BY <1>6 DEF IInv, vars, pageVars, loopVars, Pending
<1>7. QED
  BY <1>1, <1>2, <1>3, <1>4, <1>5, <1>6 DEF Next

\* IInv holds throughout: the loop's clocks never run ahead of the page's while
\* the loop has seen the last of it.
THEOREM Invariance == Spec => []IInv
<1>1. QED
  BY InitInv, NextInv, PTL DEF Spec

\* The state keeps its types: the observer's record, its counts and its clocks
\* among them (response_observation.js).
THEOREM TypeCorrect == Spec => []TypeOK
<1>1. IInv => TypeOK
  <2> SUFFICES ASSUME IInv PROVE TypeOK
    OBVIOUS
  <2>1. past \in Shot
    BY Now, TextType DEF PastOK
  <2>2. relayed \in Shot /\ OutcomeOK(outcome) /\ best \in BOOLEAN /\ pendingGap \in BOOLEAN
    BY DEF IInv, RelayedOK
  <2>3. QED
    BY <2>1, <2>2, Now DEF TypeOK, OutcomeOK
<1>2. QED
  BY <1>1, Invariance, PTL

\* For every length of the reply, every quiet window and any number of gaps and
\* of changes, what waitForFreshAssistantResponse returns is the whole reply.
THEOREM WholeReplyReturned == Spec => []WholeReply
<1>1. IInv => WholeReply
  BY DEF IInv, OutcomeOK, WholeReply
<1>2. QED
  BY <1>1, Invariance, PTL

LEMMA RelaysGrowStep ==
    ASSUME IInv, [Next]_vars, relayed' # relayed
    PROVE  /\ relayed'.text.src \in {"status", "answer"}
           /\ relayed'.text.src = relayed.text.src => relayed'.text.len >= relayed.text.len
<1>1. Observe
  BY DEF Next, Page, BubbleShown, ReplyStarts, Rekeyed, Grow, Activate, Deactivate, Finish,
         Shrink, Restore, Decorate, PageStep, ReplyStep, Tick, Timeout, Cancelled, vars, loopVars
<1>2. PICK n : Seeing(n) /\ SeesReply(n, Observed(n))
  BY <1>1, Turn DEF SeesNothing
<1>3. Pending /\ Relays(n, Observed(n))
  BY <1>1, <1>2, Turn DEF SeesReply
<1>4. relayed' = [key |-> n.key, text |-> n.text]
  BY <1>2, <1>3, RelaysAll
<1>5. relayed'.text = n.text
  BY <1>4
<1>6. n.text = Status \/ n.text = Answer(reply.made)
  BY <1>2, <1>3, RelaysAll
<1>7. relayed = NoShot \/ relayed.text = Status \/ \E k \in 0..reply.made : relayed.text = Answer(k)
  BY DEF IInv, RelayedOK
<1>8. NoShot.text = Blank
  BY DEF NoShot
<1>9. CASE n.text = Status
  <2>1. n.text.src = "status" /\ n.text.len = Full
    BY <1>9, Texts
  <2>2. relayed.text.src = "status" => relayed.text.len = Full
    BY <1>7, <1>8, Texts
  <2>3. Full >= Full
    BY Numbers, SMT
  <2>4. QED
    BY <1>5, <2>1, <2>2, <2>3
<1>10. CASE n.text = Answer(reply.made)
  <2>1. n.text.src = "answer" /\ n.text.len = reply.made
    BY <1>10, Texts
  <2>2. relayed.text.src = "answer" => relayed.text.len \in 0..reply.made
    BY <1>7, <1>8, Texts
  <2>3. \A k \in 0..reply.made : reply.made >= k
    BY Now, SMT
  <2>4. QED
    BY <1>5, <2>1, <2>2, <2>3
<1>11. QED
  BY <1>6, <1>9, <1>10

\* A snapshot relayed while the reply grows is a status line or all of the reply
\* so far, and no later one of the two shows less of it, under whatever identity.
THEOREM RelaysGrow == Spec => RelaysOnlyGrow
<1>1. IInv /\ [Next]_vars
      => [relayed' # relayed =>
          /\ relayed'.text.src \in {"status", "answer"}
          /\ relayed'.key = relayed.key /\ relayed'.text.src = relayed.text.src
             => relayed'.text.len >= relayed.text.len]_vars
  BY RelaysGrowStep
<1>2. QED
  BY <1>1, Invariance, PTL DEF Spec, RelaysOnlyGrow

=============================================================================
