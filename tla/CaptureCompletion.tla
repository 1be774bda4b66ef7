------------------------- MODULE CaptureCompletion -------------------------
(***************************************************************************)
(* When the content script decides that the page has answered.             *)
(* waitForFreshAssistantResponse (src/extension/content.js) looks at the   *)
(* recorded region again and again, picks the node that belongs to this    *)
(* request, feeds what it sees to response_observation.js, relays what     *)
(* grows and returns the text once it is sure that nothing more will come. *)
(*                                                                         *)
(* The page is a node of an earlier turn, the user's own bubble and the    *)
(* reply.  Nothing tells the observer that the page is done, so the module *)
(* states what it takes for granted of a page, all of it in MayPass and in *)
(* the guards of the page's actions.  Quiet ticks make the quiet window;   *)
(* clocks are kept as ages that stop at the largest value the code         *)
(* compares them with.                                                     *)
(***************************************************************************)
EXTENDS Integers, FiniteSets

CONSTANTS
    Sites,      \* the kinds of page: a set of records [marker, control, earlier, reused,
                \*   late, status, dictated], all Booleans
    Full,       \* the length of the whole reply
    Identity,   \* DEFAULT_IDENTITY_OBSERVATIONS
    Quiet,      \* DEFAULT_RESPONSE_QUIET_MS, in ticks
    Gap,        \* DEFAULT_OBSERVATION_GAP_MS, in ticks
    MinAge,     \* DEFAULT_UNKNOWN_ACTIVITY_MIN_AGE_MS, in ticks
    MaxGaps,    \* bound: how often the observer is late
    MaxShrinks, \* bound: how often the page shows less of the reply than it has
    MaxDecor    \* bound: changes around the reply's text

ASSUME SitesAssumption ==
    Sites \subseteq [marker : BOOLEAN, control : BOOLEAN, earlier : BOOLEAN, reused : BOOLEAN,
                     late : BOOLEAN, status : BOOLEAN, dictated : BOOLEAN]
ASSUME TimesAssumption ==
    /\ {Full, Identity, Quiet, Gap, MinAge} \subseteq Nat \ {0}
    /\ Quiet <= Gap /\ Gap <= MinAge
ASSUME BoundsAssumption == {MaxGaps, MaxShrinks, MaxDecor} \subseteq Nat

VARIABLES
    site,       \* the kind of page
    past,       \* the node of the earlier turn
    bubble,     \* the user's message is on the page
    reply,      \* the reply's node and how much of it there is
    idle,       \* ticks since the reply last changed
    faults,     \* [late, shrinks, decor] so far
    watch,      \* responseIdentityState and responseCompletionState
    relayed,    \* the last snapshot relayed
    best, pendingGap,   \* of waitForFreshAssistantResponse
    outcome     \* what it returned or threw

pageVars == <<site, past, bubble, reply, faults>>
loopVars == <<relayed, best, pendingGap, outcome>>
vars == <<pageVars, idle, watch, loopVars>>

Least(m, n) == IF m < n THEN m ELSE n

Text == [src : {"", "old", "prompt", "status", "answer"}, len : 0..(Full + 2)]
Blank == [src |-> "", len |-> 0]
Old == [src |-> "old", len |-> 1]
Prompt == [src |-> "prompt", len |-> 1]
Status == [src |-> "status", len |-> Full]
Answer(n) == [src |-> "answer", len |-> n]

Key == {"", "earlier", "moved", "bubble", "first", "second"}
Shot == [key : Key, text : Text]
NoShot == [key |-> "", text |-> Blank]
Reply == [key : Key, made : 0..Full, view : 0..Full, age : 0..MinAge, active : BOOLEAN,
          wasActive : BOOLEAN, stage : {"waiting", "generating", "finished"}]
Faults == [late : 0..MaxGaps, shrinks : 0..MaxShrinks, decor : 0..MaxDecor]
Token == [len : Nat, decor : Nat, streaming : BOOLEAN]
Watch == [key : Key, text : Text, token : Token, quiet : 0..Quiet, age : 0..MinAge,
          since : 0..(Gap + 1), seen : BOOLEAN, streaming : BOOLEAN, maxLen : 0..(Full + 2),
          discontinuous : BOOLEAN, observations : 0..Identity, qualified : BOOLEAN]

TypeOK ==
    /\ site \in Sites
    /\ past \in Shot
    /\ bubble \in BOOLEAN
    /\ reply \in Reply
    /\ idle \in 0..Quiet
    /\ faults \in Faults
    /\ watch \in Watch
    /\ relayed \in Shot
    /\ best \in BOOLEAN /\ pendingGap \in BOOLEAN
    /\ outcome \in [kind : {"pending", "returned", "timed_out", "identity_missing", "cancelled"},
                    text : Text]

Pending == outcome.kind = "pending"

-----------------------------------------------------------------------------
(* The page.                                                               *)

\* What the reply's node shows.
Shown ==
    IF reply.stage = "waiting" THEN Blank
    ELSE IF reply.made = 0 THEN (IF site.status THEN Status ELSE Blank)
    ELSE Answer(reply.view)

Steady == reply.stage = "finished" /\ reply.view = Full

PageStep == UNCHANGED <<site, idle, watch, loopVars>>
ReplyStep == idle' = 0 /\ UNCHANGED <<site, watch, loopVars>>

Earlier == [key |-> "earlier", text |-> Old]
Redrawn == [key |-> "earlier", text |-> [src |-> "old", len |-> 2]]

\* The user's message appears; the list may be drawn anew, the earlier turn with
\* citations or a toolbar, or under another identity; not both.
BubbleShown ==
    /\ ~bubble
    /\ bubble' = TRUE
    /\ \/ past' = past
       \/ past = Earlier /\ past' \in {Redrawn, [key |-> "moved", text |-> Old]}
    /\ PageStep /\ UNCHANGED <<reply, faults>>

\* The reply's node appears: as a new row, as a row without an identity yet, or
\* in the row of the earlier turn.
ReplyStarts ==
    /\ reply.stage = "waiting"
    /\ reply' = [reply EXCEPT !.stage = "generating", !.age = 0,
                              !.key = IF site.reused THEN "earlier"
                                      ELSE IF site.late THEN "" ELSE "first",
                              !.made = IF site.status THEN 0 ELSE 1,
                              !.view = IF site.status THEN 0 ELSE 1]
    /\ past' = IF site.reused THEN NoShot ELSE past
    /\ ReplyStep /\ UNCHANGED <<bubble, faults>>

\* The row gets its identity, or a final one in place of a provisional one, and
\* is drawn anew.
Rekeyed ==
    /\ reply.stage = "generating"
    /\ reply.key \in {"", "first"}
    /\ reply' = [reply EXCEPT !.key = IF @ = "" THEN "first" ELSE "second", !.age = 0,
                              !.view = reply.made]
    /\ ReplyStep /\ UNCHANGED <<past, bubble, faults>>

Grow ==
    /\ reply.stage = "generating"
    /\ reply.made < Full
    /\ reply' = [reply EXCEPT !.made = @ + 1, !.view = reply.made + 1]
    /\ ReplyStep /\ UNCHANGED <<past, bubble, faults>>

\* The recorded marker or the page's stop control turns on, once.
Activate ==
    /\ site.marker \/ site.control
    /\ reply.stage = "generating"
    /\ ~reply.wasActive
    /\ reply' = [reply EXCEPT !.active = TRUE, !.wasActive = TRUE]
    /\ PageStep /\ UNCHANGED <<past, bubble, faults>>

\* A stop control may go before the last of the text is there, but not unseen
\* while the text stands still; a marker, which says that the reply is settled,
\* may not.
Deactivate ==
    /\ reply.active /\ ~site.marker
    /\ watch.seen \/ idle < Quiet
    /\ reply' = [reply EXCEPT !.active = FALSE]
    /\ idle' = IF watch.seen THEN 0 ELSE idle
    /\ UNCHANGED <<site, watch, loopVars, past, bubble, faults>>

Finish ==
    /\ reply.stage = "generating"
    /\ reply.key # ""
    /\ reply.made = Full
    /\ reply' = [reply EXCEPT !.stage = "finished", !.active = FALSE]
    /\ ReplyStep /\ UNCHANGED <<past, bubble, faults>>

\* A virtualised page drops the end of what the loop has seen, and brings it
\* back; a loop that looks at neither moment learns nothing of it.
Shrink ==
    /\ faults.shrinks < MaxShrinks
    /\ reply.view > 1
    /\ watch.key = reply.key /\ watch.text = Shown
    /\ reply' = [reply EXCEPT !.view = @ - 1]
    /\ faults' = [faults EXCEPT !.shrinks = @ + 1]
    /\ PageStep /\ UNCHANGED <<past, bubble>>

Restore ==
    /\ reply.view < reply.made
    /\ reply' = [reply EXCEPT !.view = reply.made]
    /\ PageStep /\ UNCHANGED <<past, bubble, faults>>

\* Something around the reply's text changes: the page is at work, or done.
Decorate ==
    /\ reply.stage # "waiting"
    /\ faults.decor < MaxDecor
    /\ faults' = [faults EXCEPT !.decor = @ + 1]
    /\ ReplyStep /\ UNCHANGED <<past, bubble, reply>>

\* How long a page may stand still before it is done: as long as it likes while
\* it shows that it is at work, less than the quiet window otherwise, and less
\* than the minimum age before its first sign of activity.
MayPass ==
    \/ reply.stage \in {"waiting", "finished"}
    \/ reply.active
    \/ idle + 1 < Quiet
    \/ ~reply.wasActive /\ reply.age + 1 < MinAge

Tick ==
    /\ Pending
    /\ MayPass
    /\ watch.since = Gap /\ watch.key # "" => faults.late < MaxGaps
    /\ faults' = [faults EXCEPT !.late = IF watch.since = Gap /\ watch.key # "" THEN @ + 1 ELSE @]
    /\ idle' = Least(idle + 1, Quiet)
    /\ reply' = IF reply.stage = "waiting" THEN reply
                ELSE [reply EXCEPT !.age = Least(@ + 1, MinAge)]
    /\ watch' = [watch EXCEPT !.quiet = Least(@ + 1, Quiet), !.age = Least(@ + 1, MinAge),
                              !.since = Least(@ + 1, Gap + 1)]
    /\ UNCHANGED <<site, past, bubble, loopVars>>

-----------------------------------------------------------------------------
(* Which node belongs to this request.                                     *)

PastPlace == 1
BubblePlace == 2
ReplyPlace == 3

\* The identities and texts noted before the prompt was sent.
BeforeKeys == IF site.earlier THEN {"earlier"} ELSE {}
PreviousTexts == IF site.earlier THEN {Old} ELSE {}

Covers(a, b) == a.src = b.src /\ a.len >= b.len

\* responseChangedSinceBefore: an old row counts only with another body.
ChangedSinceBefore(text) == ~Covers(text, Old) /\ ~Covers(Old, text)

IsFreshRecordedResponse(n) == n.key \notin BeforeKeys \/ ChangedSinceBefore(n.text)

\* Mutant: the user's own message is not told from a reply.
IsEchoOfEarlier(text) == text \in PreviousTexts

IsLikelyUserEcho(text) == text \in PreviousTexts \/ text = Prompt

\* The prompt dictates the reply, and this is the beginning of it.
IsStrictPromptReplyPrefix(text) ==
    site.dictated /\ text.src = "answer" /\ text.len < Full

\* isNodeAfterFreshUser: the earlier turn is above the user's bubble.
IsNodeAfterFreshUser(n) == bubble => n.place # PastPlace

Eligible(n) ==
    /\ IsFreshRecordedResponse(n)
    /\ ~IsLikelyUserEcho(n.text)
    /\ ~IsStrictPromptReplyPrefix(n.text)
    /\ IsNodeAfterFreshUser(n)

\* The recorded region: its nodes with some text, by their place in the document.
Regions ==
    {n \in {[place |-> PastPlace, key |-> past.key, text |-> past.text],
            [place |-> BubblePlace, key |-> "bubble", text |-> IF bubble THEN Prompt ELSE Blank],
            [place |-> ReplyPlace, key |-> reply.key, text |-> Shown]} : n.text # Blank}

\* recordedResponseSnapshot: the last eligible node, or the last node of all
\* when nothing was there before.
RecordedResponseSnapshot(regions) ==
    LET snapshots == {n \in regions : n.key # ""}
        eligible == {n \in snapshots : Eligible(n)}
        pool == IF eligible = {} /\ BeforeKeys = {} THEN snapshots ELSE eligible
    IN  {n \in pool : \A m \in pool : m.place <= n.place}

\* recordedResponseIdentityGap: there is text, and none of it has an identity.
IdentityGap(regions) == regions # {} /\ \A n \in regions : n.key = ""

\* What the loop asks of the node once more.
Accepted(n) ==
    IsFreshRecordedResponse(n) /\ ~IsLikelyUserEcho(n.text) /\ ~IsStrictPromptReplyPrefix(n.text)

\* responseActivityState: the marker is the region's, the control the page's.
MarkerOn(n) == site.marker /\ reply.active /\ n.place = ReplyPlace
Streaming(n) == MarkerOn(n) \/ (site.control /\ reply.active)
ExplicitlySettled(n) == site.marker /\ ~MarkerOn(n)

ActivityToken(n) == [len |-> n.text.len, decor |-> faults.decor, streaming |-> Streaming(n)]

-----------------------------------------------------------------------------
(* response_observation.js                                                 *)

NoToken == [len |-> 0, decor |-> 0, streaming |-> FALSE]
NoWatch == [key |-> "", text |-> Blank, token |-> NoToken, quiet |-> 0, age |-> 0,
            since |-> 0, seen |-> FALSE, streaming |-> FALSE, maxLen |-> 0,
            discontinuous |-> FALSE, observations |-> 0, qualified |-> FALSE]

Same(n) == watch.key = n.key
Seen(n) == watch.seen \/ Streaming(n)

IdentityMinimum(n) == IF ExplicitlySettled(n) /\ Seen(n) THEN 1 ELSE Identity

\* Mutant: the count goes on under another identity.
ObservationsOfAny(n) == watch.observations + 1

Observations(n) == IF Same(n) THEN Least(watch.observations + 1, Identity) ELSE 1
Qualified(n) == Observations(n) >= IdentityMinimum(n)
BecameQualified(n) == Qualified(n) /\ ~(Same(n) /\ watch.qualified)

ResumedAfterGap(n) == Same(n) /\ watch.since > Gap
GrewBeyondMaximum(n) == Same(n) /\ n.text.len > watch.maxLen
ActivityChanged(n) == Same(n) /\ watch.token # ActivityToken(n)
ChangedAfterGap(n) == ResumedAfterGap(n) /\ (n.text # watch.text \/ ActivityChanged(n))

\* Mutant: the page always shows all it has.
NeverRegressed(n) == FALSE

\* Less of the text than before, or anything shorter after a gap.
ProjectionRegressed(n) ==
    /\ Same(n)
    /\ n.text.len < watch.text.len
    /\ ResumedAfterGap(n) \/ Covers(watch.text, n.text)

Changed(n) == ~Same(n) \/ (~ProjectionRegressed(n) /\ watch.text # n.text)
\* Mutant: streaming stops at every observation without it.
StreamingOff(n) == ~Streaming(n)

StreamingStopped(n) == Same(n) /\ watch.streaming /\ ~Streaming(n)

\* quiet is the least of the times since the text, the activity and the
\* streaming last changed.
Observed(n) ==
    LET lenBefore == IF Same(n) THEN watch.maxLen ELSE 0
    IN  [key |-> n.key,
         text |-> IF ProjectionRegressed(n) THEN watch.text ELSE n.text,
         token |-> ActivityToken(n),
         quiet |-> IF Changed(n) \/ ActivityChanged(n) \/ StreamingStopped(n) THEN 0
                   ELSE watch.quiet,
         age |-> IF Same(n) /\ ~(watch.discontinuous /\ GrewBeyondMaximum(n)) THEN watch.age
                 ELSE 0,
         since |-> 0,
         seen |-> Seen(n),
         streaming |-> Streaming(n),
         maxLen |-> IF n.text.len > lenBefore THEN n.text.len ELSE lenBefore,
         discontinuous |-> /\ Same(n) /\ ~GrewBeyondMaximum(n)
                           /\ watch.discontinuous \/ ChangedAfterGap(n),
         observations |-> Observations(n),
         qualified |-> Qualified(n)]

\* observeCompletion: settled by its marker, or quiet for long enough.
Complete(n, w) ==
    /\ ~ProjectionRegressed(n)
    /\ w.qualified
    /\ ~w.streaming
    /\ \/ ExplicitlySettled(n) /\ w.seen
       \/ /\ w.seen \/ (~w.discontinuous /\ w.age = MinAge)
          /\ w.quiet = Quiet

-----------------------------------------------------------------------------
(* waitForFreshAssistantResponse                                           *)

\* The function ends and its local variables with it.
Ends(kind, text) ==
    /\ outcome' = [kind |-> kind, text |-> text]
    /\ watch' = NoWatch
    /\ best' = FALSE /\ pendingGap' = FALSE

\* The region has nothing for this request yet.
SeesNothing(regions) ==
    /\ pendingGap' = IdentityGap(regions)
    /\ UNCHANGED <<watch, relayed, best, outcome>>

\* relayCaptureSnapshot: of a qualified node, when it has changed.
Relays(n, w) ==
    IF w.qualified /\ ~ProjectionRegressed(n) /\ (Changed(n) \/ BecameQualified(n))
    THEN relayed' = [key |-> n.key, text |-> n.text]
    ELSE UNCHANGED relayed

SeesReply(n, w) ==
    /\ Relays(n, w)
    /\ IF Complete(n, w) THEN Ends("returned", n.text)
       ELSE /\ watch' = w
            /\ best' = (best \/ (w.qualified /\ ~ProjectionRegressed(n)))
            /\ pendingGap' = FALSE
            /\ UNCHANGED outcome

\* One turn of the loop, woken by a mutation, by the worker or by a timer.
Observe ==
    /\ Pending
    /\ \E regions \in {Regions} :
          \E found \in {IF IdentityGap(regions) THEN {}
                       ELSE {n \in RecordedResponseSnapshot(regions) : Accepted(n)}} :
             \/ found = {} /\ SeesNothing(regions)
             \/ \E n \in found : \E w \in {Observed(n)} : SeesReply(n, w)
    /\ UNCHANGED <<pageVars, idle>>

Timeout ==
    /\ Pending
    /\ Ends(IF pendingGap /\ ~best THEN "identity_missing" ELSE "timed_out", Blank)
    /\ UNCHANGED <<pageVars, idle, relayed>>

Cancelled ==
    /\ Pending
    /\ Ends("cancelled", Blank)
    /\ UNCHANGED <<pageVars, idle, relayed>>

Init ==
    /\ site \in Sites
    /\ past = IF site.earlier THEN Earlier ELSE NoShot
    /\ bubble = FALSE
    /\ reply = [key |-> "", made |-> 0, view |-> 0, age |-> 0, active |-> FALSE,
                wasActive |-> FALSE, stage |-> "waiting"]
    /\ idle = 0
    /\ faults = [late |-> 0, shrinks |-> 0, decor |-> 0]
    /\ watch = NoWatch
    /\ relayed = NoShot
    /\ best = FALSE
    /\ pendingGap = FALSE
    /\ outcome = [kind |-> "pending", text |-> Blank]

Page ==
    \/ BubbleShown
    \/ ReplyStarts \/ Rekeyed \/ Grow \/ Activate \/ Deactivate \/ Finish
    \/ Shrink \/ Restore \/ Decorate

Next == (Pending /\ Page) \/ Tick \/ Observe \/ Timeout \/ Cancelled

Spec == Init /\ [][Next]_vars

\* Time passes, the loop is woken by a timer at least, and a page that dropped
\* part of the reply brings it back.
FairSpec ==
    Spec /\ WF_vars(Tick) /\ WF_vars(Observe) /\ WF_vars(Pending /\ Restore)

-----------------------------------------------------------------------------
(* Properties.                                                             *)

\* What is returned is the reply, and all of it: never its beginning, a status
\* line, the user's own message or the earlier turn.
WholeReply == outcome.kind = "returned" => outcome.text = Answer(Full)

\* What is relayed while the reply grows is of this request, and under one
\* identity a later snapshot never takes back what an earlier one showed.
RelaysOnlyGrow ==
    [][relayed' # relayed =>
          /\ relayed'.text.src \in {"status", "answer"}
          /\ relayed'.key = relayed.key /\ relayed'.text.src = relayed.text.src
             => relayed'.text.len >= relayed.text.len]_vars

\* A response that changed while it was not observed, with no sign of activity,
\* is returned only once it has outgrown everything seen before.
Blocked == watch.discontinuous /\ ~watch.seen

\* A page that is done and stays as it is has its reply returned, unless the
\* wait ends first; only Blocked excepted.
SettledIsReturned == <>[](Steady /\ ~Blocked) => <>(~Pending)
=============================================================================
