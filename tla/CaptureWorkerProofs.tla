------------------------ MODULE CaptureWorkerProofs ------------------------
(***************************************************************************)
(* Theorems about CaptureWorker, for any jobs, pages and bounds: no prompt *)
(* is sent twice under one claim, and who has the token of a running claim *)
(* has the claim's tab with it.  They share one inductive invariant, in    *)
(* two parts.  What names a claim (the worker's copies, the run of the     *)
(* tick, the captures, the outcomes, the relays) never names a token the   *)
(* server has not given out, and with the token of a running claim names   *)
(* its tab.  A claim on its way to a page is fresh: nothing was sent under *)
(* it and no page has it; then one page has it, and sends from one place.  *)
(***************************************************************************)
EXTENDS CaptureWorker, TLAPS

\* The job j's token k goes with the tab t; s, n and h are what the server has
\* for status, token and held.
Names(s, n, h, j, k, t) == k <= n[j] /\ (k = n[j] /\ s[j] = "claimed" => t = h[j])

ClaimsIn(c, s, n, h) ==
    /\ c \in [Job -> Claim]
    /\ \A j \in Job : /\ c[j].tab = NoTab => c[j] = NoClaim
                      /\ Names(s, n, h, j, c[j].token, c[j].tab)

TickIn(x, s, n, h) ==
    /\ x \in Tick
    /\ ClaimsIn(x.kept, s, n, h)
    /\ x.at \in {"inventory", "choose", "save", "dispatch"} => x.job \in Job
    /\ x.at \in {"poll", "save", "dispatch"} => x.tab \in Tab
    /\ x.at \in {"save", "dispatch"} => Names(s, n, h, x.job, x.token, x.tab)

\* What the run of the tick is about to hand to a page.
Fresh(x, m, c) ==
    x.at \in {"save", "dispatch"} =>
        /\ m[x.job][x.token] = 0
        /\ \A t \in Tab : ~(c[t].job = x.job /\ c[t].token = x.token)

RelaysIn(R, s, n, h) ==
    /\ R \subseteq Relay
    /\ \A r \in R : Names(s, n, h, r.job, r.use, r.on)

PostsIn(P, s, n, h) ==
    /\ P \subseteq Post
    /\ \A p \in P : Names(s, n, h, p.job, p.token, p.tab)

CapsIn(c, s, n, h) ==
    /\ c \in [Tab -> Capture]
    /\ \A t \in Tab : c[t] # NoCapture =>
          c[t].job \in Job /\ Names(s, n, h, c[t].job, c[t].token, t)

Unsent == {"prepare", "ready"}

SentIn(m, n, c) ==
    /\ m \in [Job -> [Token -> Nat]]
    /\ \A j \in Job, k \in Token : m[j][k] <= 1 /\ (k > n[j] => m[j][k] = 0)
    /\ \A t \in Tab : c[t].step \in Unsent => m[c[t].job][c[t].token] = 0
    /\ \A t, u \in Tab : /\ c[t] # NoCapture
                         /\ c[u].job = c[t].job /\ c[u].token = c[t].token
                         => u = t

ServerOK ==
    /\ status \in [Job -> {"absent", "queued", "claimed", "completed", "failed"}]
    /\ token \in [Job -> Token]
    /\ held \in [Job -> Tab \cup {NoTab}]
    /\ registered \in BOOLEAN
    /\ \A j \in Job : /\ status[j] = "absent" => token[j] = 0
                      /\ status[j] = "queued" => token[j] < MaxClaims
                      /\ status[j] = "claimed" => token[j] > 0 /\ held[j] \in Tab

StoreType == [Job -> Tab \cup {NoTab}]
StorageOK == stored \in StoreType /\ saves \in Seq(StoreType)
RefusalType == [tab : Tab, job : Job]

IInv ==
    /\ ServerOK
    /\ ClaimsIn(claims, status, token, held)
    /\ StorageOK
    /\ TickIn(tick, status, token, held)
    /\ Fresh(tick, sent, cap)
    /\ RelaysIn(relays, status, token, held)
    /\ PostsIn(posts, status, token, held)
    /\ CapsIn(cap, status, token, held)
    /\ SentIn(sent, token, cap)
    /\ refusals \subseteq RefusalType
    /\ faults \in 0..MaxFaults

-----------------------------------------------------------------------------
(* What names a claim goes on naming it.                                   *)

\* A claim that runs after the step ran before it, on the same tab, unless it
\* is a new one.
Moves(s, n, h, s2, n2, h2) ==
    \A j \in Job : /\ n2[j] \in Token /\ n[j] <= n2[j]
                   /\ n2[j] = n[j] /\ s2[j] = "claimed" => s[j] = "claimed" /\ h2[j] = h[j]

LEMMA TokenType == 0 \in Token /\ \A k \in Token : k \in Nat /\ k <= MaxClaims
<1>1. MaxClaims \in Nat
  BY BoundsAssumption
<1>2. QED
  BY <1>1, SMT DEF Token

LEMMA NamesCarried ==
    ASSUME NEW s, NEW n \in [Job -> Token], NEW h, NEW s2, NEW n2, NEW h2,
           Moves(s, n, h, s2, n2, h2),
           NEW j \in Job, NEW k \in Token, NEW t, Names(s, n, h, j, k, t)
    PROVE  Names(s2, n2, h2, j, k, t)
<1>1. k \in Nat /\ n[j] \in Nat /\ n2[j] \in Nat /\ n[j] <= n2[j]
  BY TokenType DEF Moves
<1>2. QED
  BY <1>1, SMT DEF Names, Moves

LEMMA ClaimsCarried ==
    ASSUME NEW s, NEW n \in [Job -> Token], NEW h, NEW s2, NEW n2, NEW h2,
           Moves(s, n, h, s2, n2, h2), NEW c, ClaimsIn(c, s, n, h)
    PROVE  ClaimsIn(c, s2, n2, h2)
<1>1. ASSUME NEW j \in Job PROVE Names(s2, n2, h2, j, c[j].token, c[j].tab)
  <2>1. c[j].token \in Token
    BY SMT DEF ClaimsIn, Claim
  <2>2. QED
    BY <2>1, NamesCarried DEF ClaimsIn
<1>2. QED
  BY <1>1 DEF ClaimsIn

LEMMA TickCarried ==
    ASSUME NEW s, NEW n \in [Job -> Token], NEW h, NEW s2, NEW n2, NEW h2,
           Moves(s, n, h, s2, n2, h2), NEW x, TickIn(x, s, n, h)
    PROVE  TickIn(x, s2, n2, h2)
<1>1. ClaimsIn(x.kept, s2, n2, h2)
  BY ClaimsCarried DEF TickIn
<1>2. x.token \in Token
  BY SMT DEF TickIn, Tick
<1>3. ASSUME x.at \in {"save", "dispatch"} PROVE Names(s2, n2, h2, x.job, x.token, x.tab)
  <2>1. x.job \in Job
    BY <1>3 DEF TickIn
  <2>2. QED
    BY <1>2, <1>3, <2>1, NamesCarried DEF TickIn
<1>4. QED
  BY <1>1, <1>3 DEF TickIn

LEMMA RelaysCarried ==
    ASSUME NEW s, NEW n \in [Job -> Token], NEW h, NEW s2, NEW n2, NEW h2,
           Moves(s, n, h, s2, n2, h2), NEW R, RelaysIn(R, s, n, h)
    PROVE  RelaysIn(R, s2, n2, h2)
<1>1. ASSUME NEW r \in R PROVE Names(s2, n2, h2, r.job, r.use, r.on)
  <2>1. r.job \in Job /\ r.use \in Token
    BY SMT DEF RelaysIn, Relay
  <2>2. QED
    BY <2>1, NamesCarried DEF RelaysIn
<1>2. QED
  BY <1>1 DEF RelaysIn

LEMMA PostsCarried ==
    ASSUME NEW s, NEW n \in [Job -> Token], NEW h, NEW s2, NEW n2, NEW h2,
           Moves(s, n, h, s2, n2, h2), NEW P, PostsIn(P, s, n, h)
    PROVE  PostsIn(P, s2, n2, h2)
<1>1. ASSUME NEW p \in P PROVE Names(s2, n2, h2, p.job, p.token, p.tab)
  <2>1. p.job \in Job /\ p.token \in Token
    BY SMT DEF PostsIn, Post
  <2>2. QED
    BY <2>1, NamesCarried DEF PostsIn
<1>2. QED
  BY <1>1 DEF PostsIn

LEMMA CapsCarried ==
    ASSUME NEW s, NEW n \in [Job -> Token], NEW h, NEW s2, NEW n2, NEW h2,
           Moves(s, n, h, s2, n2, h2), NEW c, CapsIn(c, s, n, h)
    PROVE  CapsIn(c, s2, n2, h2)
<1>1. ASSUME NEW t \in Tab, c[t] # NoCapture PROVE Names(s2, n2, h2, c[t].job, c[t].token, t)
  <2>1. c[t].token \in Token /\ c[t].job \in Job
    BY <1>1, SMT DEF CapsIn, Capture
  <2>2. QED
    BY <1>1, <2>1, NamesCarried DEF CapsIn
<1>2. QED
  BY <1>1 DEF CapsIn

LEMMA SentCarried ==
    ASSUME NEW s, NEW n \in [Job -> Token], NEW h, NEW s2, NEW n2, NEW h2,
           Moves(s, n, h, s2, n2, h2), NEW m, NEW c, SentIn(m, n, c)
    PROVE  SentIn(m, n2, c)
<1>1. ASSUME NEW j \in Job, NEW k \in Token, k > n2[j] PROVE m[j][k] = 0
  <2>1. n[j] \in Nat /\ n2[j] \in Nat /\ k \in Nat /\ n[j] <= n2[j]
    BY TokenType DEF Moves
  <2>2. k > n[j]
    BY <1>1, <2>1, SMT
  <2>3. QED
    BY <2>2 DEF SentIn
<1>2. QED
  BY <1>1 DEF SentIn

Now(c, x, R, P, d, m, b, f) ==
    /\ ClaimsIn(c, status, token, held)
    /\ TickIn(x, status, token, held)
    /\ Fresh(x, m, d)
    /\ RelaysIn(R, status, token, held)
    /\ PostsIn(P, status, token, held)
    /\ CapsIn(d, status, token, held)
    /\ SentIn(m, token, d)
    /\ b \subseteq RefusalType
    /\ f \in 0..MaxFaults

\* A step keeps the invariant if what it makes agrees with what the server had
\* before it, and the server moves by Moves.
LEMMA Closing ==
    ASSUME IInv, ServerOK', StorageOK', Moves(status, token, held, status', token', held'),
           Now(claims', tick', relays', posts', cap', sent', refusals', faults')
    PROVE  IInv'
<1>1. token \in [Job -> Token]
  BY DEF IInv, ServerOK
<1>2. ClaimsIn(claims', status', token', held') /\ TickIn(tick', status', token', held')
  BY <1>1, ClaimsCarried, TickCarried DEF Now
<1>3. RelaysIn(relays', status', token', held') /\ PostsIn(posts', status', token', held')
  BY <1>1, RelaysCarried, PostsCarried DEF Now
<1>4. CapsIn(cap', status', token', held') /\ SentIn(sent', token', cap')
  BY <1>1, CapsCarried, SentCarried DEF Now
<1>5. QED
  BY <1>2, <1>3, <1>4 DEF IInv, Now

LEMMA NowNow == IInv => Now(claims, tick, relays, posts, cap, sent, refusals, faults)
BY DEF IInv, Now

LEMMA ServerStill ==
    ASSUME IInv, UNCHANGED serverVars
    PROVE  ServerOK' /\ Moves(status, token, held, status', token', held')
<1>1. \A j \in Job : token[j] \in Token
  BY DEF IInv, ServerOK
<1>2. \A j \in Job : token[j] <= token[j]
  BY <1>1, TokenType, SMT
<1>3. status' = status /\ token' = token /\ held' = held /\ registered' = registered
  BY DEF serverVars
<1>4. ServerOK'
  BY <1>3 DEF IInv, ServerOK
<1>5. Moves(status, token, held, status', token', held')
  BY <1>1, <1>2, <1>3 DEF Moves
<1>6. QED
  BY <1>4, <1>5

LEMMA FaultCounted == ASSUME IInv, Fault \/ UNCHANGED faults PROVE faults' \in 0..MaxFaults
BY BoundsAssumption, SMT DEF IInv, Fault

-----------------------------------------------------------------------------
(* Captures.                                                               *)

\* Each page runs the capture it ran, or none, and is not nearer to sending.
Shrinks(c, d) ==
    /\ d \in [Tab -> Capture]
    /\ \A t \in Tab : d[t] # NoCapture =>
          /\ c[t] # NoCapture
          /\ d[t].job = c[t].job /\ d[t].token = c[t].token
          /\ d[t].step \in Unsent => c[t].step \in Unsent

LEMMA NoCaptureType ==
    /\ NoCapture \in Capture
    /\ NoCapture.step \notin Unsent
    /\ NoCapture.job = NoJob
    /\ NoJob \notin Job
BY TabsAssumption, TokenType, SMT DEF Capture, NoCapture, Unsent

LEMMA ShrinksSame ==
    ASSUME NEW c \in [Tab -> Capture] PROVE Shrinks(c, c)
BY DEF Shrinks

LEMMA ShrunkCaps ==
    ASSUME NEW s, NEW n, NEW h, NEW c, NEW d, CapsIn(c, s, n, h), Shrinks(c, d)
    PROVE  CapsIn(d, s, n, h)
BY DEF CapsIn, Shrinks

LEMMA ShrunkFresh ==
    ASSUME NEW s, NEW n, NEW h, NEW x, NEW m, NEW c, NEW d, TickIn(x, s, n, h),
           Fresh(x, m, c), Shrinks(c, d)
    PROVE  Fresh(x, m, d)
<1> SUFFICES ASSUME x.at \in {"save", "dispatch"}, NEW t \in Tab,
                    d[t].job = x.job, d[t].token = x.token
             PROVE  FALSE
  BY DEF Fresh
<1>1. x.job \in Job
  BY DEF TickIn
<1>2. d[t] # NoCapture
  BY <1>1, NoCaptureType
<1>3. QED
  BY <1>2 DEF Shrinks, Fresh

LEMMA ShrunkSent ==
    ASSUME NEW s, NEW n, NEW h, NEW m, NEW c, NEW d, CapsIn(c, s, n, h), SentIn(m, n, c),
           Shrinks(c, d)
    PROVE  SentIn(m, n, d)
<1>1. ASSUME NEW t \in Tab, d[t].step \in Unsent PROVE m[d[t].job][d[t].token] = 0
  <2>1. d[t] # NoCapture
    BY <1>1, NoCaptureType
  <2>2. c[t].step \in Unsent /\ d[t].job = c[t].job /\ d[t].token = c[t].token
    BY <1>1, <2>1 DEF Shrinks
  <2>3. QED
    BY <2>2 DEF SentIn
<1>2. ASSUME NEW t \in Tab, NEW u \in Tab, d[t] # NoCapture, d[u].job = d[t].job,
             d[u].token = d[t].token
      PROVE  u = t
  <2>1. c[t] # NoCapture /\ d[t].job = c[t].job /\ d[t].token = c[t].token
    BY <1>2 DEF Shrinks
  <2>2. d[u] # NoCapture
    BY <1>2, <2>1, NoCaptureType DEF CapsIn
  <2>3. d[u].job = c[u].job /\ d[u].token = c[u].token
    BY <2>2 DEF Shrinks
  <2>4. QED
    BY <1>2, <2>1, <2>3 DEF SentIn
<1>3. QED
  BY <1>1, <1>2 DEF SentIn

LEMMA LosesOne ==
    ASSUME NEW c \in [Tab -> Capture], NEW t \in Tab
    PROVE  Shrinks(c, [c EXCEPT ![t] = NoCapture])
BY NoCaptureType DEF Shrinks

CaptureSteps == {"none", "prepare", "ready", "unsent", "observe", "answer", "report"}

LEMMA Advances ==
    ASSUME NEW c \in [Tab -> Capture], NEW t \in Tab, c[t] # NoCapture,
           NEW st \in CaptureSteps, st \in Unsent => c[t].step \in Unsent
    PROVE  Shrinks(c, [c EXCEPT ![t].step = st])
<1> DEFINE r == [c[t] EXCEPT !.step = st]
<1> DEFINE d == [c EXCEPT ![t].step = st]
<1>1. r \in Capture /\ r.job = c[t].job /\ r.token = c[t].token /\ r.step = st
  BY SMT DEF Capture, CaptureSteps
<1>2. d = [c EXCEPT ![t] = r]
  OBVIOUS
<1> HIDE DEF d, r
<1>3. d \in [Tab -> Capture] /\ d[t] = r /\ \A u \in Tab : u # t => d[u] = c[u]
  BY <1>1, <1>2
<1>4. Shrinks(c, d)
  BY <1>1, <1>3 DEF Shrinks
<1>5. QED
  BY <1>4 DEF d

LEMMA StopsOne ==
    ASSUME NEW c \in [Tab -> Capture], NEW t \in Tab, c[t] # NoCapture
    PROVE  Shrinks(c, [c EXCEPT ![t].stop = TRUE])
<1> DEFINE r == [c[t] EXCEPT !.stop = TRUE]
<1> DEFINE d == [c EXCEPT ![t].stop = TRUE]
<1>1. r \in Capture
  BY Zenon DEF Capture
<1>2. r.job = c[t].job /\ r.token = c[t].token /\ r.step = c[t].step
  BY Zenon DEF Capture
<1>3. d = [c EXCEPT ![t] = r]
  OBVIOUS
<1> HIDE DEF d, r
<1>4. d \in [Tab -> Capture] /\ d[t] = r /\ \A u \in Tab : u # t => d[u] = c[u]
  BY <1>1, <1>3
<1>5. Shrinks(c, d)
  BY <1>2, <1>4 DEF Shrinks
<1>6. QED
  BY <1>5 DEF d

\* One send: the claim is used up, and no other capture is of it.
LEMMA SentOnce ==
    ASSUME NEW s, NEW n \in [Job -> Token], NEW h, NEW m, NEW c, NEW d,
           CapsIn(c, s, n, h), SentIn(m, n, c), Shrinks(c, d),
           NEW x, TickIn(x, s, n, h), Fresh(x, m, c),
           NEW t \in Tab, c[t].step \in Unsent, d[t].step \notin Unsent
    PROVE  LET m2 == [m EXCEPT ![c[t].job][c[t].token] = @ + 1]
           IN  SentIn(m2, n, d) /\ Fresh(x, m2, d)
<1> DEFINE j == c[t].job
<1> DEFINE k == c[t].token
<1> DEFINE m2 == [m EXCEPT ![j][k] = @ + 1]
<1>0. SentIn(m, n, d) /\ Fresh(x, m, d)
  BY ShrunkSent, ShrunkFresh
<1>1. c[t] # NoCapture
  BY NoCaptureType
<1>2. j \in Job /\ k \in Token /\ n[j] \in Token /\ k <= n[j]
  BY <1>1, SMT DEF CapsIn, Capture, Names
<1>3. m[j][k] = 0
  BY DEF SentIn
<1>4. m \in [Job -> [Token -> Nat]]
  BY DEF SentIn
<1> HIDE DEF j, k
<1>5. m2 \in [Job -> [Token -> Nat]]
  BY <1>2, <1>4
<1>6. m2[j][k] = 1
  BY <1>2, <1>3, <1>4
<1>7. \A i \in Job, l \in Token : i # j \/ l # k => m2[i][l] = m[i][l]
  BY <1>2, <1>4
<1> HIDE DEF m2
<1>8. ASSUME NEW i \in Job, NEW l \in Token PROVE m2[i][l] <= 1 /\ (l > n[i] => m2[i][l] = 0)
  <2>1. CASE i = j /\ l = k
    <3>1. ~(k > n[j])
      BY <1>2, TokenType, SMT
    <3>2. QED
      BY <1>6, <2>1, <3>1
  <2>2. CASE i # j \/ l # k
    BY <1>7, <2>2 DEF SentIn
  <2>3. QED
    BY <2>1, <2>2
<1>9. ASSUME NEW u \in Tab, d[u].step \in Unsent PROVE m2[d[u].job][d[u].token] = 0
  <2>1. d[u] # NoCapture /\ u # t
    BY <1>9, NoCaptureType
  <2>2. c[u] # NoCapture /\ d[u].job = c[u].job /\ d[u].token = c[u].token
    BY <2>1 DEF Shrinks
  <2>3. ~(c[u].job = j /\ c[u].token = k)
    BY <1>1, <2>1 DEF SentIn, j, k
  <2>4. c[u].job \in Job /\ c[u].token \in Token
    BY <2>2, SMT DEF CapsIn, Capture
  <2>5. m[d[u].job][d[u].token] = 0
    BY <1>0, <1>9 DEF SentIn
  <2>6. QED
    BY <1>7, <2>2, <2>3, <2>4, <2>5
<1>10. SentIn(m2, n, d)
  BY <1>0, <1>5, <1>8, <1>9 DEF SentIn
<1>11. Fresh(x, m2, d)
  <2> SUFFICES ASSUME x.at \in {"save", "dispatch"} PROVE m2[x.job][x.token] = 0
    BY <1>0 DEF Fresh
  <2>1. x.job \in Job /\ x.token \in Token
    BY SMT DEF TickIn, Tick
  <2>2. ~(j = x.job /\ k = x.token)
    BY DEF Fresh, j, k
  <2>3. QED
    BY <1>7, <2>1, <2>2 DEF Fresh
<1>12. QED
  BY <1>10, <1>11 DEF m2, j, k

\* auto_capture reaches a page that runs nothing.
LEMMA ReceivedOK ==
    ASSUME NEW s, NEW n, NEW h, NEW m, NEW c, CapsIn(c, s, n, h), SentIn(m, n, c),
           NEW x, TickIn(x, s, n, h), Fresh(x, m, c), x.at = "dispatch",
           NEW t \in Tab, t = x.tab, c[t] = NoCapture
    PROVE  LET d == [c EXCEPT ![t] = [job |-> x.job, token |-> x.token, step |-> "prepare",
                                      stop |-> FALSE]]
           IN  CapsIn(d, s, n, h) /\ SentIn(m, n, d)
<1> DEFINE r == [job |-> x.job, token |-> x.token, step |-> "prepare", stop |-> FALSE]
<1> DEFINE d == [c EXCEPT ![t] = r]
<1>1. x.job \in Job /\ x.token \in Token
  BY SMT DEF TickIn, Tick
<1>2. r \in Capture
  BY <1>1, SMT DEF Capture
<1>2a. r.job = x.job /\ r.token = x.token
  OBVIOUS
<1>3. Names(s, n, h, x.job, x.token, t) /\ m[x.job][x.token] = 0
  BY DEF TickIn, Fresh
<1> HIDE DEF r
<1>4. d \in [Tab -> Capture] /\ d[t] = r /\ \A u \in Tab : u # t => d[u] = c[u]
  BY <1>2 DEF CapsIn
<1> HIDE DEF d
<1>5. CapsIn(d, s, n, h)
  BY <1>1, <1>2a, <1>3, <1>4 DEF CapsIn
<1>6. \A u \in Tab : u # t => ~(d[u].job = x.job /\ d[u].token = x.token)
  BY <1>4 DEF Fresh
<1>7. SentIn(m, n, d)
  <2>1. \A u \in Tab : d[u].step \in Unsent => m[d[u].job][d[u].token] = 0
    BY <1>2a, <1>3, <1>4 DEF SentIn
  <2>2. \A u, v \in Tab : /\ d[u] # NoCapture
                          /\ d[v].job = d[u].job /\ d[v].token = d[u].token
                          => v = u
    BY <1>2a, <1>4, <1>6 DEF SentIn
  <2>3. QED
    BY <2>1, <2>2 DEF SentIn
<1>8. QED
  BY <1>5, <1>7 DEF d, r

-----------------------------------------------------------------------------
(* The run of the tick.                                                    *)

Ats == {"idle", "reconcile", "cancel", "register", "load", "inventory", "choose",
        "poll", "save", "dispatch"}
TickMoved(x, a) == [x EXCEPT !.at = a]
TickStarted(x, a, todo, kept) == [x EXCEPT !.at = a, !.todo = todo, !.kept = kept]
TickLooked(x, a, todo, gone) == [x EXCEPT !.at = a, !.todo = todo, !.gone = gone]
TickOffered(x, a, j, busy) == [x EXCEPT !.at = a, !.job = j, !.busy = busy]
TickPolls(x, a, t) == [x EXCEPT !.at = a, !.tab = t]
TickClaimed(x, a, j, k, n) == [x EXCEPT !.at = a, !.job = j, !.token = k, !.left = n]
TickLeft(x, n) == [x EXCEPT !.left = n]
TickKept(x, kept) == [x EXCEPT !.kept = kept]

LEMMA AtNames ==
    /\ "idle" \in Ats /\ "reconcile" \in Ats /\ "cancel" \in Ats /\ "register" \in Ats
    /\ "load" \in Ats /\ "inventory" \in Ats /\ "choose" \in Ats /\ "poll" \in Ats
    /\ "save" \in Ats /\ "dispatch" \in Ats
BY SMT DEF Ats

LEMMA TickMovedType ==
    ASSUME NEW x \in Tick, NEW a \in Ats
    PROVE  LET y == TickMoved(x, a)
           IN  /\ y \in Tick /\ y.at = a /\ y.kept = x.kept
               /\ y.job = x.job /\ y.token = x.token /\ y.tab = x.tab
<1> DEFINE y == [x EXCEPT !.at = a]
<1>1. y \in Tick
  BY Zenon DEF Tick, Ats
<1>2. y.at = a /\ y.kept = x.kept /\ y.job = x.job /\ y.token = x.token /\ y.tab = x.tab
  BY Zenon DEF Tick
<1>3. y = TickMoved(x, a)
  BY DEF TickMoved
<1> HIDE DEF y
<1>4. QED
  BY <1>1, <1>2, <1>3, Zenon

LEMMA TickStartedType ==
    ASSUME NEW x \in Tick, NEW a \in Ats, NEW b \in SUBSET Job, NEW c \in [Job -> Claim]
    PROVE  LET y == TickStarted(x, a, b, c) IN y \in Tick /\ y.at = a /\ y.kept = c
<1> DEFINE y == [x EXCEPT !.at = a, !.todo = b, !.kept = c]
<1>1. y \in Tick
  BY Zenon DEF Tick, Ats
<1>2. y.at = a /\ y.kept = c
  BY Zenon DEF Tick
<1>3. y = TickStarted(x, a, b, c)
  BY DEF TickStarted
<1> HIDE DEF y
<1>4. QED
  BY <1>1, <1>2, <1>3, Zenon

LEMMA TickLookedType ==
    ASSUME NEW x \in Tick, NEW a \in Ats, NEW b \in SUBSET Job, NEW c \in SUBSET Job
    PROVE  LET y == TickLooked(x, a, b, c) IN y \in Tick /\ y.at = a /\ y.kept = x.kept
<1> DEFINE y == [x EXCEPT !.at = a, !.todo = b, !.gone = c]
<1>1. y \in Tick
  BY Zenon DEF Tick, Ats
<1>2. y.at = a /\ y.kept = x.kept
  BY Zenon DEF Tick
<1>3. y = TickLooked(x, a, b, c)
  BY DEF TickLooked
<1> HIDE DEF y
<1>4. QED
  BY <1>1, <1>2, <1>3, Zenon

LEMMA TickOfferedType ==
    ASSUME NEW x \in Tick, NEW a \in Ats, NEW j \in Job, NEW b \in SUBSET Tab
    PROVE  LET y == TickOffered(x, a, j, b)
           IN  y \in Tick /\ y.at = a /\ y.kept = x.kept /\ y.job = j
<1> DEFINE y == [x EXCEPT !.at = a, !.job = j, !.busy = b]
<1>1. y \in Tick
  BY Zenon DEF Tick, Ats
<1>2. y.at = a /\ y.kept = x.kept /\ y.job = j
  BY Zenon DEF Tick
<1>3. y = TickOffered(x, a, j, b)
  BY DEF TickOffered
<1> HIDE DEF y
<1>4. QED
  BY <1>1, <1>2, <1>3, Zenon

LEMMA TickPollsType ==
    ASSUME NEW x \in Tick, NEW a \in Ats, NEW t \in Tab
    PROVE  LET y == TickPolls(x, a, t) IN y \in Tick /\ y.at = a /\ y.kept = x.kept /\ y.tab = t
<1> DEFINE y == [x EXCEPT !.at = a, !.tab = t]
<1>1. y \in Tick
  BY Zenon DEF Tick, Ats
<1>2. y.at = a /\ y.kept = x.kept /\ y.tab = t
  BY Zenon DEF Tick
<1>3. y = TickPolls(x, a, t)
  BY DEF TickPolls
<1> HIDE DEF y
<1>4. QED
  BY <1>1, <1>2, <1>3, Zenon

LEMMA TickClaimedType ==
    ASSUME NEW x \in Tick, NEW a \in Ats, NEW j \in Job, NEW k \in Token, NEW n \in Nat
    PROVE  LET y == TickClaimed(x, a, j, k, n)
           IN  /\ y \in Tick /\ y.at = a /\ y.kept = x.kept
               /\ y.job = j /\ y.token = k /\ y.tab = x.tab /\ y.left = n
<1> DEFINE y == [x EXCEPT !.at = a, !.job = j, !.token = k, !.left = n]
<1>1. y \in Tick
  BY Zenon DEF Tick, Ats
<1>2. y.at = a /\ y.kept = x.kept /\ y.job = j /\ y.token = k /\ y.tab = x.tab /\ y.left = n
  BY Zenon DEF Tick
<1>3. y = TickClaimed(x, a, j, k, n)
  BY DEF TickClaimed
<1> HIDE DEF y
<1>4. QED
  BY <1>1, <1>2, <1>3, Zenon

LEMMA TickLeftType ==
    ASSUME NEW x \in Tick, NEW n \in Nat
    PROVE  LET y == TickLeft(x, n)
           IN  /\ y \in Tick /\ y.at = x.at /\ y.kept = x.kept
               /\ y.job = x.job /\ y.token = x.token /\ y.tab = x.tab
               /\ y.left = n
BY SMT DEF Tick, TickLeft

LEMMA TickKeptType ==
    ASSUME NEW x \in Tick, NEW c \in [Job -> Claim]
    PROVE  LET y == TickKept(x, c)
           IN  /\ y \in Tick /\ y.at = x.at /\ y.kept = c
               /\ y.job = x.job /\ y.token = x.token /\ y.tab = x.tab
BY SMT DEF Tick, TickKept

LEMMA ClaimType ==
    /\ NoClaim \in Claim /\ NoClaim.tab = NoTab /\ NoClaim.token = 0
    /\ \A c \in Claim : c.tab \in Tab \cup {NoTab} /\ c.token \in Token
BY TokenType, SMT DEF Claim, NoClaim

\* Nothing is named by no token.
LEMMA NoTokenNames ==
    ASSUME IInv, NEW j \in Job, NEW t PROVE Names(status, token, held, j, 0, t)
<1>1. token[j] \in Nat /\ (status[j] = "claimed" => token[j] > 0)
  BY TokenType DEF IInv, ServerOK
<1>2. QED
  BY <1>1, SMT DEF Names

LEMMA NoClaimsOK ==
    ASSUME IInv PROVE ClaimsIn([j \in Job |-> NoClaim], status, token, held)
BY ClaimType, NoTokenNames DEF ClaimsIn

LEMMA IdleTickFacts ==
    /\ IdleTick \in Tick /\ IdleTick.at = "idle"
    /\ IdleTick.kept = [j \in Job |-> NoClaim]
<1>1. IdleTick \in Tick
  BY ClaimType, TokenType, SMT DEF Tick, IdleTick
<1>2. QED
  BY <1>1, SMT DEF IdleTick

\* A run that is not about to hand a claim to a page.
LEMMA PlainTick ==
    ASSUME NEW s, NEW n, NEW h, NEW m, NEW c, NEW x \in Tick, ClaimsIn(x.kept, s, n, h),
           x.at \in {"idle", "reconcile", "cancel", "register", "load"}
    PROVE  TickIn(x, s, n, h) /\ Fresh(x, m, c)
BY SMT DEF TickIn, Fresh

LEMMA IdleTickOK ==
    ASSUME IInv, NEW m, NEW c
    PROVE  TickIn(IdleTick, status, token, held) /\ Fresh(IdleTick, m, c)
BY IdleTickFacts, NoClaimsOK, PlainTick

-----------------------------------------------------------------------------
(* Claims, outcomes and relays.                                            *)

LEMMA SerialisedType ==
    ASSUME NEW c \in [Job -> Claim] PROVE Serialised(c) \in StoreType
BY ClaimType DEF Serialised, StoreType

LEMMA PersistType ==
    ASSUME saves \in Seq(StoreType), NEW c \in [Job -> Claim], Persist(c)
    PROVE  saves' \in Seq(StoreType)
<1>1. Append(saves, Serialised(c)) \in Seq(StoreType)
  BY SerialisedType
<1>2. QED
  BY <1>1 DEF Persist

LEMMA ForgottenOK ==
    ASSUME NEW s, NEW n, NEW h, NEW c, ClaimsIn(c, s, n, h), NEW j \in Job,
           Names(s, n, h, j, 0, NoTab)
    PROVE  ClaimsIn([c EXCEPT ![j] = NoClaim], s, n, h)
<1> DEFINE d == [c EXCEPT ![j] = NoClaim]
<1>1. d \in [Job -> Claim] /\ d[j] = NoClaim /\ \A i \in Job : i # j => d[i] = c[i]
  BY ClaimType DEF ClaimsIn
<1> HIDE DEF d
<1>2. ClaimsIn(d, s, n, h)
  BY <1>1, ClaimType DEF ClaimsIn
<1>3. QED
  BY <1>2 DEF d

LEMMA FailureType ==
    ASSUME NEW t \in Tab, NEW j \in Job, NEW k \in Token
    PROVE  /\ Failure(t, j, k) \in Post
           /\ Failure(t, j, k).job = j /\ Failure(t, j, k).token = k /\ Failure(t, j, k).tab = t
           /\ Failure(t, j, k).tries = 0
<1>1. 0 \in 0..Attempts
  BY BoundsAssumption, SMT
<1>2. QED
  BY <1>1, SMT DEF Failure, Post

PostAs(p, ok) == [p EXCEPT !.ok = ok]
PostOpen(p, open) == [p EXCEPT !.open = open]
PostTried(p, n, open) == [p EXCEPT !.tries = n, !.open = open]

LEMMA PostAsType ==
    ASSUME NEW p \in Post, NEW b \in BOOLEAN
    PROVE  LET q == PostAs(p, b)
           IN  /\ q \in Post /\ q.job = p.job /\ q.token = p.token /\ q.tab = p.tab
               /\ q.tries = p.tries
BY Zenon DEF Post, PostAs

LEMMA PostOpenType ==
    ASSUME NEW p \in Post, NEW b \in BOOLEAN
    PROVE  LET q == PostOpen(p, b)
           IN  /\ q \in Post /\ q.job = p.job /\ q.token = p.token /\ q.tab = p.tab
               /\ q.ok = p.ok /\ q.tries = p.tries /\ q.open = b
BY Zenon DEF Post, PostOpen

LEMMA PostTriedType ==
    ASSUME NEW p \in Post, NEW n \in 0..Attempts, NEW b \in BOOLEAN
    PROVE  LET q == PostTried(p, n, b)
           IN  /\ q \in Post /\ q.job = p.job /\ q.token = p.token /\ q.tab = p.tab
               /\ q.ok = p.ok /\ q.tries = n /\ q.open = b
BY Zenon DEF Post, PostTried

\* An outcome is replaced by one of the same claim.
LEMMA PostReplaced ==
    ASSUME NEW s, NEW n, NEW h, NEW P, PostsIn(P, s, n, h), NEW p \in P, NEW q \in Post,
           q.job = p.job, q.token = p.token, q.tab = p.tab
    PROVE  PostsIn((P \ {p}) \cup {q}, s, n, h)
BY DEF PostsIn

LEMMA PostsFewer ==
    ASSUME NEW s, NEW n, NEW h, NEW P, PostsIn(P, s, n, h), NEW Q, Q \subseteq P
    PROVE  PostsIn(Q, s, n, h)
BY DEF PostsIn

LEMMA PostAdded ==
    ASSUME NEW s, NEW n, NEW h, NEW P, PostsIn(P, s, n, h), NEW q \in Post,
           Names(s, n, h, q.job, q.token, q.tab)
    PROVE  PostsIn(P \cup {q}, s, n, h)
BY DEF PostsIn

LEMMA RelaysFewer ==
    ASSUME NEW s, NEW n, NEW h, NEW R, RelaysIn(R, s, n, h), NEW Q, Q \subseteq R
    PROVE  RelaysIn(Q, s, n, h)
BY DEF RelaysIn

LEMMA RelayAdded ==
    ASSUME NEW s, NEW n, NEW h, NEW R, RelaysIn(R, s, n, h), NEW q \in Relay,
           Names(s, n, h, q.job, q.use, q.on)
    PROVE  RelaysIn(R \cup {q}, s, n, h)
BY DEF RelaysIn

-----------------------------------------------------------------------------
(* The server on its own.                                                  *)

\* Only what the server has changes.
LEMMA ServerStep ==
    ASSUME IInv, ServerOK', Moves(status, token, held, status', token', held'),
           UNCHANGED <<workerVars, relays, pageVars, faults>>
    PROVE  IInv'
<1>1. /\ claims' = claims /\ stored' = stored /\ saves' = saves /\ tick' = tick
      /\ relays' = relays /\ cap' = cap /\ posts' = posts /\ refusals' = refusals
      /\ sent' = sent /\ faults' = faults
  BY DEF workerVars, pageVars
<1>2. StorageOK'
  BY <1>1 DEF IInv, StorageOK
<1>3. Now(claims', tick', relays', posts', cap', sent', refusals', faults')
  BY <1>1, NowNow DEF Now
<1>4. QED
  BY <1>2, <1>3, Closing

LEMMA SubmitStep == ASSUME IInv, NEW j \in Job, Submit(j) PROVE IInv'
<1>1. /\ token' = token /\ held' = held /\ registered' = registered
      /\ status[j] = "absent" /\ status' = [status EXCEPT ![j] = "queued"]
      /\ UNCHANGED <<workerVars, relays, pageVars, faults>>
  BY DEF Submit
<1>2. token[j] < MaxClaims
  BY <1>1, BoundsAssumption DEF IInv, ServerOK
<1>3. ServerOK'
  BY <1>1, <1>2 DEF IInv, ServerOK
<1>4. \A i \in Job : token[i] \in Token /\ token[i] <= token[i]
  BY TokenType DEF IInv, ServerOK
<1>5. Moves(status, token, held, status', token', held')
  BY <1>1, <1>4 DEF Moves, IInv, ServerOK
<1>6. QED
  BY <1>1, <1>3, <1>5, ServerStep

LEMMA LapseStep == ASSUME IInv, NEW j \in Job, Lapse(j) PROVE IInv'
<1>1. /\ token' = token /\ registered' = registered
      /\ status' = [status EXCEPT ![j] = Retried(j)]
      /\ held' = [held EXCEPT ![j] = NoTab]
      /\ UNCHANGED <<workerVars, relays, pageVars, faults>>
  BY DEF Lapse
<1>2. Retried(j) \in {"queued", "failed"} /\ (Retried(j) = "queued" => token[j] < MaxClaims)
  BY DEF Retried
<1>3. ServerOK'
  BY <1>1, <1>2 DEF IInv, ServerOK
<1>4. \A i \in Job : token[i] \in Token /\ token[i] <= token[i]
  BY TokenType DEF IInv, ServerOK
<1>5. Moves(status, token, held, status', token', held')
  BY <1>1, <1>2, <1>4 DEF Moves, IInv, ServerOK
<1>6. QED
  BY <1>1, <1>3, <1>5, ServerStep

LEMMA ExpireStep == ASSUME IInv, NEW j \in Job, Expire(j) PROVE IInv'
<1>1. /\ token' = token /\ held' = held /\ registered' = registered
      /\ status' = [status EXCEPT ![j] = "failed"]
      /\ UNCHANGED <<workerVars, relays, pageVars, faults>>
  BY DEF Expire
<1>2. ServerOK'
  BY <1>1 DEF IInv, ServerOK
<1>3. \A i \in Job : token[i] \in Token /\ token[i] <= token[i]
  BY TokenType DEF IInv, ServerOK
<1>4. Moves(status, token, held, status', token', held')
  BY <1>1, <1>3 DEF Moves, IInv, ServerOK
<1>5. QED
  BY <1>1, <1>2, <1>4, ServerStep

LEMMA TakeOverMoves ==
    ASSUME IInv, TakeOver
    PROVE  ServerOK' /\ Moves(status, token, held, status', token', held')
<1> DEFINE R == {j \in Job : status[j] = "claimed" /\ ~registered}
<1>1. /\ token' = token /\ registered' = TRUE
      /\ status' = [j \in Job |-> IF j \in R THEN Retried(j) ELSE status[j]]
      /\ held' = [j \in Job |-> IF j \in R THEN NoTab ELSE held[j]]
  BY DEF TakeOver
<1> HIDE DEF R
<1>2. \A j \in Job : Retried(j) \in {"queued", "failed"}
                     /\ (Retried(j) = "queued" => token[j] < MaxClaims)
  BY DEF Retried
<1>3. ServerOK'
  BY <1>1, <1>2 DEF IInv, ServerOK
<1>4. \A i \in Job : token[i] \in Token /\ token[i] <= token[i]
  BY TokenType DEF IInv, ServerOK
<1>5. Moves(status, token, held, status', token', held')
  BY <1>1, <1>2, <1>4 DEF Moves
<1>6. QED
  BY <1>3, <1>5

\* browser_result ends a job at most.
LEMMA DecideMoves ==
    ASSUME IInv, NEW r \in relays, Decide(r)
    PROVE  ServerOK' /\ Moves(status, token, held, status', token', held')
<1>1. r.job \in Job
  BY SMT DEF IInv, RelaysIn, Relay
<1>2. /\ token' = token /\ held' = held /\ registered' = registered
      /\ \/ status' = status
         \/ status' = [status EXCEPT ![r.job] = IF r.ok THEN "completed" ELSE "failed"]
  BY DEF Decide
<1>3. ServerOK'
  BY <1>1, <1>2 DEF IInv, ServerOK
<1>4. \A i \in Job : token[i] \in Token /\ token[i] <= token[i]
  BY TokenType DEF IInv, ServerOK
<1>5. Moves(status, token, held, status', token', held')
  BY <1>1, <1>2, <1>4 DEF Moves, IInv, ServerOK
<1>6. QED
  BY <1>3, <1>5

-----------------------------------------------------------------------------
(* The tick.                                                               *)

\* Only the run of the tick and what the server has change.
LEMMA TickQuiet ==
    ASSUME IInv, ServerOK', Moves(status, token, held, status', token', held'), TickOnly,
           TickIn(tick', status, token, held), Fresh(tick', sent, cap),
           Fault \/ UNCHANGED faults
    PROVE  IInv'
<1>1. /\ claims' = claims /\ stored' = stored /\ saves' = saves
      /\ relays' = relays /\ cap' = cap /\ posts' = posts /\ refusals' = refusals
      /\ sent' = sent
  BY DEF TickOnly, pageVars
<1>2. StorageOK'
  BY <1>1 DEF IInv, StorageOK
<1>3. faults' \in 0..MaxFaults
  BY FaultCounted
<1>4. Now(claims', tick', relays', posts', cap', sent', refusals', faults')
  BY <1>1, <1>3, NowNow DEF Now
<1>5. QED
  BY <1>2, <1>4, Closing

LEMMA TickQuietEnd ==
    ASSUME IInv, UNCHANGED serverVars, TickOnly, TickEnds, Fault \/ UNCHANGED faults
    PROVE  IInv'
<1>1. TickIn(tick', status, token, held) /\ Fresh(tick', sent, cap)
  BY IdleTickOK DEF TickEnds
<1>2. QED
  BY <1>1, ServerStill, TickQuiet

LEMMA NowTick ==
    ASSUME IInv
    PROVE  /\ tick \in Tick /\ ClaimsIn(tick.kept, status, token, held)
           /\ ClaimsIn(claims, status, token, held)
           /\ tick.job \in Job \cup {NoJob} /\ tick.token \in Token
           /\ tick.todo \in SUBSET Job /\ tick.gone \in SUBSET Job
           /\ tick.kept \in [Job -> Claim] /\ claims \in [Job -> Claim]
BY SMT DEF IInv, TickIn, Tick, ClaimsIn

LEMMA TickStartStep == ASSUME IInv, TickStart PROVE IInv'
<1>1. TickOnly /\ UNCHANGED serverVars /\ UNCHANGED faults
  BY DEF TickStart
<1> DEFINE y == TickMoved(IdleTick, "register")
<1> DEFINE z == TickStarted(IdleTick, "reconcile", {j \in Job : Known(j)}, claims)
<1>2. y \in Tick /\ y.at = "register" /\ y.kept = IdleTick.kept
  BY IdleTickFacts, AtNames, TickMovedType
<1>3. z \in Tick /\ z.at = "reconcile" /\ z.kept = claims
  BY IdleTickFacts, AtNames, NowTick, TickStartedType
<1>4. tick' = y \/ tick' = z
  BY DEF TickStart, TickMoved, TickStarted
<1> HIDE DEF y, z
<1>5. TickIn(tick', status, token, held) /\ Fresh(tick', sent, cap)
  <2>1. CASE tick' = y
    BY <1>2, <2>1, NoClaimsOK, IdleTickFacts, PlainTick
  <2>2. CASE tick' = z
    BY <1>3, <2>2, NowTick, PlainTick
  <2>3. QED
    BY <1>4, <2>1, <2>2
<1>6. QED
  BY <1>1, <1>5, ServerStill, TickQuiet

LEMMA LookedUp ==
    ASSUME IInv, NEW j \in Job, LookUp(j)
    PROVE  \E a \in {"reconcile", "cancel"}, g \in SUBSET Job :
              tick' = TickLooked(tick, a, tick.todo \ {j}, g)
<1> DEFINE a == IF tick.todo = {j} THEN "cancel" ELSE "reconcile"
<1> DEFINE g == IF StillClaimed(j) THEN tick.gone ELSE tick.gone \cup {j}
<1>1. \/ tick' = [tick EXCEPT !.at = a, !.todo = tick.todo \ {j}, !.gone = g]
      \/ tick' = [tick EXCEPT !.at = a, !.todo = tick.todo \ {j}]
  BY DEF LookUp
<1>2. CASE tick' = [tick EXCEPT !.at = a, !.todo = tick.todo \ {j}, !.gone = g]
  <2>1. g \in SUBSET Job /\ a \in {"reconcile", "cancel"}
    BY NowTick
  <2>2. tick' = TickLooked(tick, a, tick.todo \ {j}, g)
    BY <1>2 DEF TickLooked
  <2>3. QED
    BY <2>1, <2>2
<1>3. CASE tick' = [tick EXCEPT !.at = a, !.todo = tick.todo \ {j}]
  <2>1. [tick EXCEPT !.at = a, !.todo = tick.todo \ {j}]
           = [tick EXCEPT !.at = a, !.todo = tick.todo \ {j}, !.gone = tick.gone]
    <3> HIDE DEF a
    <3>1. QED
      BY NowTick, Zenon DEF Tick
  <2>2. tick' = TickLooked(tick, a, tick.todo \ {j}, tick.gone)
    BY <1>3, <2>1 DEF TickLooked
  <2>3. QED
    BY <2>2, NowTick
<1>4. QED
  BY <1>1, <1>2, <1>3

LEMMA LookUpStep == ASSUME IInv, NEW j \in Job, LookUp(j) PROVE IInv'
<1>1. TickOnly /\ UNCHANGED serverVars /\ (Fault \/ UNCHANGED faults)
  BY DEF LookUp
<1>2. PICK a \in {"reconcile", "cancel"}, g \in SUBSET Job :
         tick' = TickLooked(tick, a, tick.todo \ {j}, g)
  BY LookedUp
<1>3. a \in Ats /\ tick.todo \ {j} \in SUBSET Job
  BY NowTick, AtNames
<1>4. tick' \in Tick /\ tick'.at = a /\ tick'.kept = tick.kept
  BY <1>2, <1>3, NowTick, TickLookedType
<1>5. TickIn(tick', status, token, held) /\ Fresh(tick', sent, cap)
  BY <1>4, NowTick, PlainTick
<1>6. QED
  BY <1>1, <1>5, ServerStill, TickQuiet

LEMMA RegisterStep == ASSUME IInv, RegisterBrowserClient PROVE IInv'
<1> DEFINE a == IF tick.at = "register" THEN "load" ELSE "choose"
<1>1. /\ TickOnly /\ tick' = TickMoved(tick, a) /\ tick.at \in {"register", "inventory"}
      /\ (TakeOver /\ UNCHANGED faults) \/ (Fault /\ UNCHANGED serverVars)
  BY DEF RegisterBrowserClient, TickMoved
<1>2. a \in Ats /\ a \in {"load", "choose"} /\ (a = "choose" => tick.at = "inventory")
  BY <1>1, AtNames
<1> HIDE DEF a
<1>3. tick' \in Tick /\ tick'.at = a /\ tick'.kept = tick.kept /\ tick'.job = tick.job
  BY <1>1, <1>2, NowTick, TickMovedType
<1>4. tick'.at = "choose" => tick'.job \in Job
  BY <1>2, <1>3, SMT DEF IInv, TickIn
<1>5. TickIn(tick', status, token, held) /\ Fresh(tick', sent, cap)
  BY <1>2, <1>3, <1>4, NowTick, SMT DEF TickIn, Fresh
<1>6. ServerOK' /\ Moves(status, token, held, status', token', held')
  BY <1>1, TakeOverMoves, ServerStill
<1>7. QED
  BY <1>1, <1>5, <1>6, TickQuiet

LEMMA LoadPendingStep == ASSUME IInv, LoadPending PROVE IInv'
<1>1. TickOnly /\ UNCHANGED serverVars
  BY DEF LoadPending
<1>2. CASE TickEnds /\ (Fault \/ UNCHANGED faults)
  BY <1>1, <1>2, TickQuietEnd
<1>3. ASSUME NEW j \in Job, UNCHANGED faults,
             tick' = [tick EXCEPT !.at = "inventory", !.job = j,
                              !.busy = {held[k] : k \in {i \in Job : status[i] = "claimed"}}]
      PROVE  IInv'
  <2> DEFINE b == {held[k] : k \in {i \in Job : status[i] = "claimed"}}
  <2>1. b \in SUBSET Tab
    BY DEF IInv, ServerOK
  <2>2. tick' = TickOffered(tick, "inventory", j, b)
    BY <1>3 DEF TickOffered
  <2> HIDE DEF b
  <2>3. tick' \in Tick /\ tick'.at = "inventory" /\ tick'.kept = tick.kept /\ tick'.job = j
    BY <2>1, <2>2, NowTick, AtNames, TickOfferedType
  <2>4. TickIn(tick', status, token, held) /\ Fresh(tick', sent, cap)
    BY <2>3, NowTick, SMT DEF TickIn, Fresh
  <2>5. QED
    BY <1>1, <1>3, <2>4, ServerStill, TickQuiet
<1>4. QED
  BY <1>2, <1>3 DEF LoadPending

LEMMA ChooseTabStep == ASSUME IInv, ChooseTab PROVE IInv'
<1>1. TickOnly /\ UNCHANGED serverVars /\ tick.at = "choose"
  BY DEF ChooseTab
<1>2. CASE TickEnds /\ (Fault \/ UNCHANGED faults)
  BY <1>1, <1>2, TickQuietEnd
<1>3. ASSUME NEW t \in Choices(tick.job), UNCHANGED faults,
             tick' = [IdleTick EXCEPT !.at = "poll", !.tab = t]
      PROVE  IInv'
  <2>1. tick.job \in Job
    BY <1>1 DEF IInv, TickIn
  <2>2. t \in Tab
    BY <1>3, <2>1, PresetAssumption DEF Choices
  <2>3. tick' = TickPolls(IdleTick, "poll", t)
    BY <1>3 DEF TickPolls
  <2> DEFINE y == TickPolls(IdleTick, "poll", t)
  <2>3a. IdleTick \in Tick /\ "poll" \in Ats
    BY IdleTickFacts, AtNames
  <2>3b. y \in Tick /\ y.at = "poll" /\ y.kept = IdleTick.kept /\ y.tab = t
    BY <2>2, <2>3a, TickPollsType
  <2>4. tick' \in Tick /\ tick'.at = "poll" /\ tick'.kept = IdleTick.kept /\ tick'.tab = t
    BY <2>3, <2>3b
  <2>5. ClaimsIn(tick'.kept, status, token, held)
    BY <2>4, NoClaimsOK, IdleTickFacts
  <2>6. TickIn(tick', status, token, held) /\ Fresh(tick', sent, cap)
    BY <2>2, <2>4, <2>5, SMT DEF TickIn, Fresh
  <2>7. QED
    BY <1>1, <1>3, <2>6, ServerStill, TickQuiet
<1>4. QED
  BY <1>2, <1>3 DEF ChooseTab, PageUnready

LEMMA ClaimSavedStep == ASSUME IInv, ClaimSaved PROVE IInv'
<1>1. /\ TickOnly /\ UNCHANGED serverVars /\ UNCHANGED faults /\ tick.at = "save"
      /\ tick' = TickMoved(tick, "dispatch")
  BY DEF ClaimSaved, TickMoved
<1>2. /\ tick' \in Tick /\ tick'.at = "dispatch" /\ tick'.kept = tick.kept
      /\ tick'.job = tick.job /\ tick'.token = tick.token /\ tick'.tab = tick.tab
  BY <1>1, NowTick, AtNames, TickMovedType
<1>3. TickIn(tick', status, token, held)
  BY <1>1, <1>2 DEF IInv, TickIn
<1>4. Fresh(tick', sent, cap)
  BY <1>1, <1>2 DEF IInv, Fresh
<1>5. QED
  BY <1>1, <1>3, <1>4, ServerStill, TickQuiet

LEMMA RefuseTargetStep == ASSUME IInv, RefuseTarget PROVE IInv'
BY TickQuietEnd DEF RefuseTarget

-----------------------------------------------------------------------------
(* Reconciliation, polls and storage.                                      *)

LEMMA StoppedShrinks ==
    ASSUME IInv, NEW t \in Tab, NEW j \in Job PROVE Shrinks(cap, Stopped(t, j))
<1>1. cap \in [Tab -> Capture]
  BY DEF IInv, CapsIn
<1>2. CASE cap[t].job = j
  BY <1>1, <1>2, NoCaptureType, StopsOne DEF Stopped
<1>3. CASE cap[t].job # j
  BY <1>1, <1>3, ShrinksSame DEF Stopped
<1>4. QED
  BY <1>2, <1>3

\* A step after which the pages run no more than before, and nothing is sent.
LEMMA ShrunkNow ==
    ASSUME IInv, NEW d, Shrinks(cap, d), NEW x, TickIn(x, status, token, held),
           Fresh(x, sent, cap)
    PROVE  Fresh(x, sent, d) /\ CapsIn(d, status, token, held) /\ SentIn(sent, token, d)
BY ShrunkFresh, ShrunkCaps, ShrunkSent DEF IInv

LEMMA CancelStep == ASSUME IInv, NEW j \in Job, CancelClaimedPageCapture(j) PROVE IInv'
<1> DEFINE kept == [tick.kept EXCEPT ![j] = NoClaim]
<1>1. /\ tick.at = "cancel" /\ tick.kept[j] # NoClaim
      /\ cap' = Stopped(tick.kept[j].tab, j)
      /\ UNCHANGED <<serverVars, claims, stored, saves, relays, posts, refusals, sent, faults>>
  BY DEF CancelClaimedPageCapture
<1>2. tick' = TickKept(tick, kept)
  BY NowTick DEF CancelClaimedPageCapture, TickKept
<1>3. ClaimsIn(kept, status, token, held)
  BY NowTick, NoTokenNames, ForgottenOK
<1>4. kept \in [Job -> Claim]
  BY <1>3 DEF ClaimsIn
<1>5. tick.kept[j].tab \in Tab
  BY <1>1, NowTick, ClaimType DEF ClaimsIn
<1> HIDE DEF kept
<1>6. tick' \in Tick /\ tick'.at = "cancel" /\ tick'.kept = kept
  BY <1>1, <1>2, <1>4, NowTick, TickKeptType
<1>7. TickIn(tick', status, token, held) /\ Fresh(tick', sent, cap)
  BY <1>3, <1>6, PlainTick
<1>8. Shrinks(cap, cap')
  BY <1>1, <1>5, StoppedShrinks
<1>9. Fresh(tick', sent, cap') /\ CapsIn(cap', status, token, held) /\ SentIn(sent, token, cap')
  BY <1>7, <1>8, ShrunkNow
<1>10. Now(claims', tick', relays', posts', cap', sent', refusals', faults')
  BY <1>1, <1>7, <1>9, NowNow DEF Now
<1>11. StorageOK'
  BY <1>1 DEF IInv, StorageOK
<1>12. QED
  BY <1>1, <1>10, <1>11, ServerStill, Closing

LEMMA ReconciledStep == ASSUME IInv, Reconciled PROVE IInv'
<1>1. /\ UNCHANGED <<serverVars, stored, relays, pageVars, faults>>
      /\ tick' = TickMoved(IdleTick, "register")
      /\ UNCHANGED <<claims, saves>> \/ (claims' = tick.kept /\ Persist(claims'))
  BY DEF Reconciled, TickMoved
<1> DEFINE y == TickMoved(IdleTick, "register")
<1>2. y \in Tick /\ y.at = "register" /\ y.kept = IdleTick.kept
  BY IdleTickFacts, AtNames, TickMovedType
<1>3. TickIn(y, status, token, held) /\ Fresh(y, sent, cap)
  BY <1>2, NoClaimsOK, IdleTickFacts, PlainTick
<1>4. ClaimsIn(claims', status, token, held) /\ claims' \in [Job -> Claim]
  BY <1>1, NowTick
<1>5. StorageOK'
  <2>1. saves \in Seq(StoreType) /\ stored' \in StoreType
    BY <1>1 DEF IInv, StorageOK
  <2>2. saves' \in Seq(StoreType)
    BY <1>1, <1>4, <2>1, PersistType
  <2>3. QED
    BY <2>1, <2>2 DEF StorageOK
<1> HIDE DEF y
<1>6. tick' = y
  BY <1>1 DEF y
<1>7. /\ relays' = relays /\ posts' = posts /\ cap' = cap /\ sent' = sent
      /\ refusals' = refusals /\ faults' = faults
  BY <1>1 DEF pageVars
<1>8. Now(claims', tick', relays', posts', cap', sent', refusals', faults')
  BY <1>3, <1>4, <1>6, <1>7, NowNow DEF Now
<1>9. QED
  BY <1>1, <1>5, <1>8, ServerStill, Closing

LEMMA WriteClaimsStep == ASSUME IInv, WriteClaims PROVE IInv'
<1> DEFINE n == IF tick.left = 0 THEN 0 ELSE tick.left - 1
<1>1. /\ UNCHANGED <<serverVars, claims, relays, pageVars, faults>>
      /\ saves # <<>> /\ stored' = Head(saves) /\ saves' = Tail(saves)
      /\ tick' = TickLeft(tick, n)
  BY DEF WriteClaims, TickLeft
<1>2. n \in Nat
  <2>1. tick.left \in Nat
    BY NowTick, SMT DEF Tick
  <2>2. QED
    BY <2>1, SMT
<1> HIDE DEF n
<1>3. /\ tick' \in Tick /\ tick'.at = tick.at /\ tick'.kept = tick.kept
      /\ tick'.job = tick.job /\ tick'.token = tick.token /\ tick'.tab = tick.tab
  BY <1>1, <1>2, NowTick, TickLeftType
<1>4. TickIn(tick', status, token, held) /\ Fresh(tick', sent, cap)
  BY <1>3 DEF IInv, TickIn, Fresh
<1>5. StorageOK'
  <2>1. saves \in Seq(StoreType)
    BY DEF IInv, StorageOK
  <2>2. Head(saves) \in StoreType /\ Tail(saves) \in Seq(StoreType)
    BY <1>1, <2>1
  <2>3. QED
    BY <1>1, <2>2 DEF StorageOK
<1>6. /\ claims' = claims /\ relays' = relays /\ posts' = posts /\ cap' = cap /\ sent' = sent
      /\ refusals' = refusals /\ faults' = faults
  BY <1>1 DEF pageVars
<1>7. Now(claims', tick', relays', posts', cap', sent', refusals', faults')
  BY <1>4, <1>6, NowNow DEF Now
<1>8. QED
  BY <1>1, <1>5, <1>7, ServerStill, Closing

\* The server gives out the next token of a job.
LEMMA ClaimedForMoves ==
    ASSUME IInv, NEW j \in Job, NEW t \in Tab, status[j] = "queued", ClaimedFor(j, t)
    PROVE  /\ ServerOK' /\ Moves(status, token, held, status', token', held')
           /\ token'[j] \in Token /\ token'[j] = token[j] + 1
           /\ status'[j] = "claimed" /\ held'[j] = t
<1>1. /\ status' = [status EXCEPT ![j] = "claimed"]
      /\ token' = [token EXCEPT ![j] = token[j] + 1]
      /\ held' = [held EXCEPT ![j] = t] /\ registered' = registered
  BY DEF ClaimedFor
<1>2. \A i \in Job : token[i] \in Nat /\ token[i] \in Token
  BY TokenType DEF IInv, ServerOK
<1>3. token[j] + 1 \in Token /\ token[j] + 1 > token[j] /\ token[j] + 1 > 0
  <2>1. token[j] < MaxClaims /\ MaxClaims \in Nat
    BY BoundsAssumption DEF IInv, ServerOK
  <2>2. QED
    BY <1>2, <2>1, SMT DEF Token
<1>4. token' \in [Job -> Token] /\ token'[j] = token[j] + 1
  BY <1>1, <1>3 DEF IInv, ServerOK
<1>5. ServerOK'
  BY <1>1, <1>3, <1>4 DEF IInv, ServerOK
<1>6. ASSUME NEW i \in Job
      PROVE  /\ token'[i] \in Token /\ token[i] <= token'[i]
             /\ token'[i] = token[i] /\ status'[i] = "claimed" =>
                   status[i] = "claimed" /\ held'[i] = held[i]
  <2>1. CASE i = j
    BY <1>2, <1>3, <1>4, <2>1, SMT
  <2>2. CASE i # j
    <3>1. token'[i] = token[i] /\ status'[i] = status[i] /\ held'[i] = held[i]
      BY <1>1, <2>2 DEF IInv, ServerOK
    <3>2. QED
      BY <1>2, <3>1, SMT
  <2>3. QED
    BY <2>1, <2>2
<1>7. QED
  BY <1>1, <1>4, <1>5, <1>6 DEF Moves, IInv, ServerOK

LEMMA PollStep == ASSUME IInv, Poll PROVE IInv'
<1> DEFINE t == tick.tab
<1>1. UNCHANGED <<stored, relays, pageVars>> /\ tick.at = "poll"
  BY DEF Poll
<1>2. t \in Tab
  BY <1>1 DEF IInv, TickIn
<1>3. CASE TickEnds /\ UNCHANGED <<claims, saves, serverVars, faults>>
  BY <1>1, <1>3, TickQuietEnd DEF TickOnly
<1>4. ASSUME NEW j \in Job, Offered(j, t), ClaimedFor(j, t), TickEnds, Fault,
             UNCHANGED <<claims, saves>>
      PROVE  IInv'
  <2>1. ServerOK' /\ Moves(status, token, held, status', token', held')
    BY <1>2, <1>4, ClaimedForMoves DEF Offered
  <2>2. TickIn(tick', status, token, held) /\ Fresh(tick', sent, cap)
    BY <1>4, IdleTickOK DEF TickEnds
  <2>3. QED
    BY <1>1, <1>4, <2>1, <2>2, TickQuiet DEF TickOnly
<1>5. ASSUME NEW j \in Job, Offered(j, t), ClaimedFor(j, t), UNCHANGED faults,
             claims' = [claims EXCEPT ![j] = [tab |-> t, token |-> token'[j]]],
             Persist(claims'),
             tick' = [tick EXCEPT !.at = "save", !.job = j, !.token = token'[j],
                                  !.left = Len(saves')]
      PROVE  IInv'
  <2> DEFINE k == token'[j]
  <2> DEFINE r == [tab |-> t, token |-> k]
  <2>1. /\ ServerOK' /\ Moves(status, token, held, status', token', held')
        /\ k \in Token /\ k = token[j] + 1 /\ status'[j] = "claimed" /\ held'[j] = t
    BY <1>2, <1>5, ClaimedForMoves DEF Offered
  <2>2. token \in [Job -> Token] /\ token[j] \in Nat /\ k \in Nat
    BY <2>1, TokenType DEF IInv, ServerOK
  <2>3. Names(status', token', held', j, k, t)
    BY <2>1, <2>2, SMT DEF Names
  <2>4. ClaimsIn(claims, status', token', held')
    BY <2>1, <2>2, ClaimsCarried DEF IInv
  <2>5. r \in Claim /\ r.tab = t /\ r.token = k
    BY <1>2, <2>1, SMT DEF Claim
  <2>6. ClaimsIn(claims', status', token', held') /\ claims' \in [Job -> Claim]
    <3> HIDE DEF r, k
    <3>1. claims' = [claims EXCEPT ![j] = r]
      BY <1>5 DEF r, k
    <3>2. claims' \in [Job -> Claim] /\ claims'[j] = r
          /\ \A i \in Job : i # j => claims'[i] = claims[i]
      BY <2>5, <3>1, NowTick
    <3>3. t # NoTab
      BY <1>2, TabsAssumption
    <3>4. QED
      BY <2>3, <2>4, <2>5, <3>2, <3>3 DEF ClaimsIn
  <2>7. StorageOK' /\ Len(saves') \in Nat
    <3>1. saves \in Seq(StoreType) /\ stored' \in StoreType
      BY <1>1 DEF IInv, StorageOK
    <3>2. saves' \in Seq(StoreType)
      BY <1>5, <2>6, <3>1, PersistType
    <3>3. QED
      BY <3>1, <3>2 DEF StorageOK
  <2> DEFINE n == Len(saves')
  <2>8. tick' = TickClaimed(tick, "save", j, k, n)
    BY <1>5 DEF TickClaimed
  <2> HIDE DEF n, k, r
  <2> DEFINE y == TickClaimed(tick, "save", j, k, n)
  <2>8a. tick \in Tick /\ "save" \in Ats /\ n \in Nat /\ k \in Token
    BY <2>1, <2>7, NowTick, AtNames DEF n
  <2>8b. /\ y \in Tick /\ y.at = "save" /\ y.kept = tick.kept
         /\ y.job = j /\ y.token = k /\ y.tab = t
    BY <2>8a, TickClaimedType
  <2>9. /\ tick' \in Tick /\ tick'.at = "save" /\ tick'.kept = tick.kept
        /\ tick'.job = j /\ tick'.token = k /\ tick'.tab = t
    BY <2>8, <2>8b
  <2>10. TickIn(tick', status', token', held')
    <3>1. ClaimsIn(tick'.kept, status', token', held')
      BY <2>1, <2>2, <2>9, NowTick, ClaimsCarried
    <3>2. QED
      BY <1>2, <2>3, <2>9, <3>1 DEF TickIn
  <2>11. Fresh(tick', sent', cap')
    <3>1. sent' = sent /\ cap' = cap
      BY <1>1 DEF pageVars
    <3>2. k > token[j]
      BY <2>1, <2>2, SMT
    <3>3. sent[j][k] = 0
      BY <2>1, <3>2 DEF IInv, SentIn
    <3>4. ASSUME NEW u \in Tab, cap[u].job = j, cap[u].token = k PROVE FALSE
      <4>1. cap[u] # NoCapture
        BY <3>4, NoCaptureType
      <4>2. k <= token[j]
        BY <3>4, <4>1 DEF IInv, CapsIn, Names
      <4>3. QED
        BY <2>2, <3>2, <4>2, SMT
    <3>5. QED
      BY <2>9, <3>1, <3>3, <3>4 DEF Fresh
  <2>12. /\ RelaysIn(relays', status', token', held') /\ PostsIn(posts', status', token', held')
         /\ CapsIn(cap', status', token', held') /\ SentIn(sent', token', cap')
         /\ refusals' \subseteq RefusalType /\ faults' \in 0..MaxFaults
    <3>1. /\ relays' = relays /\ posts' = posts /\ cap' = cap /\ sent' = sent
          /\ refusals' = refusals /\ faults' = faults
      BY <1>1, <1>5 DEF pageVars
    <3>2. RelaysIn(relays, status', token', held') /\ PostsIn(posts, status', token', held')
      BY <2>1, <2>2, RelaysCarried, PostsCarried DEF IInv
    <3>3. CapsIn(cap, status', token', held') /\ SentIn(sent, token', cap)
      BY <2>1, <2>2, CapsCarried, SentCarried DEF IInv
    <3>4. QED
      BY <3>1, <3>2, <3>3 DEF IInv
  <2>13. QED
    BY <2>1, <2>6, <2>7, <2>10, <2>11, <2>12 DEF IInv
<1>6. QED
  BY <1>3, <1>4, <1>5 DEF Poll

-----------------------------------------------------------------------------
(* The pages.                                                              *)

LEMMA NowPages ==
    ASSUME IInv
    PROVE  /\ cap \in [Tab -> Capture] /\ CapsIn(cap, status, token, held)
           /\ PostsIn(posts, status, token, held) /\ RelaysIn(relays, status, token, held)
           /\ TickIn(tick, status, token, held) /\ Fresh(tick, sent, cap)
           /\ refusals \subseteq RefusalType
BY DEF IInv, CapsIn

LEMMA CaptureFacts ==
    ASSUME IInv, NEW t \in Tab, cap[t] # NoCapture
    PROVE  /\ cap[t].job \in Job /\ cap[t].token \in Token
           /\ Names(status, token, held, cap[t].job, cap[t].token, t)
BY SMT DEF IInv, CapsIn, Capture

LEMMA PostFacts ==
    ASSUME IInv, NEW p \in posts
    PROVE  /\ p \in Post /\ p.job \in Job /\ p.token \in Token /\ p.tab \in Tab
           /\ p.tries \in 0..Attempts
           /\ Names(status, token, held, p.job, p.token, p.tab)
BY SMT DEF IInv, PostsIn, Post

LEMMA RelayFacts ==
    ASSUME IInv, NEW r \in relays
    PROVE  /\ r \in Relay /\ r.job \in Job
           /\ Names(status, token, held, r.job, r.use, r.on)
BY SMT DEF IInv, RelaysIn, Relay

\* What changes is at the pages, and nothing is sent.
LEMMA PageStep ==
    ASSUME IInv, PageOnly, Fault \/ UNCHANGED faults, UNCHANGED sent, Shrinks(cap, cap'),
           RelaysIn(relays', status, token, held), PostsIn(posts', status, token, held),
           refusals' \subseteq RefusalType
    PROVE  IInv'
<1>1. UNCHANGED serverVars /\ claims' = claims /\ stored' = stored /\ saves' = saves
      /\ tick' = tick
  BY DEF PageOnly, workerVars
<1>2. Fresh(tick, sent, cap') /\ CapsIn(cap', status, token, held) /\ SentIn(sent, token, cap')
  BY NowPages, ShrunkNow
<1>3. faults' \in 0..MaxFaults
  BY FaultCounted
<1>4. Now(claims', tick', relays', posts', cap', sent', refusals', faults')
  BY <1>1, <1>2, <1>3, NowNow DEF Now
<1>5. StorageOK'
  BY <1>1 DEF IInv, StorageOK
<1>6. QED
  BY <1>1, <1>4, <1>5, ServerStill, Closing

\* The capture sends, and is then past sending.
LEMMA SendingStep ==
    ASSUME IInv, PageOnly, UNCHANGED <<relays, refusals, faults>>,
           NEW t \in Tab, cap[t].step \in Unsent, Sent(t),
           Shrinks(cap, cap'), cap'[t].step \notin Unsent,
           PostsIn(posts', status, token, held)
    PROVE  IInv'
<1>1. UNCHANGED serverVars /\ claims' = claims /\ stored' = stored /\ saves' = saves
      /\ tick' = tick
  BY DEF PageOnly, workerVars
<1>2. token \in [Job -> Token] /\ SentIn(sent, token, cap)
  BY DEF IInv, ServerOK
<1>3. SentIn(sent', token, cap') /\ Fresh(tick, sent', cap')
  <2> DEFINE m == [sent EXCEPT ![cap[t].job][cap[t].token] = @ + 1]
  <2>1. sent' = m
    BY DEF Sent
  <2>2. SentIn(m, token, cap') /\ Fresh(tick, m, cap')
    BY <1>2, NowPages, SentOnce
  <2>3. QED
    BY <2>1, <2>2
<1>4. CapsIn(cap', status, token, held)
  BY NowPages, ShrunkCaps
<1>5. Now(claims', tick', relays', posts', cap', sent', refusals', faults')
  BY <1>1, <1>3, <1>4, NowNow DEF Now
<1>6. StorageOK'
  BY <1>1 DEF IInv, StorageOK
<1>7. QED
  BY <1>1, <1>5, <1>6, ServerStill, Closing

LEMMA FailsOK ==
    ASSUME IInv, NEW t \in Tab, cap[t] # NoCapture, Fails(t)
    PROVE  /\ PostsIn(posts', status, token, held) /\ Shrinks(cap, cap')
           /\ cap'[t].step \notin Unsent
<1> DEFINE f == Failure(t, cap[t].job, cap[t].token)
<1>1. f \in Post /\ f.job = cap[t].job /\ f.token = cap[t].token /\ f.tab = t
  BY CaptureFacts, FailureType
<1>2. posts' = posts \cup {f} /\ cap' = [cap EXCEPT ![t] = NoCapture]
  BY DEF Fails
<1> HIDE DEF f
<1>3. PostsIn(posts', status, token, held)
  BY <1>1, <1>2, CaptureFacts, NowPages, PostAdded
<1>4. Shrinks(cap, cap')
  BY <1>2, NowPages, LosesOne
<1>5. cap'[t].step \notin Unsent
  BY <1>2, NowPages, NoCaptureType
<1>6. QED
  BY <1>3, <1>4, <1>5

LEMMA AdvanceOK ==
    ASSUME IInv, NEW t \in Tab, cap[t] # NoCapture, NEW st \in CaptureSteps, Advance(t, st),
           st \in Unsent => cap[t].step \in Unsent
    PROVE  /\ PostsIn(posts', status, token, held) /\ Shrinks(cap, cap')
           /\ st \notin Unsent => cap'[t].step \notin Unsent
<1>1. posts' = posts /\ cap' = [cap EXCEPT ![t].step = st]
  BY DEF Advance
<1>2. PostsIn(posts', status, token, held)
  BY <1>1, NowPages
<1>3. Shrinks(cap, cap')
  BY <1>1, NowPages, Advances
<1>4. cap'[t].step = st
  BY <1>1, NowPages, SMT DEF Capture
<1>5. QED
  BY <1>2, <1>3, <1>4

LEMMA Active ==
    ASSUME IInv, NEW t \in Tab,
           cap[t].step \in {"prepare", "ready", "unsent", "observe", "answer"}
    PROVE  cap[t] # NoCapture
BY SMT DEF NoCapture

LEMMA PrepareStep == ASSUME IInv, NEW t \in Tab, Prepare(t) PROVE IInv'
<1>1. /\ PageOnly /\ UNCHANGED <<relays, refusals, sent, faults>>
      /\ cap[t].step = "prepare" /\ (Fails(t) \/ Advance(t, "ready"))
  BY DEF Prepare, InputUnusable, PromptEntered
<1>2. cap[t] # NoCapture /\ cap[t].step \in Unsent /\ "ready" \in CaptureSteps
  BY <1>1, Active DEF Unsent, CaptureSteps
<1>3. PostsIn(posts', status, token, held) /\ Shrinks(cap, cap')
  BY <1>1, <1>2, FailsOK, AdvanceOK
<1>4. QED
  BY <1>1, <1>3, NowPages, PageStep

LEMMA SendStep == ASSUME IInv, NEW t \in Tab, Send(t) PROVE IInv'
<1>1. /\ PageOnly /\ UNCHANGED <<relays, refusals, faults>> /\ cap[t].step = "ready"
      /\ \/ Sent(t) /\ (Advance(t, "observe") \/ Fails(t))
         \/ UNCHANGED sent /\ (Advance(t, "unsent") \/ Fails(t))
  BY DEF Send, Click, PressEnter, PressShortcut
<1>2. cap[t] # NoCapture /\ cap[t].step \in Unsent
  BY <1>1, Active DEF Unsent
<1>3. "observe" \in CaptureSteps \ Unsent /\ "unsent" \in CaptureSteps \ Unsent
  BY SMT DEF CaptureSteps, Unsent
<1>4. PostsIn(posts', status, token, held) /\ Shrinks(cap, cap') /\ cap'[t].step \notin Unsent
  BY <1>1, <1>2, <1>3, FailsOK, AdvanceOK
<1>5. CASE Sent(t)
  BY <1>1, <1>2, <1>4, <1>5, SendingStep
<1>6. CASE UNCHANGED sent
  BY <1>1, <1>4, <1>6, NowPages, PageStep
<1>7. QED
  BY <1>1, <1>5, <1>6

LEMMA ObserveStep == ASSUME IInv, NEW t \in Tab, Observe(t) PROVE IInv'
<1>1. /\ PageOnly /\ UNCHANGED <<relays, refusals, sent, faults>>
      /\ cap[t].step \in {"observe", "unsent"} /\ (Fails(t) \/ Advance(t, "answer"))
  BY DEF Observe
<1>2. cap[t] # NoCapture /\ "answer" \in CaptureSteps \ Unsent
  BY <1>1, Active, SMT DEF CaptureSteps, Unsent
<1>3. PostsIn(posts', status, token, held) /\ Shrinks(cap, cap')
  BY <1>1, <1>2, FailsOK, AdvanceOK
<1>4. QED
  BY <1>1, <1>3, NowPages, PageStep

LEMMA AnswerStep == ASSUME IInv, NEW t \in Tab, Answer(t) PROVE IInv'
<1>1. PageOnly /\ UNCHANGED <<relays, refusals, sent, faults>> /\ cap[t].step = "answer"
  BY DEF Answer
<1>2. cap[t] # NoCapture /\ "report" \in CaptureSteps \ Unsent
  BY <1>1, Active, SMT DEF CaptureSteps, Unsent
<1>3. CASE Fails(t)
  BY <1>1, <1>2, <1>3, FailsOK, NowPages, PageStep
<1>4. CASE /\ cap' = [cap EXCEPT ![t].step = "report"]
           /\ posts' = posts \cup {[Failure(t, cap[t].job, cap[t].token) EXCEPT !.ok = TRUE]}
  <2> DEFINE f == Failure(t, cap[t].job, cap[t].token)
  <2> DEFINE q == PostAs(f, TRUE)
  <2>1. f \in Post /\ f.job = cap[t].job /\ f.token = cap[t].token /\ f.tab = t
    BY <1>2, CaptureFacts, FailureType
  <2>2. posts' = posts \cup {q}
    BY <1>4 DEF PostAs
  <2> HIDE DEF f
  <2>3. q \in Post /\ q.job = cap[t].job /\ q.token = cap[t].token /\ q.tab = t
    BY <2>1, PostAsType
  <2> HIDE DEF q
  <2>4. PostsIn(posts', status, token, held)
    BY <1>2, <2>2, <2>3, CaptureFacts, NowPages, PostAdded
  <2>5. Shrinks(cap, cap')
    BY <1>2, <1>4, NowPages, Advances
  <2>6. QED
    BY <1>1, <2>4, <2>5, NowPages, PageStep
<1>5. QED
  BY <1>3, <1>4 DEF Answer

LEMMA PageLostStep == ASSUME IInv, NEW t \in Tab, PageLost(t) PROVE IInv'
<1>1. /\ PageOnly /\ UNCHANGED <<relays, sent>> /\ Fault
      /\ cap' = [cap EXCEPT ![t] = NoCapture]
      /\ posts' \subseteq posts /\ refusals' \subseteq refusals
  BY DEF PageLost
<1>2. PostsIn(posts', status, token, held)
  BY <1>1, NowPages, PostsFewer
<1>3. Shrinks(cap, cap')
  BY <1>1, NowPages, LosesOne
<1>4. QED
  BY <1>1, <1>2, <1>3, NowPages, PageStep

LEMMA HeartbeatStep == ASSUME IInv, NEW t \in Tab, HeartbeatRefused(t) PROVE IInv'
<1>1. /\ PageOnly /\ UNCHANGED <<relays, cap, posts, sent, faults>> /\ cap[t] # NoCapture
      /\ refusals' = refusals \cup {[tab |-> t, job |-> cap[t].job]}
  BY DEF HeartbeatRefused
<1>2. refusals' \subseteq RefusalType
  BY <1>1, CaptureFacts, NowPages DEF RefusalType
<1>3. Shrinks(cap, cap')
  BY <1>1, NowPages, ShrinksSame
<1>4. QED
  BY <1>1, <1>2, <1>3, NowPages, PageStep

LEMMA RefusalStep == ASSUME IInv, NEW b \in refusals, RefusalArrives(b) PROVE IInv'
<1>1. /\ PageOnly /\ UNCHANGED <<relays, posts, sent, faults>>
      /\ refusals' \subseteq refusals /\ cap' = Stopped(b.tab, b.job)
  BY DEF RefusalArrives
<1>2. b.tab \in Tab /\ b.job \in Job
  BY NowPages DEF RefusalType
<1>3. Shrinks(cap, cap')
  BY <1>1, <1>2, StoppedShrinks
<1>4. QED
  BY <1>1, <1>3, NowPages, PageStep

LEMMA DispatchStep == ASSUME IInv, Dispatch PROVE IInv'
<1>1. /\ UNCHANGED <<serverVars, claims, stored, saves, refusals, sent>>
      /\ tick.at = "dispatch" /\ TickEnds
  BY DEF Dispatch
<1>2. /\ tick.job \in Job /\ tick.token \in Token /\ tick.tab \in Tab
      /\ Names(status, token, held, tick.job, tick.token, tick.tab)
  BY <1>1, NowTick DEF IInv, TickIn
<1>3. ASSUME RelaysIn(relays', status, token, held), PostsIn(posts', status, token, held),
             CapsIn(cap', status, token, held), SentIn(sent, token, cap'),
             Fault \/ UNCHANGED faults
      PROVE  IInv'
  <2>1. TickIn(tick', status, token, held) /\ Fresh(tick', sent, cap')
    BY <1>1, IdleTickOK DEF TickEnds
  <2>2. faults' \in 0..MaxFaults
    BY <1>3, FaultCounted
  <2>3. Now(claims', tick', relays', posts', cap', sent', refusals', faults')
    BY <1>1, <1>3, <2>1, <2>2, NowNow DEF Now
  <2>4. StorageOK'
    BY <1>1 DEF IInv, StorageOK
  <2>5. QED
    BY <1>1, <2>3, <2>4, ServerStill, Closing
<1>4. CASE Received(tick.tab, tick.job, tick.token) /\ UNCHANGED <<relays, faults>>
  <2>1. CASE cap[tick.tab] = NoCapture
    <3>1. posts' = posts /\ cap' = [cap EXCEPT ![tick.tab] =
             [job |-> tick.job, token |-> tick.token, step |-> "prepare", stop |-> FALSE]]
      BY <1>4, <2>1 DEF Received
    <3>2. CapsIn(cap', status, token, held) /\ SentIn(sent, token, cap')
      BY <1>1, <1>2, <2>1, <3>1, ReceivedOK DEF IInv
    <3>3. QED
      BY <1>3, <1>4, <3>1, <3>2, NowPages
  <2>2. CASE cap[tick.tab] # NoCapture
    <3> DEFINE f == Failure(tick.tab, tick.job, tick.token)
    <3>1. f \in Post /\ f.job = tick.job /\ f.token = tick.token /\ f.tab = tick.tab
      BY <1>2, FailureType
    <3>2. posts' = posts \cup {f} /\ cap' = cap
      BY <1>4, <2>2 DEF Received
    <3> HIDE DEF f
    <3>3. PostsIn(posts', status, token, held)
      BY <1>2, <3>1, <3>2, NowPages, PostAdded
    <3>4. QED
      BY <1>3, <1>4, <3>2, <3>3, NowPages DEF IInv
  <2>3. QED
    BY <2>1, <2>2
<1>5. CASE relays' = relays \cup {OwnFailure} /\ Fault /\ UNCHANGED <<cap, posts>>
  <2>1. /\ OwnFailure \in Relay /\ OwnFailure.job = tick.job
        /\ OwnFailure.use = tick.token /\ OwnFailure.on = tick.tab
    <3>1. 0 \in 0..Attempts
      BY BoundsAssumption, SMT
    <3>2. QED
      BY <1>2, <3>1, SMT DEF OwnFailure, Relay
  <2>2. RelaysIn(relays', status, token, held)
    BY <1>2, <1>5, <2>1, NowPages, RelayAdded
  <2>3. QED
    BY <1>3, <1>5, <2>2, NowPages DEF IInv
<1>6. QED
  BY <1>4, <1>5 DEF Dispatch

-----------------------------------------------------------------------------
(* Outcomes and their relays.                                              *)

LEMMA TryPostStep == ASSUME IInv, NEW p \in posts, TryPost(p) PROVE IInv'
<1>1. /\ PageOnly /\ UNCHANGED <<cap, refusals, sent, faults>> /\ p.tries < Attempts
      /\ posts' = (posts \ {p}) \cup {PostTried(p, p.tries + 1, TRUE)}
      /\ relays' = relays \cup {RelayOf(p)}
  BY DEF TryPost, PostTried
<1>2. p.tries + 1 \in 0..Attempts
  BY <1>1, PostFacts, BoundsAssumption, SMT
<1>3. PostsIn(posts', status, token, held)
  <2> DEFINE q == PostTried(p, p.tries + 1, TRUE)
  <2>1. q \in Post /\ q.job = p.job /\ q.token = p.token /\ q.tab = p.tab
    BY <1>2, PostFacts, PostTriedType
  <2> HIDE DEF q
  <2>2. PostsIn((posts \ {p}) \cup {q}, status, token, held)
    BY <2>1, NowPages, PostReplaced
  <2>3. QED
    BY <1>1, <2>2 DEF q
<1>4. RelaysIn(relays', status, token, held)
  <2> DEFINE q == RelayOf(p)
  <2> DEFINE source == IF Known(p.job) THEN claims[p.job] ELSE [tab |-> p.tab, token |-> p.token]
  <2>1. /\ source.tab \in Tab /\ source.token \in Token
        /\ Names(status, token, held, p.job, source.token, source.tab)
    <3>1. CASE Known(p.job)
      <4>1. claims[p.job] \in Claim /\ claims[p.job] # NoClaim
        BY <3>1, PostFacts, NowTick DEF Known
      <4>2. claims[p.job].tab # NoTab
            /\ Names(status, token, held, p.job, claims[p.job].token, claims[p.job].tab)
        BY <4>1, PostFacts, NowTick DEF ClaimsIn
      <4>3. QED
        BY <3>1, <4>1, <4>2, ClaimType
    <3>2. CASE ~Known(p.job)
      <4>1. source.tab = p.tab /\ source.token = p.token
        BY <3>2
      <4>2. QED
        BY <4>1, PostFacts
    <3>3. QED
      BY <3>1, <3>2
  <2>2. p.token \in Token /\ p.tab \in Tab /\ p.job \in Job /\ p.ok \in BOOLEAN
    BY PostFacts, SMT DEF Post
  <2>3. q = [job |-> p.job, token |-> p.token, tab |-> p.tab, ok |-> p.ok, try |-> p.tries + 1,
             use |-> source.token, on |-> source.tab,
             stage |-> IF source.token = 0 THEN "lookup" ELSE "post"]
    BY DEF RelayOf
  <2> HIDE DEF source, q
  <2>4. q \in Relay
    BY <1>2, <2>1, <2>2, <2>3, Zenon DEF Relay
  <2>5. q.job = p.job /\ q.use = source.token /\ q.on = source.tab
    BY <2>3
  <2>6. RelaysIn(relays \cup {q}, status, token, held)
    BY <2>1, <2>4, <2>5, NowPages, RelayAdded
  <2>7. QED
    BY <1>1, <2>6 DEF q
<1>5. Shrinks(cap, cap')
  BY <1>1, NowPages, ShrinksSame
<1>6. QED
  BY <1>1, <1>3, <1>4, <1>5, NowPages, PageStep

LEMMA Reopened ==
    ASSUME IInv, NEW p \in posts
    PROVE  PostsIn((posts \ {p}) \cup {[p EXCEPT !.open = FALSE]}, status, token, held)
<1> DEFINE q == PostOpen(p, FALSE)
<1>1. q \in Post /\ q.job = p.job /\ q.token = p.token /\ q.tab = p.tab
  BY PostFacts, PostOpenType
<1> HIDE DEF q
<1>2. PostsIn((posts \ {p}) \cup {q}, status, token, held)
  BY <1>1, NowPages, PostReplaced
<1>3. QED
  BY <1>2 DEF q, PostOpen

LEMMA AckTimeoutStep == ASSUME IInv, NEW p \in posts, AckTimeout(p) PROVE IInv'
<1>1. /\ PageOnly /\ UNCHANGED <<relays, cap, refusals, sent>> /\ (Fault \/ UNCHANGED faults)
      /\ posts' = (posts \ {p}) \cup {[p EXCEPT !.open = FALSE]}
  BY DEF AckTimeout
<1>2. PostsIn(posts', status, token, held)
  BY <1>1, Reopened
<1>3. Shrinks(cap, cap')
  BY <1>1, NowPages, ShrinksSame
<1>4. QED
  BY <1>1, <1>2, <1>3, NowPages, PageStep

LEMMA ReportedShrinks ==
    ASSUME IInv, NEW p \in posts, Reported(p) PROVE Shrinks(cap, cap')
BY PostFacts, NowPages, LosesOne, ShrinksSame DEF Reported

LEMMA PostEndsStep == ASSUME IInv, NEW p \in posts, PostEnds(p) PROVE IInv'
<1>1. /\ PageOnly /\ UNCHANGED <<relays, refusals, sent, faults>>
      /\ posts' = posts \ {p} /\ Reported(p)
  BY DEF PostEnds
<1>2. posts' \subseteq posts
  BY <1>1
<1>3. PostsIn(posts', status, token, held)
  BY <1>2, NowPages, PostsFewer
<1>4. QED
  BY <1>1, <1>3, ReportedShrinks, NowPages, PageStep

LEMMA AcknowledgedOK ==
    ASSUME IInv, NEW r, NEW ok, Acknowledged(r, ok)
    PROVE  PostsIn(posts', status, token, held) /\ Shrinks(cap, cap')
<1>1. CASE UNCHANGED <<posts, cap>>
  BY <1>1, NowPages, ShrinksSame
<1>2. ASSUME NEW p \in posts, posts' = posts \ {p}, Reported(p)
      PROVE  PostsIn(posts', status, token, held) /\ Shrinks(cap, cap')
  <2>1. posts' \subseteq posts
    BY <1>2
  <2>2. QED
    BY <1>2, <2>1, NowPages, PostsFewer, ReportedShrinks
<1>3. ASSUME NEW p \in posts, UNCHANGED cap,
             posts' = (posts \ {p}) \cup {[p EXCEPT !.open = FALSE]}
      PROVE  PostsIn(posts', status, token, held) /\ Shrinks(cap, cap')
  BY <1>3, NowPages, Reopened, ShrinksSame
<1>4. QED
  BY <1>1, <1>2, <1>3 DEF Acknowledged

LEMMA ForgetOK ==
    ASSUME IInv, NEW j \in Job, Forget(j)
    PROVE  ClaimsIn(claims', status, token, held) /\ saves' \in Seq(StoreType)
<1>1. ClaimsIn(claims', status, token, held)
  BY NowTick, NoTokenNames, ForgottenOK DEF Forget
<1>2. claims' \in [Job -> Claim] /\ saves \in Seq(StoreType)
  BY <1>1 DEF ClaimsIn, IInv, StorageOK
<1>3. saves' \in Seq(StoreType)
  BY <1>2, PersistType DEF Forget
<1>4. QED
  BY <1>1, <1>3

\* What changes is at the server, the worker's claims and what the page hears.
LEMMA RelayStepOK ==
    ASSUME IInv, ServerOK', Moves(status, token, held, status', token', held'),
           UNCHANGED <<stored, tick, refusals, sent>>, Fault \/ UNCHANGED faults,
           NEW j \in Job, Forget(j) \/ UNCHANGED <<claims, saves>>,
           RelaysIn(relays', status, token, held),
           PostsIn(posts', status, token, held), Shrinks(cap, cap')
    PROVE  IInv'
<1>1. ClaimsIn(claims', status, token, held) /\ saves' \in Seq(StoreType)
  BY ForgetOK, NowTick DEF IInv, StorageOK
<1>2. StorageOK'
  BY <1>1 DEF IInv, StorageOK
<1>3. /\ Fresh(tick, sent, cap') /\ CapsIn(cap', status, token, held)
      /\ SentIn(sent, token, cap')
  BY NowPages, ShrunkNow
<1>4. faults' \in 0..MaxFaults
  BY FaultCounted
<1>5. Now(claims', tick', relays', posts', cap', sent', refusals', faults')
  BY <1>1, <1>3, <1>4, NowNow DEF Now
<1>6. QED
  BY <1>2, <1>5, Closing

RelayUsing(r, k, st) == [r EXCEPT !.use = k, !.stage = st]

LEMMA RelayUsingType ==
    ASSUME NEW r \in Relay, NEW k \in Token,
           NEW st \in {"lookup", "post", "accepted", "refused"}
    PROVE  LET q == RelayUsing(r, k, st)
           IN  /\ q \in Relay /\ q.job = r.job /\ q.use = k /\ q.on = r.on
               /\ q.token = r.token /\ q.try = r.try /\ q.stage = st
<1> DEFINE q == RelayUsing(r, k, st)
<1>1. q.job = r.job /\ q.on = r.on /\ q.token = r.token /\ q.try = r.try
  BY SMT DEF Relay, RelayUsing
<1>2. q.use = k /\ q.stage = st
  BY SMT DEF Relay, RelayUsing
<1>3. q \in Relay
  BY Zenon DEF Relay, RelayUsing
<1>4. QED
  BY <1>1, <1>2, <1>3

LEMMA LookUpTokenStep == ASSUME IInv, NEW r \in relays, LookUpToken(r) PROVE IInv'
<1>1. /\ UNCHANGED serverVars /\ UNCHANGED <<stored, tick, refusals, sent>>
      /\ (Fault \/ UNCHANGED faults)
  BY DEF LookUpToken
<1>2. r \in Relay /\ r.job \in Job
  BY RelayFacts
<1>3. CASE /\ held[r.job] = r.on
           /\ relays' = (relays \ {r}) \cup {[r EXCEPT !.use = token[r.job], !.stage = "post"]}
           /\ UNCHANGED <<claims, saves, posts, cap, faults>>
  <2> DEFINE k == token[r.job]
  <2> DEFINE q == RelayUsing(r, k, "post")
  <2>1. k \in Token /\ k <= k
    BY <1>2, TokenType DEF IInv, ServerOK
  <2>2. Names(status, token, held, r.job, k, r.on)
    BY <1>3, <2>1 DEF Names
  <2>3. relays' = (relays \ {r}) \cup {q}
    BY <1>3 DEF RelayUsing
  <2> HIDE DEF k
  <2>4. q \in Relay /\ q.job = r.job /\ q.use = k /\ q.on = r.on
    BY <1>2, <2>1, RelayUsingType
  <2> HIDE DEF q
  <2>5. RelaysIn(relays \ {r}, status, token, held)
    <3>1. relays \ {r} \subseteq relays
      OBVIOUS
    <3>2. QED
      BY <3>1, NowPages, RelaysFewer
  <2>6. RelaysIn((relays \ {r}) \cup {q}, status, token, held)
    BY <2>2, <2>4, <2>5, RelayAdded
  <2>7. Shrinks(cap, cap') /\ PostsIn(posts', status, token, held)
    BY <1>3, NowPages, ShrinksSame
  <2>8. QED
    BY <1>1, <1>2, <1>3, <2>3, <2>6, <2>7, ServerStill, RelayStepOK
<1>4. CASE /\ relays' = relays \ {r} /\ Acknowledged(r, FALSE)
           /\ Forget(r.job) \/ UNCHANGED <<claims, saves>>
  <2>1. relays' \subseteq relays
    BY <1>4
  <2>2. RelaysIn(relays', status, token, held)
    BY <2>1, NowPages, RelaysFewer
  <2>3. QED
    BY <1>1, <1>2, <1>4, <2>2, AcknowledgedOK, ServerStill, RelayStepOK
<1>5. QED
  BY <1>3, <1>4 DEF LookUpToken

RelayStaged(r, st) == [r EXCEPT !.stage = st]

LEMMA RelayStagedType ==
    ASSUME NEW r \in Relay, NEW st \in {"lookup", "post", "accepted", "refused"}
    PROVE  LET q == RelayStaged(r, st)
           IN  /\ q \in Relay /\ q.job = r.job /\ q.use = r.use /\ q.on = r.on
               /\ q.token = r.token /\ q.try = r.try /\ q.stage = st
BY SMT DEF Relay, RelayStaged

LEMMA RelayPostsStep == ASSUME IInv, NEW r \in relays, RelayPosts(r) PROVE IInv'
<1> DEFINE q == RelayStaged(r, Verdict(r))
<1>1. /\ relays' = (relays \ {r}) \cup {q} /\ Decide(r)
      /\ UNCHANGED <<workerVars, pageVars, faults>>
  BY DEF RelayPosts, RelayStaged
<1>2. r.job \in Job /\ Verdict(r) \in {"lookup", "post", "accepted", "refused"}
  BY RelayFacts DEF Verdict
<1>3. q \in Relay /\ q.job = r.job /\ q.use = r.use /\ q.on = r.on
  BY <1>2, RelayFacts, RelayStagedType
<1> HIDE DEF q
<1>4. relays \ {r} \subseteq relays
  OBVIOUS
<1>5. RelaysIn(relays', status, token, held)
  BY <1>1, <1>3, <1>4, RelayFacts, NowPages, RelaysFewer, RelayAdded
<1>6. /\ claims' = claims /\ stored' = stored /\ saves' = saves /\ tick' = tick
      /\ cap' = cap /\ posts' = posts /\ refusals' = refusals /\ sent' = sent
  BY <1>1 DEF workerVars, pageVars
<1>7. Shrinks(cap, cap') /\ PostsIn(posts', status, token, held)
  BY <1>6, NowPages, ShrinksSame
<1>8. QED
  BY <1>1, <1>2, <1>5, <1>6, <1>7, DecideMoves, RelayStepOK

LEMMA RelayLostStep == ASSUME IInv, NEW r \in relays, RelayLost(r) PROVE IInv'
<1>1. /\ relays' \subseteq relays /\ Fault /\ Acknowledged(r, FALSE)
      /\ Decide(r) \/ UNCHANGED serverVars
      /\ Forget(r.job) \/ UNCHANGED <<claims, saves>>
      /\ UNCHANGED <<stored, tick, refusals, sent>>
  BY DEF RelayLost
<1>2. RelaysIn(relays', status, token, held)
  BY <1>1, NowPages, RelaysFewer
<1>3. ServerOK' /\ Moves(status, token, held, status', token', held')
  BY <1>1, DecideMoves, ServerStill
<1>4. QED
  BY <1>1, <1>2, <1>3, RelayFacts, AcknowledgedOK, RelayStepOK

LEMMA RelayDoneStep == ASSUME IInv, NEW r \in relays, RelayDone(r) PROVE IInv'
<1>1. /\ relays' \subseteq relays /\ Acknowledged(r, r.stage = "accepted") /\ Forget(r.job)
      /\ UNCHANGED <<serverVars, stored, tick, refusals, sent, faults>>
  BY DEF RelayDone
<1>2. RelaysIn(relays', status, token, held)
  BY <1>1, NowPages, RelaysFewer
<1>3. PostsIn(posts', status, token, held) /\ Shrinks(cap, cap')
  BY <1>1, AcknowledgedOK
<1>4. QED
  BY <1>1, <1>2, <1>3, ServerStill, RelayFacts, RelayStepOK

LEMMA RestartStep == ASSUME IInv, WorkerRestart PROVE IInv'
<1>1. /\ Fault /\ claims' = Deserialised(stored) /\ saves' = <<>> /\ tick' = IdleTick
      /\ relays' = {} /\ refusals' = {} /\ registered' = FALSE
      /\ UNCHANGED <<status, token, held, stored, cap, posts, sent>>
  BY DEF WorkerRestart
<1>2. ServerOK'
  BY <1>1 DEF IInv, ServerOK
<1>3. \A j \in Job : token[j] \in Token /\ token[j] <= token[j]
  BY TokenType DEF IInv, ServerOK
<1>4. Moves(status, token, held, status', token', held')
  BY <1>1, <1>3 DEF Moves
<1>5. ClaimsIn(claims', status, token, held)
  <2> DEFINE c(j) == [tab |-> stored[j], token |-> 0]
  <2>1. ASSUME NEW j \in Job
        PROVE  c(j) \in Claim /\ (c(j).tab = NoTab => c(j) = NoClaim) /\ c(j).token = 0
    <3>1. stored[j] \in Tab \cup {NoTab}
      BY DEF IInv, StorageOK, StoreType
    <3>2. QED
      BY <3>1, TokenType, SMT DEF Claim, NoClaim
  <2>2. claims' = [j \in Job |-> c(j)]
    BY <1>1 DEF Deserialised
  <2> HIDE DEF c
  <2>3. QED
    BY <2>1, <2>2, NoTokenNames DEF ClaimsIn
<1>6. StorageOK'
  BY <1>1 DEF IInv, StorageOK
<1>7. TickIn(tick', status, token, held) /\ Fresh(tick', sent, cap)
  BY <1>1, IdleTickOK
<1>8. RelaysIn(relays', status, token, held) /\ refusals' \subseteq RefusalType
  BY <1>1 DEF RelaysIn
<1>9. faults' \in 0..MaxFaults
  BY <1>1, FaultCounted
<1>10. Now(claims', tick', relays', posts', cap', sent', refusals', faults')
  BY <1>1, <1>5, <1>7, <1>8, <1>9, NowNow DEF Now
<1>11. QED
  BY <1>2, <1>4, <1>6, <1>10, Closing

-----------------------------------------------------------------------------
(* The invariant and what follows from it.                                 *)

LEMMA InitInv == Init => IInv
<1> SUFFICES ASSUME Init PROVE IInv
  OBVIOUS
<1>1. ServerOK
  BY TokenType DEF Init, ServerOK
<1>2. \A j \in Job : \A t : Names(status, token, held, j, 0, t)
  BY SMT DEF Init, Names
<1>3. ClaimsIn([j \in Job |-> NoClaim], status, token, held)
  BY <1>2, ClaimType DEF ClaimsIn
<1>4. ClaimsIn(claims, status, token, held)
  BY <1>3 DEF Init
<1>5. StorageOK
  BY DEF Init, StorageOK, StoreType
<1>6. TickIn(tick, status, token, held) /\ Fresh(tick, sent, cap)
  BY <1>3, IdleTickFacts, PlainTick DEF Init
<1>7. RelaysIn(relays, status, token, held) /\ PostsIn(posts, status, token, held)
  BY DEF Init, RelaysIn, PostsIn
<1>8. CapsIn(cap, status, token, held)
  BY NoCaptureType DEF Init, CapsIn
<1>9. SentIn(sent, token, cap)
  <2>1. sent \in [Job -> [Token -> Nat]] /\ \A j \in Job, k \in Token : sent[j][k] = 0
    BY DEF Init
  <2>2. \A t \in Tab : cap[t] = NoCapture
    BY DEF Init
  <2>3. QED
    BY <2>1, <2>2, NoCaptureType DEF SentIn
<1>10. refusals \subseteq RefusalType /\ faults \in 0..MaxFaults
  BY BoundsAssumption, SMT DEF Init
<1>11. QED
  BY <1>1, <1>4, <1>5, <1>6, <1>7, <1>8, <1>9, <1>10 DEF IInv

LEMMA StutterStep == ASSUME IInv, UNCHANGED vars PROVE IInv'
<1>1. UNCHANGED <<serverVars, workerVars, relays, pageVars, faults>>
  BY DEF vars
<1>2. QED
  BY <1>1, ServerStill, ServerStep

LEMMA NextInv == IInv /\ [Next]_vars => IInv'
<1> SUFFICES ASSUME IInv, [Next]_vars PROVE IInv'
  OBVIOUS
<1>1. CASE Server
  BY <1>1, SubmitStep, LapseStep, ExpireStep DEF Server
<1>2. CASE TickStep
  BY <1>2, TickStartStep, LookUpStep, CancelStep, ReconciledStep, RegisterStep, LoadPendingStep,
     ChooseTabStep, PollStep, ClaimSavedStep, DispatchStep DEF TickStep
<1>3. ASSUME NEW t \in Tab, CaptureStep(t) \/ PageLost(t) \/ HeartbeatRefused(t) PROVE IInv'
  BY <1>3, PrepareStep, SendStep, ObserveStep, AnswerStep, PageLostStep, HeartbeatStep
     DEF CaptureStep
<1>4. CASE PostStep
  BY <1>4, TryPostStep, AckTimeoutStep, PostEndsStep DEF PostStep
<1>5. CASE RelayStep
  BY <1>5, LookUpTokenStep, RelayPostsStep, RelayDoneStep DEF RelayStep
<1>6. QED
  BY <1>1, <1>2, <1>3, <1>4, <1>5, WriteClaimsStep, RefuseTargetStep, RefusalStep,
     RelayLostStep, RestartStep, StutterStep DEF Next

\* The strengthened invariant holds always: every copy of a running claim names
\* its tab and no copy is of a claim still to come (see IInv).
THEOREM Invariance == Spec => []IInv
BY InitInv, NextInv, PTL DEF Spec

\* What the server, the worker and the pages keep has its type, in every
\* interleaving and after every restart.
THEOREM TypeCorrect == Spec => []TypeOK
<1>1. IInv => TypeOK
  BY DEF IInv, ServerOK, ClaimsIn, StorageOK, StoreType, TickIn, RelaysIn, PostsIn, CapsIn,
         SentIn, RefusalType, TypeOK
<1>2. QED
  BY <1>1, Invariance, PTL

\* No prompt is sent twice under one claim, for any number of jobs and pages.
THEOREM SentAtMostOnce == Spec => []OneSendPerClaim
<1>1. IInv => OneSendPerClaim
  BY DEF IInv, SentIn, OneSendPerClaim
<1>2. QED
  BY <1>1, Invariance, PTL

\* Every copy of a running claim's token goes with the claim's tab.
THEOREM TokensNameTheirTabs == Spec => []TokenNamesItsTab
<1>1. IInv => TokenNamesItsTab
  <2> SUFFICES ASSUME IInv, NEW j \in Job, status[j] = "claimed"
               PROVE  /\ claims[j].token = token[j] => claims[j].tab = held[j]
                      /\ \A t \in Tab : cap[t].job = j /\ cap[t].token = token[j] => t = held[j]
                      /\ \A p \in posts : p.job = j /\ p.token = token[j] => p.tab = held[j]
                      /\ \A r \in relays : r.job = j /\ r.use = token[j] => r.on = held[j]
    BY DEF TokenNamesItsTab
  <2>1. claims[j].token = token[j] => claims[j].tab = held[j]
    BY DEF IInv, ClaimsIn, Names
  <2>2. ASSUME NEW t \in Tab, cap[t].job = j, cap[t].token = token[j] PROVE t = held[j]
    <3>1. cap[t] # NoCapture
      BY <2>2, NoCaptureType
    <3>2. Names(status, token, held, j, token[j], t)
      BY <2>2, <3>1, CaptureFacts
    <3>3. QED
      BY <3>2 DEF Names
  <2>3. ASSUME NEW p \in posts, p.job = j, p.token = token[j] PROVE p.tab = held[j]
    BY <2>3, PostFacts DEF Names
  <2>4. ASSUME NEW r \in relays, r.job = j, r.use = token[j] PROVE r.on = held[j]
    BY <2>4, RelayFacts DEF Names
  <2>5. QED
    BY <2>1, <2>2, <2>3, <2>4
<1>2. QED
  BY <1>1, Invariance, PTL
=============================================================================
