----------------------- MODULE CaptureDeliveryProofs -----------------------
(***************************************************************************)
(* A theorem about CaptureWorker, for any jobs, pages and bounds: a page   *)
(* gives up reporting an answer only when the server has ended the claim,  *)
(* unless as much went wrong as the page has tries.  The inductive         *)
(* invariant has three parts besides that of CaptureWorkerProofs.  Memory: *)
(* once a claim has been handed to a page, and as long as the server       *)
(* stands by it, all the worker keeps of the job, in memory, in the copy   *)
(* it reconciles, in session storage and on its way there, is this claim   *)
(* or nothing.  Informed: so a relay posts with the token and the tab of   *)
(* the claim, and a verdict means that the claim is over.  Tries: so each  *)
(* failed try of a running claim is one thing that went wrong.             *)
(***************************************************************************)
EXTENDS CaptureWorkerProofs

Running(j, k) == status[j] = "claimed" /\ token[j] = k

\* What is kept of a job is its claim with token k on the tab t, or nothing.
OfClaim(c, k, t) == c.tab \in {NoTab, t} /\ c.token \in {0, k}

\* The copy that a reconciliation under way is to put in place of the claims.
Copy(j) == IF tick.at \in {"reconcile", "cancel"} THEN tick.kept[j] ELSE NoClaim

\* So is all the worker keeps, but for the first n - 1 pending writes.
Keeps(n, j, k, t) ==
    /\ OfClaim(claims[j], k, t) /\ OfClaim(Copy(j), k, t)
    /\ n <= Len(saves)
    /\ n = 0 => stored[j] \in {NoTab, t}
    /\ \A i \in 1..Len(saves) : i >= n => saves[i][j] \in {NoTab, t}

Handed(j, k) ==
    \/ tick.at = "dispatch" /\ tick.job = j /\ tick.token = k
    \/ \E t \in Tab : cap[t].job = j /\ cap[t].token = k
    \/ \E p \in posts : p.job = j /\ p.token = k

\* The claim is handed over, or n writes from it.
Due(n, j, k) ==
    \/ n = 0 /\ Handed(j, k)
    \/ tick.at = "save" /\ tick.job = j /\ tick.token = k /\ n = tick.left

Memory ==
    \A j \in Job, k \in Token, n \in Nat :
        Due(n, j, k) /\ Running(j, k) => Keeps(n, j, k, held[j])

InformedOf(r) ==
    /\ r.token \in Token /\ r.token <= token[r.job]
    /\ Running(r.job, r.token) =>
          /\ r.on = held[r.job]
          /\ r.stage = "lookup" \/ (r.stage = "post" /\ r.use = r.token)

Informed == \A r \in relays : InformedOf(r)

Current(p) == p.open /\ \E r \in relays : IsTryOf(r, p)

TriesOf(p) ==
    p.ok /\ Running(p.job, p.token) => p.tries <= faults + (IF Current(p) THEN 1 ELSE 0)

Tries == \A p \in posts : TriesOf(p)

DInv == Memory /\ Informed /\ Tries

-----------------------------------------------------------------------------
(* What a step of the server leaves of the claims.                         *)

ServerMoves == Moves(status, token, held, status', token', held')

LEMMA RunningBefore ==
    ASSUME IInv, ServerMoves, NEW j \in Job, NEW k \in Token, k <= token[j], Running(j, k)'
    PROVE  Running(j, k) /\ held'[j] = held[j]
<1>1. token[j] \in Nat /\ token'[j] \in Nat /\ k \in Nat /\ token[j] <= token'[j]
  BY TokenType DEF IInv, ServerOK, ServerMoves, Moves
<1>2. token'[j] = k /\ status'[j] = "claimed"
  BY DEF Running
<1>3. token'[j] = token[j]
  BY <1>1, <1>2, SMT
<1>4. QED
  BY <1>2, <1>3 DEF ServerMoves, Moves, Running

LEMMA SameTokensMove ==
    ASSUME IInv, token' = token,
           \A j \in Job : status'[j] = "claimed" => status[j] = "claimed" /\ held'[j] = held[j]
    PROVE  ServerMoves
<1>1. \A j \in Job : token[j] \in Token /\ token[j] <= token[j]
  BY TokenType DEF IInv, ServerOK
<1>2. QED
  BY <1>1 DEF ServerMoves, Moves

LEMMA ServerAlone ==
    ASSUME IInv, NEW j \in Job, Submit(j) \/ Lapse(j) \/ Expire(j)
    PROVE  ServerMoves
<1>1. /\ token' = token
      /\ \/ status' = [status EXCEPT ![j] = "queued"] /\ held' = held
         \/ status' = [status EXCEPT ![j] = Retried(j)] /\ held' = [held EXCEPT ![j] = NoTab]
         \/ status' = [status EXCEPT ![j] = "failed"] /\ held' = held
  BY DEF Submit, Lapse, Expire
<1>2. Retried(j) # "claimed"
  BY DEF Retried
<1>3. ASSUME NEW i \in Job, status'[i] = "claimed"
      PROVE  status[i] = "claimed" /\ held'[i] = held[i]
  BY <1>1, <1>2, <1>3 DEF IInv, ServerOK
<1>4. QED
  BY <1>1, <1>3, SameTokensMove

LEMMA ServerStays == ASSUME IInv, UNCHANGED serverVars PROVE ServerMoves
BY SameTokensMove DEF serverVars

LEMMA FaultsGrow ==
    ASSUME IInv, Fault \/ UNCHANGED faults
    PROVE  /\ faults \in Nat /\ faults' \in Nat /\ faults <= faults'
           /\ Fault => faults' = faults + 1
BY BoundsAssumption, SMT DEF IInv, Fault

-----------------------------------------------------------------------------
(* The three parts carried over a step.                                    *)

\* What is due has a token the server has given out.
LEMMA DueKnown ==
    ASSUME IInv, NEW j \in Job, NEW k \in Token, NEW n, Due(n, j, k)
    PROVE  k <= token[j]
<1>1. CASE tick.at \in {"save", "dispatch"} /\ tick.job = j /\ tick.token = k
  BY <1>1 DEF IInv, TickIn, Names
<1>2. ASSUME NEW t \in Tab, cap[t].job = j, cap[t].token = k PROVE k <= token[j]
  <2>1. cap[t] # NoCapture
    BY <1>2, NoCaptureType
  <2>2. QED
    BY <1>2, <2>1, CaptureFacts DEF Names
<1>3. ASSUME NEW p \in posts, p.job = j, p.token = k PROVE k <= token[j]
  BY <1>3, PostFacts DEF Names
<1>4. QED
  BY <1>1, <1>2, <1>3 DEF Due, Handed

\* Nothing more is due than was.
DueKept == \A j \in Job, k \in Token, n \in Nat : Due(n, j, k)' => Due(n, j, k)

\* What was of a claim still is.
MemoryKept == \A j \in Job, k \in Token, n \in Nat : \A t : Keeps(n, j, k, t) => Keeps(n, j, k, t)'

LEMMA MemoryCarried ==
    ASSUME IInv, Memory, ServerMoves, DueKept, MemoryKept
    PROVE  Memory'
<1> SUFFICES ASSUME NEW j \in Job, NEW k \in Token, NEW n \in Nat,
                    Due(n, j, k)', Running(j, k)'
             PROVE  Keeps(n, j, k, held[j])'
  BY DEF Memory
<1>1. Due(n, j, k)
  BY DEF DueKept
<1>2. Running(j, k) /\ held'[j] = held[j]
  BY <1>1, DueKnown, RunningBefore
<1>3. Keeps(n, j, k, held[j])
  BY <1>1, <1>2 DEF Memory
<1>4. PICK t : t = held[j]
  OBVIOUS
<1>5. Keeps(n, j, k, t)'
  BY <1>3, <1>4 DEF MemoryKept
<1>6. held'[j] = t
  BY <1>2, <1>4
<1>7. QED
  BY <1>5, <1>6 DEF Keeps

LEMMA InformedCarried ==
    ASSUME IInv, ServerMoves, NEW r \in Relay, InformedOf(r)
    PROVE  InformedOf(r)'
<1>1. r.job \in Job /\ r.token \in Token
  BY SMT DEF Relay
<1>2. r.token <= token'[r.job]
  <2>1. /\ r.token \in Nat /\ token[r.job] \in Nat /\ token'[r.job] \in Nat
        /\ r.token <= token[r.job] /\ token[r.job] <= token'[r.job]
    BY <1>1, TokenType DEF IInv, ServerOK, ServerMoves, Moves, InformedOf
  <2>2. QED
    BY <2>1, SMT
<1>3. ASSUME Running(r.job, r.token)' PROVE Running(r.job, r.token) /\ held'[r.job] = held[r.job]
  BY <1>1, <1>3, RunningBefore DEF InformedOf
<1>4. QED
  BY <1>1, <1>2, <1>3 DEF InformedOf

\* Each relay was there, or knows what it has to.
RelaysTold == \A r \in relays' : r \in relays \/ InformedOf(r)'

LEMMA RelaysInformed == ASSUME IInv, Informed, ServerMoves, RelaysTold PROVE Informed'
<1>1. \A r \in relays : r \in Relay
  BY DEF IInv, RelaysIn
<1>2. QED
  BY <1>1, InformedCarried DEF Informed, RelaysTold

\* Each outcome was there and its try is still relayed, something went wrong or
\* its claim is over; or its tries are accounted for.
PostsTried ==
    \A p \in posts' :
        \/ p \in posts /\ (Current(p) => Current(p)' \/ Fault \/ ~Running(p.job, p.token))
        \/ TriesOf(p)'

LEMMA TriesCarried ==
    ASSUME IInv, Tries, ServerMoves, Fault \/ UNCHANGED faults, PostsTried
    PROVE  Tries'
<1> SUFFICES ASSUME NEW p \in posts', p \in posts,
                    Current(p) => Current(p)' \/ Fault \/ ~Running(p.job, p.token),
                    p.ok, Running(p.job, p.token)'
             PROVE  p.tries <= faults' + (IF Current(p)' THEN 1 ELSE 0)
  BY DEF PostsTried, Tries, TriesOf
<1>1. p.job \in Job /\ p.token \in Token /\ p.token <= token[p.job] /\ p.tries \in Nat
  BY PostFacts, SMT DEF Names
<1>2. Running(p.job, p.token)
  BY <1>1, RunningBefore
<1>3. p.tries <= faults + (IF Current(p) THEN 1 ELSE 0)
  BY <1>2 DEF Tries, TriesOf
<1>4. /\ faults \in Nat /\ faults' \in Nat /\ faults <= faults'
      /\ Fault => faults' = faults + 1
  BY FaultsGrow
<1>5. CASE Current(p)
  <2>1. Current(p)' \/ faults' = faults + 1
    BY <1>2, <1>4, <1>5
  <2>2. p.tries <= faults + 1
    BY <1>3, <1>5
  <2>3. QED
    BY <1>1, <1>4, <2>1, <2>2, SMT
<1>6. CASE ~Current(p)
  <2>1. p.tries <= faults
    BY <1>3, <1>4, <1>6, SMT
  <2>2. QED
    BY <1>1, <1>4, <2>1, SMT
<1>7. QED
  BY <1>5, <1>6

LEMMA DeliveryCarried ==
    ASSUME IInv, DInv, ServerMoves, DueKept, MemoryKept, RelaysTold, PostsTried,
           Fault \/ UNCHANGED faults
    PROVE  DInv'
BY MemoryCarried, RelaysInformed, TriesCarried DEF DInv

-----------------------------------------------------------------------------
(* What is due, and what the worker keeps.                                 *)

CapsDue == \A t \in Tab : cap'[t].job \in Job => Due(0, cap'[t].job, cap'[t].token)

PostsDue == \A p \in posts' : Due(0, p.job, p.token)

TickDue ==
    /\ tick'.at = "dispatch" => Due(0, tick'.job, tick'.token)
    /\ tick'.at = "save" => Due(tick'.left, tick'.job, tick'.token)

LEMMA DueFrom == ASSUME CapsDue, PostsDue, TickDue PROVE DueKept
<1> SUFFICES ASSUME NEW j \in Job, NEW k \in Token, NEW n \in Nat, Due(n, j, k)'
             PROVE  Due(n, j, k)
  BY DEF DueKept
<1>1. CASE n = 0 /\ Handed(j, k)'
  <2>1. CASE tick'.at = "dispatch" /\ tick'.job = j /\ tick'.token = k
    BY <1>1, <2>1 DEF TickDue
  <2>2. ASSUME NEW t \in Tab, cap'[t].job = j, cap'[t].token = k PROVE Due(n, j, k)
    BY <1>1, <2>2 DEF CapsDue
  <2>3. ASSUME NEW p \in posts', p.job = j, p.token = k PROVE Due(n, j, k)
    BY <1>1, <2>3 DEF PostsDue
  <2>4. QED
    BY <1>1, <2>1, <2>2, <2>3 DEF Handed
<1>2. CASE tick'.at = "save" /\ tick'.job = j /\ tick'.token = k /\ n = tick'.left
  BY <1>2 DEF TickDue
<1>3. QED
  BY <1>1, <1>2 DEF Due

LEMMA ShrunkDue == ASSUME IInv, Shrinks(cap, cap') PROVE CapsDue
<1> SUFFICES ASSUME NEW t \in Tab, cap'[t].job \in Job
             PROVE  Due(0, cap'[t].job, cap'[t].token)
  BY DEF CapsDue
<1>1. cap'[t] # NoCapture
  BY NoCaptureType
<1>2. cap'[t].job = cap[t].job /\ cap'[t].token = cap[t].token
  BY <1>1 DEF Shrinks
<1>3. QED
  BY <1>2 DEF Due, Handed

LEMMA CapsStay == ASSUME IInv, UNCHANGED cap PROVE CapsDue
BY ShrunkDue, ShrinksSame, NowPages

LEMMA PostsDueNow == \A p \in posts : Due(0, p.job, p.token)
BY DEF Due, Handed

LEMMA TickStays == ASSUME UNCHANGED tick PROVE TickDue /\ \A j \in Job : Copy(j)' = Copy(j)
BY DEF TickDue, Due, Handed, Copy

LEMMA TickNotDue == ASSUME tick'.at \notin {"save", "dispatch"} PROVE TickDue
BY DEF TickDue

LEMMA TickNotCopying ==
    ASSUME tick'.at \notin {"reconcile", "cancel"} PROVE \A j \in Job : Copy(j)' = NoClaim
BY DEF Copy

\* Each copy of a claim is of one the worker had, or of none.
Recalled ==
    /\ UNCHANGED stored
    /\ UNCHANGED saves \/ (claims' \in [Job -> Claim] /\ Persist(claims'))
    /\ \A j \in Job : /\ claims'[j] \in {claims[j], Copy(j), NoClaim}
                      /\ Copy(j)' \in {claims[j], Copy(j), NoClaim}

Fine(sv, n, j, t) == n <= Len(sv) /\ \A i \in 1..Len(sv) : i >= n => sv[i][j] \in {NoTab, t}

LEMMA PersistedFine ==
    ASSUME saves \in Seq(StoreType), NEW c \in [Job -> Claim], Persist(c),
           NEW j \in Job, NEW t, c[j].tab \in {NoTab, t}, NEW n \in Nat, Fine(saves, n, j, t)
    PROVE  Fine(saves', n, j, t)
<1> DEFINE e == Serialised(c)
<1>1. e \in StoreType /\ e[j] \in {NoTab, t}
  BY SerialisedType DEF Serialised
<1>2. saves' = saves \/ saves' = Append(saves, e)
  BY DEF Persist
<1> HIDE DEF e
<1>3. CASE saves' = Append(saves, e)
  <2>1. /\ Len(saves') = Len(saves) + 1 /\ Len(saves) \in Nat
        /\ \A i \in 1..Len(saves) : saves'[i] = saves[i]
        /\ saves'[Len(saves) + 1] = e
    BY <1>1, <1>3
  <2>2. n <= Len(saves')
    BY <2>1, SMT DEF Fine
  <2>3. ASSUME NEW i \in 1..Len(saves'), i >= n PROVE saves'[i][j] \in {NoTab, t}
    <3>1. i \in 1..Len(saves) \/ i = Len(saves) + 1
      BY <2>1, SMT
    <3>2. CASE i \in 1..Len(saves)
      <4>1. saves'[i] = saves[i] /\ saves[i][j] \in {NoTab, t}
        BY <2>1, <2>3, <3>2 DEF Fine
      <4>2. QED
        BY <4>1
    <3>3. CASE i = Len(saves) + 1
      BY <1>1, <2>1, <3>3
    <3>4. QED
      BY <3>1, <3>2, <3>3
  <2>4. QED
    BY <2>2, <2>3 DEF Fine
<1>4. QED
  BY <1>2, <1>3

LEMMA NothingOfClaim == \A k, t : OfClaim(NoClaim, k, t)
BY ClaimType DEF OfClaim

LEMMA RecalledKept == ASSUME IInv, Recalled PROVE MemoryKept
<1> SUFFICES ASSUME NEW j \in Job, NEW k \in Token, NEW n \in Nat, NEW t, Keeps(n, j, k, t)
             PROVE  Keeps(n, j, k, t)'
  BY DEF MemoryKept
<1>1. OfClaim(claims'[j], k, t) /\ OfClaim(Copy(j)', k, t)
  BY NothingOfClaim DEF Recalled, Keeps
<1>2. Fine(saves, n, j, t)
  BY DEF Keeps, Fine
<1>3. Fine(saves', n, j, t)
  <2>1. CASE UNCHANGED saves
    BY <1>2, <2>1
  <2>2. CASE claims' \in [Job -> Claim] /\ Persist(claims')
    <3>1. claims'[j].tab \in {NoTab, t} /\ saves \in Seq(StoreType)
      BY <1>1 DEF OfClaim, IInv, StorageOK
    <3>2. QED
      BY <1>2, <2>2, <3>1, PersistedFine
  <2>3. QED
    BY <2>1, <2>2 DEF Recalled
<1>4. stored' = stored
  BY DEF Recalled
<1>5. QED
  BY <1>1, <1>3, <1>4 DEF Keeps, Fine

LEMMA RelaysStay ==
    ASSUME relays \subseteq relays' PROVE \A p : Current(p) => Current(p)'
BY DEF Current

\* Only what the server has and the run of the tick change.
LEMMA QuietStep ==
    ASSUME IInv, DInv, ServerMoves, UNCHANGED <<claims, stored, saves, relays, cap, posts>>,
           \A j \in Job : Copy(j)' \in {claims[j], Copy(j), NoClaim},
           TickDue, Fault \/ UNCHANGED faults
    PROVE  DInv'
<1>1. Recalled
  BY DEF Recalled
<1>2. CapsDue /\ PostsDue
  BY CapsStay, PostsDueNow DEF PostsDue
<1>3. RelaysTold /\ PostsTried
  BY RelaysStay DEF RelaysTold, PostsTried
<1>4. QED
  BY <1>1, <1>2, <1>3, DueFrom, RecalledKept, DeliveryCarried

-----------------------------------------------------------------------------
(* The server on its own, and the run of the tick.                         *)

LEMMA ServerDelivery ==
    ASSUME IInv, DInv, NEW j \in Job, Submit(j) \/ Lapse(j) \/ Expire(j)
    PROVE  DInv'
<1>1. UNCHANGED <<claims, stored, saves, relays, cap, posts, tick, faults>>
  BY DEF Submit, Lapse, Expire, workerVars, pageVars
<1>2. QED
  BY <1>1, ServerAlone, TickStays, QuietStep

LEMMA StutterDelivery == ASSUME IInv, DInv, UNCHANGED vars PROVE DInv'
<1>1. /\ UNCHANGED <<claims, stored, saves, relays, cap, posts, tick, faults>>
      /\ UNCHANGED serverVars
  BY DEF vars, workerVars, pageVars
<1>2. QED
  BY <1>1, ServerStays, TickStays, QuietStep

\* The tick forgets the copy of the claims it had, or keeps it.
LEMMA TickDelivery ==
    ASSUME IInv, DInv, ServerMoves, TickOnly, Fault \/ UNCHANGED faults,
           \A j \in Job : Copy(j)' \in {claims[j], Copy(j), NoClaim},
           TickDue
    PROVE  DInv'
<1>1. UNCHANGED <<claims, stored, saves, relays, cap, posts>>
  BY DEF TickOnly, pageVars
<1>2. QED
  BY <1>1, QuietStep

LEMMA TickEndDelivery ==
    ASSUME IInv, DInv, ServerMoves, TickOnly, Fault \/ UNCHANGED faults, TickEnds
    PROVE  DInv'
<1>1. tick'.at = "idle"
  BY IdleTickFacts DEF TickEnds
<1>2. QED
  BY <1>1, TickNotDue, TickNotCopying, TickDelivery

LEMMA TickStartDelivery == ASSUME IInv, DInv, TickStart PROVE DInv'
<1>1. TickOnly /\ UNCHANGED serverVars /\ UNCHANGED faults
  BY DEF TickStart
<1> DEFINE y == TickMoved(IdleTick, "register")
<1> DEFINE z == TickStarted(IdleTick, "reconcile", {j \in Job : Known(j)}, claims)
<1>2. y.at = "register"
  BY IdleTickFacts, AtNames, TickMovedType
<1>3. z.at = "reconcile" /\ z.kept = claims
  BY IdleTickFacts, AtNames, NowTick, TickStartedType
<1>4. tick' = y \/ tick' = z
  BY DEF TickStart, TickMoved, TickStarted
<1> HIDE DEF y, z
<1>5. /\ tick'.at \notin {"save", "dispatch"}
      /\ \A j \in Job : Copy(j)' \in {claims[j], NoClaim}
  BY <1>2, <1>3, <1>4 DEF Copy
<1>6. QED
  BY <1>1, <1>5, ServerStays, TickNotDue, TickDelivery

LEMMA LookUpDelivery == ASSUME IInv, DInv, NEW j \in Job, LookUp(j) PROVE DInv'
<1>1. /\ TickOnly /\ UNCHANGED serverVars /\ (Fault \/ UNCHANGED faults)
      /\ tick.at = "reconcile"
  BY DEF LookUp
<1>2. PICK a \in {"reconcile", "cancel"}, g \in SUBSET Job :
         tick' = TickLooked(tick, a, tick.todo \ {j}, g)
  BY LookedUp
<1>3. a \in Ats /\ tick.todo \ {j} \in SUBSET Job
  BY NowTick, AtNames
<1>4. tick'.at = a /\ tick'.kept = tick.kept
  BY <1>2, <1>3, NowTick, TickLookedType
<1>5. \A i \in Job : Copy(i)' = Copy(i)
  BY <1>1, <1>4 DEF Copy
<1>6. QED
  BY <1>1, <1>4, <1>5, ServerStays, TickNotDue, TickDelivery

LEMMA RegisterDelivery == ASSUME IInv, DInv, RegisterBrowserClient PROVE DInv'
<1> DEFINE a == IF tick.at = "register" THEN "load" ELSE "choose"
<1>1. /\ TickOnly /\ tick' = TickMoved(tick, a)
      /\ (TakeOver /\ UNCHANGED faults) \/ (Fault /\ UNCHANGED serverVars)
  BY DEF RegisterBrowserClient, TickMoved
<1>2. a \in Ats /\ a \notin {"save", "dispatch", "reconcile", "cancel"}
  BY AtNames
<1> HIDE DEF a
<1>3. tick'.at = a
  BY <1>1, <1>2, NowTick, TickMovedType
<1>4. ServerMoves
  BY <1>1, TakeOverMoves, ServerStays DEF ServerMoves
<1>5. QED
  BY <1>1, <1>2, <1>3, <1>4, TickNotDue, TickNotCopying, TickDelivery

LEMMA LoadPendingDelivery == ASSUME IInv, DInv, LoadPending PROVE DInv'
<1>1. TickOnly /\ UNCHANGED serverVars
  BY DEF LoadPending
<1>2. CASE TickEnds /\ (Fault \/ UNCHANGED faults)
  BY <1>1, <1>2, ServerStays, TickEndDelivery
<1>3. ASSUME NEW j \in Job, UNCHANGED faults,
             tick' = [tick EXCEPT !.at = "inventory", !.job = j,
                              !.busy = {held[k] : k \in {i \in Job : status[i] = "claimed"}}]
      PROVE  DInv'
  <2> DEFINE b == {held[k] : k \in {i \in Job : status[i] = "claimed"}}
  <2>1. b \in SUBSET Tab
    BY DEF IInv, ServerOK
  <2>2. tick' = TickOffered(tick, "inventory", j, b)
    BY <1>3 DEF TickOffered
  <2> HIDE DEF b
  <2>3. tick'.at = "inventory"
    BY <2>1, <2>2, NowTick, AtNames, TickOfferedType
  <2>4. QED
    BY <1>1, <1>3, <2>3, ServerStays, TickNotDue, TickNotCopying, TickDelivery
<1>4. QED
  BY <1>2, <1>3 DEF LoadPending

LEMMA ChooseTabDelivery == ASSUME IInv, DInv, ChooseTab PROVE DInv'
<1>1. TickOnly /\ UNCHANGED serverVars /\ tick.at = "choose"
  BY DEF ChooseTab
<1>2. CASE TickEnds /\ (Fault \/ UNCHANGED faults)
  BY <1>1, <1>2, ServerStays, TickEndDelivery
<1>3. ASSUME NEW t \in Choices(tick.job), UNCHANGED faults,
             tick' = [IdleTick EXCEPT !.at = "poll", !.tab = t]
      PROVE  DInv'
  <2>1. t \in Tab
    BY <1>1, <1>3, PresetAssumption DEF Choices, IInv, TickIn
  <2> DEFINE y == TickPolls(IdleTick, "poll", t)
  <2>2. IdleTick \in Tick /\ "poll" \in Ats
    BY IdleTickFacts, AtNames
  <2>3. y.at = "poll"
    BY <2>1, <2>2, TickPollsType
  <2>4. tick' = y
    BY <1>3 DEF TickPolls
  <2> HIDE DEF y
  <2>5. QED
    BY <1>1, <1>3, <2>3, <2>4, ServerStays, TickNotDue, TickNotCopying, TickDelivery
<1>4. QED
  BY <1>2, <1>3 DEF ChooseTab, PageUnready

\* The claim that is saved with no writes left is handed over.
LEMMA ClaimSavedDelivery == ASSUME IInv, DInv, ClaimSaved PROVE DInv'
<1>1. /\ TickOnly /\ UNCHANGED serverVars /\ UNCHANGED faults
      /\ tick.at = "save" /\ tick.left = 0
      /\ tick' = TickMoved(tick, "dispatch")
  BY DEF ClaimSaved, TickMoved
<1>2. /\ tick'.at = "dispatch"
      /\ tick'.job = tick.job /\ tick'.token = tick.token
  BY <1>1, NowTick, AtNames, TickMovedType
<1>3. TickDue
  BY <1>1, <1>2 DEF TickDue, Due
<1>4. QED
  BY <1>1, <1>2, <1>3, ServerStays, TickNotCopying, TickDelivery

LEMMA RefuseTargetDelivery == ASSUME IInv, DInv, RefuseTarget PROVE DInv'
BY ServerStays, TickEndDelivery DEF RefuseTarget

LEMMA CancelDelivery ==
    ASSUME IInv, DInv, NEW j \in Job, CancelClaimedPageCapture(j) PROVE DInv'
<1> DEFINE kept == [tick.kept EXCEPT ![j] = NoClaim]
<1>1. /\ tick.at = "cancel" /\ tick.kept[j] # NoClaim
      /\ cap' = Stopped(tick.kept[j].tab, j)
      /\ UNCHANGED <<serverVars, claims, stored, saves, relays, posts, refusals, sent, faults>>
  BY DEF CancelClaimedPageCapture
<1>2. tick' = TickKept(tick, kept)
  BY NowTick DEF CancelClaimedPageCapture, TickKept
<1>3. kept \in [Job -> Claim] /\ \A i \in Job : kept[i] \in {tick.kept[i], NoClaim}
  BY NowTick, ClaimType
<1>4. tick.kept[j].tab \in Tab
  BY <1>1, NowTick, ClaimType DEF ClaimsIn
<1> HIDE DEF kept
<1>5. tick'.at = "cancel" /\ tick'.kept = kept
  BY <1>1, <1>2, <1>3, NowTick, TickKeptType
<1>6. Shrinks(cap, cap')
  BY <1>1, <1>4, StoppedShrinks
<1>7. Recalled
  BY <1>1, <1>3, <1>5 DEF Recalled, Copy
<1>8. CapsDue /\ PostsDue /\ TickDue
  BY <1>1, <1>5, <1>6, ShrunkDue, PostsDueNow, TickNotDue DEF PostsDue
<1>9. RelaysTold /\ PostsTried
  BY <1>1, RelaysStay DEF RelaysTold, PostsTried
<1>10. QED
  BY <1>1, <1>7, <1>8, <1>9, ServerStays, DueFrom, RecalledKept, DeliveryCarried

LEMMA ReconciledDelivery == ASSUME IInv, DInv, Reconciled PROVE DInv'
<1>1. /\ UNCHANGED <<serverVars, stored, relays, pageVars, faults>>
      /\ tick' = TickMoved(IdleTick, "register")
      /\ UNCHANGED <<claims, saves>> \/ (claims' = tick.kept /\ Persist(claims'))
      /\ tick.at = "cancel"
  BY DEF Reconciled, TickMoved
<1> DEFINE y == TickMoved(IdleTick, "register")
<1>2. y.at = "register"
  BY IdleTickFacts, AtNames, TickMovedType
<1> HIDE DEF y
<1>3. tick'.at = "register"
  BY <1>1, <1>2 DEF y
<1>4. Recalled
  BY <1>1, <1>3, NowTick, TickNotCopying DEF Recalled, Copy
<1>5. UNCHANGED <<relays, cap, posts>>
  BY <1>1 DEF pageVars
<1>6. CapsDue /\ PostsDue /\ TickDue
  BY <1>3, <1>5, CapsStay, PostsDueNow, TickNotDue DEF PostsDue
<1>7. RelaysTold /\ PostsTried
  BY <1>5, RelaysStay DEF RelaysTold, PostsTried
<1>8. QED
  BY <1>1, <1>4, <1>6, <1>7, ServerStays, DueFrom, RecalledKept, DeliveryCarried

\* The first pending write is made: what was n writes away is n - 1 away.
LEMMA WriteClaimsDelivery == ASSUME IInv, DInv, WriteClaims PROVE DInv'
<1> DEFINE m == IF tick.left = 0 THEN 0 ELSE tick.left - 1
<1>1. /\ UNCHANGED <<serverVars, claims, relays, pageVars, faults>>
      /\ saves # <<>> /\ stored' = Head(saves) /\ saves' = Tail(saves)
      /\ tick' = TickLeft(tick, m)
  BY DEF WriteClaims, TickLeft
<1>2. tick.left \in Nat /\ m \in Nat
  <2>1. tick.left \in Nat
    BY NowTick, SMT DEF Tick
  <2>2. QED
    BY <2>1, SMT
<1>3. /\ tick'.at = tick.at /\ tick'.kept = tick.kept
      /\ tick'.job = tick.job /\ tick'.token = tick.token /\ tick'.left = m
  <2> HIDE DEF m
  <2>1. QED
    BY <1>1, <1>2, NowTick, TickLeftType
<1>4. ServerMoves /\ UNCHANGED <<relays, cap, posts>>
  BY <1>1, ServerStays DEF pageVars
<1>5. /\ Len(saves) \in Nat \ {0} /\ Len(saves') = Len(saves) - 1
      /\ stored' = saves[1] /\ \A i \in 1..Len(saves') : saves'[i] = saves[i + 1]
  <2>1. saves \in Seq(StoreType)
    BY DEF IInv, StorageOK
  <2>2. QED
    BY <1>1, <2>1
<1>6. ASSUME NEW j \in Job, NEW k \in Token, NEW t, NEW n \in Nat, NEW l \in Nat,
             l = (IF n = 0 THEN 0 ELSE n - 1), Keeps(n, j, k, t)
      PROVE  Keeps(l, j, k, t)'
  <2>1. OfClaim(claims'[j], k, t) /\ OfClaim(Copy(j)', k, t)
    BY <1>1, <1>3, <1>6 DEF Keeps, Copy
  <2>2. l <= Len(saves') /\ n <= Len(saves)
    BY <1>5, <1>6, SMT DEF Keeps
  <2>3. ASSUME l = 0 PROVE stored'[j] \in {NoTab, t}
    <3>1. 1 \in 1..Len(saves) /\ 1 >= n
      BY <1>5, <1>6, <2>3, SMT
    <3>2. saves[1][j] \in {NoTab, t}
      BY <1>6, <3>1 DEF Keeps
    <3>3. QED
      BY <1>5, <3>2
  <2>4. ASSUME NEW i \in 1..Len(saves'), i >= l PROVE saves'[i][j] \in {NoTab, t}
    <3>1. i + 1 \in 1..Len(saves) /\ i + 1 >= n
      BY <1>5, <1>6, <2>4, SMT
    <3>2. saves[i + 1][j] \in {NoTab, t}
      BY <1>6, <3>1 DEF Keeps
    <3>3. saves'[i] = saves[i + 1]
      BY <1>5
    <3>4. QED
      BY <3>2, <3>3
  <2>5. QED
    BY <2>1, <2>2, <2>3, <2>4 DEF Keeps
<1>7. Memory'
  <2> SUFFICES ASSUME NEW j \in Job, NEW k \in Token, NEW l \in Nat,
                      Due(l, j, k)', Running(j, k)'
               PROVE  Keeps(l, j, k, held[j])'
    BY DEF Memory
  <2>1. Handed(j, k)' => Handed(j, k)
    BY <1>3, <1>4 DEF Handed
  <2>2. PICK n \in Nat : Due(n, j, k) /\ l = (IF n = 0 THEN 0 ELSE n - 1)
    <3>1. CASE l = 0 /\ Handed(j, k)
      BY <3>1 DEF Due
    <3>2. CASE tick.at = "save" /\ tick.job = j /\ tick.token = k /\ l = m
      <4>1. Due(tick.left, j, k)
        BY <3>2 DEF Due
      <4>2. QED
        BY <1>2, <3>2, <4>1
    <3>3. QED
      BY <1>3, <2>1, <3>1, <3>2 DEF Due
  <2>3. Running(j, k) /\ held'[j] = held[j]
    BY <1>4, <2>2, DueKnown, RunningBefore
  <2>4. PICK t : t = held[j]
    OBVIOUS
  <2>5. Keeps(n, j, k, t)
    BY <2>2, <2>3, <2>4 DEF DInv, Memory
  <2>6. Keeps(l, j, k, t)'
    BY <1>6, <2>2, <2>5
  <2>7. held'[j] = t
    BY <2>3, <2>4
  <2>8. QED
    BY <2>6, <2>7 DEF Keeps
<1>8. RelaysTold /\ PostsTried
  BY <1>4, RelaysStay DEF RelaysTold, PostsTried
<1>9. QED
  BY <1>1, <1>4, <1>7, <1>8, RelaysInformed, TriesCarried DEF DInv

-----------------------------------------------------------------------------
(* The pages.                                                              *)

LEMMA PageDelivery ==
    ASSUME IInv, DInv, PageOnly, Fault \/ UNCHANGED faults, Shrinks(cap, cap'),
           PostsDue, RelaysTold, PostsTried
    PROVE  DInv'
<1>1. UNCHANGED serverVars /\ UNCHANGED <<claims, stored, saves, tick>>
  BY DEF PageOnly, workerVars
<1>2. Recalled /\ TickDue
  BY <1>1, TickStays DEF Recalled
<1>3. QED
  BY <1>1, <1>2, ServerStays, ShrunkDue, DueFrom, RecalledKept, DeliveryCarried

LEMMA PostsStay ==
    ASSUME UNCHANGED relays, posts' \subseteq posts
    PROVE  PostsDue /\ RelaysTold /\ PostsTried
BY PostsDueNow, RelaysStay DEF PostsDue, RelaysTold, PostsTried

\* A new outcome has no tries yet.
LEMMA PostIsNew ==
    ASSUME IInv, Fault \/ UNCHANGED faults, UNCHANGED relays, NEW q,
           posts' = posts \cup {q}, q.tries = 0, Due(0, q.job, q.token)
    PROVE  PostsDue /\ RelaysTold /\ PostsTried
<1>1. faults' \in Nat
  BY FaultsGrow
<1>2. \A n \in Nat : 0 <= n + 1 /\ 0 <= n + 0
  OBVIOUS
<1>3. q.tries <= faults' + (IF Current(q)' THEN 1 ELSE 0)
  BY <1>1, <1>2, Zenon
<1>4. TriesOf(q)'
  BY <1>3 DEF TriesOf
<1>5. QED
  BY <1>4, PostsDueNow, RelaysStay DEF PostsDue, RelaysTold, PostsTried

LEMMA FailsDelivers ==
    ASSUME IInv, NEW t \in Tab, cap[t] # NoCapture, Fails(t), UNCHANGED <<relays, faults>>
    PROVE  PostsDue /\ RelaysTold /\ PostsTried /\ Shrinks(cap, cap')
<1> DEFINE f == Failure(t, cap[t].job, cap[t].token)
<1>1. f.job = cap[t].job /\ f.token = cap[t].token /\ f.tries = 0
  BY CaptureFacts, FailureType
<1>2. posts' = posts \cup {f}
  BY DEF Fails
<1> HIDE DEF f
<1>3. Due(0, f.job, f.token)
  BY <1>1 DEF Due, Handed
<1>4. QED
  BY <1>1, <1>2, <1>3, PostIsNew, FailsOK

LEMMA AdvanceDelivers ==
    ASSUME IInv, NEW t \in Tab, cap[t] # NoCapture, NEW st \in CaptureSteps, Advance(t, st),
           st \in Unsent => cap[t].step \in Unsent, UNCHANGED relays
    PROVE  PostsDue /\ RelaysTold /\ PostsTried /\ Shrinks(cap, cap')
BY AdvanceOK, PostsStay DEF Advance

LEMMA PrepareDelivery == ASSUME IInv, DInv, NEW t \in Tab, Prepare(t) PROVE DInv'
<1>1. /\ PageOnly /\ UNCHANGED <<relays, faults>>
      /\ cap[t].step = "prepare" /\ (Fails(t) \/ Advance(t, "ready"))
  BY DEF Prepare, InputUnusable, PromptEntered
<1>2. cap[t] # NoCapture /\ cap[t].step \in Unsent /\ "ready" \in CaptureSteps
  BY <1>1, Active DEF Unsent, CaptureSteps
<1>3. QED
  BY <1>1, <1>2, FailsDelivers, AdvanceDelivers, PageDelivery

LEMMA SendDelivery == ASSUME IInv, DInv, NEW t \in Tab, Send(t) PROVE DInv'
<1>1. /\ PageOnly /\ UNCHANGED <<relays, faults>> /\ cap[t].step = "ready"
      /\ Advance(t, "observe") \/ Advance(t, "unsent") \/ Fails(t)
  BY DEF Send, Click, PressEnter, PressShortcut
<1>2. cap[t] # NoCapture
  BY <1>1, Active
<1>3. "observe" \in CaptureSteps \ Unsent /\ "unsent" \in CaptureSteps \ Unsent
  BY SMT DEF CaptureSteps, Unsent
<1>4. QED
  BY <1>1, <1>2, <1>3, FailsDelivers, AdvanceDelivers, PageDelivery

LEMMA ObserveDelivery == ASSUME IInv, DInv, NEW t \in Tab, Observe(t) PROVE DInv'
<1>1. /\ PageOnly /\ UNCHANGED <<relays, faults>>
      /\ cap[t].step \in {"observe", "unsent"} /\ (Fails(t) \/ Advance(t, "answer"))
  BY DEF Observe
<1>2. cap[t] # NoCapture /\ "answer" \in CaptureSteps \ Unsent
  BY <1>1, Active, SMT DEF CaptureSteps, Unsent
<1>3. QED
  BY <1>1, <1>2, FailsDelivers, AdvanceDelivers, PageDelivery

LEMMA AnswerDelivery == ASSUME IInv, DInv, NEW t \in Tab, Answer(t) PROVE DInv'
<1>1. PageOnly /\ UNCHANGED <<relays, faults>> /\ cap[t].step = "answer"
  BY DEF Answer
<1>2. cap[t] # NoCapture /\ "report" \in CaptureSteps \ Unsent
  BY <1>1, Active, SMT DEF CaptureSteps, Unsent
<1>3. CASE Fails(t)
  BY <1>1, <1>2, <1>3, FailsDelivers, PageDelivery
<1>4. CASE /\ cap' = [cap EXCEPT ![t].step = "report"]
           /\ posts' = posts \cup {[Failure(t, cap[t].job, cap[t].token) EXCEPT !.ok = TRUE]}
  <2> DEFINE f == Failure(t, cap[t].job, cap[t].token)
  <2> DEFINE q == PostAs(f, TRUE)
  <2>1. f \in Post /\ f.job = cap[t].job /\ f.token = cap[t].token /\ f.tries = 0
    BY <1>2, CaptureFacts, FailureType
  <2>2. posts' = posts \cup {q}
    BY <1>4 DEF PostAs
  <2> HIDE DEF f
  <2>3. q.job = cap[t].job /\ q.token = cap[t].token /\ q.tries = 0
    BY <2>1, PostAsType
  <2> HIDE DEF q
  <2>4. Due(0, q.job, q.token)
    BY <2>3 DEF Due, Handed
  <2>5. Shrinks(cap, cap')
    BY <1>2, <1>4, NowPages, Advances
  <2>6. QED
    BY <1>1, <2>2, <2>3, <2>4, <2>5, PostIsNew, PageDelivery
<1>5. QED
  BY <1>3, <1>4 DEF Answer

LEMMA PageLostDelivery == ASSUME IInv, DInv, NEW t \in Tab, PageLost(t) PROVE DInv'
<1>1. /\ PageOnly /\ UNCHANGED relays /\ Fault
      /\ cap' = [cap EXCEPT ![t] = NoCapture] /\ posts' \subseteq posts
  BY DEF PageLost
<1>2. Shrinks(cap, cap')
  BY <1>1, NowPages, LosesOne
<1>3. QED
  BY <1>1, <1>2, PostsStay, PageDelivery

LEMMA HeartbeatDelivery == ASSUME IInv, DInv, NEW t \in Tab, HeartbeatRefused(t) PROVE DInv'
<1>1. PageOnly /\ UNCHANGED <<relays, cap, posts, faults>>
  BY DEF HeartbeatRefused
<1>2. QED
  BY <1>1, NowPages, ShrinksSame, PostsStay, PageDelivery

LEMMA RefusalDelivery == ASSUME IInv, DInv, NEW b \in refusals, RefusalArrives(b) PROVE DInv'
<1>1. PageOnly /\ UNCHANGED <<relays, posts, faults>> /\ cap' = Stopped(b.tab, b.job)
  BY DEF RefusalArrives
<1>2. b.tab \in Tab /\ b.job \in Job
  BY NowPages DEF RefusalType
<1>3. Shrinks(cap, cap')
  BY <1>1, <1>2, StoppedShrinks
<1>4. QED
  BY <1>1, <1>3, PostsStay, PageDelivery

\* The page or the worker has what the run was about to hand over.
LEMMA DispatchDelivery == ASSUME IInv, DInv, Dispatch PROVE DInv'
<1> DEFINE j == tick.job
<1> DEFINE k == tick.token
<1>1. /\ UNCHANGED <<serverVars, claims, stored, saves>> /\ tick.at = "dispatch"
      /\ tick' = IdleTick
  BY DEF Dispatch, TickEnds
<1>2. /\ j \in Job /\ k \in Token /\ tick.tab \in Tab
      /\ Names(status, token, held, j, k, tick.tab) /\ Due(0, j, k)
  BY <1>1, NowTick DEF IInv, TickIn, Due, Handed
<1>3. Recalled /\ TickDue
  BY <1>1, IdleTickFacts, TickNotDue, TickNotCopying DEF Recalled
<1>4. ASSUME CapsDue, PostsDue, RelaysTold, PostsTried, Fault \/ UNCHANGED faults
      PROVE  DInv'
  BY <1>1, <1>3, <1>4, ServerStays, DueFrom, RecalledKept, DeliveryCarried
<1>5. CASE Received(tick.tab, tick.job, tick.token) /\ UNCHANGED <<relays, faults>>
  <2>1. CASE cap[tick.tab] = NoCapture
    <3> DEFINE c == [job |-> tick.job, token |-> tick.token, step |-> "prepare", stop |-> FALSE]
    <3>1. posts' = posts /\ cap' = [cap EXCEPT ![tick.tab] = c]
      BY <1>5, <2>1 DEF Received
    <3>2. c.job = j /\ c.token = k
      OBVIOUS
    <3> HIDE DEF c
    <3>3. ASSUME NEW t \in Tab, cap'[t].job \in Job PROVE Due(0, cap'[t].job, cap'[t].token)
      <4>1. CASE t = tick.tab
        <5>1. cap'[t] = c
          BY <1>2, <3>1, <4>1, NowPages
        <5>2. QED
          BY <1>2, <3>2, <5>1
      <4>2. CASE t # tick.tab
        <5>1. cap'[t] = cap[t]
          BY <3>1, <4>2, NowPages
        <5>2. QED
          BY <5>1 DEF Due, Handed
      <4>3. QED
        BY <4>1, <4>2
    <3>4. CapsDue
      BY <3>3 DEF CapsDue
    <3>5. QED
      BY <1>4, <1>5, <3>1, <3>4, PostsStay
  <2>2. CASE cap[tick.tab] # NoCapture
    <3> DEFINE f == Failure(tick.tab, tick.job, tick.token)
    <3>1. f.job = j /\ f.token = k /\ f.tries = 0
      BY <1>2, FailureType
    <3>2. posts' = posts \cup {f} /\ cap' = cap
      BY <1>5, <2>2 DEF Received
    <3> HIDE DEF f
    <3>3. Due(0, f.job, f.token)
      BY <1>2, <3>1
    <3>4. PostsDue /\ RelaysTold /\ PostsTried
      BY <1>5, <3>1, <3>2, <3>3, PostIsNew
    <3>5. QED
      BY <1>4, <1>5, <3>2, <3>4, CapsStay
  <2>3. QED
    BY <2>1, <2>2
<1>6. CASE relays' = relays \cup {OwnFailure} /\ Fault /\ UNCHANGED <<cap, posts>>
  <2>0. PICK r : r = OwnFailure
    OBVIOUS
  <2>1. /\ r.job = j /\ r.token = k /\ r.use = k /\ r.on = tick.tab /\ r.stage = "post"
    BY <2>0 DEF OwnFailure
  <2>2. InformedOf(r)
    BY <1>2, <2>1 DEF InformedOf, Running, Names
  <2>3. InformedOf(r)'
    BY <1>1, <2>2 DEF InformedOf, Running, serverVars
  <2>4. RelaysTold
    BY <1>6, <2>0, <2>3 DEF RelaysTold
  <2>5. PostsTried /\ CapsDue /\ PostsDue
    BY <1>6, RelaysStay, CapsStay, PostsDueNow DEF PostsTried, PostsDue
  <2>6. QED
    BY <1>4, <1>6, <2>4, <2>5
<1>7. QED
  BY <1>5, <1>6 DEF Dispatch

-----------------------------------------------------------------------------
(* Outcomes and their relays.                                              *)

\* The worker knows of a running claim what the page does, or less.
LEMMA TryPostDelivery == ASSUME IInv, DInv, NEW p \in posts, TryPost(p) PROVE DInv'
<1> DEFINE q == PostTried(p, p.tries + 1, TRUE)
<1>0. PICK r : r = RelayOf(p)
  OBVIOUS
<1>1. /\ PageOnly /\ UNCHANGED <<cap, faults>> /\ ~p.open /\ p.tries < Attempts
      /\ posts' = (posts \ {p}) \cup {q} /\ relays' = relays \cup {r}
  BY <1>0 DEF TryPost, PostTried
<1>2. p.tries \in Nat /\ p.tries + 1 \in 0..Attempts
  BY <1>1, PostFacts, BoundsAssumption, SMT
<1>3. /\ q.job = p.job /\ q.token = p.token /\ q.ok = p.ok /\ q.tries = p.tries + 1 /\ q.open
  BY <1>2, PostFacts, PostTriedType
<1> DEFINE source == IF Known(p.job) THEN claims[p.job] ELSE [tab |-> p.tab, token |-> p.token]
<1>4. r = [job |-> p.job, token |-> p.token, tab |-> p.tab, ok |-> p.ok, try |-> p.tries + 1,
           use |-> source.token, on |-> source.tab,
           stage |-> IF source.token = 0 THEN "lookup" ELSE "post"]
  BY <1>0 DEF RelayOf
<1> HIDE DEF q, source
<1>5. /\ r.job = p.job /\ r.token = p.token /\ r.try = p.tries + 1
      /\ r.use = source.token /\ r.on = source.tab
      /\ r.stage = (IF source.token = 0 THEN "lookup" ELSE "post")
  BY <1>4
<1>6. IsTryOf(r, q)
  BY <1>3, <1>5 DEF IsTryOf
<1>7. Due(0, p.job, p.token)
  BY PostsDueNow
<1>8. ASSUME Running(p.job, p.token)
      PROVE  source.tab = held[p.job] /\ source.token \in {0, p.token}
  <2>1. p.job \in Job /\ p.token \in Token /\ p.tab = held[p.job]
    BY <1>8, PostFacts DEF Running, Names
  <2>2. OfClaim(claims[p.job], p.token, held[p.job])
    BY <1>7, <1>8, <2>1 DEF DInv, Memory, Keeps
  <2>3. CASE Known(p.job)
    <3>1. claims[p.job].tab # NoTab
      BY <2>1, <2>3, NowTick DEF Known, ClaimsIn
    <3>2. QED
      BY <2>2, <2>3, <3>1 DEF OfClaim, source
  <2>4. CASE ~Known(p.job)
    <3>1. source.tab = p.tab /\ source.token = p.token
      BY <2>4 DEF source
    <3>2. QED
      BY <2>1, <3>1
  <2>5. QED
    BY <2>3, <2>4
<1>9. InformedOf(r)
  <2>1. r.token \in Token /\ r.token <= token[r.job]
    BY <1>5, PostFacts DEF Names
  <2>2. ASSUME Running(r.job, r.token)
        PROVE  /\ r.on = held[r.job]
               /\ r.stage = "lookup" \/ (r.stage = "post" /\ r.use = r.token)
    BY <1>5, <1>8, <2>2
  <2>3. QED
    BY <2>1, <2>2 DEF InformedOf
<1>10. RelaysTold
  <2>1. UNCHANGED serverVars
    BY <1>1 DEF PageOnly
  <2>2. InformedOf(r)'
    BY <1>9, <2>1 DEF InformedOf, Running, serverVars
  <2>3. QED
    BY <1>1, <2>2 DEF RelaysTold
<1>11. PostsDue
  BY <1>1, <1>3, <1>7, PostsDueNow DEF PostsDue
<1>12. TriesOf(q)'
  <2>1. Current(q)'
    BY <1>1, <1>3, <1>6 DEF Current, IsTryOf
  <2>2. ~Current(p)
    BY <1>1 DEF Current
  <2>3. UNCHANGED <<serverVars, faults>> /\ faults \in Nat
    BY <1>1, FaultsGrow DEF PageOnly
  <2>4. ASSUME q.ok, Running(q.job, q.token)' PROVE q.tries <= faults' + 1
    <3>1. p.ok /\ Running(p.job, p.token)
      BY <1>3, <2>3, <2>4 DEF Running, serverVars
    <3>2. p.tries <= faults
      BY <2>2, <2>3, <3>1, SMT DEF DInv, Tries, TriesOf
    <3>3. QED
      BY <1>2, <1>3, <2>3, <3>2, SMT
  <2>5. QED
    BY <2>1, <2>4 DEF TriesOf
<1>13. PostsTried
  BY <1>1, <1>12, RelaysStay DEF PostsTried
<1>14. Shrinks(cap, cap')
  BY <1>1, NowPages, ShrinksSame
<1>15. QED
  BY <1>1, <1>10, <1>11, <1>13, <1>14, PageDelivery

LEMMA ReopenedTries ==
    ASSUME IInv, DInv, ServerMoves, Fault \/ UNCHANGED faults, NEW p \in posts,
           Current(p) => Fault \/ ~Running(p.job, p.token)
    PROVE  /\ Due(0, p.job, p.token)
           /\ LET q == [p EXCEPT !.open = FALSE]
              IN  q.job = p.job /\ q.token = p.token /\ q.ok = p.ok /\ TriesOf(q)'
<1> DEFINE q == PostOpen(p, FALSE)
<1>1. q.job = p.job /\ q.token = p.token /\ q.ok = p.ok /\ q.tries = p.tries
  BY PostFacts, PostOpenType
<1> HIDE DEF q
<1>2. ASSUME p.ok, Running(p.job, p.token)' PROVE p.tries <= faults'
  <2>1. p.job \in Job /\ p.token \in Token /\ p.token <= token[p.job] /\ p.tries \in Nat
    BY PostFacts, SMT DEF Names
  <2>2. Running(p.job, p.token)
    BY <1>2, <2>1, RunningBefore
  <2>3. p.tries <= faults + (IF Current(p) THEN 1 ELSE 0)
    BY <1>2, <2>2 DEF DInv, Tries, TriesOf
  <2>4. /\ faults \in Nat /\ faults' \in Nat /\ faults <= faults'
        /\ Fault => faults' = faults + 1
    BY FaultsGrow
  <2>5. CASE Current(p)
    BY <2>2, <2>3, <2>4, <2>5
  <2>6. CASE ~Current(p)
    BY <2>1, <2>3, <2>4, <2>6, SMT
  <2>7. QED
    BY <2>5, <2>6
<1>3. TriesOf(q)'
  <2> SUFFICES ASSUME q.ok, Running(q.job, q.token)'
               PROVE  q.tries <= faults' + (IF Current(q)' THEN 1 ELSE 0)
    BY DEF TriesOf
  <2>1. q.tries \in Nat /\ faults' \in Nat /\ q.tries <= faults'
    BY <1>1, <1>2, PostFacts, FaultsGrow, SMT
  <2>2. QED
    BY <2>1, SMT
<1>4. QED
  BY <1>1, <1>3, PostsDueNow DEF q, PostOpen

LEMMA AckTimeoutDelivery == ASSUME IInv, DInv, NEW p \in posts, AckTimeout(p) PROVE DInv'
<1> DEFINE q == [p EXCEPT !.open = FALSE]
<1>1. /\ PageOnly /\ UNCHANGED <<relays, cap>> /\ (Fault \/ UNCHANGED faults)
      /\ posts' = (posts \ {p}) \cup {q} /\ (Current(p) => Fault)
  BY DEF AckTimeout, Current
<1>2. ServerMoves
  BY <1>1, ServerStays DEF PageOnly
<1>3. q.job = p.job /\ q.token = p.token /\ TriesOf(q)' /\ Due(0, p.job, p.token)
  BY <1>1, <1>2, ReopenedTries
<1> HIDE DEF q
<1>4. PostsDue /\ PostsTried /\ RelaysTold
  BY <1>1, <1>3, PostsDueNow, RelaysStay DEF PostsDue, PostsTried, RelaysTold
<1>5. QED
  BY <1>1, <1>4, NowPages, ShrinksSame, PageDelivery

LEMMA PostEndsDelivery == ASSUME IInv, DInv, NEW p \in posts, PostEnds(p) PROVE DInv'
<1>1. PageOnly /\ UNCHANGED <<relays, faults>> /\ posts' \subseteq posts /\ Reported(p)
  BY DEF PostEnds
<1>2. QED
  BY <1>1, ReportedShrinks, PostsStay, PageDelivery

\* A relay is over and the page hears of it: something went wrong, or the claim
\* is over.
LEMMA RelayIsOver ==
    ASSUME IInv, DInv, ServerMoves, Fault \/ UNCHANGED faults, NEW r \in relays, NEW ok,
           relays' = relays \ {r}, Acknowledged(r, ok), Fault \/ ~Running(r.job, r.token)
    PROVE  PostsDue /\ PostsTried /\ RelaysTold
<1>1. ASSUME NEW p, Current(p) PROVE Current(p)' \/ Fault \/ ~Running(p.job, p.token)
  <2>1. PICK x \in relays : IsTryOf(x, p) /\ p.open
    BY <1>1 DEF Current
  <2>2. CASE x = r
    BY <2>1, <2>2 DEF IsTryOf
  <2>3. CASE x # r
    BY <2>1, <2>3 DEF Current, IsTryOf
  <2>4. QED
    BY <2>2, <2>3
<1>2. CASE posts' \subseteq posts
  BY <1>1, <1>2, PostsDueNow DEF PostsDue, PostsTried, RelaysTold
<1>3. ASSUME NEW p \in posts, p.open, IsTryOf(r, p),
             posts' = (posts \ {p}) \cup {[p EXCEPT !.open = FALSE]}
      PROVE  PostsDue /\ PostsTried /\ RelaysTold
  <2> DEFINE q == [p EXCEPT !.open = FALSE]
  <2>1. Fault \/ ~Running(p.job, p.token)
    BY <1>3 DEF IsTryOf
  <2>2. q.job = p.job /\ q.token = p.token /\ TriesOf(q)' /\ Due(0, p.job, p.token)
    BY <2>1, ReopenedTries
  <2>3. posts' = (posts \ {p}) \cup {q}
    BY <1>3
  <2> HIDE DEF q
  <2>4. QED
    BY <1>1, <2>2, <2>3, PostsDueNow DEF PostsDue, PostsTried, RelaysTold
<1>4. QED
  BY <1>2, <1>3 DEF Acknowledged

\* What changes is at the server, the worker's claims and what the page hears.
LEMMA RelayDelivery ==
    ASSUME IInv, DInv, ServerMoves, UNCHANGED <<stored, tick>>, Fault \/ UNCHANGED faults,
           NEW j \in Job, Forget(j) \/ UNCHANGED <<claims, saves>>,
           Shrinks(cap, cap'), PostsDue, PostsTried, RelaysTold
    PROVE  DInv'
<1>1. CASE Forget(j)
  <2>1. claims' = [claims EXCEPT ![j] = NoClaim] /\ Persist(claims')
    BY <1>1 DEF Forget
  <2>2. claims' \in [Job -> Claim] /\ \A i \in Job : claims'[i] \in {claims[i], NoClaim}
    BY <2>1, NowTick, ClaimType
  <2>3. QED
    BY <2>1, <2>2, ShrunkDue, TickStays, DueFrom, RecalledKept, DeliveryCarried DEF Recalled
<1>2. CASE UNCHANGED <<claims, saves>>
  BY <1>2, ShrunkDue, TickStays, DueFrom, RecalledKept, DeliveryCarried DEF Recalled
<1>3. QED
  BY <1>1, <1>2

LEMMA SameClaimIsCurrent ==
    ASSUME NEW r, NEW q, q.job = r.job, q.token = r.token, q.try = r.try,
           relays' = (relays \ {r}) \cup {q}, NEW p, Current(p)
    PROVE  Current(p)'
<1>1. PICK x \in relays : IsTryOf(x, p) /\ p.open
  BY DEF Current
<1>2. CASE x = r
  BY <1>1, <1>2 DEF Current, IsTryOf
<1>3. CASE x # r
  BY <1>1, <1>3 DEF Current, IsTryOf
<1>4. QED
  BY <1>2, <1>3

LEMMA LookUpTokenDelivery == ASSUME IInv, DInv, NEW r \in relays, LookUpToken(r) PROVE DInv'
<1>1. /\ UNCHANGED serverVars /\ UNCHANGED <<stored, tick>> /\ (Fault \/ UNCHANGED faults)
      /\ r.stage = "lookup"
  BY DEF LookUpToken
<1>2. /\ r \in Relay /\ r.job \in Job /\ ServerMoves /\ InformedOf(r)
  BY <1>1, RelayFacts, ServerStays DEF DInv, Informed
<1>3. CASE /\ held[r.job] = r.on
           /\ relays' = (relays \ {r}) \cup {[r EXCEPT !.use = token[r.job], !.stage = "post"]}
           /\ UNCHANGED <<claims, saves, posts, cap, faults>>
  <2>1. PICK k : k = token[r.job]
    OBVIOUS
  <2> DEFINE q == RelayUsing(r, k, "post")
  <2>2. k \in Token
    BY <1>2, <2>1 DEF IInv, ServerOK
  <2>3. relays' = (relays \ {r}) \cup {q}
    BY <1>3, <2>1 DEF RelayUsing
  <2>4. /\ q.job = r.job /\ q.use = k /\ q.on = r.on
        /\ q.token = r.token /\ q.try = r.try /\ q.stage = "post"
    BY <1>2, <2>2, RelayUsingType
  <2> HIDE DEF q
  <2>5. InformedOf(q)'
    <3>1. InformedOf(q)
      BY <1>2, <1>3, <2>1, <2>4 DEF InformedOf, Running
    <3>2. QED
      BY <1>1, <3>1 DEF InformedOf, Running, serverVars
  <2>6. RelaysTold
    BY <2>3, <2>5 DEF RelaysTold
  <2>7. PostsDue /\ PostsTried
    BY <1>3, <2>3, <2>4, SameClaimIsCurrent, PostsDueNow DEF PostsDue, PostsTried
  <2>8. Shrinks(cap, cap')
    BY <1>3, NowPages, ShrinksSame
  <2>9. QED
    BY <1>1, <1>2, <1>3, <2>6, <2>7, <2>8, RelayDelivery
<1>4. CASE /\ relays' = relays \ {r} /\ Acknowledged(r, FALSE)
           /\ \/ ~(status[r.job] = "claimed" /\ held[r.job] = r.on) /\ Forget(r.job)
              \/ Fault /\ UNCHANGED <<claims, saves>>
  <2>1. Fault \/ ~Running(r.job, r.token)
    BY <1>2, <1>4 DEF InformedOf, Running
  <2>2. PostsDue /\ PostsTried /\ RelaysTold
    BY <1>1, <1>2, <1>4, <2>1, RelayIsOver
  <2>3. Shrinks(cap, cap')
    BY <1>4, AcknowledgedOK
  <2>4. QED
    BY <1>1, <1>2, <1>4, <2>2, <2>3, RelayDelivery
<1>5. QED
  BY <1>3, <1>4 DEF LookUpToken

\* A verdict ends the claim, or comes when it is over.
LEMMA RelayPostsDelivery == ASSUME IInv, DInv, NEW r \in relays, RelayPosts(r) PROVE DInv'
<1>1. PICK v : v = Verdict(r)
  OBVIOUS
<1> DEFINE q == RelayStaged(r, v)
<1>2. /\ relays' = (relays \ {r}) \cup {q} /\ Decide(r) /\ r.stage = "post"
      /\ UNCHANGED <<workerVars, pageVars, faults>>
  BY <1>1 DEF RelayPosts, RelayStaged
<1>3. /\ r \in Relay /\ r.job \in Job /\ r.token \in Token /\ r.token <= token[r.job]
      /\ v \in {"accepted", "refused"} /\ InformedOf(r)
  BY <1>1, RelayFacts, SMT DEF Verdict, DInv, Informed, InformedOf
<1>4. q.job = r.job /\ q.on = r.on /\ q.token = r.token /\ q.try = r.try /\ q.stage = v
  BY <1>3, RelayStagedType
<1> HIDE DEF q
<1>5. ServerMoves
  BY <1>2, DecideMoves DEF ServerMoves
<1>6. ~Running(r.job, r.token)'
  <2> SUFFICES ASSUME Running(r.job, r.token)' PROVE FALSE
    OBVIOUS
  <2>1. Running(r.job, r.token)
    BY <1>3, <1>5, RunningBefore
  <2>2. Accepts(r)
    BY <1>2, <1>3, <2>1 DEF InformedOf, Accepts, Live, Running
  <2>3. status'[r.job] # "claimed"
    BY <1>2, <1>3, <2>2 DEF Decide, IInv, ServerOK
  <2>4. QED
    BY <2>3 DEF Running
<1>7. InformedOf(q)'
  <2>1. InformedOf(r)'
    BY <1>3, <1>5, InformedCarried
  <2>2. QED
    BY <1>4, <1>6, <2>1 DEF InformedOf, Running
<1>8. UNCHANGED <<claims, stored, saves, tick, cap, posts>>
  BY <1>2 DEF workerVars, pageVars
<1>9. RelaysTold /\ PostsDue /\ PostsTried
  BY <1>2, <1>4, <1>7, <1>8, SameClaimIsCurrent, PostsDueNow DEF RelaysTold, PostsDue, PostsTried
<1>10. QED
  BY <1>2, <1>3, <1>5, <1>8, <1>9, NowPages, ShrinksSame, RelayDelivery

LEMMA RelayLostDelivery == ASSUME IInv, DInv, NEW r \in relays, RelayLost(r) PROVE DInv'
<1>1. /\ relays' = relays \ {r} /\ Fault /\ Acknowledged(r, FALSE)
      /\ Decide(r) \/ UNCHANGED serverVars
      /\ Forget(r.job) \/ UNCHANGED <<claims, saves>>
      /\ UNCHANGED <<stored, tick>>
  BY DEF RelayLost
<1>2. ServerMoves
  BY <1>1, DecideMoves, ServerStays DEF ServerMoves
<1>3. PostsDue /\ PostsTried /\ RelaysTold
  BY <1>1, <1>2, RelayIsOver
<1>4. Shrinks(cap, cap')
  BY <1>1, AcknowledgedOK
<1>5. QED
  BY <1>1, <1>2, <1>3, <1>4, RelayFacts, RelayDelivery

LEMMA VerdictIsOver ==
    ASSUME DInv, NEW r \in relays, r.stage \in {"accepted", "refused"}
    PROVE  ~Running(r.job, r.token)
BY DEF DInv, Informed, InformedOf

LEMMA RelayDoneDelivery == ASSUME IInv, DInv, NEW r \in relays, RelayDone(r) PROVE DInv'
<1>1. /\ relays' = relays \ {r} /\ Forget(r.job) /\ r.stage \in {"accepted", "refused"}
      /\ UNCHANGED <<serverVars, stored, tick, faults>>
  BY DEF RelayDone
<1>2. PICK ok : Acknowledged(r, ok)
  BY DEF RelayDone
<1>3. ServerMoves /\ ~Running(r.job, r.token)
  BY <1>1, VerdictIsOver, ServerStays
<1>4. PostsDue /\ PostsTried /\ RelaysTold
  BY <1>1, <1>2, <1>3, RelayIsOver
<1>5. Shrinks(cap, cap')
  BY <1>2, AcknowledgedOK
<1>6. QED
  BY <1>1, <1>3, <1>4, <1>5, RelayFacts, RelayDelivery

-----------------------------------------------------------------------------
(* Restarts and claims.                                                    *)

\* The session storage knows no claim but the one handed over.
LEMMA RestartDelivery == ASSUME IInv, DInv, WorkerRestart PROVE DInv'
<1>1. /\ Fault /\ claims' = Deserialised(stored) /\ saves' = <<>> /\ tick' = IdleTick
      /\ relays' = {} /\ UNCHANGED <<status, token, held, stored, cap, posts>>
  BY DEF WorkerRestart
<1>2. ServerMoves
  BY <1>1, SameTokensMove
<1>3. DueKept
  BY <1>1, IdleTickFacts, CapsStay, PostsDueNow, TickNotDue, DueFrom DEF PostsDue
<1>4. Memory'
  <2> SUFFICES ASSUME NEW j \in Job, NEW k \in Token, NEW n \in Nat,
                      Due(n, j, k)', Running(j, k)'
               PROVE  Keeps(n, j, k, held[j])'
    BY DEF Memory
  <2>1. n = 0
    BY <1>1, IdleTickFacts DEF Due
  <2>2. Due(n, j, k) /\ Running(j, k)
    BY <1>1, <1>3 DEF DueKept, Running
  <2>3. stored[j] \in {NoTab, held[j]}
    BY <2>1, <2>2 DEF DInv, Memory, Keeps
  <2>4. OfClaim(claims'[j], k, held[j])
    BY <1>1, <2>3 DEF Deserialised, OfClaim
  <2>5. OfClaim(Copy(j)', k, held[j])
    BY <1>1, IdleTickFacts, NothingOfClaim, TickNotCopying
  <2>6. Len(saves') = 0
    BY <1>1
  <2>7. n <= Len(saves') /\ \A i \in 1..Len(saves') : FALSE
    BY <2>1, <2>6, SMT
  <2>8. QED
    BY <1>1, <2>3, <2>4, <2>5, <2>7 DEF Keeps
<1>5. RelaysTold /\ PostsTried
  BY <1>1 DEF RelaysTold, PostsTried
<1>6. QED
  BY <1>1, <1>2, <1>4, <1>5, RelaysInformed, TriesCarried DEF DInv

\* The last of the writes that are pending, or what is stored, is of the claims
\* that were saved.
LEMMA PersistedLast ==
    ASSUME saves \in Seq(StoreType), NEW c \in [Job -> Claim], Persist(c)
    PROVE  /\ Len(saves') \in Nat
           /\ Len(saves') = 0 => stored = Serialised(c)
           /\ Len(saves') # 0 => saves'[Len(saves')] = Serialised(c)
<1>1. Serialised(c) \in StoreType
  BY SerialisedType
<1> DEFINE e == Serialised(c)
<1>2. \/ saves' = Append(saves, e)
      \/ saves' = saves /\ (IF saves = <<>> THEN stored ELSE saves[Len(saves)]) = e
  BY DEF Persist
<1> HIDE DEF e
<1>3. CASE saves' = Append(saves, e)
  BY <1>1, <1>3 DEF e
<1>4. CASE saves' = saves /\ (IF saves = <<>> THEN stored ELSE saves[Len(saves)]) = e
  <2>1. CASE saves = <<>>
    BY <1>4, <2>1 DEF e
  <2>2. CASE saves # <<>>
    <3>1. Len(saves) \in Nat /\ Len(saves) # 0
      BY <2>2
    <3>2. QED
      BY <1>4, <2>2, <3>1 DEF e
  <2>3. QED
    BY <2>1, <2>2
<1>5. QED
  BY <1>2, <1>3, <1>4

\* A new claim is n writes from being handed over, and what was handed over of
\* the job had another token.
LEMMA PollDelivery == ASSUME IInv, DInv, Poll PROVE DInv'
<1>1. UNCHANGED <<stored, relays, pageVars>> /\ tick.at = "poll"
  BY DEF Poll
<1>2. PICK t : t = tick.tab
  OBVIOUS
<1>3. t \in Tab
  BY <1>1, <1>2 DEF IInv, TickIn
<1>4. CASE TickEnds /\ UNCHANGED <<claims, saves, serverVars, faults>>
  BY <1>1, <1>4, ServerStays, TickEndDelivery DEF TickOnly
<1>5. ASSUME NEW j \in Job, Offered(j, t), ClaimedFor(j, t), TickEnds, Fault,
             UNCHANGED <<claims, saves>>
      PROVE  DInv'
  <2>1. ServerMoves
    BY <1>3, <1>5, ClaimedForMoves DEF Offered, ServerMoves
  <2>2. QED
    BY <1>1, <1>5, <2>1, TickEndDelivery DEF TickOnly
<1>6. ASSUME NEW j \in Job, Offered(j, t), ClaimedFor(j, t), UNCHANGED faults,
             claims' = [claims EXCEPT ![j] = [tab |-> t, token |-> token'[j]]],
             Persist(claims'),
             tick' = [tick EXCEPT !.at = "save", !.job = j, !.token = token'[j],
                                  !.left = Len(saves')]
      PROVE  DInv'
  <2>1. PICK k : k = token'[j]
    OBVIOUS
  <2>2. PICK n : n = Len(saves')
    OBVIOUS
  <2>3. /\ ServerMoves /\ token[j] \in Nat
        /\ k \in Token /\ k = token[j] + 1 /\ held'[j] = t
    BY <1>3, <1>6, <2>1, ClaimedForMoves, TokenType DEF Offered, ServerMoves, IInv, ServerOK
  <2> DEFINE c == [tab |-> t, token |-> k]
  <2>4. c \in Claim /\ c.tab = t /\ c.token = k
    BY <1>3, <2>3, SMT DEF Claim
  <2>5. /\ claims' \in [Job -> Claim] /\ claims'[j] = c
        /\ \A i \in Job : i # j => claims'[i] = claims[i]
    <3>1. claims' = [claims EXCEPT ![j] = c]
      BY <1>6, <2>1
    <3> HIDE DEF c
    <3>2. QED
      BY <2>4, <3>1, NowTick
  <2> HIDE DEF c
  <2>6. saves \in Seq(StoreType) /\ n \in Nat
    BY <1>6, <2>2, <2>5, PersistedLast DEF IInv, StorageOK
  <2>7. tick'.at = "save" /\ tick'.job = j /\ tick'.token = k /\ tick'.left = n
    <3> DEFINE y == TickClaimed(tick, "save", j, k, n)
    <3>1. tick \in Tick /\ "save" \in Ats
      BY NowTick, AtNames
    <3>2. y.at = "save" /\ y.job = j /\ y.token = k /\ y.left = n
      BY <2>3, <2>6, <3>1, TickClaimedType
    <3>3. tick' = y
      BY <1>6, <2>1, <2>2 DEF TickClaimed
    <3> HIDE DEF y
    <3>4. QED
      BY <3>2, <3>3
  <2>8. \A i \in Job : \A m : OfClaim(Copy(i)', m, held'[i])
    BY <2>7, TickNotCopying, NothingOfClaim
  <2>9. Keeps(n, j, k, held[j])'
    <3>1. OfClaim(claims'[j], k, t)
      BY <2>4, <2>5 DEF OfClaim
    <3>2. Serialised(claims')[j] = t
      BY <2>4, <2>5 DEF Serialised
    <3>3. n = 0 => stored'[j] = t
      BY <1>1, <1>6, <2>2, <2>5, <2>6, <3>2, PersistedLast
    <3>4. ASSUME NEW i \in 1..Len(saves'), i >= n PROVE saves'[i][j] = t
      <4>1. i = Len(saves') /\ Len(saves') # 0
        BY <2>2, <2>6, <3>4, SMT
      <4>2. saves'[i] = Serialised(claims')
        BY <1>6, <2>5, <2>6, <4>1, PersistedLast
      <4>3. QED
        BY <3>2, <4>2
    <3>5. n <= Len(saves')
      BY <2>2, <2>6, SMT
    <3>6. QED
      BY <2>3, <2>8, <3>1, <3>3, <3>4, <3>5 DEF Keeps
  <2>10. ASSUME NEW i \in Job, NEW l \in Token, Handed(i, l)', Running(i, l)'
         PROVE  Keeps(0, i, l, held[i])'
    <3>1. Handed(i, l)
      BY <1>1, <2>7, <2>10 DEF Handed, pageVars
    <3>2. Due(0, i, l)
      BY <3>1 DEF Due
    <3>3. l <= token[i] /\ l \in Nat
      BY <3>2, DueKnown, TokenType
    <3>4. i # j
      <4>1. i = j => l = token[j] + 1
        BY <2>1, <2>3, <2>10 DEF Running
      <4>2. QED
        BY <2>3, <3>3, <4>1, SMT
    <3>5. Running(i, l) /\ held'[i] = held[i]
      BY <2>3, <2>10, <3>3, RunningBefore
    <3>6. PICK u : u = held[i]
      OBVIOUS
    <3>7. Keeps(0, i, l, u)
      BY <3>2, <3>5, <3>6 DEF DInv, Memory
    <3>8. OfClaim(claims'[i], l, u)
      BY <2>5, <3>4, <3>7 DEF Keeps
    <3>9. Fine(saves, 0, i, u)
      BY <3>7 DEF Keeps, Fine
    <3>10. Fine(saves', 0, i, u)
      <4>1. claims'[i].tab \in {NoTab, u} /\ 0 \in Nat
        BY <3>8 DEF OfClaim
      <4>2. Persist(claims') /\ claims' \in [Job -> Claim]
        BY <1>6, <2>5
      <4>3. QED
        BY <2>6, <3>9, <4>1, <4>2, PersistedFine
    <3>11. stored'[i] \in {NoTab, u}
      BY <1>1, <3>7 DEF Keeps
    <3>12. held'[i] = u /\ OfClaim(Copy(i)', l, u)
      BY <2>8, <3>5, <3>6
    <3>13. Keeps(0, i, l, u)'
      BY <3>8, <3>10, <3>11, <3>12 DEF Keeps, Fine
    <3>14. QED
      BY <3>12, <3>13 DEF Keeps
  <2>11. Memory'
    <3> SUFFICES ASSUME NEW i \in Job, NEW l \in Token, NEW m \in Nat,
                        Due(m, i, l)', Running(i, l)'
                 PROVE  Keeps(m, i, l, held[i])'
      BY DEF Memory
    <3>1. CASE m = 0 /\ Handed(i, l)'
      BY <2>10, <3>1
    <3>2. CASE i = j /\ l = k /\ m = n
      BY <2>9, <3>2
    <3>3. QED
      BY <2>7, <3>1, <3>2 DEF Due
  <2>12. RelaysTold /\ PostsTried
    BY <1>1, RelaysStay DEF RelaysTold, PostsTried, pageVars
  <2>13. QED
    BY <1>6, <2>3, <2>11, <2>12, RelaysInformed, TriesCarried DEF DInv
<1>7. QED
  BY <1>2, <1>4, <1>5, <1>6 DEF Poll

-----------------------------------------------------------------------------
(* The invariant and what follows from it.                                 *)

LEMMA InitDelivery == Init => DInv
<1> SUFFICES ASSUME Init PROVE DInv
  OBVIOUS
<1>1. Memory
  BY IdleTickFacts, NoCaptureType DEF Init, Memory, Due, Handed
<1>2. Informed /\ Tries
  BY DEF Init, Informed, Tries
<1>3. QED
  BY <1>1, <1>2 DEF DInv

LEMMA NextDelivery == IInv /\ DInv /\ [Next]_vars => DInv'
<1> SUFFICES ASSUME IInv, DInv, [Next]_vars PROVE DInv'
  OBVIOUS
<1>1. CASE Server
  BY <1>1, ServerDelivery DEF Server
<1>2. CASE TickStep
  BY <1>2, TickStartDelivery, LookUpDelivery, CancelDelivery, ReconciledDelivery,
     RegisterDelivery, LoadPendingDelivery, ChooseTabDelivery, PollDelivery,
     ClaimSavedDelivery, DispatchDelivery DEF TickStep
<1>3. ASSUME NEW t \in Tab, CaptureStep(t) \/ PageLost(t) \/ HeartbeatRefused(t) PROVE DInv'
  BY <1>3, PrepareDelivery, SendDelivery, ObserveDelivery, AnswerDelivery, PageLostDelivery,
     HeartbeatDelivery DEF CaptureStep
<1>4. CASE PostStep
  BY <1>4, TryPostDelivery, AckTimeoutDelivery, PostEndsDelivery DEF PostStep
<1>5. CASE RelayStep
  BY <1>5, LookUpTokenDelivery, RelayPostsDelivery, RelayDoneDelivery DEF RelayStep
<1>6. QED
  BY <1>1, <1>2, <1>3, <1>4, <1>5, WriteClaimsDelivery, RefuseTargetDelivery, RefusalDelivery,
     RelayLostDelivery, RestartDelivery, StutterDelivery DEF Next

\* Once a claim is with a page, all the worker keeps of its job is this claim or
\* nothing, in memory, in storage and on the way there; and each failed try of a
\* running claim's answer is one thing that went wrong (see DInv).
THEOREM DeliveryInvariance == Spec => [](IInv /\ DInv)
BY InitInv, NextInv, InitDelivery, NextDelivery, PTL DEF Spec

\* Unless something goes wrong, an outcome goes on being reported but when its
\* tries are used up or the page hears of a verdict.
LEMMA StepsOfPosts ==
    ASSUME IInv, [Next]_vars, ~Fault, NEW p \in posts, p.ok, ~Reporting(p.job, p.token)'
    PROVE  \/ PostEnds(p)
           \/ \E r \in relays : r.stage \in {"accepted", "refused"} /\ IsTryOf(r, p)
<1>1. ASSUME posts \subseteq posts' PROVE FALSE
  BY <1>1 DEF Reporting
<1>2. ASSUME NEW x \in posts, NEW q, posts' = (posts \ {x}) \cup {q},
             q.job = x.job, q.token = x.token, q.ok = x.ok
      PROVE  FALSE
  BY <1>2 DEF Reporting
<1>3. ASSUME NEW r, Acknowledged(r, FALSE) PROVE FALSE
  <2>1. PICK x \in posts : posts' = (posts \ {x}) \cup {PostOpen(x, FALSE)}
    BY <1>1, <1>3 DEF Acknowledged, PostOpen
  <2> DEFINE q == PostOpen(x, FALSE)
  <2>2. q.job = x.job /\ q.token = x.token /\ q.ok = x.ok
    BY PostFacts, PostOpenType
  <2> HIDE DEF q
  <2>3. posts' = (posts \ {x}) \cup {q}
    BY <2>1 DEF q
  <2>4. QED
    BY <1>2, <2>2, <2>3
<1>4. CASE Server \/ WriteClaims \/ UNCHANGED vars
  BY <1>1, <1>4 DEF Server, Submit, Lapse, Expire, WriteClaims, vars, pageVars
<1>5. CASE TickStep
  <2>1. CASE Dispatch
    BY <1>1, <2>1 DEF Dispatch, Received
  <2>2. CASE TickStart \/ (\E j \in Job : LookUp(j)) \/ RegisterBrowserClient \/ LoadPending
             \/ ChooseTab \/ ClaimSaved
    BY <1>1, <2>2 DEF TickStart, LookUp, RegisterBrowserClient, LoadPending, ChooseTab,
       ClaimSaved, TickOnly, pageVars
  <2>3. CASE (\E j \in Job : CancelClaimedPageCapture(j)) \/ Reconciled \/ Poll
    BY <1>1, <2>3 DEF CancelClaimedPageCapture, Reconciled, Poll, pageVars
  <2>4. QED
    BY <1>5, <2>1, <2>2, <2>3 DEF TickStep
<1>6. ASSUME NEW t \in Tab, CaptureStep(t) PROVE FALSE
  BY <1>1, <1>6 DEF CaptureStep, Prepare, InputUnusable, PromptEntered, Send, Click, PressEnter,
     PressShortcut, Observe, Answer, Fails, Advance
<1>7. ASSUME NEW t \in Tab, HeartbeatRefused(t) PROVE FALSE
  BY <1>1, <1>7 DEF HeartbeatRefused
<1>8. ASSUME NEW b \in refusals, RefusalArrives(b) PROVE FALSE
  BY <1>1, <1>8 DEF RefusalArrives
<1>9. CASE PostStep
  <2>1. ASSUME NEW x \in posts, TryPost(x) PROVE FALSE
    <3> DEFINE q == PostTried(x, x.tries + 1, TRUE)
    <3>1. posts' = (posts \ {x}) \cup {q} /\ x.tries < Attempts
      BY <2>1 DEF TryPost, PostTried
    <3>2. x.tries + 1 \in 0..Attempts
      BY <3>1, PostFacts, BoundsAssumption, SMT
    <3>3. q.job = x.job /\ q.token = x.token /\ q.ok = x.ok
      BY <3>2, PostFacts, PostTriedType
    <3> HIDE DEF q
    <3>4. QED
      BY <1>2, <3>1, <3>3
  <2>2. ASSUME NEW x \in posts, AckTimeout(x) PROVE FALSE
    <3> DEFINE q == PostOpen(x, FALSE)
    <3>1. posts' = (posts \ {x}) \cup {q}
      BY <2>2 DEF AckTimeout, PostOpen
    <3>2. q.job = x.job /\ q.token = x.token /\ q.ok = x.ok
      BY PostFacts, PostOpenType
    <3> HIDE DEF q
    <3>3. QED
      BY <1>2, <3>1, <3>2
  <2>3. ASSUME NEW x \in posts, PostEnds(x) PROVE PostEnds(p)
    BY <2>3 DEF PostEnds, Reporting
  <2>4. QED
    BY <1>9, <2>1, <2>2, <2>3 DEF PostStep
<1>10. CASE RelayStep
  <2>1. ASSUME NEW r \in relays, LookUpToken(r) PROVE FALSE
    BY <1>1, <1>3, <2>1 DEF LookUpToken
  <2>2. ASSUME NEW r \in relays, RelayPosts(r) PROVE FALSE
    BY <1>1, <2>2 DEF RelayPosts, pageVars
  <2>3. ASSUME NEW r \in relays, RelayDone(r)
        PROVE  r.stage \in {"accepted", "refused"} /\ IsTryOf(r, p)
    <3>1. r.stage \in {"accepted", "refused"} /\ Acknowledged(r, r.stage = "accepted")
      BY <2>3 DEF RelayDone
    <3>2. CASE r.stage = "accepted"
      <4>1. PICK x \in posts : IsTryOf(r, x) /\ posts' = posts \ {x}
        BY <1>1, <3>1, <3>2 DEF Acknowledged
      <4>2. x = p
        BY <4>1 DEF Reporting
      <4>3. QED
        BY <3>1, <4>1, <4>2
    <3>3. CASE r.stage # "accepted"
      <4>1. Acknowledged(r, FALSE)
        BY <3>1, <3>3 DEF Acknowledged
      <4>2. QED
        BY <1>3, <4>1
    <3>4. QED
      BY <3>2, <3>3
  <2>4. QED
    BY <1>10, <2>1, <2>2, <2>3 DEF RelayStep
<1>11. QED
  BY <1>4, <1>5, <1>6, <1>7, <1>8, <1>9, <1>10
     DEF Next, RefuseTarget, PageLost, RelayLost, WorkerRestart

\* Whatever goes wrong around the extension, if it is less often than a page
\* tries, the page keeps reporting an answer until the server has taken it or
\* has ended its claim, for any number of jobs, pages and restarts.
THEOREM AnswersAreDelivered == Spec => AnswerIsDelivered
<1> DEFINE Step ==
      faults' = faults /\ faults < Attempts =>
          \A p \in posts : p.ok /\ ~Reporting(p.job, p.token)' => ~Live(p.job, p.token, p.tab)
<1>1. ASSUME IInv, DInv, [Next]_vars PROVE Step
  <2> SUFFICES ASSUME faults' = faults, faults < Attempts, NEW p \in posts, p.ok,
                      ~Reporting(p.job, p.token)', Running(p.job, p.token)
               PROVE  FALSE
    BY DEF Running, Live
  <2>1. ~Fault
    BY <1>1, FaultsGrow, SMT
  <2>2. CASE PostEnds(p)
    <3>1. ~p.open /\ p.tries = Attempts
      BY <2>2 DEF PostEnds
    <3>2. p.tries <= faults + 0
      BY <1>1, <3>1 DEF DInv, Tries, TriesOf, Current
    <3>3. faults \in Nat /\ Attempts \in Nat
      BY <1>1, FaultsGrow, BoundsAssumption
    <3>4. QED
      BY <3>1, <3>2, <3>3, SMT
  <2>3. ASSUME NEW r \in relays, r.stage \in {"accepted", "refused"}, IsTryOf(r, p) PROVE FALSE
    BY <1>1, <2>3, VerdictIsOver DEF IsTryOf
  <2>4. QED
    BY <1>1, <2>1, <2>2, <2>3, StepsOfPosts
<1>2. QED
  BY <1>1, DeliveryInvariance, PTL DEF Spec, AnswerIsDelivered
=============================================================================
