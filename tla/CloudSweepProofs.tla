-------------------------- MODULE CloudSweepProofs --------------------------
(***************************************************************************)
(* Proofs that the steps' lease lets one step work at a time, that the     *)
(* types hold, and that a first sweep that is complete has accounted for   *)
(* every thread: for any threads, any number of steps, operators' calls    *)
(* and faults, pages and retries of any size.                              *)
(***************************************************************************)
EXTENDS CloudSweep, FiniteSetTheorems, FunctionTheorems, NaturalsInduction, WellFoundedInduction, TLAPS

-----------------------------------------------------------------------------
(* The invariant *)

\* What the argument needs of the types.
ClockPart == /\ now \in Nat /\ lease \in Nat
             /\ step = [s \in Steps |-> step[s]]
             /\ \A s \in Steps : "at" \in DOMAIN step[s]

\* A step that works within its lease has it.
HolderPart == ~late => \A s \in Steps : Working(s) => lease > now

LeaseInv == ClockPart /\ HolderPart /\ OneStepAtATime

LEMMA InitLease == Init => LeaseInv
<1>. SUFFICES ASSUME Init PROVE LeaseInv
  OBVIOUS
<1>1. \A s \in Steps : step[s].at = "off" /\ "at" \in DOMAIN step[s]
  BY DEF Init, Off
<1>2. ClockPart
  BY <1>1 DEF Init, ClockPart
<1>. QED BY <1>1, <1>2 DEF LeaseInv, HolderPart, OneStepAtATime, Working

-----------------------------------------------------------------------------
(* Kinds of steps *)

\* A step of the sweep that was not working does not begin to.
NoneBegins == \A s \in Steps : Working(s)' => Working(s)

Kept == UNCHANGED <<now, lease, late>>

LEMMA KeptLease == ASSUME LeaseInv, ClockPart', NoneBegins, Kept PROVE LeaseInv'
BY DEF LeaseInv, HolderPart, OneStepAtATime, NoneBegins, Kept

\* s goes on as r does, the others stay where they are.
Becomes(s, r) == step' = [step EXCEPT ![s] = r]

LEMMA OnlyOne == ASSUME ClockPart, NEW s \in Steps, NEW r, Becomes(s, r), "at" \in DOMAIN r
                 PROVE  /\ step'[s] = r /\ \A u \in Steps \ {s} : step'[u] = step[u]
                        /\ step' = [u \in Steps |-> step'[u]]
                        /\ \A u \in Steps : "at" \in DOMAIN step'[u]
<1>1. step' = [u \in Steps |-> IF u = s THEN r ELSE step[u]]
  BY DEF ClockPart, Becomes
<1>. QED BY <1>1 DEF ClockPart

\* A step that works goes on, or stops, with its lease.
LEMMA GoesOn == ASSUME LeaseInv, NEW s \in Steps, NEW r, Becomes(s, r), "at" \in DOMAIN r, Kept,
                       Working(s) \/ r.at \in {"off", "read"}
                PROVE  LeaseInv'
<1>1. ClockPart'
  BY OnlyOne DEF LeaseInv, ClockPart, Kept
<1>2. NoneBegins
  BY OnlyOne DEF LeaseInv, NoneBegins, Working
<1>. QED BY <1>1, <1>2, KeptLease

LEMMA NoSteps == ASSUME LeaseInv, UNCHANGED step, Kept PROVE LeaseInv'
BY KeptLease DEF LeaseInv, ClockPart, NoneBegins, Kept, Working

-----------------------------------------------------------------------------
(* The actions *)

\* The lease is free only where nobody works, or where a step has overrun its own.
LEMMA AcquireLease == ASSUME LeaseInv, NEW s \in Steps, acquireStepLease(s) PROVE LeaseInv'
<1>1. CASE LeaseFree
  <2>1. lease <= now /\ lease' = now + Lease /\ UNCHANGED <<now, late>>
    BY <1>1 DEF acquireStepLease, LeaseFree, bounds
  <2>2. now \in Nat /\ Lease \in Nat \ {0} /\ lease \in Nat
    BY SweepConstants DEF LeaseInv, ClockPart, SweepConstants
  <2>3. lease' > now' /\ lease' \in Nat /\ now' \in Nat
    BY <2>1, <2>2
  <2>4. Becomes(s, [step[s] EXCEPT !.at = "probe"]) /\ "at" \in DOMAIN step[s]
    BY <1>1 DEF acquireStepLease, Becomes, LeaseInv, ClockPart
  <2>5. ClockPart'
    BY <2>3, <2>4, OnlyOne DEF LeaseInv, ClockPart
  <2>6. ~late => \A u \in Steps : ~Working(u)
    BY <2>1, <2>2 DEF LeaseInv, HolderPart
  <2>7. \A u \in Steps \ {s} : Working(u)' => Working(u)
    BY <2>4, OnlyOne DEF LeaseInv, Working
  <2>8. ~late' => \A u \in Steps : Working(u)' => u = s
    BY <2>1, <2>6, <2>7
  <2>. QED BY <2>3, <2>5, <2>8 DEF LeaseInv, HolderPart, OneStepAtATime
<1>2. CASE ~LeaseFree
  <2>1. Becomes(s, Off) /\ Kept
    BY <1>2 DEF acquireStepLease, Becomes, Kept, bounds
  <2>. QED BY <2>1, GoesOn DEF Off
<1>. QED BY <1>1, <1>2

\* The step that frees the lease is the one that works, unless one has overrun its own.
LEMMA ReleaseLease == ASSUME LeaseInv, NEW s \in Steps, releaseStepLease(s) PROVE LeaseInv'
<1>1. Becomes(s, Off) /\ Working(s) /\ lease' = 0 /\ UNCHANGED <<now, late>>
  BY DEF releaseStepLease, Becomes, Working, bounds
<1>2. "at" \in DOMAIN Off /\ Off.at = "off"
  BY DEF Off
<1>3. ClockPart'
  BY <1>1, <1>2, OnlyOne DEF LeaseInv, ClockPart
<1>4. \A u \in Steps : Working(u)' => Working(u) /\ u # s
  BY <1>1, <1>2, OnlyOne DEF LeaseInv, Working
<1>5. ~late' => \A u \in Steps : ~Working(u)'
  BY <1>1, <1>4 DEF LeaseInv, OneStepAtATime
<1>. QED BY <1>3, <1>5 DEF LeaseInv, HolderPart, OneStepAtATime

\* What a step does between its lease's taking and its freeing.
LEMMA WorkLease == ASSUME LeaseInv, NEW s \in Steps,
                          \/ probe(s) \/ ReadPage(s) \/ BudgetEnds(s) \/ TakeThread(s) \/ PageDone(s)
                          \/ SaveReads(s) \/ SaveWrites(s)
                   PROVE  LeaseInv'
<1>0. "at" \in DOMAIN step[s] /\ s \in DOMAIN step
  BY DEF LeaseInv, ClockPart
<1>1. Kept
  BY DEF probe, ReadPage, BudgetEnds, TakeThread, PageDone, SaveReads, SaveWrites, Kept, bounds, Fault
<1>2. Working(s)
  BY DEF probe, ReadPage, BudgetEnds, TakeThread, PageDone, SaveReads, SaveWrites, Working
<1>3. \E r : Becomes(s, r) /\ "at" \in DOMAIN r
  <2>1. \A st, then : Saves(s, st, then) => \E r : Becomes(s, r) /\ "at" \in DOMAIN r
    <3>. SUFFICES ASSUME NEW st, NEW then, Saves(s, st, then) PROVE \E r : Becomes(s, r) /\ "at" \in DOMAIN r
      OBVIOUS
    <3>. DEFINE r == [step[s] EXCEPT !.at = "save", !.st = st, !.then = then]
    <3>1. Becomes(s, r)
      BY <1>0 DEF Saves, Becomes
    <3>2. "at" \in DOMAIN r
      BY <1>0
    <3>. QED BY <3>1, <3>2
  <2>2. CASE probe(s)
    <3>1. CASE step' = [step EXCEPT ![s].at = "page"]
      <4>1. Becomes(s, [step[s] EXCEPT !.at = "page"])
        BY <3>1 DEF Becomes
      <4>. QED BY <1>0, <4>1
    <3>2. CASE Saves(s, [step[s].st EXCEPT !.paused = now + 1], "end")
      BY <2>1, <3>2
    <3>. QED BY <2>2, <3>1, <3>2 DEF probe
  <2>3. CASE ReadPage(s)
    <3>1. PICK page \in pageOf(step[s].st) :
               \/ step' = [step EXCEPT ![s] = [@ EXCEPT !.at = "work", !.page = page, !.seen = place, !.known = recs,
                                                        !.taken = 0, !.tried = {}, !.failures = 0]]
               \/ \E st, then : Saves(s, st, then)
      BY <2>3 DEF ReadPage
    <3>2. CASE \E st, then : Saves(s, st, then)
      BY <2>1, <3>2
    <3>3. CASE ~\E st, then : Saves(s, st, then)
      BY <1>0, <3>1, <3>3 DEF Becomes
    <3>. QED BY <3>2, <3>3
  <2>4. CASE BudgetEnds(s)
    BY <1>0, <2>4 DEF BudgetEnds, Becomes
  <2>5. CASE TakeThread(s)
    BY <1>0, <2>5 DEF TakeThread, Becomes
  <2>6. CASE PageDone(s)
    BY <2>1, <2>6 DEF PageDone
  <2>7. CASE SaveReads(s)
    <3>. DEFINE r == IF job.sweep # step[s].st.sweep THEN [step[s] EXCEPT !.at = "page", !.over = TRUE]
                     ELSE IF job.status = "paused"
                          THEN [step[s] EXCEPT !.at = "write", !.st.status = "paused", !.then = "end"]
                          ELSE [step[s] EXCEPT !.at = "write"]
    <3>1. Becomes(s, r)
      BY <2>7 DEF SaveReads, Becomes
    <3>2. "at" \in DOMAIN r
      BY <1>0
    <3>. QED BY <3>1, <3>2
  <2>8. CASE SaveWrites(s)
    <3>. DEFINE r == [step[s] EXCEPT !.at = "page", !.over = step[s].over \/ step[s].then = "end"]
    <3>1. Becomes(s, r)
      BY <2>8 DEF SaveWrites, Becomes
    <3>2. "at" \in DOMAIN r
      BY <1>0
    <3>. QED BY <3>1, <3>2
  <2>. QED BY <2>2, <2>3, <2>4, <2>5, <2>6, <2>7, <2>8
<1>. QED BY <1>1, <1>2, <1>3, GoesOn

\* A step's moves are answered, or it asks for its lease, or it dies.
LEMMA AnswerLease == ASSUME LeaseInv, NEW s \in Steps, NEW t \in Threads, Answers(s, t) PROVE LeaseInv'
<1>0. "at" \in DOMAIN step[s] /\ s \in DOMAIN step
  BY DEF LeaseInv, ClockPart
<1>1. Kept
  BY DEF Answers, Migrated, Skipped, NotMoved, Blocked, NoStart, Kept, bounds, Fault
<1>2. "at" \in DOMAIN Tried(s, t) /\ Tried(s, t).at = step[s].at
  BY <1>0 DEF Tried
<1>3. \E r : Becomes(s, r) /\ "at" \in DOMAIN r /\ r.at = step[s].at
  <2>1. CASE Migrated(s, t) \/ Skipped(s, t)
    BY <1>2, <2>1 DEF Migrated, Skipped, Becomes
  <2>2. CASE NotMoved(s, t)
    <3>1. CASE step' = [step EXCEPT ![s] = Tried(s, t)]
      BY <1>2, <3>1 DEF Becomes
    <3>2. ASSUME NEW wait \in BOOLEAN,
                 step' = [step EXCEPT ![s] = [Tried(s, t) EXCEPT !.failures = @ + 1, !.wait = @ \/ wait]]
          PROVE  \E r : Becomes(s, r) /\ "at" \in DOMAIN r /\ r.at = step[s].at
      <4>. DEFINE r == [Tried(s, t) EXCEPT !.failures = Tried(s, t).failures + 1, !.wait = Tried(s, t).wait \/ wait]
      <4>1. Becomes(s, r)
        BY <3>2 DEF Becomes
      <4>2. "at" \in DOMAIN r /\ r.at = step[s].at
        BY <1>2
      <4>. QED BY <4>1, <4>2
    <3>. QED BY <2>2, <3>1, <3>2 DEF NotMoved
  <2>3. CASE Blocked(s, t)
    <3>. DEFINE r == [Tried(s, t) EXCEPT !.st.status = "blocked"]
    <3>1. Becomes(s, r)
      BY <2>3 DEF Blocked, Becomes
    <3>2. "at" \in DOMAIN r /\ r.at = step[s].at
      BY <1>2
    <3>. QED BY <3>1, <3>2
  <2>4. CASE NoStart(s, t)
    <3>. DEFINE r == [step[s] EXCEPT !.out = step[s].out \ {t}]
    <3>1. Becomes(s, r)
      BY <1>0, <2>4 DEF NoStart, Becomes
    <3>2. "at" \in DOMAIN r /\ r.at = step[s].at
      BY <1>0
    <3>. QED BY <3>1, <3>2
  <2>. QED BY <2>1, <2>2, <2>3, <2>4 DEF Answers
<1>4. PICK r : Becomes(s, r) /\ "at" \in DOMAIN r /\ r.at = step[s].at
  BY <1>3
<1>. QED BY <1>1, <1>4, GoesOn DEF Working

LEMMA AskLease == ASSUME LeaseInv, NEW s \in Steps, runCloudSweepStep(s) \/ Dies(s) PROVE LeaseInv'
<1>0. "at" \in DOMAIN Off /\ Off.at = "off"
  BY DEF Off
<1>1. Kept
  BY DEF runCloudSweepStep, Dies, Kept, bounds, Fault
<1>2. CASE runCloudSweepStep(s)
  <2>. DEFINE r == [Off EXCEPT !.at = "read", !.st = Current]
  <2>1. Becomes(s, r)
    BY <1>2 DEF runCloudSweepStep, Becomes
  <2>2. "at" \in DOMAIN r /\ r.at = "read"
    BY <1>0
  <2>. QED BY <1>1, <2>1, <2>2, GoesOn
<1>3. CASE Dies(s)
  <2>1. Becomes(s, Off)
    BY <1>3 DEF Dies, Becomes
  <2>. QED BY <1>0, <1>1, <2>1, GoesOn
<1>. QED BY <1>2, <1>3

\* Time passes where nobody works, but where a step overruns its lease.
LEMMA TimeLease == ASSUME LeaseInv, Tick \/ Overruns PROVE LeaseInv'
<1>1. ClockPart'
  BY DEF LeaseInv, ClockPart, Tick, Overruns
<1>2. CASE Tick
  BY <1>1, <1>2 DEF Tick, LeaseInv, HolderPart, OneStepAtATime, Working, bounds
<1>3. CASE Overruns
  BY <1>1, <1>3 DEF Overruns, LeaseInv, HolderPart, OneStepAtATime
<1>. QED BY <1>2, <1>3

-----------------------------------------------------------------------------
LEMMA NextLease == ASSUME LeaseInv, [Next]_vars PROVE LeaseInv'
<1>1. CASE Tick \/ Overruns
  BY <1>1, TimeLease
<1>2. CASE Operator \/ DeleteRecords \/ saveState \/ UNCHANGED vars
  <2>1. UNCHANGED step /\ Kept
    BY <1>2 DEF Operator, startCloudSweep, pauseCloudSweep, Calls, DeleteRecords, saveState, Event, Kept, vars, bounds
  <2>. QED BY <2>1, NoSteps
<1>3. CASE \E t \in Threads : LateMove(t) \/ Touch(t)
  <2>1. UNCHANGED step /\ Kept
    BY <1>3 DEF LateMove, Touch, Event, Kept, bounds
  <2>. QED BY <2>1, NoSteps
<1>4. ASSUME NEW s \in Steps, runCloudSweepStep(s) \/ Goes(s) \/ BudgetEnds(s) \/ Dies(s)
      PROVE  LeaseInv'
  BY <1>4, AskLease, AcquireLease, ReleaseLease, WorkLease, AnswerLease DEF Goes
<1>. QED BY <1>1, <1>2, <1>3, <1>4 DEF Next

\* "One step at a time (a lease in D1), whoever asks" (acquireStepLease, releaseStepLease):
\* while no step overruns its lease, no two work on the sweep, however steps die, run out
\* of budget, or are asked for by the cron and the operators at a time.
THEOREM OneStepWorks == Spec => []OneStepAtATime
<1>1. LeaseInv => OneStepAtATime
  BY DEF LeaseInv
<1>2. LeaseInv /\ [Next]_vars => LeaseInv'
  BY NextLease
<1>. QED BY <1>1, <1>2, InitLease, PTL DEF Spec

-----------------------------------------------------------------------------
(* Types *)

\* What a record says of the attempts so far.
GoodRec(r) == (r.outcome = "none" => r.tries = 0) /\ (r.outcome = "retry" => r.tries < GiveUp)

\* A page: no thread twice, workers have what was taken of it, and only what the phase is for.
GoodPage(c) ==
    /\ \A i, j \in 1..Len(c.page) : c.page[i] = c.page[j] => i = j
    /\ \A t \in c.out : \E i \in 1..c.taken : c.page[i] = t
    /\ \A t \in c.out : c.known[t].outcome = IF c.st.phase = "scan" THEN "none" ELSE "retry"
    /\ c.st.phase = "retry" => \A i \in 1..Len(c.page) : c.known[c.page[i]].outcome = "retry"

\* A scanned page leaves out no thread that was above its last.
CoverPage(c) ==
    c.st.phase = "scan" =>
        \A t \in Threads, i \in 1..Len(c.page) :
            c.seen[t] < c.st.cursor /\ c.seen[t] >= c.seen[c.page[i]] => \E j \in 1..i : c.page[j] = t

\* What holds of a step by itself.
GoodStep(c) ==
    /\ Len(c.page) <= PageSize /\ c.taken <= Len(c.page)
    /\ \A t \in Threads : GoodRec(c.known[t])
    /\ c.at # "work" => c.out = {}
    /\ c.at = "work" => GoodPage(c) /\ CoverPage(c)

\* No two threads have one place.
PlacesPart == /\ \A t, u \in Threads : place[t] = place[u] => t = u
              /\ \A t \in Threads : place[t] <= Cardinality(Threads) + events

TypeInv == /\ TypeOK /\ PlacesPart
           /\ \A t \in Threads : GoodRec(recs[t])
           /\ \A s \in Steps : GoodStep(step[s])

-----------------------------------------------------------------------------
(* What the operators return *)

LEMMA Constants == /\ PageSize \in Nat \ {0} /\ GiveUp \in Nat \ {0} /\ Breaker \in Nat \ {0} /\ Lease \in Nat \ {0}
                   /\ MaxSweeps \in Nat /\ MaxEvents \in Nat /\ MaxFaults \in Nat
BY SweepConstants DEF SweepConstants

LEMMA Threads1 == /\ Cardinality(Threads) \in Nat /\ Top \in Nat
                  /\ Top = Cardinality(Threads) + MaxEvents + 1
BY FS_CardinalityType, SweepConstants DEF SweepConstants, Top

\* A set of numbers that is not empty has a least one.
LEMMA LeastNumber == ASSUME NEW S \in SUBSET Nat, S # {} PROVE \E x \in S : \A y \in S : x <= y
<1>1. PICK x \in S : \A y \in S : ~ (<<y, x>> \in OpToRel(<, Nat))
  BY WFMin, NatLessThanWellFounded
<1>2. \A y \in S : ~ (y < x)
  BY <1>1 DEF OpToRel
<1>. QED BY <1>2

LEMMA MinIs == ASSUME NEW S \in SUBSET Nat, S # {} PROVE Min(S) \in S /\ \A y \in S : Min(S) <= y
BY LeastNumber DEF Min

LEMMA MaxOfTwo == ASSUME NEW a \in Nat, NEW b \in Nat PROVE Max({a, b}) \in Nat /\ Max({a, b}) \in {a, b}
<1>1. \E x \in {a, b} : \A y \in {a, b} : x >= y
  OBVIOUS
<1>. QED BY <1>1 DEF Max

\* A page: its threads are of the set, none twice, it is empty only where the set is, and
\* it leaves out none that ranks before one it has.
LEMMA PageIs == ASSUME NEW S \in SUBSET Threads, NEW rank, NEW p \in Pages(S, rank)
                PROVE  /\ p \in Seq(S) /\ p \in Seq(Threads) /\ Len(p) \in 0..PageSize
                       /\ \A i \in 1..Len(p) : p[i] \in S
                       /\ \A i, j \in 1..Len(p) : p[i] = p[j] => i = j
                       /\ p = <<>> => S = {}
<1>1. PICK n \in 0..PageSize : p \in [1..n -> S]
  BY DEF Pages
<1>2. p \in Seq(S) /\ Len(p) = n /\ DOMAIN p = 1..Len(p)
  BY <1>1, Constants
<1>3. /\ \A i, j \in 1..Len(p) : i < j => p[i] # p[j]
      /\ \A t \in S \ Range(p) : Len(p) = PageSize
  BY <1>2 DEF Pages
<1>4. \A i, j \in 1..Len(p) : p[i] = p[j] => i = j
  BY <1>3
<1>5. p = <<>> => S = {}
  <2>. SUFFICES ASSUME p = <<>>, NEW t \in S PROVE FALSE
    OBVIOUS
  <2>1. DOMAIN p = {}
    BY <1>2
  <2>2. t \notin Range(p)
    BY <2>1 DEF Range
  <2>. QED BY <1>3, <2>2, Constants
<1>6. p \in Seq(Threads) /\ Len(p) \in 0..PageSize /\ \A i \in 1..Len(p) : p[i] \in S
  BY <1>1, <1>2, Constants
<1>. QED BY <1>2, <1>4, <1>5, <1>6

LEMMA PageCovers == ASSUME NEW S \in SUBSET Threads, NEW rank \in [Threads -> Nat], NEW p \in Pages(S, rank),
                           NEW t \in S, NEW i \in 1..Len(p), rank[t] < rank[p[i]]
                    PROVE  \E j \in 1..i : p[j] = t
<1>1. p \in Seq(S) /\ \A j \in 1..Len(p) : p[j] \in S
  BY PageIs
<1>2. /\ \A j, k \in 1..Len(p) : j < k => rank[p[j]] <= rank[p[k]]
      /\ \A u \in S \ Range(p) : \A j \in 1..Len(p) : rank[p[j]] <= rank[u]
  <2>1. DOMAIN p = 1..Len(p)
    BY <1>1
  <2>2. /\ \A j, k \in DOMAIN p : j < k => p[j] # p[k] /\ rank[p[j]] <= rank[p[k]]
        /\ \A u \in S \ Range(p) : Len(p) = PageSize /\ \A j \in DOMAIN p : rank[p[j]] <= rank[u]
    BY DEF Pages
  <2>. QED BY <2>1, <2>2
<1>3. p[i] \in Threads /\ rank[p[i]] \in Nat /\ rank[t] \in Nat
  BY <1>1
<1>4. t \in Range(p)
  BY <1>2, <1>3
<1>5. PICK j \in 1..Len(p) : p[j] = t
  BY <1>1, <1>4 DEF Range
<1>6. ~ (i < j)
  BY <1>2, <1>3, <1>5
<1>. QED BY <1>5, <1>6

\* How far the page was tried: to its end, or up to a thread that was not.
LEMMA ReachedIs == ASSUME NEW s \in Steps, step[s].page \in Seq(Threads)
                   PROVE  /\ reached(s) \in 0..Len(step[s].page)
                          /\ \A j \in 1..reached(s) : step[s].page[j] \in step[s].tried
<1>. DEFINE page == step[s].page
            n == Len(page)
            Ends1 == {i \in 0..n : i < n => page[i + 1] \notin step[s].tried}
<1>1. n \in Nat /\ n \in Ends1 /\ Ends1 \in SUBSET Nat
  OBVIOUS
<1>2. PICK i \in Ends1 : \A k \in Ends1 : i <= k
  BY <1>1, LeastNumber
<1>3. \A j \in 1..i : page[j] \in step[s].tried
  <2>. SUFFICES ASSUME NEW j \in 1..i, page[j] \notin step[s].tried PROVE FALSE
    OBVIOUS
  <2>1. j - 1 \in 0..n /\ (j - 1) + 1 = j /\ j - 1 < i
    BY <1>1
  <2>2. j - 1 \in Ends1
    BY <2>1
  <2>. QED BY <1>2, <2>1, <2>2
<1>4. \E k \in 0..n : (\A j \in 1..k : page[j] \in step[s].tried) /\ (k < n => page[k + 1] \notin step[s].tried)
  BY <1>2, <1>3
<1>. QED BY <1>4 DEF reached

-----------------------------------------------------------------------------
(* The parts of the types *)

StepsPart == step \in [Steps -> StepRecords] /\ \A s \in Steps : GoodStep(step[s])
RecsPart == recs \in [Threads -> Records] /\ \A t \in Threads : GoodRec(recs[t])
PlainPart == /\ now \in Nat /\ lease \in Nat /\ home \in [Threads -> {"chat", "runtime"}] /\ going \subseteq Threads
             /\ late \in BOOLEAN /\ sweeps \in 0..MaxSweeps /\ events \in 0..MaxEvents /\ faults \in 0..MaxFaults
IndexPart == place \in [Threads -> 1..Top] /\ PlacesPart
JobPart == job \in States /\ op \in [at : {"none", "delete", "write"}, st : States]

LEMMA TypeParts == /\ TypeInv <=> StepsPart /\ RecsPart /\ PlainPart /\ IndexPart /\ JobPart
                   /\ TypeInv' <=> StepsPart' /\ RecsPart' /\ PlainPart' /\ IndexPart' /\ JobPart'
BY DEF TypeInv, TypeOK, StepsPart, RecsPart, PlainPart, IndexPart, JobPart

LEMMA OthersStay == /\ StepsPart /\ UNCHANGED step => StepsPart'
                    /\ RecsPart /\ UNCHANGED recs => RecsPart'
                    /\ JobPart /\ UNCHANGED <<job, op>> => JobPart'
                    /\ IndexPart /\ UNCHANGED <<place, events>> => IndexPart'
BY DEF StepsPart, RecsPart, JobPart, IndexPart, PlacesPart

\* events may grow.
LEMMA IndexStays == ASSUME IndexPart, UNCHANGED place, events \in Nat, events' \in Nat, events' >= events
                    PROVE  IndexPart'
<1>1. \A t \in Threads : place[t] \in Nat
  BY Threads1 DEF IndexPart
<1>. QED BY <1>1, Threads1 DEF IndexPart, PlacesPart

LEMMA IdleIs == Idle \in States /\ NoRec \in Records /\ GoodRec(NoRec)
BY Threads1, Constants DEF Idle, States, NoRec, Records, GoodRec

LEMMA OffIs == Off \in StepRecords /\ GoodStep(Off)
<1>1. [t \in Threads |-> Top] \in [Threads -> 1..Top] /\ [t \in Threads |-> NoRec] \in [Threads -> Records]
  BY IdleIs, Threads1, Constants
<1>2. <<>> \in Seq(Threads) /\ Len(<<>>) = 0
  OBVIOUS
<1>3. Off \in StepRecords
  BY <1>1, <1>2, IdleIs, Constants DEF Off, StepRecords
<1>4. GoodStep(Off)
  BY <1>2, IdleIs, Constants DEF Off, GoodStep
<1>. QED BY <1>3, <1>4

LEMMA StepTyped == ASSUME StepsPart, NEW s \in Steps, NEW r \in StepRecords, GoodStep(r), Becomes(s, r)
                   PROVE  StepsPart'
<1>1. step' \in [Steps -> StepRecords]
  BY DEF StepsPart, Becomes
<1>2. \A u \in Steps : step'[u] = IF u = s THEN r ELSE step[u]
  BY DEF StepsPart, Becomes
<1>. QED BY <1>1, <1>2 DEF StepsPart

\* A step between its pages keeps its last one.
LEMMA BetweenPages == ASSUME NEW c \in StepRecords, GoodStep(c), NEW r \in StepRecords, c.out = {}, r.at # "work",
                             r.page = c.page, r.out = c.out, r.known = c.known, r.taken = c.taken
                      PROVE  GoodStep(r)
BY DEF GoodStep

\* What a step at work tries, counts and waits for leaves its page as it is.
LEMMA SamePage == ASSUME NEW c \in StepRecords, GoodStep(c), NEW r \in StepRecords, r.at = c.at, r.page = c.page,
                         r.seen = c.seen, r.known = c.known, r.taken = c.taken, r.out \subseteq c.out,
                         r.st.phase = c.st.phase, r.st.cursor = c.st.cursor
                  PROVE  GoodStep(r)
<1>1. GoodPage(c) => GoodPage(r)
  BY DEF GoodPage
<1>2. CoverPage(c) => CoverPage(r)
  BY DEF CoverPage
<1>. QED BY <1>1, <1>2 DEF GoodStep

-----------------------------------------------------------------------------
(* Each action keeps the types *)

LEMMA InitTypes == Init => TypeInv
<1>. SUFFICES ASSUME Init PROVE TypeInv
  OBVIOUS
<1>. DEFINE N == Cardinality(Threads)
<1>1. StepsPart
  BY OffIs DEF Init, StepsPart
<1>2. RecsPart
  BY IdleIs DEF Init, RecsPart
<1>3. PlainPart
  <2>1. now \in Nat /\ lease \in Nat /\ home \in [Threads -> {"chat", "runtime"}] /\ going \subseteq Threads
    BY DEF Init
  <2>2. late \in BOOLEAN
    BY DEF Init
  <2>3. sweeps \in 0..MaxSweeps /\ events \in 0..MaxEvents /\ faults \in 0..MaxFaults
    BY Constants DEF Init
  <2>. QED BY <2>1, <2>2, <2>3 DEF PlainPart
<1>4. JobPart
  BY IdleIs DEF Init, JobPart, NoCall
<1>5. \E f \in [Threads -> 1..N] : \A t, u \in Threads : f[t] = f[u] => t = u
  <2>1. ExistsBijection(Threads, 1..N)
    BY FS_CardinalityType, Fun_ExistsBijSymmetric, SweepConstants DEF SweepConstants
  <2>2. PICK f \in Bijection(Threads, 1..N) : TRUE
    BY <2>1 DEF ExistsBijection
  <2>. QED BY <2>2 DEF Bijection, Injection, IsInjective
<1>6. place \in [Threads -> 1..N] /\ \A t, u \in Threads : place[t] = place[u] => t = u
  BY <1>5 DEF Init
<1>7. IndexPart
  BY <1>6, Threads1, Constants DEF Init, IndexPart, PlacesPart
<1>. QED BY <1>1, <1>2, <1>3, <1>4, <1>7, TypeParts

LEMMA OperatorTypes == ASSUME TypeInv, Operator \/ DeleteRecords \/ saveState PROVE TypeInv'
<1>0. StepsPart /\ RecsPart /\ PlainPart /\ IndexPart /\ JobPart
  BY TypeParts
<1>1. CASE Operator
  <2>1. UNCHANGED <<now, job, recs, lease, step, home, going, place>>
    BY <1>1 DEF Operator, startCloudSweep, pauseCloudSweep, Calls
  <2>2. PlainPart' /\ events' >= events
    BY <1>0, <1>1, <2>1, Constants DEF PlainPart, Operator, startCloudSweep, pauseCloudSweep, bounds, Event
  <2>3. \E st \in States : \E at \in {"delete", "write"} : op' = [at |-> at, st |-> st]
    <3>1. Fresh \in States \/ ~(sweeps < MaxSweeps)
      <4>1. CASE sweeps < MaxSweeps
        <5>1. sweeps + 1 \in 0..MaxSweeps
          BY <1>0, <4>1, Constants DEF PlainPart
        <5>. QED BY <5>1, IdleIs DEF Fresh, States
      <4>. QED BY <4>1
    <3>2. [job EXCEPT !.status = "running"] \in States /\ [job EXCEPT !.status = "paused"] \in States
      BY <1>0 DEF JobPart, States
    <3>. QED BY <1>1, <3>1, <3>2 DEF Operator, startCloudSweep, pauseCloudSweep, Calls
  <2>4. JobPart'
    BY <1>0, <2>1, <2>3 DEF JobPart
  <2>5. IndexPart'
    BY <1>0, <2>1, <2>2, IndexStays DEF PlainPart
  <2>. QED BY <1>0, <2>1, <2>2, <2>4, <2>5, OthersStay, TypeParts
<1>2. CASE DeleteRecords
  <2>1. JobPart'
    BY <1>0, <1>2 DEF JobPart, DeleteRecords
  <2>2. RecsPart'
    BY <1>2, IdleIs DEF RecsPart, DeleteRecords
  <2>3. PlainPart' /\ UNCHANGED <<step, place, events>>
    BY <1>0, <1>2 DEF PlainPart, DeleteRecords, bounds
  <2>. QED BY <1>0, <2>1, <2>2, <2>3, OthersStay, TypeParts
<1>3. CASE saveState
  <2>1. JobPart'
    BY <1>0, <1>3, IdleIs DEF JobPart, saveState, NoCall
  <2>2. PlainPart' /\ UNCHANGED <<step, place, events, recs>>
    BY <1>0, <1>3 DEF PlainPart, saveState, bounds
  <2>. QED BY <1>0, <2>1, <2>2, OthersStay, TypeParts
<1>. QED BY <1>1, <1>2, <1>3

LEMMA WorldTypes == ASSUME TypeInv,
                           Tick \/ Overruns \/ (\E t \in Threads : LateMove(t) \/ Touch(t)) \/ UNCHANGED vars
                    PROVE  TypeInv'
<1>0. StepsPart /\ RecsPart /\ PlainPart /\ IndexPart /\ JobPart
  BY TypeParts
<1>1. UNCHANGED <<job, recs, step, op>>
  BY DEF Tick, Overruns, LateMove, Touch, vars
<1>2. PlainPart' /\ events' \in Nat /\ events' >= events
  <2>1. CASE Tick
    BY <1>0, <2>1 DEF Tick, bounds, PlainPart
  <2>2. CASE Overruns
    <3>1. late' \in BOOLEAN
      BY <2>2 DEF Overruns
    <3>2. events' \in 0..MaxEvents /\ events' >= events
      BY <1>0, <2>2, Constants DEF Overruns, Event, PlainPart
    <3>. QED BY <1>0, <2>2, <3>1, <3>2 DEF Overruns, Event, PlainPart
  <2>3. ASSUME NEW t \in Threads, LateMove(t) PROVE PlainPart' /\ events' \in Nat /\ events' >= events
    BY <1>0, <2>3 DEF LateMove, bounds, PlainPart
  <2>4. ASSUME NEW t \in Threads, Touch(t) PROVE PlainPart' /\ events' \in Nat /\ events' >= events
    <3>2. events' \in 0..MaxEvents /\ events' >= events
      BY <1>0, <2>4, Constants DEF Touch, Event, PlainPart
    <3>. QED BY <1>0, <2>4, <3>2 DEF Touch, Event, PlainPart
  <2>5. CASE UNCHANGED vars
    BY <1>0, <2>5 DEF vars, bounds, PlainPart
  <2>. QED BY <2>1, <2>2, <2>3, <2>4, <2>5
<1>3. IndexPart'
  <2>1. CASE UNCHANGED place
    BY <1>0, <1>2, <2>1, IndexStays DEF PlainPart
  <2>2. ASSUME NEW t \in Threads, Touch(t) PROVE IndexPart'
    <3>1. /\ place' = [place EXCEPT ![t] = Cardinality(Threads) + events + 1]
          /\ events' = events + 1 /\ events < MaxEvents /\ events \in Nat
      BY <1>0, <2>2 DEF Touch, Event, PlainPart
    <3>2. MaxEvents \in Nat
      BY Constants
    <3>3. \A u \in Threads : place[u] \in 1..Top /\ place[u] <= Cardinality(Threads) + events
      BY <1>0 DEF IndexPart, PlacesPart
    <3>4. \A u \in Threads : place'[u] = IF u = t THEN Cardinality(Threads) + events + 1 ELSE place[u]
      BY <1>0, <3>1 DEF IndexPart
    <3>0. Cardinality(Threads) + events + 1 \in 1..Top
      BY <3>1, <3>2, Threads1
    <3>5. place' \in [Threads -> 1..Top]
      BY <1>0, <3>0, <3>1 DEF IndexPart
    <3>6. PlacesPart'
      BY <1>0, <3>1, <3>3, <3>4, Threads1 DEF IndexPart, PlacesPart
    <3>. QED BY <3>5, <3>6 DEF IndexPart
  <2>. QED BY <2>1, <2>2 DEF Tick, Overruns, LateMove, vars
<1>. QED BY <1>0, <1>1, <1>2, <1>3, OthersStay, TypeParts


\* What a step does that leaves records, index and job as they are.
LEMMA StepOnly == ASSUME TypeInv, StepsPart', PlainPart', UNCHANGED <<recs, job, op, place, events>> PROVE TypeInv'
BY OthersStay, TypeParts

LEMMA SavesTyped == ASSUME TypeInv, NEW s \in Steps, NEW st \in States, NEW then \in {"page", "end"}, Saves(s, st, then),
                           step[s].out = {}
                    PROVE  StepsPart'
<1>. DEFINE r == [step[s] EXCEPT !.at = "save", !.st = st, !.then = then]
<1>1. step[s] \in StepRecords /\ GoodStep(step[s]) /\ StepsPart
  BY TypeParts DEF StepsPart
<1>2. r \in StepRecords
  BY <1>1 DEF StepRecords
<1>3. r.at # "work" /\ r.page = step[s].page /\ r.out = step[s].out /\ r.known = step[s].known /\ r.taken = step[s].taken
  BY <1>1 DEF StepRecords
<1>4. GoodStep(r)
  BY <1>1, <1>2, <1>3, BetweenPages
<1>5. Becomes(s, r)
  BY <1>1 DEF Saves, Becomes, StepRecords
<1>. QED BY <1>1, <1>2, <1>4, <1>5, StepTyped

LEMMA AskTypes == ASSUME TypeInv, NEW s \in Steps,
                         runCloudSweepStep(s) \/ acquireStepLease(s) \/ releaseStepLease(s) \/ Dies(s)
                  PROVE  TypeInv'
<1>0. StepsPart /\ PlainPart /\ JobPart /\ step[s] \in StepRecords /\ GoodStep(step[s])
  BY TypeParts DEF StepsPart
<1>1. CASE runCloudSweepStep(s)
  <2>. DEFINE r == [Off EXCEPT !.at = "read", !.st = Current]
  <2>1. Current \in States
    BY <1>0 DEF Current, JobPart, States
  <2>2. r \in StepRecords
    BY <2>1, OffIs DEF StepRecords
  <2>3. r.at # "work" /\ r.page = Off.page /\ r.out = Off.out /\ r.known = Off.known /\ r.taken = Off.taken /\ Off.out = {}
    BY OffIs DEF StepRecords, Off
  <2>4. GoodStep(r) /\ Becomes(s, r)
    BY <1>1, <2>2, <2>3, OffIs, BetweenPages DEF runCloudSweepStep, Becomes
  <2>5. PlainPart'
    BY <1>0, <1>1 DEF PlainPart, runCloudSweepStep, bounds
  <2>. QED BY <1>0, <1>1, <2>2, <2>4, <2>5, StepTyped, StepOnly DEF runCloudSweepStep, bounds
<1>2. CASE acquireStepLease(s)
  <2>. DEFINE r == [step[s] EXCEPT !.at = "probe"]
  <2>1. r \in StepRecords /\ r.at # "work" /\ r.page = step[s].page /\ r.out = step[s].out
        /\ r.known = step[s].known /\ r.taken = step[s].taken
    BY <1>0 DEF StepRecords
  <2>2. GoodStep(r)
    BY <1>0, <1>2, <2>1, BetweenPages DEF acquireStepLease, GoodStep
  <2>3. Becomes(s, r) \/ Becomes(s, Off)
    BY <1>2 DEF acquireStepLease, Becomes
  <2>4. StepsPart'
    BY <1>0, <2>1, <2>2, <2>3, OffIs, StepTyped
  <2>5. PlainPart'
    BY <1>0, <1>2, Constants DEF PlainPart, acquireStepLease, bounds
  <2>. QED BY <1>2, <2>4, <2>5, StepOnly DEF acquireStepLease, bounds
<1>3. CASE releaseStepLease(s)
  <2>1. StepsPart'
    BY <1>0, <1>3, OffIs, StepTyped DEF releaseStepLease, Becomes
  <2>2. PlainPart'
    BY <1>0, <1>3 DEF PlainPart, releaseStepLease, bounds
  <2>. QED BY <1>3, <2>1, <2>2, StepOnly DEF releaseStepLease, bounds
<1>4. CASE Dies(s)
  <2>1. StepsPart'
    BY <1>0, <1>4, OffIs, StepTyped DEF Dies, Becomes
  <2>2. step[s].out \subseteq Threads
    BY <1>0 DEF StepRecords
  <2>3. PlainPart'
    BY <1>0, <1>4, <2>2, Constants DEF PlainPart, Dies, Fault
  <2>. QED BY <1>4, <2>1, <2>3, StepOnly DEF Dies, Fault
<1>. QED BY <1>1, <1>2, <1>3, <1>4

LEMMA PlainTypes == ASSUME TypeInv, NEW s \in Steps, probe(s) \/ BudgetEnds(s) \/ SaveReads(s) \/ SaveWrites(s)
                    PROVE  TypeInv'
<1>0. StepsPart /\ PlainPart /\ JobPart /\ step[s] \in StepRecords /\ GoodStep(step[s])
  BY TypeParts DEF StepsPart
<1>1. CASE probe(s)
  <2>0. step[s].at = "probe" /\ step[s].out = {}
    BY <1>0, <1>1 DEF probe, GoodStep
  <2>1. ASSUME step' = [step EXCEPT ![s].at = "page"] PROVE StepsPart'
    <3>. DEFINE r == [step[s] EXCEPT !.at = "page"]
    <3>1. r \in StepRecords /\ r.at # "work" /\ r.page = step[s].page /\ r.out = step[s].out
          /\ r.known = step[s].known /\ r.taken = step[s].taken
      BY <1>0 DEF StepRecords
    <3>2. GoodStep(r) /\ Becomes(s, r)
      BY <1>0, <2>0, <2>1, <3>1, BetweenPages DEF Becomes
    <3>. QED BY <1>0, <3>1, <3>2, StepTyped
  <2>2. ASSUME Saves(s, [step[s].st EXCEPT !.paused = now + 1], "end") PROVE StepsPart'
    <3>0. now + 1 \in Nat /\ step[s].st \in States
      BY <1>0 DEF StepRecords, PlainPart
    <3>1. [step[s].st EXCEPT !.paused = now + 1] \in States
      BY <3>0 DEF States
    <3>. QED BY <2>0, <2>2, <3>1, SavesTyped
  <2>3. PlainPart'
    BY <1>0, <1>1, Constants DEF PlainPart, probe, Fault, bounds
  <2>4. StepsPart'
    BY <1>1, <2>1, <2>2 DEF probe
  <2>. QED BY <1>1, <2>3, <2>4, StepOnly DEF probe, Fault, bounds
<1>2. CASE BudgetEnds(s)
  <2>. DEFINE r == [step[s] EXCEPT !.over = TRUE]
  <2>1. r \in StepRecords /\ r.at = step[s].at /\ r.page = step[s].page /\ r.out = step[s].out /\ r.seen = step[s].seen
        /\ r.known = step[s].known /\ r.taken = step[s].taken /\ r.st = step[s].st
    BY <1>0 DEF StepRecords
  <2>2. GoodStep(r) /\ Becomes(s, r)
    BY <1>0, <1>2, <2>1, SamePage DEF Becomes, BudgetEnds
  <2>3. PlainPart'
    BY <1>0, <1>2, Constants DEF PlainPart, BudgetEnds, Fault
  <2>. QED BY <1>0, <1>2, <2>1, <2>2, <2>3, StepTyped, StepOnly DEF BudgetEnds, Fault
<1>3. CASE SaveReads(s)
  <2>. DEFINE r == IF job.sweep # step[s].st.sweep THEN [step[s] EXCEPT !.at = "page", !.over = TRUE]
                   ELSE IF job.status = "paused"
                        THEN [step[s] EXCEPT !.at = "write", !.st.status = "paused", !.then = "end"]
                        ELSE [step[s] EXCEPT !.at = "write"]
  <2>0. step[s].out = {}
    BY <1>0, <1>3 DEF SaveReads, GoodStep
  <2>1. r \in StepRecords
    <3>1. [step[s] EXCEPT !.at = "page", !.over = TRUE] \in StepRecords /\ [step[s] EXCEPT !.at = "write"] \in StepRecords
      BY <1>0 DEF StepRecords
    <3>2. [step[s].st EXCEPT !.status = "paused"] \in States
      BY <1>0 DEF StepRecords, States
    <3>3. [step[s] EXCEPT !.at = "write", !.st = [step[s].st EXCEPT !.status = "paused"], !.then = "end"] \in StepRecords
      BY <1>0, <3>2 DEF StepRecords
    <3>. QED BY <3>1, <3>3
  <2>2. r.at # "work" /\ r.page = step[s].page /\ r.out = step[s].out /\ r.known = step[s].known /\ r.taken = step[s].taken
    BY <1>0 DEF StepRecords
  <2>3. GoodStep(r)
    BY <1>0, <2>0, <2>1, <2>2, BetweenPages
  <2>4. Becomes(s, r)
    BY <1>3 DEF SaveReads, Becomes
  <2>5. PlainPart'
    BY <1>0, <1>3 DEF PlainPart, SaveReads, bounds
  <2>6. StepsPart'
    BY <1>0, <2>1, <2>3, <2>4, StepTyped
  <2>. QED BY <1>3, <2>5, <2>6, StepOnly DEF SaveReads, bounds
<1>4. CASE SaveWrites(s)
  <2>. DEFINE r == [step[s] EXCEPT !.at = "page", !.over = step[s].over \/ step[s].then = "end"]
  <2>0. step[s].out = {}
    BY <1>0, <1>4 DEF SaveWrites, GoodStep
  <2>1. (step[s].over \/ step[s].then = "end") \in BOOLEAN
    OBVIOUS
  <2>2. r \in StepRecords
    BY <1>0, <2>1 DEF StepRecords
  <2>3. r.at # "work" /\ r.page = step[s].page /\ r.out = step[s].out /\ r.known = step[s].known /\ r.taken = step[s].taken
    BY <1>0 DEF StepRecords
  <2>4. GoodStep(r) /\ Becomes(s, r)
    BY <1>0, <1>4, <2>0, <2>2, <2>3, BetweenPages DEF SaveWrites, Becomes
  <2>5. StepsPart'
    BY <1>0, <2>2, <2>4, StepTyped
  <2>6. PlainPart'
    BY <1>0, <1>4 DEF PlainPart, SaveWrites, bounds
  <2>7. JobPart'
    <3>1. job' \in States /\ op' = op
      BY <1>0, <1>4 DEF SaveWrites, StepRecords
    <3>. QED BY <1>0, <3>1 DEF JobPart
  <2>8. UNCHANGED <<recs, place, events>>
    BY <1>4 DEF SaveWrites, bounds
  <2>. QED BY <2>5, <2>6, <2>7, <2>8, OthersStay, TypeParts
<1>. QED BY <1>1, <1>2, <1>3, <1>4


\* A worker's thread was taken of the page, and the step read no record of it but one to retry.
LEMMA OutIs == ASSUME TypeInv, NEW s \in Steps, NEW t \in step[s].out
               PROVE  /\ t \in Threads /\ step[s].at = "work" /\ step[s].known[t] \in Records
                      /\ GoodRec(step[s].known[t])
                      /\ step[s].known[t].outcome = IF step[s].st.phase = "scan" THEN "none" ELSE "retry"
<1>0. step[s] \in StepRecords /\ GoodStep(step[s])
  BY TypeParts DEF StepsPart
<1>1. t \in Threads /\ step[s].at = "work"
  BY <1>0 DEF StepRecords, GoodStep
<1>2. step[s].known[t] \in Records /\ GoodRec(step[s].known[t]) /\ GoodPage(step[s])
  BY <1>0, <1>1 DEF StepRecords, GoodStep
<1>. QED BY <1>1, <1>2 DEF GoodPage

LEMMA SettleTypes == ASSUME TypeInv, NEW s \in Steps, NEW t \in step[s].out, NEW kind \in {"retry", "skipped"},
                            settle(s, t, kind)
                     PROVE  RecsPart' /\ recs'[t].outcome \in {"retry", "skipped"}
                            /\ \A u \in Threads \ {t} : recs'[u] = recs[u]
<1>0. RecsPart /\ PlainPart /\ t \in Threads
  BY TypeParts, OutIs
<1>. DEFINE tries == step[s].known[t].tries + 1
            new == IF kind = "retry" /\ tries < GiveUp
                   THEN [outcome |-> "retry", tries |-> tries, due |-> now + 1]
                   ELSE [outcome |-> "skipped", tries |-> tries, due |-> 0]
<1>1. tries \in 0..GiveUp
  BY OutIs, Constants DEF Records, GoodRec
<1>2. now + 1 \in Nat
  BY <1>0 DEF PlainPart
<1>3. new \in Records /\ GoodRec(new) /\ new.outcome \in {"retry", "skipped"}
  BY <1>1, <1>2 DEF Records, GoodRec
<1>4. recs' = [recs EXCEPT ![t] = new]
  BY DEF settle
<1>. QED BY <1>0, <1>3, <1>4 DEF RecsPart

LEMMA ForgottenTypes == ASSUME RecsPart, NEW s \in Steps, NEW t \in Threads, Forgotten(s, t)
                        PROVE  RecsPart' /\ \A u \in Threads \ {t} : recs'[u] = recs[u]
BY IdleIs DEF RecsPart, Forgotten

LEMMA TriedIs == ASSUME TypeInv, NEW s \in Steps, NEW t \in step[s].out
                 PROVE  /\ Tried(s, t) \in StepRecords /\ GoodStep(Tried(s, t))
                        /\ Tried(s, t).at = step[s].at /\ Tried(s, t).page = step[s].page /\ Tried(s, t).st = step[s].st
                        /\ Tried(s, t).seen = step[s].seen /\ Tried(s, t).known = step[s].known
                        /\ Tried(s, t).taken = step[s].taken
                        /\ Tried(s, t).out = step[s].out \ {t} /\ Tried(s, t).tried = step[s].tried \cup {t}
<1>0. step[s] \in StepRecords /\ GoodStep(step[s]) /\ t \in Threads
  BY TypeParts, OutIs DEF StepsPart
<1>1. Tried(s, t) \in StepRecords
  BY <1>0 DEF StepRecords, Tried
<1>2. /\ Tried(s, t).at = step[s].at /\ Tried(s, t).page = step[s].page /\ Tried(s, t).st = step[s].st
      /\ Tried(s, t).seen = step[s].seen /\ Tried(s, t).known = step[s].known /\ Tried(s, t).taken = step[s].taken
      /\ Tried(s, t).out = step[s].out \ {t} /\ Tried(s, t).tried = step[s].tried \cup {t}
  BY <1>0 DEF StepRecords, Tried
<1>3. GoodStep(Tried(s, t))
  BY <1>0, <1>1, <1>2, SamePage
<1>. QED BY <1>1, <1>2, <1>3

\* An answered thread is tried, or its worker gave up waiting for a start, and nothing
\* else of the page changes.
AnsweredStep(s, t, r) ==
    /\ Becomes(s, r) /\ r \in StepRecords /\ GoodStep(r)
    /\ r.at = step[s].at /\ r.page = step[s].page /\ r.seen = step[s].seen /\ r.known = step[s].known
    /\ r.taken = step[s].taken /\ r.out = step[s].out \ {t} /\ r.tried \in {step[s].tried, step[s].tried \cup {t}}
    /\ r.st = step[s].st \/ r.st = [step[s].st EXCEPT !.status = "blocked"]

LEMMA AnswerStep == ASSUME TypeInv, NEW s \in Steps, NEW t \in Threads, Answers(s, t)
                    PROVE  /\ t \in step[s].out
                           /\ \E r : /\ AnsweredStep(s, t, r)
                                    /\ \/ r.tried = step[s].tried \/ r.st.status = "blocked"
                                       \/ Migrated(s, t) \/ Skipped(s, t) \/ NotMoved(s, t)
<1>. DEFINE Fits(r) == /\ AnsweredStep(s, t, r)
                       /\ \/ r.tried = step[s].tried \/ r.st.status = "blocked"
                          \/ Migrated(s, t) \/ Skipped(s, t) \/ NotMoved(s, t)
<1>1. t \in step[s].out
  BY DEF Answers, Migrated, Skipped, NotMoved, Blocked, NoStart
<1>2. step[s] \in StepRecords /\ GoodStep(step[s]) /\ Tried(s, t) \in StepRecords /\ GoodStep(Tried(s, t))
  BY <1>1, TypeParts, TriedIs DEF StepsPart
<1>3. ASSUME step' = [step EXCEPT ![s] = Tried(s, t)], Migrated(s, t) \/ Skipped(s, t) \/ NotMoved(s, t)
      PROVE  \E r : Fits(r)
  <2>1. AnsweredStep(s, t, Tried(s, t))
    BY <1>1, <1>2, <1>3, TriedIs DEF AnsweredStep, Becomes
  <2>. QED BY <1>3, <2>1
<1>4. ASSUME NEW wait \in BOOLEAN, NotMoved(s, t),
             step' = [step EXCEPT ![s] = [Tried(s, t) EXCEPT !.failures = @ + 1, !.wait = @ \/ wait]]
      PROVE  \E r : Fits(r)
  <2>. DEFINE c == Tried(s, t)
              r == [c EXCEPT !.failures = c.failures + 1, !.wait = c.wait \/ wait]
  <2>1. (c.wait \/ wait) \in BOOLEAN /\ c.failures + 1 \in Nat
    BY <1>2 DEF StepRecords
  <2>2. /\ r \in StepRecords /\ r.at = c.at /\ r.page = c.page /\ r.st = c.st /\ r.seen = c.seen /\ r.known = c.known
        /\ r.taken = c.taken /\ r.out = c.out /\ r.tried = c.tried
    BY <1>2, <2>1 DEF StepRecords
  <2>3. GoodStep(r)
    <3>. HIDE DEF c, r
    <3>1. r.out \subseteq c.out /\ r.st.phase = c.st.phase /\ r.st.cursor = c.st.cursor
      BY <2>2
    <3>. QED BY <1>2, <2>2, <3>1, SamePage DEF c
  <2>4. Becomes(s, r)
    BY <1>4 DEF Becomes
  <2>5. AnsweredStep(s, t, r)
    <3>. HIDE DEF r
    <3>. QED BY <1>1, <2>2, <2>3, <2>4, TriedIs DEF AnsweredStep, c
  <2>. QED BY <1>4, <2>5
<1>5. ASSUME Blocked(s, t) PROVE \E r : Fits(r)
  <2>. DEFINE c == Tried(s, t)
              st == [c.st EXCEPT !.status = "blocked"]
              r == [c EXCEPT !.st = st]
  <2>1. c.st \in States
    BY <1>2 DEF StepRecords
  <2>2. st \in States /\ st.phase = c.st.phase /\ st.cursor = c.st.cursor /\ st.status = "blocked"
    BY <2>1 DEF States
  <2>3. /\ r \in StepRecords /\ r.at = c.at /\ r.page = c.page /\ r.st = st /\ r.seen = c.seen /\ r.known = c.known
        /\ r.taken = c.taken /\ r.out = c.out /\ r.tried = c.tried
    BY <1>2, <2>2 DEF StepRecords
  <2>4. Becomes(s, r)
    BY <1>5 DEF Becomes, Blocked
  <2>5. GoodStep(r)
    <3>. HIDE DEF c, st, r
    <3>1. r.out \subseteq c.out /\ r.st.phase = c.st.phase /\ r.st.cursor = c.st.cursor
      BY <2>2, <2>3
    <3>. QED BY <1>2, <2>3, <3>1, SamePage DEF c
  <2>6. st = [step[s].st EXCEPT !.status = "blocked"]
    BY <1>1, TriedIs
  <2>7. AnsweredStep(s, t, r)
    <3>. HIDE DEF r
    <3>. QED BY <1>1, <2>3, <2>4, <2>5, <2>6, TriedIs DEF AnsweredStep, c
  <2>8. r.st.status = "blocked"
    BY <2>2, <2>3
  <2>. QED BY <2>7, <2>8
<1>6. ASSUME NoStart(s, t) PROVE \E r : Fits(r)
  <2>. DEFINE r == [step[s] EXCEPT !.out = step[s].out \ {t}]
  <2>1. /\ r \in StepRecords /\ r.at = step[s].at /\ r.page = step[s].page /\ r.st = step[s].st /\ r.seen = step[s].seen
        /\ r.known = step[s].known /\ r.taken = step[s].taken /\ r.out = step[s].out \ {t} /\ r.tried = step[s].tried
    BY <1>2 DEF StepRecords
  <2>2. Becomes(s, r)
    BY <1>6 DEF Becomes, NoStart
  <2>3. GoodStep(r)
    <3>. HIDE DEF r
    <3>1. r.out \subseteq step[s].out
      BY <2>1
    <3>. QED BY <1>2, <2>1, <3>1, SamePage
  <2>4. AnsweredStep(s, t, r)
    BY <2>1, <2>2, <2>3 DEF AnsweredStep
  <2>. QED BY <2>1, <2>4
<1>7. \E r : Fits(r)
  BY <1>3, <1>4, <1>5, <1>6 DEF Answers, Migrated, Skipped, NotMoved
<1>. QED BY <1>1, <1>7

LEMMA AnswerTypes == ASSUME TypeInv, NEW s \in Steps, NEW t \in Threads, Answers(s, t) PROVE TypeInv'
<1>0. RecsPart /\ PlainPart /\ JobPart /\ StepsPart
  BY TypeParts
<1>1. t \in step[s].out /\ StepsPart'
  BY <1>0, AnswerStep, StepTyped DEF AnsweredStep
<1>2. UNCHANGED <<job, op, place, events>>
  BY DEF Answers, Migrated, Skipped, NotMoved, Blocked, NoStart, Fault, bounds
<1>3. RecsPart'
  <2>1. CASE Migrated(s, t)
    BY <1>0, <2>1, ForgottenTypes DEF Migrated
  <2>2. CASE Skipped(s, t)
    BY <1>1, <2>2, SettleTypes DEF Skipped
  <2>3. CASE NotMoved(s, t)
    BY <1>1, <2>3, SettleTypes DEF NotMoved
  <2>4. CASE Blocked(s, t) \/ NoStart(s, t)
    BY <1>0, <2>4, OthersStay DEF Blocked, NoStart
  <2>. QED BY <2>1, <2>2, <2>3, <2>4 DEF Answers
<1>4. PlainPart'
  <2>1. CASE Migrated(s, t) \/ Skipped(s, t) \/ NoStart(s, t)
    BY <1>0, <2>1 DEF PlainPart, Migrated, Skipped, NoStart, bounds
  <2>2. CASE NotMoved(s, t) \/ Blocked(s, t)
    <3>0. Fault
      BY <2>2 DEF NotMoved, Blocked
    <3>1. faults' \in 0..MaxFaults /\ UNCHANGED <<late, sweeps, events>>
      BY <1>0, <3>0, Constants DEF PlainPart, Fault
    <3>2. going' \subseteq Threads /\ UNCHANGED <<now, lease, home>>
      BY <1>0, <2>2 DEF PlainPart, NotMoved, Blocked
    <3>. QED BY <1>0, <3>1, <3>2 DEF PlainPart
  <2>. QED BY <2>1, <2>2 DEF Answers
<1>. QED BY <1>0, <1>1, <1>2, <1>3, <1>4, OthersStay, TypeParts


\* The page of a phase.
LEMMA PageOf == ASSUME RecsPart, IndexPart, NEW st \in States, NEW page \in pageOf(st)
                PROVE  /\ page \in Seq(Threads) /\ Len(page) \in 0..PageSize
                       /\ \A i, j \in 1..Len(page) : page[i] = page[j] => i = j
                       /\ st.phase = "retry" => \A i \in 1..Len(page) : recs[page[i]].outcome = "retry"
                       /\ st.phase = "scan" => /\ page = <<>> => \A t \in Threads : place[t] >= st.cursor
                                               /\ \A t \in Threads, i \in 1..Len(page) :
                                                     place[t] < st.cursor /\ place[t] >= place[page[i]]
                                                        => \E j \in 1..i : page[j] = t
<1>1. CASE st.phase = "scan"
  <2>. DEFINE S == {t \in Threads : place[t] < st.cursor}
              rank == [t \in Threads |-> Top - place[t]]
  <2>0. S \in SUBSET Threads /\ page \in Pages(S, rank)
    BY <1>1 DEF pageOf, scanPage
  <2>1. /\ st.cursor \in Nat /\ \A t \in Threads : place[t] \in Nat /\ place[t] <= Top
    BY Threads1 DEF IndexPart, States
  <2>2. rank \in [Threads -> Nat] /\ \A t \in Threads : rank[t] = Top - place[t]
    BY <2>1, Threads1
  <2>. HIDE DEF rank, S
  <2>3. /\ page \in Seq(Threads) /\ Len(page) \in 0..PageSize
        /\ \A i \in 1..Len(page) : page[i] \in S
        /\ \A i, j \in 1..Len(page) : page[i] = page[j] => i = j
        /\ page = <<>> => S = {}
    BY <2>0, PageIs
  <2>4. ASSUME NEW t \in Threads, NEW i \in 1..Len(page), place[t] < st.cursor, place[t] >= place[page[i]]
        PROVE  \E j \in 1..i : page[j] = t
    <3>1. t \in S /\ page[i] \in Threads
      BY <2>0, <2>3, <2>4 DEF S
    <3>2. CASE place[t] > place[page[i]]
      <4>1. rank[t] < rank[page[i]]
        BY <2>1, <2>2, <3>1, <3>2, Threads1
      <4>. QED BY <2>0, <2>2, <2>4, <3>1, <4>1, PageCovers
    <3>3. CASE place[t] = place[page[i]]
      <4>1. t = page[i]
        BY <3>1, <3>3 DEF IndexPart, PlacesPart
      <4>. QED BY <4>1
    <3>. QED BY <2>1, <2>4, <3>1, <3>2, <3>3
  <2>5. page = <<>> => \A t \in Threads : place[t] >= st.cursor
    <3>. SUFFICES ASSUME S = {}, NEW t \in Threads PROVE place[t] >= st.cursor
      BY <2>3
    <3>1. ~ (place[t] < st.cursor)
      BY DEF S
    <3>. QED BY <2>1, <3>1
  <2>. QED BY <1>1, <2>3, <2>4, <2>5
<1>2. CASE st.phase # "scan"
  <2>. DEFINE S == {t \in ToRetry : recs[t].due <= now}
              rank == [t \in Threads |-> recs[t].due]
  <2>1. S \subseteq Threads /\ page \in Pages(S, rank) /\ \A t \in S : recs[t].outcome = "retry"
    BY <1>2 DEF pageOf, duePage, ToRetry
  <2>. HIDE DEF rank, S
  <2>3. /\ page \in Seq(Threads) /\ Len(page) \in 0..PageSize
        /\ \A i \in 1..Len(page) : page[i] \in S
        /\ \A i, j \in 1..Len(page) : page[i] = page[j] => i = j
    BY <2>1, PageIs
  <2>. QED BY <1>2, <2>1, <2>3
<1>. QED BY <1>1, <1>2

\* Reading a page: a new one to work on, or a state to save.
LEMMA ReadStep == ASSUME TypeInv, NEW s \in Steps, ReadPage(s)
                  PROVE  /\ step[s].out = {}
                         /\ \/ \E page \in pageOf(step[s].st), r \in StepRecords :
                                /\ Becomes(s, r) /\ GoodStep(r) /\ page # <<>>
                                /\ r.at = "work" /\ r.page = page /\ r.seen = place /\ r.known = recs /\ r.taken = 0
                                /\ r.tried = {} /\ r.out = {} /\ r.st = step[s].st
                            \/ /\ step[s].st.phase = "scan" /\ <<>> \in pageOf(step[s].st)
                               /\ Saves(s, [step[s].st EXCEPT !.phase = "retry", !.cursor = Top], "page")
                            \/ /\ step[s].st.phase = "retry" /\ Saves(s, finish(step[s].st), "end")
<1>0. step[s] \in StepRecords /\ GoodStep(step[s]) /\ RecsPart /\ IndexPart /\ step[s].st \in States
  BY TypeParts DEF StepsPart, StepRecords
<1>1. step[s].out = {} /\ step[s].at = "page"
  BY <1>0 DEF ReadPage, GoodStep
<1>. DEFINE st == step[s].st
            Read(page, r) == /\ Becomes(s, r) /\ GoodStep(r) /\ page # <<>>
                             /\ r.at = "work" /\ r.page = page /\ r.seen = place /\ r.known = recs /\ r.taken = 0
                             /\ r.tried = {} /\ r.out = {} /\ r.st = st
<1>2. ASSUME NEW page \in pageOf(st), page # <<>>,
             step' = [step EXCEPT ![s] = [@ EXCEPT !.at = "work", !.page = page, !.seen = place, !.known = recs,
                                                   !.taken = 0, !.tried = {}, !.failures = 0]]
      PROVE  \E r \in StepRecords : Read(page, r)
  <2>. DEFINE r == [step[s] EXCEPT !.at = "work", !.page = page, !.seen = place, !.known = recs,
                                   !.taken = 0, !.tried = {}, !.failures = 0]
  <2>1. page \in Seq(Threads) /\ Len(page) \in 0..PageSize
        /\ \A i, j \in 1..Len(page) : page[i] = page[j] => i = j
    BY <1>0, PageOf
  <2>0. place \in [Threads -> 1..Top] /\ recs \in [Threads -> Records] /\ 0 \in 0..PageSize
    BY <1>0, Constants DEF IndexPart, RecsPart
  <2>2. r \in StepRecords
    BY <1>0, <2>0, <2>1 DEF StepRecords
  <2>3. /\ r.at = "work" /\ r.page = page /\ r.seen = place /\ r.known = recs /\ r.taken = 0
        /\ r.tried = {} /\ r.out = {} /\ r.st = st
    BY <1>0, <1>1 DEF StepRecords
  <2>4. GoodPage(r)
    <3>1. st.phase = "retry" => \A i \in 1..Len(page) : recs[page[i]].outcome = "retry"
      BY <1>0, PageOf
    <3>. HIDE DEF r
    <3>. QED BY <2>1, <2>3, <3>1 DEF GoodPage
  <2>5. CoverPage(r)
    <3>1. st.phase = "scan" =>
             \A t \in Threads, i \in 1..Len(page) :
                place[t] < st.cursor /\ place[t] >= place[page[i]] => \E j \in 1..i : page[j] = t
      BY <1>0, PageOf
    <3>. HIDE DEF r
    <3>. QED BY <2>3, <3>1 DEF CoverPage
  <2>6. GoodStep(r)
    <3>. HIDE DEF r
    <3>. QED BY <1>0, <2>1, <2>3, <2>4, <2>5 DEF GoodStep, RecsPart
  <2>7. Becomes(s, r)
    BY <1>2 DEF Becomes
  <2>. QED BY <1>2, <2>2, <2>3, <2>6, <2>7
<1>. HIDE DEF Read
<1>3. \/ \E page \in pageOf(st) : \E r \in StepRecords : Read(page, r)
      \/ /\ st.phase = "scan" /\ <<>> \in pageOf(st)
         /\ Saves(s, [st EXCEPT !.phase = "retry", !.cursor = Top], "page")
      \/ /\ st.phase = "retry" /\ Saves(s, finish(st), "end")
  BY <1>2 DEF ReadPage
<1>. QED BY <1>1, <1>3 DEF Read


\* A thread taken of the page: settled at once, or with a worker.
Settled(s, t) == \/ step[s].st.phase = "scan" /\ step[s].known[t].outcome # "none"
                 \/ home[t] = "runtime"

LEMMA TakeStep == ASSUME TypeInv, NEW s \in Steps, TakeThread(s)
                  PROVE  \E t \in Threads, r \in StepRecords :
                            /\ Becomes(s, r) /\ GoodStep(r) /\ GoodPage(step[s])
                            /\ step[s].at = "work" /\ step[s].taken < Len(step[s].page)
                            /\ t = step[s].page[step[s].taken + 1] /\ r.taken = step[s].taken + 1
                            /\ r.at = "work" /\ r.page = step[s].page /\ r.seen = step[s].seen
                            /\ r.known = step[s].known /\ r.st = step[s].st
                            /\ \/ /\ Settled(s, t) /\ r.out = step[s].out /\ r.tried = step[s].tried \cup {t}
                                  /\ UNCHANGED recs \/ (step[s].st.phase = "retry" /\ Forgotten(s, t))
                               \/ /\ ~Settled(s, t) /\ r.out = step[s].out \cup {t} /\ r.tried = step[s].tried
                                  /\ UNCHANGED recs
<1>. DEFINE c == step[s]
            t == c.page[c.taken + 1]
            r == [c EXCEPT !.taken = c.taken + 1, !.tried = IF Settled(s, t) THEN c.tried \cup {t} ELSE c.tried,
                           !.out = IF Settled(s, t) THEN c.out ELSE c.out \cup {t}]
<1>0. c \in StepRecords /\ GoodStep(c) /\ c.at = "work" /\ c.taken < Len(c.page) /\ GoodPage(c) /\ CoverPage(c)
  BY TypeParts DEF StepsPart, TakeThread, GoodStep
<1>1. c.page \in Seq(Threads) /\ c.taken \in 0..PageSize /\ Len(c.page) <= PageSize
  BY <1>0 DEF StepRecords, GoodStep
<1>2. c.taken + 1 \in 1..Len(c.page) /\ c.taken + 1 \in 0..PageSize
  BY <1>0, <1>1, Constants
<1>3. t \in Threads
  BY <1>1, <1>2
<1>4. r \in StepRecords
  BY <1>0, <1>2, <1>3 DEF StepRecords
<1>5. /\ r.taken = c.taken + 1 /\ r.at = "work" /\ r.page = c.page /\ r.seen = c.seen /\ r.known = c.known /\ r.st = c.st
      /\ r.out = IF Settled(s, t) THEN c.out ELSE c.out \cup {t}
      /\ r.tried = IF Settled(s, t) THEN c.tried \cup {t} ELSE c.tried
  BY <1>0 DEF StepRecords
<1>6. Becomes(s, r)
  BY DEF TakeThread, Settled, Becomes
<1>7. CASE Settled(s, t)
  <2>1. GoodPage(r) /\ CoverPage(r)
    <3>1. \A u \in r.out : \E i \in 1..r.taken : r.page[i] = u
      <4>. HIDE DEF r, t
      <4>. QED BY <1>0, <1>1, <1>5, <1>7 DEF GoodPage
    <3>. HIDE DEF r, t
    <3>. QED BY <1>0, <1>5, <1>7, <3>1 DEF GoodPage, CoverPage
  <2>2. GoodStep(r)
    <3>. HIDE DEF r, t
    <3>. QED BY <1>0, <1>2, <1>5, <2>1 DEF GoodStep
  <2>3. UNCHANGED recs \/ (c.st.phase = "retry" /\ Forgotten(s, t))
    BY <1>7 DEF TakeThread, Settled
  <2>4. r.out = c.out /\ r.tried = c.tried \cup {t}
    BY <1>5, <1>7
  <2>. HIDE DEF r, t
  <2>. QED BY <1>0, <1>3, <1>4, <1>5, <1>6, <1>7, <2>2, <2>3, <2>4 DEF t
<1>8. CASE ~Settled(s, t)
  <2>1. r.out = c.out \cup {t} /\ r.tried = c.tried
    BY <1>5, <1>8
  <2>2. c.known[t].outcome = IF c.st.phase = "scan" THEN "none" ELSE "retry"
    <3>1. c.st.phase \in {"scan", "retry"}
      BY <1>0 DEF StepRecords, States
    <3>. QED BY <1>0, <1>2, <1>8, <3>1 DEF GoodPage, Settled
  <2>3. \A u \in r.out : \E i \in 1..r.taken : r.page[i] = u
    <3>. SUFFICES ASSUME NEW u \in r.out PROVE \E i \in 1..r.taken : r.page[i] = u
      OBVIOUS
    <3>1. CASE u = t
      <4>1. c.taken + 1 \in 1..r.taken /\ r.page[c.taken + 1] = t
        BY <1>1, <1>5
      <4>. QED BY <3>1, <4>1
    <3>2. CASE u \in c.out
      <4>1. PICK i \in 1..c.taken : c.page[i] = u
        BY <1>0, <3>2 DEF GoodPage
      <4>2. i \in 1..r.taken
        BY <1>1, <1>5
      <4>. QED BY <1>5, <4>1, <4>2
    <3>. HIDE DEF r, t
    <3>. QED BY <2>1, <3>1, <3>2
  <2>4. GoodPage(r) /\ CoverPage(r)
    <3>. HIDE DEF r, t
    <3>. QED BY <1>0, <1>5, <2>1, <2>2, <2>3 DEF GoodPage, CoverPage
  <2>5. GoodStep(r)
    <3>. HIDE DEF r, t
    <3>. QED BY <1>0, <1>2, <1>5, <2>4 DEF GoodStep
  <2>6. UNCHANGED recs
    BY <1>8 DEF TakeThread, Settled
  <2>. HIDE DEF r, t
  <2>. QED BY <1>0, <1>3, <1>4, <1>5, <1>6, <1>8, <2>1, <2>5, <2>6 DEF t
<1>. QED BY <1>7, <1>8

\* A page's end: a state to save, that of the step but for its cursor, or its pause.
LEMMA DoneStep == ASSUME TypeInv, NEW s \in Steps, PageDone(s)
                  PROVE  /\ step[s].at = "work" /\ step[s].out = {}
                         /\ \E st \in States, then \in {"page", "end"} :
                               /\ Saves(s, st, then)
                               /\ st.status = step[s].st.status /\ st.phase = step[s].st.phase
                               /\ \/ st.cursor = step[s].st.cursor
                                  \/ /\ st.cursor = Reached(s) /\ step[s].st.phase = "scan"
                                     /\ step[s].st.status # "blocked" /\ reached(s) > 0
<1>. DEFINE c == step[s]
            st0 == IF c.st.phase = "scan" THEN [c.st EXCEPT !.cursor = Reached(s)] ELSE c.st
            Kept2(st) == st.status = c.st.status /\ st.phase = c.st.phase /\ st.cursor = st0.cursor
<1>0. c \in StepRecords /\ GoodStep(c) /\ PlainPart /\ c.st \in States /\ c.at = "work" /\ c.out = {}
  BY TypeParts DEF StepsPart, PageDone, StepRecords
<1>1. Reached(s) \in 1..Top /\ (reached(s) > 0 \/ Reached(s) = c.st.cursor)
  <2>1. c.page \in Seq(Threads) /\ c.seen \in [Threads -> 1..Top] /\ c.st.cursor \in 1..Top
    BY <1>0 DEF StepRecords, States
  <2>2. reached(s) \in 0..Len(c.page)
    BY <2>1, ReachedIs
  <2>. QED BY <2>1, <2>2 DEF Reached
<1>2. st0 \in States /\ Kept2(st0)
  BY <1>0, <1>1 DEF States
<1>3. /\ st0.cursor = c.st.cursor \/ (st0.cursor = Reached(s) /\ c.st.phase = "scan" /\ reached(s) > 0)
  BY <1>0, <1>1 DEF States
<1>. HIDE DEF st0
<1>4. now + 1 \in Nat
  BY <1>0 DEF PlainPart
<1>5. /\ [st0 EXCEPT !.paused = now + 1] \in States /\ Kept2([st0 EXCEPT !.paused = now + 1])
      /\ [st0 EXCEPT !.paused = 0] \in States /\ Kept2([st0 EXCEPT !.paused = 0])
  BY <1>2, <1>4 DEF States
<1>6. CASE c.st.status = "blocked"
  BY <1>0, <1>6 DEF PageDone
<1>7. CASE c.st.status # "blocked"
  <2>1. \E then \in {"page", "end"} : \/ Saves(s, [st0 EXCEPT !.paused = now + 1], then)
                                      \/ Saves(s, [st0 EXCEPT !.paused = 0], then)
    BY <1>7 DEF PageDone, st0
  <2>. QED BY <1>0, <1>3, <1>5, <1>7, <2>1
<1>. QED BY <1>6, <1>7

LEMMA FinishIs == ASSUME TypeInv, NEW st \in States
                  PROVE  /\ finish(st) \in States /\ finish(st).phase = st.phase /\ finish(st).cursor = st.cursor
                         /\ finish(st).status = IF ToRetry = {} THEN "complete" ELSE "waiting"
<1>0. RecsPart /\ now \in Nat
  BY TypeParts DEF PlainPart
<1>1. CASE ToRetry = {}
  BY <1>1 DEF finish, States
<1>2. CASE ToRetry # {}
  <2>. DEFINE S == {recs[t].due : t \in ToRetry}
              next == Max({now, Min(S)})
  <2>1. S \in SUBSET Nat /\ S # {}
    BY <1>0, <1>2 DEF RecsPart, Records, ToRetry
  <2>2. next \in Nat
    BY <1>0, <2>1, MinIs, MaxOfTwo
  <2>. HIDE DEF next
  <2>3. finish(st) = [st EXCEPT !.status = "waiting", !.next = next]
    BY <1>2 DEF finish, next
  <2>. QED BY <1>2, <2>2, <2>3 DEF States
<1>. QED BY <1>1, <1>2

LEMMA PageTypes == ASSUME TypeInv, NEW s \in Steps, ReadPage(s) \/ TakeThread(s) \/ PageDone(s) PROVE TypeInv'
<1>0. StepsPart /\ PlainPart /\ RecsPart /\ step[s].st \in States
  BY TypeParts DEF StepsPart, StepRecords
<1>1. PlainPart' /\ UNCHANGED <<job, op, place, events>>
  BY <1>0 DEF PlainPart, ReadPage, TakeThread, PageDone, bounds
<1>2. CASE ReadPage(s)
  <2>1. [step[s].st EXCEPT !.phase = "retry", !.cursor = Top] \in States
    <3>1. Top \in 1..Top
      BY Threads1, Constants
    <3>. QED BY <1>0, <3>1 DEF States
  <2>2. finish(step[s].st) \in States /\ step[s].out = {}
    BY <1>0, <1>2, FinishIs, ReadStep
  <2>0. (\E r \in StepRecords : Becomes(s, r) /\ GoodStep(r))
        \/ Saves(s, [step[s].st EXCEPT !.phase = "retry", !.cursor = Top], "page")
        \/ Saves(s, finish(step[s].st), "end")
    BY <1>2, ReadStep
  <2>3. \/ \E r \in StepRecords : Becomes(s, r) /\ GoodStep(r)
        \/ \E st \in States, then \in {"page", "end"} : Saves(s, st, then)
    BY <2>0, <2>1, <2>2, Zenon
  <2>4. StepsPart'
    BY <1>0, <2>2, <2>3, StepTyped, SavesTyped
  <2>. QED BY <1>1, <1>2, <2>4, StepOnly DEF ReadPage
<1>3. CASE TakeThread(s)
  <2>1. StepsPart' /\ RecsPart'
    BY <1>0, <1>3, TakeStep, StepTyped, ForgottenTypes, OthersStay
  <2>. QED BY <1>1, <2>1, OthersStay, TypeParts
<1>4. CASE PageDone(s)
  <2>1. StepsPart'
    BY <1>4, DoneStep, SavesTyped
  <2>. QED BY <1>1, <1>4, <2>1, StepOnly DEF PageDone
<1>. QED BY <1>2, <1>3, <1>4

LEMMA NextTypes == ASSUME TypeInv, [Next]_vars PROVE TypeInv'
<1>1. CASE Tick \/ Overruns \/ (\E t \in Threads : LateMove(t) \/ Touch(t)) \/ UNCHANGED vars
  BY <1>1, WorldTypes
<1>2. CASE Operator \/ DeleteRecords \/ saveState
  BY <1>2, OperatorTypes
<1>3. ASSUME NEW s \in Steps, runCloudSweepStep(s) \/ Goes(s) \/ BudgetEnds(s) \/ Dies(s) PROVE TypeInv'
  BY <1>3, AskTypes, PlainTypes, AnswerTypes, PageTypes DEF Goes
<1>. QED BY <1>1, <1>2, <1>3 DEF Next

\* Every variable keeps its type (CloudSweepState, CloudSweepThreadRecord), whatever fails:
\* a record never counts more attempts than after which a thread is given up, as a step
\* only tries again what it read a record to retry of; the cursor stays in the index.
THEOREM TypeCorrect == Spec => []TypeOK
<1>1. TypeInv => TypeOK
  BY DEF TypeInv
<1>. QED BY <1>1, InitTypes, NextTypes, PTL DEF Spec

-----------------------------------------------------------------------------
(* What the first sweep has behind it *)

Done(t) == home[t] = "runtime" \/ recs[t].outcome # "none"
Final(t) == home[t] = "runtime" \/ recs[t].outcome = "skipped"

\* What a state of the sweep says is behind it, is.
StateOK(st) ==
    /\ \A t \in Threads : Listed(t) /\ (st.phase = "retry" \/ place[t] >= st.cursor) => Done(t)
    /\ st.status = "complete" => st.phase = "retry"

\* What a step at work knows of its page: a listed thread is where it was, and what was
\* tried or recorded is done.
SeenOK(c) ==
    c.at = "work" =>
        \A t \in Threads : /\ Listed(t) => c.seen[t] = place[t]
                           /\ c.known[t].outcome # "none" => Done(t)
                           /\ c.st.status # "blocked" /\ t \in c.tried => Done(t)

\* It is right about the records of the threads it has not settled.
KnownOK(c) ==
    c.at = "work" => /\ \A t \in c.out : recs[t] = c.known[t]
                     /\ \A i \in c.taken + 1 .. Len(c.page) : recs[c.page[i]] = c.known[c.page[i]]

\* Until the first sweep's records are deleted nothing has happened.
FreshPart ==
    /\ sweeps = 0 => op = NoCall
    /\ sweeps = 0 \/ op.at = "delete" => job = Idle /\ \A s \in Steps : step[s] = Off
    /\ op.at = "delete" => op.st.phase = "scan" /\ op.st.cursor = Top

StatesPart == /\ StateOK(job) /\ StateOK(op.st) /\ op.st.status # "complete"
              /\ \A s \in Steps : StateOK(step[s].st)
SeenPart == \A s \in Steps : SeenOK(step[s])
\* Within its lease, at least.
KnownPart == ~late => \A s \in Steps : KnownOK(step[s])

Completes == job.status = "complete" \/ \E s \in Steps : step[s].st.status = "complete"
FinalPart == ~late /\ Completes => \A t \in Threads : Listed(t) => Final(t)

FirstSweep == FreshPart /\ StatesPart /\ SeenPart /\ KnownPart /\ FinalPart
SweepInv == sweeps <= 1 => FirstSweep


-----------------------------------------------------------------------------
(* The same of the state an action leads to *)

NextOK(st) == /\ \A t \in Threads : Listed(t)' /\ (st.phase = "retry" \/ place'[t] >= st.cursor) => Done(t)'
              /\ st.status = "complete" => st.phase = "retry"
NextSeen(c) ==
    c.at = "work" =>
        \A t \in Threads : /\ Listed(t)' => c.seen[t] = place'[t]
                           /\ c.known[t].outcome # "none" => Done(t)'
                           /\ c.st.status # "blocked" /\ t \in c.tried => Done(t)'
NextKnown(c) ==
    c.at = "work" => /\ \A t \in c.out : recs'[t] = c.known[t]
                     /\ \A i \in c.taken + 1 .. Len(c.page) : recs'[c.page[i]] = c.known[c.page[i]]

LEMMA NextStates == ASSUME NextOK(job'), NextOK(op'.st), op'.st.status # "complete",
                           \A s \in Steps : NextOK(step'[s].st)
                    PROVE  StatesPart'
BY DEF StatesPart, StateOK, NextOK, Done, Listed

LEMMA NextSeens == ASSUME \A s \in Steps : NextSeen(step'[s]) PROVE SeenPart'
BY DEF SeenPart, SeenOK, NextSeen, Done, Listed

LEMMA NextKnowns == ASSUME late' \/ \A s \in Steps : NextKnown(step'[s]) PROVE KnownPart'
BY DEF KnownPart, KnownOK, NextKnown

\* What is done stays done, and a thread the sweep began with stays where it is or is
\* updated. Within the leases it stays settled, too.
Lasts == \A t \in Threads : /\ Listed(t)' => Listed(t) /\ place'[t] = place[t]
                            /\ Done(t) => Done(t)'
FinalLasts == ~late => \A t \in Threads : Listed(t) /\ Final(t) => Final(t)'

LEMMA StateLasts == ASSUME Lasts, NEW st, StateOK(st), NEW st2, st2.phase = st.phase, st2.cursor = st.cursor,
                           st2.status = "complete" => st.status = "complete"
                    PROVE  NextOK(st2)
BY DEF Lasts, StateOK, NextOK

LEMMA SeenLasts == ASSUME Lasts, NEW c, SeenOK(c) PROVE NextSeen(c)
BY DEF Lasts, SeenOK, NextSeen

LEMMA IdleOK == ASSUME StateOK(Idle), Lasts PROVE NextOK(Idle)
BY StateLasts

\* No thread the sweep began with is above its first cursor.
LEMMA IdleState == ASSUME TypeInv, NEW st, st.phase = "scan", st.cursor = Top, st.status # "complete" PROVE StateOK(st)
<1>1. \A t \in Threads : Listed(t) => ~(place[t] >= Top)
  <2>1. \A t \in Threads : place[t] \in Nat
    BY TypeParts, Threads1 DEF IndexPart
  <2>2. Top \in Nat /\ Cardinality(Threads) \in Nat /\ Top > Cardinality(Threads)
    BY Threads1, Constants
  <2>. QED BY <2>1, <2>2 DEF Listed
<1>2. \A t \in Threads : Listed(t) => ~(place[t] >= st.cursor)
  BY <1>1, Zenon
<1>. QED BY <1>2 DEF StateOK

\* Nothing done, nothing updated: what an action leaves where it is lasts.
LEMMA AllLasts == ASSUME TypeInv, UNCHANGED <<home, recs, place>> PROVE Lasts /\ FinalLasts
BY DEF Lasts, FinalLasts, Done, Final, Listed

-----------------------------------------------------------------------------
(* One step of the sweep goes on *)

\* The first sweep has begun and its records are deleted.
Begun == ~(sweeps = 0 \/ op.at = "delete")

LEMMA BegunIs == ASSUME FreshPart, NEW s \in Steps, step[s].at # "off" PROVE Begun
BY DEF FreshPart, Begun, Off

\* s becomes r, and the job stays or is what s has saved.
LEMMA StepGoes ==
    ASSUME TypeInv, TypeInv', LeaseInv, FirstSweep, NEW s \in Steps, NEW r, Becomes(s, r),
           Begun, UNCHANGED <<sweeps, op>>, late' = late, Lasts, FinalLasts,
           UNCHANGED recs \/ Working(s),
           job' = job \/ job' = step[s].st,
           NextOK(r.st), NextSeen(r), ~late => NextKnown(r),
           r.st.status = "complete" => \/ step[s].st.status = "complete"
                                       \/ ~late => \A t \in Threads : Listed(t)' => Final(t)'
    PROVE  FirstSweep'
<1>0. step \in [Steps -> StepRecords]
  BY TypeParts DEF StepsPart
<1>1. \A u \in Steps : step'[u] = IF u = s THEN r ELSE step[u]
  BY <1>0 DEF Becomes
<1>2. FreshPart'
  BY DEF FirstSweep, FreshPart, Begun
<1>3. StatesPart'
  <2>1. NextOK(op'.st) /\ op'.st.status # "complete"
    BY StateLasts DEF FirstSweep, StatesPart
  <2>2. \A u \in Steps : NextOK(step[u].st)
    BY StateLasts DEF FirstSweep, StatesPart
  <2>3. NextOK(job)
    BY StateLasts DEF FirstSweep, StatesPart
  <2>4. NextOK(job')
    BY <2>2, <2>3
  <2>5. \A u \in Steps : NextOK(step'[u].st)
    BY <1>1, <2>2
  <2>. QED BY <2>1, <2>4, <2>5, NextStates
<1>4. SeenPart'
  <2>1. \A u \in Steps : NextSeen(step[u])
    BY SeenLasts DEF FirstSweep, SeenPart
  <2>. QED BY <1>1, <2>1, NextSeens
<1>5. KnownPart'
  <2>. SUFFICES ASSUME ~late, NEW u \in Steps PROVE NextKnown(step'[u])
    BY NextKnowns
  <2>1. CASE u = s
    BY <1>1, <2>1
  <2>2. CASE u # s /\ UNCHANGED recs
    BY <1>1, <2>2 DEF FirstSweep, KnownPart, KnownOK, NextKnown
  <2>3. CASE u # s /\ Working(s)
    <3>1. ~Working(u)
      BY <2>3 DEF LeaseInv, OneStepAtATime
    <3>. QED BY <1>1, <2>3, <3>1 DEF NextKnown, Working
  <2>. QED BY <2>1, <2>2, <2>3
<1>6. FinalPart'
  <2>. SUFFICES ASSUME ~late, Completes' PROVE \A t \in Threads : Listed(t)' => Final(t)'
    BY DEF FinalPart
  <2>1. CASE Completes
    BY <2>1 DEF FirstSweep, FinalPart, Lasts, FinalLasts
  <2>2. CASE ~Completes
    <3>1. r.st.status = "complete"
      BY <1>1, <2>2 DEF Completes
    <3>. QED BY <2>2, <3>1 DEF Completes
  <2>. QED BY <2>1, <2>2
<1>. QED BY <1>2, <1>3, <1>4, <1>5, <1>6 DEF FirstSweep


\* A step whose page is over or not read yet, and one that stops.
LEMMA StepBetween ==
    ASSUME TypeInv, TypeInv', LeaseInv, FirstSweep, NEW s \in Steps, NEW r, Becomes(s, r),
           Begun, UNCHANGED <<sweeps, op, late, recs, home, place>>, job' = job \/ job' = step[s].st,
           r.at # "work",
           r.st = Idle \/ (r.st.phase = step[s].st.phase /\ r.st.cursor = step[s].st.cursor),
           r.st.status = "complete" => step[s].st.status = "complete"
    PROVE  FirstSweep'
<1>1. Lasts /\ FinalLasts
  BY AllLasts
<1>2. StateOK(Idle) /\ StateOK(step[s].st)
  BY IdleState DEF Idle, FirstSweep, StatesPart
<1>3. NextOK(r.st)
  BY <1>1, <1>2, StateLasts
<1>4. NextSeen(r) /\ NextKnown(r)
  BY DEF NextSeen, NextKnown
<1>. QED BY <1>1, <1>3, <1>4, StepGoes

\* What a save keeps is what the step goes on from.
LEMMA SavesIs == ASSUME TypeInv, NEW s \in Steps, NEW st, NEW then, Saves(s, st, then)
                 PROVE  \E r : Becomes(s, r) /\ r.at = "save" /\ r.st = st
<1>. DEFINE r == [step[s] EXCEPT !.at = "save", !.st = st, !.then = then]
<1>1. step[s] \in StepRecords
  BY TypeParts DEF StepsPart
<1>2. r.at = "save" /\ r.st = st
  BY <1>1 DEF StepRecords
<1>3. Becomes(s, r)
  BY <1>1 DEF Saves, Becomes, StepRecords
<1>. QED BY <1>2, <1>3

LEMMA AskSweep == ASSUME TypeInv, TypeInv', LeaseInv, FirstSweep, NEW s \in Steps,
                         \/ runCloudSweepStep(s) \/ acquireStepLease(s) \/ releaseStepLease(s) \/ Dies(s)
                  PROVE  FirstSweep'
<1>0. step[s] \in StepRecords /\ job \in States /\ step[s].st \in States
  BY TypeParts DEF StepsPart, JobPart, StepRecords
<1>1. UNCHANGED <<sweeps, op, late, recs, home, place, job>>
  BY DEF runCloudSweepStep, acquireStepLease, releaseStepLease, Dies, bounds, Fault
<1>2. Off.at = "off" /\ Off.st = Idle /\ Idle.status # "complete" /\ Idle.phase = "scan" /\ Idle.cursor = Top
  BY DEF Off, Idle
<1>3. CASE runCloudSweepStep(s)
  <2>. DEFINE r == [Off EXCEPT !.at = "read", !.st = Current]
  <2>1. Current.status = "running" /\ Current.phase = job.phase /\ Current.cursor = job.cursor
    BY <1>0, <1>3 DEF runCloudSweepStep, Current, States
  <2>2. r.at = "read" /\ r.st = Current /\ Becomes(s, r)
    BY <1>3 DEF runCloudSweepStep, Becomes, Off
  <2>3. Begun
    BY <2>1 DEF Begun, FirstSweep, FreshPart, Current, Idle
  <2>. HIDE DEF r
  <2>4. Lasts /\ FinalLasts
    BY <1>1, AllLasts
  <2>5. NextOK(r.st)
    BY <2>1, <2>2, <2>4, StateLasts DEF FirstSweep, StatesPart
  <2>6. NextSeen(r) /\ NextKnown(r)
    BY <2>2 DEF NextSeen, NextKnown
  <2>. QED BY <1>1, <2>1, <2>2, <2>3, <2>4, <2>5, <2>6, StepGoes
<1>4. CASE acquireStepLease(s)
  <2>. DEFINE r == [step[s] EXCEPT !.at = "probe"]
  <2>1. r.at = "probe" /\ r.st = step[s].st
    BY <1>0 DEF StepRecords
  <2>2. Becomes(s, r) \/ Becomes(s, Off)
    BY <1>4 DEF acquireStepLease, Becomes
  <2>3. Begun
    BY <1>4, BegunIs DEF acquireStepLease, FirstSweep
  <2>. HIDE DEF r
  <2>4. CASE Becomes(s, r)
    BY <1>1, <2>1, <2>3, <2>4, StepBetween
  <2>5. CASE Becomes(s, Off)
    BY <1>1, <1>2, <2>3, <2>5, StepBetween
  <2>. QED BY <2>2, <2>4, <2>5
<1>5. CASE releaseStepLease(s) \/ Dies(s)
  <2>1. Becomes(s, Off) /\ step[s].at # "off"
    BY <1>5 DEF releaseStepLease, Dies, Becomes
  <2>2. Begun
    BY <2>1, BegunIs DEF FirstSweep
  <2>. QED BY <1>1, <1>2, <2>1, <2>2, StepBetween
<1>. QED BY <1>3, <1>4, <1>5

LEMMA PlainSweep == ASSUME TypeInv, TypeInv', LeaseInv, FirstSweep, NEW s \in Steps,
                           probe(s) \/ BudgetEnds(s) \/ SaveReads(s) \/ SaveWrites(s)
                    PROVE  FirstSweep'
<1>0. step[s] \in StepRecords /\ step[s].st \in States
  BY TypeParts DEF StepsPart, StepRecords
<1>1. UNCHANGED <<sweeps, op, late, recs, home, place>> /\ job' \in {job, step[s].st}
  BY DEF probe, BudgetEnds, SaveReads, SaveWrites, bounds, Fault
<1>2. Begun
  BY BegunIs DEF FirstSweep, probe, BudgetEnds, SaveReads, SaveWrites
<1>3. CASE probe(s)
  <2>1. CASE Saves(s, [step[s].st EXCEPT !.paused = now + 1], "end")
    <3>1. PICK r : Becomes(s, r) /\ r.at = "save" /\ r.st = [step[s].st EXCEPT !.paused = now + 1]
      BY <2>1, SavesIs
    <3>2. r.st.phase = step[s].st.phase /\ r.st.cursor = step[s].st.cursor /\ r.st.status = step[s].st.status
      BY <1>0, <3>1 DEF States
    <3>. QED BY <1>1, <1>2, <3>1, <3>2, StepBetween
  <2>2. CASE step' = [step EXCEPT ![s].at = "page"]
    <3>. DEFINE r == [step[s] EXCEPT !.at = "page"]
    <3>1. Becomes(s, r) /\ r.at = "page" /\ r.st = step[s].st
      BY <1>0, <2>2 DEF Becomes, StepRecords
    <3>. HIDE DEF r
    <3>. QED BY <1>1, <1>2, <3>1, StepBetween
  <2>. QED BY <1>3, <2>1, <2>2 DEF probe
<1>4. CASE BudgetEnds(s)
  <2>. DEFINE r == [step[s] EXCEPT !.over = TRUE]
  <2>1. r.at = step[s].at /\ r.page = step[s].page /\ r.out = step[s].out /\ r.seen = step[s].seen
        /\ r.known = step[s].known /\ r.taken = step[s].taken /\ r.st = step[s].st /\ r.tried = step[s].tried
    BY <1>0 DEF StepRecords
  <2>2. Becomes(s, r)
    BY <1>4 DEF Becomes, BudgetEnds
  <2>. HIDE DEF r
  <2>3. Lasts /\ FinalLasts
    BY <1>1, AllLasts
  <2>4. NextOK(r.st)
    BY <2>1, <2>3, StateLasts DEF FirstSweep, StatesPart
  <2>5. NextSeen(r)
    <3>1. NextSeen(step[s])
      BY <2>3, SeenLasts DEF FirstSweep, SeenPart
    <3>. QED BY <2>1, <3>1 DEF NextSeen
  <2>6. ~late => NextKnown(r)
    BY <1>1, <2>1 DEF FirstSweep, KnownPart, KnownOK, NextKnown
  <2>. QED BY <1>1, <1>2, <2>1, <2>2, <2>3, <2>4, <2>5, <2>6, StepGoes
<1>5. CASE SaveReads(s)
  <2>1. ASSUME NEW r \in {[step[s] EXCEPT !.at = "page", !.over = TRUE], [step[s] EXCEPT !.at = "write"]}
        PROVE  r.at # "work" /\ r.st = step[s].st
    BY <1>0 DEF StepRecords
  <2>. DEFINE r3 == [step[s] EXCEPT !.at = "write", !.st.status = "paused", !.then = "end"]
  <2>2. r3.at # "work" /\ r3.st.phase = step[s].st.phase /\ r3.st.cursor = step[s].st.cursor /\ r3.st.status = "paused"
    BY <1>0 DEF StepRecords, States
  <2>3. \/ \E r \in {[step[s] EXCEPT !.at = "page", !.over = TRUE], [step[s] EXCEPT !.at = "write"]} : Becomes(s, r)
        \/ Becomes(s, r3)
    BY <1>5 DEF SaveReads, Becomes
  <2>4. \E r : /\ Becomes(s, r) /\ r.at # "work" /\ r.st.phase = step[s].st.phase /\ r.st.cursor = step[s].st.cursor
               /\ r.st.status = "complete" => step[s].st.status = "complete"
    <3>. HIDE DEF r3
    <3>. QED BY <2>1, <2>2, <2>3
  <2>. QED BY <1>1, <1>2, <2>4, StepBetween
<1>6. CASE SaveWrites(s)
  <2>. DEFINE r == [step[s] EXCEPT !.at = "page", !.over = step[s].over \/ step[s].then = "end"]
  <2>1. r.at = "page" /\ r.st = step[s].st
    BY <1>0 DEF StepRecords
  <2>2. Becomes(s, r)
    BY <1>6 DEF SaveWrites, Becomes
  <2>. HIDE DEF r
  <2>. QED BY <1>1, <1>2, <2>1, <2>2, StepBetween
<1>. QED BY <1>3, <1>4, <1>5, <1>6


-----------------------------------------------------------------------------
(* Its pages *)

LEMMA ReadSweep == ASSUME TypeInv, TypeInv', LeaseInv, FirstSweep, NEW s \in Steps, ReadPage(s) PROVE FirstSweep'
<1>0. step[s] \in StepRecords /\ step[s].st \in States /\ RecsPart /\ IndexPart
  BY TypeParts DEF StepsPart, StepRecords
<1>1. UNCHANGED <<sweeps, op, late, recs, home, place, job>> /\ step[s].at = "page"
  BY DEF ReadPage, bounds
<1>2. Begun /\ Working(s) /\ Lasts /\ FinalLasts
  BY <1>1, BegunIs, AllLasts DEF FirstSweep, Working
<1>3. StateOK(step[s].st)
  BY DEF FirstSweep, StatesPart
<1>4. ASSUME NEW page \in pageOf(step[s].st), NEW r \in StepRecords, Becomes(s, r),
             r.at = "work", r.page = page, r.seen = place, r.known = recs, r.taken = 0,
             r.tried = {}, r.out = {}, r.st = step[s].st
      PROVE  FirstSweep'
  <2>1. NextOK(r.st)
    BY <1>2, <1>3, <1>4, StateLasts
  <2>2. NextSeen(r)
    BY <1>1, <1>2, <1>4 DEF NextSeen, Done, Listed
  <2>3. NextKnown(r)
    BY <1>1, <1>4 DEF NextKnown
  <2>. QED BY <1>1, <1>2, <1>4, <2>1, <2>2, <2>3, StepGoes
<1>5. ASSUME step[s].st.phase = "scan", <<>> \in pageOf(step[s].st),
             Saves(s, [step[s].st EXCEPT !.phase = "retry", !.cursor = Top], "page")
      PROVE  FirstSweep'
  <2>1. \A t \in Threads : place[t] >= step[s].st.cursor
    BY <1>0, <1>5, PageOf
  <2>2. PICK r : Becomes(s, r) /\ r.at = "save" /\ r.st = [step[s].st EXCEPT !.phase = "retry", !.cursor = Top]
    BY <1>5, SavesIs
  <2>3. r.st.phase = "retry" /\ r.st.status = step[s].st.status
    BY <1>0, <2>2 DEF States
  <2>4. NextOK(r.st)
    BY <1>2, <1>3, <2>1, <2>3 DEF NextOK, StateOK, Lasts
  <2>5. NextSeen(r) /\ NextKnown(r)
    BY <2>2 DEF NextSeen, NextKnown
  <2>. QED BY <1>1, <1>2, <2>2, <2>3, <2>4, <2>5, StepGoes
<1>6. ASSUME step[s].st.phase = "retry", Saves(s, finish(step[s].st), "end") PROVE FirstSweep'
  <2>1. PICK r : Becomes(s, r) /\ r.at = "save" /\ r.st = finish(step[s].st)
    BY <1>6, SavesIs
  <2>2. /\ r.st.phase = "retry" /\ r.st.cursor = step[s].st.cursor
        /\ r.st.status = IF ToRetry = {} THEN "complete" ELSE "waiting"
    BY <1>0, <1>6, <2>1, FinishIs
  <2>3. NextOK(r.st)
    BY <1>2, <1>3, <1>6, <2>2 DEF NextOK, StateOK, Lasts
  <2>4. NextSeen(r) /\ NextKnown(r)
    BY <2>1 DEF NextSeen, NextKnown
  \* Nothing is left to retry: what is done is settled.
  <2>5. ASSUME r.st.status = "complete", NEW t \in Threads, Listed(t)' PROVE Final(t)'
    <3>1. ToRetry = {} /\ Done(t)
      BY <1>2, <1>3, <1>6, <2>2, <2>5 DEF StateOK, Lasts
    <3>2. recs[t].outcome \in {"none", "retry", "skipped"}
      BY <1>0 DEF RecsPart, Records
    <3>. QED BY <1>1, <3>1, <3>2 DEF Done, Final, ToRetry
  <2>. QED BY <1>1, <1>2, <2>1, <2>3, <2>4, <2>5, StepGoes
<1>. QED BY <1>4, <1>5, <1>6, ReadStep

LEMMA DoneSweep == ASSUME TypeInv, TypeInv', LeaseInv, FirstSweep, NEW s \in Steps, PageDone(s) PROVE FirstSweep'
<1>0. step[s] \in StepRecords /\ step[s].st \in States /\ GoodStep(step[s]) /\ IndexPart
  BY TypeParts DEF StepsPart, StepRecords
<1>1. UNCHANGED <<sweeps, op, late, recs, home, place, job>> /\ step[s].at = "work"
  BY DEF PageDone, bounds
<1>2. Begun /\ Lasts /\ FinalLasts
  BY <1>1, BegunIs, AllLasts DEF FirstSweep
<1>3. StateOK(step[s].st) /\ SeenOK(step[s])
  BY DEF FirstSweep, StatesPart, SeenPart
<1>4. PICK st \in States, then \in {"page", "end"} :
         /\ Saves(s, st, then)
         /\ st.status = step[s].st.status /\ st.phase = step[s].st.phase
         /\ \/ st.cursor = step[s].st.cursor
            \/ /\ st.cursor = Reached(s) /\ step[s].st.phase = "scan"
               /\ step[s].st.status # "blocked" /\ reached(s) > 0
  BY DoneStep
<1>5. PICK r : Becomes(s, r) /\ r.at = "save" /\ r.st = st
  BY <1>4, SavesIs
<1>6. NextSeen(r) /\ NextKnown(r)
  BY <1>5 DEF NextSeen, NextKnown
<1>7. NextOK(st)
  <2>1. CASE st.cursor = step[s].st.cursor
    BY <1>2, <1>3, <1>4, <2>1, StateLasts
  <2>2. CASE /\ st.cursor = Reached(s) /\ step[s].st.phase = "scan"
             /\ step[s].st.status # "blocked" /\ reached(s) > 0
    <3>. DEFINE n == reached(s)
                last == step[s].page[n]
    <3>1. step[s].page \in Seq(Threads) /\ step[s].seen \in [Threads -> 1..Top] /\ step[s].st.cursor \in 1..Top
      BY <1>0 DEF StepRecords, States
    <3>2. n \in 1..Len(step[s].page) /\ \A j \in 1..n : step[s].page[j] \in step[s].tried
      <4>1. n \in 0..Len(step[s].page) /\ \A j \in 1..n : step[s].page[j] \in step[s].tried
        BY <3>1, ReachedIs
      <4>2. n > 0 /\ Len(step[s].page) \in Nat
        BY <2>2, <3>1
      <4>. HIDE DEF n
      <4>3. n \in 1..Len(step[s].page)
        BY <4>1, <4>2
      <4>. QED BY <4>1, <4>3
    <3>3. last \in Threads /\ st.cursor = step[s].seen[last]
      BY <2>2, <3>1, <3>2 DEF Reached
    <3>. SUFFICES ASSUME NEW t \in Threads, Listed(t), place[t] >= st.cursor PROVE Done(t)
      BY <1>2, <1>3, <1>4, <2>2 DEF NextOK, StateOK, Lasts
    <3>4. step[s].seen[t] = place[t] /\ place[t] \in 1..Top
      BY <1>0, <1>1, <1>3 DEF SeenOK, IndexPart
    <3>5. CASE place[t] >= step[s].st.cursor
      BY <1>3, <3>5 DEF StateOK
    <3>6. CASE ~(place[t] >= step[s].st.cursor)
      <4>0. place[t] \in Nat /\ step[s].st.cursor \in Nat
        BY <3>1, <3>4, Threads1
      <4>3. place[t] >= step[s].seen[last]
        BY <3>3
      <4>1. step[s].seen[t] < step[s].st.cursor /\ step[s].seen[t] >= step[s].seen[last]
        BY <3>4, <3>6, <4>0, <4>3
      <4>2. PICK j \in 1..n : step[s].page[j] = t
        BY <1>0, <1>1, <2>2, <3>2, <4>1 DEF GoodStep, CoverPage
      <4>. QED BY <1>1, <1>3, <2>2, <3>2, <4>2 DEF SeenOK
    <3>. QED BY <3>5, <3>6
  <2>. QED BY <1>4, <2>1, <2>2
<1>. QED BY <1>1, <1>2, <1>4, <1>5, <1>6, <1>7, StepGoes


\* The records an action changes are of threads that are done by then, or of one whose
\* record the step has read right.
LEMMA TakeSweep == ASSUME TypeInv, TypeInv', LeaseInv, FirstSweep, NEW s \in Steps, TakeThread(s) PROVE FirstSweep'
<1>0. step[s] \in StepRecords /\ step[s].st \in States /\ RecsPart /\ IndexPart
  BY TypeParts DEF StepsPart, StepRecords
<1>1. UNCHANGED <<sweeps, op, late, home, place, job>> /\ step[s].at = "work"
  BY DEF TakeThread, bounds
<1>2. Begun /\ Working(s)
  BY <1>1, BegunIs DEF FirstSweep, Working
<1>3. StateOK(step[s].st) /\ SeenOK(step[s]) /\ (~late => KnownOK(step[s]))
  BY DEF FirstSweep, StatesPart, SeenPart, KnownPart
<1>4. PICK t \in Threads, r \in StepRecords :
         /\ Becomes(s, r) /\ GoodStep(r) /\ GoodPage(step[s])
         /\ step[s].at = "work" /\ step[s].taken < Len(step[s].page)
         /\ t = step[s].page[step[s].taken + 1] /\ r.taken = step[s].taken + 1
         /\ r.at = "work" /\ r.page = step[s].page /\ r.seen = step[s].seen
         /\ r.known = step[s].known /\ r.st = step[s].st
         /\ \/ /\ Settled(s, t) /\ r.out = step[s].out /\ r.tried = step[s].tried \cup {t}
               /\ UNCHANGED recs \/ (step[s].st.phase = "retry" /\ Forgotten(s, t))
            \/ /\ ~Settled(s, t) /\ r.out = step[s].out \cup {t} /\ r.tried = step[s].tried
               /\ UNCHANGED recs
  BY TakeStep
<1>5. step[s].page \in Seq(Threads) /\ step[s].taken \in Nat /\ step[s].taken + 1 \in 1..Len(step[s].page)
  <2>1. step[s].page \in Seq(Threads) /\ step[s].taken \in Nat
    BY <1>0, Constants DEF StepRecords
  <2>. QED BY <1>4, <2>1
\* What is forgotten is on the runtime.
<1>6. /\ \A u \in Threads \ {t} : recs'[u] = recs[u]
      /\ UNCHANGED recs \/ home[t] = "runtime"
  <2>1. CASE UNCHANGED recs
    BY <2>1
  <2>2. CASE ~UNCHANGED recs
    <3>1. step[s].st.phase = "retry" /\ Forgotten(s, t) /\ Settled(s, t)
      BY <1>4, <2>2
    <3>2. home[t] = "runtime"
      BY <3>1 DEF Settled
    <3>. QED BY <1>0, <3>1, <3>2, ForgottenTypes
  <2>. QED BY <2>1, <2>2
<1>7. Lasts /\ FinalLasts
  BY <1>1, <1>6 DEF Lasts, FinalLasts, Done, Final, Listed
<1>8. Settled(s, t) => Done(t)
  BY <1>1, <1>3 DEF Settled, SeenOK, Done
<1>9. NextOK(r.st)
  BY <1>3, <1>4, <1>7, StateLasts
<1>10. NextSeen(r)
  <2>1. NextSeen(step[s])
    BY <1>3, <1>7, SeenLasts
  <2>2. \A u \in r.tried : u \in step[s].tried \/ (u = t /\ Done(t)')
    BY <1>4, <1>7, <1>8 DEF Lasts
  <2>. QED BY <1>4, <2>1, <2>2 DEF NextSeen
<1>11. ~late => NextKnown(r)
  <2>. SUFFICES ASSUME ~late PROVE NextKnown(r)
    OBVIOUS
  <2>1. /\ \A u \in step[s].out : recs[u] = step[s].known[u]
        /\ \A i \in step[s].taken + 1 .. Len(step[s].page) : recs[step[s].page[i]] = step[s].known[step[s].page[i]]
    BY <1>1, <1>3 DEF KnownOK
  <2>2. \A i \in step[s].taken + 2 .. Len(step[s].page) : step[s].page[i] \in Threads \ {t}
    BY <1>4, <1>5 DEF GoodPage
  <2>3. \A i \in r.taken + 1 .. Len(r.page) : recs'[r.page[i]] = r.known[r.page[i]]
    <3>1. \A i \in r.taken + 1 .. Len(r.page) :
             i \in step[s].taken + 1 .. Len(step[s].page) /\ i \in step[s].taken + 2 .. Len(step[s].page)
      BY <1>4, <1>5
    <3>. QED BY <1>4, <1>6, <2>1, <2>2, <3>1
  <2>4. \A u \in step[s].out : u \in Threads \ {t}
    <3>. SUFFICES ASSUME NEW u \in step[s].out PROVE u \in Threads /\ u # t
      OBVIOUS
    <3>1. PICK i \in 1..step[s].taken : step[s].page[i] = u
      BY <1>4 DEF GoodPage
    <3>2. i \in 1..Len(step[s].page) /\ i # step[s].taken + 1
      BY <1>5
    <3>. QED BY <1>4, <1>5, <3>1, <3>2 DEF GoodPage
  <2>5. \A u \in r.out : recs'[u] = r.known[u]
    <3>1. CASE r.out = step[s].out
      BY <1>4, <1>6, <2>1, <2>4, <3>1
    <3>2. CASE r.out = step[s].out \cup {t} /\ UNCHANGED recs
      <4>1. recs[t] = step[s].known[t]
        BY <1>4, <1>5, <2>1
      <4>. QED BY <1>4, <2>1, <3>2, <4>1
    <3>. QED BY <1>4, <3>1, <3>2
  <2>. QED BY <2>3, <2>5 DEF NextKnown
<1>. QED BY <1>1, <1>2, <1>4, <1>7, <1>9, <1>10, <1>11, StepGoes

\* An answer settles its thread, of which the step read right that it was not.
LEMMA AnswerSweep == ASSUME TypeInv, TypeInv', LeaseInv, FirstSweep, NEW s \in Steps, NEW t \in Threads, Answers(s, t)
                     PROVE  FirstSweep'
<1>0. step[s] \in StepRecords /\ step[s].st \in States /\ GoodStep(step[s]) /\ RecsPart /\ IndexPart
  BY TypeParts DEF StepsPart, StepRecords
<1>1. UNCHANGED <<sweeps, op, late, place, job>>
  BY DEF Answers, Migrated, Skipped, NotMoved, Blocked, NoStart, Fault, bounds
<1>2. t \in step[s].out /\ step[s].at = "work" /\ Working(s) /\ Begun
  <2>1. t \in step[s].out
    BY AnswerStep
  <2>2. step[s].at = "work"
    BY <2>1, OutIs
  <2>. QED BY <2>1, <2>2, BegunIs DEF FirstSweep, Working
<1>3. PICK r : /\ AnsweredStep(s, t, r)
               /\ \/ r.tried = step[s].tried \/ r.st.status = "blocked"
                  \/ Migrated(s, t) \/ Skipped(s, t) \/ NotMoved(s, t)
  BY AnswerStep
<1>4. StateOK(step[s].st) /\ SeenOK(step[s]) /\ (~late => KnownOK(step[s]))
  BY DEF FirstSweep, StatesPart, SeenPart, KnownPart
<1>5. /\ \A u \in Threads \ {t} : recs'[u] = recs[u] /\ home'[u] = home[u]
      /\ home'[t] = home[t] \/ home'[t] = "runtime"
      /\ UNCHANGED recs \/ home'[t] = "runtime" \/ recs'[t].outcome # "none"
      /\ Migrated(s, t) \/ Skipped(s, t) \/ NotMoved(s, t) => Done(t)'
  <2>0. home \in [Threads -> {"chat", "runtime"}]
    BY TypeParts DEF PlainPart
  <2>1. CASE Migrated(s, t)
    <3>1. home' = [home EXCEPT ![t] = "runtime"] /\ Forgotten(s, t)
      BY <2>1 DEF Migrated
    <3>2. home'[t] = "runtime" /\ \A u \in Threads \ {t} : home'[u] = home[u]
      BY <2>0, <3>1
    <3>. QED BY <1>0, <3>1, <3>2, ForgottenTypes DEF Done
  <2>2. CASE Skipped(s, t) \/ NotMoved(s, t)
    <3>1. UNCHANGED home /\ \E kind \in {"retry", "skipped"} : settle(s, t, kind)
      BY <2>2 DEF Skipped, NotMoved
    <3>2. recs'[t].outcome \in {"retry", "skipped"} /\ \A u \in Threads \ {t} : recs'[u] = recs[u]
      BY <1>2, <3>1, SettleTypes
    <3>. QED BY <3>1, <3>2 DEF Done
  <2>3. CASE Blocked(s, t) \/ NoStart(s, t)
    <3>1. UNCHANGED <<home, recs>>
      BY <2>3 DEF Blocked, NoStart
    <3>2. CASE Migrated(s, t) \/ Skipped(s, t) \/ NotMoved(s, t)
      BY <2>1, <2>2, <3>2
    <3>. QED BY <3>1, <3>2
  <2>. QED BY <2>1, <2>2, <2>3 DEF Answers
<1>6. Lasts
  BY <1>1, <1>5 DEF Lasts, Done, Listed
<1>7. FinalLasts
  <2>. SUFFICES ASSUME ~late, NEW u \in Threads, Final(u) PROVE Final(u)'
    BY DEF FinalLasts
  <2>1. CASE u # t
    BY <1>5, <2>1 DEF Final
  <2>2. CASE u = t
    <3>1. recs[t] = step[s].known[t]
      BY <1>2, <1>4 DEF KnownOK
    <3>2. recs[t].outcome # "skipped"
      BY <1>2, <3>1, OutIs
    <3>. QED BY <1>5, <2>2, <3>2 DEF Final
  <2>. QED BY <2>1, <2>2
<1>8. r.st.phase = step[s].st.phase /\ r.st.cursor = step[s].st.cursor
      /\ r.st.status \in {step[s].st.status, "blocked"}
  BY <1>0, <1>3 DEF AnsweredStep, States
<1>9. NextOK(r.st)
  BY <1>4, <1>6, <1>8, StateLasts
<1>10. NextSeen(r)
  <2>1. NextSeen(step[s])
    BY <1>4, <1>6, SeenLasts
  <2>2. r.st.status # "blocked" => \A u \in r.tried : u \in step[s].tried \/ Done(u)'
    BY <1>3, <1>5 DEF AnsweredStep
  <2>. QED BY <1>2, <1>3, <1>8, <2>1, <2>2 DEF NextSeen, AnsweredStep
<1>11. ~late => NextKnown(r)
  <2>. SUFFICES ASSUME ~late PROVE NextKnown(r)
    OBVIOUS
  <2>1. GoodPage(step[s]) /\ KnownOK(step[s])
    BY <1>0, <1>2, <1>4 DEF GoodStep
  <2>2. step[s].page \in Seq(Threads) /\ step[s].taken \in Nat /\ step[s].taken <= Len(step[s].page)
        /\ step[s].out \subseteq Threads
    BY <1>0, Constants DEF StepRecords, GoodStep
  <2>3. \A i \in step[s].taken + 1 .. Len(step[s].page) : step[s].page[i] \in Threads \ {t}
    <3>1. PICK j \in 1..step[s].taken : step[s].page[j] = t
      BY <1>2, <2>1 DEF GoodPage
    <3>. SUFFICES ASSUME NEW i \in step[s].taken + 1 .. Len(step[s].page) PROVE step[s].page[i] \in Threads /\ step[s].page[i] # t
      OBVIOUS
    <3>2. i \in 1..Len(step[s].page) /\ j \in 1..Len(step[s].page) /\ i # j
      BY <2>2
    <3>. QED BY <2>1, <2>2, <3>1, <3>2 DEF GoodPage
  <2>. QED BY <1>2, <1>3, <1>5, <2>1, <2>2, <2>3 DEF NextKnown, KnownOK, AnsweredStep
<1>. QED BY <1>1, <1>2, <1>3, <1>6, <1>7, <1>8, <1>9, <1>10, <1>11, StepGoes DEF AnsweredStep


-----------------------------------------------------------------------------
(* Operators, time and the threads themselves *)

\* The steps stay where they are.
LEMMA StepsStay ==
    ASSUME TypeInv, FirstSweep, UNCHANGED <<step, recs>>, Lasts, FinalLasts, late' = late \/ late',
           FreshPart', NextOK(job'), NextOK(op'.st), op'.st.status # "complete",
           job'.status = "complete" => job.status = "complete"
    PROVE  FirstSweep'
<1>1. StatesPart'
  <2>1. \A s \in Steps : NextOK(step[s].st)
    BY StateLasts DEF FirstSweep, StatesPart
  <2>. QED BY <2>1, NextStates
<1>2. SeenPart'
  <2>1. \A s \in Steps : NextSeen(step[s])
    BY SeenLasts DEF FirstSweep, SeenPart
  <2>. QED BY <2>1, NextSeens
<1>3. KnownPart'
  BY DEF FirstSweep, KnownPart, KnownOK
<1>4. FinalPart'
  BY DEF FirstSweep, FinalPart, Completes, Lasts, FinalLasts
<1>. QED BY <1>1, <1>2, <1>3, <1>4 DEF FirstSweep

LEMMA WorldSweep == ASSUME TypeInv, FirstSweep,
                           Tick \/ Overruns \/ (\E t \in Threads : LateMove(t) \/ Touch(t)) \/ UNCHANGED vars
                    PROVE  FirstSweep'
<1>0. IndexPart /\ PlainPart
  BY TypeParts
<1>1. UNCHANGED <<job, recs, step, op, sweeps>> /\ (late' = late \/ late')
  BY DEF Tick, Overruns, LateMove, Touch, vars, bounds, Event
<1>2. FreshPart'
  BY <1>1 DEF FirstSweep, FreshPart
<1>3. \A t \in Threads : /\ home[t] = "runtime" => home'[t] = "runtime"
                         /\ Listed(t)' => Listed(t) /\ place'[t] = place[t]
  <2>1. CASE UNCHANGED <<home, place>>
    BY <2>1 DEF Listed
  <2>2. ASSUME NEW u \in Threads, LateMove(u)
        PROVE  UNCHANGED place /\ \A t \in Threads : home[t] = "runtime" => home'[t] = "runtime"
    BY <1>0, <2>2 DEF LateMove, PlainPart
  <2>3. ASSUME NEW u \in Threads, Touch(u)
        PROVE  UNCHANGED home /\ \A t \in Threads : Listed(t)' => Listed(t) /\ place'[t] = place[t]
    <3>1. place' = [place EXCEPT ![u] = Cardinality(Threads) + events + 1] /\ UNCHANGED home
      BY <2>3 DEF Touch
    <3>2. Cardinality(Threads) + events + 1 > Cardinality(Threads)
      BY <1>0, Threads1 DEF PlainPart
    <3>3. ~Listed(u)'
      BY <1>0, <3>1, <3>2, Threads1 DEF Listed, IndexPart, PlainPart
    <3>4. \A t \in Threads \ {u} : place'[t] = place[t]
      BY <1>0, <3>1 DEF IndexPart
    <3>. QED BY <3>1, <3>3, <3>4 DEF Listed
  <2>4. UNCHANGED <<home, place>> \/ \E t \in Threads : LateMove(t) \/ Touch(t)
    BY DEF Tick, Overruns, vars
  <2>. QED BY <2>1, <2>2, <2>3, <2>4 DEF Listed
<1>4. Lasts /\ FinalLasts
  BY <1>1, <1>3 DEF Lasts, FinalLasts, Done, Final
<1>5. NextOK(job') /\ NextOK(op'.st) /\ op'.st.status # "complete"
  BY <1>1, <1>4, StateLasts DEF FirstSweep, StatesPart
<1>. QED BY <1>1, <1>2, <1>4, <1>5, StepsStay

LEMMA OperatorSweep == ASSUME TypeInv, FirstSweep, sweeps' <= 1, Operator \/ saveState PROVE FirstSweep'
<1>0. PlainPart /\ job \in States
  BY TypeParts DEF JobPart
<1>1. UNCHANGED <<recs, step, home, place>> /\ (late' = late \/ late')
  BY DEF Operator, startCloudSweep, pauseCloudSweep, saveState, Calls, bounds, Event
<1>2. Lasts /\ FinalLasts
  BY <1>1, AllLasts
<1>3. NextOK(job) /\ NextOK(op.st) /\ op.st.status # "complete"
  BY <1>2, StateLasts DEF FirstSweep, StatesPart
<1>4. StateOK(Idle) /\ StateOK(Fresh) /\ Fresh.status = "running" /\ Fresh.phase = "scan" /\ Fresh.cursor = Top
  <2>1. /\ Fresh.status = "running" /\ Fresh.phase = "scan" /\ Fresh.cursor = Top
        /\ Idle.status = "idle" /\ Idle.phase = "scan" /\ Idle.cursor = Top
    BY DEF Fresh, Idle
  <2>. QED BY <2>1, IdleState
<1>5. NextOK(Idle) /\ NextOK(Fresh)
  BY <1>2, <1>4, StateLasts
<1>6. CASE saveState
  <2>1. op' = NoCall /\ job' = op.st /\ sweeps' = sweeps /\ op.at = "write"
    BY <1>6 DEF saveState, bounds
  <2>2. op'.st = Idle /\ op'.at = "none" /\ Idle.status # "complete"
    BY <2>1 DEF NoCall, Idle
  <2>3. FreshPart'
    BY <1>1, <2>1, <2>2 DEF FirstSweep, FreshPart, NoCall
  <2>. QED BY <1>1, <1>2, <1>3, <1>5, <2>1, <2>2, <2>3, StepsStay
<1>7. ASSUME NEW status \in {"running", "paused"}, job.status # "idle",
             Calls("write", [job EXCEPT !.status = status]), sweeps' = sweeps
      PROVE  FirstSweep'
  <2>. DEFINE st == [job EXCEPT !.status = status]
  <2>1. st.phase = job.phase /\ st.cursor = job.cursor /\ st.status = status
    BY <1>0 DEF States
  <2>2. NextOK(st)
    <3>. HIDE DEF st
    <3>. QED BY <1>2, <2>1, StateLasts DEF FirstSweep, StatesPart
  <2>3. op'.at = "write" /\ op'.st = st /\ job' = job /\ UNCHANGED step
    BY <1>7 DEF Calls
  <2>. HIDE DEF st
  <2>4. FreshPart'
    BY <1>7, <2>3 DEF FirstSweep, FreshPart, Idle
  <2>. QED BY <1>1, <1>2, <1>3, <2>1, <2>2, <2>3, <2>4, StepsStay
<1>8. ASSUME Calls("delete", Fresh), sweeps' = sweeps + 1 PROVE FirstSweep'
  <2>1. sweeps = 0
    BY <1>0, <1>8 DEF PlainPart
  <2>2. op'.at = "delete" /\ op'.st = Fresh /\ job' = job /\ UNCHANGED step
    BY <1>8 DEF Calls
  <2>3. FreshPart'
    BY <1>4, <1>8, <2>1, <2>2 DEF FirstSweep, FreshPart
  <2>. QED BY <1>1, <1>2, <1>3, <1>4, <1>5, <2>2, <2>3, StepsStay
<1>9. ASSUME Operator
      PROVE  \/ /\ job.status # "idle" /\ sweeps' = sweeps
                /\ \E status \in {"running", "paused"} : Calls("write", [job EXCEPT !.status = status])
             \/ Calls("delete", Fresh) /\ sweeps' = sweeps + 1
  BY <1>9 DEF Operator, startCloudSweep, pauseCloudSweep, bounds, Event
<1>. QED BY <1>6, <1>7, <1>8, <1>9

\* The records a first sweep deletes are none.
LEMMA DeleteSweep == ASSUME TypeInv, TypeInv', FirstSweep, DeleteRecords PROVE FirstSweep'
<1>1. /\ op.at = "delete" /\ op' = [op EXCEPT !.at = "write"] /\ UNCHANGED <<job, step, sweeps>>
  BY DEF DeleteRecords, bounds
<1>2. op'.at = "write" /\ op'.st = op.st /\ op.st.phase = "scan" /\ op.st.cursor = Top /\ op.st.status # "complete"
  <2>1. op.at = "delete" /\ op \in [at : {"none", "delete", "write"}, st : States]
    BY <1>1, TypeParts DEF JobPart
  <2>. QED BY <1>1, <2>1 DEF FirstSweep, FreshPart, StatesPart
<1>3. job = Idle /\ (\A s \in Steps : step[s] = Off) /\ Off.st = Idle /\ Off.at = "off"
      /\ Idle.phase = "scan" /\ Idle.cursor = Top /\ Idle.status = "idle"
  BY <1>1 DEF FirstSweep, FreshPart, Off, Idle
<1>4. FreshPart'
  BY <1>1, <1>2 DEF FirstSweep, FreshPart, NoCall
<1>5. \A t \in Threads : Listed(t)' => ~(place'[t] >= Top)
  <2>1. \A t \in Threads : place'[t] \in Nat
    BY TypeParts, Threads1 DEF IndexPart
  <2>2. Top \in Nat /\ Cardinality(Threads) \in Nat /\ Top > Cardinality(Threads)
    BY Threads1, Constants
  <2>. QED BY <2>1, <2>2 DEF Listed
<1>6. NextOK(Idle) /\ NextOK(op.st)
  BY <1>2, <1>3, <1>5 DEF NextOK
<1>7. StatesPart'
  BY <1>1, <1>2, <1>3, <1>6, NextStates
<1>8. SeenPart' /\ KnownPart'
  BY <1>1, <1>3, NextSeens, NextKnowns DEF NextSeen, NextKnown
<1>9. FinalPart'
  BY <1>1, <1>3 DEF FinalPart, Completes
<1>. QED BY <1>4, <1>7, <1>8, <1>9 DEF FirstSweep

-----------------------------------------------------------------------------
LEMMA InitSweep == Init => SweepInv
<1>. SUFFICES ASSUME Init PROVE FirstSweep
  BY DEF SweepInv
<1>1. TypeInv
  BY InitTypes
<1>2. job = Idle /\ op = NoCall /\ NoCall.st = Idle /\ NoCall.at = "none" /\ \A s \in Steps : step[s] = Off
  BY DEF Init, NoCall
<1>3. Off.st = Idle /\ Off.at = "off" /\ Idle.phase = "scan" /\ Idle.cursor = Top /\ Idle.status = "idle"
  BY DEF Off, Idle
<1>4. StateOK(Idle)
  BY <1>1, <1>3, IdleState
<1>. QED BY <1>2, <1>3, <1>4 DEF FirstSweep, FreshPart, StatesPart, SeenPart, SeenOK, KnownPart, KnownOK, FinalPart, Completes

Inv == TypeInv /\ LeaseInv /\ SweepInv

LEMMA NextSweep == ASSUME Inv, [Next]_vars PROVE Inv'
<1>1. TypeInv /\ TypeInv' /\ LeaseInv /\ LeaseInv'
  BY NextTypes, NextLease DEF Inv
<1>. SUFFICES ASSUME sweeps' <= 1 PROVE FirstSweep'
  BY <1>1 DEF Inv, SweepInv
<1>2. FirstSweep
  <2>1. sweeps' = sweeps \/ sweeps' = sweeps + 1
    <3>1. CASE Tick \/ Overruns \/ DeleteRecords \/ saveState \/ UNCHANGED vars
      BY <3>1 DEF Tick, Overruns, DeleteRecords, saveState, vars, bounds, Event
    <3>2. CASE Operator \/ \E t \in Threads : LateMove(t) \/ Touch(t)
      BY <3>2 DEF Operator, startCloudSweep, pauseCloudSweep, LateMove, Touch, bounds, Event
    <3>3. ASSUME NEW s \in Steps,
                 \/ runCloudSweepStep(s) \/ acquireStepLease(s) \/ probe(s) \/ ReadPage(s) \/ SaveReads(s)
                 \/ SaveWrites(s) \/ releaseStepLease(s) \/ BudgetEnds(s) \/ Dies(s)
          PROVE  sweeps' = sweeps
      BY <3>3 DEF runCloudSweepStep, acquireStepLease, probe, ReadPage, SaveReads, SaveWrites, releaseStepLease,
                  BudgetEnds, Dies, bounds, Fault
    <3>4. ASSUME NEW s \in Steps, TakeThread(s) \/ PageDone(s) PROVE sweeps' = sweeps
      BY <3>4 DEF TakeThread, PageDone, bounds
    <3>5. ASSUME NEW s \in Steps, NEW t \in Threads, Answers(s, t) PROVE sweeps' = sweeps
      BY <3>5 DEF Answers, Migrated, Skipped, NotMoved, Blocked, NoStart, bounds, Fault
    <3>. QED BY <3>1, <3>2, <3>3, <3>4, <3>5 DEF Next, Goes
  <2>2. sweeps \in Nat
    BY <1>1, TypeParts DEF PlainPart
  <2>. QED BY <2>1, <2>2 DEF Inv, SweepInv
<1>3. CASE Tick \/ Overruns \/ (\E t \in Threads : LateMove(t) \/ Touch(t)) \/ UNCHANGED vars
  BY <1>1, <1>2, <1>3, WorldSweep
<1>4. CASE Operator \/ saveState
  BY <1>1, <1>2, <1>4, OperatorSweep
<1>5. CASE DeleteRecords
  BY <1>1, <1>2, <1>5, DeleteSweep
<1>6. ASSUME NEW s \in Steps, runCloudSweepStep(s) \/ Goes(s) \/ BudgetEnds(s) \/ Dies(s) PROVE FirstSweep'
  BY <1>1, <1>2, <1>6, AskSweep, PlainSweep, ReadSweep, TakeSweep, AnswerSweep, DoneSweep DEF Goes
<1>. QED BY <1>3, <1>4, <1>5, <1>6 DEF Next

\* A first sweep that says it is complete has every thread that was not updated meanwhile on
\* the runtime or skipped with its reason (runCloudSweepStep, runPage, settle): whatever
\* steps die, run out of budget, are paused or work from a state read before their lease.
\* Not after a restart: a step of the sweep before it may still put a record back or save
\* its own state over the new one's.
THEOREM FirstSweepAccounts == Spec => [](sweeps <= 1 => AllAccountedFor)
<1>1. Inv => (sweeps <= 1 => AllAccountedFor)
  <2>. SUFFICES ASSUME Inv, sweeps <= 1, job.status = "complete", NEW t \in Threads, Listed(t)
                PROVE  \/ home[t] = "runtime" \/ recs[t].outcome = "skipped"
                       \/ (late /\ recs[t].outcome = "retry")
    BY DEF AllAccountedFor
  <2>1. FirstSweep /\ RecsPart /\ late \in BOOLEAN
    BY TypeParts DEF Inv, SweepInv, PlainPart
  <2>2. Done(t)
    BY <2>1 DEF FirstSweep, StatesPart, StateOK
  <2>3. ~late => Final(t)
    BY <2>1 DEF FirstSweep, FinalPart, Completes
  <2>4. recs[t].outcome \in {"none", "retry", "skipped"}
    BY <2>1 DEF RecsPart, Records
  <2>. QED BY <2>1, <2>2, <2>3, <2>4 DEF Done, Final
<1>2. Init => Inv
  BY InitTypes, InitLease, InitSweep DEF Inv
<1>. QED BY <1>1, <1>2, NextSweep, PTL DEF Spec

=============================================================================
