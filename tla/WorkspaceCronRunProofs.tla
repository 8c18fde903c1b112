----------------------- MODULE WorkspaceCronRunProofs -----------------------
(***************************************************************************)
(* Proofs about the log of an automation's runs: what is shown of it, and  *)
(* that an occurrence is run once.                                         *)
(***************************************************************************)
EXTENDS WorkspaceCronProofs

-----------------------------------------------------------------------------
(* The summary and the log *)

\* What a job shows is what the run it shows came to.
ShowPart(j) == job[j].last # 0 /\ job[j].shows \in {"started", "error"} =>
                   runs[j][job[j].last].status = job[j].shows

\* A row is there from its creation to its deletion, and its runs with it.
LivePart(j) ==
    /\ job[j].there = FALSE => job[j].last = 0 /\ job[j].on = FALSE /\ job[j].next = 0
    /\ \A i \in 1 .. Len(runs[j]) : runs[j][i].status = "gone" => job[j].there = FALSE
    /\ want[j] = "none" => job[j].there = FALSE /\ Len(runs[j]) = 0

\* Nobody works on a job that was never created.
CallPart == /\ \A w \in Workers : work[w].at # "idle" => want[work[w].job] # "none"
            /\ \A row \in wake.todo : want[row.job] # "none"

ShowInv == Types /\ CallPart /\ \A j \in Jobs : ShowPart(j) /\ LivePart(j)

\* A job that a step passes by.
Same(j) == /\ job'[j] = job[j] /\ want'[j] = want[j]
           /\ Len(runs'[j]) = Len(runs[j])
           /\ \A i \in 1 .. Len(runs[j]) : runs'[j][i].status = runs[j][i].status

LEMMA SameShown == ASSUME Types, NEW j \in Jobs, ShowPart(j), LivePart(j), Same(j)
                   PROVE  ShowPart(j)' /\ LivePart(j)'
<1>1. Len(runs[j]) \in Nat /\ job[j].last \in 0 .. Len(runs[j])
  BY LenProperties DEF Types, RunsOK, LastOK
<1>2. job[j].last # 0 => job[j].last \in 1 .. Len(runs[j])
  BY <1>1
<1>3. ShowPart(j)'
  BY <1>2 DEF ShowPart, Same
<1>4. LivePart(j)'
  BY DEF LivePart, Same
<1>. QED BY <1>3, <1>4

LEMMA AllSame == ASSUME Types, UNCHANGED <<job, runs, want>> PROVE \A j \in Jobs : Same(j)
BY DEF Same

\* What a run's row says after the step is what it said, or what the step writes.
LEMMA AppendedStatus == ASSUME Types, NEW j \in Jobs, NEW q \in RunRows, runs' = WithRun(j, q)
                        PROVE  /\ Grows /\ Len(runs[j]) \in Nat /\ Len(runs'[j]) = Len(runs[j]) + 1
                               /\ runs'[j][Len(runs[j]) + 1] = q
                               /\ \A i \in 1 .. Len(runs[j]) : runs'[j][i] = runs[j][i]
                               /\ \A i \in 1 .. Len(runs'[j]) : i \in 1 .. Len(runs[j]) \/ i = Len(runs[j]) + 1
                               /\ \A k \in Jobs : k # j => runs'[k] = runs[k]
<1>1. RunsOK /\ Len(runs[j]) \in Nat
  BY LenProperties DEF Types, RunsOK
<1>. QED BY <1>1, AppendRun, LogAppended

LEMMA ChangedStatus == ASSUME Types, NEW j \in Jobs, NEW i \in 1 .. Len(runs[j]), NEW r \in RunRows,
                              runs' = [runs EXCEPT ![j][i] = r]
                       PROVE  /\ Len(runs'[j]) = Len(runs[j]) /\ runs'[j][i] = r
                              /\ \A k \in 1 .. Len(runs[j]) : k # i => runs'[j][k] = runs[j][k]
                              /\ \A k \in Jobs : k # j => runs'[k] = runs[k]
<1>1. RunsOK
  BY DEF Types
<1>. QED BY <1>1, ChangeRun

\* A run that goes wrong.
LEMMA ErrorStatus == ASSUME Types, NEW j \in Jobs, NEW n \in 1 .. Len(runs[j]), runs' = SetRun(j, n, "error")
                     PROVE  /\ Len(runs'[j]) = Len(runs[j])
                            /\ \A k \in 1 .. Len(runs[j]) : k # n => runs'[j][k] = runs[j][k]
                            /\ \A k \in Jobs : k # j => runs'[k] = runs[k]
                            /\ runs'[j][n].status = IF runs[j][n].status = "gone" THEN "gone" ELSE "error"
<1>1. runs[j][n] \in RunRows /\ RunsOK
  BY RunTypes DEF Types
<1>2. Ended(runs[j][n], "error") \in RunRows
  BY <1>1 DEF Ended, RunRows, Statuses
<1>3. PICK r \in RunRows : r = Ended(runs[j][n], "error")
  BY <1>2
<1>4. r.status = IF runs[j][n].status = "gone" THEN "gone" ELSE "error"
  BY <1>1, <1>3 DEF Ended, RunRows
<1>5. runs' = [runs EXCEPT ![j][n] = r]
  BY <1>3 DEF SetRun
<1>6. /\ Len(runs'[j]) = Len(runs[j]) /\ runs'[j][n] = r
      /\ \A k \in 1 .. Len(runs[j]) : k # n => runs'[j][k] = runs[j][k]
      /\ \A k \in Jobs : k # j => runs'[k] = runs[k]
  BY <1>5, ChangedStatus
<1>. QED BY <1>4, <1>6

\* The answer of a dispatch leaves its run's status, or makes it an error.
LEMMA OutcomeStatus == ASSUME Types, NEW w \in Workers, work[w].at = "answered", runs' = Outcome(w),
                              NEW j \in Jobs, j = work[w].job, NEW n, n = work[w].run
                       PROVE  /\ n \in 1 .. Len(runs[j]) /\ Len(runs'[j]) = Len(runs[j])
                              /\ \A k \in 1 .. Len(runs[j]) : k # n => runs'[j][k] = runs[j][k]
                              /\ \A k \in Jobs : k # j => runs'[k] = runs[k]
                              /\ work[w].ok => runs'[j][n] = runs[j][n]
                              /\ ~work[w].ok => runs'[j][n].status =
                                     IF runs[j][n].status = "gone" THEN "gone" ELSE "error"
<1>1. n \in 1 .. Len(runs[j]) /\ RunsOK
  BY WorkerTypes DEF Types
<1>2. CASE work[w].ok
  <2>1. runs' = runs
    BY <1>2 DEF Outcome
  <2>. QED BY <1>1, <1>2, <2>1
<1>3. CASE ~work[w].ok
  <2>1. runs' = SetRun(j, n, "error")
    BY <1>3 DEF Outcome
  <2>. QED BY <1>1, <1>3, <2>1, ErrorStatus
<1>. QED BY <1>2, <1>3

LEMMA WantKept == ASSUME Types, CallPart, \A j \in Jobs : LivePart(j), [Next]_vars
                  PROVE  \A j \in Jobs : want[j] # "none" => want'[j] # "none"
<1>0. want \in [Jobs -> {"none", "on", "off"}]
  BY DEF Types, OwnOK
<1>1. CASE UNCHANGED want
  BY <1>1
<1>2. CASE \E j \in Jobs : Create(j) \/ Delete(j)
  <2>1. \E j \in Jobs, x \in {"on", "off"} : want' = [want EXCEPT ![j] = x]
    BY <1>2 DEF Create, Delete
  <2>. QED BY <1>0, <2>1
<1>3. CASE DisableAllScheduledPrompts
  BY <1>0, <1>3 DEF DisableAllScheduledPrompts
<1>4. ASSUME NEW c \in Callers, Update(c) PROVE \A j \in Jobs : want[j] # "none" => want'[j] # "none"
  <2>1. want' = want \/ \E x \in {"on", "off"} : want' = [want EXCEPT ![work[c].job] = x]
    BY <1>4 DEF Update
  <2>. QED BY <1>0, <2>1
<1>5. CASE \E c \in Callers, j \in Jobs, does \in {"update", "run"} : Reads(c, j, does)
  BY <1>1, <1>5 DEF Reads, owners
<1>6. CASE \E c \in Callers : CallRefused(c) \/ CallThrows(c) \/ CallNext(c)
  BY <1>1, <1>6 DEF CallRefused, CallThrows, CallNext, RunPromptNow, PromptRunByHand, RunAutoNow, owners
<1>7. CASE \E w \in Workers : DispatchNext(w)
  BY <1>1, <1>7 DEF DispatchNext, ThreadFound, Starts, AutoAnswered, owners
<1>8. CASE \E j \in Jobs : EndNext(j)
  BY <1>1, <1>8 DEF EndNext, TurnEnds, ReportScheduledRunOutcome, FinishScheduledRun, RecordAutomationResult, owners
<1>9. CASE AlarmNext \/ AlarmThrows \/ Restart \/ Tick
  BY <1>1, <1>9 DEF AlarmNext, AlarmFires, LookedUp, LookupFails, LimitsRead, TakePrompt, PromptDispatched,
       PromptsDone, TakeAuto, AlarmDone, AlarmThrows, Restart, Tick, owners
<1>10. CASE UNCHANGED vars
  BY <1>1, <1>10 DEF vars
<1>. QED BY <1>2, <1>3, <1>4, <1>5, <1>6, <1>7, <1>8, <1>9, <1>10 DEF Next, OwnerNext

\* Who is due, or waits to be taken, was created.
LEMMA PendingMade == ASSUME Types, CallPart, \A j \in Jobs : LivePart(j),
                            NEW kind \in {Prompts, Autos}, NEW row \in Pending(kind)
                     PROVE  want[row.job] # "none"
<1>1. row.job \in Jobs
  BY PendingTypes
<1>2. CASE wake.fresh
  <2>1. job[row.job].on
    BY <1>2, PendingTypes DEF DueAt
  <2>. QED BY <1>1, <2>1 DEF LivePart
<1>3. CASE ~wake.fresh
  BY <1>3, PendingTypes DEF CallPart
<1>. QED BY <1>2, <1>3

LEMMA MadeKept == ASSUME Types, CallPart, \A j \in Jobs : want[j] # "none" => want'[j] # "none",
                         \A j \in Jobs : LivePart(j),
                         NEW w \in Workers, NEW r, work' = [work EXCEPT ![w] = r],
                         r.at # "idle" => r.job \in Jobs /\ want[r.job] # "none",
                         wake'.todo \subseteq wake.todo \/ \E kind \in {Prompts, Autos} : wake'.todo \subseteq Pending(kind)
                  PROVE  CallPart'
<1>1. \A v \in Workers : work'[v].at # "idle" => want'[work'[v].job] # "none"
  <2>. SUFFICES ASSUME NEW v \in Workers, work'[v].at # "idle" PROVE want'[work'[v].job] # "none"
    OBVIOUS
  <2>1. work \in [Workers -> WorkRows] /\ \A u \in Workers : work[u].at # "idle" => work[u].job \in Jobs
    BY DEF Types, WorkOK
  <2>2. CASE v = w
    BY <2>1, <2>2
  <2>3. CASE v # w
    <3>1. work'[v] = work[v]
      BY <2>1, <2>3
    <3>. QED BY <2>1, <3>1 DEF CallPart
  <2>. QED BY <2>2, <2>3
<1>2. \A row \in wake'.todo : want'[row.job] # "none"
  <2>. SUFFICES ASSUME NEW row \in wake'.todo PROVE want'[row.job] # "none"
    OBVIOUS
  <2>1. CASE row \in wake.todo
    <3>1. row.job \in Jobs
      BY <2>1 DEF Types, WakeOK, Wakes
    <3>. QED BY <2>1, <3>1 DEF CallPart
  <2>2. ASSUME NEW kind \in {Prompts, Autos}, row \in Pending(kind) PROVE want'[row.job] # "none"
    BY <2>2, PendingTypes, PendingMade
  <2>. QED BY <2>1, <2>2
<1>. QED BY <1>1, <1>2 DEF CallPart

\* A step that leaves all workers as they are.
LEMMA MadeStays == ASSUME Types, CallPart, \A j \in Jobs : want[j] # "none" => want'[j] # "none",
                          \A j \in Jobs : LivePart(j), UNCHANGED work,
                          wake'.todo \subseteq wake.todo
                   PROVE  CallPart'
<1>1. "alarm" \in Workers /\ work \in [Workers -> WorkRows] /\ work' = [work EXCEPT !["alarm"] = work["alarm"]]
  BY DEF Workers, Types, WorkOK
<1>2. work["alarm"].at # "idle" => work["alarm"].job \in Jobs /\ want[work["alarm"].job] # "none"
  BY <1>1 DEF Types, WorkOK, CallPart
<1>. QED BY <1>1, <1>2, MadeKept

LEMMA NextCalls == ASSUME ShowInv, [Next]_vars PROVE CallPart'
<1>0. /\ Types /\ CallPart /\ \A j \in Jobs : LivePart(j)
      /\ work \in [Workers -> WorkRows] /\ wake \in Wakes
      /\ \A w \in Workers : work[w].at # "idle" => work[w].job \in Jobs /\ want[work[w].job] # "none"
  BY DEF ShowInv, Types, WorkOK, WakeOK, CallPart
<1>1. \A j \in Jobs : want[j] # "none" => want'[j] # "none"
  BY <1>0, WantKept
<1>i. Idle.at = "idle" /\ Asleep.todo = {}
  BY DEF Idle, Asleep
<1>c. "alarm" \in Workers /\ \A c \in Callers : c \in Workers
  BY DEF Workers
<1>2. CASE UNCHANGED vars \/ (\E j \in Jobs : EndNext(j)) \/ (\E j \in Jobs : Create(j) \/ Delete(j))
           \/ DisableAllScheduledPrompts \/ Tick
  <2>1. UNCHANGED <<work, wake>>
    BY <1>2 DEF vars, EndNext, TurnEnds, ReportScheduledRunOutcome, FinishScheduledRun, RecordAutomationResult,
         Create, Delete, DisableAllScheduledPrompts, Tick
  <2>. QED BY <1>0, <1>1, <2>1, MadeStays
<1>3. ASSUME NEW c \in Callers, NEW j \in Jobs, NEW does \in {"update", "run"}, Reads(c, j, does)
      PROVE  CallPart'
  <2>. DEFINE r == [Idle EXCEPT !.at = "look", !.does = does, !.job = j, !.row = job[j]]
  <2>1. work' = [work EXCEPT ![c] = r] /\ UNCHANGED wake /\ job[j].there
    BY <1>3 DEF Reads
  <2>2. r.job = j
    BY DEF Idle
  <2>3. want[j] # "none"
    <3>1. LivePart(j)
      BY <1>0
    <3>. QED BY <2>1, <3>1 DEF LivePart
  <2>. HIDE DEF r
  <2>. QED BY <1>0, <1>1, <1>c, <2>1, <2>2, <2>3, MadeKept
<1>4. ASSUME NEW c \in Callers, CallRefused(c) \/ CallThrows(c) \/ Update(c) \/ PromptRunByHand(c) \/ AutoAnswered(c)
      PROVE  CallPart'
  <2>1. work' = [work EXCEPT ![c] = Idle] /\ UNCHANGED wake
    BY <1>4 DEF CallRefused, CallThrows, Update, PromptRunByHand, AutoAnswered
  <2>. QED BY <1>0, <1>1, <1>i, <1>c, <2>1, MadeKept
<1>5. CASE PromptDispatched \/ AutoAnswered("alarm")
  <2>1. work' = [work EXCEPT !["alarm"] = Idle] /\ UNCHANGED wake
    BY <1>5 DEF PromptDispatched, AutoAnswered
  <2>. QED BY <1>0, <1>1, <1>i, <1>c, <2>1, MadeKept
<1>6. ASSUME NEW c \in Callers, RunPromptNow(c) PROVE CallPart'
  <2>1. work' = [work EXCEPT ![c] = [work[c] EXCEPT !.at = "thread", !.start = now]] /\ UNCHANGED wake
        /\ work[c].at = "look"
    BY <1>0, <1>c, <1>6 DEF RunPromptNow
  <2>2. [work[c] EXCEPT !.at = "thread", !.start = now].job = work[c].job
    BY <1>0, <1>c DEF WorkRows
  <2>. QED BY <1>0, <1>1, <1>c, <2>1, <2>2, MadeKept
<1>7. ASSUME NEW c \in Callers, RunAutoNow(c) PROVE CallPart'
  <2>1. PICK n \in {Len(runs[work[c].job]) + 1}, b \in BOOLEAN : work' = [work EXCEPT ![c] = [work[c] EXCEPT !.at = "start", !.start = now, !.run = n, !.blocked = b]]
    BY <1>0, <1>7, AutoNowStep
  <2>2. UNCHANGED wake /\ work[c].at = "look"
    BY <1>7 DEF RunAutoNow
  <2>3. [work[c] EXCEPT !.at = "start", !.start = now, !.run = n, !.blocked = b].job = work[c].job
    BY <1>0, <1>c DEF WorkRows
  <2>. QED BY <1>0, <1>1, <1>c, <2>1, <2>2, <2>3, MadeKept
<1>8. ASSUME NEW w \in Workers, ThreadFound(w) PROVE CallPart'
  <2>1. PICK n : work' = [work EXCEPT ![w] = [work[w] EXCEPT !.at = "start", !.run = n]]
    BY <1>0, <1>8, FoundStep
  <2>2. UNCHANGED wake /\ work[w].at = "thread"
    BY <1>8 DEF ThreadFound
  <2>3. [work[w] EXCEPT !.at = "start", !.run = n].job = work[w].job
    BY <1>0 DEF WorkRows
  <2>. QED BY <1>0, <1>1, <2>1, <2>2, <2>3, MadeKept
<1>9. ASSUME NEW w \in Workers, Starts(w) PROVE CallPart'
  <2>1. PICK ok \in BOOLEAN : work' = [work EXCEPT ![w] = [work[w] EXCEPT !.at = "answered", !.ok = ok]]
    BY <1>0, <1>9, StartStep
  <2>2. UNCHANGED wake /\ work[w].at = "start"
    BY <1>9 DEF Starts
  <2>3. [work[w] EXCEPT !.at = "answered", !.ok = ok].job = work[w].job
    BY <1>0 DEF WorkRows
  <2>. QED BY <1>0, <1>1, <2>1, <2>2, <2>3, MadeKept
<1>10. CASE AlarmFires \/ LookedUp \/ LookupFails \/ LimitsRead \/ PromptsDone \/ AlarmDone
  <2>1. UNCHANGED work
    BY <1>10 DEF AlarmFires, LookedUp, LookupFails, LimitsRead, PromptsDone, AlarmDone
  <2>2. wake'.todo \subseteq wake.todo
    <3>1. CASE AlarmFires
      <4>1. wake'.todo = {}
        BY <3>1 DEF AlarmFires, Asleep
      <4>. QED BY <4>1
    <3>2. CASE LimitsRead \/ PromptsDone
      BY <1>0, <3>2 DEF LimitsRead, PromptsDone, Wakes
    <3>3. CASE LookedUp
      <4>1. wake' = Asleep \/ wake' = [wake EXCEPT !.phase = "limits"]
        BY <3>3 DEF LookedUp
      <4>. QED BY <1>0, <1>i, <4>1 DEF Wakes
    <3>4. CASE LookupFails \/ AlarmDone
      BY <1>i, <3>4 DEF LookupFails, AlarmDone
    <3>. QED BY <1>10, <3>1, <3>2, <3>3, <3>4
  <2>. QED BY <1>0, <1>1, <2>1, <2>2, MadeStays
<1>11. CASE TakePrompt
  <2>1. PICK row \in Pending(Prompts) :
           /\ wake' = Taken(Prompts, row)
           /\ \/ Blocked(row)
              \/ work' = [work EXCEPT !["alarm"] =
                       [Idle EXCEPT !.at = "thread", !.does = "run", !.job = row.job,
                                    !.row = [NoRow EXCEPT !.next = row.next], !.start = now]]
    BY <1>11 DEF TakePrompt
  <2>2. wake'.todo \subseteq Pending(Prompts)
    BY <1>0, <2>1, TakenTypes
  <2>3. row.job \in Jobs /\ want[row.job] # "none"
    BY <1>0, PendingTypes, PendingMade
  <2>4. CASE Blocked(row)
    <3>1. work' = [work EXCEPT !["alarm"] = work["alarm"]]
      BY <1>0, <1>c, <2>4 DEF Blocked
    <3>. QED BY <1>0, <1>1, <1>c, <2>2, <3>1, MadeKept
  <2>5. CASE ~Blocked(row)
    <3>. DEFINE r == [Idle EXCEPT !.at = "thread", !.does = "run", !.job = row.job,
                                  !.row = [NoRow EXCEPT !.next = row.next], !.start = now]
    <3>1. work' = [work EXCEPT !["alarm"] = r]
      BY <2>1, <2>5
    <3>2. r.job = row.job
      BY DEF Idle
    <3>. HIDE DEF r
    <3>. QED BY <1>0, <1>1, <1>c, <2>2, <2>3, <3>1, <3>2, MadeKept
  <2>. QED BY <2>4, <2>5
<1>12. CASE TakeAuto
  <2>1. PICK row \in Pending(Autos) :
           /\ wake' = Taken(Autos, row)
           /\ \/ Blocked(row)
              \/ work' = [work EXCEPT !["alarm"] =
                       [Idle EXCEPT !.at = "start", !.does = "run", !.job = row.job, !.start = now,
                                    !.run = Len(runs[row.job]) + 1]]
    BY <1>12 DEF TakeAuto
  <2>2. wake'.todo \subseteq Pending(Autos)
    BY <1>0, <2>1, TakenTypes
  <2>3. row.job \in Jobs /\ want[row.job] # "none"
    BY <1>0, PendingTypes, PendingMade
  <2>4. CASE Blocked(row)
    <3>1. work' = [work EXCEPT !["alarm"] = work["alarm"]]
      BY <1>0, <1>c, <2>4 DEF Blocked
    <3>. QED BY <1>0, <1>1, <1>c, <2>2, <3>1, MadeKept
  <2>5. CASE ~Blocked(row)
    <3>. DEFINE r == [Idle EXCEPT !.at = "start", !.does = "run", !.job = row.job, !.start = now,
                                  !.run = Len(runs[row.job]) + 1]
    <3>1. work' = [work EXCEPT !["alarm"] = r]
      BY <2>1, <2>5
    <3>2. r.job = row.job
      BY DEF Idle
    <3>. HIDE DEF r
    <3>. QED BY <1>0, <1>1, <1>c, <2>2, <2>3, <3>1, <3>2, MadeKept
  <2>. QED BY <2>4, <2>5
<1>13. CASE AlarmThrows \/ Restart
  <2>1. wake' = Asleep /\ (work' = [work EXCEPT !["alarm"] = Idle] \/ work' = [w \in Workers |-> Idle])
    BY <1>13 DEF AlarmThrows, Restart
  <2>2. CASE work' = [work EXCEPT !["alarm"] = Idle]
    BY <1>0, <1>1, <1>i, <1>c, <2>1, <2>2, MadeKept
  <2>3. CASE work' = [w \in Workers |-> Idle]
    BY <1>i, <2>1, <2>3 DEF CallPart
  <2>. QED BY <2>1, <2>2, <2>3
<1>14. CASE \E w \in Workers : AutoAnswered(w)
  BY <1>4, <1>5, <1>14 DEF Workers
<1>. QED BY <1>2, <1>3, <1>4, <1>5, <1>6, <1>7, <1>8, <1>9, <1>10, <1>11, <1>12, <1>13, <1>14
         DEF Next, OwnerNext, CallNext, DispatchNext, AlarmNext

\* The step of an action that touches one job.
LEMMA OneShown == ASSUME ShowInv, NEW j \in Jobs, RunsOK', Len(runs'[j]) >= Len(runs[j]), want[j] # "none", want'[j] # "none",
                         job'[j].there = job[j].there,
                         job[j].there = FALSE => job'[j].last = 0 /\ job'[j].on = FALSE /\ job'[j].next = 0,
                         \A i \in 1 .. Len(runs'[j]) : runs'[j][i].status = "gone" =>
                             i \in 1 .. Len(runs[j]) /\ runs[j][i].status = "gone",
                         ShowPart(j)', \A k \in Jobs : k # j => Same(k)
                  PROVE  \A k \in Jobs : ShowPart(k)' /\ LivePart(k)'
<1>1. Types /\ \A k \in Jobs : ShowPart(k) /\ LivePart(k)
  BY DEF ShowInv
<1>2. LivePart(j)'
  <2>1. LivePart(j)
    BY <1>1
  <2>. QED BY <2>1 DEF LivePart
<1>3. ASSUME NEW k \in Jobs, k # j PROVE ShowPart(k)' /\ LivePart(k)'
  BY <1>1, <1>3, SameShown
<1>. QED BY <1>2, <1>3

\* The row is written, if it is still there, to show a run of the log.
LEMMA SetShown == ASSUME ShowInv, NEW j \in Jobs, NEW r \in Rows, job' = Set(j, r), r.there = job[j].there,
                         want[j] # "none", want'[j] # "none", \A k \in Jobs : k # j => want'[k] = want[k],
                         RunsOK', Len(runs'[j]) >= Len(runs[j]), \A k \in Jobs : k # j => runs'[k] = runs[k],
                         \A i \in 1 .. Len(runs'[j]) : runs'[j][i].status = "gone" =>
                             i \in 1 .. Len(runs[j]) /\ runs[j][i].status = "gone",
                         job[j].there /\ r.last # 0 /\ r.shows \in {"started", "error"} =>
                             runs'[j][r.last].status = r.shows
                  PROVE  \A k \in Jobs : ShowPart(k)' /\ LivePart(k)'
<1>1. Types /\ ShowPart(j) /\ LivePart(j)
  BY DEF ShowInv
<1>2. /\ job[j].there => job'[j] = r
      /\ ~job[j].there => job'[j] = job[j]
      /\ \A k \in Jobs : k # j => job'[k] = job[k]
  BY <1>1, SetRow DEF Types
<1>3. job \in [Jobs -> Rows] /\ job[j].there \in BOOLEAN
  BY <1>1, Reading DEF Types, JobOK
<1>4. job'[j].there = job[j].there
  BY <1>2, <1>3
<1>5. job[j].there = FALSE => job'[j].last = 0 /\ job'[j].on = FALSE /\ job'[j].next = 0
  BY <1>1, <1>2 DEF LivePart
<1>6. ShowPart(j)'
  <2>1. CASE job[j].there
    BY <1>2, <2>1 DEF ShowPart
  <2>2. CASE ~job[j].there
    <3>1. job'[j].last = 0
      BY <1>3, <1>5, <2>2
    <3>. QED BY <3>1 DEF ShowPart
  <2>. QED BY <2>1, <2>2
<1>7. \A k \in Jobs : k # j => Same(k)
  BY <1>2 DEF Same
<1>. QED BY <1>4, <1>5, <1>6, <1>7, OneShown

LEMMA CreateShown == ASSUME ShowInv, NEW j \in Jobs, Create(j)
                     PROVE  \A k \in Jobs : ShowPart(k)' /\ LivePart(k)'
<1>1. Types /\ LivePart(j) /\ want[j] = "none" /\ UNCHANGED runs
  BY DEF ShowInv, Create
<1>2. PICK on, next :
         /\ job' = [job EXCEPT ![j] = [NoRow EXCEPT !.there = TRUE, !.on = on, !.next = next]]
         /\ want' = [want EXCEPT ![j] = IF on THEN "on" ELSE "off"]
  BY DEF Create
<1>3. job \in [Jobs -> Rows] /\ want \in [Jobs -> {"none", "on", "off"}]
  BY <1>1 DEF Types, JobOK, OwnOK
<1>4. /\ job'[j] = [NoRow EXCEPT !.there = TRUE, !.on = on, !.next = next]
      /\ want'[j] # "none"
  BY <1>2, <1>3
<1>5. job'[j].there = TRUE /\ job'[j].last = 0
  BY <1>4 DEF NoRow
<1>6. Len(runs'[j]) = 0
  BY <1>1 DEF LivePart
<1>7. ShowPart(j)' /\ LivePart(j)'
  <2>1. ShowPart(j)'
    BY <1>5 DEF ShowPart
  <2>2. \A i \in 1 .. Len(runs'[j]) : FALSE
    BY <1>6
  <2>. QED BY <1>4, <1>5, <2>1, <2>2 DEF LivePart
<1>8. ASSUME NEW k \in Jobs, k # j PROVE ShowPart(k)' /\ LivePart(k)'
  <2>1. Same(k)
    BY <1>1, <1>2, <1>3, <1>8 DEF Same
  <2>. QED BY <2>1, SameShown DEF ShowInv
<1>. QED BY <1>7, <1>8

LEMMA DeleteShown == ASSUME ShowInv, NEW j \in Jobs, Delete(j)
                     PROVE  \A k \in Jobs : ShowPart(k)' /\ LivePart(k)'
<1>1. /\ Types /\ job' = [job EXCEPT ![j] = NoRow] /\ want' = [want EXCEPT ![j] = "off"]
      /\ \A k \in Jobs : k # j => runs'[k] = runs[k]
  <2>1. runs' = [runs EXCEPT ![j] = [i \in DOMAIN runs[j] |-> Deleted(runs[j][i])]]
    BY DEF Delete
  <2>2. runs \in [Jobs -> Seq(RunRows)]
    BY DEF ShowInv, Types, RunsOK
  <2>. QED BY <2>1, <2>2 DEF ShowInv, Delete
<1>2. job \in [Jobs -> Rows] /\ want \in [Jobs -> {"none", "on", "off"}]
  BY <1>1 DEF Types, JobOK, OwnOK
<1>3. job'[j] = NoRow /\ want'[j] = "off"
  BY <1>1, <1>2
<1>4. job'[j].there = FALSE /\ job'[j].last = 0 /\ job'[j].on = FALSE /\ job'[j].next = 0
  BY <1>3 DEF NoRow
<1>5. ShowPart(j)'
  BY <1>4 DEF ShowPart
<1>6. LivePart(j)'
  BY <1>3, <1>4 DEF LivePart
<1>8. ASSUME NEW k \in Jobs, k # j PROVE ShowPart(k)' /\ LivePart(k)'
  <2>1. Same(k)
    BY <1>1, <1>2, <1>8 DEF Same
  <2>. QED BY <2>1, SameShown DEF ShowInv
<1>. QED BY <1>5, <1>6, <1>8

LEMMA DisableShown == ASSUME ShowInv, DisableAllScheduledPrompts
                      PROVE  \A k \in Jobs : ShowPart(k)' /\ LivePart(k)'
<1>. SUFFICES ASSUME NEW k \in Jobs PROVE ShowPart(k)' /\ LivePart(k)'
  OBVIOUS
<1>1. /\ Types /\ ShowPart(k) /\ LivePart(k) /\ UNCHANGED runs
      /\ job'[k] = IF job[k].on THEN [job[k] EXCEPT !.on = FALSE, !.next = 0] ELSE job[k]
      /\ want'[k] = IF job[k].there THEN "off" ELSE want[k]
  BY DEF ShowInv, DisableAllScheduledPrompts
<1>2. job[k] \in Rows
  BY <1>1 DEF Types, JobOK
<1>3. /\ job'[k].there = job[k].there /\ job'[k].last = job[k].last /\ job'[k].shows = job[k].shows
      /\ job'[k].on = FALSE /\ (job'[k].next = 0 \/ job'[k].next = job[k].next)
  BY <1>1, <1>2 DEF Rows
<1>4. ShowPart(k)'
  BY <1>1, <1>3 DEF ShowPart
<1>5. LivePart(k)'
  BY <1>1, <1>3 DEF LivePart
<1>. QED BY <1>4, <1>5

LEMMA UpdateShown == ASSUME ShowInv, NEW c \in Callers, Update(c)
                     PROVE  \A k \in Jobs : ShowPart(k)' /\ LivePart(k)'
<1>0. Types /\ c \in Workers
  BY DEF ShowInv, Workers
<1>1. PICK j \in Jobs : j = work[c].job
  BY <1>0, WorkerTypes DEF Update
<1>2. job[j] \in Rows /\ work[c].row \in Rows /\ now \in Nat /\ want \in [Jobs -> {"none", "on", "off"}]
  BY <1>0, <1>1, WorkerTypes DEF Update, Types, JobOK, TimeOK, OwnOK
<1>3. want[j] # "none"
  BY <1>0, <1>1 DEF ShowInv, CallPart, Update
<1>4. PICK on \in BOOLEAN, cronChanged \in BOOLEAN :
         /\ job' = Set(j, [job[j] EXCEPT !.on = on, !.next = EditedNext(work[c].row, on, cronChanged)])
         /\ want' = want \/ \E x \in {"on", "off"} : want' = [want EXCEPT ![j] = x]
  BY <1>1 DEF Update
<1>. DEFINE next == EditedNext(work[c].row, on, cronChanged)
            r == [job[j] EXCEPT !.on = on, !.next = next]
<1>5. next \in Nat
  BY <1>2, Reading DEF EditedNext, NextRun
<1>s. job' = Set(j, r)
  BY <1>4
<1>. HIDE DEF next
<1>6. r \in Rows /\ r.there = job[j].there /\ r.last = job[j].last /\ r.shows = job[j].shows
  BY <1>2, <1>4, <1>5 DEF Rows
<1>. HIDE DEF r
<1>7. UNCHANGED runs /\ RunsOK' /\ Len(runs'[j]) >= Len(runs[j])
  <2>1. UNCHANGED runs /\ RunsOK
    BY <1>0 DEF Update, Types
  <2>2. Len(runs[j]) \in Nat
    BY <2>1, LenProperties DEF RunsOK
  <2>. QED BY <2>1, <2>2 DEF RunsOK
<1>8. want'[j] # "none" /\ \A k \in Jobs : k # j => want'[k] = want[k]
  BY <1>2, <1>3, <1>4
<1>9. r.last # 0 /\ r.shows \in {"started", "error"} => runs'[j][r.last].status = r.shows
  BY <1>6, <1>7 DEF ShowInv, ShowPart
<1>. QED BY <1>s, <1>3, <1>6, <1>7, <1>8, <1>9, SetShown

\* The answer of a dispatch: a run that goes wrong is an error, unless its row is gone.
LEMMA AnswerKeeps == ASSUME ShowInv, NEW w \in Workers, work[w].at = "answered", runs' = Outcome(w),
                            NEW j \in Jobs, j = work[w].job
                     PROVE  /\ RunsOK' /\ Len(runs'[j]) >= Len(runs[j])
                            /\ want[j] # "none"
                            /\ \A k \in Jobs : k # j => runs'[k] = runs[k]
                            /\ \A i \in 1 .. Len(runs'[j]) : runs'[j][i].status = "gone" =>
                                   i \in 1 .. Len(runs[j]) /\ runs[j][i].status = "gone"
                            /\ job[j].there /\ ~work[w].ok => runs'[j][work[w].run].status = "error"
                            /\ \A i \in 1 .. Len(runs[j]) : i # work[w].run \/ work[w].ok => runs'[j][i] = runs[j][i]
<1>0. Types /\ LivePart(j) /\ want[j] # "none"
  BY DEF ShowInv, CallPart
<1>1. PICK n : n = work[w].run
  OBVIOUS
<1>2. /\ n \in 1 .. Len(runs[j]) /\ Len(runs'[j]) = Len(runs[j])
      /\ \A k \in 1 .. Len(runs[j]) : k # n => runs'[j][k] = runs[j][k]
      /\ \A k \in Jobs : k # j => runs'[k] = runs[k]
      /\ work[w].ok => runs'[j][n] = runs[j][n]
      /\ ~work[w].ok => runs'[j][n].status = IF runs[j][n].status = "gone" THEN "gone" ELSE "error"
  BY <1>0, <1>1, OutcomeStatus
<1>3. Stays
  BY <1>0, OutcomeLog
<1>4. RunsOK' /\ Len(runs'[j]) >= Len(runs[j])
  BY <1>3 DEF Stays, Grows
<1>5. job[j].there /\ ~work[w].ok => runs'[j][n].status = "error"
  BY <1>0, <1>2 DEF LivePart
<1>6. \A i \in 1 .. Len(runs'[j]) : runs'[j][i].status = "gone" =>
          i \in 1 .. Len(runs[j]) /\ runs[j][i].status = "gone"
  <2>. SUFFICES ASSUME NEW i \in 1 .. Len(runs'[j]), runs'[j][i].status = "gone"
                PROVE  i \in 1 .. Len(runs[j]) /\ runs[j][i].status = "gone"
    OBVIOUS
  <2>1. CASE i # n
    BY <1>2, <2>1
  <2>2. CASE i = n
    BY <1>2, <2>2
  <2>. QED BY <2>1, <2>2
<1>. QED BY <1>0, <1>1, <1>2, <1>4, <1>5, <1>6

LEMMA DispatchedShown == ASSUME ShowInv, PromptDispatched
                         PROVE  \A k \in Jobs : ShowPart(k)' /\ LivePart(k)'
<1>0. Types /\ "alarm" \in Workers /\ work["alarm"].at = "answered"
  BY DEF ShowInv, Workers, PromptDispatched
<1>1. PICK j \in Jobs : j = work["alarm"].job
  BY <1>0, WorkerTypes
<1>2. job[j] \in Rows /\ work["alarm"].run \in Nat /\ work["alarm"].start \in Nat
  BY <1>0, <1>1, WorkerTypes DEF Types, JobOK
<1>. DEFINE next == NextRun(work["alarm"].start)
            shows == Shown("alarm")
            n == work["alarm"].run
            r == [job[j] EXCEPT !.on = TRUE, !.next = next, !.last = n, !.shows = shows]
<1>3. job' = Set(j, r) /\ runs' = Outcome("alarm") /\ UNCHANGED want
  BY <1>1 DEF PromptDispatched, owners
<1>4. next \in Nat /\ shows \in Statuses /\ n \in Nat
  BY <1>2 DEF NextRun, Shown, Statuses
<1>5. shows = IF work["alarm"].ok THEN "success" ELSE "error"
  BY DEF Shown
<1>. HIDE DEF next, shows, n
<1>6. r \in Rows /\ r.there = job[j].there /\ r.last = n /\ r.shows = shows
  BY <1>2, <1>4 DEF Rows
<1>. HIDE DEF r
<1>7. /\ RunsOK' /\ Len(runs'[j]) >= Len(runs[j]) /\ want[j] # "none"
      /\ \A k \in Jobs : k # j => runs'[k] = runs[k]
      /\ \A i \in 1 .. Len(runs'[j]) : runs'[j][i].status = "gone" =>
             i \in 1 .. Len(runs[j]) /\ runs[j][i].status = "gone"
      /\ job[j].there /\ ~work["alarm"].ok => runs'[j][n].status = "error"
  BY <1>0, <1>1, <1>3, AnswerKeeps DEF n
<1>8. job[j].there /\ r.last # 0 /\ r.shows \in {"started", "error"} => runs'[j][r.last].status = r.shows
  BY <1>5, <1>6, <1>7
<1>. QED BY <1>3, <1>6, <1>7, <1>8, SetShown

LEMMA ByHandShown == ASSUME ShowInv, NEW c \in Callers, PromptRunByHand(c)
                     PROVE  \A k \in Jobs : ShowPart(k)' /\ LivePart(k)'
<1>0. Types /\ c \in Workers /\ work[c].at = "answered"
  BY DEF ShowInv, Workers, PromptRunByHand
<1>1. PICK j \in Jobs : j = work[c].job
  BY <1>0, WorkerTypes
<1>2. job[j] \in Rows /\ work[c].run \in Nat /\ work[c].row.on \in BOOLEAN
  BY <1>0, <1>1, WorkerTypes, Reading DEF Types, JobOK
<1>3. PICK next \in Nat, shows \in Statuses \cup {"blocked"} :
         /\ shows = "blocked" \/ shows = Shown(c)
         /\ job' = Set(j, [job[j] EXCEPT !.on = work[c].row.on, !.next = next,
                                         !.last = work[c].run, !.shows = shows])
  BY <1>0, <1>1, ByHandStep
<1>4. runs' = Outcome(c) /\ UNCHANGED want
  BY DEF PromptRunByHand, owners
<1>. DEFINE n == work[c].run
            on == work[c].row.on
            r == [job[j] EXCEPT !.on = on, !.next = next, !.last = n, !.shows = shows]
<1>5. job' = Set(j, r) /\ n \in Nat /\ on \in BOOLEAN
  BY <1>2, <1>3
<1>. HIDE DEF n, on
<1>6. r \in Rows /\ r.there = job[j].there /\ r.last = n /\ r.shows = shows
  BY <1>2, <1>5 DEF Rows
<1>. HIDE DEF r
<1>7. /\ RunsOK' /\ Len(runs'[j]) >= Len(runs[j]) /\ want[j] # "none"
      /\ \A k \in Jobs : k # j => runs'[k] = runs[k]
      /\ \A i \in 1 .. Len(runs'[j]) : runs'[j][i].status = "gone" =>
             i \in 1 .. Len(runs[j]) /\ runs[j][i].status = "gone"
      /\ job[j].there /\ ~work[c].ok => runs'[j][n].status = "error"
  BY <1>0, <1>1, <1>4, AnswerKeeps DEF n
<1>8. job[j].there /\ r.last # 0 /\ r.shows \in {"started", "error"} => runs'[j][r.last].status = r.shows
  BY <1>3, <1>6, <1>7 DEF Shown
<1>. QED BY <1>4, <1>5, <1>6, <1>7, <1>8, SetShown

LEMMA AnsweredShown == ASSUME ShowInv, NEW w \in Workers, AutoAnswered(w)
                       PROVE  \A k \in Jobs : ShowPart(k)' /\ LivePart(k)'
<1>0. Types
  BY DEF ShowInv
<1>1. PICK j \in Jobs : j = work[w].job
  BY <1>0, AnsweredStep
<1>2. PICK n : n = work[w].run
  OBVIOUS
<1>3. /\ work[w].at = "answered" /\ n \in 1 .. Len(runs[j]) /\ runs' = Outcome(w) /\ UNCHANGED want
      /\ \/ UNCHANGED job /\ \/ work[w].ok
                             \/ job[j].last # n
                             \/ ~work[w].blocked /\ job[j].shows # "started"
         \/ \E shows \in Statuses \cup {"none", "blocked"} :
               job' = [job EXCEPT ![j] = [job[j] EXCEPT !.last = 0, !.shows = shows]]
  BY <1>0, <1>1, <1>2, AnsweredStep
<1>4. /\ RunsOK' /\ Len(runs'[j]) >= Len(runs[j]) /\ want[j] # "none"
      /\ \A k \in Jobs : k # j => runs'[k] = runs[k]
      /\ \A i \in 1 .. Len(runs'[j]) : runs'[j][i].status = "gone" =>
             i \in 1 .. Len(runs[j]) /\ runs[j][i].status = "gone"
      /\ job[j].there /\ ~work[w].ok => runs'[j][n].status = "error"
      /\ \A i \in 1 .. Len(runs[j]) : i # n \/ work[w].ok => runs'[j][i] = runs[j][i]
  <2>1. work[w].at = "answered" /\ runs' = Outcome(w)
    BY <1>3
  <2>2. /\ RunsOK' /\ Len(runs'[j]) >= Len(runs[j]) /\ want[j] # "none"
        /\ \A k \in Jobs : k # j => runs'[k] = runs[k]
        /\ \A i \in 1 .. Len(runs'[j]) : runs'[j][i].status = "gone" =>
               i \in 1 .. Len(runs[j]) /\ runs[j][i].status = "gone"
        /\ job[j].there /\ ~work[w].ok => runs'[j][work[w].run].status = "error"
        /\ \A i \in 1 .. Len(runs[j]) : i # work[w].run \/ work[w].ok => runs'[j][i] = runs[j][i]
    BY <1>1, <2>1, AnswerKeeps
  <2>. QED BY <1>2, <2>2
<1>5. /\ job \in [Jobs -> Rows] /\ ShowPart(j) /\ LivePart(j) /\ job[j].there \in BOOLEAN
      /\ job[j].last \in 0 .. Len(runs[j]) /\ Len(runs[j]) \in Nat
  BY <1>0, Reading, LenProperties DEF ShowInv, Types, JobOK, LastOK, RunsOK
<1>. DEFINE Kept == UNCHANGED job /\ \/ work[w].ok
                                     \/ job[j].last # n
                                     \/ ~work[w].blocked /\ job[j].shows # "started"
            Emptied == \E shows \in Statuses \cup {"none", "blocked"} :
                          job' = [job EXCEPT ![j] = [job[j] EXCEPT !.last = 0, !.shows = shows]]
<1>6. CASE Kept
  <2>1. job[j].there = FALSE => job[j].last = 0 /\ job[j].on = FALSE /\ job[j].next = 0
    BY <1>5 DEF LivePart
  <2>2. ShowPart(j)'
    <3>. SUFFICES ASSUME job[j].last # 0, job[j].shows \in {"started", "error"}
                  PROVE  runs'[j][job[j].last].status = job[j].shows
      BY <1>6 DEF ShowPart
    <3>1. job[j].last \in 1 .. Len(runs[j]) /\ job[j].there
      BY <1>5, <2>1
    <3>2. runs[j][job[j].last].status = job[j].shows
      BY <1>5 DEF ShowPart
    <3>3. CASE work[w].ok \/ job[j].last # n
      BY <1>4, <3>1, <3>2, <3>3
    <3>4. CASE ~work[w].ok /\ job[j].last = n
      BY <1>4, <1>6, <3>1, <3>4
    <3>. QED BY <3>3, <3>4
  <2>3. \A k \in Jobs : k # j => Same(k)
    BY <1>3, <1>4, <1>6 DEF Same
  <2>. QED BY <1>3, <1>4, <1>6, <2>1, <2>2, <2>3, OneShown
<1>7. CASE Emptied
  <2>0. PICK shows \in Statuses \cup {"none", "blocked"} :
           job' = [job EXCEPT ![j] = [job[j] EXCEPT !.last = 0, !.shows = shows]]
    BY <1>7
  <2>1. /\ job'[j] = [job[j] EXCEPT !.last = 0, !.shows = shows] /\ job[j] \in Rows
        /\ \A k \in Jobs : k # j => job'[k] = job[k]
    BY <1>5, <2>0
  <2>2. job'[j].last = 0 /\ job'[j].there = job[j].there /\ job'[j].on = job[j].on /\ job'[j].next = job[j].next
    BY <2>1 DEF Rows
  <2>3. job[j].there = FALSE => job'[j].last = 0 /\ job'[j].on = FALSE /\ job'[j].next = 0
    BY <1>5, <2>2 DEF LivePart
  <2>4. ShowPart(j)'
    BY <2>2 DEF ShowPart
  <2>5. \A k \in Jobs : k # j => Same(k)
    BY <1>3, <1>4, <2>1 DEF Same
  <2>. QED BY <1>3, <1>4, <2>2, <2>3, <2>4, <2>5, OneShown
<1>8. Kept \/ Emptied
  BY <1>3
<1>. HIDE DEF Kept, Emptied
<1>. QED BY <1>6, <1>7, <1>8

\* A run is added to the log, and the row that shows another stays.
LEMMA AddedShown == ASSUME ShowInv, NEW j \in Jobs, NEW q \in RunRows, runs' = WithRun(j, q), q.status # "gone",
                           UNCHANGED <<job, want>>, want[j] # "none"
                    PROVE  \A k \in Jobs : ShowPart(k)' /\ LivePart(k)'
<1>0. Types /\ ShowPart(j) /\ LivePart(j)
  BY DEF ShowInv
<1>1. /\ Grows /\ Len(runs[j]) \in Nat /\ Len(runs'[j]) = Len(runs[j]) + 1
      /\ runs'[j][Len(runs[j]) + 1] = q
      /\ \A i \in 1 .. Len(runs[j]) : runs'[j][i] = runs[j][i]
      /\ \A i \in 1 .. Len(runs'[j]) : i \in 1 .. Len(runs[j]) \/ i = Len(runs[j]) + 1
      /\ \A k \in Jobs : k # j => runs'[k] = runs[k]
  BY <1>0, AppendedStatus
<1>2. RunsOK' /\ Len(runs'[j]) >= Len(runs[j])
  BY <1>1 DEF Grows
<1>3. \A i \in 1 .. Len(runs'[j]) : runs'[j][i].status = "gone" =>
          i \in 1 .. Len(runs[j]) /\ runs[j][i].status = "gone"
  BY <1>1
<1>4. job[j].there = FALSE => job[j].last = 0 /\ job[j].on = FALSE /\ job[j].next = 0
  BY <1>0 DEF LivePart
<1>5. ShowPart(j)'
  <2>1. job[j].last \in 0 .. Len(runs[j])
    BY <1>0 DEF Types, LastOK
  <2>2. job[j].last # 0 => job[j].last \in 1 .. Len(runs[j])
    BY <1>1, <2>1
  <2>. QED BY <1>0, <1>1, <2>2 DEF ShowPart
<1>6. \A k \in Jobs : k # j => Same(k)
  BY <1>1 DEF Same
<1>. QED BY <1>2, <1>3, <1>4, <1>5, <1>6, OneShown

LEMMA FoundShown == ASSUME ShowInv, NEW w \in Workers, ThreadFound(w)
                    PROVE  \A k \in Jobs : ShowPart(k)' /\ LivePart(k)'
<1>0. Types
  BY DEF ShowInv
<1>1. PICK j \in Jobs : j = work[w].job
  BY <1>0, FoundStep
<1>2. PICK q \in RunRows : runs' = WithRun(j, q) /\ q.status = "started"
  BY <1>0, <1>1, FoundStep
<1>3. UNCHANGED <<job, want>> /\ want[j] # "none"
  BY <1>0, <1>1, FoundStep DEF ShowInv, CallPart, ThreadFound
<1>. QED BY <1>0, <1>2, <1>3, AddedShown DEF ShowInv

LEMMA StartShown == ASSUME ShowInv, NEW w \in Workers, Starts(w)
                    PROVE  \A k \in Jobs : ShowPart(k)' /\ LivePart(k)'
<1>0. Types /\ \A k \in Jobs : ShowPart(k) /\ LivePart(k)
  BY DEF ShowInv
<1>1. PICK j \in Jobs : j = work[w].job
  BY <1>0, StartStep
<1>2. PICK i \in 1 .. Len(runs[j]) : i = work[w].run
  BY <1>0, <1>1, StartStep
<1>3. UNCHANGED <<job, want>>
  BY <1>0, StartStep
<1>4. UNCHANGED runs \/ runs' = [runs EXCEPT ![j][i] = [runs[j][i] EXCEPT !.turn = "going"]]
  BY <1>0, <1>1, <1>2, StartStep
<1>5. CASE UNCHANGED runs
  BY <1>0, <1>3, <1>5, AllSame, SameShown
<1>6. CASE runs' = [runs EXCEPT ![j][i] = [runs[j][i] EXCEPT !.turn = "going"]]
  <2>1. runs[j][i] \in RunRows
    BY <1>0, RunTypes DEF Types
  <2>2. PICK r \in RunRows : r = [runs[j][i] EXCEPT !.turn = "going"]
    <3>1. [runs[j][i] EXCEPT !.turn = "going"] \in RunRows
      BY <2>1 DEF RunRows
    <3>. QED BY <3>1
  <2>3. r.status = runs[j][i].status
    BY <2>1, <2>2 DEF RunRows
  <2>4. runs' = [runs EXCEPT ![j][i] = r]
    BY <1>6, <2>2
  <2>5. /\ Len(runs'[j]) = Len(runs[j]) /\ runs'[j][i] = r
        /\ \A k \in 1 .. Len(runs[j]) : k # i => runs'[j][k] = runs[j][k]
        /\ \A k \in Jobs : k # j => runs'[k] = runs[k]
    BY <1>0, <2>4, ChangedStatus
  <2>6. \A k \in 1 .. Len(runs[j]) : runs'[j][k].status = runs[j][k].status
    BY <2>3, <2>5
  <2>7. \A k \in Jobs : Same(k)
    BY <1>3, <2>5, <2>6 DEF Same
  <2>. QED BY <1>0, <2>7, SameShown
<1>. QED BY <1>4, <1>5, <1>6

LEMMA EndShown == ASSUME ShowInv, NEW j \in Jobs, EndNext(j)
                  PROVE  \A k \in Jobs : ShowPart(k)' /\ LivePart(k)'
<1>0. Types /\ ShowPart(j) /\ LivePart(j)
  BY DEF ShowInv
<1>1. PICK i \in 1 .. Len(runs[j]) : \E r \in RunRows :
         runs' = [runs EXCEPT ![j][i] = r] /\ Summary(j, i, r) /\ UNCHANGED want
  BY <1>0, EndStep
<1>2. PICK r \in RunRows : runs' = [runs EXCEPT ![j][i] = r] /\ Summary(j, i, r) /\ UNCHANGED want
  BY <1>1
<1>3. /\ Len(runs'[j]) = Len(runs[j]) /\ runs'[j][i] = r
      /\ \A k \in 1 .. Len(runs[j]) : k # i => runs'[j][k] = runs[j][k]
      /\ \A k \in Jobs : k # j => runs'[k] = runs[k]
  BY <1>0, <1>2, ChangedStatus
<1>4. RunsOK'
  <2>1. Types'
    BY <1>0, EndTypes
  <2>. QED BY <2>1 DEF Types
<1>5. /\ job \in [Jobs -> Rows] /\ job[j] \in Rows /\ job[j].there \in BOOLEAN
      /\ job[j].last \in 0 .. Len(runs[j]) /\ Len(runs[j]) \in Nat
  BY <1>0, Reading, LenProperties DEF Types, JobOK, LastOK, RunsOK
<1>6. \/ r.status = runs[j][i].status /\ UNCHANGED job
      \/ \E status \in Statuses :
            /\ r.status = IF runs[j][i].status = "gone" THEN "gone" ELSE status
            /\ \/ UNCHANGED job /\ (job[j].last # i \/ job[j].shows = "blocked")
               \/ job[j].last = i /\ job' = [job EXCEPT ![j] = [job[j] EXCEPT !.shows = status]]
  BY <1>2 DEF Summary
<1>7. CASE r.status = runs[j][i].status /\ UNCHANGED job
  <2>1. \A k \in 1 .. Len(runs[j]) : runs'[j][k].status = runs[j][k].status
    BY <1>3, <1>7
  <2>2. \A k \in Jobs : Same(k)
    BY <1>2, <1>3, <1>7, <2>1 DEF Same
  <2>. QED BY <2>2, SameShown DEF ShowInv
<1>8. CASE \E status \in Statuses :
            /\ r.status = IF runs[j][i].status = "gone" THEN "gone" ELSE status
            /\ \/ UNCHANGED job /\ (job[j].last # i \/ job[j].shows = "blocked")
               \/ job[j].last = i /\ job' = [job EXCEPT ![j] = [job[j] EXCEPT !.shows = status]]
  <2>0. PICK status \in Statuses :
            /\ r.status = IF runs[j][i].status = "gone" THEN "gone" ELSE status
            /\ \/ UNCHANGED job /\ (job[j].last # i \/ job[j].shows = "blocked")
               \/ job[j].last = i /\ job' = [job EXCEPT ![j] = [job[j] EXCEPT !.shows = status]]
    BY <1>8
  <2>1. /\ job'[j].there = job[j].there /\ job'[j].last = job[j].last
        /\ job'[j].on = job[j].on /\ job'[j].next = job[j].next
        /\ \A k \in Jobs : k # j => job'[k] = job[k]
        /\ \/ job[j].last # i /\ job'[j].shows = job[j].shows
           \/ job'[j].shows = "blocked"
           \/ job[j].last = i /\ job'[j].shows = status
    <3>1. CASE UNCHANGED job /\ (job[j].last # i \/ job[j].shows = "blocked")
      BY <3>1
    <3>2. CASE job[j].last = i /\ job' = [job EXCEPT ![j] = [job[j] EXCEPT !.shows = status]]
      <4>1. job'[j] = [job[j] EXCEPT !.shows = status] /\ \A k \in Jobs : k # j => job'[k] = job[k]
        BY <1>5, <3>2
      <4>. QED BY <1>5, <3>2, <4>1 DEF Rows
    <3>. QED BY <2>0, <3>1, <3>2
  <2>2. \A k \in 1 .. Len(runs'[j]) : runs'[j][k].status = "gone" =>
            k \in 1 .. Len(runs[j]) /\ runs[j][k].status = "gone"
    <3>. SUFFICES ASSUME NEW k \in 1 .. Len(runs[j]), runs'[j][k].status = "gone"
                  PROVE  runs[j][k].status = "gone"
      BY <1>3
    <3>1. CASE k # i
      BY <1>3, <3>1
    <3>2. CASE k = i
      BY <1>3, <2>0, <3>2 DEF Statuses
    <3>. QED BY <3>1, <3>2
  <2>3. job[j].there = FALSE => job'[j].last = 0 /\ job'[j].on = FALSE /\ job'[j].next = 0
    BY <1>0, <2>1 DEF LivePart
  <2>4. ShowPart(j)'
    <3>. SUFFICES ASSUME job[j].last # 0, job'[j].shows \in {"started", "error"}
                  PROVE  runs'[j][job[j].last].status = job'[j].shows
      BY <2>1 DEF ShowPart
    <3>1. job[j].last \in 1 .. Len(runs[j]) /\ job[j].there
      BY <1>5, <2>1, <2>3
    <3>2. CASE job[j].last # i /\ job'[j].shows = job[j].shows
      BY <1>0, <1>3, <3>1, <3>2 DEF ShowPart
    <3>3. CASE job[j].last = i /\ job'[j].shows = status
      <4>1. runs[j][i].status # "gone"
        BY <1>0, <3>1 DEF LivePart
      <4>. QED BY <1>3, <2>0, <3>3, <4>1
    <3>. QED BY <2>1, <3>2, <3>3
  <2>5. want[j] # "none" /\ want'[j] # "none"
    <3>1. Len(runs[j]) # 0
      BY <1>5
    <3>. QED BY <1>0, <1>2, <3>1 DEF LivePart
  <2>6. \A k \in Jobs : k # j => Same(k)
    BY <1>2, <1>3, <2>1 DEF Same
  <2>7. Len(runs'[j]) >= Len(runs[j]) /\ job'[j].there = job[j].there
    BY <1>3, <1>5, <2>1
  <2>. QED BY <1>4, <2>2, <2>3, <2>4, <2>5, <2>6, <2>7, OneShown
<1>. QED BY <1>6, <1>7, <1>8

\* A run is added and its row shows it, or shows none.
LEMMA TakenShown == ASSUME ShowInv, NEW j \in Jobs, NEW q \in RunRows, NEW r \in Rows,
                           runs' = WithRun(j, q), q.status # "gone", job' = Set(j, r), r.there = job[j].there,
                           r.last \in {Len(runs[j]) + 1, 0}, r.shows \in {"blocked", q.status},
                           UNCHANGED want, want[j] # "none"
                    PROVE  \A k \in Jobs : ShowPart(k)' /\ LivePart(k)'
<1>0. Types
  BY DEF ShowInv
<1>1. /\ Grows /\ Len(runs[j]) \in Nat /\ Len(runs'[j]) = Len(runs[j]) + 1
      /\ runs'[j][Len(runs[j]) + 1] = q
      /\ \A i \in 1 .. Len(runs[j]) : runs'[j][i] = runs[j][i]
      /\ \A i \in 1 .. Len(runs'[j]) : i \in 1 .. Len(runs[j]) \/ i = Len(runs[j]) + 1
      /\ \A k \in Jobs : k # j => runs'[k] = runs[k]
  BY <1>0, AppendedStatus
<1>2. RunsOK' /\ Len(runs'[j]) >= Len(runs[j])
  BY <1>1 DEF Grows
<1>3. \A i \in 1 .. Len(runs'[j]) : runs'[j][i].status = "gone" =>
          i \in 1 .. Len(runs[j]) /\ runs[j][i].status = "gone"
  BY <1>1
<1>4. r.last # 0 /\ r.shows \in {"started", "error"} => runs'[j][r.last].status = r.shows
  BY <1>1
<1>. QED BY <1>1, <1>2, <1>3, <1>4, SetShown

LEMMA BlockedShown == ASSUME ShowInv, NEW row \in [job : Jobs, next : Nat], Blocked(row), UNCHANGED want,
                             want[row.job] # "none"
                      PROVE  \A k \in Jobs : ShowPart(k)' /\ LivePart(k)'
<1>0. Types
  BY DEF ShowInv
<1>1. PICK j \in Jobs : j = row.job
  OBVIOUS
<1>2. PICK q \in RunRows : runs' = WithRun(j, q) /\ q.status = "error"
  BY <1>0, <1>1, BlockedStep
<1>3. PICK r \in Rows : /\ job' = Set(j, r) /\ r.shows = "error" /\ r.last \in {Len(runs[j]) + 1, 0}
                        /\ r.there = job[j].there
  BY <1>0, <1>1, BlockedStep
<1>. QED BY <1>1, <1>2, <1>3, TakenShown

LEMMA AutoNowShown == ASSUME ShowInv, NEW c \in Callers, RunAutoNow(c)
                      PROVE  \A k \in Jobs : ShowPart(k)' /\ LivePart(k)'
<1>0. Types /\ c \in Workers
  BY DEF ShowInv, Workers
<1>1. PICK j \in Jobs : j = work[c].job
  BY <1>0, AutoNowStep
<1>2. PICK q \in RunRows : runs' = WithRun(j, q) /\ q.status = "started"
  <2>1. Run(now, "manual", "started") \in RunRows /\ Run(now, "manual", "started").status = "started"
    BY <1>0, NewRun DEF Types, TimeOK, Statuses, Run
  <2>2. runs' = WithRun(j, Run(now, "manual", "started"))
    BY <1>0, <1>1, AutoNowStep
  <2>. QED BY <2>1, <2>2
<1>3. PICK next \in Nat, shows \in {"blocked", "started"} :
         job' = Set(j, [job[j] EXCEPT !.on = work[c].row.on, !.next = next,
                                      !.last = Len(runs[j]) + 1, !.shows = shows])
  BY <1>0, <1>1, AutoNowStep
<1>4. job[j] \in Rows /\ work[c].row.on \in BOOLEAN /\ Len(runs[j]) \in Nat
  BY <1>0, <1>1, WorkerTypes, Reading, LenProperties DEF Types, JobOK, RunsOK, RunAutoNow
<1>. DEFINE on == work[c].row.on
            n == Len(runs[j]) + 1
<1>5. on \in BOOLEAN /\ n \in Nat
  BY <1>4
<1>6. job' = Set(j, [job[j] EXCEPT !.on = on, !.next = next, !.last = n, !.shows = shows])
  BY <1>3
<1>. HIDE DEF on, n
<1>7. PICK r \in Rows : r = [job[j] EXCEPT !.on = on, !.next = next, !.last = n, !.shows = shows]
  <2>1. [job[j] EXCEPT !.on = on, !.next = next, !.last = n, !.shows = shows] \in Rows
    BY <1>4, <1>5 DEF Rows, Statuses
  <2>. QED BY <2>1
<1>8. job' = Set(j, r) /\ r.last = n /\ r.shows = shows /\ r.there = job[j].there
  BY <1>4, <1>6, <1>7 DEF Rows
<1>9. UNCHANGED want /\ want[j] # "none"
  BY <1>0, <1>1 DEF ShowInv, CallPart, RunAutoNow, owners
<1>. QED BY <1>2, <1>8, <1>9, TakenShown DEF n

LEMMA TakePromptShown == ASSUME ShowInv, TakePrompt
                         PROVE  \A k \in Jobs : ShowPart(k)' /\ LivePart(k)'
<1>0. Types /\ CallPart /\ \A j \in Jobs : ShowPart(j) /\ LivePart(j)
  BY DEF ShowInv
<1>1. PICK row \in Pending(Prompts) : Blocked(row) \/ UNCHANGED <<job, runs>>
  BY DEF TakePrompt
<1>2. row \in [job : Jobs, next : Nat] /\ want[row.job] # "none" /\ UNCHANGED want
  BY <1>0, PendingTypes, PendingMade DEF TakePrompt, owners
<1>3. CASE Blocked(row)
  BY <1>2, <1>3, BlockedShown
<1>4. CASE UNCHANGED <<job, runs>>
  BY <1>0, <1>2, <1>4, AllSame, SameShown
<1>. QED BY <1>1, <1>3, <1>4

LEMMA TakeAutoShown == ASSUME ShowInv, TakeAuto
                       PROVE  \A k \in Jobs : ShowPart(k)' /\ LivePart(k)'
<1>0. Types /\ CallPart /\ \A j \in Jobs : ShowPart(j) /\ LivePart(j)
  BY DEF ShowInv
<1>1. PICK row \in Pending(Autos) :
         \/ Blocked(row)
         \/ /\ runs' = WithRun(row.job, Run(row.next, "schedule", "started"))
            /\ job' = Set(row.job, Moved(job[row.job], Len(runs[row.job]) + 1))
            /\ work' = [work EXCEPT !["alarm"] =
                  [Idle EXCEPT !.at = "start", !.does = "run", !.job = row.job, !.start = now,
                               !.run = Len(runs[row.job]) + 1]]
  BY DEF TakeAuto
<1>2. row \in [job : Jobs, next : Nat] /\ want[row.job] # "none" /\ UNCHANGED want
  BY <1>0, PendingTypes, PendingMade DEF TakeAuto, owners
<1>3. CASE Blocked(row)
  BY <1>2, <1>3, BlockedShown
<1>4. CASE ~Blocked(row)
  <2>1. PICK j \in Jobs : j = row.job
    BY <1>2
  <2>2. PICK q \in RunRows : runs' = WithRun(j, q) /\ q.status = "started"
    BY <1>0, <1>1, <1>2, <1>4, <2>1, TakeAutoStep
  <2>3. PICK r \in Rows : /\ job' = Set(j, r) /\ r.shows = "started" /\ r.last = Len(runs[j]) + 1
                          /\ r.there = job[j].there
    BY <1>0, <1>1, <1>2, <1>4, <2>1, TakeAutoStep
  <2>. QED BY <1>2, <2>1, <2>2, <2>3, TakenShown
<1>. QED BY <1>3, <1>4

LEMMA LookupFailsShown == ASSUME ShowInv, LookupFails
                          PROVE  \A k \in Jobs : ShowPart(k)' /\ LivePart(k)'
<1>0. Types /\ \A j \in Jobs : ShowPart(j) /\ LivePart(j)
  BY DEF ShowInv
<1>1. UNCHANGED want
  BY DEF LookupFails, owners
<1>2. CASE UNCHANGED <<job, runs>>
  BY <1>0, <1>1, <1>2, AllSame, SameShown
<1>3. CASE RecordDueWorkspaceUnavailable
  <2>. SUFFICES ASSUME NEW j \in Jobs PROVE ShowPart(j)' /\ LivePart(j)'
    OBVIOUS
  <2>1. Len(runs[j]) \in Nat /\ job \in [Jobs -> Rows] /\ RunsOK
    BY <1>0, LenProperties DEF Types, RunsOK, JobOK
  <2>2. CASE j \notin DueAt(wake.now)
    <3>1. job'[j] = job[j] /\ runs'[j] = runs[j]
      BY <1>0, <1>3, <2>2, UnavailableStep
    <3>2. Same(j)
      BY <1>1, <3>1 DEF Same
    <3>. QED BY <1>0, <3>2, SameShown
  <2>3. CASE j \in DueAt(wake.now)
    <3>1. /\ job'[j].shows = "error" /\ job'[j].last \in {Len(runs[j]) + 1, 0}
          /\ job'[j].there = job[j].there /\ Len(runs'[j]) = Len(runs[j]) + 1
          /\ runs'[j][Len(runs[j]) + 1].status = "error"
          /\ \A i \in 1 .. Len(runs[j]) : runs'[j][i] = runs[j][i]
      BY <1>0, <1>3, <2>3, UnavailableStep
    <3>2. job[j].on /\ job[j].on \in BOOLEAN /\ job[j].there \in BOOLEAN
      BY <2>1, <2>3, Reading DEF DueAt
    <3>3. job[j].there # FALSE
      BY <1>0, <3>2 DEF LivePart
    <3>4. want'[j] # "none"
      BY <1>0, <1>1, <3>3 DEF LivePart
    <3>5. ShowPart(j)'
      BY <3>1 DEF ShowPart
    <3>6. \A i \in 1 .. Len(runs'[j]) : i \in 1 .. Len(runs[j]) \/ i = Len(runs[j]) + 1
      BY <2>1, <3>1
    <3>7. \A i \in 1 .. Len(runs'[j]) : runs'[j][i].status = "gone" => job'[j].there = FALSE
      BY <1>0, <3>1, <3>6 DEF LivePart
    <3>. QED BY <3>1, <3>3, <3>4, <3>5, <3>7 DEF LivePart
  <2>. QED BY <2>2, <2>3
<1>. QED BY <1>2, <1>3 DEF LookupFails

LEMMA InitShow == Init => ShowInv
<1>. SUFFICES ASSUME Init PROVE ShowInv
  OBVIOUS
<1>1. Types
  BY InitTypes
<1>2. CallPart
  BY DEF Init, CallPart, Idle, Asleep
<1>3. \A j \in Jobs : job[j] = NoRow /\ runs[j] = <<>>
  BY DEF Init
<1>4. \A j \in Jobs : ShowPart(j)
  BY <1>3 DEF ShowPart, NoRow
<1>5. ASSUME NEW j \in Jobs PROVE LivePart(j)
  <2>1. Len(runs[j]) = 0
    BY <1>3
  <2>2. job[j].there = FALSE /\ job[j].last = 0 /\ job[j].on = FALSE /\ job[j].next = 0
    BY <1>3 DEF NoRow
  <2>. QED BY <2>1, <2>2 DEF LivePart
<1>. QED BY <1>1, <1>2, <1>4, <1>5 DEF ShowInv

LEMMA NextShow == ShowInv /\ [Next]_vars => ShowInv'
<1>. SUFFICES ASSUME ShowInv, [Next]_vars PROVE ShowInv'
  OBVIOUS
<1>0. Types' /\ CallPart' /\ Types /\ \A j \in Jobs : ShowPart(j) /\ LivePart(j)
  BY NextTypes, NextCalls DEF ShowInv
<1>1. \A j \in Jobs : ShowPart(j)' /\ LivePart(j)'
  <2>1. CASE UNCHANGED <<job, runs, want>>
    BY <1>0, <2>1, AllSame, SameShown
  <2>2. CASE OwnerNext
    <3>1. CASE \E j \in Jobs : Create(j) \/ Delete(j)
      BY <3>1, CreateShown, DeleteShown
    <3>2. CASE DisableAllScheduledPrompts
      BY <3>2, DisableShown
    <3>3. CASE \E c \in Callers : Update(c)
      BY <3>3, UpdateShown
    <3>4. CASE \E c \in Callers : CallRefused(c) \/ CallThrows(c) \/ \E j \in Jobs, does \in {"update", "run"} : Reads(c, j, does)
      BY <2>1, <3>4 DEF CallRefused, CallThrows, Reads, owners
    <3>. QED BY <2>2, <3>1, <3>2, <3>3, <3>4 DEF OwnerNext
  <2>3. CASE \E c \in Callers : CallNext(c)
    <3>1. CASE \E c \in Callers : RunPromptNow(c)
      BY <2>1, <3>1 DEF RunPromptNow, owners
    <3>2. CASE \E c \in Callers : PromptRunByHand(c)
      BY <3>2, ByHandShown
    <3>3. CASE \E c \in Callers : RunAutoNow(c)
      BY <3>3, AutoNowShown
    <3>. QED BY <2>3, <3>1, <3>2, <3>3 DEF CallNext
  <2>4. CASE \E w \in Workers : DispatchNext(w)
    BY <2>4, FoundShown, StartShown, AnsweredShown DEF DispatchNext
  <2>5. CASE \E j \in Jobs : EndNext(j)
    BY <2>5, EndShown
  <2>6. CASE AlarmNext
    <3>1. CASE LookupFails
      BY <3>1, LookupFailsShown
    <3>2. CASE TakePrompt \/ TakeAuto
      BY <3>2, TakePromptShown, TakeAutoShown
    <3>3. CASE PromptDispatched
      BY <3>3, DispatchedShown
    <3>4. CASE AlarmFires \/ LookedUp \/ LimitsRead \/ PromptsDone \/ AlarmDone
      BY <2>1, <3>4 DEF AlarmFires, LookedUp, LimitsRead, PromptsDone, AlarmDone, owners
    <3>. QED BY <2>6, <3>1, <3>2, <3>3, <3>4 DEF AlarmNext
  <2>7. CASE AlarmThrows \/ Restart \/ Tick \/ UNCHANGED vars
    BY <2>1, <2>7 DEF AlarmThrows, Restart, Tick, owners, vars
  <2>. QED BY <2>2, <2>3, <2>4, <2>5, <2>6, <2>7 DEF Next
<1>. QED BY <1>0, <1>1 DEF ShowInv

\* What a job shows of its last run agrees with the log of the runs, in whichever order
\* the dispatch's answer, the run's end, edits, deletions and restarts come.
THEOREM ShownFollowsTheLog == Spec => []ShownByItsRun
<1>1. ShowInv => ShownByItsRun
  BY DEF ShowInv, ShowPart, ShownByItsRun
<1>. QED BY <1>1, InitShow, NextShow, PTL DEF Spec

-----------------------------------------------------------------------------
(* Occurrences *)

\* The runs of the schedule so far are of the past, as the handler under way sees it.
PastPart(j) == \A i \in 1 .. Len(runs[j]) : runs[j][i].by = "schedule" =>
                   runs[j][i].due <= now /\ (wake.on => runs[j][i].due <= wake.now)

\* No run was made of the occurrence, unless an edit put it back.
Unused(j, t) == (\A i \in 1 .. Len(runs[j]) : runs[j][i].by = "schedule" => runs[j][i].due # t)
                \/ <<j, t>> \in rewound

OncePart(j) == \A i, k \in 1 .. Len(runs[j]) :
                   /\ i # k /\ runs[j][i].due = runs[j][k].due
                   /\ runs[j][i].by = "schedule" /\ runs[j][k].by = "schedule"
                   => <<j, runs[j][i].due>> \in rewound

NextPart(j) == job[j].next # 0 => Unused(j, job[j].next)

AutoPart(j) == PastPart(j) /\ OncePart(j) /\ NextPart(j)

\* What the handler has read and not yet dispatched: one row of a job, of an occurrence
\* that has no run. A thread is looked for where a prompt is dispatched.
TodoPart == /\ wake.on => wake.now <= now
            /\ work["alarm"].at = "thread" => work["alarm"].job \in Prompts
            /\ wake.phase \in {"none", "look", "limits"} => wake.todo = {}
            /\ wake.phase = "prompts" => \A row \in wake.todo : row.job \in Prompts
            /\ wake.phase = "autos" =>
                   /\ \A row \in wake.todo : row.job \in Autos /\ row.next <= wake.now /\ Unused(row.job, row.next)
                   /\ \A row, other \in wake.todo : row.job = other.job => row = other

OnceInv == ShowInv /\ WakePart /\ TodoPart /\ \A j \in Autos : AutoPart(j)

\* The scheduled runs of a job that a step leaves are those there were.
Kept(j) == \A i \in 1 .. Len(runs'[j]) : runs'[j][i].by = "schedule" =>
               i \in 1 .. Len(runs[j]) /\ runs[j][i].by = "schedule" /\ runs[j][i].due = runs'[j][i].due

\* Time goes on, and a handler sees it as it was when it began.
Clock == /\ now' \in Nat /\ now \in Nat /\ now' >= now
         /\ wake'.on => wake'.now = now \/ (wake.on /\ wake'.now = wake.now)

LEMMA UnusedKept == ASSUME NEW j, Kept(j), rewound \subseteq rewound', NEW t, Unused(j, t)
                    PROVE  Unused(j, t)'
BY DEF Kept, Unused

\* An occurrence of the future has no run.
LEMMA FutureUnused == ASSUME NEW j \in Jobs, RunsOK, PastPart(j), NEW n \in Nat, NEW t \in Nat, t > n,
                             now <= n \/ (wake.on /\ wake.now <= n), now \in Nat, wake \in Wakes
                      PROVE  Unused(j, t)
<1>1. ASSUME NEW i \in 1 .. Len(runs[j]), runs[j][i].by = "schedule" PROVE runs[j][i].due # t
  <2>1. runs[j][i].due \in Nat
    BY RunTypes DEF RunRows
  <2>2. wake.now \in Nat
    BY DEF Wakes
  <2>. QED BY <1>1, <2>1, <2>2 DEF PastPart
<1>. QED BY <1>1 DEF Unused

\* A step without a run of the schedule. The next time it writes is none, the one there
\* was, of the future, or one put back.
LEMMA KeptAuto == ASSUME Types, NEW j \in Autos, AutoPart(j), Kept(j), Clock, rewound \subseteq rewound',
                         RunsOK', wake' \in Wakes,
                         \/ job'[j].next = 0 \/ job'[j].next = job[j].next
                         \/ job'[j].next > now \/ <<j, job'[j].next>> \in rewound',
                         job'[j].next \in Nat
                  PROVE  AutoPart(j)'
<1>0. j \in Jobs /\ RunsOK /\ wake \in Wakes /\ now \in Nat
  BY DEF Jobs, Types, WakeOK, TimeOK
<1>1. PastPart(j)'
  <2>. SUFFICES ASSUME NEW i \in 1 .. Len(runs'[j]), runs'[j][i].by = "schedule"
                PROVE  runs'[j][i].due <= now' /\ (wake'.on => runs'[j][i].due <= wake'.now)
    BY DEF PastPart
  <2>1. i \in 1 .. Len(runs[j]) /\ runs[j][i].by = "schedule" /\ runs[j][i].due = runs'[j][i].due
    BY DEF Kept
  <2>2. runs[j][i].due \in Nat
    BY <1>0, <2>1, RunTypes DEF RunRows
  <2>3. runs[j][i].due <= now /\ (wake.on => runs[j][i].due <= wake.now)
    BY <2>1 DEF AutoPart, PastPart
  <2>. QED BY <2>1, <2>2, <2>3 DEF Clock
<1>2. OncePart(j)'
  <2>. SUFFICES ASSUME NEW i \in 1 .. Len(runs'[j]), NEW k \in 1 .. Len(runs'[j]),
                       i # k, runs'[j][i].due = runs'[j][k].due,
                       runs'[j][i].by = "schedule", runs'[j][k].by = "schedule"
                PROVE  <<j, runs'[j][i].due>> \in rewound'
    BY DEF OncePart
  <2>1. /\ i \in 1 .. Len(runs[j]) /\ runs[j][i].by = "schedule" /\ runs[j][i].due = runs'[j][i].due
        /\ k \in 1 .. Len(runs[j]) /\ runs[j][k].by = "schedule" /\ runs[j][k].due = runs'[j][k].due
    BY DEF Kept
  <2>2. <<j, runs[j][i].due>> \in rewound
    BY <2>1 DEF AutoPart, OncePart
  <2>. QED BY <2>1, <2>2
<1>3. NextPart(j)'
  <2>0. PICK t \in Nat : t = job'[j].next
    OBVIOUS
  <2>. SUFFICES ASSUME t # 0 PROVE Unused(j, t)'
    BY <2>0 DEF NextPart, Unused
  <2>1. CASE t = job[j].next
    <3>1. Unused(j, t)
      BY <2>1 DEF AutoPart, NextPart
    <3>. QED BY <3>1, UnusedKept
  <2>2. CASE t > now
    <3>1. Unused(j, t)
      BY <1>0, <2>2, FutureUnused DEF AutoPart
    <3>. QED BY <3>1, UnusedKept
  <2>3. CASE <<j, t>> \in rewound'
    BY <2>3 DEF Unused
  <2>. QED BY <2>0, <2>1, <2>2, <2>3
<1>. QED BY <1>1, <1>2, <1>3 DEF AutoPart

\* The handler runs an occurrence that has no run, and the next one is of the future.
LEMMA AddedAuto == ASSUME Types, NEW j \in Autos, AutoPart(j), NEW q \in RunRows,
                          Len(runs'[j]) = Len(runs[j]) + 1, runs'[j][Len(runs[j]) + 1] = q,
                          \A i \in 1 .. Len(runs[j]) : runs'[j][i] = runs[j][i],
                          RunsOK', q.by = "schedule", Unused(j, q.due), q.due <= wake.now,
                          wake.on, wake.now <= now, UNCHANGED <<now, rewound>>,
                          wake'.on => wake'.now = wake.now, wake' \in Wakes,
                          job'[j].next = 0 \/ job'[j].next > wake.now, job'[j].next \in Nat
                   PROVE  AutoPart(j)'
<1>0. /\ j \in Jobs /\ RunsOK /\ wake \in Wakes /\ now \in Nat /\ wake.now \in Nat
      /\ Len(runs[j]) \in Nat /\ q.due \in Nat
  BY LenProperties DEF Jobs, Types, RunsOK, WakeOK, TimeOK, Wakes, RunRows
<1>. DEFINE n == Len(runs[j]) + 1
<1>1. \A i \in 1 .. Len(runs'[j]) : i = n \/ i \in 1 .. Len(runs[j])
  BY <1>0
<1>2. \A i \in 1 .. Len(runs'[j]) : runs'[j][i].by = "schedule" =>
          \/ i = n /\ runs'[j][i].due = q.due
          \/ i \in 1 .. Len(runs[j]) /\ runs[j][i].by = "schedule" /\ runs[j][i].due = runs'[j][i].due
  BY <1>0, <1>1
<1>p. \A i \in 1 .. Len(runs'[j]) : runs'[j][i].by = "schedule" => runs'[j][i].due \in Nat /\ runs'[j][i].due <= wake.now
  <2>. SUFFICES ASSUME NEW i \in 1 .. Len(runs'[j]), runs'[j][i].by = "schedule"
                PROVE  runs'[j][i].due \in Nat /\ runs'[j][i].due <= wake.now
    OBVIOUS
  <2>1. CASE i = n
    BY <1>0, <2>1
  <2>2. CASE i \in 1 .. Len(runs[j])
    <3>1. runs'[j][i] = runs[j][i] /\ runs[j][i].due \in Nat
      BY <1>0, <2>2, RunTypes DEF RunRows
    <3>. QED BY <2>2, <3>1 DEF AutoPart, PastPart
  <2>. QED BY <1>1, <2>1, <2>2
<1>3. PastPart(j)'
  <2>. SUFFICES ASSUME NEW i \in 1 .. Len(runs'[j]), runs'[j][i].by = "schedule"
                PROVE  runs'[j][i].due <= now /\ (wake'.on => runs'[j][i].due <= wake.now)
    BY DEF PastPart
  <2>. QED BY <1>0, <1>p
<1>4. OncePart(j)'
  <2>. SUFFICES ASSUME NEW i \in 1 .. Len(runs'[j]), NEW k \in 1 .. Len(runs'[j]),
                       i # k, runs'[j][i].due = runs'[j][k].due,
                       runs'[j][i].by = "schedule", runs'[j][k].by = "schedule"
                PROVE  <<j, runs'[j][i].due>> \in rewound
    BY DEF OncePart
  <2>. HIDE DEF n
  <2>1. CASE i = n
    <3>1. k \in 1 .. Len(runs[j]) /\ runs[j][k].by = "schedule" /\ runs[j][k].due = q.due /\ runs'[j][i].due = q.due
      BY <1>0, <1>1, <1>2, <2>1 DEF n
    <3>. QED BY <3>1 DEF Unused
  <2>2. CASE k = n
    <3>1. i \in 1 .. Len(runs[j]) /\ runs[j][i].by = "schedule" /\ runs[j][i].due = q.due /\ runs'[j][i].due = q.due
      BY <1>0, <1>1, <1>2, <2>2 DEF n
    <3>. QED BY <3>1 DEF Unused
  <2>3. CASE i # n /\ k # n
    <3>1. /\ i \in 1 .. Len(runs[j]) /\ runs[j][i].by = "schedule" /\ runs[j][i].due = runs'[j][i].due
          /\ k \in 1 .. Len(runs[j]) /\ runs[j][k].by = "schedule" /\ runs[j][k].due = runs'[j][k].due
      BY <1>2, <2>3
    <3>. QED BY <3>1 DEF AutoPart, OncePart
  <2>. QED BY <2>1, <2>2, <2>3
<1>5. NextPart(j)'
  <2>0. PICK t \in Nat : t = job'[j].next
    OBVIOUS
  <2>1. t # 0 => \A i \in 1 .. Len(runs'[j]) : runs'[j][i].by = "schedule" => runs'[j][i].due # t
    BY <1>0, <1>p, <2>0
  <2>. QED BY <2>0, <2>1 DEF NextPart, Unused
<1>. QED BY <1>3, <1>4, <1>5 DEF AutoPart

LEMMA StaysKept == ASSUME Types, Stays, NEW j \in Jobs PROVE Kept(j)
<1>1. Len(runs'[j]) = Len(runs[j])
  BY DEF Stays
<1>2. \A i \in 1 .. Len(runs[j]) : runs'[j][i].due = runs[j][i].due /\ runs'[j][i].by = runs[j][i].by
  BY DEF Stays, Grows
<1>. QED BY <1>1, <1>2 DEF Kept

LEMMA SameKept == ASSUME NEW j, runs'[j] = runs[j] PROVE Kept(j)
BY DEF Kept

LEMMA ManualKept == ASSUME Types, NEW k \in Jobs, NEW q \in RunRows, runs' = WithRun(k, q), q.by = "manual", NEW j \in Jobs
                    PROVE  Kept(j)
<1>1. /\ Len(runs[k]) \in Nat /\ Len(runs'[k]) = Len(runs[k]) + 1
      /\ runs'[k][Len(runs[k]) + 1] = q
      /\ \A i \in 1 .. Len(runs[k]) : runs'[k][i] = runs[k][i]
      /\ \A i \in 1 .. Len(runs'[k]) : i \in 1 .. Len(runs[k]) \/ i = Len(runs[k]) + 1
      /\ \A i \in Jobs : i # k => runs'[i] = runs[i]
  BY AppendedStatus
<1>2. CASE j = k
  BY <1>1, <1>2 DEF Kept
<1>3. CASE j # k
  BY <1>1, <1>3, SameKept
<1>. QED BY <1>2, <1>3

\* What a step without a run of the schedule may do to an automation.
KeptStep == /\ Clock /\ rewound \subseteq rewound'
            /\ \A j \in Autos : /\ Kept(j)
                                /\ \/ job'[j].next = 0 \/ job'[j].next = job[j].next
                                   \/ job'[j].next > now \/ <<j, job'[j].next>> \in rewound'

LEMMA KeptAutos == ASSUME OnceInv, Types', KeptStep PROVE \A j \in Autos : AutoPart(j)'
<1>. SUFFICES ASSUME NEW j \in Autos PROVE AutoPart(j)'
  OBVIOUS
<1>1. Types /\ AutoPart(j) /\ j \in Jobs
  BY DEF OnceInv, ShowInv, Jobs
<1>2. RunsOK' /\ wake' \in Wakes /\ job'[j].next \in Nat
  BY <1>1 DEF Types, WakeOK, JobOK, Rows
<1>. QED BY <1>1, <1>2, KeptAuto DEF KeptStep

LEMMA KeptTodo == ASSUME TodoPart, \A j \in Autos : Kept(j), rewound \subseteq rewound', UNCHANGED wake,
                         now \in Nat, now' \in {now, now + 1}, wake.now \in Nat,
                         work'["alarm"].at = "thread" => work'["alarm"].job \in Prompts
                  PROVE  TodoPart'
<1>1. wake'.on => wake'.now <= now'
  BY DEF TodoPart
<1>2. wake.phase = "autos" => \A row \in wake.todo :
          row.job \in Autos /\ row.next <= wake.now /\ Unused(row.job, row.next)'
  <2>. SUFFICES ASSUME wake.phase = "autos", NEW row \in wake.todo
                PROVE  row.job \in Autos /\ row.next <= wake.now /\ Unused(row.job, row.next)'
    OBVIOUS
  <2>1. row.job \in Autos /\ row.next <= wake.now /\ Unused(row.job, row.next)
    BY DEF TodoPart
  <2>. QED BY <2>1, UnusedKept
<1>. QED BY <1>1, <1>2 DEF TodoPart

\* A step of a member, or of a run, which leaves the handler as it is.
LEMMA QuietTodo == ASSUME OnceInv, KeptStep, UNCHANGED wake, now' \in {now, now + 1},
                          work'["alarm"] = work["alarm"] \/ work'["alarm"].at # "thread"
                   PROVE  TodoPart'
<1>1. TodoPart /\ now \in Nat /\ wake.now \in Nat
  BY DEF OnceInv, ShowInv, Types, TimeOK, WakeOK, Wakes
<1>2. work'["alarm"].at = "thread" => work'["alarm"].job \in Prompts
  BY <1>1 DEF TodoPart
<1>. QED BY <1>1, <1>2, KeptTodo DEF KeptStep

LEMMA ClockHeld == ASSUME Types, UNCHANGED wake, now' \in {now, now + 1} PROVE Clock
<1>1. now \in Nat
  BY DEF Types, TimeOK
<1>2. wake'.on => wake.on /\ wake'.now = wake.now
  OBVIOUS
<1>. QED BY <1>1, <1>2 DEF Clock

\* Members.
LEMMA AlarmAside == ASSUME Types, NEW c \in Callers, NEW r, work' = [work EXCEPT ![c] = r]
                    PROVE  work'["alarm"] = work["alarm"]
<1>1. c # "alarm" /\ "alarm" \in Workers /\ work \in [Workers -> WorkRows]
  BY CronConstants DEF Types, WorkOK, Workers
<1>. QED BY <1>1

LEMMA SameStep == ASSUME Types, UNCHANGED <<job, runs, wake, rewound>>, now' \in {now, now + 1} PROVE KeptStep
<1>1. Clock
  BY ClockHeld
<1>2. \A j \in Autos : Kept(j)
  BY SameKept
<1>. QED BY <1>1, <1>2 DEF KeptStep

LEMMA CreateStep == ASSUME Types, NEW k \in Jobs, Create(k) PROVE KeptStep
<1>1. UNCHANGED <<now, runs, wake, rewound>>
  BY DEF Create
<1>2. PICK on \in BOOLEAN, t \in IF k \in Prompts THEN 1 .. now ELSE {now} :
         job' = [job EXCEPT ![k] = [NoRow EXCEPT !.there = TRUE, !.on = on, !.next = IF on THEN NextRun(t) ELSE 0]]
  BY DEF Create
<1>3. job \in [Jobs -> Rows] /\ now \in Nat /\ Autos \subseteq Jobs
  BY DEF Types, JobOK, TimeOK, Jobs
<1>4. ASSUME NEW j \in Autos PROVE job'[j].next \in {0, job[j].next, now + 1}
  <2>1. CASE j # k
    BY <1>2, <1>3, <2>1
  <2>2. CASE j = k
    <3>1. t = now
      BY <1>2, <2>2, CronConstants
    <3>2. job'[j] = [NoRow EXCEPT !.there = TRUE, !.on = on, !.next = IF on THEN NextRun(t) ELSE 0]
      BY <1>2, <1>3, <2>2
    <3>. QED BY <3>1, <3>2 DEF NextRun, NoRow
  <2>. QED BY <2>1, <2>2
<1>5. Clock /\ \A j \in Autos : Kept(j)
  BY <1>1, ClockHeld, SameKept
<1>. QED BY <1>1, <1>3, <1>4, <1>5 DEF KeptStep

LEMMA DeleteStep == ASSUME Types, NEW k \in Jobs, Delete(k) PROVE KeptStep
<1>1. UNCHANGED <<now, wake, rewound>> /\ job' = [job EXCEPT ![k] = NoRow]
  BY DEF Delete
<1>2. job \in [Jobs -> Rows] /\ Autos \subseteq Jobs
  BY DEF Types, JobOK, Jobs
<1>3. \A j \in Autos : job'[j].next = 0 \/ job'[j].next = job[j].next
  BY <1>1, <1>2 DEF NoRow
<1>4. Clock /\ \A j \in Autos : Kept(j)
  BY <1>1, <1>2, ClockHeld, DeletedRuns, StaysKept
<1>. QED BY <1>1, <1>3, <1>4 DEF KeptStep

LEMMA DisableStep == ASSUME Types, DisableAllScheduledPrompts PROVE KeptStep
<1>1. UNCHANGED <<now, runs, wake, rewound>>
  BY DEF DisableAllScheduledPrompts
<1>2. job \in [Jobs -> Rows] /\ Autos \subseteq Jobs
  BY DEF Types, JobOK, Jobs
<1>3. ASSUME NEW j \in Autos PROVE job'[j].next = 0 \/ job'[j].next = job[j].next
  <2>1. job'[j] = IF job[j].on THEN [job[j] EXCEPT !.on = FALSE, !.next = 0] ELSE job[j]
    BY <1>2 DEF DisableAllScheduledPrompts
  <2>2. job[j] \in Rows
    BY <1>2
  <2>. QED BY <2>1, <2>2 DEF Rows
<1>4. Clock /\ \A j \in Autos : Kept(j)
  BY <1>1, ClockHeld, SameKept
<1>. QED BY <1>1, <1>3, <1>4 DEF KeptStep

\* An edit puts a time back where it writes the one it read and another is there.
LEMMA UpdateStep == ASSUME Types, NEW c \in Callers, Update(c) PROVE KeptStep
<1>0. c \in Workers /\ Autos \subseteq Jobs
  BY DEF Workers, Jobs
<1>1. PICK k \in Jobs : k = work[c].job
  BY <1>0, WorkerTypes DEF Update
<1>2. PICK row \in Rows : row = work[c].row
  BY <1>0, <1>1, WorkerTypes DEF Update
<1>3. UNCHANGED <<now, runs, wake>>
  BY DEF Update
<1>4. PICK on \in BOOLEAN, cronChanged \in BOOLEAN :
         /\ job' = Set(k, [job[k] EXCEPT !.on = on, !.next = EditedNext(row, on, cronChanged)])
         /\ rewound' = IF job[k].there /\ EditedNext(row, on, cronChanged) # 0
                          /\ EditedNext(row, on, cronChanged) = row.next
                          /\ EditedNext(row, on, cronChanged) # job[k].next
                       THEN rewound \cup {<<k, EditedNext(row, on, cronChanged)>>} ELSE rewound
  BY <1>1, <1>2 DEF Update
<1>5. /\ job \in [Jobs -> Rows] /\ now \in Nat /\ JobOK /\ job[k] \in Rows /\ row.next \in Nat
      /\ job[k].there \in BOOLEAN
  BY Reading DEF Types, JobOK, TimeOK
<1>6. EditedNext(row, on, cronChanged) \in {0, now + 1, row.next}
  BY DEF EditedNext, NextRun
<1>7. PICK next \in Nat : next = EditedNext(row, on, cronChanged)
  BY <1>5, <1>6
<1>8. PICK r \in Rows : r = [job[k] EXCEPT !.on = on, !.next = next]
  <2>1. [job[k] EXCEPT !.on = on, !.next = next] \in Rows
    BY <1>5 DEF Rows
  <2>. QED BY <2>1
<1>9. r.next = next /\ job' = Set(k, r)
  BY <1>4, <1>5, <1>7, <1>8 DEF Rows
<1>10. /\ job[k].there => job'[k] = r
       /\ ~job[k].there => job'[k] = job[k]
       /\ \A j \in Jobs : j # k => job'[j] = job[j]
  BY <1>5, <1>9, SetRow
<1>11. rewound \subseteq rewound'
  BY <1>4
<1>12. \/ job'[k].next = 0 \/ job'[k].next = job[k].next
       \/ job'[k].next > now \/ <<k, job'[k].next>> \in rewound'
  <2>1. CASE ~job[k].there
    BY <1>10, <2>1
  <2>2. CASE job[k].there
    <3>1. job'[k].next = next
      BY <1>9, <1>10, <2>2
    <3>2. next \in {0, now + 1, row.next}
      BY <1>6, <1>7
    <3>3. CASE next \in {0, now + 1} \/ next = job[k].next
      BY <1>5, <3>1, <3>3
    <3>4. CASE next # 0 /\ next = row.next /\ next # job[k].next
      <4>1. rewound' = rewound \cup {<<k, next>>}
        BY <1>4, <1>7, <2>2, <3>4
      <4>. QED BY <3>1, <4>1
    <3>. QED BY <3>2, <3>3, <3>4
  <2>. QED BY <1>5, <2>1, <2>2
<1>13. Clock /\ \A j \in Autos : Kept(j)
  BY <1>3, ClockHeld, SameKept
<1>. QED BY <1>0, <1>10, <1>11, <1>12, <1>13 DEF KeptStep

LEMMA AutoNowKept == ASSUME Types, NEW c \in Callers, RunAutoNow(c)
                     PROVE  KeptStep /\ UNCHANGED <<wake, now>> /\ work'["alarm"] = work["alarm"]
<1>0. c \in Workers /\ Autos \subseteq Jobs
  BY DEF Workers, Jobs
<1>1. PICK k \in Jobs : k = work[c].job
  BY AutoNowStep
<1>2. UNCHANGED <<now, wake, rewound>>
  BY AutoNowStep
<1>3. PICK q \in RunRows : runs' = WithRun(k, q) /\ q.by = "manual"
  <2>1. Run(now, "manual", "started") \in RunRows /\ Run(now, "manual", "started").by = "manual"
    BY NewRun DEF Types, TimeOK, Statuses, Run
  <2>2. runs' = WithRun(k, Run(now, "manual", "started"))
    BY <1>1, AutoNowStep
  <2>. QED BY <2>1, <2>2
<1>4. PICK next \in Nat, shows \in {"blocked", "started"}, blocked \in BOOLEAN :
         /\ next = ManualNext(work[c].row, now, blocked)
         /\ job' = Set(k, [job[k] EXCEPT !.on = work[c].row.on, !.next = next,
                                         !.last = Len(runs[k]) + 1, !.shows = shows])
  BY <1>1, AutoNowStep
<1>5. PICK row \in Rows : row = work[c].row
  BY <1>0, WorkerTypes DEF RunAutoNow
<1>6. /\ job \in [Jobs -> Rows] /\ JobOK /\ job[k] \in Rows /\ now \in Nat /\ Recheck \in Nat
      /\ row.on \in BOOLEAN /\ row.next \in Nat /\ job[k].there \in BOOLEAN
  BY Reading, CronConstants DEF Types, JobOK, TimeOK
<1>7. next = 0 \/ next > now
  <2>1. next = ManualNext(row, now, blocked)
    BY <1>4, <1>5
  <2>. QED BY <1>6, <2>1 DEF ManualNext, NextRun
<1>8. PICK n \in Nat : n = Len(runs[k]) + 1
  BY LenProperties DEF Types, RunsOK
<1>9. PICK r \in Rows : r = [job[k] EXCEPT !.on = row.on, !.next = next, !.last = n, !.shows = shows]
  <2>1. [job[k] EXCEPT !.on = row.on, !.next = next, !.last = n, !.shows = shows] \in Rows
    BY <1>6, <1>8 DEF Rows, Statuses
  <2>. QED BY <2>1
<1>10. job' = Set(k, r) /\ r.next = next
  BY <1>4, <1>5, <1>6, <1>8, <1>9 DEF Rows
<1>11. \A j \in Jobs : job'[j].next = 0 \/ job'[j].next = job[j].next \/ job'[j].next > now
  <2>1. /\ Set(k, r)[k] \in {r, job[k]}
        /\ \A j \in Jobs : j # k => Set(k, r)[j] = job[j]
    BY <1>6, SetRow
  <2>. QED BY <1>7, <1>10, <2>1
<1>12. Clock /\ \A j \in Autos : Kept(j)
  BY <1>0, <1>2, <1>3, ClockHeld, ManualKept
<1>13. work'["alarm"] = work["alarm"]
  BY AutoNowStep, AlarmAside
<1>. QED BY <1>0, <1>2, <1>11, <1>12, <1>13 DEF KeptStep

\* Only a prompt's row is written.
LEMMA PromptSet == ASSUME Types, NEW k \in Jobs, k \in Prompts, NEW r, job' = Set(k, r), NEW j \in Autos
                   PROVE  job'[j] = job[j]
<1>1. j # k /\ j \in Jobs /\ job \in [Jobs -> Rows]
  BY CronConstants DEF Types, JobOK, Jobs
<1>. QED BY <1>1 DEF Set

LEMMA DispatchedKept == ASSUME Types, NEW w \in Workers, (w = "alarm" /\ PromptDispatched) \/ PromptRunByHand(w)
                        PROVE  KeptStep /\ UNCHANGED <<wake, now>> /\ work' = [work EXCEPT ![w] = Idle]
<1>1. PICK k \in Jobs : k = work[w].job /\ k \in Prompts
  BY DEF PromptDispatched, PromptRunByHand, Jobs
<1>2. /\ work[w].at = "answered" /\ runs' = Outcome(w) /\ work' = [work EXCEPT ![w] = Idle]
      /\ UNCHANGED <<now, wake, rewound>>
  BY DEF PromptDispatched, PromptRunByHand, owners
<1>3. \E r : job' = Set(k, r)
  BY <1>1 DEF PromptDispatched, PromptRunByHand
<1>4. \A j \in Autos : job'[j] = job[j]
  BY <1>1, <1>3, PromptSet
<1>5. Clock /\ \A j \in Autos : Kept(j)
  BY <1>2, ClockHeld, OutcomeLog, StaysKept DEF Jobs
<1>. QED BY <1>2, <1>4, <1>5 DEF KeptStep

\* A thread is found for a prompt's run, or for one asked for by hand.
LEMMA FoundKept == ASSUME OnceInv, NEW w \in Workers, ThreadFound(w)
                   PROVE  KeptStep /\ UNCHANGED <<wake, now>>
                          /\ (work'["alarm"] = work["alarm"] \/ work'["alarm"].at # "thread")
<1>0. Types /\ TodoPart /\ Autos \subseteq Jobs /\ "alarm" \in Workers
  BY DEF OnceInv, ShowInv, Jobs, Workers
<1>1. PICK k \in Jobs : k = work[w].job
  BY <1>0, FoundStep
<1>2. PICK q \in RunRows : runs' = WithRun(k, q) /\ q.by = IF w = "alarm" THEN "schedule" ELSE "manual"
  BY <1>0, <1>1, FoundStep
<1>3. UNCHANGED <<now, job, wake, rewound>>
  BY <1>0, FoundStep
<1>4. ASSUME NEW j \in Autos PROVE Kept(j)
  <2>1. CASE w = "alarm"
    <3>1. k \in Prompts
      BY <1>0, <1>1, <2>1 DEF TodoPart, ThreadFound
    <3>2. j # k /\ j \in Jobs
      BY <1>0, <3>1, CronConstants
    <3>3. runs'[j] = runs[j]
      BY <1>0, <1>2, <3>2, AppendRun DEF Types
    <3>. QED BY <3>3, SameKept
  <2>2. CASE w # "alarm"
    BY <1>0, <1>2, <2>2, ManualKept
  <2>. QED BY <2>1, <2>2
<1>5. work'["alarm"] = work["alarm"] \/ work'["alarm"].at # "thread"
  <2>1. PICK n : work' = [work EXCEPT ![w] = [work[w] EXCEPT !.at = "start", !.run = n]]
    BY <1>0, FoundStep
  <2>2. work \in [Workers -> WorkRows]
    BY <1>0 DEF Types, WorkOK
  <2>3. CASE w = "alarm"
    <3>1. work'[w] = [work[w] EXCEPT !.at = "start", !.run = n]
      BY <2>1, <2>2
    <3>2. work'[w].at = "start"
      BY <2>2, <3>1 DEF WorkRows
    <3>. QED BY <2>3, <3>2
  <2>4. CASE w # "alarm"
    BY <1>0, <2>1, <2>2, <2>4
  <2>. QED BY <2>3, <2>4
<1>6. Clock
  BY <1>0, <1>3, ClockHeld
<1>. QED BY <1>3, <1>4, <1>5, <1>6 DEF KeptStep

LEMMA StartKept == ASSUME Types, NEW w \in Workers, Starts(w)
                   PROVE  KeptStep /\ UNCHANGED <<wake, now>>
                          /\ (work'["alarm"] = work["alarm"] \/ work'["alarm"].at # "thread")
<1>0. Autos \subseteq Jobs /\ "alarm" \in Workers /\ work \in [Workers -> WorkRows]
  BY DEF Jobs, Workers, Types, WorkOK
<1>1. PICK k \in Jobs : k = work[w].job
  BY StartStep
<1>2. PICK i \in 1 .. Len(runs[k]) : i = work[w].run
  BY <1>1, StartStep
<1>3. UNCHANGED <<now, job, wake, rewound>>
  BY StartStep
<1>4. Stays
  <2>1. UNCHANGED runs \/ runs' = [runs EXCEPT ![k][i] = [runs[k][i] EXCEPT !.turn = "going"]]
    BY <1>1, <1>2, StartStep
  <2>2. CASE UNCHANGED runs
    BY <2>2, LogKept DEF Types
  <2>3. CASE runs' = [runs EXCEPT ![k][i] = [runs[k][i] EXCEPT !.turn = "going"]]
    <3>1. RunsOK /\ runs[k][i] \in RunRows
      BY RunTypes DEF Types
    <3>2. PICK r \in RunRows : r = [runs[k][i] EXCEPT !.turn = "going"]
      <4>1. [runs[k][i] EXCEPT !.turn = "going"] \in RunRows
        BY <3>1 DEF RunRows
      <4>. QED BY <4>1
    <3>3. r.due = runs[k][i].due /\ r.by = runs[k][i].by /\ runs' = [runs EXCEPT ![k][i] = r]
      BY <2>3, <3>1, <3>2 DEF RunRows
    <3>. QED BY <3>1, <3>3, LogChanged
  <2>. QED BY <2>1, <2>2, <2>3
<1>5. work'["alarm"] = work["alarm"] \/ work'["alarm"].at # "thread"
  <2>1. PICK ok \in BOOLEAN : work' = [work EXCEPT ![w] = [work[w] EXCEPT !.at = "answered", !.ok = ok]]
    BY StartStep
  <2>2. CASE w = "alarm"
    <3>1. work'[w] = [work[w] EXCEPT !.at = "answered", !.ok = ok]
      BY <1>0, <2>1
    <3>2. work'[w].at = "answered"
      BY <1>0, <3>1 DEF WorkRows
    <3>. QED BY <2>2, <3>2
  <2>3. CASE w # "alarm"
    BY <1>0, <2>1, <2>3
  <2>. QED BY <2>2, <2>3
<1>6. Clock /\ \A j \in Autos : Kept(j)
  BY <1>0, <1>3, <1>4, ClockHeld, StaysKept
<1>. QED BY <1>3, <1>5, <1>6 DEF KeptStep

LEMMA AnsweredKept == ASSUME Types, NEW w \in Workers, AutoAnswered(w)
                      PROVE  KeptStep /\ UNCHANGED <<wake, now>> /\ work' = [work EXCEPT ![w] = Idle]
<1>0. Autos \subseteq Jobs /\ job \in [Jobs -> Rows]
  BY DEF Jobs, Types, JobOK
<1>1. PICK k \in Jobs : k = work[w].job
  BY AnsweredStep
<1>2. /\ work[w].at = "answered" /\ runs' = Outcome(w) /\ work' = [work EXCEPT ![w] = Idle]
      /\ UNCHANGED <<now, wake, rewound>>
  BY AnsweredStep
<1>3. \A j \in Autos : job'[j].next = job[j].next
  <2>1. \/ UNCHANGED job
        \/ \E shows \in Statuses \cup {"none", "blocked"} :
              job' = [job EXCEPT ![k] = [job[k] EXCEPT !.last = 0, !.shows = shows]]
    BY <1>1, AnsweredStep
  <2>2. CASE UNCHANGED job
    BY <2>2
  <2>3. CASE \E shows \in Statuses \cup {"none", "blocked"} :
              job' = [job EXCEPT ![k] = [job[k] EXCEPT !.last = 0, !.shows = shows]]
    <3>1. PICK shows : job' = [job EXCEPT ![k] = [job[k] EXCEPT !.last = 0, !.shows = shows]]
      BY <2>3
    <3>2. job'[k] = [job[k] EXCEPT !.last = 0, !.shows = shows] /\ job[k] \in Rows
          /\ \A j \in Jobs : j # k => job'[j] = job[j]
      BY <1>0, <3>1
    <3>3. job'[k].next = job[k].next
      BY <3>2 DEF Rows
    <3>. QED BY <1>0, <3>2, <3>3
  <2>. QED BY <2>1, <2>2, <2>3
<1>4. Clock /\ \A j \in Autos : Kept(j)
  BY <1>0, <1>2, ClockHeld, OutcomeLog, StaysKept
<1>. QED BY <1>2, <1>3, <1>4 DEF KeptStep

LEMMA EndKept == ASSUME Types, NEW k \in Jobs, EndNext(k)
                 PROVE  KeptStep /\ UNCHANGED <<wake, now, work>>
<1>0. Autos \subseteq Jobs /\ job \in [Jobs -> Rows]
  BY DEF Jobs, Types, JobOK
<1>1. PICK i \in 1 .. Len(runs[k]) : \E r \in RunRows :
         /\ runs' = [runs EXCEPT ![k][i] = r] /\ r.due = runs[k][i].due /\ r.by = runs[k][i].by
         /\ Summary(k, i, r) /\ UNCHANGED <<now, wake, work, rewound>>
  BY EndStep
<1>2. PICK r \in RunRows :
         /\ runs' = [runs EXCEPT ![k][i] = r] /\ r.due = runs[k][i].due /\ r.by = runs[k][i].by
         /\ Summary(k, i, r) /\ UNCHANGED <<now, wake, work, rewound>>
  BY <1>1
<1>3. Stays
  BY <1>2, LogChanged DEF Types
<1>4. \A j \in Autos : job'[j].next = job[j].next
  <2>1. UNCHANGED job \/ \E status : job' = [job EXCEPT ![k] = [job[k] EXCEPT !.shows = status]]
    BY <1>2 DEF Summary
  <2>2. CASE UNCHANGED job
    BY <2>2
  <2>3. CASE \E status : job' = [job EXCEPT ![k] = [job[k] EXCEPT !.shows = status]]
    <3>1. PICK status : job' = [job EXCEPT ![k] = [job[k] EXCEPT !.shows = status]]
      BY <2>3
    <3>2. job'[k] = [job[k] EXCEPT !.shows = status] /\ job[k] \in Rows
          /\ \A j \in Jobs : j # k => job'[j] = job[j]
      BY <1>0, <3>1
    <3>3. job'[k].next = job[k].next
      BY <3>2 DEF Rows
    <3>. QED BY <1>0, <3>2, <3>3
  <2>. QED BY <2>1, <2>2, <2>3
<1>5. Clock /\ \A j \in Autos : Kept(j)
  BY <1>0, <1>2, <1>3, ClockHeld, StaysKept
<1>. QED BY <1>2, <1>4, <1>5 DEF KeptStep

\* What the handler takes next of the automations has no run yet.
LEMMA PendingUnused == ASSUME OnceInv, wake.phase = "autos"
                       PROVE  /\ \A row \in Pending(Autos) :
                                     row.job \in Autos /\ row.next <= wake.now /\ Unused(row.job, row.next)
                              /\ \A row, other \in Pending(Autos) : row.job = other.job => row = other
<1>0. Types /\ TodoPart /\ \A j \in Autos : AutoPart(j)
  BY DEF OnceInv, ShowInv
<1>1. CASE wake.fresh
  <2>1. ASSUME NEW row \in Pending(Autos)
        PROVE  /\ row.job \in Autos \cap DueAt(wake.now) /\ row = [job |-> row.job, next |-> job[row.job].next]
    BY <1>0, <1>1, PendingTypes
  <2>2. ASSUME NEW row \in Pending(Autos)
        PROVE  row.job \in Autos /\ row.next <= wake.now /\ Unused(row.job, row.next)
    <3>1. PICK j \in Autos : j = row.job /\ j \in DueAt(wake.now) /\ row.next = job[j].next
      BY <2>1
    <3>2. job[j].next # 0 /\ job[j].next <= wake.now
      BY <3>1 DEF DueAt
    <3>3. Unused(j, job[j].next)
      BY <1>0, <3>2 DEF AutoPart, NextPart
    <3>. QED BY <3>1, <3>2, <3>3
  <2>. QED BY <2>1, <2>2
<1>2. CASE ~wake.fresh
  <2>1. \A row \in Pending(Autos) : row \in wake.todo
    BY <1>0, <1>2, PendingTypes
  <2>. QED BY <1>0, <2>1 DEF TodoPart
<1>. QED BY <1>1, <1>2

LEMMA MembersKept == ASSUME OnceInv, OwnerNext \/ \E c \in Callers : CallNext(c)
                     PROVE  KeptStep /\ UNCHANGED <<wake, now>> /\ work'["alarm"] = work["alarm"]
<1>0. Types /\ \A c \in Callers : c \in Workers
  BY DEF OnceInv, ShowInv, Workers
<1>1. ASSUME NEW k \in Jobs, Create(k) \/ Delete(k)
      PROVE  KeptStep /\ UNCHANGED <<wake, now, work>>
  BY <1>0, <1>1, CreateStep, DeleteStep DEF Create, Delete
<1>2. CASE DisableAllScheduledPrompts
  BY <1>0, <1>2, DisableStep DEF DisableAllScheduledPrompts
<1>3. ASSUME NEW c \in Callers, \/ CallRefused(c) \/ CallThrows(c) \/ RunPromptNow(c)
                                \/ \E j \in Jobs, does \in {"update", "run"} : Reads(c, j, does)
      PROVE  KeptStep /\ UNCHANGED <<wake, now>> /\ work'["alarm"] = work["alarm"]
  <2>1. UNCHANGED <<now, job, runs, wake, rewound>>
    BY <1>3 DEF CallRefused, CallThrows, RunPromptNow, Reads, owners
  <2>2. \E r : work' = [work EXCEPT ![c] = r]
    <3>1. CASE RunPromptNow(c)
      <4>1. work \in [Workers -> WorkRows]
        BY <1>0 DEF Types, WorkOK
      <4>2. work' = [work EXCEPT ![c] = [work[c] EXCEPT !.at = "thread", !.start = now]]
        BY <1>0, <3>1, <4>1 DEF RunPromptNow
      <4>. QED BY <4>2
    <3>2. CASE ~RunPromptNow(c)
      BY <1>3, <3>2 DEF CallRefused, CallThrows, Reads
    <3>. QED BY <3>1, <3>2
  <2>. QED BY <1>0, <2>1, <2>2, SameStep, AlarmAside
<1>4. ASSUME NEW c \in Callers, Update(c)
      PROVE  KeptStep /\ UNCHANGED <<wake, now>> /\ work'["alarm"] = work["alarm"]
  <2>1. work' = [work EXCEPT ![c] = Idle] /\ UNCHANGED <<wake, now>>
    BY <1>4 DEF Update
  <2>. QED BY <1>0, <1>4, <2>1, UpdateStep, AlarmAside
<1>5. ASSUME NEW c \in Callers, PromptRunByHand(c)
      PROVE  KeptStep /\ UNCHANGED <<wake, now>> /\ work'["alarm"] = work["alarm"]
  BY <1>0, <1>5, DispatchedKept, AlarmAside
<1>6. ASSUME NEW c \in Callers, RunAutoNow(c)
      PROVE  KeptStep /\ UNCHANGED <<wake, now>> /\ work'["alarm"] = work["alarm"]
  BY <1>0, <1>6, AutoNowKept
<1>. QED BY <1>1, <1>2, <1>3, <1>4, <1>5, <1>6 DEF OwnerNext, CallNext

\* A handler that begins, ends or goes on with an empty list.
LEMMA EmptyTodo == ASSUME OnceInv, UNCHANGED <<job, runs, rewound>>, now' = now, work'["alarm"].at # "thread",
                          wake'.todo = {}, wake'.on => wake'.now = now \/ (wake.on /\ wake'.now = wake.now)
                   PROVE  KeptStep /\ TodoPart'
<1>0. now \in Nat /\ wake.now \in Nat /\ TodoPart
  BY DEF OnceInv, ShowInv, Types, TimeOK, WakeOK, Wakes
<1>1. Clock
  BY <1>0 DEF Clock
<1>2. \A j \in Autos : Kept(j)
  BY SameKept
<1>3. KeptStep
  BY <1>1, <1>2 DEF KeptStep
<1>4. wake'.on => wake'.now <= now'
  BY <1>0 DEF TodoPart
<1>. QED BY <1>3, <1>4 DEF TodoPart

LEMMA PhaseOnce == ASSUME OnceInv, \/ AlarmFires \/ LookedUp \/ LimitsRead \/ PromptsDone \/ AlarmDone
                                   \/ AlarmThrows \/ Restart
                   PROVE  KeptStep /\ TodoPart'
<1>0. Types /\ WakePart /\ TodoPart /\ wake \in Wakes /\ work \in [Workers -> WorkRows] /\ "alarm" \in Workers
  BY DEF OnceInv, ShowInv, Types, WakeOK, WorkOK, Workers
<1>a. Asleep.on = FALSE /\ Asleep.todo = {} /\ Idle.at = "idle"
  BY DEF Asleep, Idle
<1>1. UNCHANGED <<job, runs, rewound>> /\ now' = now
  BY DEF AlarmFires, LookedUp, LimitsRead, PromptsDone, AlarmDone, AlarmThrows, Restart, owners
<1>2. CASE AlarmFires
  <2>1. wake'.todo = {} /\ wake'.now = now /\ UNCHANGED work /\ wake.phase = "none"
    BY <1>0, <1>2 DEF AlarmFires, Asleep, WakePart
  <2>2. work["alarm"].at = "idle"
    BY <1>0, <2>1 DEF WakePart
  <2>. QED BY <1>1, <2>1, <2>2, EmptyTodo
<1>3. CASE LookedUp \/ LimitsRead
  <2>1. wake.phase \in {"look", "limits"} /\ UNCHANGED work
    BY <1>3 DEF LookedUp, LimitsRead
  <2>2. work["alarm"].at = "idle" /\ wake.todo = {} /\ wake.on
    BY <1>0, <2>1 DEF WakePart, TodoPart
  <2>3. \/ wake' = Asleep \/ wake' = [wake EXCEPT !.phase = "limits"]
        \/ wake' = [wake EXCEPT !.phase = "prompts", !.fresh = TRUE]
    BY <1>3 DEF LookedUp, LimitsRead
  <2>4. wake'.todo = {} /\ (wake'.on => wake'.now = wake.now)
    BY <1>0, <1>a, <2>2, <2>3 DEF Wakes
  <2>. QED BY <1>1, <2>1, <2>2, <2>4, EmptyTodo
<1>4. CASE PromptsDone
  <2>1. /\ wake.phase = "prompts" /\ UNCHANGED work /\ work["alarm"].at = "idle"
        /\ wake' = [wake EXCEPT !.phase = "autos", !.fresh = TRUE, !.todo = {}]
    BY <1>4 DEF PromptsDone
  <2>2. wake'.todo = {} /\ wake'.now = wake.now /\ wake.on
    BY <1>0, <2>1 DEF Wakes, WakePart
  <2>. QED BY <1>1, <2>1, <2>2, EmptyTodo
<1>5. CASE AlarmDone
  <2>1. wake' = Asleep /\ UNCHANGED work /\ work["alarm"].at = "idle"
    BY <1>5 DEF AlarmDone
  <2>. QED BY <1>1, <1>a, <2>1, EmptyTodo
<1>6. CASE AlarmThrows \/ Restart
  <2>1. wake' = Asleep /\ (work' = [work EXCEPT !["alarm"] = Idle] \/ work' = [w \in Workers |-> Idle])
    BY <1>6 DEF AlarmThrows, Restart
  <2>2. work'["alarm"] = Idle
    BY <1>0, <2>1
  <2>. QED BY <1>1, <1>a, <2>1, <2>2, EmptyTodo
<1>. QED BY <1>2, <1>3, <1>4, <1>5, <1>6

LEMMA TakePromptOnce == ASSUME OnceInv, TakePrompt PROVE KeptStep /\ TodoPart'
<1>0. /\ Types /\ TodoPart /\ wake \in Wakes /\ work \in [Workers -> WorkRows] /\ "alarm" \in Workers
      /\ Autos \subseteq Jobs /\ now \in Nat
  BY DEF OnceInv, ShowInv, Types, WakeOK, WorkOK, Workers, Jobs, TimeOK
<1>1. wake.phase = "prompts" /\ work["alarm"].at = "idle" /\ UNCHANGED <<now, rewound>>
  BY DEF TakePrompt, owners
<1>2. PICK row \in Pending(Prompts) :
         /\ wake' = Taken(Prompts, row)
         /\ \/ Blocked(row)
            \/ /\ work' = [work EXCEPT !["alarm"] =
                     [Idle EXCEPT !.at = "thread", !.does = "run", !.job = row.job,
                                  !.row = [NoRow EXCEPT !.next = row.next], !.start = now]]
               /\ UNCHANGED <<job, runs>>
  BY DEF TakePrompt
<1>3. /\ wake'.on = wake.on /\ wake'.now = wake.now /\ wake'.phase = "prompts"
      /\ wake'.todo = Pending(Prompts) \ {row}
  BY <1>0, <1>1, <1>2, TakenTypes
<1>4. \A other \in Pending(Prompts) : other.job \in Prompts
  <2>1. CASE wake.fresh
    BY <1>0, <2>1, PendingTypes
  <2>2. CASE ~wake.fresh
    BY <1>0, <1>1, <2>2, PendingTypes DEF TodoPart
  <2>. QED BY <2>1, <2>2
<1>5. PICK k \in Jobs : k = row.job /\ k \in Prompts
  BY <1>4 DEF Jobs
<1>6. row \in [job : Jobs, next : Nat]
  BY <1>0, PendingTypes
<1>7. ASSUME NEW j \in Autos PROVE job'[j] = job[j] /\ runs'[j] = runs[j]
  <2>1. CASE Blocked(row)
    <3>1. PICK q \in RunRows : runs' = WithRun(k, q)
      BY <1>0, <1>5, <1>6, <2>1, BlockedStep
    <3>2. \E r \in Rows : job' = Set(k, r)
      BY <1>0, <1>5, <1>6, <2>1, BlockedStep
    <3>3. j # k /\ j \in Jobs
      BY <1>0, <1>5, CronConstants
    <3>4. runs'[j] = runs[j]
      BY <1>0, <3>1, <3>3, AppendRun DEF Types
    <3>5. job'[j] = job[j]
      BY <1>0, <1>5, <3>2, PromptSet
    <3>. QED BY <3>4, <3>5
  <2>2. CASE ~Blocked(row)
    BY <1>2, <2>2
  <2>. QED BY <2>1, <2>2
<1>8. work'["alarm"].at = "thread" => work'["alarm"].job \in Prompts
  <2>1. CASE Blocked(row)
    BY <1>1, <2>1 DEF Blocked
  <2>2. CASE ~Blocked(row)
    <3>1. work'["alarm"] = [Idle EXCEPT !.at = "thread", !.does = "run", !.job = row.job,
                                        !.row = [NoRow EXCEPT !.next = row.next], !.start = now]
      BY <1>0, <1>2, <2>2
    <3>2. work'["alarm"].job = row.job
      BY <3>1 DEF Idle
    <3>. QED BY <1>5, <3>2
  <2>. QED BY <2>1, <2>2
<1>9. KeptStep
  <2>1. \A j \in Autos : Kept(j) /\ job'[j].next = job[j].next
    BY <1>7, SameKept
  <2>2. Clock
    BY <1>0, <1>1, <1>3 DEF Clock
  <2>. QED BY <1>1, <2>1, <2>2 DEF KeptStep
<1>10. TodoPart'
  <2>1. wake'.on => wake'.now <= now'
    BY <1>0, <1>1, <1>3 DEF TodoPart
  <2>2. \A other \in wake'.todo : other.job \in Prompts
    BY <1>3, <1>4
  <2>. QED BY <1>3, <1>8, <2>1, <2>2 DEF TodoPart
<1>. QED BY <1>9, <1>10

\* The handler takes an automation: its occurrence gets a run, and the row leaves the list.
LEMMA TakeAutoOnce == ASSUME OnceInv, Types', TakeAuto PROVE (\A j \in Autos : AutoPart(j)') /\ TodoPart'
<1>0. /\ Types /\ WakePart /\ TodoPart /\ wake \in Wakes /\ work \in [Workers -> WorkRows] /\ "alarm" \in Workers
      /\ Autos \subseteq Jobs /\ now \in Nat /\ Recheck \in Nat /\ JobOK /\ job \in [Jobs -> Rows]
      /\ \A j \in Autos : AutoPart(j)
  BY CronConstants DEF OnceInv, ShowInv, Types, WakeOK, WorkOK, Workers, Jobs, TimeOK, JobOK
<1>1. wake.phase = "autos" /\ work["alarm"].at = "idle" /\ UNCHANGED <<now, rewound>>
  BY DEF TakeAuto, owners
<1>2. PICK row \in Pending(Autos) :
         /\ wake' = Taken(Autos, row)
         /\ \/ Blocked(row)
            \/ /\ runs' = WithRun(row.job, Run(row.next, "schedule", "started"))
               /\ job' = Set(row.job, Moved(job[row.job], Len(runs[row.job]) + 1))
               /\ work' = [work EXCEPT !["alarm"] =
                     [Idle EXCEPT !.at = "start", !.does = "run", !.job = row.job, !.start = now,
                                  !.run = Len(runs[row.job]) + 1]]
  BY DEF TakeAuto
<1>3. /\ wake'.on = wake.on /\ wake'.now = wake.now /\ wake'.phase = "autos"
      /\ wake'.todo = Pending(Autos) \ {row}
  BY <1>0, <1>1, <1>2, TakenTypes
<1>4. /\ \A r \in Pending(Autos) : r.job \in Autos /\ r.next <= wake.now /\ Unused(r.job, r.next)
      /\ \A r, other \in Pending(Autos) : r.job = other.job => r = other
  BY <1>1, PendingUnused
<1>5. row \in [job : Jobs, next : Nat]
  BY <1>0, PendingTypes
<1>6. PICK k \in Autos : k = row.job
  BY <1>4
<1>7. \E q \in RunRows : runs' = WithRun(k, q) /\ q.due = row.next /\ q.by = "schedule"
  <2>1. CASE Blocked(row)
    BY <1>0, <1>5, <1>6, <2>1, BlockedStep
  <2>2. CASE ~Blocked(row)
    BY <1>0, <1>2, <1>5, <1>6, <2>2, TakeAutoStep
  <2>. QED BY <2>1, <2>2
<1>8. \E r \in Rows : job' = Set(k, r) /\ r.next > now
  <2>1. CASE Blocked(row)
    <3>1. PICK r \in Rows : job' = Set(k, r) /\ r.next = now + Recheck + 1
      BY <1>0, <1>5, <1>6, <2>1, BlockedStep
    <3>. QED BY <1>0, <3>1
  <2>2. CASE ~Blocked(row)
    <3>1. PICK r \in Rows : job' = Set(k, r) /\ r.next = now + 1
      BY <1>0, <1>2, <1>5, <1>6, <2>2, TakeAutoStep
    <3>. QED BY <1>0, <3>1
  <2>. QED BY <2>1, <2>2
<1>9. PICK q \in RunRows : runs' = WithRun(k, q) /\ q.due = row.next /\ q.by = "schedule"
  BY <1>7
<1>10. /\ Len(runs'[k]) = Len(runs[k]) + 1 /\ runs'[k][Len(runs[k]) + 1] = q
       /\ \A i \in 1 .. Len(runs[k]) : runs'[k][i] = runs[k][i]
       /\ \A j \in Jobs : j # k => runs'[j] = runs[j]
  BY <1>0, <1>9, AppendedStatus
<1>11. PICK r \in Rows : job' = Set(k, r) /\ r.next > now
  BY <1>8
<1>12. /\ job'[k] \in {r, job[k]} /\ (~job[k].there => job'[k] = job[k]) /\ (job[k].there => job'[k] = r)
       /\ \A j \in Jobs : j # k => job'[j] = job[j]
  BY <1>0, <1>11, SetRow
<1>13. job'[k].next = 0 \/ job'[k].next > now
  <2>1. CASE job[k].there
    BY <1>11, <1>12, <2>1
  <2>2. CASE ~job[k].there
    <3>1. job[k].there = FALSE /\ LivePart(k)
      BY <1>0, <2>2, Reading DEF OnceInv, ShowInv
    <3>. QED BY <1>12, <2>2, <3>1 DEF LivePart
  <2>. QED BY <2>1, <2>2
<1>14. wake.on /\ wake.now <= now /\ wake.now \in Nat
  BY <1>0, <1>1 DEF WakePart, TodoPart, Wakes
<1>15. RunsOK' /\ wake' \in Wakes /\ \A j \in Autos : job'[j].next \in Nat
  BY <1>0 DEF Types, WakeOK, JobOK, Rows
<1>16. AutoPart(k)'
  <2>1. Unused(k, q.due) /\ q.due <= wake.now
    BY <1>4, <1>6, <1>9
  <2>2. job'[k].next = 0 \/ job'[k].next > wake.now
    BY <1>0, <1>13, <1>14, <1>15
  <2>. QED BY <1>0, <1>1, <1>3, <1>9, <1>10, <1>14, <1>15, <2>1, <2>2, AddedAuto
<1>17. ASSUME NEW j \in Autos, j # k PROVE Kept(j) /\ AutoPart(j)'
  <2>1. Kept(j) /\ job'[j] = job[j]
    BY <1>0, <1>10, <1>12, <1>17, SameKept
  <2>2. Clock
    BY <1>0, <1>1, <1>3 DEF Clock
  <2>. QED BY <1>0, <1>1, <1>15, <2>1, <2>2, KeptAuto
<1>18. TodoPart'
  <2>1. wake'.on => wake'.now <= now'
    BY <1>1, <1>3, <1>14
  <2>2. work'["alarm"].at # "thread"
    <3>1. CASE Blocked(row)
      BY <1>1, <3>1 DEF Blocked
    <3>2. CASE ~Blocked(row)
      <4>1. work'["alarm"] = [Idle EXCEPT !.at = "start", !.does = "run", !.job = row.job, !.start = now,
                                          !.run = Len(runs[row.job]) + 1]
        BY <1>0, <1>2, <3>2
      <4>2. work'["alarm"].at = "start"
        BY <4>1 DEF Idle
      <4>. QED BY <4>2
    <3>. QED BY <3>1, <3>2
  <2>3. ASSUME NEW other \in wake'.todo
        PROVE  other.job \in Autos /\ other.next <= wake.now /\ Unused(other.job, other.next)'
    <3>1. other \in Pending(Autos) /\ other # row
      BY <1>3
    <3>2. other.job # k /\ other.job \in Autos /\ other.next <= wake.now /\ Unused(other.job, other.next)
      BY <1>4, <1>6, <3>1
    <3>3. Kept(other.job)
      BY <1>17, <3>2
    <3>. QED BY <1>1, <3>2, <3>3, UnusedKept
  <2>4. \A one, other \in wake'.todo : one.job = other.job => one = other
    BY <1>3, <1>4
  <2>. QED BY <1>3, <2>1, <2>2, <2>3, <2>4 DEF TodoPart
<1>. QED BY <1>16, <1>17, <1>18

\* A failed attempt is the run of its occurrence, too.
LEMMA LookupFailsOnce == ASSUME OnceInv, Types', LookupFails PROVE (\A j \in Autos : AutoPart(j)') /\ TodoPart'
<1>0. /\ Types /\ WakePart /\ TodoPart /\ wake \in Wakes /\ Autos \subseteq Jobs /\ now \in Nat
      /\ \A j \in Autos : AutoPart(j)
  BY DEF OnceInv, ShowInv, Types, WakeOK, Jobs, TimeOK
<1>1. /\ wake.phase = "look" /\ wake' = Asleep /\ UNCHANGED <<now, work, rewound>>
      /\ RecordDueWorkspaceUnavailable \/ UNCHANGED <<job, runs>>
  BY DEF LookupFails, owners
<1>2. wake.on /\ wake.now <= now /\ wake.now \in Nat /\ work["alarm"].at = "idle"
  BY <1>0, <1>1 DEF WakePart, TodoPart, Wakes
<1>3. wake'.on = FALSE /\ wake'.todo = {} /\ work'["alarm"].at # "thread"
  BY <1>1, <1>2 DEF Asleep
<1>4. RunsOK' /\ wake' \in Wakes /\ \A j \in Autos : job'[j].next \in Nat
  BY <1>0 DEF Types, WakeOK, JobOK, Rows
<1>5. Clock
  BY <1>0, <1>1, <1>3 DEF Clock
<1>6. CASE UNCHANGED <<job, runs>>
  <2>1. \A j \in Autos : Kept(j)
    BY <1>6, SameKept
  <2>. QED BY <1>0, <1>1, <1>3, <1>4, <1>5, <1>6, <2>1, KeptAuto DEF TodoPart
<1>7. CASE RecordDueWorkspaceUnavailable
  <2>1. ASSUME NEW j \in Autos, j \notin DueAt(wake.now) PROVE AutoPart(j)'
    <3>1. job'[j] = job[j] /\ runs'[j] = runs[j]
      BY <1>0, <1>7, <2>1, UnavailableStep
    <3>. QED BY <1>0, <1>1, <1>4, <1>5, <3>1, SameKept, KeptAuto
  <2>2. ASSUME NEW j \in Autos, j \in DueAt(wake.now) PROVE AutoPart(j)'
    <3>1. /\ job'[j].next = wake.now + 1
          /\ Len(runs'[j]) = Len(runs[j]) + 1
          /\ runs'[j][Len(runs[j]) + 1].due = job[j].next
          /\ runs'[j][Len(runs[j]) + 1].by = "schedule"
          /\ \A i \in 1 .. Len(runs[j]) : runs'[j][i] = runs[j][i]
      BY <1>0, <1>7, <2>2, UnavailableStep
    <3>2. runs'[j] \in Seq(RunRows) /\ Len(runs[j]) \in Nat
      BY <1>0, <1>4, LenProperties DEF Types, RunsOK
    <3>3. PICK q \in RunRows : q = runs'[j][Len(runs[j]) + 1]
      BY <3>1, <3>2, ElementOfSeq
    <3>4. job[j].next # 0 /\ job[j].next <= wake.now
      BY <2>2 DEF DueAt
    <3>5. Unused(j, job[j].next)
      BY <1>0, <3>4 DEF AutoPart, NextPart
    <3>6. q.by = "schedule" /\ Unused(j, q.due) /\ q.due <= wake.now
      BY <3>1, <3>3, <3>4, <3>5
    <3>7. job'[j].next > wake.now
      BY <1>2, <3>1
    <3>. QED BY <1>0, <1>1, <1>2, <1>3, <1>4, <3>1, <3>3, <3>6, <3>7, AddedAuto
  <2>3. TodoPart'
    BY <1>1, <1>3 DEF TodoPart
  <2>. QED BY <2>1, <2>2, <2>3
<1>. QED BY <1>1, <1>6, <1>7

LEMMA InitOnce == Init => OnceInv
<1>. SUFFICES ASSUME Init PROVE OnceInv
  OBVIOUS
<1>1. ShowInv
  BY InitShow
<1>2. WakePart /\ TodoPart
  BY DEF Init, WakePart, TodoPart, Asleep, Idle, Workers
<1>3. ASSUME NEW j \in Autos PROVE AutoPart(j)
  <2>1. Len(runs[j]) = 0 /\ job[j].next = 0
    BY DEF Init, NoRow, Jobs
  <2>. QED BY <2>1 DEF AutoPart, PastPart, OncePart, NextPart
<1>. QED BY <1>1, <1>2, <1>3 DEF OnceInv

LEMMA NextOnce == OnceInv /\ [Next]_vars => OnceInv'
<1>. SUFFICES ASSUME OnceInv, [Next]_vars PROVE OnceInv'
  OBVIOUS
<1>0. ShowInv' /\ Types' /\ WakePart' /\ Types
  BY NextShow, NextWake DEF OnceInv, ShowInv
<1>1. (\A j \in Autos : AutoPart(j)') /\ TodoPart'
  <2>0. now \in Nat /\ "alarm" \in Workers
    BY <1>0 DEF Types, TimeOK, Workers
  <2>1. CASE OwnerNext \/ \E c \in Callers : CallNext(c)
    BY <1>0, <2>1, MembersKept, KeptAutos, QuietTodo
  <2>2. ASSUME NEW w \in Workers, DispatchNext(w) PROVE (\A j \in Autos : AutoPart(j)') /\ TodoPart'
    <3>1. CASE ThreadFound(w)
      BY <1>0, <3>1, FoundKept, KeptAutos, QuietTodo
    <3>2. CASE Starts(w)
      BY <1>0, <3>2, StartKept, KeptAutos, QuietTodo
    <3>3. CASE AutoAnswered(w)
      <4>1. KeptStep /\ UNCHANGED <<wake, now>> /\ work' = [work EXCEPT ![w] = Idle]
        BY <1>0, <3>3, AnsweredKept
      <4>2. work'["alarm"] = work["alarm"] \/ work'["alarm"].at # "thread"
        <5>1. work'["alarm"] = work["alarm"] \/ work'["alarm"] = Idle
          BY <1>0, <2>0, <4>1 DEF Types, WorkOK
        <5>. QED BY <5>1 DEF Idle
      <4>. QED BY <1>0, <4>1, <4>2, KeptAutos, QuietTodo
    <3>. QED BY <2>2, <3>1, <3>2, <3>3 DEF DispatchNext
  <2>3. CASE \E j \in Jobs : EndNext(j)
    BY <1>0, <2>3, EndKept, KeptAutos, QuietTodo
  <2>4. CASE PromptDispatched
    <3>1. KeptStep /\ UNCHANGED <<wake, now>> /\ work' = [work EXCEPT !["alarm"] = Idle]
      BY <1>0, <2>0, <2>4, DispatchedKept
    <3>2. work'["alarm"].at # "thread"
      <4>1. work'["alarm"] = Idle
        BY <1>0, <2>0, <3>1 DEF Types, WorkOK
      <4>. QED BY <4>1 DEF Idle
    <3>. QED BY <1>0, <3>1, <3>2, KeptAutos, QuietTodo
  <2>5. CASE AlarmFires \/ LookedUp \/ LimitsRead \/ PromptsDone \/ AlarmDone \/ AlarmThrows \/ Restart
    BY <1>0, <2>5, PhaseOnce, KeptAutos
  <2>6. CASE TakePrompt
    BY <1>0, <2>6, TakePromptOnce, KeptAutos
  <2>7. CASE TakeAuto \/ LookupFails
    BY <1>0, <2>7, TakeAutoOnce, LookupFailsOnce
  <2>8. CASE Tick \/ UNCHANGED vars
    <3>1. UNCHANGED <<job, runs, wake, rewound, work>> /\ now' \in {now, now + 1}
      BY <2>8 DEF Tick, vars, owners
    <3>. QED BY <1>0, <3>1, SameStep, KeptAutos, QuietTodo
  <2>. QED BY <2>1, <2>2, <2>3, <2>4, <2>5, <2>6, <2>7, <2>8 DEF Next, AlarmNext
<1>. QED BY <1>0, <1>1 DEF OnceInv

\* An automation's occurrence starts one workflow, however often its alarm is retried and
\* whatever restarts or is asked for by hand, unless an edit puts its time back.
THEOREM OccurrenceRunsOnce == Spec => []OncePerOccurrence
<1>1. OnceInv => OncePerOccurrence
  <2>. SUFFICES ASSUME OnceInv PROVE OncePerOccurrence
    OBVIOUS
  <2>1. ASSUME NEW j \in Autos PROVE OncePart(j) /\ DOMAIN runs[j] = 1 .. Len(runs[j])
    <3>1. j \in Jobs /\ runs \in [Jobs -> Seq(RunRows)] /\ AutoPart(j)
      BY DEF OnceInv, ShowInv, Types, RunsOK, Jobs
    <3>2. runs[j] \in Seq(RunRows)
      BY <3>1
    <3>. QED BY <3>1, <3>2, LenProperties DEF AutoPart
  <2>. QED BY <2>1 DEF OncePart, OncePerOccurrence
<1>. QED BY <1>1, InitOnce, NextOnce, PTL DEF Spec
=============================================================================
