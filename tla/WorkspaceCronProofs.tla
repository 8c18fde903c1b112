------------------------ MODULE WorkspaceCronProofs ------------------------
(***************************************************************************)
(* Proofs about the automations of a workspace, for any jobs and members   *)
(* and any number of ticks, calls and faults.                              *)
(***************************************************************************)
EXTENDS WorkspaceCron, SequenceTheorems, WellFoundedInduction, TLAPS

-----------------------------------------------------------------------------
(* Types *)

TimeOK == now \in Nat \ {0} /\ alarm \in Nat /\ calls \in Nat /\ faults \in Nat
JobOK == job \in [Jobs -> Rows]
RunsOK == runs \in [Jobs -> Seq(RunRows)]
WorkOK == /\ work \in [Workers -> WorkRows]
          /\ \A w \in Workers : work[w].at # "idle" => work[w].job \in Jobs
WakeOK == wake \in Wakes
OwnOK == /\ want \in [Jobs -> {"none", "on", "off"}]
         /\ rewound \subseteq Jobs \X Nat /\ cut \subseteq Jobs
LastOK == \A j \in Jobs : job[j].last \in 0 .. Len(runs[j])
RunOK == \A w \in Workers : work[w].at \in {"start", "answered"} =>
             work[w].job \in Jobs /\ work[w].run \in 1 .. Len(runs[work[w].job])

\* TypeOK, and that whoever is not idle works on a job.
Types == TimeOK /\ JobOK /\ RunsOK /\ WorkOK /\ WakeOK /\ OwnOK /\ LastOK /\ RunOK

LEMMA TypesTypeOK == Types => TypeOK
BY DEF Types, TimeOK, JobOK, RunsOK, WorkOK, WakeOK, OwnOK, LastOK, RunOK, TypeOK

LEMMA Shapes == NoRow \in Rows /\ Idle \in WorkRows /\ Asleep \in Wakes
BY DEF NoRow, Rows, Idle, WorkRows, Asleep, Wakes, Statuses

\* Rows as the operations write them.
LEMMA Reading == ASSUME NEW r \in Rows
                 PROVE  r.there \in BOOLEAN /\ r.on \in BOOLEAN /\ r.next \in Nat /\ r.last \in Nat
BY DEF Rows

LEMMA Writing == ASSUME NEW r \in Rows, NEW on \in BOOLEAN, NEW next \in Nat, NEW last \in Nat,
                        NEW shows \in Statuses \cup {"none", "blocked"}
                 PROVE  /\ [r EXCEPT !.on = on, !.next = next] \in Rows
                        /\ [r EXCEPT !.next = next, !.last = last, !.shows = shows] \in Rows
                        /\ [r EXCEPT !.on = on, !.next = next, !.last = last, !.shows = shows] \in Rows
                        /\ [r EXCEPT !.there = TRUE, !.on = on, !.next = next] \in Rows
                        /\ [r EXCEPT !.last = last, !.shows = shows] \in Rows
                        /\ [r EXCEPT !.shows = shows] \in Rows
                        /\ [r EXCEPT !.on = on, !.next = next].last = r.last
                        /\ [r EXCEPT !.there = TRUE, !.on = on, !.next = next].last = r.last
                        /\ [r EXCEPT !.next = next, !.last = last, !.shows = shows].last = last
                        /\ [r EXCEPT !.on = on, !.next = next, !.last = last, !.shows = shows].last = last
BY DEF Rows

\* The earliest of the times is one of them, as numbers are well ordered.
LEMMA LeastTime == ASSUME NEW T, T \subseteq Nat, T # {}
                   PROVE  Earliest(T) \in T /\ \A u \in T : Earliest(T) <= u
<1>1. \E x \in T : \A y \in T : ~ (<<y, x>> \in OpToRel(<, Nat))
  BY NatLessThanWellFounded, WFMin
<1>2. \E x \in T : \A y \in T : ~ (y < x)
  BY <1>1 DEF OpToRel
<1>3. \E x \in T : \A y \in T : x <= y
  BY <1>2
<1>. QED BY <1>3 DEF Earliest

\* What scheduleNextAlarm leaves: an alarm for every row that is enabled.
LEMMA Arms == ASSUME NEW rows \in [Jobs -> Rows], now \in Nat \ {0}, ScheduleNextAlarm(rows)
              PROVE  /\ alarm' \in Nat /\ cut' = {}
                     /\ \A j \in Jobs : rows[j].on /\ rows[j].next # 0 =>
                            alarm' # 0 /\ (alarm' <= rows[j].next \/ alarm' <= now)
<1>1. Times(rows) \subseteq Nat
  BY DEF Times, Rows
<1>2. \A j \in Jobs : rows[j].on /\ rows[j].next # 0 => rows[j].next \in Times(rows)
  BY DEF Times
<1>3. CASE Times(rows) = {}
  BY <1>2, <1>3 DEF ScheduleNextAlarm
<1>4. CASE Times(rows) # {}
  <2>1. Earliest(Times(rows)) \in Nat /\ \A u \in Times(rows) : Earliest(Times(rows)) <= u
    BY <1>1, <1>4, LeastTime
  <2>. DEFINE e == Earliest(Times(rows))
  <2>2. alarm' = (IF e > now THEN e ELSE now) /\ cut' = {}
    BY <1>4 DEF ScheduleNextAlarm
  <2>3. e \in Nat /\ \A j \in Jobs : rows[j].on /\ rows[j].next # 0 => e <= rows[j].next
    BY <2>1, <1>2
  <2>. HIDE DEF e
  <2>. QED BY <2>2, <2>3
<1>. QED BY <1>3, <1>4

LEMMA AppendRun == ASSUME RunsOK, NEW j \in Jobs, NEW r \in RunRows
                   PROVE  /\ WithRun(j, r) \in [Jobs -> Seq(RunRows)]
                          /\ Len(WithRun(j, r)[j]) = Len(runs[j]) + 1
                          /\ WithRun(j, r)[j][Len(runs[j]) + 1] = r
                          /\ \A i \in 1 .. Len(runs[j]) : WithRun(j, r)[j][i] = runs[j][i]
                          /\ \A k \in Jobs : k # j => WithRun(j, r)[k] = runs[k]
<1>1. runs[j] \in Seq(RunRows) /\ runs \in [Jobs -> Seq(RunRows)]
  BY DEF RunsOK
<1>2. WithRun(j, r) = [runs EXCEPT ![j] = Append(runs[j], r)]
  BY DEF WithRun
<1>3. Append(runs[j], r) \in Seq(RunRows)
  BY <1>1, AppendProperties
<1>4. WithRun(j, r)[j] = Append(runs[j], r)
  BY <1>1, <1>2
<1>. QED BY <1>1, <1>2, <1>3, <1>4, AppendProperties

LEMMA ChangeRun == ASSUME RunsOK, NEW j \in Jobs, NEW i \in 1 .. Len(runs[j]), NEW r \in RunRows,
                          NEW next, next = [runs EXCEPT ![j][i] = r]
                   PROVE  /\ next \in [Jobs -> Seq(RunRows)]
                          /\ Len(next[j]) = Len(runs[j])
                          /\ next[j][i] = r
                          /\ \A k \in 1 .. Len(runs[j]) : k # i => next[j][k] = runs[j][k]
                          /\ \A k \in Jobs : k # j => next[k] = runs[k]
<1>1. runs[j] \in Seq(RunRows) /\ runs \in [Jobs -> Seq(RunRows)]
  BY DEF RunsOK
<1>2. [runs[j] EXCEPT ![i] = r] \in Seq(RunRows)
  BY <1>1, ExceptSeq
<1>3. next = [runs EXCEPT ![j] = [runs[j] EXCEPT ![i] = r]]
  OBVIOUS
<1>4. next[j] = [runs[j] EXCEPT ![i] = r]
  BY <1>1, <1>3
<1>. QED BY <1>1, <1>2, <1>3, <1>4, ExceptSeq

LEMMA SetRow == ASSUME JobOK, NEW j \in Jobs, NEW r \in Rows
                PROVE  /\ Set(j, r) \in [Jobs -> Rows]
                       /\ Set(j, r)[j] \in {r, job[j]}
                       /\ job[j].there => Set(j, r)[j] = r
                       /\ ~job[j].there => Set(j, r)[j] = job[j]
                       /\ \A k \in Jobs : k # j => Set(j, r)[k] = job[k]
<1>1. job \in [Jobs -> Rows] /\ Set(j, r) = [job EXCEPT ![j] = IF job[j].there THEN r ELSE job[j]]
  BY DEF Set, JobOK
<1>2. CASE job[j].there
  BY <1>1, <1>2
<1>3. CASE ~job[j].there
  BY <1>1, <1>3
<1>. QED BY <1>2, <1>3

LEMMA RunTypes == ASSUME RunsOK, NEW j \in Jobs, NEW i \in 1 .. Len(runs[j])
                  PROVE  runs[j][i] \in RunRows
BY ElementOfSeq DEF RunsOK

LEMMA NewRun == ASSUME NEW due \in Nat, NEW by \in {"schedule", "manual"}, NEW status \in Statuses
                PROVE  Run(due, by, status) \in RunRows
BY DEF Run, RunRows

\* What a step leaves of the log: it grows, and what ran when, and who asked, stays.
Grows == /\ RunsOK'
         /\ \A j \in Jobs : /\ Len(runs'[j]) >= Len(runs[j])
                            /\ \A i \in 1 .. Len(runs[j]) : runs'[j][i].due = runs[j][i].due
                                                            /\ runs'[j][i].by = runs[j][i].by

\* No run is added either.
Stays == Grows /\ \A j \in Jobs : Len(runs'[j]) = Len(runs[j])

LEMMA LogKept == ASSUME RunsOK, UNCHANGED runs PROVE Stays
BY LenProperties DEF Stays, Grows, RunsOK

LEMMA LogAppended == ASSUME RunsOK, NEW j \in Jobs, NEW r \in RunRows, runs' = WithRun(j, r)
                     PROVE  Grows
<1>1. \A k \in Jobs : Len(runs[k]) \in Nat
  BY LenProperties DEF RunsOK
<1>2. RunsOK' /\ \A k \in Jobs : k # j => runs'[k] = runs[k]
  BY AppendRun DEF RunsOK
<1>3. /\ Len(runs'[j]) = Len(runs[j]) + 1
      /\ \A i \in 1 .. Len(runs[j]) : runs'[j][i] = runs[j][i]
  BY AppendRun
<1>4. \A k \in Jobs : Len(runs'[k]) >= Len(runs[k])
  BY <1>1, <1>2, <1>3
<1>5. \A k \in Jobs : \A i \in 1 .. Len(runs[k]) : runs'[k][i] = runs[k][i]
  BY <1>2, <1>3
<1>. QED BY <1>2, <1>4, <1>5 DEF Grows

LEMMA LogChanged == ASSUME RunsOK, NEW j \in Jobs, NEW i \in 1 .. Len(runs[j]), NEW r \in RunRows,
                           r.due = runs[j][i].due, r.by = runs[j][i].by,
                           runs' = [runs EXCEPT ![j][i] = r]
                    PROVE  Stays
<1>1. \A k \in Jobs : Len(runs[k]) \in Nat
  BY LenProperties DEF RunsOK
<1>2. RunsOK' /\ \A k \in Jobs : Len(runs'[k]) = Len(runs[k])
  BY ChangeRun DEF RunsOK
<1>3. \A k \in Jobs : \A n \in 1 .. Len(runs[k]) : runs'[k][n].due = runs[k][n].due
                                                   /\ runs'[k][n].by = runs[k][n].by
  BY ChangeRun
<1>. QED BY <1>1, <1>2, <1>3 DEF Stays, Grows

LEMMA EndedRun == ASSUME NEW r \in RunRows, NEW status \in Statuses
                  PROVE  /\ Ended(r, status) \in RunRows
                         /\ Ended(r, status).due = r.due /\ Ended(r, status).by = r.by
                         /\ Ended(r, status).turn = r.turn
                         /\ Ended(r, status).status = IF r.status = "gone" THEN "gone" ELSE status
BY DEF Ended, RunRows

LEMMA LogEnded == ASSUME RunsOK, NEW j \in Jobs, NEW i \in 1 .. Len(runs[j]), NEW status \in Statuses,
                         runs' = SetRun(j, i, status)
                  PROVE  Stays
BY RunTypes, EndedRun, LogChanged DEF SetRun

LEMMA JobNext == ASSUME Types, Grows, JobOK',
                        \A j \in Jobs : job'[j].last = job[j].last \/ job'[j].last \in 0 .. Len(runs'[j])
                 PROVE  LastOK'
<1>1. \A j \in Jobs : Len(runs[j]) \in Nat /\ Len(runs'[j]) \in Nat
  BY LenProperties DEF Types, RunsOK, Grows
<1>. QED BY <1>1 DEF Types, LastOK, Grows

LEMMA WorkNext == ASSUME Types, Grows,
                         \A w \in Workers : \/ work'[w] = work[w]
                                            \/ work'[w].at \notin {"start", "answered"}
                                            \/ work'[w].job \in Jobs /\ work'[w].run \in 1 .. Len(runs'[work'[w].job])
                  PROVE  RunOK'
<1>1. \A j \in Jobs : Len(runs[j]) \in Nat /\ Len(runs'[j]) \in Nat
  BY LenProperties DEF Types, RunsOK, Grows
<1>. QED BY <1>1 DEF Types, RunOK, Grows

\* Everything but the log and the rows is as it was.
LEMMA SameTypes == ASSUME Types, Grows, JobOK', TimeOK', WakeOK', OwnOK', UNCHANGED work,
                          \A j \in Jobs : job'[j].last = job[j].last \/ job'[j].last \in 0 .. Len(runs'[j])
                   PROVE  Types'
<1>1. WorkOK' /\ \A w \in Workers : work'[w] = work[w]
  BY DEF Types, WorkOK
<1>2. RunsOK' /\ RunOK' /\ LastOK'
  BY <1>1, JobNext, WorkNext DEF Grows
<1>. QED BY <1>1, <1>2 DEF Types

LEMMA InitTypes == Init => Types
<1>. SUFFICES ASSUME Init PROVE Types
  OBVIOUS
<1>1. <<>> \in Seq(RunRows) /\ Len(<<>>) = 0
  BY EmptySeq
<1>2. TimeOK /\ OwnOK
  BY CronConstants DEF Init, TimeOK, OwnOK
<1>3. JobOK /\ WorkOK /\ WakeOK
  BY Shapes DEF Init, JobOK, WorkOK, WakeOK, Idle
<1>4. RunsOK
  BY <1>1 DEF Init, RunsOK
<1>5. LastOK
  BY <1>1 DEF Init, LastOK, NoRow
<1>6. RunOK
  BY DEF Init, RunOK, Idle
<1>. QED BY <1>2, <1>3, <1>4, <1>5, <1>6 DEF Types

LEMMA CreateTypes == ASSUME Types, NEW j \in Jobs, Create(j) PROVE Types'
<1>0. PICK on \in BOOLEAN, t \in IF j \in Prompts THEN 1 .. now ELSE {now} :
         /\ job' = [job EXCEPT ![j] = [NoRow EXCEPT !.there = TRUE, !.on = on,
                                        !.next = IF on THEN NextRun(t) ELSE 0]]
         /\ want' = [want EXCEPT ![j] = IF on THEN "on" ELSE "off"]
  BY DEF Create
<1>t. t \in Nat
  BY DEF Types, TimeOK
<1>1. /\ job' = [job EXCEPT ![j] = [NoRow EXCEPT !.there = TRUE, !.on = on,
                                      !.next = IF on THEN NextRun(t) ELSE 0]]
      /\ want' = [want EXCEPT ![j] = IF on THEN "on" ELSE "off"]
  BY <1>0
<1>. DEFINE row == [NoRow EXCEPT !.there = TRUE, !.on = on, !.next = IF on THEN NextRun(t) ELSE 0]
<1>2. row \in Rows /\ row.last = 0
  <2>1. (IF on THEN NextRun(t) ELSE 0) \in Nat
    BY <1>t DEF NextRun
  <2>. QED BY <2>1, Shapes, Writing DEF NoRow
<1>3. job' = [job EXCEPT ![j] = row]
  BY <1>1
<1>. HIDE DEF row
<1>4. JobOK' /\ \A k \in Jobs : job'[k].last = job[k].last \/ job'[k].last = 0
  BY <1>2, <1>3 DEF Types, JobOK
<1>5. /\ ScheduleNextAlarm(job') /\ calls' = calls + 1
      /\ UNCHANGED <<now, runs, wake, work, rewound, faults>>
  BY DEF Create, Counted
<1>6. TimeOK' /\ cut' = {}
  BY <1>4, <1>5, Arms DEF Types, TimeOK, JobOK
<1>7. OwnOK' /\ WakeOK'
  BY <1>1, <1>5, <1>6 DEF Types, OwnOK, WakeOK
<1>8. Grows /\ \A k \in Jobs : 0 \in 0 .. Len(runs'[k])
  BY <1>5, LogKept, LenProperties DEF Types, Stays, Grows, RunsOK
<1>9. \A k \in Jobs : job'[k].last = job[k].last \/ job'[k].last \in 0 .. Len(runs'[k])
  BY <1>4, <1>8
<1>. QED BY <1>4, <1>5, <1>6, <1>7, <1>8, <1>9, SameTypes

\* What DELETE does to the log: the runs are gone, and keep their places.
LEMMA DeletedRuns == ASSUME Types, NEW j \in Jobs, Delete(j)
                     PROVE  Stays /\ \A i \in 1 .. Len(runs[j]) : runs'[j][i] = Deleted(runs[j][i])
<1>. DEFINE gone == [i \in DOMAIN runs[j] |-> Deleted(runs[j][i])]
<1>1. runs[j] \in [1 .. Len(runs[j]) -> RunRows] /\ Len(runs[j]) \in Nat
  BY LenProperties DEF Types, RunsOK
<1>2. \A i \in 1 .. Len(runs[j]) : Deleted(runs[j][i]) \in RunRows
                                   /\ Deleted(runs[j][i]).due = runs[j][i].due
                                   /\ Deleted(runs[j][i]).by = runs[j][i].by
  BY <1>1 DEF Deleted, RunRows
<1>3. gone \in [1 .. Len(runs[j]) -> RunRows]
  BY <1>1, <1>2
<1>4. gone \in Seq(RunRows) /\ Len(gone) = Len(runs[j])
  <2>. HIDE DEF gone
  <2>1. gone \in Seq(RunRows)
    BY <1>1, <1>3, SeqDef
  <2>. QED BY <1>1, <1>3, <2>1, LenProperties
<1>5. runs' = [runs EXCEPT ![j] = gone] /\ runs \in [Jobs -> Seq(RunRows)]
  BY DEF Delete, Types, RunsOK
<1>6. \A i \in 1 .. Len(runs[j]) : gone[i] = Deleted(runs[j][i])
  BY <1>1
<1>. HIDE DEF gone
<1>7. RunsOK' /\ runs'[j] = gone /\ \A k \in Jobs : k # j => runs'[k] = runs[k]
  BY <1>4, <1>5 DEF RunsOK
<1>8. \A k \in Jobs : Len(runs[k]) \in Nat
  BY <1>5, LenProperties
<1>. QED BY <1>2, <1>4, <1>6, <1>7, <1>8 DEF Stays, Grows

LEMMA DeleteTypes == ASSUME Types, NEW j \in Jobs, Delete(j) PROVE Types'
<1>1. /\ ScheduleNextAlarm(job') /\ calls' = calls + 1 /\ job' = [job EXCEPT ![j] = NoRow]
      /\ want' = [want EXCEPT ![j] = "off"]
      /\ UNCHANGED <<now, wake, work, rewound, faults>>
  BY DEF Delete, Counted
<1>2. JobOK' /\ \A k \in Jobs : job'[k].last = job[k].last \/ job'[k].last = 0
  BY <1>1, Shapes DEF Types, JobOK, NoRow
<1>3. TimeOK' /\ cut' = {}
  <2>1. alarm' \in Nat /\ cut' = {}
    BY <1>1, <1>2, Arms DEF Types, TimeOK, JobOK
  <2>. QED BY <1>1, <2>1 DEF Types, TimeOK
<1>4. OwnOK' /\ WakeOK'
  BY <1>1, <1>3 DEF Types, OwnOK, WakeOK
<1>5. Grows /\ \A k \in Jobs : 0 \in 0 .. Len(runs'[k])
  BY DeletedRuns, LenProperties DEF Stays, Grows, RunsOK
<1>6. \A k \in Jobs : job'[k].last = job[k].last \/ job'[k].last \in 0 .. Len(runs'[k])
  BY <1>2, <1>5
<1>. QED BY <1>1, <1>2, <1>3, <1>4, <1>5, <1>6, SameTypes

LEMMA DisableTypes == ASSUME Types, DisableAllScheduledPrompts PROVE Types'
<1>1. /\ job' = [j \in Jobs |-> IF job[j].on THEN [job[j] EXCEPT !.on = FALSE, !.next = 0] ELSE job[j]]
      /\ want' = [j \in Jobs |-> IF job[j].there THEN "off" ELSE want[j]]
      /\ UNCHANGED <<runs, wake, work, rewound, cut>>
  BY DEF DisableAllScheduledPrompts
<1>t. alarm' = 0 /\ calls' = calls + 1 /\ UNCHANGED <<now, faults>>
  BY DEF DisableAllScheduledPrompts, Counted
<1>2. JobOK' /\ \A k \in Jobs : job'[k].last = job[k].last
  BY <1>1 DEF Types, JobOK, Rows
<1>3. TimeOK' /\ OwnOK' /\ WakeOK'
  <2>1. TimeOK'
    BY <1>t DEF Types, TimeOK
  <2>2. OwnOK'
    BY <1>1 DEF Types, OwnOK
  <2>3. WakeOK'
    BY <1>1 DEF Types, WakeOK
  <2>. QED BY <2>1, <2>2, <2>3
<1>4. Grows
  BY <1>1, LogKept DEF Types, Stays
<1>. QED BY <1>1, <1>2, <1>3, <1>4, SameTypes

\* A step of a worker that touches neither rows nor the log.
LEMMA WorkTypes == ASSUME Types, UNCHANGED <<job, runs>>, TimeOK', WakeOK', OwnOK', WorkOK',
                          \A w \in Workers : \/ work'[w] = work[w]
                                             \/ work'[w].at \notin {"start", "answered"}
                   PROVE  Types'
<1>1. Grows /\ JobOK' /\ \A j \in Jobs : job'[j].last = job[j].last
  BY LogKept DEF Types, Stays, JobOK
<1>2. RunsOK' /\ RunOK' /\ LastOK'
  BY <1>1, JobNext, WorkNext DEF Grows
<1>. QED BY <1>1, <1>2 DEF Types

LEMMA CallerTypes == ASSUME Types, NEW c \in Callers,
                            \/ \E j \in Jobs, does \in {"update", "run"} : Reads(c, j, does)
                            \/ CallRefused(c) \/ CallThrows(c) \/ RunPromptNow(c)
                     PROVE  Types'
<1>1. c \in Workers
  BY DEF Workers
<1>2. /\ UNCHANGED <<now, job, runs, alarm, wake, want, rewound, cut>>
      /\ calls' \in Nat /\ faults' \in Nat
  <2>1. calls \in Nat /\ faults \in Nat
    BY DEF Types, TimeOK
  <2>2. CASE \E j \in Jobs, does \in {"update", "run"} : Reads(c, j, does)
    <3>1. calls' = calls + 1 /\ UNCHANGED <<now, job, runs, alarm, wake, want, rewound, cut, faults>>
      BY <2>2 DEF Reads, Counted, owners
    <3>. QED BY <2>1, <3>1
  <2>3. CASE CallRefused(c)
    BY <2>1, <2>3 DEF CallRefused, owners, counts
  <2>4. CASE CallThrows(c)
    BY <2>1, <2>4 DEF CallThrows, owners
  <2>5. CASE RunPromptNow(c)
    BY <2>1, <2>5 DEF RunPromptNow, owners, counts
  <2>. QED BY <2>2, <2>3, <2>4, <2>5
<1>3. TimeOK' /\ WakeOK' /\ OwnOK'
  BY <1>2 DEF Types, TimeOK, WakeOK, OwnOK
<1>4. PICK r \in WorkRows : /\ work' = [work EXCEPT ![c] = r]
                            /\ r.at \in {"idle", "look", "thread"}
                            /\ r.at # "idle" => r.job \in Jobs
  <2>1. CASE \E j \in Jobs, does \in {"update", "run"} : Reads(c, j, does)
    <3>1. PICK j \in Jobs, does \in {"update", "run"} : Reads(c, j, does)
      BY <2>1
    <3>2. [Idle EXCEPT !.at = "look", !.does = does, !.job = j, !.row = job[j]] \in WorkRows
      BY Shapes DEF WorkRows, Types, JobOK, Idle
    <3>. QED BY <3>1, <3>2 DEF Reads, Idle
  <2>2. CASE CallRefused(c) \/ CallThrows(c)
    BY <2>2, Shapes DEF CallRefused, CallThrows, Idle
  <2>3. CASE RunPromptNow(c)
    <3>1. work[c] \in WorkRows /\ now \in Nat /\ work[c].job \in Jobs
      BY <1>1, <2>3 DEF Types, WorkOK, TimeOK, RunPromptNow
    <3>2. work' = [work EXCEPT ![c] = [work[c] EXCEPT !.at = "thread", !.start = now]]
      BY <2>3 DEF RunPromptNow
    <3>3. [work[c] EXCEPT !.at = "thread", !.start = now] \in WorkRows
      BY <3>1 DEF WorkRows
    <3>. QED BY <3>1, <3>2, <3>3 DEF WorkRows
  <2>. QED BY <2>1, <2>2, <2>3
<1>5. WorkOK' /\ \A w \in Workers : work'[w] = work[w] \/ work'[w].at \notin {"start", "answered"}
  BY <1>1, <1>4 DEF Types, WorkOK
<1>. QED BY <1>2, <1>3, <1>5, WorkTypes

LEMMA StepTypes == ASSUME Types, Grows, JobOK', TimeOK', WakeOK', OwnOK', WorkOK',
                          \A j \in Jobs : job'[j].last = job[j].last \/ job'[j].last \in 0 .. Len(runs'[j]),
                          \A w \in Workers :
                              \/ work'[w] = work[w]
                              \/ work'[w].at \notin {"start", "answered"}
                              \/ work'[w].job \in Jobs /\ work'[w].run \in 1 .. Len(runs'[work'[w].job])
                   PROVE  Types'
<1>1. RunsOK' /\ RunOK' /\ LastOK'
  BY JobNext, WorkNext DEF Grows
<1>. QED BY <1>1 DEF Types

\* The worker and what it works on.
LEMMA WorkerTypes == ASSUME Types, NEW w \in Workers
                     PROVE  /\ work[w] \in WorkRows /\ work[w].row \in Rows /\ work[w].start \in Nat
                            /\ work[w].run \in Nat
                            /\ work[w].at # "idle" => work[w].job \in Jobs
                            /\ work[w].at \in {"start", "answered"} =>
                                   work[w].run \in 1 .. Len(runs[work[w].job])
BY DEF Types, WorkOK, RunOK, WorkRows

\* A worker that goes on, or ends.
LEMMA WorkStep == ASSUME Types, NEW w \in Workers, NEW r \in WorkRows, work' = [work EXCEPT ![w] = r],
                         r.at # "idle" => r.job \in Jobs
                  PROVE  /\ WorkOK' /\ work'[w] = r
                         /\ \A v \in Workers : v # w => work'[v] = work[v]
BY DEF Types, WorkOK

LEMMA UpdateTypes == ASSUME Types, NEW c \in Callers, Update(c) PROVE Types'
<1>. DEFINE j == work[c].job
            row == work[c].row
<1>w. c \in Workers
  BY DEF Workers
<1>0. j \in Jobs /\ row \in Rows /\ job[j] \in Rows /\ now \in Nat
  BY <1>w, WorkerTypes DEF Update, Types, JobOK, TimeOK
<1>1. PICK on \in BOOLEAN, asked \in BOOLEAN, cronChanged \in BOOLEAN :
         /\ job' = Set(j, [job[j] EXCEPT !.on = on, !.next = EditedNext(row, on, cronChanged)])
         /\ want' = IF asked /\ job[j].there THEN [want EXCEPT ![j] = IF on THEN "on" ELSE "off"]
                        ELSE want
         /\ rewound' \in {rewound, rewound \cup {<<j, EditedNext(row, on, cronChanged)>>}}
  BY DEF Update
<1>2. EditedNext(row, on, cronChanged) \in Nat
  BY <1>0, Reading DEF EditedNext, NextRun
<1>. DEFINE next == EditedNext(row, on, cronChanged)
            new == [job[j] EXCEPT !.on = on, !.next = next]
<1>n. next \in Nat
  BY <1>2
<1>s. job' = Set(j, new)
  BY <1>1
<1>. HIDE DEF next
<1>3. new \in Rows /\ new.last = job[j].last
  BY <1>0, <1>n DEF Rows
<1>. HIDE DEF new
<1>4. JobOK' /\ \A k \in Jobs : job'[k].last = job[k].last
  <2>1. JobOK
    BY DEF Types
  <2>2. /\ Set(j, new) \in [Jobs -> Rows] /\ Set(j, new)[j] \in {new, job[j]}
        /\ \A k \in Jobs : k # j => Set(j, new)[k] = job[k]
    BY <1>0, <1>3, <2>1, SetRow
  <2>. QED BY <1>3, <1>s, <2>2 DEF JobOK
<1>5. work' = [work EXCEPT ![c] = Idle] /\ ScheduleNextAlarm(job') /\ UNCHANGED <<now, runs, wake, calls, faults>>
  BY DEF Update, counts
<1>6. TimeOK' /\ cut' = {}
  <2>1. alarm' \in Nat /\ cut' = {}
    BY <1>4, <1>5, Arms DEF Types, TimeOK, JobOK
  <2>. QED BY <1>5, <2>1 DEF Types, TimeOK
<1>7. OwnOK'
  <2>1. want' \in [Jobs -> {"none", "on", "off"}]
    BY <1>0, <1>1 DEF Types, OwnOK
  <2>2. rewound' \subseteq Jobs \X Nat
    BY <1>0, <1>1, <1>2 DEF Types, OwnOK
  <2>. QED BY <1>6, <2>1, <2>2 DEF OwnOK
<1>8. WakeOK' /\ WorkOK' /\ \A w \in Workers : work'[w] = work[w] \/ work'[w].at = "idle"
  <2>1. Idle \in WorkRows /\ Idle.at = "idle"
    BY Shapes DEF Idle
  <2>2. WorkOK' /\ work'[c] = Idle /\ \A w \in Workers : w # c => work'[w] = work[w]
    BY <1>w, <1>5, <2>1, WorkStep
  <2>. QED BY <1>5, <2>1, <2>2 DEF Types, WakeOK
<1>9. Grows
  BY <1>5, LogKept DEF Types, Stays
<1>. QED BY <1>4, <1>6, <1>7, <1>8, <1>9, StepTypes

\* ThreadFound in short.
LEMMA FoundStep == ASSUME Types, NEW w \in Workers, ThreadFound(w)
                   PROVE  /\ work[w].job \in Jobs
                          /\ \E r \in RunRows : /\ runs' = WithRun(work[w].job, r) /\ r.status = "started"
                                                /\ w = "alarm" => r.due = work[w].row.next
                                                /\ r.by = IF w = "alarm" THEN "schedule" ELSE "manual"
                          /\ work' = [work EXCEPT ![w] = [work[w] EXCEPT !.at = "start",
                                                                 !.run = Len(runs[work[w].job]) + 1]]
                          /\ UNCHANGED <<now, job, alarm, wake, want, rewound, cut, calls, faults>>
<1>. DEFINE j == work[w].job
            due == IF w = "alarm" THEN work[w].row.next ELSE work[w].start
            by == IF w = "alarm" THEN "schedule" ELSE "manual"
<1>1. j \in Jobs /\ due \in Nat
  BY WorkerTypes, Reading DEF ThreadFound
<1>2. Run(due, by, "started") \in RunRows
  BY <1>1, NewRun DEF Statuses
<1>3. runs' = WithRun(j, Run(due, by, "started"))
  BY DEF ThreadFound
<1>4. /\ Run(due, by, "started").status = "started" /\ Run(due, by, "started").due = due
      /\ Run(due, by, "started").by = by
  BY DEF Run
<1>5. work' = [work EXCEPT ![w] = [work[w] EXCEPT !.at = "start", !.run = Len(runs[j]) + 1]]
  <2>1. work \in [Workers -> WorkRows]
    BY DEF Types, WorkOK
  <2>. QED BY <2>1 DEF ThreadFound
<1>6. UNCHANGED <<now, job, alarm, wake, want, rewound, cut, calls, faults>>
  BY DEF ThreadFound, owners, counts
<1>. QED BY <1>1, <1>2, <1>3, <1>4, <1>5, <1>6

LEMMA FoundTypes == ASSUME Types, NEW w \in Workers, ThreadFound(w) PROVE Types'
<1>. DEFINE j == work[w].job
            r == [work[w] EXCEPT !.at = "start", !.run = Len(runs[j]) + 1]
<1>1. j \in Jobs /\ Grows
  BY FoundStep, LogAppended DEF Types
<1>2. Len(runs[j]) \in Nat /\ Len(runs'[j]) = Len(runs[j]) + 1
  <2>1. PICK q \in RunRows : runs' = WithRun(j, q)
    BY FoundStep
  <2>. QED BY <1>1, <2>1, AppendRun, LenProperties DEF Types, RunsOK
<1>3. r \in WorkRows /\ r.job = j /\ r.run = Len(runs[j]) + 1
  <2>. DEFINE n == Len(runs[j]) + 1
  <2>1. work[w] \in WorkRows /\ n \in Nat
    BY <1>2, WorkerTypes
  <2>2. r = [work[w] EXCEPT !.at = "start", !.run = n]
    OBVIOUS
  <2>. HIDE DEF n, j
  <2>3. [work[w] EXCEPT !.at = "start", !.run = n] \in WorkRows
    BY <2>1 DEF WorkRows
  <2>4. [work[w] EXCEPT !.at = "start", !.run = n].job = work[w].job
        /\ [work[w] EXCEPT !.at = "start", !.run = n].run = n
    BY <2>1 DEF WorkRows
  <2>. QED BY <2>2, <2>3, <2>4 DEF n, j
<1>4. work' = [work EXCEPT ![w] = r] /\ UNCHANGED <<now, job, alarm, wake, want, rewound, cut, calls, faults>>
  BY FoundStep
<1>. HIDE DEF r
<1>5. WorkOK' /\ work'[w] = r /\ \A v \in Workers : v # w => work'[v] = work[v]
  BY <1>1, <1>3, <1>4, WorkStep
<1>6. r.run \in 1 .. Len(runs'[j])
  BY <1>2, <1>3
<1>7. TimeOK' /\ JobOK' /\ WakeOK' /\ OwnOK' /\ \A k \in Jobs : job'[k].last = job[k].last
  BY <1>4 DEF Types, TimeOK, JobOK, WakeOK, OwnOK
<1>. QED BY <1>1, <1>3, <1>5, <1>6, <1>7, StepTypes

\* Starts in short: the run of the worker may be going.
LEMMA StartStep == ASSUME Types, NEW w \in Workers, Starts(w)
                   PROVE  /\ work[w].job \in Jobs /\ work[w].run \in 1 .. Len(runs[work[w].job])
                          /\ \/ UNCHANGED runs
                             \/ runs' = [runs EXCEPT ![work[w].job][work[w].run] =
                                            [runs[work[w].job][work[w].run] EXCEPT !.turn = "going"]]
                          /\ \E ok \in BOOLEAN : work' = [work EXCEPT ![w] = [work[w] EXCEPT !.at = "answered", !.ok = ok]]
                          /\ UNCHANGED <<now, job, alarm, wake, want, rewound, cut, calls, faults>>
<1>1. work[w].job \in Jobs /\ work[w].run \in 1 .. Len(runs[work[w].job])
  BY WorkerTypes DEF Starts
<1>2. work \in [Workers -> WorkRows]
  BY DEF Types, WorkOK
<1>3. PICK begun \in BOOLEAN, ok \in BOOLEAN :
         /\ runs' = IF begun THEN [runs EXCEPT ![work[w].job][work[w].run].turn = "going"] ELSE runs
         /\ work' = [work EXCEPT ![w].at = "answered", ![w].ok = ok]
  BY DEF Starts
<1>4. work' = [work EXCEPT ![w] = [work[w] EXCEPT !.at = "answered", !.ok = ok]]
  BY <1>2, <1>3
<1>5. \/ UNCHANGED runs
      \/ runs' = [runs EXCEPT ![work[w].job][work[w].run] =
                                            [runs[work[w].job][work[w].run] EXCEPT !.turn = "going"]]
  BY <1>3
<1>6. UNCHANGED <<now, job, alarm, wake, want, rewound, cut, calls, faults>>
  BY DEF Starts, owners, counts
<1>. QED BY <1>1, <1>4, <1>5, <1>6

LEMMA TurnRun == ASSUME NEW r \in RunRows, NEW turn \in {"none", "going", "ok", "bad"}
                 PROVE  /\ [r EXCEPT !.turn = turn] \in RunRows
                        /\ [r EXCEPT !.turn = turn].due = r.due /\ [r EXCEPT !.turn = turn].by = r.by
                        /\ [r EXCEPT !.turn = turn].status = r.status
BY DEF RunRows

LEMMA StartTypes == ASSUME Types, NEW w \in Workers, Starts(w) PROVE Types'
<1>. DEFINE j == work[w].job
<1>1. Stays
  <2>1. CASE UNCHANGED runs
    BY <2>1, LogKept DEF Types
  <2>2. CASE runs' = [runs EXCEPT ![j][work[w].run] = [runs[j][work[w].run] EXCEPT !.turn = "going"]]
    <3>1. j \in Jobs /\ work[w].run \in 1 .. Len(runs[j]) /\ runs[j][work[w].run] \in RunRows
      BY StartStep, RunTypes DEF Types
    <3>. DEFINE q == [runs[j][work[w].run] EXCEPT !.turn = "going"]
    <3>2. q \in RunRows /\ q.due = runs[j][work[w].run].due /\ q.by = runs[j][work[w].run].by
      BY <3>1, TurnRun
    <3>3. runs' = [runs EXCEPT ![j][work[w].run] = q]
      BY <2>2
    <3>. HIDE DEF q
    <3>. QED BY <3>1, <3>2, <3>3, LogChanged DEF Types
  <2>. QED BY <2>1, <2>2, StartStep
<1>2. PICK ok \in BOOLEAN : work' = [work EXCEPT ![w] = [work[w] EXCEPT !.at = "answered", !.ok = ok]]
  BY StartStep
<1>. DEFINE r == [work[w] EXCEPT !.at = "answered", !.ok = ok]
<1>3. r \in WorkRows /\ r.job = j /\ r.run = work[w].run
  <2>1. work[w] \in WorkRows
    BY WorkerTypes
  <2>. QED BY <2>1 DEF WorkRows
<1>4. work' = [work EXCEPT ![w] = r]
  BY <1>2
<1>. HIDE DEF r
<1>5. j \in Jobs /\ work[w].run \in 1 .. Len(runs[j]) /\ UNCHANGED <<now, job, alarm, wake, want, rewound, cut, calls, faults>>
  BY StartStep
<1>6. WorkOK' /\ work'[w] = r /\ \A v \in Workers : v # w => work'[v] = work[v]
  BY <1>3, <1>4, <1>5, WorkStep
<1>7. r.run \in 1 .. Len(runs'[j])
  BY <1>1, <1>3, <1>5 DEF Stays
<1>8. TimeOK' /\ JobOK' /\ WakeOK' /\ OwnOK' /\ \A k \in Jobs : job'[k].last = job[k].last
  BY <1>5 DEF Types, TimeOK, JobOK, WakeOK, OwnOK
<1>. QED BY <1>1, <1>3, <1>5, <1>6, <1>7, <1>8, StepTypes DEF Stays

LEMMA OneRow == ASSUME Types, NEW j \in Jobs, NEW r \in Rows, job' = Set(j, r)
                PROVE  /\ JobOK' /\ job'[j] \in {r, job[j]}
                       /\ job[j].there => job'[j] = r
                       /\ ~job[j].there => job'[j] = job[j]
                       /\ \A k \in Jobs : k # j => job'[k] = job[k]
<1>1. JobOK
  BY DEF Types
<1>. QED BY <1>1, SetRow DEF JobOK

\* What a worker leaves when it is idle again.
LEMMA IdleTypes == ASSUME Types, NEW w \in Workers, work' = [work EXCEPT ![w] = Idle]
                   PROVE  /\ WorkOK' /\ work'[w] = Idle
                          /\ \A v \in Workers : v # w => work'[v] = work[v]
                          /\ \A v \in Workers : work'[v] = work[v] \/ work'[v].at \notin {"start", "answered"}
<1>1. Idle \in WorkRows /\ Idle.at = "idle"
  BY Shapes DEF Idle
<1>. QED BY <1>1, WorkStep

LEMMA OutcomeLog == ASSUME Types, NEW w \in Workers, work[w].at = "answered", runs' = Outcome(w)
                    PROVE  Stays
<1>1. work[w].job \in Jobs /\ work[w].run \in 1 .. Len(runs[work[w].job])
  BY WorkerTypes
<1>2. CASE work[w].ok
  BY <1>2, LogKept DEF Outcome, Types
<1>3. CASE ~work[w].ok
  <2>1. runs' = SetRun(work[w].job, work[w].run, "error") /\ "error" \in Statuses
    BY <1>3 DEF Outcome, Statuses
  <2>. QED BY <1>1, <2>1, LogEnded DEF Types
<1>. QED BY <1>2, <1>3

LEMMA DispatchedTypes == ASSUME Types, PromptDispatched PROVE Types'
<1>. DEFINE w == work["alarm"]
            j == w.job
            next == NextRun(w.start)
            shows == Shown("alarm")
            r == [job[j] EXCEPT !.on = TRUE, !.next = next, !.last = w.run, !.shows = shows]
<1>a. "alarm" \in Workers
  BY DEF Workers
<1>1. /\ w.at = "answered" /\ runs' = Outcome("alarm") /\ job' = Set(j, r)
      /\ work' = [work EXCEPT !["alarm"] = Idle]
      /\ UNCHANGED <<now, alarm, wake, want, rewound, cut, calls, faults>>
  BY DEF PromptDispatched, owners, counts
<1>2. j \in Jobs /\ w.run \in 1 .. Len(runs[j]) /\ w.run \in Nat /\ w.start \in Nat
  BY <1>a, <1>1, WorkerTypes
<1>3. next \in Nat /\ shows \in Statuses
  BY <1>2 DEF NextRun, Shown, Statuses
<1>4. job[j] \in Rows
  BY <1>2 DEF Types, JobOK
<1>5. Stays
  BY <1>a, <1>1, OutcomeLog
<1>. HIDE DEF next, shows
<1>6. r \in Rows /\ r.last = w.run
  <2>. HIDE DEF r
  <2>1. r = [job[j] EXCEPT !.on = TRUE, !.next = next, !.last = w.run, !.shows = shows]
    BY DEF r
  <2>2. [job[j] EXCEPT !.on = TRUE, !.next = next, !.last = w.run, !.shows = shows] \in Rows
    BY <1>2, <1>3, <1>4 DEF Rows
  <2>3. [job[j] EXCEPT !.on = TRUE, !.next = next, !.last = w.run, !.shows = shows].last = w.run
    BY <1>4 DEF Rows
  <2>. QED BY <2>1, <2>2, <2>3
<1>. HIDE DEF r
<1>7. JobOK' /\ job'[j] \in {r, job[j]} /\ \A k \in Jobs : k # j => job'[k] = job[k]
  BY <1>1, <1>2, <1>6, OneRow
<1>8. \A k \in Jobs : job'[k].last = job[k].last \/ job'[k].last \in 0 .. Len(runs'[k])
  <2>1. r.last \in 0 .. Len(runs'[j])
    BY <1>2, <1>5, <1>6 DEF Stays
  <2>. QED BY <1>7, <2>1
<1>9. TimeOK' /\ WakeOK' /\ OwnOK'
  BY <1>1 DEF Types, TimeOK, WakeOK, OwnOK
<1>10. WorkOK' /\ \A v \in Workers : work'[v] = work[v] \/ work'[v].at \notin {"start", "answered"}
  BY <1>a, <1>1, IdleTypes
<1>. QED BY <1>5, <1>7, <1>8, <1>9, <1>10, StepTypes DEF Stays

LEMMA ManualNextTypes == ASSUME NEW row \in Rows, NEW start \in Nat, NEW blocked \in BOOLEAN
                         PROVE  ManualNext(row, start, blocked) \in Nat
BY CronConstants DEF ManualNext, NextRun, Rows

\* The end of scheduleNextAlarm's callers.
LEMMA ArmTypes == ASSUME Types, JobOK', ScheduleNextAlarm(job'), now' = now,
                         calls' = calls, faults' = faults, UNCHANGED <<want, rewound>>
                  PROVE  TimeOK' /\ OwnOK'
<1>1. alarm' \in Nat /\ cut' = {}
  BY Arms DEF Types, TimeOK, JobOK
<1>. QED BY <1>1 DEF Types, TimeOK, OwnOK

\* PromptRunByHand in short.
LEMMA ByHandStep == ASSUME Types, NEW c \in Callers, PromptRunByHand(c)
                    PROVE  \E next \in Nat, shows \in Statuses \cup {"blocked"} :
                             /\ shows = "blocked" \/ shows = Shown(c)
                             /\ job' = Set(work[c].job, [job[work[c].job] EXCEPT !.on = work[c].row.on, !.next = next,
                                                !.last = work[c].run, !.shows = shows])
<1>c. c \in Workers
  BY DEF Workers
<1>1. PICK blocked \in BOOLEAN :
         job' = Set(work[c].job, [job[work[c].job] EXCEPT !.on = work[c].row.on,
                              !.next = ManualNext(work[c].row, work[c].start, blocked),
                              !.last = work[c].run, !.shows = IF blocked THEN "blocked" ELSE Shown(c)])
  BY DEF PromptRunByHand
<1>2. ManualNext(work[c].row, work[c].start, blocked) \in Nat
  BY <1>c, WorkerTypes, ManualNextTypes
<1>3. Shown(c) \in Statuses
  BY DEF Shown, Statuses
<1>4. (IF blocked THEN "blocked" ELSE Shown(c)) \in Statuses \cup {"blocked"}
      /\ (IF blocked THEN "blocked" ELSE Shown(c)) \in {"blocked", Shown(c)}
  BY <1>3
<1>. QED BY <1>1, <1>2, <1>4

LEMMA ByHandTypes == ASSUME Types, NEW c \in Callers, PromptRunByHand(c) PROVE Types'
<1>. DEFINE w == work[c]
            j == w.job
<1>c. c \in Workers
  BY DEF Workers
<1>1. /\ w.at = "answered" /\ runs' = Outcome(c)
      /\ work' = [work EXCEPT ![c] = Idle] /\ ScheduleNextAlarm(job')
      /\ now' = now /\ calls' = calls /\ faults' = faults /\ UNCHANGED <<wake, want, rewound>>
  BY DEF PromptRunByHand, owners, counts
<1>2. j \in Jobs /\ w.run \in 1 .. Len(runs[j]) /\ w.run \in Nat /\ w.row.on \in BOOLEAN /\ job[j] \in Rows
  BY <1>c, <1>1, WorkerTypes, Reading DEF Types, JobOK
<1>3. PICK next \in Nat, shows \in Statuses \cup {"blocked"} :
         job' = Set(j, [job[j] EXCEPT !.on = w.row.on, !.next = next, !.last = w.run, !.shows = shows])
  BY ByHandStep
<1>. DEFINE r == [job[j] EXCEPT !.on = w.row.on, !.next = next, !.last = w.run, !.shows = shows]
<1>5. Stays
  BY <1>c, <1>1, OutcomeLog
<1>6. r \in Rows /\ r.last = w.run
  <2>. DEFINE on == w.row.on
  <2>1. r = [job[j] EXCEPT !.on = on, !.next = next, !.last = w.run, !.shows = shows] /\ on \in BOOLEAN
    BY <1>2
  <2>. HIDE DEF r, on
  <2>2. [job[j] EXCEPT !.on = on, !.next = next, !.last = w.run, !.shows = shows] \in Rows
    BY <1>2, <2>1 DEF Rows
  <2>3. [job[j] EXCEPT !.on = on, !.next = next, !.last = w.run, !.shows = shows].last = w.run
    BY <1>2, <2>1 DEF Rows
  <2>. QED BY <2>1, <2>2, <2>3
<1>4. job' = Set(j, r)
  BY <1>3
<1>. HIDE DEF r
<1>7. JobOK' /\ job'[j] \in {r, job[j]} /\ \A k \in Jobs : k # j => job'[k] = job[k]
  BY <1>4, <1>2, <1>6, OneRow
<1>8. \A k \in Jobs : job'[k].last = job[k].last \/ job'[k].last \in 0 .. Len(runs'[k])
  <2>1. r.last \in 0 .. Len(runs'[j])
    BY <1>2, <1>5, <1>6 DEF Stays
  <2>. QED BY <1>7, <2>1
<1>9. TimeOK' /\ WakeOK' /\ OwnOK'
  BY <1>1, <1>7, ArmTypes DEF Types, WakeOK
<1>10. WorkOK' /\ \A v \in Workers : work'[v] = work[v] \/ work'[v].at \notin {"start", "answered"}
  BY <1>c, <1>1, IdleTypes
<1>. QED BY <1>5, <1>7, <1>8, <1>9, <1>10, StepTypes DEF Stays

\* RunAutoNow in short.
LEMMA AutoNowStep == ASSUME Types, NEW c \in Callers, RunAutoNow(c)
                     PROVE  /\ work[c].job \in Jobs /\ work[c].job \in Autos
                            /\ runs' = WithRun(work[c].job, Run(now, "manual", "started"))
                            /\ \E next \in Nat, shows \in {"blocked", "started"}, blocked \in BOOLEAN :
                                 /\ shows = "blocked" => blocked
                                 /\ next = ManualNext(work[c].row, now, blocked)
                                 /\ job' = Set(work[c].job, [job[work[c].job] EXCEPT !.on = work[c].row.on,
                                            !.next = next, !.last = Len(runs[work[c].job]) + 1, !.shows = shows])
                                 /\ work' = [work EXCEPT ![c] = [work[c] EXCEPT !.at = "start", !.start = now,
                                            !.run = Len(runs[work[c].job]) + 1, !.blocked = blocked]]
                            /\ UNCHANGED <<now, alarm, wake, want, rewound, cut, calls, faults>>
<1>c. c \in Workers /\ work \in [Workers -> WorkRows] /\ now \in Nat
  BY DEF Workers, Types, WorkOK, TimeOK
<1>1. /\ work[c].job \in Autos /\ work[c].job \in Jobs
      /\ runs' = WithRun(work[c].job, Run(now, "manual", "started"))
      /\ UNCHANGED <<now, alarm, wake, want, rewound, cut, calls, faults>>
  BY DEF RunAutoNow, owners, counts, Jobs
<1>2. PICK blocked \in BOOLEAN :
         /\ job' = Set(work[c].job, [job[work[c].job] EXCEPT !.on = work[c].row.on,
                         !.next = ManualNext(work[c].row, now, blocked), !.last = Len(runs[work[c].job]) + 1,
                         !.shows = IF blocked THEN "blocked" ELSE "started"])
         /\ work' = [work EXCEPT ![c].at = "start", ![c].start = now, ![c].run = Len(runs[work[c].job]) + 1,
                                    ![c].blocked = blocked]
  BY DEF RunAutoNow
<1>3. work' = [work EXCEPT ![c] = [work[c] EXCEPT !.at = "start", !.start = now,
                                            !.run = Len(runs[work[c].job]) + 1, !.blocked = blocked]]
  BY <1>2, <1>c
<1>4. ManualNext(work[c].row, now, blocked) \in Nat
  BY <1>c, WorkerTypes, ManualNextTypes
<1>5. /\ (IF blocked THEN "blocked" ELSE "started") \in {"blocked", "started"}
      /\ (IF blocked THEN "blocked" ELSE "started") = "blocked" => blocked
  OBVIOUS
<1>. QED BY <1>1, <1>2, <1>3, <1>4, <1>5

LEMMA AutoNowTypes == ASSUME Types, NEW c \in Callers, RunAutoNow(c) PROVE Types'
<1>. DEFINE w == work[c]
            j == w.job
            n == Len(runs[j]) + 1
            q == Run(now, "manual", "started")
<1>c. c \in Workers /\ now \in Nat
  BY DEF Workers, Types, TimeOK
<1>1. /\ j \in Jobs /\ runs' = WithRun(j, q)
      /\ UNCHANGED <<now, alarm, wake, want, rewound, cut, calls, faults>>
  BY AutoNowStep
<1>2. q \in RunRows
  BY <1>c, NewRun DEF Statuses
<1>3. Grows /\ Len(runs'[j]) = n /\ n \in Nat
  BY <1>1, <1>2, LogAppended, AppendRun, LenProperties DEF Types, RunsOK
<1>4. w.row.on \in BOOLEAN /\ job[j] \in Rows /\ w \in WorkRows
  BY <1>c, <1>1, WorkerTypes, Reading DEF Types, JobOK
<1>5. PICK next \in Nat, shows \in {"blocked", "started"}, blocked \in BOOLEAN :
         /\ job' = Set(j, [job[j] EXCEPT !.on = w.row.on, !.next = next, !.last = n, !.shows = shows])
         /\ work' = [work EXCEPT ![c] = [w EXCEPT !.at = "start", !.start = now, !.run = n, !.blocked = blocked]]
  BY AutoNowStep
<1>. DEFINE r == [job[j] EXCEPT !.on = w.row.on, !.next = next, !.last = n, !.shows = shows]
            v == [w EXCEPT !.at = "start", !.start = now, !.run = n, !.blocked = blocked]
<1>. HIDE DEF n, q
<1>6. r \in Rows /\ r.last = n
  <2>. DEFINE on == w.row.on
  <2>1. r = [job[j] EXCEPT !.on = on, !.next = next, !.last = n, !.shows = shows] /\ on \in BOOLEAN
        /\ shows \in Statuses \cup {"none", "blocked"}
    BY <1>4 DEF Statuses
  <2>. HIDE DEF r, on
  <2>2. [job[j] EXCEPT !.on = on, !.next = next, !.last = n, !.shows = shows] \in Rows
    BY <1>3, <1>4, <2>1 DEF Rows
  <2>3. [job[j] EXCEPT !.on = on, !.next = next, !.last = n, !.shows = shows].last = n
    BY <1>3, <1>4, <2>1 DEF Rows
  <2>. QED BY <2>1, <2>2, <2>3
<1>7. v \in WorkRows /\ v.job = j /\ v.run = n
  <2>. HIDE DEF j
  <2>1. [w EXCEPT !.at = "start", !.start = now, !.run = n, !.blocked = blocked] \in WorkRows
    BY <1>c, <1>3, <1>4 DEF WorkRows
  <2>2. v.job = w.job /\ v.run = n
    BY <1>4 DEF WorkRows
  <2>. QED BY <2>1, <2>2 DEF j
<1>8. job' = Set(j, r) /\ work' = [work EXCEPT ![c] = v]
  BY <1>5
<1>. HIDE DEF r, v
<1>9. JobOK' /\ job'[j] \in {r, job[j]} /\ \A k \in Jobs : k # j => job'[k] = job[k]
  BY <1>1, <1>6, <1>8, OneRow
<1>10. \A k \in Jobs : job'[k].last = job[k].last \/ job'[k].last \in 0 .. Len(runs'[k])
  BY <1>3, <1>6, <1>9
<1>11. WorkOK' /\ work'[c] = v /\ \A u \in Workers : u # c => work'[u] = work[u]
  BY <1>c, <1>1, <1>7, <1>8, WorkStep
<1>12. v.run \in 1 .. Len(runs'[j])
  <2>1. Len(runs[j]) \in Nat
    BY <1>1, LenProperties DEF Types, RunsOK
  <2>. QED BY <1>3, <1>7, <2>1 DEF n
<1>13. TimeOK' /\ WakeOK' /\ OwnOK'
  BY <1>1 DEF Types, TimeOK, WakeOK, OwnOK
<1>. QED BY <1>1, <1>3, <1>7, <1>9, <1>10, <1>11, <1>12, <1>13, StepTypes

\* AutoAnswered in short: a failure is shown as no run, if the run is still the one shown.
LEMMA AnsweredStep == ASSUME Types, NEW w \in Workers, AutoAnswered(w)
                      PROVE  /\ work[w].at = "answered" /\ work[w].job \in Autos /\ work[w].job \in Jobs
                             /\ work[w].run \in 1 .. Len(runs[work[w].job])
                             /\ runs' = Outcome(w) /\ work' = [work EXCEPT ![w] = Idle]
                             /\ \/ UNCHANGED job /\ \/ work[w].ok
                                                    \/ job[work[w].job].last # work[w].run
                                                    \/ ~work[w].blocked /\ job[work[w].job].shows # "started"
                                \/ \E shows \in Statuses \cup {"none", "blocked"} :
                                      job' = [job EXCEPT ![work[w].job] =
                                                 [job[work[w].job] EXCEPT !.last = 0, !.shows = shows]]
                             /\ w = "alarm" => UNCHANGED <<alarm, cut>>
                             /\ w # "alarm" => ScheduleNextAlarm(job')
                             /\ UNCHANGED <<wake, want, rewound>>
                             /\ now' = now /\ calls' = calls /\ faults' = faults
<1>. DEFINE j == work[w].job
<1>1. /\ work[w].at = "answered" /\ j \in Autos /\ j \in Jobs
      /\ runs' = Outcome(w) /\ work' = [work EXCEPT ![w] = Idle]
      /\ UNCHANGED <<wake, want, rewound>>
      /\ now' = now /\ calls' = calls /\ faults' = faults
  BY DEF AutoAnswered, Jobs, owners, counts
<1>2. work[w].run \in 1 .. Len(runs[j])
  BY <1>1, WorkerTypes
<1>3. /\ w = "alarm" => UNCHANGED <<alarm, cut>>
      /\ w # "alarm" => ScheduleNextAlarm(job')
  BY DEF AutoAnswered
<1>4. \/ UNCHANGED job /\ \/ work[w].ok
                          \/ job[j].last # work[w].run
                          \/ ~work[w].blocked /\ job[j].shows # "started"
      \/ \E shows \in Statuses \cup {"none", "blocked"} :
            job' = [job EXCEPT ![j] = [job[j] EXCEPT !.last = 0, !.shows = shows]]
  <2>1. CASE work[w].ok
    BY <2>1 DEF AutoAnswered
  <2>2. CASE ~work[w].ok
    <3>1. job' = AutoFailed(work[w])
      BY <2>2 DEF AutoAnswered
    <3>2. CASE job[j].last = work[w].run /\ (work[w].blocked \/ job[j].shows = "started")
      <4>. DEFINE shows == IF work[w].blocked THEN job[j].shows ELSE "error"
      <4>1. job' = [job EXCEPT ![j].last = 0, ![j].shows = shows]
        BY <3>1, <3>2 DEF AutoFailed
      <4>2. job \in [Jobs -> Rows] /\ shows \in Statuses \cup {"none", "blocked"}
        BY <1>1 DEF Types, JobOK, Rows, Statuses
      <4>. HIDE DEF shows
      <4>3. job' = [job EXCEPT ![j] = [job[j] EXCEPT !.last = 0, !.shows = shows]]
        BY <1>1, <4>1, <4>2
      <4>. QED BY <4>2, <4>3
    <3>3. CASE ~(job[j].last = work[w].run /\ (work[w].blocked \/ job[j].shows = "started"))
      BY <3>1, <3>3 DEF AutoFailed
    <3>. QED BY <3>2, <3>3
  <2>. QED BY <2>1, <2>2
<1>. QED BY <1>1, <1>2, <1>3, <1>4

LEMMA AnsweredTypes == ASSUME Types, NEW w \in Workers, AutoAnswered(w) PROVE Types'
<1>. DEFINE j == work[w].job
<1>1. /\ j \in Jobs /\ work[w].at = "answered" /\ runs' = Outcome(w) /\ work' = [work EXCEPT ![w] = Idle]
      /\ UNCHANGED <<wake, want, rewound>>
      /\ now' = now /\ calls' = calls /\ faults' = faults
  BY AnsweredStep
<1>2. Grows
  BY <1>1, OutcomeLog DEF Stays
<1>3. JobOK' /\ \A k \in Jobs : job'[k].last = job[k].last \/ job'[k].last = 0
  <2>1. job \in [Jobs -> Rows]
    BY DEF Types, JobOK
  <2>2. CASE UNCHANGED job
    BY <2>1, <2>2 DEF JobOK
  <2>3. ASSUME NEW shows \in Statuses \cup {"none", "blocked"},
               job' = [job EXCEPT ![j] = [job[j] EXCEPT !.last = 0, !.shows = shows]]
        PROVE  JobOK' /\ \A k \in Jobs : job'[k].last = job[k].last \/ job'[k].last = 0
    <3>. DEFINE r == [job[j] EXCEPT !.last = 0, !.shows = shows]
    <3>1. job[j] \in Rows
      BY <1>1, <2>1
    <3>2. r \in Rows /\ r.last = 0
      BY <3>1 DEF Rows
    <3>3. job' = [job EXCEPT ![j] = r]
      BY <2>3
    <3>. HIDE DEF r
    <3>. QED BY <1>1, <2>1, <3>2, <3>3 DEF JobOK
  <2>. QED BY <2>2, <2>3, AnsweredStep
<1>4. TimeOK' /\ OwnOK'
  <2>1. CASE w = "alarm"
    <3>1. UNCHANGED <<alarm, cut>>
      BY <2>1, AnsweredStep
    <3>. QED BY <1>1, <3>1 DEF Types, TimeOK, OwnOK
  <2>2. CASE w # "alarm"
    <3>1. ScheduleNextAlarm(job')
      BY <2>2, AnsweredStep
    <3>. QED BY <1>1, <1>3, <3>1, ArmTypes
  <2>. QED BY <2>1, <2>2
<1>5. WakeOK' /\ WorkOK' /\ \A v \in Workers : work'[v] = work[v] \/ work'[v].at \notin {"start", "answered"}
  BY <1>1, IdleTypes DEF Types, WakeOK
<1>6. \A k \in Jobs : 0 \in 0 .. Len(runs'[k])
  BY <1>2, LenProperties DEF Grows, RunsOK
<1>7. \A k \in Jobs : job'[k].last = job[k].last \/ job'[k].last \in 0 .. Len(runs'[k])
  BY <1>3, <1>6
<1>. QED BY <1>2, <1>3, <1>4, <1>5, <1>7, StepTypes

\* The summary follows the run it shows, or is left.
Summary(j, i, r) ==
    \/ r.status = runs[j][i].status /\ UNCHANGED job
    \/ \E status \in Statuses :
          /\ r.status = IF runs[j][i].status = "gone" THEN "gone" ELSE status
          /\ \/ UNCHANGED job /\ (job[j].last # i \/ job[j].shows = "blocked")
             \/ job[j].last = i /\ job' = [job EXCEPT ![j] = [job[j] EXCEPT !.shows = status]]

LEMMA SummaryStep == ASSUME Types, NEW j \in Jobs, NEW i \in 1 .. Len(runs[j]), NEW r \in RunRows,
                            NEW status \in Statuses, job' = Summarised(j, i, status),
                            r.status = IF runs[j][i].status = "gone" THEN "gone" ELSE status
                     PROVE  Summary(j, i, r)
<1>1. job \in [Jobs -> Rows]
  BY DEF Types, JobOK
<1>2. CASE job[j].last = i /\ ~(status = "success" /\ job[j].shows = "blocked")
  <2>1. job' = [job EXCEPT ![j] = [job[j] EXCEPT !.shows = status]]
    BY <1>1, <1>2 DEF Summarised
  <2>. QED BY <1>2, <2>1 DEF Summary
<1>3. CASE ~(job[j].last = i /\ ~(status = "success" /\ job[j].shows = "blocked"))
  <2>1. job' = job
    BY <1>3 DEF Summarised
  <2>. QED BY <1>3, <2>1 DEF Summary
<1>. QED BY <1>2, <1>3

\* The ends of runs in short: one run of the log changes, and what shows it.
LEMMA EndStep == ASSUME Types, NEW j \in Jobs, EndNext(j)
                 PROVE  \E i \in 1 .. Len(runs[j]) : \E r \in RunRows :
                          /\ runs' = [runs EXCEPT ![j][i] = r]
                          /\ r.due = runs[j][i].due /\ r.by = runs[j][i].by
                          /\ Summary(j, i, r)
                          /\ UNCHANGED <<now, alarm, wake, work, want, rewound, cut, calls, faults>>
<1>d. DOMAIN runs[j] = 1 .. Len(runs[j]) /\ \A i \in 1 .. Len(runs[j]) : runs[j][i] \in RunRows
  BY LenProperties, RunTypes DEF Types, RunsOK
<1>r. runs \in [Jobs -> Seq(RunRows)]
  BY DEF Types, RunsOK
<1>1. CASE TurnEnds(j)
  <2>1. PICK i \in 1 .. Len(runs[j]), end \in {"ok", "bad"} :
           runs' = [runs EXCEPT ![j][i].turn = IF j \in Prompts /\ runs[j][i].status # "started"
                                                THEN "none" ELSE end]
    BY <1>1, <1>d DEF TurnEnds
  <2>. DEFINE turn == IF j \in Prompts /\ runs[j][i].status # "started" THEN "none" ELSE end
              r == [runs[j][i] EXCEPT !.turn = turn]
  <2>2. turn \in {"none", "going", "ok", "bad"} /\ runs[j][i] \in RunRows
    BY <1>d
  <2>3. runs' = [runs EXCEPT ![j][i] = r]
    BY <2>1
  <2>. HIDE DEF turn
  <2>4. r \in RunRows /\ r.due = runs[j][i].due /\ r.by = runs[j][i].by /\ r.status = runs[j][i].status
    BY <2>2 DEF RunRows
  <2>5. UNCHANGED <<now, job, alarm, wake, work, want, rewound, cut, calls, faults>>
    BY <1>1 DEF TurnEnds, owners, counts
  <2>. HIDE DEF r
  <2>. QED BY <2>3, <2>4, <2>5 DEF Summary
<1>2. CASE ReportScheduledRunOutcome(j)
  <2>1. PICK i \in 1 .. Len(runs[j]), told \in {"success", "failed"} :
           runs' = [runs EXCEPT ![j][i].told = told]
    BY <1>2, <1>d DEF ReportScheduledRunOutcome, Started
  <2>. DEFINE r == [runs[j][i] EXCEPT !.told = told]
  <2>2. runs[j][i] \in RunRows /\ runs' = [runs EXCEPT ![j][i] = r]
    BY <1>d, <2>1
  <2>3. r \in RunRows /\ r.due = runs[j][i].due /\ r.by = runs[j][i].by /\ r.status = runs[j][i].status
    BY <2>2 DEF RunRows
  <2>4. UNCHANGED <<now, job, alarm, wake, work, want, rewound, cut, calls, faults>>
    BY <1>2 DEF ReportScheduledRunOutcome, owners, counts
  <2>. HIDE DEF r
  <2>. QED BY <2>2, <2>3, <2>4 DEF Summary
<1>3. CASE FinishScheduledRun(j)
  <2>1. PICK i \in 1 .. Len(runs[j]), status \in Statuses :
           /\ runs' = [SetRun(j, i, status) EXCEPT ![j][i].turn = "none"]
           /\ job' = Summarised(j, i, status)
    BY <1>3, <1>d DEF FinishScheduledRun, Started, Statuses
  <2>. DEFINE e == Ended(runs[j][i], status)
              r == [e EXCEPT !.turn = "none"]
  <2>2. /\ e \in RunRows /\ e.due = runs[j][i].due /\ e.by = runs[j][i].by
        /\ e.status = IF runs[j][i].status = "gone" THEN "gone" ELSE status
    BY <1>d, EndedRun
  <2>3. SetRun(j, i, status) = [runs EXCEPT ![j][i] = e]
    BY DEF SetRun
  <2>. HIDE DEF e
  <2>4. /\ r \in RunRows /\ r.due = runs[j][i].due /\ r.by = runs[j][i].by
        /\ r.status = IF runs[j][i].status = "gone" THEN "gone" ELSE status
    BY <2>2 DEF RunRows
  <2>5. runs' = [runs EXCEPT ![j][i] = r]
    <3>1. runs[j] \in Seq(RunRows) /\ i \in DOMAIN runs[j]
      BY <1>d, <1>r
    <3>2. [runs EXCEPT ![j][i] = e][j][i] = e
      BY <1>r, <3>1
    <3>. DEFINE s == [runs EXCEPT ![j][i] = e]
    <3>3. runs' = [s EXCEPT ![j][i] = [s[j][i] EXCEPT !.turn = "none"]]
      BY <2>1, <2>3
    <3>4. runs' = [s EXCEPT ![j][i] = r]
      BY <3>2, <3>3
    <3>. HIDE DEF r
    <3>5. s[j] = [runs[j] EXCEPT ![i] = e]
      BY <1>r
    <3>6. [s[j] EXCEPT ![i] = r] = [runs[j] EXCEPT ![i] = r]
      BY <3>5, <1>d
    <3>7. runs' = [s EXCEPT ![j] = [runs[j] EXCEPT ![i] = r]]
      BY <3>4, <3>6
    <3>. QED BY <1>r, <3>7
  <2>. HIDE DEF r
  <2>6. Summary(j, i, r)
    BY <2>1, <2>4, SummaryStep
  <2>7. UNCHANGED <<now, alarm, wake, work, want, rewound, cut, calls, faults>>
    BY <1>3 DEF FinishScheduledRun, owners, counts
  <2>. QED BY <2>4, <2>5, <2>6, <2>7
<1>4. CASE RecordAutomationResult(j)
  <2>1. PICK i \in 1 .. Len(runs[j]), status \in Statuses :
           runs' = SetRun(j, i, status) /\ job' = Summarised(j, i, status)
    BY <1>4, <1>d DEF RecordAutomationResult, Statuses
  <2>. DEFINE r == Ended(runs[j][i], status)
  <2>2. /\ r \in RunRows /\ r.due = runs[j][i].due /\ r.by = runs[j][i].by
        /\ r.status = IF runs[j][i].status = "gone" THEN "gone" ELSE status
    BY <1>d, EndedRun
  <2>3. runs' = [runs EXCEPT ![j][i] = r]
    BY <2>1 DEF SetRun
  <2>. HIDE DEF r
  <2>4. Summary(j, i, r)
    BY <2>1, <2>2, SummaryStep
  <2>5. UNCHANGED <<now, alarm, wake, work, want, rewound, cut, calls, faults>>
    BY <1>4 DEF RecordAutomationResult, owners, counts
  <2>. QED BY <2>2, <2>3, <2>4, <2>5
<1>. QED BY <1>1, <1>2, <1>3, <1>4 DEF EndNext

LEMMA EndTypes == ASSUME Types, NEW j \in Jobs, EndNext(j) PROVE Types'
<1>1. PICK i \in 1 .. Len(runs[j]) : \E r \in RunRows :
           /\ runs' = [runs EXCEPT ![j][i] = r]
           /\ r.due = runs[j][i].due /\ r.by = runs[j][i].by
           /\ Summary(j, i, r)
           /\ UNCHANGED <<now, alarm, wake, work, want, rewound, cut, calls, faults>>
  BY EndStep
<1>2. PICK r \in RunRows :
           /\ runs' = [runs EXCEPT ![j][i] = r]
           /\ r.due = runs[j][i].due /\ r.by = runs[j][i].by
           /\ Summary(j, i, r)
           /\ UNCHANGED <<now, alarm, wake, work, want, rewound, cut, calls, faults>>
  BY <1>1
<1>3. Grows
  BY <1>2, LogChanged DEF Types, Stays
<1>4. JobOK' /\ \A k \in Jobs : job'[k].last = job[k].last
  <2>1. job \in [Jobs -> Rows]
    BY DEF Types, JobOK
  <2>2. CASE UNCHANGED job
    BY <2>1, <2>2 DEF JobOK
  <2>3. ASSUME NEW status \in Statuses, job' = [job EXCEPT ![j] = [job[j] EXCEPT !.shows = status]]
        PROVE  JobOK' /\ \A k \in Jobs : job'[k].last = job[k].last
    <3>. DEFINE q == [job[j] EXCEPT !.shows = status]
    <3>1. job[j] \in Rows
      BY <2>1
    <3>2. q \in Rows /\ q.last = job[j].last
      BY <3>1 DEF Rows
    <3>3. job' = [job EXCEPT ![j] = q]
      BY <2>3
    <3>. HIDE DEF q
    <3>. QED BY <2>1, <3>2, <3>3 DEF JobOK
  <2>. QED BY <1>2, <2>2, <2>3 DEF Summary
<1>5. TimeOK' /\ WakeOK' /\ OwnOK'
  BY <1>2 DEF Types, TimeOK, WakeOK, OwnOK
<1>. QED BY <1>2, <1>3, <1>4, <1>5, SameTypes

LEMMA AttemptedRow == ASSUME NEW r \in Rows, NEW i \in Nat, NEW t \in Nat, NEW j
                      PROVE  /\ Attempted(r, i, t, j) \in Rows
                             /\ Attempted(r, i, t, j).next = t + 1 /\ Attempted(r, i, t, j).shows = "error"
                             /\ Attempted(r, i, t, j).last \in {i, 0}
                             /\ Attempted(r, i, t, j).on = r.on /\ Attempted(r, i, t, j).there = r.there
<1>. DEFINE last == IF j \in Prompts THEN i ELSE 0
            a == [r EXCEPT !.next = t + 1, !.last = last, !.shows = "error"]
<1>1. last \in Nat /\ last \in {i, 0} /\ t + 1 \in Nat
  OBVIOUS
<1>2. Attempted(r, i, t, j) = a
  BY DEF Attempted, NextRun
<1>. HIDE DEF last
<1>3. a \in Rows
  BY <1>1 DEF Rows, Statuses
<1>4. a.next = t + 1 /\ a.shows = "error" /\ a.last = last /\ a.on = r.on /\ a.there = r.there
  BY DEF Rows
<1>. HIDE DEF a
<1>. QED BY <1>1, <1>2, <1>3, <1>4

\* The rows that a handler has still to take are of its kind.
LEMMA PendingTypes == ASSUME Types, NEW kind \in {Prompts, Autos}, NEW row \in Pending(kind)
                      PROVE  /\ row \in [job : Jobs, next : Nat]
                             /\ wake.fresh => /\ row.job \in kind \cap DueAt(wake.now)
                                              /\ row = [job |-> row.job, next |-> job[row.job].next]
                             /\ ~wake.fresh => row \in wake.todo
<1>1. wake \in Wakes /\ job \in [Jobs -> Rows]
  BY DEF Types, WakeOK, JobOK
<1>2. CASE wake.fresh
  <2>1. PICK j \in DueAt(wake.now) \cap kind : row = [job |-> j, next |-> job[j].next]
    BY <1>2 DEF Pending
  <2>2. j \in Jobs /\ job[j].next \in Nat
    BY <1>1, <2>1, Reading DEF DueAt
  <2>. QED BY <1>2, <2>1, <2>2
<1>3. CASE ~wake.fresh
  <2>1. row \in wake.todo
    BY <1>3 DEF Pending
  <2>. QED BY <1>1, <1>3, <2>1 DEF Wakes
<1>. QED BY <1>2, <1>3

LEMMA TakenTypes == ASSUME Types, NEW kind \in {Prompts, Autos}, NEW row, wake' = Taken(kind, row)
                    PROVE  WakeOK' /\ wake'.on = wake.on /\ wake'.now = wake.now /\ wake'.phase = wake.phase
                           /\ wake'.fresh = FALSE /\ wake'.todo = Pending(kind) \ {row}
<1>. DEFINE todo == Pending(kind) \ {row}
<1>1. todo \subseteq [job : Jobs, next : Nat]
  BY PendingTypes
<1>2. wake \in Wakes /\ wake' = [wake EXCEPT !.fresh = FALSE, !.todo = todo]
  BY DEF Types, WakeOK, Taken
<1>. HIDE DEF todo
<1>3. [wake EXCEPT !.fresh = FALSE, !.todo = todo] \in Wakes
  BY <1>1, <1>2 DEF Wakes
<1>4. /\ [wake EXCEPT !.fresh = FALSE, !.todo = todo].on = wake.on
      /\ [wake EXCEPT !.fresh = FALSE, !.todo = todo].now = wake.now
      /\ [wake EXCEPT !.fresh = FALSE, !.todo = todo].phase = wake.phase
      /\ [wake EXCEPT !.fresh = FALSE, !.todo = todo].fresh = FALSE
      /\ [wake EXCEPT !.fresh = FALSE, !.todo = todo].todo = todo
  BY <1>2 DEF Wakes
<1>. QED BY <1>2, <1>3, <1>4 DEF WakeOK, todo

\* A job whose dispatch is blocked in short.
LEMMA BlockedStep == ASSUME Types, NEW row \in [job : Jobs, next : Nat], Blocked(row)
                     PROVE  /\ UNCHANGED work
                            /\ \E q \in RunRows : /\ runs' = WithRun(row.job, q) /\ q.due = row.next
                                                  /\ q.by = "schedule" /\ q.status = "error"
                            /\ \E r \in Rows : /\ job' = Set(row.job, r) /\ r.next = now + Recheck + 1
                                               /\ r.shows = "error" /\ r.last \in {Len(runs[row.job]) + 1, 0}
                                               /\ r.on = job[row.job].on /\ r.there = job[row.job].there
<1>. DEFINE j == row.job
            q == Run(row.next, "schedule", "error")
            n == Len(runs[j]) + 1
            t == now + Recheck
            r == Attempted(job[j], n, t, j)
<1>1. j \in Jobs /\ row.next \in Nat /\ job[j] \in Rows /\ n \in Nat /\ t \in Nat
  BY LenProperties, CronConstants DEF Types, JobOK, RunsOK, TimeOK
<1>2. runs' = WithRun(j, q) /\ job' = Set(j, r) /\ UNCHANGED work
  BY DEF Blocked
<1>3. q \in RunRows /\ q.due = row.next /\ q.by = "schedule" /\ q.status = "error"
  <2>1. q \in RunRows
    BY <1>1, NewRun DEF Statuses
  <2>. QED BY <2>1 DEF Run
<1>. HIDE DEF q
<1>4. /\ r \in Rows /\ r.next = t + 1 /\ r.shows = "error" /\ r.last \in {n, 0}
      /\ r.on = job[j].on /\ r.there = job[j].there
  BY <1>1, AttemptedRow
<1>. HIDE DEF r
<1>. QED BY <1>2, <1>3, <1>4

LEMMA BlockedTypes == ASSUME Types, NEW row \in [job : Jobs, next : Nat], Blocked(row)
                      PROVE  /\ JobOK' /\ Grows
                             /\ \A k \in Jobs : job'[k].last = job[k].last \/ job'[k].last \in 0 .. Len(runs'[k])
<1>. DEFINE j == row.job
<1>1. PICK q \in RunRows : runs' = WithRun(j, q)
  BY BlockedStep
<1>2. PICK r \in Rows : job' = Set(j, r) /\ r.last \in {Len(runs[j]) + 1, 0}
  BY BlockedStep
<1>3. j \in Jobs
  OBVIOUS
<1>4. Grows /\ Len(runs'[j]) = Len(runs[j]) + 1 /\ Len(runs[j]) \in Nat
  BY <1>1, <1>3, LogAppended, AppendRun, LenProperties DEF Types, RunsOK
<1>5. JobOK' /\ job'[j] \in {r, job[j]} /\ \A k \in Jobs : k # j => job'[k] = job[k]
  BY <1>2, <1>3, OneRow
<1>6. r.last \in 0 .. Len(runs'[j])
  BY <1>2, <1>4
<1>. QED BY <1>4, <1>5, <1>6

LEMMA TakePromptTypes == ASSUME Types, TakePrompt PROVE Types'
<1>1. PICK row \in Pending(Prompts) :
         /\ wake' = Taken(Prompts, row)
         /\ \/ Blocked(row)
            \/ /\ work' = [work EXCEPT !["alarm"] =
                     [Idle EXCEPT !.at = "thread", !.does = "run", !.job = row.job,
                                  !.row = [NoRow EXCEPT !.next = row.next], !.start = now]]
               /\ UNCHANGED <<job, runs>>
  BY DEF TakePrompt
<1>2. row \in [job : Jobs, next : Nat] /\ "alarm" \in Workers
  BY PendingTypes DEF Workers
<1>3. WakeOK'
  BY <1>1, TakenTypes
<1>4. TimeOK' /\ OwnOK'
  BY DEF TakePrompt, owners, counts, Types, TimeOK, OwnOK
<1>5. CASE Blocked(row)
  <2>1. UNCHANGED work
    BY <1>2, <1>5, BlockedStep
  <2>. QED BY <1>2, <1>3, <1>4, <1>5, <2>1, BlockedTypes, SameTypes
<1>6. CASE ~Blocked(row)
  <2>. DEFINE from == [NoRow EXCEPT !.next = row.next]
              r == [Idle EXCEPT !.at = "thread", !.does = "run", !.job = row.job, !.row = from, !.start = now]
  <2>1. from \in Rows /\ now \in Nat /\ row.job \in Jobs
    BY <1>2, Shapes DEF NoRow, Rows, Types, TimeOK
  <2>2. work' = [work EXCEPT !["alarm"] = r] /\ UNCHANGED <<job, runs>>
    BY <1>1, <1>6
  <2>. HIDE DEF from
  <2>j. PICK j \in Jobs : j = row.job
    BY <2>1
  <2>3. r \in WorkRows /\ r.at = "thread" /\ r.job = row.job
    <3>1. r = [Idle EXCEPT !.at = "thread", !.does = "run", !.job = j, !.row = from, !.start = now]
      BY <2>j
    <3>. HIDE DEF r
    <3>2. r \in WorkRows
      BY <2>1, <3>1, Shapes DEF WorkRows
    <3>3. r.at = "thread" /\ r.job = j
      BY <3>1 DEF Idle
    <3>. QED BY <2>j, <3>2, <3>3
  <2>. HIDE DEF r
  <2>4. WorkOK' /\ work'["alarm"] = r /\ \A v \in Workers : v # "alarm" => work'[v] = work[v]
    BY <1>2, <2>1, <2>2, <2>3, WorkStep
  <2>. QED BY <1>3, <1>4, <2>2, <2>3, <2>4, WorkTypes
<1>. QED BY <1>5, <1>6

LEMMA MovedRow == ASSUME NEW r \in Rows, NEW i \in Nat, now \in Nat
                  PROVE  /\ Moved(r, i) \in Rows
                         /\ Moved(r, i).next = now + 1 /\ Moved(r, i).last = i
                         /\ Moved(r, i).shows = "started" /\ Moved(r, i).there = r.there
<1>. DEFINE next == now + 1
            m == [r EXCEPT !.on = TRUE, !.next = next, !.last = i, !.shows = "started"]
<1>1. next \in Nat
  OBVIOUS
<1>2. Moved(r, i) = m
  BY DEF Moved, NextRun
<1>. HIDE DEF next
<1>3. m \in Rows
  BY <1>1 DEF Rows, Statuses
<1>4. m.next = next /\ m.last = i /\ m.shows = "started" /\ m.there = r.there
  BY DEF Rows
<1>. HIDE DEF m
<1>. QED BY <1>2, <1>3, <1>4 DEF next

\* A workflow that the alarm dispatches in short.
LEMMA TakeAutoStep == ASSUME Types, NEW row \in [job : Jobs, next : Nat],
                             runs' = WithRun(row.job, Run(row.next, "schedule", "started")),
                             job' = Set(row.job, Moved(job[row.job], Len(runs[row.job]) + 1)),
                             work' = [work EXCEPT !["alarm"] =
                                [Idle EXCEPT !.at = "start", !.does = "run", !.job = row.job, !.start = now,
                                             !.run = Len(runs[row.job]) + 1]]
                      PROVE  /\ \E q \in RunRows : /\ runs' = WithRun(row.job, q) /\ q.due = row.next
                                                   /\ q.by = "schedule" /\ q.status = "started"
                             /\ \E r \in Rows : /\ job' = Set(row.job, r) /\ r.next = now + 1
                                                /\ r.last = Len(runs[row.job]) + 1 /\ r.shows = "started"
                                                /\ r.there = job[row.job].there
                             /\ \E v \in WorkRows : /\ work' = [work EXCEPT !["alarm"] = v] /\ v.at = "start"
                                                    /\ v.job = row.job /\ v.run = Len(runs[row.job]) + 1
                                                    /\ ~v.blocked
<1>. DEFINE j == row.job
            q == Run(row.next, "schedule", "started")
            n == Len(runs[j]) + 1
            r == Moved(job[j], n)
            v == [Idle EXCEPT !.at = "start", !.does = "run", !.job = j, !.start = now, !.run = n]
<1>1. j \in Jobs /\ row.next \in Nat /\ job[j] \in Rows /\ n \in Nat /\ now \in Nat
  BY LenProperties DEF Types, JobOK, RunsOK, TimeOK
<1>2. q \in RunRows /\ q.due = row.next /\ q.by = "schedule" /\ q.status = "started"
  <2>1. q \in RunRows
    BY <1>1, NewRun DEF Statuses
  <2>. QED BY <2>1 DEF Run
<1>3. runs' = WithRun(j, q) /\ job' = Set(j, r) /\ work' = [work EXCEPT !["alarm"] = v]
  OBVIOUS
<1>. HIDE DEF q, n
<1>4. r \in Rows /\ r.next = now + 1 /\ r.last = n /\ r.shows = "started" /\ r.there = job[j].there
  BY <1>1, MovedRow
<1>5. v \in WorkRows
  BY <1>1, Shapes DEF Idle, WorkRows
<1>6. v.at = "start" /\ v.job = j /\ v.run = n /\ ~v.blocked
  BY DEF Idle
<1>. HIDE DEF r, v
<1>. QED BY <1>2, <1>3, <1>4, <1>5, <1>6 DEF n

LEMMA TakeAutoTypes == ASSUME Types, TakeAuto PROVE Types'
<1>1. PICK row \in Pending(Autos) :
         /\ wake' = Taken(Autos, row)
         /\ \/ Blocked(row)
            \/ /\ runs' = WithRun(row.job, Run(row.next, "schedule", "started"))
               /\ job' = Set(row.job, Moved(job[row.job], Len(runs[row.job]) + 1))
               /\ work' = [work EXCEPT !["alarm"] =
                     [Idle EXCEPT !.at = "start", !.does = "run", !.job = row.job, !.start = now,
                                  !.run = Len(runs[row.job]) + 1]]
  BY DEF TakeAuto
<1>2. row \in [job : Jobs, next : Nat] /\ "alarm" \in Workers
  BY PendingTypes DEF Workers
<1>3. WakeOK'
  BY <1>1, TakenTypes
<1>4. TimeOK' /\ OwnOK'
  BY DEF TakeAuto, owners, counts, Types, TimeOK, OwnOK
<1>5. CASE Blocked(row)
  <2>1. UNCHANGED work
    BY <1>2, <1>5, BlockedStep
  <2>. QED BY <1>2, <1>3, <1>4, <1>5, <2>1, BlockedTypes, SameTypes
<1>6. CASE ~Blocked(row)
  <2>. DEFINE j == row.job
              n == Len(runs[j]) + 1
  <2>1. PICK q \in RunRows : runs' = WithRun(j, q)
    BY <1>1, <1>2, <1>6, TakeAutoStep
  <2>2. PICK r \in Rows : job' = Set(j, r) /\ r.last = n
    BY <1>1, <1>2, <1>6, TakeAutoStep
  <2>3. PICK v \in WorkRows : work' = [work EXCEPT !["alarm"] = v] /\ v.job = j /\ v.run = n
    BY <1>1, <1>2, <1>6, TakeAutoStep
  <2>4. j \in Jobs /\ Len(runs[j]) \in Nat
    BY <1>2, LenProperties DEF Types, RunsOK
  <2>5. Grows /\ Len(runs'[j]) = n /\ n \in Nat /\ n \in 1 .. n /\ n \in 0 .. n
    BY <2>1, <2>4, LogAppended, AppendRun DEF Types
  <2>. HIDE DEF n
  <2>6. JobOK' /\ job'[j] \in {r, job[j]} /\ \A k \in Jobs : k # j => job'[k] = job[k]
    BY <2>2, <2>4, OneRow
  <2>7. \A k \in Jobs : job'[k].last = job[k].last \/ job'[k].last \in 0 .. Len(runs'[k])
    BY <2>2, <2>5, <2>6
  <2>8. WorkOK' /\ work'["alarm"] = v /\ \A u \in Workers : u # "alarm" => work'[u] = work[u]
    BY <1>2, <2>3, <2>4, WorkStep
  <2>. QED BY <1>3, <1>4, <2>3, <2>4, <2>5, <2>6, <2>7, <2>8, StepTypes
<1>. QED BY <1>5, <1>6

\* The alarm's own steps: of the handler, and of time.
LEMMA WakeTypes == ASSUME Types, \/ AlarmFires \/ LookedUp \/ LimitsRead \/ PromptsDone \/ AlarmDone
                                 \/ AlarmThrows \/ Restart \/ Tick
                   PROVE  Types'
<1>0. /\ wake \in Wakes /\ now \in Nat \ {0} /\ alarm \in Nat /\ job \in [Jobs -> Rows] /\ calls \in Nat /\ faults \in Nat
      /\ "alarm" \in Workers
  BY DEF Types, WakeOK, TimeOK, JobOK, Workers
<1>1. /\ UNCHANGED <<job, runs, want, rewound>>
      /\ calls' \in Nat /\ faults' \in Nat /\ now' \in Nat \ {0}
  <2>1. CASE AlarmFires \/ LimitsRead \/ PromptsDone
    BY <1>0, <2>1 DEF AlarmFires, LimitsRead, PromptsDone, owners, counts
  <2>2. CASE LookedUp \/ AlarmDone
    BY <1>0, <2>2 DEF LookedUp, AlarmDone, owners, counts
  <2>3. CASE AlarmThrows
    BY <1>0, <2>3 DEF AlarmThrows, owners
  <2>4. CASE Restart
    BY <1>0, <2>4 DEF Restart, owners
  <2>5. CASE Tick
    BY <1>0, <2>5 DEF Tick, owners, counts
  <2>. QED BY <2>1, <2>2, <2>3, <2>4, <2>5
<1>2. JobOK' /\ alarm' \in Nat /\ cut' \subseteq Jobs
  <2>1. JobOK' /\ cut \subseteq Jobs
    BY <1>0, <1>1 DEF JobOK, Types, OwnOK
  <2>2. CASE AlarmFires \/ LimitsRead \/ PromptsDone \/ Tick
    BY <1>0, <2>1, <2>2 DEF AlarmFires, LimitsRead, PromptsDone, Tick
  <2>3. CASE LookedUp \/ AlarmDone
    <3>1. UNCHANGED <<alarm, cut>> \/ ScheduleNextAlarm(job)
      BY <2>3 DEF LookedUp, AlarmDone
    <3>. QED BY <1>0, <2>1, <3>1, Arms
  <2>4. CASE AlarmThrows
    BY <1>0, <2>1, <2>4 DEF AlarmThrows
  <2>5. CASE Restart
    <3>1. alarm' \in {now, alarm}
      BY <2>5 DEF Restart
    <3>. DEFINE lost == {work[c].job : c \in {d \in Callers :
                              work[d].at \in {"start", "answered"} /\ work[d].job \in Autos}}
    <3>2. lost \subseteq Jobs
      BY DEF Jobs
    <3>3. cut' = cut \cup lost
      BY <2>5 DEF Restart
    <3>. HIDE DEF lost
    <3>. QED BY <1>0, <2>1, <3>1, <3>2, <3>3
  <2>. QED BY <2>2, <2>3, <2>4, <2>5
<1>3. WakeOK'
  <2>1. CASE AlarmFires
    <3>. DEFINE due == HasDueScheduledWork(now)
                r == [Asleep EXCEPT !.on = TRUE, !.now = now, !.due = due, !.phase = "look"]
    <3>1. due \in BOOLEAN
      BY DEF HasDueScheduledWork
    <3>2. wake' = r
      BY <2>1 DEF AlarmFires
    <3>. HIDE DEF due
    <3>3. r \in Wakes
      BY <1>0, <3>1, Shapes DEF Asleep, Wakes
    <3>. QED BY <3>2, <3>3 DEF WakeOK
  <2>2. CASE LimitsRead \/ PromptsDone
    BY <1>0, <2>2 DEF LimitsRead, PromptsDone, WakeOK, Wakes
  <2>3. CASE LookedUp
    <3>1. wake' = Asleep \/ wake' = [wake EXCEPT !.phase = "limits"]
      BY <2>3 DEF LookedUp
    <3>2. [wake EXCEPT !.phase = "limits"] \in Wakes
      BY <1>0 DEF Wakes
    <3>. QED BY <3>1, <3>2, Shapes DEF WakeOK
  <2>4. CASE AlarmDone \/ AlarmThrows \/ Restart
    BY <2>4, Shapes DEF AlarmDone, AlarmThrows, Restart, WakeOK
  <2>5. CASE Tick
    BY <1>0, <2>5 DEF Tick, WakeOK
  <2>. QED BY <2>1, <2>2, <2>3, <2>4, <2>5
<1>4. WorkOK' /\ \A w \in Workers : work'[w] = work[w] \/ work'[w].at \notin {"start", "answered"}
  <2>1. CASE AlarmFires \/ LookedUp \/ LimitsRead \/ PromptsDone \/ AlarmDone \/ Tick
    <3>1. UNCHANGED work
      BY <2>1 DEF AlarmFires, LookedUp, LimitsRead, PromptsDone, AlarmDone, Tick
    <3>. QED BY <3>1 DEF Types, WorkOK
  <2>2. CASE AlarmThrows
    <3>1. work' = [work EXCEPT !["alarm"] = Idle]
      BY <2>2 DEF AlarmThrows
    <3>. QED BY <1>0, <3>1, IdleTypes
  <2>3. CASE Restart
    <3>1. work' = [w \in Workers |-> Idle] /\ Idle.at = "idle"
      BY <2>3 DEF Restart, Idle
    <3>. QED BY <3>1, Shapes DEF WorkOK
  <2>. QED BY <2>1, <2>2, <2>3
<1>5. TimeOK' /\ OwnOK'
  BY <1>0, <1>1, <1>2 DEF TimeOK, OwnOK, Types
<1>. QED BY <1>1, <1>3, <1>4, <1>5, WorkTypes

\* LookupFails in short: a due job that could not be looked at failed once, and moves.
LEMMA UnavailableStep == ASSUME Types, RecordDueWorkspaceUnavailable
                         PROVE  /\ Grows /\ JobOK'
                                /\ \A j \in Jobs \ DueAt(wake.now) : job'[j] = job[j] /\ runs'[j] = runs[j]
                                /\ \A j \in Jobs \cap DueAt(wake.now) :
                                     /\ job'[j].next = wake.now + 1 /\ job'[j].shows = "error"
                                     /\ job'[j].last \in {Len(runs[j]) + 1, 0}
                                     /\ job'[j].on = job[j].on /\ job'[j].there = job[j].there
                                     /\ Len(runs'[j]) = Len(runs[j]) + 1
                                     /\ runs'[j][Len(runs[j]) + 1].due = job[j].next
                                     /\ runs'[j][Len(runs[j]) + 1].status = "error"
                                     /\ runs'[j][Len(runs[j]) + 1].by = "schedule"
                                     /\ \A i \in 1 .. Len(runs[j]) : runs'[j][i] = runs[j][i]
<1>. DEFINE due == DueAt(wake.now)
            Q(j) == Run(job[j].next, "schedule", "error")
            A(j) == Attempted(job[j], Len(runs[j]) + 1, wake.now, j)
<1>0. /\ wake.now \in Nat /\ job \in [Jobs -> Rows] /\ runs \in [Jobs -> Seq(RunRows)]
      /\ \A j \in Jobs : Len(runs[j]) \in Nat
  BY LenProperties DEF Types, WakeOK, Wakes, JobOK, RunsOK
<1>1. /\ runs' = [j \in Jobs |-> IF j \in due THEN Append(runs[j], Q(j)) ELSE runs[j]]
      /\ job' = [j \in Jobs |-> IF j \in due THEN A(j) ELSE job[j]]
  BY DEF RecordDueWorkspaceUnavailable
<1>2. ASSUME NEW j \in Jobs
      PROVE  /\ Q(j) \in RunRows /\ Q(j).due = job[j].next /\ Q(j).status = "error" /\ Q(j).by = "schedule"
             /\ A(j) \in Rows /\ A(j).next = wake.now + 1 /\ A(j).shows = "error"
             /\ A(j).last \in {Len(runs[j]) + 1, 0}
             /\ A(j).on = job[j].on /\ A(j).there = job[j].there
  <2>1. job[j] \in Rows /\ job[j].next \in Nat /\ Len(runs[j]) + 1 \in Nat
    BY <1>0, Reading
  <2>2. Q(j) \in RunRows
    BY <2>1, NewRun DEF Statuses
  <2>3. Q(j).due = job[j].next /\ Q(j).status = "error" /\ Q(j).by = "schedule"
    BY DEF Run
  <2>. QED BY <1>0, <2>1, <2>2, <2>3, AttemptedRow
<1>. HIDE DEF due, Q, A
<1>3. ASSUME NEW j \in Jobs
      PROVE  /\ j \in due => runs'[j] = Append(runs[j], Q(j)) /\ job'[j] = A(j)
             /\ j \notin due => runs'[j] = runs[j] /\ job'[j] = job[j]
  BY <1>1
<1>4. ASSUME NEW j \in Jobs
      PROVE  /\ Append(runs[j], Q(j)) \in Seq(RunRows) /\ Len(Append(runs[j], Q(j))) = Len(runs[j]) + 1
             /\ Append(runs[j], Q(j))[Len(runs[j]) + 1] = Q(j)
             /\ \A i \in 1 .. Len(runs[j]) : Append(runs[j], Q(j))[i] = runs[j][i]
  BY <1>0, <1>2, AppendProperties
<1>5. JobOK'
  <2>1. \A j \in Jobs : (IF j \in due THEN A(j) ELSE job[j]) \in Rows
    BY <1>0, <1>2
  <2>. QED BY <1>1, <2>1 DEF JobOK
<1>6. RunsOK'
  <2>1. \A j \in Jobs : (IF j \in due THEN Append(runs[j], Q(j)) ELSE runs[j]) \in Seq(RunRows)
    BY <1>0, <1>4
  <2>. QED BY <1>1, <2>1 DEF RunsOK
<1>7. \A j \in Jobs : Len(runs'[j]) >= Len(runs[j]) /\ \A i \in 1 .. Len(runs[j]) : runs'[j][i] = runs[j][i]
  <2>. TAKE j \in Jobs
  <2>1. CASE j \in due
    BY <1>0, <1>3, <1>4, <2>1
  <2>2. CASE j \notin due
    BY <1>0, <1>3, <2>2
  <2>. QED BY <2>1, <2>2
<1>8. Grows
  BY <1>6, <1>7 DEF Grows
<1>9. ASSUME NEW j \in Jobs, j \in due
      PROVE  /\ job'[j].next = wake.now + 1 /\ job'[j].shows = "error"
             /\ job'[j].last \in {Len(runs[j]) + 1, 0}
             /\ job'[j].on = job[j].on /\ job'[j].there = job[j].there
             /\ Len(runs'[j]) = Len(runs[j]) + 1
             /\ runs'[j][Len(runs[j]) + 1].due = job[j].next
             /\ runs'[j][Len(runs[j]) + 1].status = "error"
             /\ runs'[j][Len(runs[j]) + 1].by = "schedule"
  BY <1>2, <1>3, <1>4, <1>9
<1>. QED BY <1>3, <1>5, <1>7, <1>8, <1>9 DEF due

LEMMA LookupFailsTypes == ASSUME Types, LookupFails PROVE Types'
<1>1. /\ wake' = Asleep /\ ScheduleNextAlarm(job')
      /\ UNCHANGED <<work, want, rewound>> /\ now' = now /\ calls' = calls /\ faults' = faults
      /\ RecordDueWorkspaceUnavailable \/ UNCHANGED <<job, runs>>
  BY DEF LookupFails, owners, counts
<1>2. JobOK' /\ Grows /\ \A k \in Jobs : job'[k].last = job[k].last \/ job'[k].last \in 0 .. Len(runs'[k])
  <2>1. CASE RecordDueWorkspaceUnavailable
    <3>1. \A k \in Jobs : Len(runs[k]) \in Nat
      BY LenProperties DEF Types, RunsOK
    <3>2. \A k \in Jobs : k \in DueAt(wake.now) => job'[k].last \in 0 .. Len(runs'[k])
      BY <2>1, <3>1, UnavailableStep
    <3>. QED BY <2>1, <3>2, UnavailableStep
  <2>2. CASE UNCHANGED <<job, runs>>
    BY <2>2, LogKept DEF Types, JobOK, Stays
  <2>. QED BY <1>1, <2>1, <2>2
<1>3. TimeOK' /\ OwnOK' /\ WakeOK'
  BY <1>1, <1>2, ArmTypes, Shapes DEF WakeOK
<1>. QED BY <1>1, <1>2, <1>3, SameTypes

LEMMA NextTypes == ASSUME Types, [Next]_vars PROVE Types'
<1>1. CASE UNCHANGED vars
  <2>1. UNCHANGED <<now, job, runs, alarm, wake, work, want, rewound, cut, calls, faults>>
    BY <1>1 DEF vars
  <2>2. TimeOK' /\ WakeOK' /\ OwnOK' /\ WorkOK'
    BY <2>1 DEF Types, TimeOK, WakeOK, OwnOK, WorkOK
  <2>. QED BY <2>1, <2>2, WorkTypes
<1>2. CASE OwnerNext
  BY <1>2, CreateTypes, DeleteTypes, DisableTypes, CallerTypes, UpdateTypes DEF OwnerNext
<1>3. CASE AlarmNext
  BY <1>3, WakeTypes, LookupFailsTypes, TakePromptTypes, DispatchedTypes, TakeAutoTypes DEF AlarmNext
<1>4. CASE AlarmThrows \/ Restart \/ Tick
  BY <1>4, WakeTypes
<1>5. CASE \E c \in Callers : CallNext(c)
  BY <1>5, CallerTypes, ByHandTypes, AutoNowTypes DEF CallNext
<1>6. CASE \E w \in Workers : DispatchNext(w)
  BY <1>6, FoundTypes, StartTypes, AnsweredTypes DEF DispatchNext
<1>7. CASE \E j \in Jobs : EndNext(j)
  BY <1>7, EndTypes
<1>. QED BY <1>1, <1>2, <1>3, <1>4, <1>5, <1>6, <1>7 DEF Next

(* Rows, runs, calls and the handler keep their shape, and what a summary   *)
(* shows or a dispatch works on is a run of the log (insertAutomationRun).  *)
THEOREM TypeCorrect == Spec => []TypeOK
BY InitTypes, NextTypes, TypesTypeOK, PTL DEF Spec

-----------------------------------------------------------------------------
(* The alarm *)

\* The handler is under way from its firing to its end, and dispatches in its last phases.
WakePart == /\ wake.on <=> wake.phase # "none"
            /\ work["alarm"].at # "idle" => wake.phase \in {"prompts", "autos"}

\* A call of a member that has written an automation's row.
AutoArming(j) == j \in Autos /\ Arming(j)

\* AlarmCovers, where only an automation's row is written long before the alarm is set:
\* a restart then remembers the call in cut.
CoverPart ==
    \A j \in Jobs : job[j].on /\ job[j].next # 0 =>
        \/ alarm # 0 /\ (alarm <= job[j].next \/ alarm <= now)
        \/ wake.on \/ j \in cut \/ AutoArming(j)

AlarmInv == Types /\ WakePart /\ CoverPart

\* Steps of the members and of time leave the handler alone.
LEMMA CallersWake == ASSUME Types, WakePart, UNCHANGED wake, work'["alarm"] = work["alarm"]
                     PROVE  WakePart'
BY DEF WakePart

LEMMA WorkerWake == ASSUME Types, WakePart, NEW w \in Workers, NEW r, work' = [work EXCEPT ![w] = r],
                           UNCHANGED wake, r.at = "idle" \/ work[w].at # "idle" \/ w # "alarm"
                    PROVE  WakePart'
<1>1. work \in [Workers -> WorkRows] /\ "alarm" \in Workers
  BY DEF Types, WorkOK, Workers
<1>2. CASE w = "alarm"
  BY <1>1, <1>2 DEF WakePart
<1>3. CASE w # "alarm"
  BY <1>1, <1>3 DEF WakePart
<1>. QED BY <1>2, <1>3

LEMMA OwnerWake == ASSUME Types, WakePart, OwnerNext PROVE WakePart'
<1>1. \A c \in Callers : c \in Workers /\ c # "alarm"
  BY CronConstants DEF Workers
<1>2. work \in [Workers -> WorkRows]
  BY DEF Types, WorkOK
<1>3. UNCHANGED wake
  BY DEF OwnerNext, Create, Delete, DisableAllScheduledPrompts, Reads, CallRefused, Update, CallThrows
<1>4. work' = work \/ \E c \in Callers : \E r : work' = [work EXCEPT ![c] = r]
  BY DEF OwnerNext, Create, Delete, DisableAllScheduledPrompts, Reads, CallRefused, Update, CallThrows
<1>5. work'["alarm"] = work["alarm"]
  BY <1>1, <1>2, <1>4 DEF Workers
<1>. QED BY <1>3, <1>5, CallersWake

LEMMA CallWake == ASSUME Types, WakePart, NEW c \in Callers, CallNext(c) PROVE WakePart'
<1>1. c \in Workers /\ c # "alarm"
  BY CronConstants DEF Workers
<1>2. work \in [Workers -> WorkRows]
  BY DEF Types, WorkOK
<1>3. UNCHANGED wake
  BY DEF CallNext, RunPromptNow, PromptRunByHand, RunAutoNow
<1>4. \E r : work' = [work EXCEPT ![c] = r]
  <2>1. CASE RunPromptNow(c)
    <3>1. work' = [work EXCEPT ![c] = [work[c] EXCEPT !.at = "thread", !.start = now]]
      BY <2>1, <1>1, <1>2 DEF RunPromptNow
    <3>. QED BY <3>1
  <2>2. CASE PromptRunByHand(c)
    BY <2>2 DEF PromptRunByHand
  <2>3. CASE RunAutoNow(c)
    BY <2>3, AutoNowStep
  <2>. QED BY <2>1, <2>2, <2>3 DEF CallNext
<1>5. work'["alarm"] = work["alarm"]
  BY <1>1, <1>2, <1>4 DEF Workers
<1>. QED BY <1>3, <1>5, CallersWake

LEMMA DispatchWake == ASSUME Types, WakePart, NEW w \in Workers, DispatchNext(w) PROVE WakePart'
<1>1. CASE ThreadFound(w)
  <2>1. work[w].at = "thread" /\ UNCHANGED wake
    BY <1>1 DEF ThreadFound
  <2>2. \E r : work' = [work EXCEPT ![w] = r]
    BY <1>1, FoundStep
  <2>. QED BY <2>1, <2>2, WorkerWake
<1>2. CASE Starts(w)
  <2>1. work[w].at = "start" /\ UNCHANGED wake
    BY <1>2 DEF Starts
  <2>2. \E r : work' = [work EXCEPT ![w] = r]
    BY <1>2, StartStep
  <2>. QED BY <2>1, <2>2, WorkerWake
<1>3. CASE AutoAnswered(w)
  <2>1. UNCHANGED wake /\ work' = [work EXCEPT ![w] = Idle] /\ Idle.at = "idle"
    BY <1>3 DEF AutoAnswered, Idle
  <2>. QED BY <2>1, WorkerWake
<1>. QED BY <1>1, <1>2, <1>3 DEF DispatchNext

LEMMA AlarmWake == ASSUME Types, WakePart, AlarmNext \/ AlarmThrows \/ Restart \/ Tick PROVE WakePart'
<1>0. wake \in Wakes /\ work \in [Workers -> WorkRows] /\ "alarm" \in Workers
  BY DEF Types, WakeOK, WorkOK, Workers
<1>a. Asleep.on = FALSE /\ Asleep.phase = "none" /\ Idle.at = "idle"
  BY DEF Asleep, Idle
<1>1. CASE AlarmFires
  <2>1. wake.phase = "none" /\ UNCHANGED work
    BY <1>1 DEF AlarmFires, WakePart
  <2>2. wake'.on = TRUE /\ wake'.phase = "look"
    BY <1>1 DEF AlarmFires, Asleep
  <2>. QED BY <2>1, <2>2 DEF WakePart
<1>2. CASE LookedUp \/ LookupFails \/ LimitsRead
  <2>1. wake.phase \in {"look", "limits"} /\ UNCHANGED work
    BY <1>2 DEF LookedUp, LookupFails, LimitsRead
  <2>2. work["alarm"].at = "idle" /\ wake.on
    BY <2>1 DEF WakePart
  <2>3. \/ wake' = Asleep \/ wake' = [wake EXCEPT !.phase = "limits"]
        \/ wake' = [wake EXCEPT !.phase = "prompts", !.fresh = TRUE]
    BY <1>2 DEF LookedUp, LookupFails, LimitsRead
  <2>4. CASE wake' = Asleep
    BY <1>a, <2>1, <2>2, <2>4 DEF WakePart
  <2>5. CASE wake' # Asleep
    <3>1. wake'.on = wake.on /\ wake'.phase \in {"limits", "prompts"}
      BY <1>0, <2>3, <2>5 DEF Wakes
    <3>. QED BY <2>1, <2>2, <3>1 DEF WakePart
  <2>. QED BY <2>4, <2>5
<1>3. CASE TakePrompt \/ TakeAuto
  <2>1. wake.phase \in {"prompts", "autos"}
    BY <1>3 DEF TakePrompt, TakeAuto
  <2>2. wake'.on = wake.on /\ wake'.phase = wake.phase
    BY <1>3, TakenTypes DEF TakePrompt, TakeAuto
  <2>. QED BY <2>1, <2>2 DEF WakePart
<1>4. CASE PromptDispatched
  <2>1. UNCHANGED wake /\ work' = [work EXCEPT !["alarm"] = Idle]
    BY <1>4 DEF PromptDispatched
  <2>. QED BY <1>0, <1>a, <2>1, WorkerWake
<1>5. CASE PromptsDone
  <2>1. wake.phase = "prompts" /\ UNCHANGED work /\ wake' = [wake EXCEPT !.phase = "autos", !.fresh = TRUE, !.todo = {}]
    BY <1>5 DEF PromptsDone
  <2>2. wake'.on = wake.on /\ wake'.phase = "autos"
    BY <1>0, <2>1 DEF Wakes
  <2>. QED BY <2>1, <2>2 DEF WakePart
<1>6. CASE AlarmDone
  <2>1. wake' = Asleep /\ UNCHANGED work /\ work["alarm"].at = "idle"
    BY <1>6 DEF AlarmDone
  <2>. QED BY <1>a, <2>1 DEF WakePart
<1>7. CASE AlarmThrows \/ Restart
  <2>1. wake' = Asleep /\ (work' = [work EXCEPT !["alarm"] = Idle] \/ work' = [w \in Workers |-> Idle])
    BY <1>7 DEF AlarmThrows, Restart
  <2>2. work'["alarm"] = Idle
    BY <1>0, <2>1
  <2>. QED BY <1>a, <2>1, <2>2 DEF WakePart
<1>8. CASE Tick
  BY <1>8 DEF Tick, WakePart
<1>. QED BY <1>1, <1>2, <1>3, <1>4, <1>5, <1>6, <1>7, <1>8 DEF AlarmNext

LEMMA NextWake == ASSUME Types, WakePart, [Next]_vars PROVE WakePart'
<1>1. CASE UNCHANGED vars \/ \E j \in Jobs : EndNext(j)
  <2>1. UNCHANGED <<wake, work>>
    BY <1>1 DEF vars, EndNext, TurnEnds, ReportScheduledRunOutcome, FinishScheduledRun, RecordAutomationResult
  <2>. QED BY <2>1, CallersWake
<1>. QED BY <1>1, OwnerWake, CallWake, DispatchWake, AlarmWake DEF Next

\* Whoever sets the alarm covers all.
LEMMA ScheduledCovers == ASSUME Types, JobOK', ScheduleNextAlarm(job'), now' = now PROVE CoverPart'
<1>1. now \in Nat \ {0} /\ job' \in [Jobs -> Rows]
  BY DEF Types, TimeOK, JobOK
<1>2. \A j \in Jobs : job'[j].on /\ job'[j].next # 0 =>
          alarm' # 0 /\ (alarm' <= job'[j].next \/ alarm' <= now)
  BY <1>1, Arms
<1>. QED BY <1>2 DEF CoverPart

\* A step that sets no alarm, of a handler that goes on or of others.
LEMMA KeptCovers == ASSUME AlarmInv, alarm' = alarm, now' \in {now, now + 1}, cut \subseteq cut',
                           wake.on => wake'.on,
                           \A j \in Jobs : job'[j].on /\ job'[j].next # 0 =>
                               \/ job[j].on /\ job'[j].next = job[j].next
                               \/ AutoArming(j)' \/ wake'.on,
                           \A j \in Jobs : AutoArming(j) => AutoArming(j)' \/ j \in cut'
                    PROVE  CoverPart'
<1>1. now \in Nat /\ alarm \in Nat /\ \A j \in Jobs : job[j].next \in Nat
  BY DEF AlarmInv, Types, TimeOK, JobOK, Rows
<1>. SUFFICES ASSUME NEW j \in Jobs, job'[j].on, job'[j].next # 0
              PROVE  \/ alarm' # 0 /\ (alarm' <= job'[j].next \/ alarm' <= now')
                     \/ wake'.on \/ j \in cut' \/ AutoArming(j)'
  BY DEF CoverPart
<1>2. CASE AutoArming(j)' \/ wake'.on
  BY <1>2
<1>3. CASE job[j].on /\ job'[j].next = job[j].next
  <2>1. \/ alarm # 0 /\ (alarm <= job[j].next \/ alarm <= now)
        \/ wake.on \/ j \in cut \/ AutoArming(j)
    BY <1>3 DEF AlarmInv, CoverPart
  <2>. QED BY <1>1, <1>3, <2>1
<1>. QED BY <1>2, <1>3

\* The worker that a step moves is the only one whose call may stop arming.
LEMMA ArmingKept == ASSUME Types, NEW w \in Workers, NEW r, work' = [work EXCEPT ![w] = r],
                           work[w].at \in {"start", "answered"} => r.job = work[w].job /\ r.at \in {"start", "answered"}
                    PROVE  \A j \in Jobs : AutoArming(j) => AutoArming(j)'
<1>1. work \in [Workers -> WorkRows] /\ Callers \subseteq Workers
  BY DEF Types, WorkOK, Workers
<1>2. work'[w] = r /\ \A v \in Workers : v # w => work'[v] = work[v]
  BY <1>1
<1>. QED BY <1>1, <1>2 DEF AutoArming, Arming

LEMMA OwnerCovers == ASSUME AlarmInv, OwnerNext PROVE CoverPart'
<1>0. Types /\ Types'
  BY NextTypes DEF AlarmInv, Next
<1>c. \A c \in Callers : c \in Workers
  BY DEF Workers
<1>1. CASE \E j \in Jobs : Create(j) \/ Delete(j)
  <2>1. ScheduleNextAlarm(job') /\ now' = now
    BY <1>1 DEF Create, Delete
  <2>. QED BY <1>0, <2>1, ScheduledCovers DEF Types
<1>2. CASE DisableAllScheduledPrompts
  <2>1. job' = [j \in Jobs |-> IF job[j].on THEN [job[j] EXCEPT !.on = FALSE, !.next = 0] ELSE job[j]]
    BY <1>2 DEF DisableAllScheduledPrompts
  <2>2. ASSUME NEW j \in Jobs PROVE ~job'[j].on
    <3>1. job[j] \in Rows
      BY <1>0 DEF Types, JobOK
    <3>2. CASE job[j].on
      <4>1. job'[j] = [job[j] EXCEPT !.on = FALSE, !.next = 0]
        BY <2>1, <3>2
      <4>2. job'[j].on = FALSE
        BY <3>1, <4>1 DEF Rows
      <4>. QED BY <4>2
    <3>3. CASE ~job[j].on
      BY <2>1, <3>3
    <3>. QED BY <3>2, <3>3
  <2>. QED BY <2>2 DEF CoverPart
<1>3. ASSUME NEW c \in Callers, Update(c) PROVE CoverPart'
  <2>1. ScheduleNextAlarm(job') /\ now' = now
    BY <1>3 DEF Update
  <2>. QED BY <1>0, <2>1, ScheduledCovers DEF Types
<1>4. ASSUME NEW c \in Callers,
             (\E j \in Jobs, does \in {"update", "run"} : Reads(c, j, does)) \/ CallRefused(c) \/ CallThrows(c)
      PROVE  CoverPart'
  <2>1. /\ UNCHANGED <<now, job, alarm, wake, cut>> /\ work[c].at \notin {"start", "answered"}
        /\ \E r : work' = [work EXCEPT ![c] = r]
    BY <1>4 DEF Reads, CallRefused, CallThrows
  <2>2. \A j \in Jobs : AutoArming(j) => AutoArming(j)'
    BY <1>0, <1>c, <2>1, ArmingKept
  <2>. QED BY <2>1, <2>2, KeptCovers
<1>. QED BY <1>1, <1>2, <1>3, <1>4 DEF OwnerNext

LEMMA CallCovers == ASSUME AlarmInv, NEW c \in Callers, CallNext(c) PROVE CoverPart'
<1>0. Types /\ Types' /\ c \in Workers
  BY NextTypes DEF AlarmInv, Next, Workers
<1>1. CASE RunPromptNow(c)
  <2>1. UNCHANGED <<now, job, alarm, wake, cut>> /\ work[c].at = "look"
    BY <1>1 DEF RunPromptNow
  <2>2. work' = [work EXCEPT ![c] = [work[c] EXCEPT !.at = "thread", !.start = now]]
    BY <1>0, <1>1 DEF RunPromptNow, Types, WorkOK
  <2>3. \A j \in Jobs : AutoArming(j) => AutoArming(j)'
    BY <1>0, <2>1, <2>2, ArmingKept
  <2>. QED BY <2>1, <2>3, KeptCovers
<1>2. CASE PromptRunByHand(c)
  <2>1. ScheduleNextAlarm(job') /\ now' = now
    BY <1>2 DEF PromptRunByHand
  <2>. QED BY <1>0, <2>1, ScheduledCovers DEF Types
<1>3. CASE RunAutoNow(c)
  <2>j. PICK j \in Jobs : j = work[c].job
    BY <1>0, <1>3, AutoNowStep
  <2>. DEFINE n == Len(runs[j]) + 1
  <2>1. j \in Autos /\ UNCHANGED <<now, alarm, wake, cut>> /\ work[c].at = "look"
    BY <1>0, <1>3, <2>j, AutoNowStep DEF RunAutoNow
  <2>2. PICK next \in Nat, shows \in {"blocked", "started"}, blocked \in BOOLEAN :
           /\ job' = Set(j, [job[j] EXCEPT !.on = work[c].row.on, !.next = next, !.last = n, !.shows = shows])
           /\ work' = [work EXCEPT ![c] = [work[c] EXCEPT !.at = "start", !.start = now, !.run = n, !.blocked = blocked]]
    BY <1>0, <1>3, <2>j, AutoNowStep
  <2>. DEFINE v == [work[c] EXCEPT !.at = "start", !.start = now, !.run = n, !.blocked = blocked]
              r == [job[j] EXCEPT !.on = work[c].row.on, !.next = next, !.last = n, !.shows = shows]
  <2>3. job' = Set(j, r) /\ work' = [work EXCEPT ![c] = v] /\ work[c] \in WorkRows /\ work \in [Workers -> WorkRows]
    BY <1>0, <2>2 DEF Types, WorkOK
  <2>4. v.at = "start" /\ v.job = work[c].job
    BY <2>3 DEF WorkRows
  <2>. HIDE DEF v, r
  <2>5. \A k \in Jobs : k # j => job'[k] = job[k]
    BY <2>3 DEF Set
  <2>6. AutoArming(j)'
    BY <1>0, <2>j, <2>1, <2>3, <2>4 DEF AutoArming, Arming
  <2>7. \A k \in Jobs : AutoArming(k) => AutoArming(k)'
    BY <1>0, <2>1, <2>3, ArmingKept
  <2>. SUFFICES ASSUME NEW k \in Jobs, job'[k].on, job'[k].next # 0
                PROVE  \/ alarm' # 0 /\ (alarm' <= job'[k].next \/ alarm' <= now')
                       \/ wake'.on \/ k \in cut' \/ AutoArming(k)'
    BY DEF CoverPart
  <2>8. CASE k = j
    BY <2>6, <2>8
  <2>9. CASE k # j
    <3>1. job'[k] = job[k]
      BY <2>5, <2>9
    <3>2. \/ alarm # 0 /\ (alarm <= job[k].next \/ alarm <= now)
          \/ wake.on \/ k \in cut \/ AutoArming(k)
      BY <3>1 DEF AlarmInv, CoverPart
    <3>3. AutoArming(k) => AutoArming(k)'
      BY <2>7
    <3>4. UNCHANGED <<now, alarm, wake, cut>>
      BY <2>1
    <3>. QED BY <3>1, <3>2, <3>3, <3>4
  <2>. QED BY <2>8, <2>9
<1>. QED BY <1>1, <1>2, <1>3 DEF CallNext

LEMMA DispatchCovers == ASSUME AlarmInv, NEW w \in Workers, DispatchNext(w) PROVE CoverPart'
<1>0. Types /\ Types' /\ work \in [Workers -> WorkRows]
  BY NextTypes DEF AlarmInv, Next, Types, WorkOK
<1>1. CASE ThreadFound(w)
  <2>1. UNCHANGED <<now, job, alarm, wake, cut>> /\ work[w].at = "thread"
    BY <1>1 DEF ThreadFound
  <2>2. \E r : work' = [work EXCEPT ![w] = r]
    BY <1>0, <1>1, FoundStep
  <2>3. \A j \in Jobs : AutoArming(j) => AutoArming(j)'
    BY <1>0, <2>1, <2>2, ArmingKept
  <2>. QED BY <2>1, <2>3, KeptCovers
<1>2. CASE Starts(w)
  <2>1. UNCHANGED <<now, job, alarm, wake, cut>>
    BY <1>2 DEF Starts
  <2>2. PICK ok \in BOOLEAN : work' = [work EXCEPT ![w] = [work[w] EXCEPT !.at = "answered", !.ok = ok]]
    BY <1>0, <1>2, StartStep
  <2>3. /\ [work[w] EXCEPT !.at = "answered", !.ok = ok].at = "answered"
        /\ [work[w] EXCEPT !.at = "answered", !.ok = ok].job = work[w].job
    BY <1>0 DEF WorkRows
  <2>4. \A j \in Jobs : AutoArming(j) => AutoArming(j)'
    BY <1>0, <2>2, <2>3, ArmingKept
  <2>. QED BY <2>1, <2>4, KeptCovers
<1>3. CASE AutoAnswered(w)
  <2>1. CASE w = "alarm"
    <3>1. work["alarm"].at # "idle"
      BY <1>3, <2>1 DEF AutoAnswered
    <3>2. wake.on /\ UNCHANGED wake
      BY <1>3, <3>1 DEF AlarmInv, WakePart, AutoAnswered
    <3>. QED BY <3>2 DEF CoverPart
  <2>2. CASE w # "alarm"
    <3>1. ScheduleNextAlarm(job') /\ now' = now
      BY <1>3, <2>2 DEF AutoAnswered
    <3>. QED BY <1>0, <3>1, ScheduledCovers DEF Types
  <2>. QED BY <2>1, <2>2
<1>. QED BY <1>1, <1>2, <1>3 DEF DispatchNext

LEMMA EndCovers == ASSUME AlarmInv, NEW j \in Jobs, EndNext(j) PROVE CoverPart'
<1>0. Types
  BY DEF AlarmInv
<1>1. PICK i \in 1 .. Len(runs[j]) : \E r \in RunRows :
         Summary(j, i, r) /\ UNCHANGED <<now, alarm, wake, work, want, rewound, cut, calls, faults>>
  BY <1>0, EndStep
<1>2. UNCHANGED <<now, alarm, wake, work, cut>>
  BY <1>1
<1>3. \A k \in Jobs : job'[k].on = job[k].on /\ job'[k].next = job[k].next
  <2>1. job \in [Jobs -> Rows]
    BY <1>0 DEF Types, JobOK
  <2>2. CASE UNCHANGED job
    BY <2>2
  <2>3. ASSUME NEW status \in Statuses, job' = [job EXCEPT ![j] = [job[j] EXCEPT !.shows = status]]
        PROVE  \A k \in Jobs : job'[k].on = job[k].on /\ job'[k].next = job[k].next
    <3>. DEFINE q == [job[j] EXCEPT !.shows = status]
    <3>1. job[j] \in Rows /\ job' = [job EXCEPT ![j] = q]
      BY <2>1, <2>3
    <3>2. q.on = job[j].on /\ q.next = job[j].next
      BY <3>1 DEF Rows
    <3>. HIDE DEF q
    <3>. QED BY <2>1, <3>1, <3>2
  <2>. QED BY <1>1, <2>2, <2>3 DEF Summary
<1>4. \A k \in Jobs : AutoArming(k) => AutoArming(k)'
  BY <1>2 DEF AutoArming, Arming
<1>. QED BY <1>2, <1>3, <1>4, KeptCovers

LEMMA AlarmCoversNext == ASSUME AlarmInv, AlarmNext \/ AlarmThrows \/ Restart \/ Tick PROVE CoverPart'
<1>0. Types /\ Types' /\ WakePart /\ wake \in Wakes /\ now \in Nat \ {0}
  BY NextTypes DEF AlarmInv, Next, Types, WakeOK, TimeOK
<1>1. CASE AlarmFires
  <2>1. wake'.on = TRUE
    BY <1>1 DEF AlarmFires, Asleep
  <2>. QED BY <2>1 DEF CoverPart
<1>2. CASE LookupFails \/ AlarmDone \/ (LookedUp /\ ~wake.due)
  <2>1. now' = now
    BY <1>2 DEF LookupFails, AlarmDone, LookedUp
  <2>2. ScheduleNextAlarm(job')
    <3>1. CASE LookupFails
      BY <3>1 DEF LookupFails
    <3>2. CASE AlarmDone \/ (LookedUp /\ ~wake.due)
      <4>1. job' = job /\ ScheduleNextAlarm(job)
        BY <3>2 DEF AlarmDone, LookedUp
      <4>. QED BY <4>1
    <3>. QED BY <1>2, <3>1, <3>2
  <2>. QED BY <1>0, <2>1, <2>2, ScheduledCovers DEF Types
<1>3. CASE LimitsRead \/ PromptsDone \/ TakePrompt \/ TakeAuto \/ PromptDispatched \/ (LookedUp /\ wake.due)
  <2>1. wake.on
    BY <1>0, <1>3 DEF WakePart, LimitsRead, PromptsDone, TakePrompt, TakeAuto, PromptDispatched, LookedUp
  <2>2. wake'.on = wake.on
    <3>1. CASE LimitsRead \/ PromptsDone \/ PromptDispatched \/ (LookedUp /\ wake.due)
      BY <1>0, <3>1 DEF LimitsRead, PromptsDone, PromptDispatched, LookedUp, Wakes
    <3>2. CASE TakePrompt \/ TakeAuto
      BY <1>0, <3>2, TakenTypes DEF TakePrompt, TakeAuto
    <3>. QED BY <1>3, <3>1, <3>2
  <2>. QED BY <2>1, <2>2 DEF CoverPart
<1>4. CASE AlarmThrows
  <2>1. alarm' = now /\ now' = now
    BY <1>4 DEF AlarmThrows
  <2>. QED BY <1>0, <2>1 DEF CoverPart
<1>5. CASE Restart
  <2>1. now' = now /\ job' = job /\ alarm' = IF wake.on THEN now ELSE alarm
    BY <1>5 DEF Restart
  <2>2. CASE wake.on
    BY <1>0, <2>1, <2>2 DEF CoverPart
  <2>3. CASE ~wake.on
    <3>1. alarm' = alarm /\ cut \subseteq cut'
      BY <1>5, <2>1, <2>3 DEF Restart
    <3>2. \A j \in Jobs : AutoArming(j) => j \in cut'
      BY <1>5 DEF Restart, AutoArming, Arming
    <3>. QED BY <2>1, <2>3, <3>1, <3>2, KeptCovers
  <2>. QED BY <2>2, <2>3
<1>6. CASE Tick
  <2>1. now' = now + 1 /\ UNCHANGED <<job, alarm, wake, work, cut>>
    BY <1>6 DEF Tick
  <2>2. \A j \in Jobs : AutoArming(j) => AutoArming(j)'
    BY <2>1 DEF AutoArming, Arming
  <2>. QED BY <2>1, <2>2, KeptCovers
<1>. QED BY <1>1, <1>2, <1>3, <1>4, <1>5, <1>6 DEF AlarmNext

LEMMA InitAlarm == Init => AlarmInv
<1>. SUFFICES ASSUME Init PROVE AlarmInv
  OBVIOUS
<1>1. work["alarm"] = Idle /\ wake = Asleep
  BY DEF Init, Workers
<1>2. WakePart
  BY <1>1 DEF WakePart, Asleep, Idle
<1>3. CoverPart
  BY DEF Init, CoverPart, NoRow
<1>. QED BY <1>2, <1>3, InitTypes DEF AlarmInv

LEMMA NextAlarm == AlarmInv /\ [Next]_vars => AlarmInv'
<1>. SUFFICES ASSUME AlarmInv, [Next]_vars PROVE AlarmInv'
  OBVIOUS
<1>1. Types' /\ WakePart'
  BY NextTypes, NextWake DEF AlarmInv
<1>2. CoverPart'
  <2>1. CASE UNCHANGED vars
    <3>1. UNCHANGED <<now, job, alarm, wake, work, cut>>
      BY <2>1 DEF vars
    <3>. QED BY <3>1 DEF AlarmInv, CoverPart, AutoArming, Arming
  <2>. QED BY <2>1, OwnerCovers, CallCovers, DispatchCovers, EndCovers, AlarmCoversNext DEF Next
<1>. QED BY <1>1, <1>2 DEF AlarmInv

(* A job that is enabled never waits for an alarm nobody set, whatever is   *)
(* edited, run by hand, restarted or retried while the handler or another   *)
(* call waits: scheduleNextAlarm ends every operation, and all that comes   *)
(* between a row's write and it is a call still on its way (Arming) or one  *)
(* that a restart cut off (cut).                                            *)
THEOREM EnabledIsCovered == Spec => []AlarmCovers
<1>1. AlarmInv => AlarmCovers
  BY DEF AlarmInv, CoverPart, AutoArming, AlarmCovers
<1>. QED BY <1>1, InitAlarm, NextAlarm, PTL DEF Spec
=============================================================================
