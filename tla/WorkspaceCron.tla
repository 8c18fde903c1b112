--------------------------- MODULE WorkspaceCron ---------------------------
(***************************************************************************)
(* The automations of a workspace (workspace-cron.ts): one Durable Object  *)
(* with a row for each scheduled prompt and each deterministic automation, *)
(* the log of their runs, and one alarm, which dispatches what is due.     *)
(*                                                                         *)
(* A dispatch waits for other services with its row read beforehand, so    *)
(* the owner's edits, the runs asked for by hand and the ends of earlier   *)
(* runs take place meanwhile. Times are the ticks of one cron expression;  *)
(* the one second by which an alarm is set late is no tick.                *)
(***************************************************************************)
EXTENDS Naturals, Sequences

CONSTANTS
    Prompts,    \* scheduled prompts: a run is a turn of a thread's agent
    Autos,      \* deterministic automations: a run is a workflow instance
    Callers,    \* calls of the workspace's members that may be under way at a time
    NoJob,      \* what a worker that is idle works on
    Recheck,    \* ticks a job that billing blocks waits before its next occurrence
    MaxTime,    \* bound: ticks
    MaxCalls,   \* bound: creations, edits, manual runs and deletions
    MaxFaults   \* bound: restarts and handlers that throw

Jobs == Prompts \cup Autos

ASSUME CronConstants ==
    /\ Prompts \cap Autos = {} /\ NoJob \notin Jobs
    /\ "alarm" \notin Callers
    /\ Recheck \in Nat /\ MaxTime \in Nat /\ MaxCalls \in Nat /\ MaxFaults \in Nat

VARIABLES
    now,
    job,        \* the row of scheduled_prompts or deterministic_automations
    runs,       \* runs[j]: the rows of automation_runs of j, with what runs for them
    alarm,      \* when the Durable Object's alarm is set for, 0 for no alarm
    wake,       \* the alarm handler under way
    work,       \* work[w]: the dispatch or the call that w has under way
    want,       \* want[j]: whether the owner last wanted j enabled
    rewound,    \* times that an edit wrote back after they had changed
    cut,        \* jobs whose call was cut off between its write and its arming
    calls, faults

vars == <<now, job, runs, alarm, wake, work, want, rewound, cut, calls, faults>>
owners == <<want, rewound>>
counts == <<calls, faults>>

Workers == {"alarm"} \cup Callers

\* next_run_at is 0 for null; last is the last run or instance shown, 0 for null.
NoRow == [there |-> FALSE, on |-> FALSE, next |-> 0, last |-> 0, shows |-> "none"]
Idle == [at |-> "idle", does |-> "none", job |-> NoJob, row |-> NoRow,
         start |-> 0, run |-> 0, ok |-> FALSE, blocked |-> FALSE]
Asleep == [on |-> FALSE, now |-> 0, due |-> FALSE, phase |-> "none", fresh |-> FALSE, todo |-> {}]

\* getNextCronRunAt
NextRun(t) == t + 1

DueAt(t) == {j \in Jobs : job[j].on /\ job[j].next # 0 /\ job[j].next <= t}

-----------------------------------------------------------------------------
(* The alarm *)

Times(rows) == {rows[j].next : j \in {i \in Jobs : rows[i].on /\ rows[i].next # 0}}
\* a slip of the code: the alarm is set for the last of the schedules
Latest(S) == CHOOSE t \in S : \A u \in S : t >= u
Earliest(S) == CHOOSE t \in S : \A u \in S : t <= u

\* Ends every operation that changes a schedule.
ScheduleNextAlarm(rows) ==
    /\ alarm' = IF Times(rows) = {} THEN 0
                ELSE IF Earliest(Times(rows)) > now THEN Earliest(Times(rows)) ELSE now
    /\ cut' = {}

-----------------------------------------------------------------------------
(* Runs *)

Run(due, by, status) == [due |-> due, by |-> by, status |-> status, told |-> "none", turn |-> "none"]

\* a slip of the code: the run is written once its turn is accepted
WithoutRun(j, r) == runs
WithRun(j, r) == [runs EXCEPT ![j] = Append(@, r)]

\* An update of a run's row finds nothing when the row was deleted. What a run that has
\* ended was told is read no more.
Ended(r, status) == IF r.status = "gone" THEN r ELSE [r EXCEPT !.status = status, !.told = "none"]
Deleted(r) == [r EXCEPT !.status = "gone", !.told = "none"]

SetRun(j, i, status) == [runs EXCEPT ![j][i] = Ended(runs[j][i], status)]

\* An UPDATE ... WHERE id = j finds nothing when the row was deleted.
Set(j, row) == [job EXCEPT ![j] = IF @.there THEN row ELSE @]

-----------------------------------------------------------------------------
(* The owner's operations *)

Counted == calls < MaxCalls /\ calls' = calls + 1

\* The creation of a prompt waits for its thread between reading the time and the insert.
Create(j) ==
    /\ want[j] = "none" /\ Counted
    /\ \E on \in BOOLEAN, t \in IF j \in Prompts THEN 1 .. now ELSE {now} :
           /\ job' = [job EXCEPT ![j] = [NoRow EXCEPT !.there = TRUE, !.on = on,
                                          !.next = IF on THEN NextRun(t) ELSE 0]]
           /\ want' = [want EXCEPT ![j] = IF on THEN "on" ELSE "off"]
    /\ ScheduleNextAlarm(job')
    /\ UNCHANGED <<now, runs, wake, work, rewound, faults>>

Delete(j) ==
    /\ job[j].there /\ Counted
    /\ job' = [job EXCEPT ![j] = NoRow]
    /\ runs' = [runs EXCEPT ![j] = [i \in DOMAIN runs[j] |-> Deleted(runs[j][i])]]
    /\ want' = [want EXCEPT ![j] = "off"]
    /\ ScheduleNextAlarm(job')
    /\ UNCHANGED <<now, wake, work, rewound, faults>>

\* The workspace is archived or deleted.
DisableAllScheduledPrompts ==
    /\ Counted
    /\ job' = [j \in Jobs |-> IF job[j].on THEN [job[j] EXCEPT !.on = FALSE, !.next = 0] ELSE job[j]]
    /\ alarm' = 0
    /\ want' = [j \in Jobs |-> IF job[j].there THEN "off" ELSE want[j]]
    /\ UNCHANGED <<now, runs, wake, work, rewound, cut, faults>>

\* An edit and a manual run read the row, then wait for the workspace and its limits.
Reads(c, j, does) ==
    /\ work[c].at = "idle" /\ job[j].there /\ Counted
    /\ work' = [work EXCEPT ![c] = [Idle EXCEPT !.at = "look", !.does = does, !.job = j, !.row = job[j]]]
    /\ UNCHANGED <<now, job, runs, alarm, wake, owners, cut, faults>>

\* The workspace is archived or unreachable, or billing refuses the edit.
CallRefused(c) ==
    /\ c \in Callers /\ work[c].at = "look"
    /\ work' = [work EXCEPT ![c] = Idle]
    /\ UNCHANGED <<now, job, runs, alarm, wake, owners, cut, counts>>

\* on is what the edit sets, or what it read; a new time only where the edit needs one.
EditedNext(row, on, cronChanged) ==
    IF ~on THEN 0
    ELSE IF ~row.on \/ cronChanged \/ row.next = 0 THEN NextRun(now) ELSE row.next

Update(c) ==
    /\ work[c].at = "look" /\ work[c].does = "update"
    /\ \E on \in BOOLEAN, asked \in BOOLEAN, cronChanged \in BOOLEAN :
         LET j == work[c].job
             row == work[c].row
             next == EditedNext(row, on, cronChanged)
         IN /\ asked \/ on = row.on
            /\ job' = Set(j, [job[j] EXCEPT !.on = on, !.next = next])
            /\ want' = IF asked /\ job[j].there THEN [want EXCEPT ![j] = IF on THEN "on" ELSE "off"]
                        ELSE want
            /\ rewound' = IF job[j].there /\ next # 0 /\ next = row.next /\ next # job[j].next
                           THEN rewound \cup {<<j, next>>} ELSE rewound
    /\ work' = [work EXCEPT ![c] = Idle]
    /\ ScheduleNextAlarm(job')
    /\ UNCHANGED <<now, runs, wake, counts>>

-----------------------------------------------------------------------------
(* Dispatching a prompt, by the alarm or by hand *)

\* Finding the prompt's thread, or making one, comes before its run's row.
ThreadFound(w) ==
    /\ work[w].at = "thread"
    /\ LET j == work[w].job
           due == IF w = "alarm" THEN work[w].row.next ELSE work[w].start
       IN /\ runs' = WithRun(j, Run(due, IF w = "alarm" THEN "schedule" ELSE "manual", "started"))
          /\ work' = [work EXCEPT ![w].at = "start", ![w].run = Len(runs[j]) + 1]
    /\ UNCHANGED <<now, job, alarm, wake, owners, cut, counts>>

\* A call that starts a turn or a workflow may do so and fail. A busy thread starts none.
Starts(w) ==
    /\ work[w].at = "start"
    /\ \E begun \in BOOLEAN, ok \in BOOLEAN :
         LET j == work[w].job
             i == work[w].run
         IN /\ ok => begun
            /\ begun /\ j \in Prompts => \A k \in DOMAIN runs[j] : runs[j][k].turn # "going"
            /\ runs' = IF begun THEN [runs EXCEPT ![j][i].turn = "going"] ELSE runs
            /\ work' = [work EXCEPT ![w].at = "answered", ![w].ok = ok]
    /\ UNCHANGED <<now, job, alarm, wake, owners, cut, counts>>

Outcome(w) == IF work[w].ok THEN runs ELSE SetRun(work[w].job, work[w].run, "error")
Shown(w) == IF work[w].ok THEN "success" ELSE "error"

\* The alarm writes the row it read back, enabled and with its next time.
PromptDispatched ==
    LET w == work["alarm"]
        j == w.job
    IN /\ w.at = "answered" /\ j \in Prompts
       /\ runs' = Outcome("alarm")
       /\ job' = Set(j, [job[j] EXCEPT !.on = TRUE, !.next = NextRun(w.start),
                                        !.last = w.run, !.shows = Shown("alarm")])
       /\ work' = [work EXCEPT !["alarm"] = Idle]
       /\ UNCHANGED <<now, alarm, wake, owners, cut, counts>>

-----------------------------------------------------------------------------
(* Runs asked for by hand *)

ManualNext(row, start, blocked) ==
    IF ~row.on THEN 0
    ELSE IF blocked THEN NextRun(start + Recheck)
    ELSE IF row.next = 0 \/ row.next <= start THEN NextRun(start) ELSE row.next

RunPromptNow(c) ==
    /\ work[c].at = "look" /\ work[c].does = "run" /\ work[c].job \in Prompts
    /\ work' = [work EXCEPT ![c].at = "thread", ![c].start = now]
    /\ UNCHANGED <<now, job, runs, alarm, wake, owners, cut, counts>>

PromptRunByHand(c) ==
    LET w == work[c]
        j == w.job
    IN /\ c \in Callers /\ w.at = "answered" /\ j \in Prompts
       /\ runs' = Outcome(c)
       /\ \E blocked \in BOOLEAN :
            /\ blocked => w.row.on
            /\ job' = Set(j, [job[j] EXCEPT !.on = w.row.on, !.next = ManualNext(w.row, w.start, blocked),
                              !.last = w.run, !.shows = IF blocked THEN "blocked" ELSE Shown(c)])
       /\ work' = [work EXCEPT ![c] = Idle]
       /\ ScheduleNextAlarm(job')
       /\ UNCHANGED <<now, wake, owners, counts>>

\* An automation's row is written with its run's, before the workflow is created.
RunAutoNow(c) ==
    LET j == work[c].job
        row == work[c].row
    IN /\ work[c].at = "look" /\ work[c].does = "run" /\ j \in Autos
       /\ runs' = WithRun(j, Run(now, "manual", "started"))
       /\ \E blocked \in BOOLEAN :
            /\ blocked => row.on
            /\ job' = Set(j, [job[j] EXCEPT !.on = row.on, !.next = ManualNext(row, now, blocked),
                              !.last = Len(runs[j]) + 1, !.shows = IF blocked THEN "blocked" ELSE "started"])
            /\ work' = [work EXCEPT ![c].at = "start", ![c].start = now, ![c].run = Len(runs[j]) + 1,
                                    ![c].blocked = blocked]
       /\ UNCHANGED <<now, alarm, wake, owners, cut, counts>>

\* A workflow that was not created: its summary, if it is still the one shown.
AutoFailed(w) ==
    LET row == job[w.job]
    IN IF row.last = w.run /\ (w.blocked \/ row.shows = "started")
       THEN [job EXCEPT ![w.job].last = 0, ![w.job].shows = IF w.blocked THEN row.shows ELSE "error"]
       ELSE job

AutoAnswered(w) ==
    /\ work[w].at = "answered" /\ work[w].job \in Autos
    /\ runs' = Outcome(w)
    /\ job' = IF work[w].ok THEN job ELSE AutoFailed(work[w])
    /\ work' = [work EXCEPT ![w] = Idle]
    /\ IF w = "alarm" THEN UNCHANGED <<alarm, cut>> ELSE ScheduleNextAlarm(job')
    /\ UNCHANGED <<now, wake, owners, counts>>

-----------------------------------------------------------------------------
(* The ends of runs *)

\* The end of a prompt's run that has its end already will find nothing to do.
TurnEnds(j) ==
    /\ \E i \in DOMAIN runs[j], end \in {"ok", "bad"} :
         /\ runs[j][i].turn = "going"
         /\ runs' = [runs EXCEPT ![j][i].turn = IF j \in Prompts /\ runs[j][i].status # "started"
                                                THEN "none" ELSE end]
    /\ UNCHANGED <<now, job, alarm, wake, work, owners, cut, counts>>

Started(j) == {i \in DOMAIN runs[j] : runs[j][i].status = "started"}

\* The agent says how its run went: kept on the run of its thread that started last.
ReportScheduledRunOutcome(j) ==
    /\ j \in Prompts /\ \E k \in DOMAIN runs[j] : runs[j][k].turn = "going"
    /\ \E i \in Started(j), told \in {"success", "failed"} :
         /\ \A k \in Started(j) : runs[j][k].due <= runs[j][i].due
         /\ runs[j][i].told = "none"
         /\ runs' = [runs EXCEPT ![j][i].told = told]
    /\ UNCHANGED <<now, job, alarm, wake, work, owners, cut, counts>>

\* a slip of the code: the end of an earlier run is shown too
SummarisedAny(j, i, status) ==
    IF ~(status = "success" /\ job[j].shows = "blocked") THEN [job EXCEPT ![j].shows = status] ELSE job
\* The summary follows the run it shows, and keeps saying that billing blocks the schedule.
Summarised(j, i, status) ==
    IF job[j].last = i /\ ~(status = "success" /\ job[j].shows = "blocked")
    THEN [job EXCEPT ![j].shows = status] ELSE job

\* The webhook of a turn's end. A run that has its end takes no other: later deliveries
\* find nothing to do, and the turn is heard of no more.
FinishScheduledRun(j) ==
    /\ j \in Prompts
    /\ \E i \in Started(j) :
         LET r == runs[j][i]
             status == IF r.turn = "ok" /\ r.told = "success" THEN "success" ELSE "error"
         IN /\ r.turn \in {"ok", "bad"}
            /\ runs' = [SetRun(j, i, status) EXCEPT ![j][i].turn = "none"]
            /\ job' = Summarised(j, i, status)
    /\ UNCHANGED <<now, alarm, wake, work, owners, cut, counts>>

\* The workflow writes its end, in a step that is retried; a run ended before takes it too.
RecordAutomationResult(j) ==
    /\ j \in Autos
    /\ \E i \in DOMAIN runs[j] :
         LET status == IF runs[j][i].turn = "ok" THEN "success" ELSE "error"
         IN /\ runs[j][i].turn \in {"ok", "bad"}
            /\ runs' = SetRun(j, i, status)
            /\ job' = Summarised(j, i, status)
    /\ UNCHANGED <<now, alarm, wake, work, owners, cut, counts>>

-----------------------------------------------------------------------------
(* The alarm's handler *)

\* a slip of the code: what is due this very moment is not
HasOverdueWork(t) == \E j \in DueAt(t) : job[j].next < t
HasDueScheduledWork(t) == DueAt(t) # {}

AlarmFires ==
    /\ alarm # 0 /\ alarm <= now /\ ~wake.on
    /\ alarm' = 0
    /\ wake' = [Asleep EXCEPT !.on = TRUE, !.now = now, !.due = HasDueScheduledWork(now), !.phase = "look"]
    /\ UNCHANGED <<now, job, runs, work, owners, cut, counts>>

LookedUp ==
    /\ wake.phase = "look"
    /\ IF wake.due THEN wake' = [wake EXCEPT !.phase = "limits"] /\ UNCHANGED <<alarm, cut>>
                    ELSE wake' = Asleep /\ ScheduleNextAlarm(job)
    /\ UNCHANGED <<now, job, runs, work, owners, counts>>

\* A failed attempt shows as the last run and moves the schedule, enabled as it was.
Attempted(row, i, t, j) ==
    [row EXCEPT !.next = NextRun(t), !.last = IF j \in Prompts THEN i ELSE 0, !.shows = "error"]

\* One failed attempt for every job that is due by now.
RecordDueWorkspaceUnavailable ==
    LET due == DueAt(wake.now)
    IN /\ runs' = [j \in Jobs |-> IF j \in due THEN Append(runs[j], Run(job[j].next, "schedule", "error"))
                                              ELSE runs[j]]
       /\ job' = [j \in Jobs |-> IF j \in due THEN Attempted(job[j], Len(runs[j]) + 1, wake.now, j)
                                             ELSE job[j]]

\* The workspace is archived or could not be reached.
LookupFails ==
    /\ wake.phase = "look"
    /\ IF wake.due THEN RecordDueWorkspaceUnavailable ELSE UNCHANGED <<job, runs>>
    /\ wake' = Asleep /\ ScheduleNextAlarm(job')
    /\ UNCHANGED <<now, work, owners, counts>>

LimitsRead ==
    /\ wake.phase = "limits"
    /\ wake' = [wake EXCEPT !.phase = "prompts", !.fresh = TRUE]
    /\ UNCHANGED <<now, job, runs, alarm, work, owners, cut, counts>>

\* The rows of a kind are read once; those after the first wait for its dispatch.
Pending(kind) == IF wake.fresh
                 THEN {[job |-> j, next |-> job[j].next] : j \in DueAt(wake.now) \cap kind}
                 ELSE wake.todo

Taken(kind, row) == [wake EXCEPT !.fresh = FALSE, !.todo = Pending(kind) \ {row}]

Blocked(row) ==
    LET j == row.job
    IN /\ runs' = WithRun(j, Run(row.next, "schedule", "error"))
       /\ job' = Set(j, Attempted(job[j], Len(runs[j]) + 1, now + Recheck, j))
       /\ UNCHANGED work

TakePrompt ==
    /\ wake.phase = "prompts" /\ work["alarm"].at = "idle"
    /\ \E row \in Pending(Prompts) :
         /\ wake' = Taken(Prompts, row)
         /\ \/ Blocked(row)
            \/ /\ work' = [work EXCEPT !["alarm"] =
                     [Idle EXCEPT !.at = "thread", !.does = "run", !.job = row.job,
                                  !.row = [NoRow EXCEPT !.next = row.next], !.start = now]]
               /\ UNCHANGED <<job, runs>>
    /\ UNCHANGED <<now, alarm, owners, cut, counts>>

PromptsDone ==
    /\ wake.phase = "prompts" /\ work["alarm"].at = "idle" /\ Pending(Prompts) = {}
    /\ wake' = [wake EXCEPT !.phase = "autos", !.fresh = TRUE, !.todo = {}]
    /\ UNCHANGED <<now, job, runs, alarm, work, owners, cut, counts>>

\* a slip of the code: the schedule moves only once the workflow is created
Unmoved(row, i) == [row EXCEPT !.on = TRUE, !.last = i, !.shows = "started"]
\* The schedule moves before the workflow is created.
Moved(row, i) == [row EXCEPT !.on = TRUE, !.next = NextRun(now), !.last = i, !.shows = "started"]

TakeAuto ==
    /\ wake.phase = "autos" /\ work["alarm"].at = "idle"
    /\ \E row \in Pending(Autos) :
         LET j == row.job
             i == Len(runs[j]) + 1
         IN /\ wake' = Taken(Autos, row)
            /\ \/ Blocked(row)
               \/ /\ runs' = WithRun(j, Run(row.next, "schedule", "started"))
                  /\ job' = Set(j, Moved(job[j], i))
                  /\ work' = [work EXCEPT !["alarm"] =
                        [Idle EXCEPT !.at = "start", !.does = "run", !.job = j, !.start = now, !.run = i]]
    /\ UNCHANGED <<now, alarm, owners, cut, counts>>

AlarmDone ==
    /\ wake.phase = "autos" /\ work["alarm"].at = "idle" /\ Pending(Autos) = {}
    /\ wake' = Asleep /\ ScheduleNextAlarm(job)
    /\ UNCHANGED <<now, job, runs, work, owners, counts>>

-----------------------------------------------------------------------------
(* Faults *)

\* The billing plan or the prompt's thread could not be read: the platform retries the alarm.
AlarmThrows ==
    /\ wake.phase = "limits" \/ work["alarm"].at = "thread"
    /\ faults < MaxFaults /\ faults' = faults + 1
    /\ wake' = Asleep /\ alarm' = now
    /\ work' = [work EXCEPT !["alarm"] = Idle]
    /\ UNCHANGED <<now, job, runs, owners, cut, calls>>

\* What was under way in the Durable Object is lost; an alarm that had not ended is retried.
Restart ==
    /\ faults < MaxFaults /\ faults' = faults + 1
    /\ wake.on \/ \E w \in Workers : work[w].at # "idle"
    /\ wake' = Asleep /\ alarm' = IF wake.on THEN now ELSE alarm
    /\ work' = [w \in Workers |-> Idle]
    /\ cut' = cut \cup {work[c].job : c \in {d \in Callers :
                            work[d].at \in {"start", "answered"} /\ work[d].job \in Autos}}
    /\ UNCHANGED <<now, job, runs, owners, calls>>

\* A call whose thread could not be found, or made, ends there.
CallThrows(c) ==
    /\ c \in Callers /\ work[c].at = "thread"
    /\ faults < MaxFaults /\ faults' = faults + 1
    /\ work' = [work EXCEPT ![c] = Idle]
    /\ UNCHANGED <<now, job, runs, alarm, wake, owners, cut, calls>>

Tick == /\ now < MaxTime /\ now' = now + 1
        /\ UNCHANGED <<job, runs, alarm, wake, work, owners, cut, counts>>

-----------------------------------------------------------------------------
Init ==
    /\ now = 1 /\ alarm = 0 /\ wake = Asleep
    /\ job = [j \in Jobs |-> NoRow] /\ runs = [j \in Jobs |-> <<>>]
    /\ work = [w \in Workers |-> Idle]
    /\ want = [j \in Jobs |-> "none"] /\ rewound = {} /\ cut = {}
    /\ calls = 0 /\ faults = 0

OwnerNext == \/ \E j \in Jobs : Create(j) \/ Delete(j)
             \/ DisableAllScheduledPrompts
             \/ \E c \in Callers : \/ \E j \in Jobs, does \in {"update", "run"} : Reads(c, j, does)
                                   \/ CallRefused(c) \/ Update(c) \/ CallThrows(c)

CallNext(c) == RunPromptNow(c) \/ PromptRunByHand(c) \/ RunAutoNow(c)

DispatchNext(w) == ThreadFound(w) \/ Starts(w) \/ AutoAnswered(w)

EndNext(j) == TurnEnds(j) \/ ReportScheduledRunOutcome(j) \/ FinishScheduledRun(j)
              \/ RecordAutomationResult(j)

AlarmNext == \/ AlarmFires \/ LookedUp \/ LookupFails \/ LimitsRead
             \/ TakePrompt \/ PromptDispatched \/ PromptsDone \/ TakeAuto \/ AlarmDone

Next == \/ OwnerNext \/ AlarmNext \/ AlarmThrows \/ Restart \/ Tick
        \/ \E c \in Callers : CallNext(c)
        \/ \E w \in Workers : DispatchNext(w)
        \/ \E j \in Jobs : EndNext(j)

Spec == Init /\ [][Next]_vars

\* The platform fires a due alarm, a call is answered or fails, and a handler goes on.
Fairness == /\ WF_vars(AlarmNext)
            /\ \A w \in Workers : WF_vars(DispatchNext(w))
            /\ \A c \in Callers : WF_vars(CallNext(c))

FairSpec == Spec /\ Fairness

-----------------------------------------------------------------------------
(* Properties *)

Statuses == {"started", "success", "error"}
Rows == [there : BOOLEAN, on : BOOLEAN, next : Nat, last : Nat,
         shows : Statuses \cup {"none", "blocked"}]
RunRows == [due : Nat, by : {"schedule", "manual"}, status : Statuses \cup {"gone"},
            told : {"none", "success", "failed"}, turn : {"none", "going", "ok", "bad"}]
WorkRows == [at : {"idle", "look", "thread", "start", "answered"}, does : {"none", "update", "run"},
             job : Jobs \cup {NoJob}, row : Rows, start : Nat, run : Nat,
             ok : BOOLEAN, blocked : BOOLEAN]
Wakes == [on : BOOLEAN, now : Nat, due : BOOLEAN,
          phase : {"none", "look", "limits", "prompts", "autos"}, fresh : BOOLEAN,
          todo : SUBSET [job : Jobs, next : Nat]]

\* The variables have their types, and what is shown or dispatched is a run of the log.
TypeOK ==
    /\ now \in Nat /\ alarm \in Nat /\ wake \in Wakes
    /\ job \in [Jobs -> Rows] /\ runs \in [Jobs -> Seq(RunRows)]
    /\ work \in [Workers -> WorkRows]
    /\ want \in [Jobs -> {"none", "on", "off"}]
    /\ rewound \subseteq Jobs \X Nat /\ cut \subseteq Jobs
    /\ calls \in Nat /\ faults \in Nat
    /\ \A j \in Jobs : job[j].last \in 0 .. Len(runs[j])
    /\ \A w \in Workers : work[w].at \in {"start", "answered"} =>
            work[w].job \in Jobs /\ work[w].run \in 1 .. Len(runs[work[w].job])

\* A call that has still to set the alarm for the row it wrote.
Arming(j) == \E c \in Callers : work[c].job = j /\ work[c].at \in {"start", "answered"}

\* A job that is enabled never waits for an alarm nobody set (scheduleNextAlarm at the
\* end of every operation): the alarm is set for its time or before, or what will set
\* it is under way. The exception is a call that a restart cut off on its way there.
AlarmCovers ==
    \A j \in Jobs : job[j].on /\ job[j].next # 0 =>
        \/ alarm # 0 /\ (alarm <= job[j].next \/ alarm <= now)
        \/ wake.on \/ j \in cut \/ Arming(j)

\* An automation's occurrence starts one workflow, whatever restarts, retried alarms and
\* manual runs there are: the schedule moves before the workflow is created. Only an
\* edit that writes back the time it read before the alarm moved it repeats one.
OncePerOccurrence ==
    \A j \in Autos : \A i, k \in DOMAIN runs[j] :
        /\ i # k /\ runs[j][i].due = runs[j][k].due
        /\ runs[j][i].by = "schedule" /\ runs[j][k].by = "schedule"
        => <<j, runs[j][i].due>> \in rewound

\* The summary of a job never says that its last run is under way, or failed, where the
\* log says otherwise. The two are updated under different conditions, by the answer of
\* the dispatch and by the run's own end, in either order. (It may say "success" of a
\* run that failed: a prompt's says so from its dispatch on.)
ShownByItsRun ==
    \A j \in Jobs : job[j].last # 0 /\ job[j].shows \in {"started", "error"} =>
        runs[j][job[j].last].status = job[j].shows

\* "kept on the thread's run in progress" (reportScheduledRunOutcome): a reported outcome
\* is kept on the run whose turn reports it. It is not where a run asked for by hand and
\* a due one are both open, as the code takes the one that was due last.
ReportOnItsRun ==
    [][\A j \in Prompts : \A i \in DOMAIN runs[j] :
           i \in DOMAIN runs'[j] /\ runs'[j][i].told \notin {"none", runs[j][i].told}
           => runs[j][i].turn = "going"]_vars

\* "enabled records owner intent and may only be cleared by an owner edit or an
\* explicit workspace archive/delete path" (disableAllScheduledPrompts): with nothing
\* under way a job is enabled exactly when its owner last wanted it.
OwnerIntentKept ==
    ~wake.on /\ (\A w \in Workers : work[w].at = "idle") =>
        \A j \in Jobs : job[j].there => (job[j].on <=> want[j] = "on")

\* What is due is attempted and moves on, or is disabled: no restart, failed lookup,
\* blocked plan, refused dispatch or edit leaves a job due for good.
DueIsHandled == \A j \in Jobs : j \in DueAt(now) ~> j \notin DueAt(now) \/ j \in cut

=============================================================================
