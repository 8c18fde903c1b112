----------------------------- MODULE CloudSweep -----------------------------
(***************************************************************************)
(* The cloud thread sweep: moves the threads of an activity window to the  *)
(* agent runtime, a bounded step at a time. The job, a record for each     *)
(* thread that could not move yet, and the steps' lease are rows in D1,    *)
(* and every call to D1 is a step of its own: the cron's and operators'    *)
(* steps, and an operator's start, restart and pause, interleave between.  *)
(*                                                                         *)
(* A thread's place in the index is its updated_at, and the scan goes from *)
(* the newest down. A move itself is ThreadMigration's: here it answers.   *)
(* A dry run, which moves nothing, and a deployment whose threads do not   *)
(* move are left out.                                                      *)
(***************************************************************************)
EXTENDS Naturals, Sequences, FiniteSets, FiniteSetsExt, SequencesExt

CONSTANTS
    Threads,      \* threads updated in the window when the sweep starts
    Steps,        \* steps that may be under way at a time
    PageSize,
    Workers,      \* moves a step has in flight at a time
    Lease,        \* ticks a step holds its lease
    Breaker,      \* failed moves that end a step
    GiveUp,       \* attempts after which a thread is skipped
    MaxSweeps,    \* bound: sweeps started afresh
    MaxEvents,    \* bound: pauses, threads updated meanwhile, steps that overrun their lease
    MaxFaults     \* bound: moves refused or cut short, steps that die, budgets used up

ASSUME SweepConstants ==
    /\ IsFiniteSet(Threads)
    /\ {PageSize, Workers, Lease, Breaker, GiveUp} \subseteq Nat \ {0}
    /\ {MaxSweeps, MaxEvents, MaxFaults} \subseteq Nat

VARIABLES
    now,
    job,       \* the job's row
    recs,      \* the threads' records
    lease,     \* when the steps' lease is over, 0 when it is free
    step,      \* the steps
    op,        \* the operator's call under way
    home,      \* where each thread is
    going,     \* moves nobody waits for any more
    place,     \* each thread's updated_at in the index
    late,      \* whether a step has overrun its lease
    sweeps, events, faults

bounds == <<late, sweeps, events, faults>>
vars == <<now, job, recs, lease, step, op, home, going, place, bounds>>

NoRec == [outcome |-> "none", tries |-> 0, due |-> 0]
Top == Cardinality(Threads) + MaxEvents + 1
Idle == [status |-> "idle", sweep |-> 0, phase |-> "scan", cursor |-> Top, next |-> 0, paused |-> 0]
\* st: the state the step works on; then: where it goes after a save
\* seen, known: the page's times and records as they were read
Off == [at |-> "off", st |-> Idle, page |-> <<>>, seen |-> [t \in Threads |-> Top],
        known |-> [t \in Threads |-> NoRec], taken |-> 0,
        out |-> {}, tried |-> {}, failures |-> 0, wait |-> FALSE, over |-> FALSE, then |-> "page"]
NoCall == [at |-> "none", st |-> Idle]

Fault == faults < MaxFaults /\ faults' = faults + 1 /\ UNCHANGED <<late, sweeps, events>>
Event == events < MaxEvents /\ events' = events + 1 /\ UNCHANGED <<sweeps, faults>>

-----------------------------------------------------------------------------
(* Operators: each call reads the job, then writes it *)

Calls(at, st) == /\ op = NoCall /\ op' = [at |-> at, st |-> st]
                 /\ UNCHANGED <<now, job, recs, lease, step, home, going, place>>

Fresh == [Idle EXCEPT !.status = "running", !.sweep = sweeps + 1]

\* A start resumes a paused sweep, leaves one that runs, and else begins afresh.
startCloudSweep(restart) ==
    \/ /\ job.status = "paused" /\ ~restart
       /\ Calls("write", [job EXCEPT !.status = "running"]) /\ UNCHANGED bounds
    \/ /\ restart \/ job.status \in {"idle", "complete", "blocked"}
       /\ sweeps < MaxSweeps /\ sweeps' = sweeps + 1
       /\ Calls("delete", Fresh)
       /\ UNCHANGED <<late, events, faults>>

DeleteRecords ==
    /\ op.at = "delete" /\ op' = [op EXCEPT !.at = "write"]
    /\ recs' = [t \in Threads |-> NoRec]
    /\ UNCHANGED <<now, job, lease, step, home, going, place, bounds>>

pauseCloudSweep ==
    /\ job.status \in {"running", "waiting"} /\ Event /\ UNCHANGED late
    /\ Calls("write", [job EXCEPT !.status = "paused"])

saveState ==
    /\ op.at = "write" /\ op' = NoCall /\ job' = op.st
    /\ UNCHANGED <<now, recs, lease, step, home, going, place, bounds>>

-----------------------------------------------------------------------------
(* A step: read the job, take the lease, then pages until its budget is over *)

\* a slip of the code: a waiting sweep is left waiting
CurrentAsItIs == job
\* A waiting sweep runs again when its next retry is due.
Current == IF job.status = "waiting" /\ job.next <= now THEN [job EXCEPT !.status = "running", !.next = 0] ELSE job

runCloudSweepStep(s) ==
    /\ step[s].at = "off" /\ Current.status = "running" /\ job.paused <= now
    /\ step' = [step EXCEPT ![s] = [Off EXCEPT !.at = "read", !.st = Current]]
    /\ UNCHANGED <<now, job, recs, lease, op, home, going, place, bounds>>

\* a slip of the code: the lease is taken from whoever holds it
LeaseTaken == TRUE
LeaseFree == lease <= now

acquireStepLease(s) ==
    /\ step[s].at = "read"
    /\ IF LeaseFree THEN lease' = now + Lease /\ step' = [step EXCEPT ![s].at = "probe"]
                    ELSE step' = [step EXCEPT ![s] = Off] /\ UNCHANGED lease
    /\ UNCHANGED <<now, job, recs, op, home, going, place, bounds>>

Saves(s, st, then) == step' = [step EXCEPT ![s].at = "save", ![s].st = st, ![s].then = then]

\* With no answer from the runtime the sweep pauses.
probe(s) ==
    /\ step[s].at = "probe"
    /\ \/ step' = [step EXCEPT ![s].at = "page"] /\ UNCHANGED bounds
       \/ Fault /\ Saves(s, [step[s].st EXCEPT !.paused = now + 1], "end")
    /\ UNCHANGED <<now, job, recs, lease, op, home, going, place>>

\* ORDER BY rank LIMIT PageSize: a full page if it leaves one out, and none before one it has.
Pages(S, rank) ==
    {p \in UNION {[1..n -> S] : n \in 0..PageSize} :
        /\ \A i, j \in DOMAIN p : i < j => p[i] # p[j] /\ rank[p[i]] <= rank[p[j]]
        /\ \A t \in S \ Range(p) : Len(p) = PageSize /\ \A i \in DOMAIN p : rank[p[i]] <= rank[t]}

\* The threads below the cursor, newest first.
scanPage(st) == Pages({t \in Threads : place[t] < st.cursor}, [t \in Threads |-> Top - place[t]])

ToRetry == {t \in Threads : recs[t].outcome = "retry"}
\* The records due, earliest first.
duePage == Pages({t \in ToRetry : recs[t].due <= now}, [t \in Threads |-> recs[t].due])

pageOf(st) == IF st.phase = "scan" THEN scanPage(st) ELSE duePage

\* Nothing is due: the sweep waits for its next retry, or is complete.
finish(st) ==
    IF ToRetry = {} THEN [st EXCEPT !.status = "complete", !.next = 0]
    ELSE [st EXCEPT !.status = "waiting", !.next = Max({now, Min({recs[t].due : t \in ToRetry})})]

ReadPage(s) ==
    LET st == step[s].st
    IN /\ step[s].at = "page" /\ ~step[s].over
       /\ \E page \in pageOf(st) :
          \/ /\ page # <<>>
             /\ step' = [step EXCEPT ![s] = [@ EXCEPT !.at = "work", !.page = page, !.seen = place, !.known = recs,
                                                      !.taken = 0, !.tried = {}, !.failures = 0]]
          \/ page = <<>> /\ st.phase = "scan" /\ Saves(s, [st EXCEPT !.phase = "retry", !.cursor = Top], "page")
          \/ page = <<>> /\ st.phase = "retry" /\ Saves(s, finish(st), "end")
       /\ UNCHANGED <<now, job, recs, lease, op, home, going, place, bounds>>

stop(s) == step[s].wait \/ step[s].failures >= Breaker \/ step[s].over
Ends(s) == stop(s) \/ step[s].st.status = "blocked"

BudgetEnds(s) ==
    /\ step[s].at \in {"page", "work"} /\ ~step[s].over /\ Fault
    /\ step' = [step EXCEPT ![s].over = TRUE]
    /\ UNCHANGED <<now, job, recs, lease, op, home, going, place>>

Forgotten(s, t) == IF step[s].known[t].outcome # "none" THEN recs' = [recs EXCEPT ![t] = NoRec] ELSE UNCHANGED recs

\* A worker takes the page's next thread. One recorded is left to the retries, one on
\* the runtime is settled at once; any other is to move.
TakeThread(s) ==
    LET t == step[s].page[step[s].taken + 1]
        settled == \/ step[s].st.phase = "scan" /\ step[s].known[t].outcome # "none"
                   \/ home[t] = "runtime"
    IN /\ step[s].at = "work" /\ ~Ends(s)
       /\ step[s].taken < Len(step[s].page) /\ Cardinality(step[s].out) < Workers
       /\ step' = [step EXCEPT ![s] = [step[s] EXCEPT !.taken = @ + 1, !.tried = IF settled THEN @ \cup {t} ELSE @,
                                                      !.out = IF settled THEN @ ELSE @ \cup {t}]]
       /\ IF settled /\ step[s].st.phase = "retry" THEN Forgotten(s, t) ELSE UNCHANGED recs
       /\ UNCHANGED <<now, job, lease, op, home, going, place, bounds>>

\* A thread waiting for its start when the step stops.
NoStart(s, t) ==
    /\ t \in step[s].out /\ stop(s) /\ step' = [step EXCEPT ![s].out = @ \ {t}]
    /\ UNCHANGED <<now, job, recs, lease, op, home, going, place, bounds>>

Tried(s, t) == [step[s] EXCEPT !.out = @ \ {t}, !.tried = @ \cup {t}]

Migrated(s, t) ==
    /\ t \in step[s].out /\ step' = [step EXCEPT ![s] = Tried(s, t)]
    /\ home' = [home EXCEPT ![t] = "runtime"] /\ Forgotten(s, t)
    /\ UNCHANGED <<now, job, lease, op, going, place, bounds>>

\* The record a thread that did not move gets, from the one the step read.
settle(s, t, kind) ==
    LET tries == step[s].known[t].tries + 1
    IN recs' = [recs EXCEPT ![t] =
                  IF kind = "retry" /\ tries < GiveUp
                  THEN [outcome |-> "retry", tries |-> tries, due |-> now + 1]
                  ELSE [outcome |-> "skipped", tries |-> tries, due |-> 0]]

Skipped(s, t) ==
    /\ t \in step[s].out /\ home[t] = "chat"
    /\ step' = [step EXCEPT ![s] = Tried(s, t)] /\ settle(s, t, "skipped")
    /\ UNCHANGED <<now, job, lease, op, home, going, place, bounds>>

\* Busy, or timed out with its move still going; failed; failed with a Retry-After.
NotMoved(s, t) ==
    /\ t \in step[s].out /\ Fault /\ settle(s, t, "retry")
    /\ \/ step' = [step EXCEPT ![s] = Tried(s, t)] /\ going' \in {going, going \cup {t}}
       \/ \E wait \in BOOLEAN :
            step' = [step EXCEPT ![s] = [Tried(s, t) EXCEPT !.failures = @ + 1, !.wait = @ \/ wait]]
          /\ UNCHANGED going
    /\ UNCHANGED <<now, job, lease, op, home, place>>

\* The runtime is not configured.
Blocked(s, t) ==
    /\ t \in step[s].out /\ Fault
    /\ step' = [step EXCEPT ![s] = [Tried(s, t) EXCEPT !.st.status = "blocked"]]
    /\ UNCHANGED <<now, job, recs, lease, op, home, going, place>>

LateMove(t) ==
    /\ t \in going /\ going' = going \ {t} /\ home' = [home EXCEPT ![t] = "runtime"]
    /\ UNCHANGED <<now, job, recs, lease, step, op, place, bounds>>

\* How far every thread of the page was tried.
reached(s) ==
    LET cur == step[s]
    IN CHOOSE i \in 0..Len(cur.page) : /\ \A j \in 1..i : cur.page[j] \in cur.tried
                                       /\ i < Len(cur.page) => cur.page[i + 1] \notin cur.tried

\* a slip of the code: the cursor is below the last thread tried, and so off the index
ReachedBelow(s) == IF reached(s) = 0 THEN step[s].st.cursor ELSE step[s].seen[step[s].page[reached(s)]] - 1
\* a slip of the code: the cursor is the last thread taken
LastTaken(s) ==
    IF step[s].taken = 0 THEN step[s].st.cursor ELSE step[s].seen[step[s].page[step[s].taken]]
\* The cursor: the last thread of the page every thread before which was tried.
Reached(s) == IF reached(s) = 0 THEN step[s].st.cursor ELSE step[s].seen[step[s].page[reached(s)]]

PageDone(s) ==
    LET cur == step[s]
        st == IF cur.st.phase = "scan" THEN [cur.st EXCEPT !.cursor = Reached(s)] ELSE cur.st
    IN /\ cur.at = "work" /\ cur.out = {} /\ (Ends(s) \/ cur.taken = Len(cur.page))
       /\ IF cur.st.status = "blocked" THEN Saves(s, cur.st, "end")
          ELSE IF cur.wait \/ cur.failures >= Breaker THEN Saves(s, [st EXCEPT !.paused = now + 1], "end")
          ELSE Saves(s, [st EXCEPT !.paused = 0],
                     IF Cardinality(cur.tried) < Len(cur.page) THEN "end" ELSE "page")
       /\ UNCHANGED <<now, job, recs, lease, op, home, going, place, bounds>>

-----------------------------------------------------------------------------
(* saveStepState: read whose sweep the job is, then write *)

SaveReads(s) ==
    /\ step[s].at = "save"
    /\ step' = [step EXCEPT ![s] =
                  IF job.sweep # step[s].st.sweep THEN [@ EXCEPT !.at = "page", !.over = TRUE]
                  ELSE IF job.status = "paused" THEN [@ EXCEPT !.at = "write", !.st.status = "paused", !.then = "end"]
                  ELSE [@ EXCEPT !.at = "write"]]
    /\ UNCHANGED <<now, job, recs, lease, op, home, going, place, bounds>>

SaveWrites(s) ==
    /\ step[s].at = "write" /\ job' = step[s].st
    /\ step' = [step EXCEPT ![s].at = "page", ![s].over = @ \/ step[s].then = "end"]
    /\ UNCHANGED <<now, recs, lease, op, home, going, place, bounds>>

\* Whoever holds it by now.
releaseStepLease(s) ==
    /\ step[s].at = "page" /\ step[s].over /\ lease' = 0 /\ step' = [step EXCEPT ![s] = Off]
    /\ UNCHANGED <<now, job, recs, op, home, going, place, bounds>>

Dies(s) ==
    /\ step[s].at # "off" /\ Fault /\ step' = [step EXCEPT ![s] = Off] /\ going' = going \cup step[s].out
    /\ UNCHANGED <<now, job, recs, lease, op, home, place>>

-----------------------------------------------------------------------------
Working(s) == step[s].at \notin {"off", "read"}

\* Time passes where the sweep waits for it. A step is within its lease, but for a few.
Tick ==
    /\ \A s \in Steps : ~Working(s)
    /\ (job.status = "waiting" /\ job.next > now) \/ job.paused > now \/ lease > now
    /\ now' = now + 1
    /\ UNCHANGED <<job, recs, lease, step, op, home, going, place, bounds>>

Overruns ==
    /\ lease > now /\ (\E s \in Steps : Working(s)) /\ Event /\ late' = TRUE
    /\ now' = lease
    /\ UNCHANGED <<job, recs, lease, step, op, home, going, place>>

\* Activity in a thread moves it to the top of the index.
Touch(t) ==
    /\ Event /\ UNCHANGED late
    /\ place' = [place EXCEPT ![t] = Cardinality(Threads) + events + 1]
    /\ UNCHANGED <<now, job, recs, lease, step, op, home, going>>

Init ==
    /\ now = 1 /\ job = Idle /\ recs = [t \in Threads |-> NoRec] /\ lease = 0
    /\ step = [s \in Steps |-> Off] /\ op = NoCall
    /\ home = [t \in Threads |-> "chat"] /\ going = {}
    /\ place = CHOOSE f \in [Threads -> 1..Cardinality(Threads)] : \A t, u \in Threads : f[t] = f[u] => t = u
    /\ late = FALSE /\ sweeps = 0 /\ events = 0 /\ faults = 0

Operator == (\E restart \in BOOLEAN : startCloudSweep(restart)) \/ pauseCloudSweep
Answers(s, t) == Migrated(s, t) \/ Skipped(s, t) \/ NotMoved(s, t) \/ Blocked(s, t) \/ NoStart(s, t)
Goes(s) == \/ acquireStepLease(s) \/ probe(s) \/ ReadPage(s) \/ TakeThread(s) \/ PageDone(s)
           \/ SaveReads(s) \/ SaveWrites(s) \/ releaseStepLease(s)
           \/ \E t \in Threads : Answers(s, t)

Next == \/ Tick \/ Overruns \/ Operator \/ DeleteRecords \/ saveState
        \/ \E t \in Threads : LateMove(t) \/ Touch(t)
        \/ \E s \in Steps : runCloudSweepStep(s) \/ Goes(s) \/ BudgetEnds(s) \/ Dies(s)

Spec == Init /\ [][Next]_vars

\* Time passes, the cron asks for a step again and again, and what has begun goes on.
Fairness == /\ WF_vars(Tick) /\ WF_vars(DeleteRecords) /\ WF_vars(saveState)
            /\ \A s \in Steps : WF_vars(runCloudSweepStep(s)) /\ WF_vars(Goes(s))

FairSpec == Spec /\ Fairness

-----------------------------------------------------------------------------
States == [status : {"idle", "running", "waiting", "paused", "complete", "blocked"}, sweep : 0..MaxSweeps,
           phase : {"scan", "retry"}, cursor : 1..Top, next : Nat, paused : Nat]
Records == [outcome : {"none", "retry", "skipped"}, tries : 0..GiveUp, due : Nat]

StepRecords == [at : {"off", "read", "probe", "page", "work", "save", "write"}, st : States,
                page : Seq(Threads), seen : [Threads -> 1..Top], known : [Threads -> Records],
                taken : 0..PageSize, out : SUBSET Threads, tried : SUBSET Threads, failures : Nat,
                wait : BOOLEAN, over : BOOLEAN, then : {"page", "end"}]

\* Types.
TypeOK ==
    /\ now \in Nat /\ job \in States /\ recs \in [Threads -> Records] /\ lease \in Nat
    /\ step \in [Steps -> StepRecords] /\ op \in [at : {"none", "delete", "write"}, st : States]
    /\ home \in [Threads -> {"chat", "runtime"}] /\ going \subseteq Threads /\ place \in [Threads -> 1..Top]
    /\ late \in BOOLEAN /\ sweeps \in 0..MaxSweeps /\ events \in 0..MaxEvents /\ faults \in 0..MaxFaults

Listed(t) == place[t] <= Cardinality(Threads)

\* When the sweep says it is complete, every thread that has not been updated meanwhile is
\* on the runtime or skipped with its reason, whatever steps died, ran out of budget,
\* worked from a state read before their lease or were paused ("retries what could not
\* move until nothing is left to retry: the sweep is then complete"). A step past its
\* lease may still leave a retry behind, but no thread is passed over.
AllAccountedFor ==
    job.status = "complete" =>
        \A t \in Threads : Listed(t) => \/ home[t] = "runtime"
                                       \/ recs[t].outcome = "skipped"
                                       \/ (late /\ recs[t].outcome = "retry")

\* "One step at a time (a lease in D1), whoever asks", while no step overruns its lease.
OneStepAtATime == ~late => \A s, u \in Steps : Working(s) /\ Working(u) => s = u

\* A sweep under way ends, is paused or blocked, however its steps fail on the way.
SweepEnds == job.status \in {"running", "waiting"} ~> job.status \in {"complete", "paused", "blocked"}

\* "a sweep restarted meanwhile (another startedAt) is left as it is, and a pause made
\* meanwhile stands": nothing but an operator's call ends a pause or changes the sweep.
StepLeavesThem ==
    [][ job' # job /\ op' = op =>
          job'.sweep = job.sweep /\ (job.status = "paused" => job'.status = "paused") ]_vars

=============================================================================
