---------------------------- MODULE ThreadStatus ----------------------------
(***************************************************************************)
(* Whether a thread shows as running (WorkspaceDO's thread_streaming_      *)
(* status), and what OrgDO keeps of its last completion. Sends mark the    *)
(* thread before they prompt its agent; the agent's events, delivered at   *)
(* least once and in no order, mark it again, clear it and record its      *)
(* completions; a mark nobody renews is swept when its lease is over.      *)
(*                                                                         *)
(* One thread: every row, call and event is a thread's own. A run's end    *)
(* carries its time in whole seconds (Second ticks each), a mark its own   *)
(* to the tick.                                                            *)
(***************************************************************************)
EXTENDS Naturals, Sequences

CONSTANTS
    Senders,    \* sends that may be under way at a time
    Hands,      \* webhook handlers that may be under way at a time
    Lease,      \* ticks a mark lives without being renewed
    Second,     \* ticks of a second
    Fallback,   \* ticks until the alarm its handler sets first, should it be cut off
    InOrder,    \* whether events are delivered in the order they were sent
    MaxRuns,    \* bound: runs of the agent
    MaxUsage,   \* bound: model responses and tool calls reported while running
    MaxTime,    \* bound: ticks in which sends, responses and resumes may begin
    MaxFaults   \* bound: failed marks, prompts and reschedules, lost answers, sends and handlers,
                \* repeats of requests and deliveries

ASSUME StatusConstants ==
    /\ Lease \in Nat /\ Second \in Nat \ {0} /\ Fallback \in Nat /\ InOrder \in BOOLEAN
    /\ MaxRuns \in Nat /\ MaxUsage \in Nat /\ MaxTime \in Nat /\ MaxFaults \in Nat

VARIABLES
    now,
    row,        \* the thread's row of thread_streaming_status
    shown,      \* the status last sent to the workspace's viewers
    alarm,      \* when WorkspaceDO's alarm is set for, 0 for no alarm
    waking,     \* whether its handler waits for the tokens it refreshes
    unset,      \* history: whether the last handler ended without setting it again
    send,       \* the sends
    agent,      \* the agent's runs
    events,     \* the agent's events that may still be delivered
    hand,       \* the handlers under way after they acknowledged, or read
    thread,     \* the completion fields of OrgDO's thread row
    used, faults

board == <<row, shown>>
bell == <<alarm, waking, unset>>
vars == <<now, board, bell, send, agent, events, hand, thread, used, faults>>

NoMark == [start |-> 0, beat |-> 0]
Marked(r) == r.beat # 0
Free == [at |-> "free", end |-> 0, status |-> "none", stored |-> 0]
NotSent == [at |-> "none", start |-> 0, marked |-> FALSE]

Fault == faults < MaxFaults /\ faults' = faults + 1

Later(t, u) == IF t > u THEN t ELSE u

-----------------------------------------------------------------------------
(* WorkspaceDO: the running row *)

\* a slip of the code: nothing is swept
SweptNever == row
\* Every call first sweeps a row whose lease is over, and tells the viewers.
Swept == IF Marked(row) /\ row.beat + Lease < now THEN NoMark ELSE row
\* a slip of the code: the sweep tells nobody
SweptInSilence == shown
SweptShown == IF Swept # row THEN "idle" ELSE shown

\* The alarm is for the lease's end, and never in less than a second.
ScheduleNextAlarm(r) == /\ alarm' = IF Marked(r) THEN Later(now, r.beat + Lease) + Second ELSE 0
                        /\ unset' = FALSE

\* A row that exists keeps its start.
Touched(start) == [start |-> IF Marked(Swept) THEN Swept.start ELSE start, beat |-> now]
Mark(start) == row' = Touched(start) /\ shown' = "running" /\ ScheduleNextAlarm(row')

\* A heartbeat renews a row, and never makes one.
Refresh == row' = (IF Marked(Swept) THEN Touched(now) ELSE NoMark) /\ shown' = SweptShown

ClearIf(may) == IF Marked(Swept) /\ may THEN row' = NoMark /\ shown' = "idle"
                                        ELSE row' = Swept /\ shown' = SweptShown

\* A run's end clears the mark unless a turn that started later owns it.
ClearUntil(end) == ClearIf(Swept.start <= end)

\* The handler first sets the alarm far ahead, in case it does not come to its end.
AlarmFires ==
    /\ alarm # 0 /\ alarm <= now /\ ~waking
    /\ waking' = TRUE /\ alarm' = now + Fallback /\ unset' = FALSE
    /\ ClearIf(FALSE)
    /\ UNCHANGED <<now, send, agent, events, hand, thread, used, faults>>

\* a slip of the code: the handler leaves the alarm it set first
AlarmLeft ==
    /\ waking /\ waking' = FALSE /\ UNCHANGED <<alarm, unset>>
    /\ UNCHANGED <<now, board, send, agent, events, hand, thread, used, faults>>
\* At its end it sets the alarm again; a failure to is only logged.
AlarmEnds ==
    /\ waking /\ waking' = FALSE
    /\ \/ ScheduleNextAlarm(row) /\ UNCHANGED faults
       \/ Fault /\ unset' = TRUE /\ UNCHANGED alarm
    /\ UNCHANGED <<now, board, send, agent, events, hand, thread, used>>

\* Cut off, it leaves the alarm it set first, or the one a mark has set since.
AlarmCut ==
    /\ waking /\ Fault /\ waking' = FALSE /\ unset' = TRUE /\ UNCHANGED alarm
    /\ UNCHANGED <<now, board, send, agent, events, hand, thread, used>>

-----------------------------------------------------------------------------
(* Sends *)

Take(s) == /\ send[s].at = "none" /\ now < MaxTime /\ agent.runs < MaxRuns
           /\ send' = [send EXCEPT ![s].at = "taken", ![s].start = now]
           /\ UNCHANGED <<now, board, bell, agent, events, hand, thread, used, faults>>

\* The thread is marked before the prompt. A mark that failed, or whose answer was lost,
\* is only logged.
MarkThreadRunning(s) ==
    /\ send[s].at = "taken"
    /\ \/ Mark(send[s].start) /\ UNCHANGED faults
          /\ send' = [send EXCEPT ![s].at = "marked", ![s].marked = TRUE]
       \/ /\ Fault /\ send' = [send EXCEPT ![s].at = "marked"]
          /\ Mark(send[s].start) \/ UNCHANGED <<board, bell>>
    /\ UNCHANGED <<now, waking, agent, events, hand, thread, used>>

\* The date of a start or a wait is of no use to anyone, and left out.
Event(kind, at) == [kind |-> kind, at |-> at]

Runs(n) == agent' = [on |-> TRUE, waits |-> FALSE, runs |-> n] /\ events' = Append(events, Event("started", 0))

\* With none running the prompt starts a run, with one running it joins it. The answer
\* may be lost.
Prompt(s) ==
    /\ send[s].at = "marked"
    /\ IF agent.on THEN UNCHANGED <<agent, events>>
                   ELSE agent.runs < MaxRuns /\ Runs(agent.runs + 1)
    /\ \/ send' = [send EXCEPT ![s].at = "sent"] /\ UNCHANGED faults
       \/ Fault /\ send' = [send EXCEPT ![s].at = "failed"]
    /\ UNCHANGED <<now, board, bell, hand, thread, used>>

PromptFails(s) ==
    /\ send[s].at = "marked" /\ Fault /\ send' = [send EXCEPT ![s].at = "failed"]
    /\ UNCHANGED <<now, board, bell, agent, events, hand, thread, used>>

\* A repeat of a request that has finished starts no run. At the bound of runs every
\* request is one.
RequestRepeated(s) ==
    /\ send[s].at = "marked" /\ agent.runs > 0 /\ send' = [send EXCEPT ![s].at = "repeat"]
    /\ Fault \/ (~agent.on /\ agent.runs = MaxRuns /\ UNCHANGED faults)
    /\ UNCHANGED <<now, board, bell, agent, events, hand, thread, used>>

\* The mark is taken back where the row has the start this send gave. A repeat is
\* accepted after that like any other message.
UnmarkThreadRunning(s) ==
    /\ send[s].at \in {"failed", "repeat"}
    /\ send' = [send EXCEPT ![s] = IF @.at = "repeat" THEN [@ EXCEPT !.at = "sent"] ELSE NotSent]
    /\ IF send[s].marked THEN ClearIf(Swept.start = send[s].start) ELSE UNCHANGED board
    /\ UNCHANGED <<now, bell, agent, events, hand, thread, used, faults>>

RecordThreadUserMessage(s) ==
    /\ send[s].at = "sent" /\ send' = [send EXCEPT ![s] = NotSent]
    /\ thread' = [thread EXCEPT !.updated = now]
    /\ UNCHANGED <<now, board, bell, agent, events, hand, used, faults>>

\* A send ends with its isolate, wherever it is, and its mark stays.
SendLost(s) ==
    /\ send[s].at # "none" /\ Fault /\ send' = [send EXCEPT ![s] = NotSent]
    /\ UNCHANGED <<now, board, bell, agent, events, hand, thread, used>>

-----------------------------------------------------------------------------
(* The agent *)

\* It completes, fails or is stopped, or waits for a person; at the bound of runs nobody
\* answers it.
RunEnds == /\ agent.on
           /\ \E kind \in {"completed", "waits"} :
                /\ agent' = [agent EXCEPT !.on = FALSE, !.waits = (kind = "waits" /\ agent.runs < MaxRuns)]
                /\ events' = Append(events, Event(kind, IF kind = "waits" THEN 0 ELSE now - (now % Second)))
           /\ UNCHANGED <<now, board, bell, send, hand, thread, used, faults>>

Resumes == /\ ~agent.on /\ agent.waits /\ agent.runs < MaxRuns /\ now < MaxTime
           /\ Runs(agent.runs + 1)
           /\ UNCHANGED <<now, board, bell, send, hand, thread, used, faults>>

Responds == /\ agent.on /\ used < MaxUsage /\ now < MaxTime /\ used' = used + 1
            /\ events' = Append(events, Event("usage", now))
            /\ UNCHANGED <<now, board, bell, send, agent, hand, thread, faults>>

\* A tool call's start marks the thread.
CallsTool == /\ agent.on /\ used < MaxUsage /\ now < MaxTime /\ used' = used + 1
             /\ Mark(now)
             /\ UNCHANGED <<now, waking, send, agent, events, hand, thread, faults>>

-----------------------------------------------------------------------------
(* The events' webhook *)

Dropped(s, i) == SubSeq(s, 1, i - 1) \o SubSeq(s, i + 1, Len(s))

\* A delivery is acknowledged, or comes again.
Delivered(i) == \/ events' = Dropped(events, i) /\ UNCHANGED faults
                \/ Fault /\ UNCHANGED events

May(i, kind) == events[i].kind = kind /\ (InOrder => i = 1)

RunStarted(i) ==
    /\ May(i, "started") /\ Delivered(i) /\ Mark(now)
    /\ UNCHANGED <<now, waking, send, agent, hand, thread, used>>

RunWaits(i) ==
    /\ May(i, "waits") /\ Delivered(i) /\ ClearIf(TRUE)
    /\ UNCHANGED <<now, bell, send, agent, hand, thread, used>>

Takes(h, job) == hand[h].at = "free" /\ hand' = [hand EXCEPT ![h] = job]

\* What completes a run goes on after the delivery is acknowledged.
RunCompleted(i, h) ==
    /\ May(i, "completed") /\ Delivered(i)
    /\ \E status \in {"pending", "failed"} :
         Takes(h, [at |-> "clear", end |-> events[i].at, status |-> status, stored |-> 0])
    /\ UNCHANGED <<now, board, bell, send, agent, thread, used>>

\* A response from before the last completion, in whole seconds, only renews a row.
UsageRecorded(i, h) ==
    /\ May(i, "usage") /\ Delivered(i)
    /\ Takes(h, [Free EXCEPT !.at = IF thread.done # 0 /\ thread.done + Second >= events[i].at
                                    THEN "refresh" ELSE "mark"])
    /\ UNCHANGED <<now, board, bell, send, agent, thread, used>>

MarkUsed(h) ==
    /\ \/ hand[h].at = "mark" /\ Mark(now)
       \/ hand[h].at = "refresh" /\ Refresh /\ UNCHANGED bell
    /\ hand' = [hand EXCEPT ![h] = Free]
    /\ UNCHANGED <<now, waking, send, agent, events, thread, used, faults>>

-----------------------------------------------------------------------------
(* A completion: clear, persist, publish, summarise *)

ClearFirst(h) ==
    /\ hand[h].at = "clear" /\ hand' = [hand EXCEPT ![h].at = "persist"]
    /\ ClearUntil(hand[h].end)
    /\ UNCHANGED <<now, bell, send, agent, events, thread, used, faults>>

\* OrgDO: an older completion is refused, a ready summary is not unmade by a repeat, and
\* a completion is never dated before what the thread already shows.
Stale(end) == end < thread.done
Repeats(end, status) == end = thread.done /\ thread.status = "ready" /\ status # "ready"

\* a slip of the code: a repeat is stored like a first delivery
StoredAnyway(end, status) ==
    [thread EXCEPT !.done = Later(end, thread.updated), !.status = status]
Stored(end, status) ==
    IF Repeats(end, status) THEN thread
    ELSE IF thread.done # 0 /\ end = thread.done THEN [thread EXCEPT !.status = status]
    ELSE LET done == IF end < thread.updated THEN thread.updated + 1 ELSE end
         IN [updated |-> done, done |-> done, status |-> status]

Persist(h) ==
    LET c == hand[h]
    IN /\ c.at = "persist"
       /\ IF Stale(c.end) THEN hand' = [hand EXCEPT ![h] = Free] /\ UNCHANGED thread
          ELSE /\ thread' = Stored(c.end, c.status)
               /\ hand' = [hand EXCEPT ![h].at = "publish", ![h].stored = thread'.done]
       /\ UNCHANGED <<now, board, bell, send, agent, events, used, faults>>

PersistFails(h) ==
    /\ hand[h].at = "persist" /\ Fault
    /\ hand' = [hand EXCEPT ![h].at = "publish", ![h].status = "lost"]
    /\ UNCHANGED <<now, board, bell, send, agent, events, thread, used>>

\* The mark is cleared again, by the run's own end whatever OrgDO dated it. A summary
\* that is to come is stored under the date OrgDO gave.
Publish(h) ==
    /\ hand[h].at = "publish" /\ ClearUntil(hand[h].end)
    /\ hand' = [hand EXCEPT ![h] = IF @.status = "pending"
                                   THEN [Free EXCEPT !.at = "summarise", !.end = hand[h].stored] ELSE Free]
    /\ UNCHANGED <<now, bell, send, agent, events, thread, used, faults>>

\* a slip of the code: a completion whose summary failed is stored as lost
SummariseLost(h) ==
    /\ hand[h].at = "summarise" /\ hand' = [hand EXCEPT ![h] = Free]
    /\ \E status \in {"ready", "lost"} :
         thread' = IF Stale(hand[h].end) THEN thread ELSE Stored(hand[h].end, status)
    /\ UNCHANGED <<now, board, bell, send, agent, events, used, faults>>
Summarise(h) ==
    /\ hand[h].at = "summarise" /\ hand' = [hand EXCEPT ![h] = Free]
    /\ \E status \in {"ready", "failed"} :
         thread' = IF Stale(hand[h].end) THEN thread ELSE Stored(hand[h].end, status)
    /\ UNCHANGED <<now, board, bell, send, agent, events, used, faults>>

\* What goes on after the acknowledgement ends with its isolate.
HandLost(h) ==
    /\ hand[h].at # "free" /\ Fault /\ hand' = [hand EXCEPT ![h] = Free]
    /\ UNCHANGED <<now, board, bell, send, agent, events, thread, used>>

-----------------------------------------------------------------------------
Busy == \/ agent.on
        \/ \E s \in Senders : send[s].at # "none"
        \/ \E h \in Hands : hand[h].at # "free"
Pending == Busy \/ events # <<>>

\* Past MaxTime what is under way ends first; then only the alarm is waited for: by a
\* tick with events that are yet to come, without them by a fallback past the lease's end.
Tick ==
    /\ \/ now < MaxTime
       \/ /\ ~Busy /\ Marked(row) /\ ~waking /\ now < alarm
          /\ IF events # <<>> THEN now <= MaxTime ELSE now <= row.beat + Lease + Fallback
    /\ now' = now + 1
    /\ UNCHANGED <<board, bell, send, agent, events, hand, thread, used, faults>>

Init ==
    /\ now = Second /\ row = NoMark /\ shown = "idle" /\ alarm = 0 /\ waking = FALSE /\ unset = FALSE
    /\ send = [s \in Senders |-> NotSent]
    /\ agent = [on |-> FALSE, waits |-> FALSE, runs |-> 0] /\ events = <<>>
    /\ hand = [h \in Hands |-> Free]
    /\ thread = [updated |-> 0, done |-> 0, status |-> "none"]
    /\ used = 0 /\ faults = 0

SendStep(s) == Take(s) \/ MarkThreadRunning(s) \/ Prompt(s) \/ PromptFails(s) \/ RequestRepeated(s)
               \/ UnmarkThreadRunning(s) \/ RecordThreadUserMessage(s)
AgentStep == RunEnds \/ Resumes \/ Responds \/ CallsTool
Deliver(i) == RunStarted(i) \/ RunWaits(i)
              \/ \E h \in Hands : RunCompleted(i, h) \/ UsageRecorded(i, h)
HandStep(h) == MarkUsed(h) \/ ClearFirst(h) \/ Persist(h) \/ PersistFails(h)
               \/ Publish(h) \/ Summarise(h)

Next == \/ Tick \/ AlarmFires \/ AlarmEnds \/ AlarmCut \/ AgentStep
        \/ \E s \in Senders : SendStep(s) \/ SendLost(s)
        \/ \E i \in DOMAIN events : Deliver(i)
        \/ \E h \in Hands : HandStep(h) \/ HandLost(h)

Spec == Init /\ [][Next]_vars

\* Time passes, alarms are kept, runs end, events are delivered in the end, and what has
\* been taken up goes on. No send has to be made.
Fairness ==
    /\ WF_vars(Tick) /\ WF_vars(AlarmFires) /\ WF_vars(AlarmEnds) /\ WF_vars(RunEnds)
    /\ WF_vars(\E s \in Senders : send[s].at # "none" /\ SendStep(s))
    /\ WF_vars(\E i \in DOMAIN events : Deliver(i))
    /\ WF_vars(\E h \in Hands : HandStep(h))

FairSpec == Spec /\ Fairness

-----------------------------------------------------------------------------
\* Types.
TypeOK ==
    /\ now \in Nat /\ row \in [start : Nat, beat : Nat] /\ shown \in {"idle", "running"}
    /\ alarm \in Nat /\ waking \in BOOLEAN /\ unset \in BOOLEAN
    /\ used \in 0..MaxUsage /\ faults \in 0..MaxFaults
    /\ send \in [Senders -> [at : {"none", "taken", "marked", "sent", "failed", "repeat"},
                             start : Nat, marked : BOOLEAN]]
    /\ agent \in [on : BOOLEAN, waits : BOOLEAN, runs : 0..MaxRuns]
    /\ events \in Seq([kind : {"started", "completed", "waits", "usage"}, at : Nat])
    /\ hand \in [Hands -> [at : {"free", "clear", "persist", "publish", "summarise", "mark", "refresh"},
                           end : Nat, status : {"none", "pending", "failed", "lost"}, stored : Nat]]
    /\ thread \in [updated : Nat, done : Nat, status : {"none", "pending", "ready", "failed"}]

\* A marked thread always has an alarm, however its marks, its renewals and the alarm's
\* own handler fall: at the end of its lease, or within a second; and where that handler
\* is under way, or was cut off or could not set the alarm again, within the handler's
\* fallback (workspace.ts: "make sure the lease-sweep alarm is armed", "If anything fails
\* catastrophically, we'll retry in 1 hour").
MarkHasAlarm ==
    Marked(row) =>
        /\ alarm # 0
        /\ \/ alarm <= Later(now, row.beat + Lease) + Second
           \/ (waking \/ unset) /\ alarm <= now + Fallback

\* What the viewers were last told is what the row says: no mark comes or goes, by a call,
\* a late event or the sweep, without its message.
ShownIsRow == (shown = "running") <=> Marked(row)

\* A completion, repeated, late, or overtaken by a message, never moves a thread's last
\* completion back, and never unmakes the summary a completion has.
CompletionKept ==
    [][ /\ thread'.done >= thread.done
        /\ thread.status = "ready" /\ thread'.done = thread.done => thread'.status = "ready" ]_vars

\* Whatever is lost or comes late, in the end a thread with nothing under way shows idle.
ShownIdleInTheEnd == <>[](shown = "idle")

\* "so the run's own events can end the mark but a quick run never finds it after": once
\* every run has ended and its events have been handled, nothing shows as running.
EndedShownIdle == ~Pending => shown = "idle"

=============================================================================
