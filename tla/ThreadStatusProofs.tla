------------------------- MODULE ThreadStatusProofs -------------------------
(***************************************************************************)
(* Proofs about ThreadStatus: any number of sends, handlers, runs, late    *)
(* and repeated events, any lease and any clock.                           *)
(*                                                                         *)
(* All that touches the running row is a mark, a renewal, a clear, the     *)
(* alarm or time (BoardStep); all that touches the completion is a stored  *)
(* completion or a message (ThreadStep).                                   *)
(***************************************************************************)
EXTENDS ThreadStatus, SequenceTheorems, TLAPS

Sent == [at : {"none", "taken", "marked", "sent", "failed", "repeat"}, start : Nat, marked : BOOLEAN]
AgentRecords == [on : BOOLEAN, waits : BOOLEAN, runs : 0..MaxRuns]
EventRecords == [kind : {"started", "completed", "waits", "usage"}, at : Nat]
Jobs == [at : {"free", "clear", "persist", "publish", "summarise", "mark", "refresh"},
         end : Nat, status : {"none", "pending", "failed", "lost"}, stored : Nat]
Completions == [updated : Nat, done : Nat, status : {"none", "pending", "ready", "failed"}]

(* The row, its alarm and what the viewers were told.                      *)
BoardInv ==
    /\ now \in Nat \ {0} /\ row \in [start : Nat, beat : Nat] /\ shown \in {"idle", "running"}
    /\ row.beat <= now /\ alarm \in Nat /\ waking \in BOOLEAN /\ unset \in BOOLEAN
    /\ MarkHasAlarm /\ ShownIsRow

(* A handler stores a completion under a status of its own.                *)
HandInv == \A h \in Hands : hand[h].at \in {"clear", "persist"} => hand[h].status \in {"pending", "failed"}

IInv == TypeOK /\ BoardInv /\ HandInv

-----------------------------------------------------------------------------
(* The running row *)

LEMMA SweptRow == ASSUME BoardInv
                  PROVE  /\ Swept \in [start : Nat, beat : Nat]
                         /\ SweptShown \in {"idle", "running"}
                         /\ (SweptShown = "running") <=> Marked(Swept)
                         /\ Marked(Swept) => Swept = row
BY StatusConstants DEF BoardInv, Swept, SweptShown, ShownIsRow, Marked, NoMark

LEMMA MarkBoard == ASSUME BoardInv, NEW start \in Nat, Mark(start), UNCHANGED <<now, waking>>
                   PROVE  BoardInv'
<1>1. Swept.start \in Nat
  BY SweptRow
<1>2. Touched(start) \in [start : Nat, beat : Nat] /\ Touched(start).beat = now
  BY <1>1 DEF Touched, BoardInv
<1>3. Marked(Touched(start)) /\ row' = Touched(start) /\ shown' = "running"
  BY <1>2 DEF Mark, Marked, BoardInv
<1>4. alarm' = Later(now, now + Lease) + Second /\ unset' = FALSE
  BY <1>2, <1>3 DEF Mark, ScheduleNextAlarm
<1>5. row'.beat = now /\ now' = now /\ waking' = waking
  BY <1>2, <1>3
<1>6. alarm' \in Nat \ {0}
  BY <1>4, StatusConstants DEF Later, BoardInv
<1>7. MarkHasAlarm'
  BY <1>4, <1>5, <1>6 DEF MarkHasAlarm, Later
<1>8. ShownIsRow'
  BY <1>3, <1>5 DEF ShownIsRow, Marked, BoardInv
<1>9. now' \in Nat \ {0} /\ row' \in [start : Nat, beat : Nat] /\ row'.beat <= now' /\ alarm' \in Nat
  BY <1>2, <1>3, <1>5, <1>6 DEF BoardInv
<1>10. shown' \in {"idle", "running"} /\ waking' \in BOOLEAN /\ unset' \in BOOLEAN
  BY <1>3, <1>4, <1>5 DEF BoardInv
<1>. QED BY <1>7, <1>8, <1>9, <1>10 DEF BoardInv

LEMMA RefreshBoard == ASSUME BoardInv, Refresh, UNCHANGED <<now, bell>>
                      PROVE  BoardInv'
<1>1. CASE Marked(Swept)
  <2>1. row' = [start |-> row.start, beat |-> now] /\ shown' = "running"
    BY <1>1, SweptRow DEF Refresh, Touched
  <2>2. Marked(row) /\ row.beat \in Nat /\ row.start \in Nat /\ row.beat <= now
    BY <1>1, SweptRow DEF BoardInv
  <2>3. Later(now, row.beat + Lease) <= Later(now, now + Lease)
    BY <2>2, StatusConstants DEF BoardInv, Later
  <2>4. MarkHasAlarm'
    <3>1. row'.beat = now /\ UNCHANGED <<now, alarm, waking, unset>>
      BY <2>1 DEF bell
    <3>2. Later(now, row.beat + Lease) \in Nat /\ Later(now, now + Lease) \in Nat
      BY <2>2, StatusConstants DEF BoardInv, Later
    <3>. QED BY <2>2, <2>3, <3>1, <3>2, StatusConstants DEF BoardInv, MarkHasAlarm
  <2>. QED BY <2>1, <2>2, <2>4 DEF BoardInv, ShownIsRow, Marked, bell
<1>2. CASE ~Marked(Swept)
  BY <1>2, SweptRow DEF Refresh, BoardInv, MarkHasAlarm, ShownIsRow, Marked, NoMark, bell
<1>. QED BY <1>1, <1>2

LEMMA ClearRow == ASSUME BoardInv, NEW may \in BOOLEAN, ClearIf(may)
                  PROVE  /\ row' \in [start : Nat, beat : Nat] /\ shown' \in {"idle", "running"}
                         /\ ShownIsRow'
                         /\ Marked(row') => row' = row
                         /\ row'.beat <= now
BY SweptRow DEF ClearIf, NoMark, ShownIsRow, Marked, BoardInv, Swept

LEMMA ClearBoard == ASSUME BoardInv, NEW may \in BOOLEAN, ClearIf(may), UNCHANGED <<now, bell>>
                    PROVE  BoardInv'
BY ClearRow DEF BoardInv, MarkHasAlarm, Marked, NoMark, bell

LEMMA ClockBoard == ASSUME IInv, Tick \/ AlarmFires \/ AlarmEnds \/ AlarmCut
                    PROVE  BoardInv'
<1>. now \in Nat /\ row.beat \in Nat /\ alarm \in Nat
  BY DEF IInv, BoardInv
<1>1. CASE Tick
  <2>1. now' = now + 1 /\ UNCHANGED <<row, shown, alarm, waking, unset>>
    BY <1>1 DEF Tick, board, bell
  <2>2. Later(now, row.beat + Lease) <= Later(now', row'.beat + Lease)
    BY <2>1, StatusConstants DEF Later
  <2>3. Later(now, row.beat + Lease) \in Nat /\ Later(now', row'.beat + Lease) \in Nat
    BY <2>1, StatusConstants DEF Later
  <2>4. MarkHasAlarm'
    BY <2>1, <2>2, <2>3, StatusConstants DEF IInv, BoardInv, MarkHasAlarm, Marked
  <2>. QED BY <2>1, <2>4 DEF IInv, BoardInv, ShownIsRow, Marked
<1>2. CASE AlarmFires
  <2>1. ClearIf(FALSE) /\ now' = now /\ waking' = TRUE /\ alarm' = now + Fallback /\ unset' = FALSE
    BY <1>2 DEF AlarmFires
  <2>2. /\ row' \in [start : Nat, beat : Nat] /\ shown' \in {"idle", "running"}
        /\ ShownIsRow' /\ row'.beat <= now
    BY <2>1, ClearRow DEF IInv
  <2>3. alarm' \in Nat /\ alarm' # 0
    BY <2>1, StatusConstants DEF IInv, BoardInv
  <2>4. MarkHasAlarm'
    BY <2>1, <2>3 DEF MarkHasAlarm
  <2>. QED BY <2>1, <2>2, <2>3, <2>4 DEF IInv, BoardInv
<1>3. CASE AlarmEnds
  <2>1. waking' = FALSE /\ now' = now /\ row' = row /\ shown' = shown
    BY <1>3 DEF AlarmEnds, board
  <2>2. CASE ScheduleNextAlarm(row)
    <3>1. /\ alarm' \in Nat /\ unset' = FALSE
          /\ Marked(row) => alarm' # 0 /\ alarm' = Later(now, row.beat + Lease) + Second
      BY <2>2, StatusConstants DEF ScheduleNextAlarm, Later
    <3>2. Later(now, row.beat + Lease) \in Nat
      BY StatusConstants DEF Later
    <3>3. MarkHasAlarm'
      BY <2>1, <3>1, <3>2, StatusConstants DEF MarkHasAlarm, Marked
    <3>. QED BY <2>1, <3>1, <3>3 DEF IInv, BoardInv, ShownIsRow, Marked
  <2>3. CASE unset' = TRUE /\ UNCHANGED alarm
    BY <2>1, <2>3 DEF IInv, BoardInv, MarkHasAlarm, ShownIsRow, Marked
  <2>. QED BY <1>3, <2>2, <2>3 DEF AlarmEnds
<1>4. CASE AlarmCut
  <2>1. UNCHANGED <<now, row, shown, alarm>> /\ waking' = FALSE /\ unset' = TRUE
    BY <1>4 DEF AlarmCut, board
  <2>. QED BY <2>1 DEF IInv, BoardInv, MarkHasAlarm, ShownIsRow, Marked
<1>. QED BY <1>1, <1>2, <1>3, <1>4

(* Every step of a send, the agent, a delivery or a handler marks, renews, *)
(* clears or leaves the row.                                               *)
BoardStep == \/ UNCHANGED <<now, board, bell>>
             \/ (\E start \in Nat : Mark(start)) /\ UNCHANGED <<now, waking>>
             \/ Refresh /\ UNCHANGED <<now, bell>>
             \/ (\E may \in BOOLEAN : ClearIf(may)) /\ UNCHANGED <<now, bell>>

LEMMA BoardSteps == ASSUME BoardInv, BoardStep PROVE BoardInv'
<1>1. CASE UNCHANGED <<now, board, bell>>
  BY <1>1 DEF BoardInv, MarkHasAlarm, ShownIsRow, Marked, board, bell
<1>2. CASE (\E start \in Nat : Mark(start)) /\ UNCHANGED <<now, waking>>
  BY <1>2, MarkBoard
<1>3. CASE Refresh /\ UNCHANGED <<now, bell>>
  BY <1>3, RefreshBoard
<1>4. CASE (\E may \in BOOLEAN : ClearIf(may)) /\ UNCHANGED <<now, bell>>
  BY <1>4, ClearBoard
<1>. QED BY <1>1, <1>2, <1>3, <1>4 DEF BoardStep

LEMMA EndClears == ASSUME NEW end, ClearUntil(end) PROVE \E may \in BOOLEAN : ClearIf(may)
<1>1. ClearIf(Swept.start <= end) = ClearIf(TRUE) \/ ClearIf(Swept.start <= end) = ClearIf(FALSE)
  BY DEF ClearIf
<1>. QED BY <1>1 DEF ClearUntil

LEMMA SendBoard == ASSUME IInv, NEW s \in Senders, SendStep(s) \/ SendLost(s) PROVE BoardStep
<1>1. send[s].start \in Nat
  BY DEF IInv, TypeOK
<1>2. CASE MarkThreadRunning(s)
  BY <1>1, <1>2 DEF MarkThreadRunning, BoardStep, bell, board
<1>3. CASE UnmarkThreadRunning(s)
  <2>1. CASE UNCHANGED board
    BY <1>3, <2>1 DEF UnmarkThreadRunning, BoardStep
  <2>2. CASE ClearIf(Swept.start = send[s].start)
    <3>1. (Swept.start = send[s].start) \in BOOLEAN
      OBVIOUS
    <3>. QED BY <1>3, <2>2, <3>1 DEF UnmarkThreadRunning, BoardStep
  <2>. QED BY <1>3, <2>1, <2>2 DEF UnmarkThreadRunning
<1>. QED BY <1>2, <1>3 DEF SendStep, SendLost, Take, Prompt, PromptFails, RequestRepeated,
                            RecordThreadUserMessage, BoardStep

LEMMA AgentBoard == ASSUME IInv, AgentStep PROVE BoardStep
<1>1. now \in Nat
  BY DEF IInv, TypeOK
<1>. QED BY <1>1 DEF AgentStep, RunEnds, Resumes, Responds, CallsTool, BoardStep

LEMMA DeliveryBoard == ASSUME IInv, NEW i \in DOMAIN events, Deliver(i) PROVE BoardStep
<1>1. now \in Nat
  BY DEF IInv, TypeOK
<1>. QED BY <1>1 DEF Deliver, RunStarted, RunWaits, RunCompleted, UsageRecorded, BoardStep

LEMMA HandBoard == ASSUME IInv, NEW h \in Hands, HandStep(h) \/ HandLost(h) PROVE BoardStep
<1>1. now \in Nat
  BY DEF IInv, TypeOK
<1>2. CASE MarkUsed(h)
  BY <1>1, <1>2 DEF MarkUsed, BoardStep, bell
<1>3. CASE ClearFirst(h)
  BY <1>3, EndClears DEF ClearFirst, BoardStep
<1>4. CASE Publish(h)
  BY <1>4, EndClears DEF Publish, BoardStep
<1>. QED BY <1>2, <1>3, <1>4 DEF HandStep, HandLost, Persist, PersistFails, Summarise, BoardStep

-----------------------------------------------------------------------------
(* The sends, the agent, its events and the handlers *)

LEMMA Appended == ASSUME TypeOK, NEW kind \in {"started", "completed", "waits", "usage"}, NEW at \in Nat
                  PROVE  Append(events, Event(kind, at)) \in Seq(EventRecords)
BY DEF TypeOK, Event, EventRecords

LEMMA DroppedOne == ASSUME TypeOK, NEW i \in DOMAIN events, Delivered(i)
                    PROVE  events' \in Seq(EventRecords) /\ faults' \in 0..MaxFaults
<1>1. events \in Seq(EventRecords) /\ i \in 1..Len(events) /\ Len(events) \in Nat
  BY DEF TypeOK, EventRecords
<1>2. SubSeq(events, 1, i - 1) \in Seq(EventRecords)
  BY <1>1, SubSeqProperties
<1>3. SubSeq(events, i + 1, Len(events)) \in Seq(EventRecords)
  BY <1>1, SubSeqProperties
<1>4. Dropped(events, i) \in Seq(EventRecords)
  BY <1>2, <1>3, ConcatProperties DEF Dropped
<1>5. CASE events' = Dropped(events, i) /\ UNCHANGED faults
  BY <1>4, <1>5 DEF TypeOK
<1>6. CASE Fault /\ UNCHANGED events
  BY <1>1, <1>6, StatusConstants DEF TypeOK, Fault
<1>. QED BY <1>5, <1>6 DEF Delivered

(* The completion fields: a completion is stored, or a message recorded.   *)
ThreadStep == \/ UNCHANGED thread
              \/ thread' = [thread EXCEPT !.updated = now]
              \/ \E end \in Nat, status \in {"pending", "ready", "failed"} :
                    ~Stale(end) /\ thread' = Stored(end, status)

LEMMA ThreadSteps == ASSUME TypeOK, ThreadStep
                     PROVE  /\ thread' \in Completions
                            /\ thread'.done >= thread.done
                            /\ thread.status = "ready" /\ thread'.done = thread.done => thread'.status = "ready"
<1>1. thread \in Completions /\ now \in Nat
  BY DEF TypeOK, Completions
<1>2. CASE UNCHANGED thread
  BY <1>1, <1>2 DEF Completions
<1>3. CASE thread' = [thread EXCEPT !.updated = now]
  BY <1>1, <1>3 DEF Completions
<1>4. ASSUME NEW end \in Nat, NEW status \in {"pending", "ready", "failed"}, ~Stale(end), thread' = Stored(end, status)
      PROVE  /\ thread' \in Completions
             /\ thread'.done >= thread.done
             /\ thread.status = "ready" /\ thread'.done = thread.done => thread'.status = "ready"
  <2>1. end >= thread.done
    BY <1>1, <1>4 DEF Stale, Completions
  <2>2. CASE Repeats(end, status)
    BY <1>1, <1>4, <2>2 DEF Stored, Completions
  <2>3. CASE ~Repeats(end, status) /\ thread.done # 0 /\ end = thread.done
    BY <1>1, <1>4, <2>3 DEF Stored, Repeats, Completions
  <2>4. CASE ~Repeats(end, status) /\ ~(thread.done # 0 /\ end = thread.done)
    BY <1>1, <1>4, <2>1, <2>4 DEF Stored, Repeats, Completions
  <2>. QED BY <2>2, <2>3, <2>4
<1>. QED BY <1>2, <1>3, <1>4 DEF ThreadStep

LEMMA SendThread == ASSUME NEW s \in Senders, SendStep(s) \/ SendLost(s) PROVE ThreadStep
BY DEF SendStep, SendLost, Take, MarkThreadRunning, Prompt, PromptFails, RequestRepeated, UnmarkThreadRunning,
       RecordThreadUserMessage, ThreadStep

LEMMA HandThread == ASSUME IInv, NEW h \in Hands, HandStep(h) \/ HandLost(h) PROVE ThreadStep
<1>1. hand[h].end \in Nat
  BY DEF IInv, TypeOK
<1>2. CASE Persist(h)
  <2>1. hand[h].at = "persist" /\ hand[h].status \in {"pending", "failed"}
    BY <1>2 DEF Persist, IInv, HandInv
  <2>. QED BY <1>1, <1>2, <2>1 DEF Persist, ThreadStep
<1>3. CASE Summarise(h)
  <2>1. PICK status \in {"ready", "failed"} :
          thread' = IF Stale(hand[h].end) THEN thread ELSE Stored(hand[h].end, status)
    BY <1>3 DEF Summarise
  <2>. QED BY <1>1, <2>1 DEF ThreadStep
<1>. QED BY <1>2, <1>3 DEF HandStep, HandLost, MarkUsed, ClearFirst, PersistFails, Publish, ThreadStep

LEMMA OtherThread == ASSUME Tick \/ AlarmFires \/ AlarmEnds \/ AlarmCut \/ AgentStep
                              \/ (\E i \in DOMAIN events : Deliver(i)) \/ UNCHANGED vars
                     PROVE  ThreadStep
BY DEF Tick, AlarmFires, AlarmEnds, AlarmCut, AgentStep, RunEnds, Resumes, Responds, CallsTool,
       Deliver, RunStarted, RunWaits, RunCompleted, UsageRecorded, ThreadStep, vars

-----------------------------------------------------------------------------
(* Types of the sends, the agent, its events and the handlers *)

RestOK ==
    /\ send \in [Senders -> Sent] /\ agent \in AgentRecords /\ events \in Seq(EventRecords)
    /\ hand \in [Hands -> Jobs] /\ HandInv
    /\ used \in 0..MaxUsage /\ faults \in 0..MaxFaults

LEMMA RestHolds == IInv => RestOK
BY DEF IInv, TypeOK, RestOK, Sent, AgentRecords, EventRecords, Jobs

LEMMA Faults == ASSUME RestOK, Fault PROVE faults' \in 0..MaxFaults
BY StatusConstants DEF RestOK, Fault

LEMMA RunStarts == ASSUME IInv, agent.runs < MaxRuns, Runs(agent.runs + 1)
                   PROVE  agent' \in AgentRecords /\ events' \in Seq(EventRecords)
<1>1. events' \in Seq(EventRecords)
  BY Appended DEF IInv, Runs, TypeOK
<1>. QED BY <1>1, RestHolds, StatusConstants DEF RestOK, Runs, AgentRecords

LEMMA SendRest == ASSUME IInv, NEW s \in Senders, SendStep(s) \/ SendLost(s) PROVE RestOK'
<1>1. RestOK /\ now \in Nat
  BY RestHolds DEF IInv, TypeOK
<1>2. CASE Take(s)
  BY <1>1, <1>2 DEF Take, RestOK, Sent, HandInv
<1>3. CASE MarkThreadRunning(s)
  BY <1>1, <1>3, Faults DEF MarkThreadRunning, RestOK, Sent, HandInv
<1>4. CASE Prompt(s)
  <2>1. agent' \in AgentRecords /\ events' \in Seq(EventRecords)
    BY <1>1, <1>4, RunStarts DEF Prompt, RestOK
  <2>2. faults' \in 0..MaxFaults
    BY <1>1, <1>4, Faults DEF Prompt, RestOK
  <2>3. send' \in [Senders -> Sent]
    <3>1. PICK at \in {"sent", "failed"} : send' = [send EXCEPT ![s].at = at]
      BY <1>4 DEF Prompt
    <3>. QED BY <1>1, <3>1 DEF RestOK, Sent
  <2>. QED BY <1>1, <1>4, <2>1, <2>2, <2>3 DEF Prompt, RestOK, HandInv
<1>5. CASE PromptFails(s) \/ RequestRepeated(s)
  BY <1>1, <1>5, Faults DEF PromptFails, RequestRepeated, RestOK, Sent, HandInv
<1>6. CASE UnmarkThreadRunning(s)
  BY <1>1, <1>6 DEF UnmarkThreadRunning, RestOK, Sent, HandInv, NotSent
<1>8. CASE SendLost(s)
  BY <1>1, <1>8, Faults DEF SendLost, RestOK, Sent, HandInv, NotSent
<1>7. CASE RecordThreadUserMessage(s)
  BY <1>1, <1>7 DEF RecordThreadUserMessage, RestOK, Sent, HandInv, NotSent
<1>. QED BY <1>2, <1>3, <1>4, <1>5, <1>6, <1>7, <1>8 DEF SendStep

LEMMA AgentRest == ASSUME IInv, AgentStep PROVE RestOK'
<1>1. RestOK /\ now \in Nat
  BY RestHolds DEF IInv, TypeOK
<1>2. CASE RunEnds
  <2>1. PICK kind \in {"completed", "waits"} :
          /\ agent' = [agent EXCEPT !.on = FALSE, !.waits = (kind = "waits" /\ agent.runs < MaxRuns)]
          /\ events' = Append(events, Event(kind, IF kind = "waits" THEN 0 ELSE now - (now % Second)))
    BY <1>2 DEF RunEnds
  <2>2. now - (now % Second) \in Nat
    <3>1. now % Second \in Nat /\ now % Second <= now
      BY <1>1, StatusConstants, SMT
    <3>. QED BY <1>1, <3>1
  <2>3. events' \in Seq(EventRecords)
    BY <2>1, <2>2, Appended DEF IInv
  <2>4. agent' \in AgentRecords
    BY <1>1, <2>1 DEF RestOK, AgentRecords
  <2>. QED BY <1>1, <1>2, <2>3, <2>4 DEF RunEnds, RestOK, HandInv
<1>3. CASE Resumes
  <2>1. agent' \in AgentRecords /\ events' \in Seq(EventRecords)
    BY <1>3, RunStarts DEF Resumes
  <2>. QED BY <1>1, <1>3, <2>1 DEF Resumes, RestOK, HandInv
<1>4. CASE Responds
  <2>1. events' \in Seq(EventRecords)
    BY <1>1, <1>4, Appended DEF IInv, Responds
  <2>. QED BY <1>1, <1>4, <2>1, StatusConstants DEF Responds, RestOK, HandInv
<1>5. CASE CallsTool
  BY <1>1, <1>5, StatusConstants DEF CallsTool, RestOK, HandInv
<1>. QED BY <1>2, <1>3, <1>4, <1>5 DEF AgentStep

LEMMA DeliveryRest == ASSUME IInv, NEW i \in DOMAIN events, Deliver(i) PROVE RestOK'
<1>1. RestOK /\ now \in Nat /\ events[i].at \in Nat
  <2>1. events[i] \in EventRecords
    BY RestHolds, ElementOfSeq DEF RestOK
  <2>. QED BY <2>1, RestHolds DEF IInv, TypeOK, EventRecords
<1>2. events' \in Seq(EventRecords) /\ faults' \in 0..MaxFaults
  BY DroppedOne DEF IInv, Deliver, RunStarted, RunWaits, RunCompleted, UsageRecorded
<1>3. CASE RunStarted(i) \/ RunWaits(i)
  BY <1>1, <1>2, <1>3 DEF RunStarted, RunWaits, RestOK, HandInv
<1>4. ASSUME NEW h \in Hands, RunCompleted(i, h) \/ UsageRecorded(i, h)
      PROVE  RestOK'
  <2>1. PICK job \in Jobs : /\ hand' = [hand EXCEPT ![h] = job]
                            /\ job.at \in {"clear", "persist"} => job.status \in {"pending", "failed"}
    <3>1. CASE RunCompleted(i, h)
      BY <1>1, <3>1 DEF RunCompleted, Takes, Jobs
    <3>2. CASE UsageRecorded(i, h)
      <4>. DEFINE job(at) == [Free EXCEPT !.at = at]
      <4>1. hand' = [hand EXCEPT ![h] = job("refresh")] \/ hand' = [hand EXCEPT ![h] = job("mark")]
        BY <3>2 DEF UsageRecorded, Takes
      <4>2. job("refresh") \in Jobs /\ job("mark") \in Jobs
        BY DEF Jobs, Free
      <4>3. job("refresh").at = "refresh" /\ job("mark").at = "mark"
        BY DEF Free
      <4>. QED BY <4>1, <4>2, <4>3
    <3>. QED BY <1>4, <3>1, <3>2
  <2>2. hand' \in [Hands -> Jobs] /\ HandInv'
    BY <1>1, <2>1 DEF RestOK, HandInv
  <2>. QED BY <1>1, <1>2, <1>4, <2>2 DEF RunCompleted, UsageRecorded, RestOK
<1>. QED BY <1>3, <1>4 DEF Deliver

LEMMA HandRest == ASSUME IInv, NEW h \in Hands, HandStep(h) \/ HandLost(h) PROVE RestOK'
<1>1. RestOK /\ thread.done \in Nat /\ thread'.done \in Nat
  BY RestHolds, HandThread, ThreadSteps DEF IInv, TypeOK, Completions
<1>2. hand[h] \in Jobs
  BY <1>1 DEF RestOK
<1>3. PICK job \in Jobs : /\ hand' = [hand EXCEPT ![h] = job]
                          /\ job.at \in {"clear", "persist"} => job.status \in {"pending", "failed"}
  <2>1. Free \in Jobs /\ Free.at \notin {"clear", "persist"}
    BY DEF Free, Jobs
  <2>2. CASE ClearFirst(h)
    <3>. DEFINE job == [hand[h] EXCEPT !.at = "persist"]
    <3>1. hand' = [hand EXCEPT ![h] = job]
      BY <1>1, <2>2 DEF ClearFirst, RestOK
    <3>2. job \in Jobs /\ job.status \in {"pending", "failed"}
      BY <1>1, <1>2, <2>2 DEF ClearFirst, RestOK, HandInv, Jobs
    <3>. QED BY <3>1, <3>2
  <2>3. CASE Persist(h)
    <3>. DEFINE job == [hand[h] EXCEPT !.at = "publish", !.stored = thread'.done]
    <3>1. hand' = [hand EXCEPT ![h] = Free] \/ hand' = [hand EXCEPT ![h] = job]
      BY <1>1, <2>3 DEF Persist, RestOK
    <3>2. job \in Jobs /\ job.at = "publish"
      BY <1>1, <1>2 DEF Jobs
    <3>. QED BY <2>1, <3>1, <3>2
  <2>4. CASE PersistFails(h)
    <3>. DEFINE job == [hand[h] EXCEPT !.at = "publish", !.status = "lost"]
    <3>1. hand' = [hand EXCEPT ![h] = job]
      BY <1>1, <2>4 DEF PersistFails, RestOK
    <3>2. job \in Jobs /\ job.at = "publish"
      BY <1>2 DEF Jobs
    <3>. QED BY <3>1, <3>2
  <2>5. CASE Publish(h)
    <3>. DEFINE job == [Free EXCEPT !.at = "summarise", !.end = hand[h].stored]
    <3>1. hand' = [hand EXCEPT ![h] = Free] \/ hand' = [hand EXCEPT ![h] = job]
      BY <1>1, <2>5 DEF Publish, RestOK
    <3>2. job \in Jobs /\ job.at = "summarise"
      BY <1>2 DEF Jobs, Free
    <3>. QED BY <2>1, <3>1, <3>2
  <2>6. CASE MarkUsed(h) \/ Summarise(h) \/ HandLost(h)
    BY <2>1, <2>6 DEF MarkUsed, Summarise, HandLost
  <2>. QED BY <2>2, <2>3, <2>4, <2>5, <2>6 DEF HandStep
<1>4. hand' \in [Hands -> Jobs] /\ HandInv'
  BY <1>1, <1>3 DEF RestOK, HandInv
<1>5. faults' \in 0..MaxFaults
  BY <1>1, Faults DEF HandStep, HandLost, MarkUsed, ClearFirst, Persist, PersistFails, Publish, Summarise, RestOK
<1>. QED BY <1>1, <1>4, <1>5 DEF HandStep, HandLost, MarkUsed, ClearFirst, Persist, PersistFails, Publish,
                                 Summarise, RestOK

LEMMA ClockRest == ASSUME IInv, Tick \/ AlarmFires \/ AlarmEnds \/ AlarmCut \/ UNCHANGED vars PROVE RestOK'
<1>1. RestOK
  BY RestHolds
<1>2. CASE AlarmCut \/ AlarmEnds
  BY <1>1, <1>2, Faults DEF AlarmCut, AlarmEnds, RestOK, HandInv
<1>. QED BY <1>1, <1>2 DEF Tick, AlarmFires, vars, RestOK, HandInv

-----------------------------------------------------------------------------
(* The invariant *)

LEMMA Assembled == BoardInv /\ RestOK /\ thread \in Completions => IInv
BY DEF IInv, TypeOK, BoardInv, RestOK, Sent, AgentRecords, EventRecords, Jobs, Completions

LEMMA AssembledNext == BoardInv' /\ RestOK' /\ thread' \in Completions => IInv'
BY DEF IInv, TypeOK, BoardInv, RestOK, Sent, AgentRecords, EventRecords, Jobs, Completions

LEMMA Starts == Init => IInv
<1>. SUFFICES ASSUME Init PROVE IInv
  OBVIOUS
<1>1. BoardInv
  <2>1. row = [start |-> 0, beat |-> 0] /\ ~Marked(row) /\ shown = "idle"
    BY DEF Init, Marked, NoMark
  <2>2. now \in Nat \ {0} /\ alarm = 0 /\ waking = FALSE /\ unset = FALSE
    BY StatusConstants DEF Init
  <2>3. MarkHasAlarm /\ ShownIsRow
    BY <2>1 DEF MarkHasAlarm, ShownIsRow
  <2>4. row \in [start : Nat, beat : Nat] /\ row.beat = 0
    BY <2>1
  <2>5. row.beat <= now
    BY <2>2, <2>4
  <2>. QED BY <2>1, <2>2, <2>3, <2>4, <2>5 DEF BoardInv
<1>2. RestOK
  BY StatusConstants DEF Init, RestOK, HandInv, Sent, AgentRecords, EventRecords, Jobs, Free, NotSent
<1>3. thread \in Completions
  BY DEF Init, Completions
<1>. QED BY <1>1, <1>2, <1>3, Assembled

LEMMA Keeps == IInv /\ [Next]_vars => IInv' /\ ThreadStep
<1>. SUFFICES ASSUME IInv, [Next]_vars PROVE BoardInv' /\ RestOK' /\ ThreadStep
  BY AssembledNext, ThreadSteps DEF IInv
<1>1. CASE Tick \/ AlarmFires \/ AlarmEnds \/ AlarmCut
  BY <1>1, ClockBoard, ClockRest, OtherThread
<1>2. CASE AgentStep
  BY <1>2, AgentBoard, BoardSteps, AgentRest, OtherThread DEF IInv
<1>3. CASE \E s \in Senders : SendStep(s) \/ SendLost(s)
  BY <1>3, SendBoard, BoardSteps, SendRest, SendThread DEF IInv
<1>4. CASE \E i \in DOMAIN events : Deliver(i)
  BY <1>4, DeliveryBoard, BoardSteps, DeliveryRest, OtherThread DEF IInv
<1>5. CASE \E h \in Hands : HandStep(h) \/ HandLost(h)
  BY <1>5, HandBoard, BoardSteps, HandRest, HandThread DEF IInv
<1>6. CASE UNCHANGED vars
  BY <1>6, BoardSteps, ClockRest, OtherThread DEF vars, BoardStep, IInv
<1>. QED BY <1>1, <1>2, <1>3, <1>4, <1>5, <1>6 DEF Next

(* The types hold in every state the sends, the agent, its events and      *)
(* their handlers reach.                                                   *)
THEOREM TypeCorrect == Spec => []TypeOK
<1>1. IInv => TypeOK
  BY DEF IInv
<1>. QED BY <1>1, Starts, Keeps, PTL DEF Spec

(* A thread shown as running is never left without an alarm: it is set for *)
(* the lease's end or a second from now at the latest, and for the alarm   *)
(* handler's fallback at the latest while that handler is under way or     *)
(* after it failed to set the alarm again.                                 *)
THEOREM MarksAreSwept == Spec => []MarkHasAlarm
<1>1. IInv => MarkHasAlarm
  BY DEF IInv, BoardInv
<1>. QED BY <1>1, Starts, Keeps, PTL DEF Spec

(* WorkspaceDO's viewers were last told what the running row says.         *)
THEOREM ViewersSeeTheRow == Spec => []ShownIsRow
<1>1. IInv => ShownIsRow
  BY DEF IInv, BoardInv
<1>. QED BY <1>1, Starts, Keeps, PTL DEF Spec

(* recordThreadAssistantCompletion never moves a completion back and never *)
(* unmakes its summary, in whatever order completions and messages come.   *)
THEOREM CompletionsStand == Spec => CompletionKept
<1>1. IInv /\ ThreadStep =>
        /\ thread'.done >= thread.done
        /\ thread.status = "ready" /\ thread'.done = thread.done => thread'.status = "ready"
  BY ThreadSteps DEF IInv
<1>. QED BY <1>1, Starts, Keeps, PTL DEF Spec, CompletionKept

=============================================================================
