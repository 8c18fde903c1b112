# camelAI: a TLA+ model of its durable core

This directory holds a formal model of the parts of camelAI whose correctness
depends on *order*: Durable Objects that wait on each other, on D1, on queues and
on the hosted agent runtime, and that may be restarted at any of those waits.
Line numbers are of the files under `src/`; `main` below is
`src/workers/main/src`, `bridge` is `src/workers/discord-bridge/src`.

1. [The system](#1-the-system)
2. [The modules](#2-the-modules)
3. [What is checked](#3-what-is-checked)
4. [What is proved](#4-what-is-proved)
5. [Where code and its promises part](#5-where-code-and-its-promises-part)
6. [Not modelled](#6-not-modelled), 7. [Plan](#7-plan), 8. [Running it](#8-running-it)

## 1. The system

camelAI is a set of Cloudflare Workers. A thread (a chat with an agent) belongs
to a workspace of an organisation. Each long-lived thing is a Durable Object: one
instance, one SQLite store, code that is atomic between two awaits and may
interleave with other requests at every await. There is no lock across them;
agreement comes from leases, generations, versions, idempotency keys and "first
one wins" writes. That is what the model is about.

| Component | Code | State it keeps | Operations | Talks to |
|---|---|---|---|---|
| Thread move | `main/chat-thread/runtime-migration.ts`, `chat-thread-do.ts` | the migration record (none, leased, committing, moved, failed), the alarm | migrate, commit, fail, clean up, re-drive, alarm | OrgDO (claims the row), agent runtime (POST, DELETE), R2 (archive) |
| Thread rows | `main/identity/org-do.ts` 8622-8801 | `thread_runtime` row per thread | pin, claim, set agent, read, delete | everybody that runs a thread |
| Prewarm, first send | `main/agent-runtime/thread-runtime.ts` | none | make an agent, record it | OrgDO, runtime |
| Reconciler of moves | `main/agent-runtime/thread-migration.ts` | none | list agents, delete those no row names | OrgDO, runtime |
| D1 mirror outbox | `main/identity/d1-mirror-outbox.ts` | outbox rows with generations, a clock, `armedAt` | mark, resync, arm, drain | the owner's alarm, D1 |
| Identity index | `main/app-index-db.ts` | D1 tables, `mirror_rows` versions, `deleted_users` | apply an event, purge | read by the admin pages |
| Discord outbox | `bridge/discord-control-do.ts` | `ingress_outbox` rows with ordinals and leases, `completed_ordinal` | store, publish, claim, finish, retry, dead-letter, sweep | Cloudflare Queues |
| Discord consumers | `main/discord-events-queue.ts` | none | claim, hand over, finish or retry | the outbox, the channel's agent |
| Discord gateway | `bridge/discord-gateway-do.ts` | session, sequence | connect, resume, dispatch | Discord, the outbox |
| Running marks | `main/workspace.ts` 440-640, `main/routes/agent-runtime-events.ts`, `agent-runtime/thread-runtime.ts`, OrgDO's completion fields | the thread's running row and its lease, one alarm, what viewers were told, the last completion | mark, renew, clear, sweep; deliver an event; complete | runtime webhooks, sidebar |
| Move sweeps | `main/agent-runtime/cloud-sweep.ts`, `selfhost-sweep.ts` | the sweep's job, a record per thread, a D1 step lease | start, step, pause | every thread's DO |
| Automations | `main/workspace-cron.ts` | schedules, the log of runs, one alarm | edit, run now, dispatch, end | runtime, workflows |
| Usage controls, guards | `identity/org/usage-controls.ts`, `usage-guard-state.ts`, `app-usage-guard` | limits, charges, D1 leases | charge, quarantine, restore | the LLM gateway |
| Tools, connections, deploys, containers, UI | the rest | mostly none | request/response | third parties |

What makes the modelled groups hard, and what makes them correct:

* **Thread move.** A move claims the thread under a lease that runs out, makes an
  agent through a call whose answer may be lost, claims the row in another
  Durable Object, and must clean up what a cut-off attempt made. Three other
  paths (prewarm, first send, reconciler) touch the same row and agents.
  *Correct when* the row's agent exists and nobody is about to delete it; only one
  agent is ever claimed; a final move is never undone; nothing made is lost track
  of; a thread is not held for ever.
* **D1 mirror.** A write marks a row of the outbox in its own transaction; an
  alarm shared with other work drains it in batches over awaits. Calls are late,
  lost, or carried out after the drain gave up. *Correct when* no mark is dropped
  unsent; D1 never goes back to an older state; a purged owner stays away; while
  a row waits some alarm will come; D1 catches up.
* **Discord ingress.** Messages of a conversation carry ordinals; each goes through
  an unordered queue with retries and dead letters. *Correct when* the agent gets
  them in order, one consumer at a time works under a lease that holds,
  `completed_ordinal` and the rows agree, the next row always has something that
  brings it on, and every message is settled.
* **Running marks.** A send marks its thread before it prompts the agent; the agent's
  events come at least once, in no order, and part of what they cause goes on after
  they were acknowledged, where an eviction may lose it. *Correct when* a mark nobody
  renews is swept, viewers see what the row says, and a completion is not undone by
  an older, repeated or late one.
* **Automations.** One alarm serves every schedule of a workspace; a dispatch holds
  a row it read while members edit, run and delete the same job. *Correct when* whatever
  is due has an alarm and moves on, an occurrence starts one workflow, and the summary
  agrees with the log of runs.
* **Move sweep.** A cron, any instance of it, takes steps of one job under a lease that
  a step may outlive; pages move while threads are used. *Correct when* no thread is passed
  over before the job says complete, and the job ends.

The full list of hazards, each at its line and with the properties that would
catch it, is in `PROJECT.json`.

## 2. The modules

```
ThreadHome  <--implements--  ThreadMigration  <--extends--  ThreadMigrationProofs
                                    ^                 ^--extends-- ThreadMigrationStepProofs
                                    ^--extends-- MCThreadMigration   (symmetry)
IdentityMirror  <--implements--  MirrorOutbox  <--extends--  MirrorOutboxProofs
                                    ^--extends-- MCMirrorOutbox      (a two-part root)
OrderedInbox    <--implements--  DiscordIngress  <--extends--  DiscordIngressProofs
ThreadStatus    <--extends--  ThreadStatusProofs
WorkspaceCron   <--extends--  WorkspaceCronProofs  <--extends--  WorkspaceCronRunProofs
CloudSweep      <--extends--  CloudSweepProofs
                (moves a thread in one step: what ThreadMigration shows of a move)
```

The same conventions run through all the models. The code between two awaits is
one action. A call in flight is part of the state, and so is a call its caller
stopped waiting for: the other side may still carry it out. A restart drops what
lives in memory and keeps what is stored. Time is kept as the distinctions it
decides (a lease has run out or not, a row is due or not). Bounds appear in
guards only, and have a constant each.

### ThreadMigration

| In the model | In the code |
|---|---|
| `rec` | `RuntimeMigrationRecord`, its phases, `orphanAgentId` (`orphan`), `orphanKey` (`okey`), `orphanKeyAt` (`settled`), `retryAt` (`retry`) (72-111) |
| `att[l]` | the `migrate()` call that holds lease `l`: clearing, exporting, creating, archiving (289-516) |
| `commits` | `commit()` calls: claiming, reading back, answered (519-575) |
| `dels` | `deleteLeftovers()` calls: read the row, check, delete (655-700) |
| `row`, `thread` | OrgDO's `thread_runtime` row and thread (8622-8801) |
| `agents`, `creates`, `deletes` | what the runtime has, and may still carry out |
| `late` | claims OrgDO may still carry out after the caller timed out (538) |
| `recon`, `direct` | how far the reconciler, a prewarm and a first send are |

`Attempt`, `Commit`, `Delete`, `Reconcile` and `Rival` group the actions of these
calls; `RequestFindsExpired` and `RequestRedrives` are requests that find a lease run
out or a commit cut off; `AlarmFires`, `LeaseRunsOut`, `BackoffEnds`, `KeySettles`,
`Restart`, `DeleteThread` and `Pin` are the rest of the world. An agent is named
by the idempotency key that made it, so that repeating a create makes the same one.

`Origin` says which thread is looked at. `"old"`: the old loop ran it; nothing pins
it and no other path makes it an agent. `"new"`: it was just made, and is pinned
after its creation with awaits in between (`channels.ts` 332,
`workspace-cron.ts` 1145, `src/lib/runtime-threads.server.ts` 280) while a sweep
(`OrgDO.listThreadsWithoutRuntime`) may already pick it up.

`ThreadHome` is what a reader of the thread relies on: it lives in its Durable
Object until it is given one agent, for good, and that agent is never destroyed
while the thread exists.

Abstracted: what the archive holds, backoff times (over or not), several threads
(they share nothing), the prompts of the moved agent.

### MirrorOutbox

| In the model | In the code |
|---|---|
| `fact[k]` | the entity's current row or deletion, as the number of writes it had |
| `rows[k]` | the outbox row: generation, due or not (110-150) |
| `clock`, `ledger` | `d1_mirror_clock` and `mirror_rows.version`: who may write D1 |
| `alarm`, `armed`, `arms` | the Durable Object's alarm, `armedAt`, `setAlarm` calls under way (325-361) |
| `drain[d]` | a pass of `drain()`: the rows it read, its call, its failures (238-322) |
| `flight`, `d1` | D1 batches sent and not carried out; D1's tables |
| `owner` | whether the owner was hard-deleted, and purged from D1 |

An organisation's root has two events (`org_upsert`, `org_llm_provider_update`):
`Parts` of a key. A user is looked up in `deleted_users` before its batch
(`app-index-db.ts` 935): `LooksUp` and `Lands` are two steps. `"alarm"` is the drain of
the owner's alarm handler, `"now"` that of `drainMirrorNow`.

`IdentityMirror` is what D1's readers are promised: each part is shown as it really
was at some moment, never as before a moment already shown, and what a purge
removes for good is not shown again.

Abstracted: the attempt counter (it spaces retries), the order of due rows (any
`Limit` of them), the pass count limit, the branch for deployments without D1.

### DiscordIngress

One conversation. Messages are named 1, 2, ... in the order the Gateway brings them.

| In the model | In the code |
|---|---|
| `rows[m]` | the `ingress_outbox` row: state, ordinal, lease (holder, run out or not), over a day old or not |
| `completed`, `nextOrdinal` | `conversation_state.completed_ordinal`, `thread_bindings.next_ingress_ordinal` |
| `sends[p]` | a `publishEvent` of the gateway or of a sweep: its `send()` under way, or landed and unanswered (1255-1286) |
| `sweep[s]` | an `alarm()` or `maintenance()` and the pending rows it read first (1793-1888) |
| `copies[c]` | a queue message: queued, claimed, handed over, to be retried, dead-lettered; its retries |
| `accepted` | messages the agent runtime has taken |

The holder of a lease is the queue message whose consumer has its token: nobody
else knows it, and a consumer that died took it along. `LateAnswers` says whether
a queue message may be consumed before the `send()` that made it returns, as
nothing in Cloudflare Queues forbids.

`OrderedInbox` is what all of it promises: messages come one by one, are settled
(completed or failed) in that order and for good, and the agent is given a message only
once all before it are settled. Stored, settled, outcome and given are `nextOrdinal - 1`,
`completed`, the rows' final states and `accepted`.

Abstracted: prompt building, REST calls to Discord (their outcomes are `HandsOver`,
`GivesUp`, `TurnedAway`), failure notices, batches (each message is acknowledged by
itself), retention deletes after 7 and 180 days, binding and unbinding threads. The
alarm's time is left out: the cron runs `maintenance()` every minute whatever it is
(`bridge/index.ts` 34-39). The KV key that remembers accepted events is left out too:
handing over is idempotent by `clientMessageId`.

### ThreadStatus

One thread: its row, events and completion are its own.

| In the model | In the code |
|---|---|
| `row`, `shown` | the `thread_streaming_status` row (start, last renewal), the status last broadcast (`workspace.ts`) |
| `alarm`, `waking` | WorkspaceDO's alarm and its handler, which first sets the alarm `Fallback` ahead, then sweeps, waits for the tokens it refreshes and sets the alarm again (`workspace.ts` 1553-1652) |
| `unset` | history: the last handler was cut off (`AlarmCut`) or could not set the alarm again (`AlarmEnds`), so that the fallback stands unless a mark armed it since |
| `send[s]` | a send: marked, prompted, answered, failed, lost with its isolate, or a repeat of a finished request; its mark taken back (`thread-runtime.ts` 381-543) |
| `agent`, `events` | the runtime's runs, and the webhook events it may still deliver |
| `hand[h]` | what a delivery goes on with: clear, persist, publish, summarise; or a renewal by usage (`agent-runtime-events.ts`) |
| `thread` | OrgDO's `updated_at`, last completion and status of its summary |

`Mark`, `Refresh` and `ClearIf` are the three operations on the row; each sweeps
first (`Swept`). `Second` is how many ticks the whole seconds of the runtime's events
have: marks carry milliseconds. `InOrder` delivers events in the order they were sent,
to show what happens even then.

Abstracted: other threads of the workspace, activity texts, the heartbeats of threads the
old loop still runs, thread errors, unattended inputs. The summary's last broadcast
cannot change the row (its guard asks for a null start) and is left out. Of the tokens, the
alarm's other use, only the handler's wait for them is kept: an alarm that a token has
brought forward is one that finds the mark renewed, which a renewal brings about too (it
leaves the alarm where it was). What one call writes to the row and the alarm is stored
together; a mark that the send tries again after a reset is one mark. The dates of starts
and waits, which nobody reads, are left out.

### WorkspaceCron

| In the model | In the code |
|---|---|
| `job[j]` | the row of `scheduled_prompts` (`Prompts`) or `deterministic_automations` (`Autos`): enabled, `next_run_at`, the run and outcome it shows |
| `runs[j]` | `automation_runs` of `j`: the occurrence, who asked, its status, what the agent reported; and the turn or workflow that runs for it |
| `alarm`, `wake` | the alarm; its handler: the time it read, the rows it read and has still to take |
| `work[w]` | a dispatch or a member's call: looking up, finding a thread, starting, answered |
| `want`, `rewound`, `cut` | history: what the owner last asked for, times an edit put back, jobs whose call a restart cut off before it armed |

Ticks are the occurrences of one cron expression (`NextRun(t) = t + 1`). A member's
call (`Reads` ... `Update`, `RunPromptNow`, `RunAutoNow`) and a dispatch
(`TakePrompt`, `ThreadFound`, `Starts`, `PromptDispatched`; `TakeAuto`, `Starts`,
`AutoAnswered`) keep the row they read over their awaits, as the code does. Prompts
and automations differ where the code does: an automation's schedule moves before
its workflow is created, a prompt's after its turn was accepted.

Abstracted: source versions, a prompt's thread that is replaced, limits of 20 jobs a
wake and 20 kept runs (not reached), the deployment without workflows; a busy thread
reads as an error, which is what the dispatch makes of it. What the handler's end does to the
alarm while a retry is due is not told apart: the platform retries either way.

### CloudSweep

| In the model | In the code |
|---|---|
| `job` | the sweep's row in D1: status, phase, cursor, next retry, pause after a failure; `sweep` stands for `startedAt` |
| `recs[t]` | the record of a thread that did not move: to retry, when, how often tried; or skipped |
| `lease` | the step lease (`selfhost-sweep.ts` 280-320) |
| `step[s]` | a step: the state it works on, its page, the records it read, the workers under way (`out`), who was tried |
| `op` | an operator's start or pause between its read and its write |
| `home`, `going`, `place` | where each thread lives, moves a step stopped waiting for, the index's order |

`saveStepState` is `SaveReads` and `SaveWrites`, two statements to D1. A step's budget, its
lease and its death are independent of each other.

Abstracted: dry runs, not enabled, big threads that move alone and start intervals,
the counts; a page and its records are read in one step; giving up after a time is giving up
after `GiveUp` tries; time passes only where the sweep waits for it. A step that ends in the
middle (`Dies`) takes its workers with it and leaves its lease to run out. Where one worker's
write to D1 throws, the code frees the lease at once while the step's other workers may move
a few threads more (`cloud-sweep.ts` 525, 577): what is shown of the sweep is shown up to that
short time.

## 3. What is checked

| Run | Question | Distinct states |
|---|---|---|
| `old` | two attempts at moving an old thread, one after the other or overtaking | 760 486 |
| `new` | one attempt at a thread that is being pinned, prewarmed and sent to: what still holds | 212 819 |
| `live` | does a move end, is no agent left behind | 6 103 |
| `outbox` | an OrgDO's outbox with its alarm, failing calls, restarts, a hard deletion | 90 859 |
| `outbox_two` | a UserDO's two drains at a time, arming cut off | 540 444 |
| `discord` | two messages with replays, faults, dying consumers, leases running out, rows growing old | 249 593 |
| `cron` | a prompt and an automation, the alarm, a member's calls, a restart or a handler that throws | 487 000 |
| `status` | a send, two runs and their events in any order, two handlers, the alarm | 1 356 967 |
| `sweep` | two threads, two steps that die, overrun or run out of budget, a pause | 826 000 |
| `discord_late`, `cron_intent`, `status_quick` | see [section 5](#5-where-code-and-its-promises-part) | - |

**Properties of the move.** `RowAgentSafe`: the row's agent is live and no deletion
that will not look at the row again is on its way. `MovingAgentSafe`: the same for
the agent of a move that may still commit. `ClaimsAgree`: every claim under way or
late is for the agent the record holds. `MovedHasAgent`: a final move's row holds the
recorded agent. `CommitStands` and `LeftoversKept` compare a state with the next: a
commit is not undone, and the record stops answering for an agent only when it is
gone, moved to, being deleted, or its key has settled. `ImplementsHome` is the
refinement of `ThreadHome`. `MoveEnds` and `NoAgentLeft` are the liveness side.

**Of the mirror.** `MarkKept`: where D1 is behind, the fact is queued. `AlarmCovers`:
where rows wait, an alarm is set, about to be, or its handler runs. `ArmedIsArmed`:
the memory of the alarm is right. `PurgedRootGone`: a late write does not bring a
purged owner back. `ImplementsMirror` is the refinement of `IdentityMirror`,
`CatchesUp` says D1 is up to date again and again.

**Of the ingress.** `HandedInOrder`: what a consumer works on, or the agent has, has no
open predecessor. `ImplementsInbox` is the refinement of `OrderedInbox`: no step settles
a row out of turn, changes what became of one, or hands one over before its turn.
`NextIsCarried`: the next row, enqueued or leased, has a queue message.
`LeaseIsExclusive`: one live lease at a time. `Settles`: every stored message is
settled in the end.

**Of the running marks.** `MarkHasAlarm`: a marked thread is never left without an alarm.
It is set for the end of the lease, or a second from now; only while the alarm's handler is
under way, or after it was cut off or failed to set the alarm again, may it be as late as
the handler's own fallback. Its mutant is a handler that leaves the fallback. `ShownIsRow`: what viewers were
last told is what the row says. `CompletionKept` compares a state with the next:
a completion never goes back, and a ready summary is not unmade. `ShownIdleInTheEnd`:
a thread without a run ends up shown idle, whatever events were lost or late.

**Of the automations.** `AlarmCovers`: an enabled job has an alarm, or its setter, on
the way. `OncePerOccurrence`: an automation's occurrence starts one workflow unless an
edit put the time back. `ShownByItsRun`: a summary that says under way or failed agrees
with the log. `DueIsHandled`: what is due moves on.

**Of the sweep.** `AllAccountedFor`: a complete sweep passed nobody over.
`OneStepAtATime`: one step works, as long as none outlived its lease. `SweepEnds`.

### Bounds, and why they are enough

* `Leases` (2 in `old`): hazards between attempts need an attempt and one that
  overtakes it; a third shares nothing with the first but the record, which keeps
  one orphan and one key. `MaxCalls` 2: a call and one beside it of a kind.
  The theorems of section 4 have no bound on either.
* `MaxWrites` 2: a fact written while its first write is on the way. `MaxFaults` 2 with
  `MaxStreak` 2 ends a pass by failures in a row. `Limit` 2 of 3 facts leaves rows for a
  next pass. `MarkKept` was also run with 3 writes (1.9 million states).
* `Messages` 2: order is between a message and its successor. `Slots` 2 lets a message
  have two copies, or both messages one. `MaxRetries` 1 and `DlqRetries` 1 reach
  the dead letters and their end (the deployment has 5 and 3); `MaxFaults` 1.
  Three slots (4.0 million states), two overlapping sweeps (1.2 million) and three
  messages without expiry (1.1 million) were also run, without an error.
* `cron`: one job of each kind, one member, two calls (an edit or a manual run around a
  dispatch), two ticks (an occurrence and the next), one fault. The kinds share only the
  alarm, which is set from all rows.
* `status`: two runs, so that an event of the first may come after the second began;
  two handlers, so that two completions overlap; one fault. Sends, responses and resumes
  begin in the first of two ticks; the lease is one tick, its first end a tick after them,
  when events may still be on the way, so that marks are swept, renewed and made anew around
  an alarm; the fallback (3) is later than any lease's end. Later events wait for no alarm.
  `status_quick` has two ticks a second and no fault at all.
* `sweep`: a page holds both threads, both workers may be out; a second step takes over
  from one that died or overran; one event (a pause, an overrun or a touched thread).
  Sweeps are not restarted in it (`MaxSweeps` 1): a restart breaks `AllAccountedFor`, see section 5.
* `CHECK_DEADLOCK FALSE` in all: each system may rightly stop, the move when its
  leases are used up, the others when all is written and settled.

### Fairness, and why the code justifies it

* Move: the alarm fires once set (Durable Objects retry alarms); leases run out; OrgDO
  and the runtime answer what is asked again and again (strong fairness of the claim
  and of an answer other than "no row", as each answer may be overtaken by a
  timeout). The reconciler has no schedule in this repository, it is an admin endpoint
  (`routes/admin/runtime-migration-routes.ts` 37-53): `NoAgentLeft`, and it alone, assumes
  an operator who runs it now and again over every page. Without that it fails: a create
  the runtime finishes after the clean-up listed the agents leaves one behind, which is
  what the reconciler is there for. `MoveEnds` does not need it.
* Mirror: rows fall due, an arming that was started lands, the alarm fires, D1 answers a
  call a drain waits for, and a drain goes on. Restarts and failures are not fair,
  only bounded.
* Ingress: the queue delivers and accepts, the cron sweeps, a consumer's calls return.
  Leases running out and rows growing old are *not* fair: `Settles` does not lean
  on the sweep that fails day-old rows.
* Automations: a due alarm fires, its handler goes on, calls are answered or fail. Members,
  runs' ends and faults are not fair. `DueIsHandled` excludes only a job whose call a restart
  cut off before it set the alarm, which waits for the next operation of the workspace.
* Running marks: time passes, the alarm fires and ends, runs end, events are delivered in
  the end, handlers and sends go on; no new send has to come.
* Sweep: the cron asks for steps again and again, each goes on, time passes.

## 4. What is proved

TLC checks the instances above; TLAPS checks these for all values of the constants.

**ThreadMigrationProofs** (any number of leases and calls). `TypeCorrect`,
`MovingAgentIsSafe` and `ClaimsAlwaysAgree` for both origins; `RowAgentIsSafe`,
`MovedThreadHasAgent` and the refinement `MoveImplementsHome` for `Origin = "old"`: for
`"new"` they do not hold (section 5).
No property is inductive by itself. The invariant is a conjunction of named parts:
`RowPart` (what the row may hold), `RecPart` (what record and attempts agree on),
`LoosePart` (an agent somebody may delete is not needed), `ClaimPart` (claims made, under
way and late are for the lease past `prepare()`), `AnswerPart` (a commit's answer is no
row, no thread, or what it claimed), `TaskPart` (an attempt's own clean-up is the only one
it has). Where the old loop ran the thread they say more (`OldLoop`): a claim that was
answered stays in the row, and a final move's agent is needed. A thread just made may be
pinned, given an agent by a first send and then moved to that one, which makes the
attempt's own agent a spare. The step case has one lemma per group of actions; steps
that touch none of the parts are dispatched by one lemma (`Quiet`). The refinement maps
every step to a giving, a destroying, a removal or a stutter (`StepKinds`).

**ThreadMigrationStepProofs** (the same, both origins). `CommitsStand` and
`LeftoversAreKept`, the move's two action properties. To the invariant above it adds
`LeftInv`: leftovers are cleared before an attempt goes on to its key and none are kept past
`prepare()` (`CleanPart`), an orphan was made (`OrphanPart`), and a clean-up goes through
its candidates in order and, when it says it is done, has deleted what it went
past (`Fits`): so the record may forget them then. Of a final move a clean-up says no
more than its candidates: the spare agent it deletes is not the record's.

**DiscordIngressProofs** (any number of messages, queue messages, sweeps, retries,
faults). `TypeCorrect`, `DeliveredInOrder`, `SettlesInOrder`, `OneLease`, and the refinement
`IngressImplementsInbox`. What carries the proof is that a stored row's ordinal is its place in line (`Numbered`), that a
leased row is the next one (`LeasePart`) and that rows grow old in order
(`OldPart`): so settling what is expired settles everything up to some ordinal.
Every action is one of five kinds of step on the rows (`RowStep`), each shown to keep
the invariant once; each is also a step of `OrderedInbox` or a stutter, a handing over is
one of its own, and no action is both (`GivenOrStored`). `NextCarried` shows `NextIsCarried` under two assumptions that
are needed: no answer to a send comes after its queue message is consumed (run
`discord_late` violates it otherwise), and no more faults happen than a dead letter
has retries (with `DlqRetries` 0 one fault drops the last copy of a row). Its own
invariant says that the copy that carries the row, if dead-lettered, has been tried
no more often than there were faults (`CarryPart`), and that a queue message stays
as it is until its send is answered (`SendPart`).

**ThreadStatusProofs** (any number of sends, handlers, runs, events, any lease). `TypeCorrect`,
`MarksAreSwept` (`MarkHasAlarm`), `ViewersSeeTheRow` (`ShownIsRow`), `CompletionsStand`
(`CompletionKept`). All that touches the row is a mark, a renewal, a clear, the alarm or
time (`BoardStep`), all that touches the completion is a stored completion or a
message: each kind is shown once. `MarkHasAlarm` needs that a renewal is never later than now,
so that it only moves the lease's end away from its alarm, and that time is not 0, which
stands for no alarm (`BoardInv`); `CompletionKept`
that a handler stores under a status of its own (`HandInv`).

**MirrorOutboxProofs** (any entities, parts, events, batch limit, writes and faults).
`TypeCorrect`, `MirrorMovesForward` (the refinement of `IdentityMirror`) and, of an
organisation, `PurgedOrgGone`, for any drains; `MarksAreKept`, `ArmedIsTrue` and
`WaitingIsCovered` for the alarm's drain alone (`OneDrain`), the last one if arming is not
cut off. Section 5 has a counterexample for each assumption. There are three invariants.
`MirrorInv`: what is on its way to D1, in a pass's call or in flight, is ordered by its
version (`OrderPart`, `NewerPart`, `EventPart`), and what D1 would take of it is no older
than what D1 shows (`ShownPart`). `BellInv`: no pass holds a newer generation than the
row has (`TakenPart`), and an alarm armed while the handler runs was armed for a
row the pass leaves behind (`NewMarkPart`), so that its end may forget the older one.
`KeepInv`: if the row of the pass's call was not marked since it was read, the call carries
the fact as it is and D1 shows the parts answered so far (`LastPart`), which is what makes
dropping the row after the last answer right.

**WorkspaceCronProofs** and **WorkspaceCronRunProofs** (any jobs, members, ticks, calls and
faults). `TypeCorrect`, `EnabledIsCovered` (`AlarmCovers`), `ShownFollowsTheLog`
(`ShownByItsRun`), `OccurrenceRunsOnce` (`OncePerOccurrence`): all that run `cron`
checks as invariants. `AlarmInv` says in which phase the handler has what (`WakePart`)
and that an enabled job without an alarm in time has a call that will still arm one, or
one that was cut off (`CoverPart`). `ShowInv` says that nobody works on a job that was
never created (`CallPart`) and that a row's runs are deleted with the row (`LivePart`).
`OnceInv` says of each automation that its scheduled runs are of the past as the
handler sees it (`PastPart`), that its next time has no run yet unless an edit put
it back (`NextPart`), and the same of a row the handler has read and not dispatched,
of which there is one per job (`TodoPart`): a handler that is retried reads rows again,
and no run is there twice because run and next time are written in one transaction.
A step either leaves the times and scheduled runs of a job alone (`KeptStep`) or adds
the one run the handler's row is for (`AddedAuto`).

**CloudSweepProofs** (any threads, steps, calls and faults, pages and budgets of any size).
`TypeCorrect` and `OneStepWorks` (`OneStepAtATime`) for any number of sweeps,
`FirstSweepAccounts` (`AllAccountedFor`) until a sweep is started anew: after that it does
not hold (section 5). The lease has `HolderPart`: while no step overruns it, a step that
works holds one that is not over; so it is taken only where nobody works, and freed
only by the step that works. The accounting has `SweepInv`: every state of the sweep
that is stored or in a step's hands says that a thread is behind it, by its cursor or
by its phase, only of threads that were moved or recorded (`StatesPart`); a step that
works finds the listed threads where its page had them and has recorded what it tried
(`SeenPart`), so that moving the cursor past the page passes nobody over; within the
lease the records are as the step read them, so that it sees all there is to retry
(`KnownPart`); and a state that says it is complete leaves nothing to retry
(`FinalPart`). A move is never undone and, in the first sweep, a record never deleted
(`FreshPart`), so what is behind it stays behind it.

Assumed: `NamesAssumption`, `BoundAssumption`, `OriginAssumption`, `IngressConstants`,
`StatusConstants`, `OutboxConstants`, `CronConstants`, `SweepConstants`, all of them about the constants only, and evaluated
by TLC in each run.

Only model-checked: all liveness (`MoveEnds`, `NoAgentLeft`, `CatchesUp`, `Settles`,
`DueIsHandled`, `ShownIdleInTheEnd`, `SweepEnds`), which is beyond the prover, as is
whatever needs ENABLED. Every invariant, action property and refinement of the passing
runs is stated by a theorem, under the assumptions named above where there are any.

## 5. Where code and its promises part

Three are runs whose single property TLC violates; the finding in `PROJECT.json`
quotes the line that makes the promise.

* `discord_late`: a queue message is consumed and parked before `send()` returns while
  its predecessor finishes; the row then reads `enqueued` with nothing left to
  bring it on, until the sweep fails it a day later.
* `cron_intent`: a dispatch, or a run by hand, writes back the enabled flag it read
  before the owner, or the workspace's archive, disabled the job: it is enabled again.
* `status_quick`: the runtime's times are whole seconds, the mark's are milliseconds: a
  run that ends in the second it was sent in ends "before" its mark, which stays until
  its lease is over.

The models show these too. They have no run of their own; the instance given with each
finds it.

* `RowAgentSafe` with `Origin = "new"`: a refused commit takes whatever it reads back in
  the row for another path's agent, a row that is only pinned included; its own agent is
  then deleted as spare while an earlier claim of it may still be carried out.
* `ThreadHome` and `MovedHasAgent` with `Origin = "new"`: `setThreadRuntimeAgent` is an
  upsert, so a first send that read the row before a move claimed it replaces the agent
  the thread was given.
* `MarkKept` with two drains: a row that one drain drops and a write queues again starts
  at generation 1, and another drain that read generation 1 drops the new mark.
* `ArmedIsArmed` with two drains: `drainMirrorNow` empties the outbox under the alarm's
  drain, which deletes the alarm armed meanwhile while `armedAt` stays set.
* `PurgedRootGone` with `Owner = "user"`: a user's upsert that looked the user up before
  the deletion is carried out after it.
* With arming cut off by a restart (`ArmsCut`) a queued row has no alarm until the next mark,
  and the reconciler skips queued keys (`d1-mirror-reconcile.ts` 6-7). Child rows of a
  purged organisation may come back with a late drain, until the reconciler's orphan phase.
* `ReportOnItsRun` (`WorkspaceCron`, two runs open on one thread): an outcome the agent
  reports is "kept on the thread's run in progress" (`workspace-cron.ts` 2153-2156), which is
  taken to be the one that was due last, not the one whose turn reports.
* `workspace-cron.ts`: an alarm's block is written as "Blocked by billing plan:", the
  end of a run preserves "Schedule blocked by billing plan:" only; a dispatch cut off after
  its turn was accepted is dispatched again; a delete during a dispatch leaves a run
  without a job; an update writes back the `next_run_at` it read (`rewound`);
  the answer of a call that got lost overwrites the good end of its run.
* `StepLeavesThem` (`CloudSweep` with `MaxSweeps` 2 or a pause): `saveStepState`
  promises that a restart or a pause made meanwhile stands (`cloud-sweep.ts` 295-301); between its
  read and its write it does not. A step of the sweep before a restart may also put a
  record into the new one, and then `AllAccountedFor` fails. A step that outlived its lease
  frees the next one's. Threads used during the scan move above the cursor and are
  not looked at again (`Listed` leaves them out of the claim).
* `ThreadStatus`: "the row cannot outlive its lease" (`workspace.ts` 547-549) holds up to the
  handler's fallback of an hour: a handler that is cut off, or whose failure to set the
  alarm again is caught and logged (1644-1651), leaves a marked row with the fallback only
  (`MarkHasAlarm` without its last disjunct is violated by the `status` run's instance).
  A send that fails takes back "never another turn's" mark
  (`thread-runtime.ts` 399), but the row keeps the older start of a turn it joined; a late
  completion clears a newer run that kept an older start; a late `waits` end clears any
  row; two runs that complete in one second are taken for one.

## 6. Not modelled

The Discord gateway's socket, the stored chat, forks, key scopes and usage guards have
the same kind of state and are what a next module would be about. Email and Slack
ingress are simpler versions of the Discord one. The self-host sweep is the cloud sweep over
every organisation. Deploys, containers, connections and tools are sequences of calls to
services whose behaviour is not in this repository. Workspace files are single
transactions of one object. The user interface, reports and tooling, by far the
largest part of the code, keep no state of the system. `PROJECT.json` has one entry
for each, with its reason.

## 7. Plan

Done: (1) `ThreadMigration`, `ThreadHome` and proofs; (2) `MirrorOutbox`, `IdentityMirror`
 and proofs; (3) `DiscordIngress`, `OrderedInbox` and proofs; (4) `ThreadStatus` and proofs; (5) `CloudSweep` and proofs;
(6) `WorkspaceCron` and its proofs. Left, most important first:

7. `DiscordGateway`: session, sequence, resume; composed with the ingress: every
   dispatch is stored, or replayed by a resume.
8. `RuntimeTurn`: configure, prompt, steer and the agents of first sends and forks.
9. `UsageGuard`: the two D1 leases around quarantine and restore; `KeyScopes`.
10. Proofs: what of `AllAccountedFor` a sweep started anew keeps; two drains of one outbox; an
    abstract job log that `WorkspaceCron` implements.

## 8. Running it

```
tlc -workers 2 -config ThreadMigration_old.cfg MCThreadMigration
tlc -workers 2 -config MirrorOutbox_alarm.cfg MCMirrorOutbox
tlc -workers 2 -config DiscordIngress_chat.cfg DiscordIngress
tlc -workers 2 -config ThreadStatus_board.cfg ThreadStatus
tlc -workers 2 -config WorkspaceCron_alarm.cfg WorkspaceCron
tlc -workers 2 -config CloudSweep_step.cfg CloudSweep
tlapm ThreadMigrationProofs.tla
tlapm ThreadMigrationStepProofs.tla
tlapm DiscordIngressProofs.tla
tlapm ThreadStatusProofs.tla
tlapm MirrorOutboxProofs.tla
tlapm WorkspaceCronProofs.tla
tlapm WorkspaceCronRunProofs.tla
tlapm CloudSweepProofs.tla
```

The module and the configuration of each run are in `PROJECT.json` under `runs`;
under `mutants`, each property has a plausible slip of the code (defined beside the
definition it alters and marked as a slip of the code) under which it is violated.
