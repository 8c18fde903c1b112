--------------------------- MODULE ThreadMigration ---------------------------
(***************************************************************************)
(* One thread's move from ChatThreadDO to the hosted agent runtime:        *)
(* chat-thread/runtime-migration.ts with the OrgDO row it commits to, the  *)
(* runtime that makes and deletes agents, the orphan reconciler and the    *)
(* alarm.                                                                  *)
(*                                                                         *)
(* The DO's code between two awaits is one action.  Everything that may    *)
(* happen across an await is in the state: the calls under way (att,       *)
(* commits, dels, recon) and what is on the network after its caller       *)
(* stopped waiting (creates, deletes, late).  Time is what it decides: a   *)
(* lease that is live or run out, a backoff that is over or not, a key     *)
(* that has settled or not.                                                *)
(***************************************************************************)
EXTENDS FiniteSets, Naturals

CONSTANTS
    Leases,     \* lease ids; an agent made under lease l's key is named l
    Direct,     \* the agent made under the key thread_<id>
    None,       \* no lease, agent, key or answer
    Origin,     \* "old": the old loop ran it.  "new": just made, being pinned
    MaxCalls    \* bound: a request or the alarm adds no call of a kind beyond it

Agents == Leases \cup {Direct}

ASSUME NamesAssumption == /\ Direct \notin Leases
                          /\ None \notin Agents
                          /\ Agents \cap {"NoRow", "Pinned", "Gone"} = {}
                          /\ None \notin {"NoRow", "Pinned", "Gone"}
ASSUME BoundAssumption == MaxCalls \in Nat \ {0}
ASSUME OriginAssumption == Origin \in {"old", "new"}

VARIABLES
    rec,        \* the DO's stored record
    alarm,      \* whether the DO's alarm is set
    att,        \* where each attempt's migrate() call is
    commits,    \* commit() calls under way
    dels,       \* deleteLeftovers() calls under way
    thread,     \* whether OrgDO has the thread
    row,        \* its thread_runtime row: none, pinned without an agent, or an agent
    agents,     \* the runtime's agents
    creates,    \* POST /v1/agents the runtime may still carry out
    deletes,    \* DELETEs the runtime may still carry out, nobody waiting
    late,       \* claims OrgDO may still carry out, nobody waiting
    recon,      \* the agent the reconciler is at, and how far it is with it
    direct      \* how far a prewarm and a first send are

org == <<thread, row>>
runtime == <<agents, creates, deletes>>
doCalls == <<att, commits, dels>>
vars == <<rec, alarm, att, commits, dels, thread, row,
          agents, creates, deletes, late, recon, direct>>

-----------------------------------------------------------------------------
(* The record, one phase at a time.                                        *)

NoRec == [phase |-> "none", lease |-> None, live |-> FALSE, key |-> FALSE,
          agent |-> None, orphan |-> None, okey |-> None, settled |-> FALSE,
          retry |-> "due"]

Leased(l, r) ==
    [NoRec EXCEPT !.phase = "leased", !.lease = l, !.live = TRUE,
                  !.orphan = r.orphan, !.okey = r.okey, !.settled = r.settled]

Committing(l) ==
    [NoRec EXCEPT !.phase = "committing", !.lease = l, !.agent = l]

Moved(l, a) == [NoRec EXCEPT !.phase = "moved", !.lease = l, !.agent = a]

Failed(o, k, s, retry) ==
    [NoRec EXCEPT !.phase = "failed", !.orphan = o, !.okey = k, !.settled = s,
                  !.retry = retry]

NoLeftovers(r) == [r EXCEPT !.orphan = None, !.okey = None, !.settled = FALSE]

\* a slip of the code: an attempt goes on under whichever lease holds the thread.
LeaseHeldByAnyone(l) == rec.phase = "leased" /\ rec.live

LeaseHeld(l) == rec.phase = "leased" /\ rec.lease = l /\ rec.live

HasLeftovers(r) == r.orphan # None \/ r.okey # None

AlarmDue(r) == \/ r.phase \in {"leased", "committing"}
               \/ r.phase = "failed" /\ HasLeftovers(r)

\* slips of the code: only a finished move, or only an agent the record names, is held;
\* a failed attempt's leftovers are.
HoldsOnceMoved(a) == rec.phase \in {"moved", "leased"} /\ (rec.agent = a \/ (rec.key /\ rec.lease = a))
HoldsByAgent(a) == rec.phase \in {"moved", "committing", "leased"} /\ rec.agent = a
HoldsLeftovers(a) == rec.agent = a \/ rec.orphan = a \/ rec.okey = a \/ (rec.key /\ rec.lease = a)

Holds(a) == \/ rec.phase \in {"moved", "committing"} /\ rec.agent = a
            \/ rec.phase = "leased" /\ (rec.agent = a \/ (rec.key /\ rec.lease = a))

OrgKnown == Origin = "old" \/ rec.phase \in {"leased", "committing", "failed"}

-----------------------------------------------------------------------------
(* deleteLeftovers: the candidates, one at a time, each checked against    *)
(* the runtime row and against who still owns the clean-up.                *)

Deleting(owner, l, o, k, first, second) ==
    [owner |-> owner, lease |-> l, orphan |-> o, okey |-> k, cand |-> first,
     next |-> second, pc |-> "read", held |-> None, out |-> "done"]

\* The call for leftovers o and k, none when there are none.
Leftovers(owner, l, o, k) ==
    IF o # None
    THEN {Deleting(owner, l, o, k, o, IF k = o THEN None ELSE k)}
    ELSE IF k # None THEN {Deleting(owner, l, o, k, k, None)} ELSE {}

CleanUp(r) == Leftovers("clean", None, r.orphan, r.okey)
Spare(l) == {Deleting("spare", l, None, None, l, None)}

Names(r, t) == r.phase = "failed" /\ r.orphan = t.orphan /\ r.okey = t.okey

StillOwned(t) == CASE t.owner = "clean"   -> Names(rec, t)
                   [] t.owner = "attempt" -> LeaseHeld(t.lease)
                   [] t.owner = "spare"   -> TRUE

ByKey(t) == t.cand = t.okey /\ t.cand # t.orphan

HeldByRow == IF row \in Agents THEN row ELSE None

-----------------------------------------------------------------------------
(* fail(): undo the move under lease l, if it still holds the thread.      *)

\* slips of the code: the cut-off create's key is forgotten; the lease stays in the record.
FailedForgetsKey == Failed(IF rec.agent # None THEN rec.agent ELSE rec.orphan,
                           rec.okey, rec.settled, "waiting")
FailedKeepsLease == [rec EXCEPT !.phase = "failed"]

FailedLease ==
    LET cutOff == rec.agent = None /\ rec.key
    IN  Failed(IF rec.agent # None THEN rec.agent ELSE rec.orphan,
               IF cutOff THEN rec.lease ELSE rec.okey,
               ~cutOff /\ rec.settled,
               "waiting")

Fail(l) == IF rec.phase = "leased" /\ rec.lease = l
           THEN /\ rec' = FailedLease
                /\ dels' = dels \cup CleanUp(FailedLease)
           ELSE UNCHANGED <<rec, dels>>

End(l) == att' = [att EXCEPT ![l] = "over"]

Claim(l) == [lease |-> l, pc |-> "claim", out |-> None]

-----------------------------------------------------------------------------
(* migrate(): the lease, the leftovers of an earlier attempt, the export,  *)
(* the agent, the archive, and the hand-over to commit().                  *)

\* A request reaches the DO.  Its row check may be as old as the thread, so
\* nothing of the row is asked here.
StartLease(l) ==
    /\ att[l] = "idle"
    /\ \/ rec.phase = "none"
       \/ rec.phase = "failed" /\ rec.retry = "due"
    /\ rec' = Leased(l, rec)
    /\ alarm' = TRUE
    /\ att' = [att EXCEPT ![l] = IF HasLeftovers(rec) THEN "clear" ELSE "export"]
    /\ dels' = dels \cup Leftovers("attempt", l, rec.orphan, rec.okey)
    /\ UNCHANGED <<commits, org, runtime, late, recon, direct>>

\* A request that finds the lease run out undoes it (and then backs off).
RequestFindsExpired ==
    /\ rec.phase = "leased" /\ ~rec.live
    /\ Fail(rec.lease)
    /\ UNCHANGED <<alarm, att, commits, org, runtime, late, recon, direct>>

\* A request that finds a commit pending re-drives it.
RequestRedrives ==
    /\ rec.phase = "committing" /\ Cardinality(commits) < MaxCalls
    /\ commits' = commits \cup {Claim(rec.lease)}
    /\ UNCHANGED <<rec, alarm, att, dels, org, runtime, late, recon, direct>>

\* The history read or its conversion fails (too large, or the read threw).
ExportFails(l) ==
    /\ att[l] = "export"
    /\ Fail(l) /\ End(l)
    /\ UNCHANGED <<alarm, commits, org, runtime, late, recon, direct>>

\* The key is recorded in the lease, then the create is sent under it.
SendCreate(l) ==
    /\ att[l] = "export"
    /\ IF LeaseHeld(l)
       THEN /\ rec' = [rec EXCEPT !.key = TRUE]
            /\ alarm' = TRUE
            /\ att' = [att EXCEPT ![l] = "create"]
            /\ creates' = creates \cup {l}
       ELSE End(l) /\ UNCHANGED <<rec, alarm, creates>>
    /\ UNCHANGED <<commits, dels, org, agents, deletes, late, recon, direct>>

\* a slip of the code: the claim is sent and the record left for later.
HandOverUnrecorded(l) == /\ commits' = commits \cup {Claim(l)}
                         /\ End(l)
                         /\ UNCHANGED <<rec, dels>>

\* prepare() and the start of commit(), with no await between them.  busyReason
\* is always null and the transcript read-only, so only the lease is in doubt.
HandOver(l) ==
    /\ rec' = Committing(l)
    /\ commits' = commits \cup {Claim(l)}
    /\ End(l)
    /\ UNCHANGED dels

\* The create is answered: the agent goes into the lease, which is renewed;
\* a history moved whole needs no archive and commits at once.
CreateAnswered(l) ==
    /\ att[l] = "create" /\ l \notin creates /\ agents[l] # "none"
    /\ \/ /\ LeaseHeld(l)
          /\ rec' = [rec EXCEPT !.agent = l]
          /\ alarm' = TRUE
          /\ att' = [att EXCEPT ![l] = "archive"]
          /\ UNCHANGED <<commits, dels>>
       \/ /\ LeaseHeld(l)
          /\ alarm' = TRUE
          /\ HandOver(l)
       \/ /\ ~LeaseHeld(l)
          /\ End(l)
          /\ UNCHANGED <<rec, alarm, commits, dels>>
    /\ UNCHANGED <<org, runtime, late, recon, direct>>

\* The create is refused, or cut off by its deadline or the network: cut off,
\* the runtime may still carry it out.
CreateFails(l) ==
    /\ att[l] = "create"
    /\ \/ l \in creates /\ creates' = creates \ {l}
       \/ UNCHANGED creates
    /\ Fail(l) /\ End(l)
    /\ UNCHANGED <<alarm, commits, org, agents, deletes, late, recon, direct>>

\* The archive is kept (or its placeholder is), and prepare() looks at the lease.
ArchiveKept(l) ==
    /\ att[l] = "archive"
    /\ \/ LeaseHeld(l) /\ HandOver(l) /\ alarm' = TRUE
       \/ ~LeaseHeld(l) /\ Fail(l) /\ End(l) /\ UNCHANGED <<alarm, commits>>
    /\ UNCHANGED <<org, runtime, late, recon, direct>>

ArchiveFails(l) ==
    /\ att[l] = "archive"
    /\ Fail(l) /\ End(l)
    /\ UNCHANGED <<alarm, commits, org, runtime, late, recon, direct>>

-----------------------------------------------------------------------------
(* commit(): OrgDO's compare-and-set, the read-back when its answer is     *)
(* lost, and what the answer makes of the record.                          *)

\* claimThreadRuntimeAgent: only a thread with no agent yet takes this one.
RowAfterClaim(a) == IF thread /\ row \notin Agents THEN a ELSE row
ClaimAnswer(a) == IF thread THEN RowAfterClaim(a) ELSE "Gone"

\* a slip of the code: a row that cannot be found counts as claimed.
AnswerAnyway(c, answer) ==
    commits' = (commits \ {c}) \cup
        {[c EXCEPT !.pc = "answered", !.out = IF answer = "NoRow" THEN c.lease ELSE answer]}

Answer(c, answer) ==
    commits' = (commits \ {c}) \cup {[c EXCEPT !.pc = "answered", !.out = answer]}

OrgClaims(c) ==
    /\ c.pc = "claim"
    /\ row' = RowAfterClaim(c.lease)
    /\ Answer(c, ClaimAnswer(c.lease))
    /\ UNCHANGED <<rec, alarm, att, dels, thread, runtime, late, recon, direct>>

\* The claim fails for the DO, carried out or not; the row is read back next.
ClaimFails(c) ==
    /\ c.pc = "claim"
    /\ row' \in {row, RowAfterClaim(c.lease)}
    /\ commits' = (commits \ {c}) \cup {[c EXCEPT !.pc = "readback"]}
    /\ UNCHANGED <<rec, alarm, att, dels, thread, runtime, late, recon, direct>>

ReadBack(c) ==
    /\ c.pc = "readback"
    /\ Answer(c, row)
    /\ UNCHANGED <<rec, alarm, att, dels, org, runtime, late, recon, direct>>

\* a slip of the code: the record is not read again after the await.
StillCommittingAssumed(c) == TRUE

StillCommitting(c) == rec.phase = "committing" /\ rec.lease = c.lease

\* a slip of the code: the alarm is not set again.
PendingUnarmed(c) == UNCHANGED alarm /\ commits' = commits \ {c}

\* Nothing settled: still committing, and the alarm tries again.
Pending(c) == /\ alarm' = (alarm \/ StillCommitting(c))
              /\ commits' = commits \ {c}

ReadBackFails(c) ==
    /\ c.pc = "readback"
    /\ Pending(c)
    /\ UNCHANGED <<rec, att, dels, org, runtime, late, recon, direct>>

\* Both calls time out: OrgDO, which takes them in order, may still carry the
\* claim out.
ClaimTimesOut(c) ==
    /\ c.pc = "claim"
    /\ Pending(c)
    /\ late' = late \cup {c.lease}
    /\ UNCHANGED <<rec, att, dels, org, runtime, recon, direct>>

\* The answer reaches the DO.
CommitAnswered(c) ==
    /\ c.pc = "answered"
    /\ \/ /\ c.out = "NoRow"
          /\ Pending(c)
          /\ UNCHANGED <<rec, dels>>
       \/ /\ c.out # "NoRow" /\ ~StillCommitting(c)
          /\ commits' = commits \ {c}
          /\ UNCHANGED <<rec, alarm, dels>>
       \/ /\ c.out = "Gone" /\ StillCommitting(c)
          /\ rec' = Failed(c.lease, None, FALSE, "never")
          /\ dels' = dels \cup CleanUp(Failed(c.lease, None, FALSE, "never"))
          /\ commits' = commits \ {c}
          /\ UNCHANGED alarm
       \/ /\ c.out = c.lease /\ StillCommitting(c)
          /\ rec' = Moved(c.lease, c.lease)
          /\ commits' = commits \ {c}
          /\ UNCHANGED <<alarm, dels>>
       \/ /\ c.out \in (Agents \cup {"Pinned"}) \ {c.lease} /\ StillCommitting(c)
          /\ rec' = Moved(c.lease, IF c.out \in Agents THEN c.out ELSE c.lease)
          /\ dels' = dels \cup Spare(c.lease)
          /\ commits' = commits \ {c}
          /\ UNCHANGED alarm
    /\ UNCHANGED <<att, org, runtime, late, recon, direct>>

\* A claim nobody waits for any more is carried out, or never was.
LateClaim(l) ==
    /\ l \in late
    /\ late' = late \ {l}
    /\ row' \in {row, RowAfterClaim(l)}
    /\ UNCHANGED <<rec, alarm, doCalls, thread, runtime, recon, direct>>

-----------------------------------------------------------------------------
(* deleteLeftovers(), and what each caller does with its outcome.          *)

Finish(t, out) ==
    /\ dels' = dels \ {t}
    /\ CASE t.owner = "clean" /\ Names(rec, t) /\ out = "done" ->
              /\ rec' = NoLeftovers(rec)
              /\ UNCHANGED <<alarm, att>>
         [] t.owner = "clean" /\ Names(rec, t) /\ out # "done" ->
              alarm' = TRUE /\ UNCHANGED <<rec, att>>
         [] t.owner = "attempt" /\ LeaseHeld(t.lease) /\ out = "done" ->
              /\ rec' = NoLeftovers(rec)
              /\ alarm' = TRUE
              /\ att' = [att EXCEPT ![t.lease] = "export"]
         [] t.owner = "attempt" /\ LeaseHeld(t.lease) /\ out # "done" ->
              /\ rec' = Failed(rec.orphan, rec.okey, rec.settled, "waiting")
              /\ alarm' = TRUE
              /\ End(t.lease)
         [] t.owner = "attempt" /\ ~LeaseHeld(t.lease) ->
              End(t.lease) /\ UNCHANGED <<rec, alarm>>
         [] OTHER -> UNCHANGED <<rec, alarm, att>>

Replace(t, u) == dels' = (dels \ {t}) \cup {u} /\ UNCHANGED <<rec, alarm, att>>

\* On to the second candidate, if there is one and the clean-up is still owned.
Advance(t, out) ==
    IF t.next = None THEN Finish(t, out)
    ELSE IF StillOwned(t)
    THEN Replace(t, [t EXCEPT !.cand = t.next, !.next = None, !.pc = "read",
                              !.held = None, !.out = out])
    ELSE Finish(t, "failed")

DeleteReadsRow(t) ==
    /\ t.pc = "read"
    /\ \/ Replace(t, [t EXCEPT !.pc = "check", !.held = HeldByRow])
       \/ Finish(t, "failed")
    /\ UNCHANGED <<commits, org, runtime, late, recon, direct>>

DeleteChecks(t) ==
    /\ t.pc = "check"
    /\ \/ t.cand = t.held /\ Advance(t, t.out)
       \/ t.cand # t.held /\ ~StillOwned(t) /\ Finish(t, "failed")
       \/ t.cand # t.held /\ StillOwned(t) /\ Replace(t, [t EXCEPT !.pc = "delete", !.held = None])
    /\ UNCHANGED <<commits, org, runtime, late, recon, direct>>

Destroyed(S) == [a \in Agents |-> IF a \in S /\ agents[a] = "live"
                                  THEN "deleted" ELSE agents[a]]

\* The runtime deletes the agent, or has none of that name: under a key not
\* yet settled, one may still appear.
DeleteAnswered(t) ==
    /\ t.pc = "delete"
    /\ agents' = Destroyed({t.cand})
    /\ Advance(t, IF /\ agents[t.cand] # "live" /\ ByKey(t)
                     /\ t.out = "done" /\ ~rec.settled
                  THEN "settling" ELSE t.out)
    /\ UNCHANGED <<commits, org, creates, deletes, late, recon, direct>>

DeleteFails(t) ==
    /\ t.pc = "delete"
    /\ deletes' \in {deletes, deletes \cup {t.cand}}
    /\ Advance(t, "failed")
    /\ UNCHANGED <<commits, org, agents, creates, late, recon, direct>>

-----------------------------------------------------------------------------
(* Time, the alarm, and a restart of the DO.                               *)

LeaseRunsOut ==
    /\ rec.phase = "leased" /\ rec.live
    /\ rec' = [rec EXCEPT !.live = FALSE]
    /\ UNCHANGED <<alarm, doCalls, org, runtime, late, recon, direct>>

\* The backoff ends by itself, or an operator or the thread's page ends it.
BackoffEnds ==
    /\ rec.phase = "failed" /\ rec.retry = "waiting"
    /\ rec' = [rec EXCEPT !.retry = "due"]
    /\ UNCHANGED <<alarm, doCalls, org, runtime, late, recon, direct>>

\* The create cut off under the recorded key is past ORPHAN_KEY_SETTLE_MS.
KeySettles ==
    /\ rec.okey # None /\ ~rec.settled
    /\ rec' = [rec EXCEPT !.settled = TRUE]
    /\ UNCHANGED <<alarm, doCalls, org, runtime, late, recon, direct>>

AlarmFires ==
    /\ alarm /\ Cardinality(commits) < MaxCalls /\ Cardinality(dels) < MaxCalls
    /\ alarm' = (rec.phase = "leased" /\ rec.live)
    /\ IF rec.phase = "leased" /\ ~rec.live THEN Fail(rec.lease)
       ELSE /\ dels' = dels \cup (IF rec.phase = "failed" THEN CleanUp(rec) ELSE {})
            /\ UNCHANGED rec
    /\ commits' = commits \cup
                  (IF rec.phase = "committing" THEN {Claim(rec.lease)} ELSE {})
    /\ UNCHANGED <<att, org, runtime, late, recon, direct>>

\* The DO is evicted and started again: its calls are gone (what they had sent
\* is not), its storage and alarm are kept, a lost alarm is set again.
Restart ==
    /\ att' = [l \in Leases |-> IF att[l] = "idle" THEN "idle" ELSE "over"]
    /\ commits' = {}
    /\ dels' = {}
    /\ late' = late \cup {c.lease : c \in {d \in commits : d.pc = "claim"}}
    /\ deletes' = deletes \cup {t.cand : t \in {u \in dels : u.pc = "delete"}}
    /\ alarm' = (alarm \/ AlarmDue(rec))
    /\ UNCHANGED <<rec, org, agents, creates, recon, direct>>

-----------------------------------------------------------------------------
(* The runtime carries out what was sent to it.                            *)

RuntimeCreates(l) ==
    /\ l \in creates
    /\ creates' = creates \ {l}
    /\ \/ agents[l] = "none" /\ agents' = [agents EXCEPT ![l] = "live"]
       \/ att[l] # "create" /\ UNCHANGED agents     \* it never got there
    /\ UNCHANGED <<rec, alarm, doCalls, org, deletes, late, recon, direct>>

RuntimeDeletes(a) ==
    /\ a \in deletes
    /\ deletes' = deletes \ {a}
    /\ agents' \in {agents, Destroyed({a})}
    /\ UNCHANGED <<rec, alarm, doCalls, org, creates, late, recon, direct>>

-----------------------------------------------------------------------------
(* reconcileRuntimeMigrationOrphans, one agent at a time: listed, the DO   *)
(* asked, the row read, deleted.                                           *)

ReconAt(a, pc) == [agent |-> a, pc |-> pc]
ReconIdle == ReconAt(None, "idle")

\* Listed, and asked of its DO: one it holds, or whose org is not known, is kept.
ReconLists(l) ==
    /\ recon = ReconIdle /\ agents[l] = "live"
    /\ ~Holds(l) /\ OrgKnown
    /\ recon' = ReconAt(l, "row")
    /\ UNCHANGED <<rec, alarm, doCalls, org, runtime, late, direct>>

ReconReadsRow(l) ==
    /\ recon = ReconAt(l, "row")
    /\ recon' = IF row = l THEN ReconIdle ELSE ReconAt(l, "delete")
    /\ UNCHANGED <<rec, alarm, doCalls, org, runtime, late, direct>>

ReconDeletes(l) ==
    /\ recon = ReconAt(l, "delete")
    /\ recon' = ReconIdle
    /\ agents' = Destroyed({l})
    /\ UNCHANGED <<rec, alarm, doCalls, org, creates, deletes, late, direct>>

\* Any of its calls fails: the agent is left for the next page.
ReconGivesUp(l) ==
    /\ recon.agent = l
    /\ recon' = ReconIdle
    /\ deletes' \in {deletes} \cup
                    (IF recon.pc = "delete" THEN {deletes \cup {l}} ELSE {})
    /\ UNCHANGED <<rec, alarm, doCalls, org, agents, creates, late, direct>>

-----------------------------------------------------------------------------
(* The thread's other lives in OrgDO: deleted; or, just made, pinned, its  *)
(* agent prewarmed and its first message sent.                             *)

DeleteThread ==
    /\ thread
    /\ thread' = FALSE
    /\ row' = "NoRow"
    /\ deletes' = IF row \in Agents THEN deletes \cup {row} ELSE deletes
    /\ UNCHANGED <<rec, alarm, doCalls, agents, creates, late, recon, direct>>

Pin ==
    /\ Origin = "new" /\ thread /\ row = "NoRow"
    /\ row' = "Pinned"
    /\ UNCHANGED <<rec, alarm, doCalls, thread, runtime, late, recon, direct>>

\* Each reads the row first and makes the thread's agent if it has none.
DirectReads(who) ==
    /\ direct[who] = "idle" /\ row = "Pinned"
    /\ direct' = [direct EXCEPT ![who] = "make"]
    /\ UNCHANGED <<rec, alarm, doCalls, org, runtime, late, recon>>

\* One Idempotency-Key for both: the second finds the first one's agent.
DirectMakes(who) ==
    /\ direct[who] = "make"
    /\ direct' = [direct EXCEPT ![who] = "record"]
    /\ agents' = [agents EXCEPT ![Direct] = "live"]
    /\ UNCHANGED <<rec, alarm, doCalls, org, creates, deletes, late, recon>>

\* prewarmThreadAgent claims, ensureConfiguredAgent upserts.
DirectRecords(who) ==
    /\ direct[who] = "record"
    /\ direct' = [direct EXCEPT ![who] = "done"]
    /\ row' = CASE who = "prewarm" -> RowAfterClaim(Direct)
                [] who = "send" -> IF thread THEN Direct ELSE row
    /\ UNCHANGED <<rec, alarm, doCalls, thread, runtime, late, recon>>

-----------------------------------------------------------------------------
Init ==
    /\ rec = NoRec /\ alarm = FALSE
    /\ att = [l \in Leases |-> "idle"]
    /\ commits = {} /\ dels = {}
    /\ thread = TRUE /\ row = "NoRow"
    /\ agents = [a \in Agents |-> "none"]
    /\ creates = {} /\ deletes = {} /\ late = {}
    /\ recon = ReconIdle
    /\ direct = [who \in {"prewarm", "send"} |-> "idle"]

Attempt(l) == \/ StartLease(l) \/ ExportFails(l) \/ SendCreate(l)
              \/ CreateAnswered(l) \/ CreateFails(l)
              \/ ArchiveKept(l) \/ ArchiveFails(l)

Commit(c) == \/ OrgClaims(c) \/ ClaimFails(c) \/ ClaimTimesOut(c)
             \/ ReadBack(c) \/ ReadBackFails(c) \/ CommitAnswered(c)

Delete(t) == \/ DeleteReadsRow(t) \/ DeleteChecks(t)
             \/ DeleteAnswered(t) \/ DeleteFails(t)

Reconcile(l) == \/ ReconLists(l) \/ ReconReadsRow(l)
                \/ ReconDeletes(l) \/ ReconGivesUp(l)

Rival(who) == DirectReads(who) \/ DirectMakes(who) \/ DirectRecords(who)

Next ==
    \/ \E l \in Leases : Attempt(l)
    \/ \E c \in commits : Commit(c)
    \/ \E t \in dels : Delete(t)
    \/ RequestFindsExpired \/ RequestRedrives
    \/ LeaseRunsOut \/ BackoffEnds \/ KeySettles \/ AlarmFires \/ Restart
    \/ \E l \in Leases : LateClaim(l) \/ RuntimeCreates(l) \/ Reconcile(l)
    \/ \E a \in Agents : RuntimeDeletes(a)
    \/ DeleteThread \/ Pin
    \/ \E who \in {"prewarm", "send"} : Rival(who)

Spec == Init /\ [][Next]_vars

-----------------------------------------------------------------------------
(* What the calls may not do.                                              *)

Phases == {"none", "leased", "committing", "moved", "failed"}
MaybeLease == Leases \cup {None}

\* A lease in the three phases that keep one; another path's agent only once moved.
Records ==
    {r \in [phase : Phases, lease : MaybeLease, live : BOOLEAN, key : BOOLEAN,
            agent : Agents \cup {None}, orphan : MaybeLease, okey : MaybeLease,
            settled : BOOLEAN, retry : {"due", "waiting", "never"}] :
        /\ r.lease = None <=> r.phase \in {"none", "failed"}
        /\ r.phase # "moved" => r.agent \in MaybeLease}
CommitCalls == [lease : Leases, pc : {"claim", "readback", "answered"},
                out : Agents \cup {None, "NoRow", "Pinned", "Gone"}]
DeleteCalls == [owner : {"clean", "attempt", "spare"}, lease : MaybeLease,
                orphan : MaybeLease, okey : MaybeLease, cand : Leases,
                next : MaybeLease, pc : {"read", "check", "delete"},
                held : Agents \cup {None}, out : {"done", "settling", "failed"}]

\* Every variable has its type: the record is one of the five phases', every
\* call under way is at one of its awaits.
TypeOK ==
    /\ rec \in Records /\ alarm \in BOOLEAN /\ thread \in BOOLEAN
    /\ att \in [Leases -> {"idle", "clear", "export", "create", "archive", "over"}]
    /\ commits \subseteq CommitCalls
    /\ dels \subseteq DeleteCalls
    /\ row \in Agents \cup {"NoRow", "Pinned"}
    /\ agents \in [Agents -> {"none", "live", "deleted"}]
    /\ creates \subseteq Leases /\ deletes \subseteq Agents /\ late \subseteq Leases
    /\ recon \in [agent : MaybeLease, pc : {"idle", "row", "delete"}]
    /\ direct \in [{"prewarm", "send"} -> {"idle", "make", "record", "done"}]

\* A deletion of agent a is on its way and will not look at the row again.
Condemned(a) == \/ a \in deletes
                \/ \E t \in dels : t.pc = "delete" /\ t.cand = a
                \/ recon = ReconAt(a, "delete")

\* "No agent the thread's runtime row holds is ever deleted": the row's agent
\* is there, and no deletion of it is on its way, whichever of the clean-up,
\* the spare's deletion and the reconciler read the row how long ago.
RowAgentSafe == row \in Agents => agents[row] = "live" /\ ~Condemned(row)

\* The agent of a move that may still commit, under its lease or past it, is
\* not being deleted: the reconciler and the clean-up of an earlier attempt
\* never reach it.
MovingAgentSafe ==
    thread /\ rec.phase \in {"leased", "committing"} =>
        agents[rec.lease] # "deleted" /\ ~Condemned(rec.lease)

\* "The row is only ever claimed for one agent": while the thread exists, every
\* claim under way, and every one OrgDO may still carry out, is for the agent
\* the DO holds the thread for.
ClaimsAgree ==
    thread => \A l \in late \cup {c.lease : c \in {d \in commits : d.pc = "claim"}} :
                 rec.phase \in {"committing", "moved"} /\ rec.lease = l

\* A thread whose move is final runs on the runtime: its row holds an agent,
\* the one the DO recorded.
MovedHasAgent == rec.phase = "moved" /\ thread => row = rec.agent

\* Past prepare() nothing undoes the move but the thread's deletion, whatever
\* stale answer or second call comes in, and a move that is final stays so.
CommitStands ==
    [][ /\ rec.phase = "moved" => UNCHANGED rec
        /\ rec.phase = "committing" /\ thread =>
              rec'.phase \in {"committing", "moved"} /\ rec'.lease = rec.lease ]_vars

\* The record answers for l's agent.
AnswersFor(l) ==
    \/ l \in {rec.orphan, rec.okey}
    \/ rec.phase = "leased" /\ rec.lease = l /\ (rec.key \/ rec.agent = l)
    \/ rec.phase = "committing" /\ rec.lease = l

\* What a move made is not lost track of: the record stops answering for an
\* agent only when it is gone, or moved to, or its deletion is under way,
\* or its cut-off create has not shown up by the time the key settles.
LeftoversKept ==
    [][ \A l \in Leases : AnswersFor(l) /\ ~AnswersFor(l)' =>
            \/ agents'[l] = "deleted"
            \/ rec'.phase = "moved" /\ rec'.agent = l
            \/ \E t \in dels' : t.cand = l
            \/ rec.okey = l /\ rec.settled ]_vars

-----------------------------------------------------------------------------
(* The move implements the thread's home.                                  *)

HomeOf == IF ~thread THEN "gone" ELSE IF row \in Agents THEN "runtime" ELSE "here"
DeadAgents == {a \in Agents : agents[a] = "deleted"}

Home == INSTANCE ThreadHome
            WITH NoAgent <- None, home <- HomeOf, agent <- HeldByRow, dead <- DeadAgents

\* A thread the old loop ran is given one agent, once and for good, that was
\* never destroyed before and never is while the thread exists.
ImplementsHome == Home!Spec

-----------------------------------------------------------------------------
(* The alarm fires once it is set, time passes, OrgDO and the runtime      *)
(* answer sooner or later.  The reconciler is an admin endpoint, not a     *)
(* schedule: NoAgentLeft leans on an operator who runs it now and again.   *)

Fairness ==
    /\ WF_vars(LeaseRunsOut) /\ WF_vars(AlarmFires)
    /\ SF_vars(\E c \in commits : OrgClaims(c))
    /\ WF_vars(\E c \in commits : ReadBack(c) \/ ReadBackFails(c))
    /\ WF_vars(\E c \in commits : CommitAnswered(c))
    /\ SF_vars(\E c \in commits : c.out # "NoRow" /\ CommitAnswered(c))
    /\ \A l \in Leases : /\ SF_vars(ReconLists(l))
                         /\ SF_vars(ReconReadsRow(l))
                         /\ SF_vars(ReconDeletes(l))

FairSpec == Spec /\ Fairness

\* A thread is not held for ever: a lease ends in a commit or an undone move,
\* a commit in a move or a deleted thread.
MoveEnds == rec.phase \in {"leased", "committing"} ~>
                rec.phase \notin {"leased", "committing"}

\* No agent is left behind, if the reconciler is run now and again: one the
\* thread does not end up with is deleted in the end, unless the thread is.
NoAgentLeft ==
    \A l \in Leases : agents[l] = "live" /\ row # l ~>
                         agents[l] = "deleted" \/ row = l \/ ~thread
=============================================================================
