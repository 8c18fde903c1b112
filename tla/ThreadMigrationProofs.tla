------------------------ MODULE ThreadMigrationProofs ------------------------
(***************************************************************************)
(* Proofs about ThreadMigration, for any number of attempts.               *)
(***************************************************************************)
EXTENDS ThreadMigration, TLAPS

(* The record's constructors make records, whatever they are given.        *)
LEMMA RecordsType ==
    ASSUME rec \in Records
    PROVE  /\ NoRec \in Records
           /\ NoLeftovers(rec) \in Records
           /\ \A l \in Leases : Leased(l, rec) \in Records
           /\ \A l \in Leases : Committing(l) \in Records
           /\ \A l \in Leases, a \in Agents : Moved(l, a) \in Records
           /\ \A o, k \in MaybeLease, s \in BOOLEAN, w \in {"due", "waiting", "never"} :
                Failed(o, k, s, w) \in Records
<1>. USE NamesAssumption
<1>1. NoRec \in Records
  BY DEF Records, NoRec, MaybeLease, Agents, Phases
<1>2. NoLeftovers(rec) \in Records
  BY DEF Records, NoLeftovers, MaybeLease, Agents, Phases
<1>3. ASSUME NEW l \in Leases PROVE Leased(l, rec) \in Records
  BY DEF Records, NoRec, MaybeLease, Agents, Phases, Leased
<1>4. ASSUME NEW l \in Leases PROVE Committing(l) \in Records
  BY DEF Records, NoRec, MaybeLease, Agents, Phases, Committing
<1>5. ASSUME NEW l \in Leases, NEW a \in Agents PROVE Moved(l, a) \in Records
  BY DEF Records, NoRec, MaybeLease, Agents, Phases, Moved
<1>6. ASSUME NEW o \in MaybeLease, NEW k \in MaybeLease, NEW s \in BOOLEAN,
             NEW w \in {"due", "waiting", "never"}
      PROVE  Failed(o, k, s, w) \in Records
  <2>. DEFINE Shape == [phase : Phases, lease : MaybeLease, live : BOOLEAN, key : BOOLEAN,
                        agent : Agents \cup {None}, orphan : MaybeLease, okey : MaybeLease,
                        settled : BOOLEAN, retry : {"due", "waiting", "never"}]
  <2>1. NoRec \in Shape
    BY <1>1 DEF Records
  <2>2. /\ Failed(o, k, s, w).phase = "failed"
        /\ Failed(o, k, s, w).lease = None /\ Failed(o, k, s, w).agent = None
    BY DEF Failed, NoRec
  <2>3. Failed(o, k, s, w) \in Shape
    BY <1>6, <2>1 DEF Failed, Phases
  <2>. QED BY <2>2, <2>3 DEF Records, MaybeLease
<1>. QED BY <1>1, <1>2, <1>3, <1>4, <1>5, <1>6

(* The calls deleteLeftovers() is started with.                            *)
LEMMA LeftoversType ==
    ASSUME NEW owner \in {"clean", "attempt", "spare"}, NEW l \in MaybeLease,
           NEW o \in MaybeLease, NEW k \in MaybeLease
    PROVE  Leftovers(owner, l, o, k) \subseteq DeleteCalls
BY DEF Leftovers, Deleting, DeleteCalls, MaybeLease, Agents

LEMMA FailType ==
    ASSUME TypeOK, NEW l, Fail(l)
    PROVE  /\ rec' \in Records
           /\ dels' \subseteq DeleteCalls
<1>1. CASE rec.phase = "leased" /\ rec.lease = l
  <2>0. /\ rec.agent \in MaybeLease /\ rec.orphan \in MaybeLease
        /\ rec.okey \in MaybeLease /\ rec.lease \in MaybeLease /\ rec.settled \in BOOLEAN
     BY <1>1 DEF TypeOK, Records
  <2>1. FailedLease \in Records
     BY <2>0, RecordsType DEF FailedLease, TypeOK
  <2>2. FailedLease.agent = None
     BY DEF FailedLease, Failed, NoRec
  <2>3. CleanUp(FailedLease) \subseteq DeleteCalls
     BY <2>1, LeftoversType DEF CleanUp, Records, MaybeLease
  <2>. QED BY <1>1, <2>1, <2>2, <2>3 DEF Fail, TypeOK, MaybeLease
<1>2. CASE ~(rec.phase = "leased" /\ rec.lease = l)
  BY <1>2 DEF Fail, TypeOK
<1>. QED BY <1>1, <1>2

LEMMA AttemptType ==
    ASSUME TypeOK, NEW l \in Leases, Attempt(l)
    PROVE  TypeOK'
<1>1. CASE StartLease(l)
  <2>1. rec' \in Records /\ rec'.agent \in MaybeLease
    BY <1>1, RecordsType DEF StartLease, TypeOK, Leased, NoRec, MaybeLease
  <2>2. dels' \subseteq DeleteCalls
    BY <1>1, LeftoversType DEF StartLease, TypeOK, Records, MaybeLease
  <2>. QED BY <1>1, <2>1, <2>2 DEF TypeOK, StartLease, org, runtime
<1>2. CASE ExportFails(l)
  BY <1>2, FailType DEF TypeOK, ExportFails, End, org, runtime
<1>3. CASE SendCreate(l)
  <2>1. rec' \in Records
    <3>1. CASE rec' = [rec EXCEPT !.key = TRUE]
      BY <3>1 DEF TypeOK, Records
    <3>2. CASE UNCHANGED rec
      BY <3>2 DEF TypeOK
    <3>. QED BY <1>3, <3>1, <3>2 DEF SendCreate
  <2>2. /\ att' \in [Leases -> {"idle", "clear", "export", "create", "archive", "over"}]
        /\ alarm' \in BOOLEAN /\ creates' \subseteq Leases
    <3>1. CASE LeaseHeld(l) BY <1>3, <3>1 DEF TypeOK, SendCreate
    <3>2. CASE ~LeaseHeld(l) BY <1>3, <3>2 DEF TypeOK, SendCreate, End
    <3>. QED BY <3>1, <3>2
  <2>. QED BY <1>3, <2>1, <2>2 DEF TypeOK, SendCreate, org
<1>4. CASE CreateAnswered(l)
  <2>1. rec' \in Records
    <3>1. CASE rec' = Committing(l)
      BY <3>1, RecordsType DEF TypeOK, Committing, NoRec, MaybeLease
    <3>2. CASE rec' = [rec EXCEPT !.agent = l]
      BY <3>2 DEF TypeOK, Records, Agents, MaybeLease
    <3>3. CASE UNCHANGED rec
      BY <3>3 DEF TypeOK
    <3>. QED BY <1>4, <3>1, <3>2, <3>3 DEF CreateAnswered, HandOver
  <2>2. commits' \subseteq CommitCalls
    BY <1>4 DEF CreateAnswered, HandOver, TypeOK, Claim, CommitCalls
  <2>. QED BY <1>4, <2>1, <2>2 DEF TypeOK, CreateAnswered, HandOver, End, org, runtime
<1>5. CASE CreateFails(l)
  BY <1>5, FailType DEF TypeOK, CreateFails, End, org
<1>6. CASE ArchiveKept(l)
  <2>1. CASE HandOver(l) /\ alarm' = TRUE
    <3>1. rec' \in Records /\ rec'.agent \in MaybeLease
      BY <2>1, RecordsType DEF HandOver, TypeOK, Committing, NoRec, MaybeLease
    <3>2. commits' \subseteq CommitCalls
      BY <2>1 DEF HandOver, TypeOK, Claim, CommitCalls
    <3>. QED BY <1>6, <2>1, <3>1, <3>2 DEF TypeOK, ArchiveKept, HandOver, End, org, runtime
  <2>2. CASE Fail(l) /\ End(l) /\ UNCHANGED <<alarm, commits>>
    BY <1>6, <2>2, FailType DEF TypeOK, ArchiveKept, End, org, runtime
  <2>. QED BY <1>6, <2>1, <2>2 DEF ArchiveKept
<1>7. CASE ArchiveFails(l)
  BY <1>7, FailType DEF TypeOK, ArchiveFails, End, org, runtime
<1>. QED BY <1>1, <1>2, <1>3, <1>4, <1>5, <1>6, <1>7 DEF Attempt

LEMMA CommitType ==
    ASSUME TypeOK, NEW c \in commits, Commit(c)
    PROVE  TypeOK'
<1>0. c \in CommitCalls BY DEF TypeOK
<1>1. CASE OrgClaims(c)
  <2>1. commits' \subseteq CommitCalls
    BY <1>0, <1>1 DEF OrgClaims, Answer, ClaimAnswer, RowAfterClaim, TypeOK, CommitCalls, Agents
  <2>2. row' \in Agents \cup {"NoRow", "Pinned"}
    BY <1>0, <1>1 DEF OrgClaims, RowAfterClaim, TypeOK, CommitCalls, Agents
  <2>. QED BY <1>1, <2>1, <2>2 DEF TypeOK, OrgClaims, runtime
<1>2. CASE ClaimFails(c)
  <2>1. commits' \subseteq CommitCalls
    BY <1>0, <1>2 DEF ClaimFails, TypeOK, CommitCalls
  <2>2. row' \in Agents \cup {"NoRow", "Pinned"}
    BY <1>0, <1>2 DEF ClaimFails, RowAfterClaim, TypeOK, CommitCalls, Agents
  <2>. QED BY <1>2, <2>1, <2>2 DEF TypeOK, ClaimFails, runtime
<1>3. CASE ClaimTimesOut(c)
  <2>1. alarm' \in BOOLEAN /\ commits' \subseteq CommitCalls /\ late' \subseteq Leases
    BY <1>0, <1>3 DEF TypeOK, ClaimTimesOut, Pending, StillCommitting, CommitCalls
  <2>. QED BY <1>3, <2>1 DEF TypeOK, ClaimTimesOut, org, runtime
<1>4. CASE ReadBack(c)
  <2>1. commits' \subseteq CommitCalls
    BY <1>0, <1>4 DEF ReadBack, Answer, TypeOK, CommitCalls
  <2>. QED BY <1>4, <2>1 DEF TypeOK, ReadBack, org, runtime
<1>5. CASE ReadBackFails(c)
  <2>1. alarm' \in BOOLEAN /\ commits' \subseteq CommitCalls
    BY <1>5 DEF TypeOK, ReadBackFails, Pending, StillCommitting
  <2>. QED BY <1>5, <2>1 DEF TypeOK, ReadBackFails, org, runtime
<1>6. CASE CommitAnswered(c)
  <2>1. rec' \in Records
    <3>1. CASE UNCHANGED rec
      BY <3>1 DEF TypeOK
    <3>2. CASE rec' = Failed(c.lease, None, FALSE, "never")
      BY <1>0, <3>2, RecordsType DEF TypeOK, CommitCalls, Failed, NoRec, MaybeLease
    <3>3. CASE rec' = Moved(c.lease, c.lease)
      BY <1>0, <3>3, RecordsType DEF TypeOK, CommitCalls, Moved, NoRec, MaybeLease, Agents
    <3>4. CASE rec' = Moved(c.lease, IF c.out \in Agents THEN c.out ELSE c.lease)
      BY <1>0, <3>4, RecordsType DEF TypeOK, CommitCalls, Moved, NoRec, MaybeLease, Agents
    <3>. QED BY <1>6, <3>1, <3>2, <3>3, <3>4 DEF CommitAnswered
  <2>2. dels' \subseteq DeleteCalls
    <3>1. CleanUp(Failed(c.lease, None, FALSE, "never")) \subseteq DeleteCalls
      BY <1>0, LeftoversType DEF CleanUp, Failed, NoRec, CommitCalls, MaybeLease
    <3>2. Spare(c.lease) \subseteq DeleteCalls
      BY <1>0 DEF Spare, Deleting, DeleteCalls, CommitCalls, MaybeLease
    <3>. QED BY <1>6, <3>1, <3>2 DEF CommitAnswered, TypeOK
  <2>3. alarm' \in BOOLEAN /\ commits' \subseteq CommitCalls
    BY <1>6 DEF CommitAnswered, Pending, StillCommitting, TypeOK
  <2>. QED BY <1>6, <2>1, <2>2, <2>3 DEF TypeOK, CommitAnswered, org, runtime
<1>. QED BY <1>1, <1>2, <1>3, <1>4, <1>5, <1>6 DEF Commit

(* Where Finish() leaves the calls' types, whatever the outcome.            *)
LEMMA FinishType ==
    ASSUME TypeOK, NEW t \in dels, NEW out \in {"done", "settling", "failed"},
           Finish(t, out)
    PROVE  /\ rec' \in Records
           /\ alarm' \in BOOLEAN /\ dels' \subseteq DeleteCalls
           /\ att' \in [Leases -> {"idle", "clear", "export", "create", "archive", "over"}]
<1>1. dels' \subseteq DeleteCalls BY DEF Finish, TypeOK
<1>2. t \in DeleteCalls BY DEF TypeOK
<1>3. /\ NoLeftovers(rec) \in Records
      /\ NoLeftovers(rec).agent = rec.agent /\ NoLeftovers(rec).phase = rec.phase
  BY RecordsType DEF TypeOK, NoLeftovers, Records
<1>4. /\ Failed(rec.orphan, rec.okey, rec.settled, "waiting") \in Records
      /\ Failed(rec.orphan, rec.okey, rec.settled, "waiting").agent = None
  <2>1. rec.orphan \in MaybeLease /\ rec.okey \in MaybeLease /\ rec.settled \in BOOLEAN
    BY DEF TypeOK, Records
  <2>2. Failed(rec.orphan, rec.okey, rec.settled, "waiting").agent = None
    BY DEF Failed, NoRec
  <2>. QED BY <2>1, <2>2, RecordsType DEF TypeOK
<1>5. CASE t.owner = "clean"
  BY <1>1, <1>3, <1>5 DEF Finish, TypeOK
<1>6. CASE t.owner = "attempt"
  <2>1. CASE LeaseHeld(t.lease)
    <3>1. CASE out = "done"
      BY <1>1, <1>3, <1>6, <2>1, <3>1 DEF Finish, TypeOK
    <3>2. CASE out # "done"
      <4>1. /\ rec' = Failed(rec.orphan, rec.okey, rec.settled, "waiting")
            /\ alarm' = TRUE /\ End(t.lease)
        BY <1>6, <2>1, <3>2 DEF Finish
      <4>. QED BY <1>1, <1>4, <4>1 DEF End, TypeOK, MaybeLease
    <3>. QED BY <3>1, <3>2
  <2>2. CASE ~LeaseHeld(t.lease)
    BY <1>1, <1>6, <2>2 DEF Finish, End, TypeOK
  <2>. QED BY <2>1, <2>2
<1>7. CASE t.owner = "spare"
  BY <1>1, <1>7 DEF Finish, TypeOK
<1>. QED BY <1>2, <1>5, <1>6, <1>7 DEF DeleteCalls

LEMMA AdvanceType ==
    ASSUME TypeOK, NEW t \in dels, NEW out \in {"done", "settling", "failed"},
           Advance(t, out)
    PROVE  /\ rec' \in Records
           /\ alarm' \in BOOLEAN /\ dels' \subseteq DeleteCalls
           /\ att' \in [Leases -> {"idle", "clear", "export", "create", "archive", "over"}]
<1>1. CASE Finish(t, out) BY <1>1, FinishType
<1>2. CASE Finish(t, "failed") BY <1>2, FinishType
<1>3. CASE /\ t.next # None
           /\ Replace(t, [t EXCEPT !.cand = t.next, !.next = None, !.pc = "read",
                                   !.held = None, !.out = out])
  <2>1. [t EXCEPT !.cand = t.next, !.next = None, !.pc = "read",
                  !.held = None, !.out = out] \in DeleteCalls
    <3>1. t \in DeleteCalls
      BY DEF TypeOK
    <3>2. t.next \in Leases
      BY <1>3, <3>1 DEF DeleteCalls, MaybeLease
    <3>3. None \in MaybeLease /\ None \in Agents \cup {None} /\ t.next \in MaybeLease
      BY <3>2 DEF MaybeLease
    <3>. QED BY <3>1, <3>2, <3>3 DEF DeleteCalls
  <2>. QED BY <1>3, <2>1 DEF Replace, TypeOK
<1>. QED BY <1>1, <1>2, <1>3 DEF Advance

LEMMA DeleteType ==
    ASSUME TypeOK, NEW t \in dels, Delete(t)
    PROVE  TypeOK'
<1>0. t \in DeleteCalls BY DEF TypeOK
<1>1. CASE DeleteReadsRow(t)
  <2>1. CASE Replace(t, [t EXCEPT !.pc = "check", !.held = HeldByRow])
    <3>1. [t EXCEPT !.pc = "check", !.held = HeldByRow] \in DeleteCalls
      BY <1>0 DEF DeleteCalls, HeldByRow
    <3>. QED BY <1>1, <2>1, <3>1 DEF TypeOK, DeleteReadsRow, Replace, org, runtime
  <2>2. CASE Finish(t, "failed")
    BY <1>1, <2>2, FinishType DEF TypeOK, DeleteReadsRow, org, runtime
  <2>. QED BY <1>1, <2>1, <2>2 DEF DeleteReadsRow
<1>2. CASE DeleteChecks(t)
  <2>1. CASE Replace(t, [t EXCEPT !.pc = "delete", !.held = None])
    <3>1. [t EXCEPT !.pc = "delete", !.held = None] \in DeleteCalls
      BY <1>0 DEF DeleteCalls
    <3>. QED BY <1>2, <2>1, <3>1 DEF TypeOK, DeleteChecks, Replace, org, runtime
  <2>2. CASE Finish(t, "failed")
    BY <1>2, <2>2, FinishType DEF TypeOK, DeleteChecks, org, runtime
  <2>3. CASE Advance(t, t.out)
    <3>1. t.out \in {"done", "settling", "failed"} BY <1>0 DEF DeleteCalls
    <3>. QED BY <1>2, <2>3, <3>1, AdvanceType DEF TypeOK, DeleteChecks, org, runtime
  <2>. QED BY <1>2, <2>1, <2>2, <2>3 DEF DeleteChecks
<1>3. CASE DeleteAnswered(t)
  <2>1. PICK out \in {"done", "settling", "failed"} : Advance(t, out)
    BY <1>0, <1>3 DEF DeleteAnswered, DeleteCalls
  <2>2. agents' \in [Agents -> {"none", "live", "deleted"}]
    BY <1>3 DEF DeleteAnswered, Destroyed, TypeOK
  <2>. QED BY <1>3, <2>1, <2>2, AdvanceType DEF TypeOK, DeleteAnswered, org
<1>4. CASE DeleteFails(t)
  <2>1. deletes' \subseteq Agents
    BY <1>0, <1>4 DEF DeleteFails, TypeOK, DeleteCalls, Agents
  <2>. QED BY <1>4, <2>1, AdvanceType DEF TypeOK, DeleteFails, org
<1>. QED BY <1>1, <1>2, <1>3, <1>4 DEF Delete

(* Requests, time, the alarm, restarts, the runtime, the reconciler and the *)
(* thread's other lives: everything that is no step of a call of the DO's.  *)
Environment ==
    \/ RequestFindsExpired \/ RequestRedrives
    \/ LeaseRunsOut \/ BackoffEnds \/ KeySettles \/ AlarmFires \/ Restart
    \/ \E l \in Leases : LateClaim(l) \/ RuntimeCreates(l) \/ Reconcile(l)
    \/ \E a \in Agents : RuntimeDeletes(a)
    \/ DeleteThread \/ Pin
    \/ \E who \in {"prewarm", "send"} : Rival(who)

LEMMA RowAfterClaimType ==
    ASSUME TypeOK, NEW a \in Agents
    PROVE  RowAfterClaim(a) \in Agents \cup {"NoRow", "Pinned"}
BY DEF RowAfterClaim, TypeOK

LEMMA ClaimType ==
    ASSUME TypeOK, rec.phase = "committing"
    PROVE  Claim(rec.lease) \in CommitCalls
BY DEF TypeOK, Records, MaybeLease, Claim, CommitCalls

LEMMA EnvironmentType ==
    ASSUME TypeOK, Environment
    PROVE  TypeOK'
<1>1. CASE RequestFindsExpired
  BY <1>1, FailType DEF TypeOK, RequestFindsExpired, org, runtime
<1>2. CASE RequestRedrives
  <2>1. commits' \subseteq CommitCalls
    BY <1>2, ClaimType DEF RequestRedrives, TypeOK
  <2>. QED BY <1>2, <2>1 DEF TypeOK, RequestRedrives, org, runtime
<1>3. CASE LeaseRunsOut
  <2>1. rec' \in Records /\ rec'.agent = rec.agent /\ rec'.phase = rec.phase
    BY <1>3 DEF TypeOK, LeaseRunsOut, Records
  <2>. QED BY <1>3, <2>1 DEF TypeOK, LeaseRunsOut, doCalls, org, runtime
<1>4. CASE BackoffEnds
  <2>1. rec' \in Records /\ rec'.agent = rec.agent /\ rec'.phase = rec.phase
    BY <1>4 DEF TypeOK, BackoffEnds, Records
  <2>. QED BY <1>4, <2>1 DEF TypeOK, BackoffEnds, doCalls, org, runtime
<1>5. CASE KeySettles
  <2>1. rec' \in Records /\ rec'.agent = rec.agent /\ rec'.phase = rec.phase
    BY <1>5 DEF TypeOK, KeySettles, Records
  <2>. QED BY <1>5, <2>1 DEF TypeOK, KeySettles, doCalls, org, runtime
<1>6. CASE AlarmFires
  <2>1. commits' \subseteq CommitCalls
    BY <1>6, ClaimType DEF AlarmFires, TypeOK
  <2>2. alarm' \in BOOLEAN
    BY <1>6 DEF AlarmFires, TypeOK, Records
  <2>3. rec' \in Records /\ dels' \subseteq DeleteCalls
    <3>1. CleanUp(rec) \subseteq DeleteCalls
      BY LeftoversType DEF CleanUp, TypeOK, Records, MaybeLease
    <3>. QED BY <1>6, <3>1, FailType DEF AlarmFires, TypeOK
  <2>. QED BY <1>6, <2>1, <2>2, <2>3 DEF TypeOK, AlarmFires, org, runtime
<1>7. CASE Restart
  <2>1. att' \in [Leases -> {"idle", "clear", "export", "create", "archive", "over"}]
    BY <1>7 DEF Restart, TypeOK
  <2>2. late' \subseteq Leases /\ deletes' \subseteq Agents /\ alarm' \in BOOLEAN
    BY <1>7 DEF Restart, TypeOK, CommitCalls, DeleteCalls, Agents, AlarmDue, HasLeftovers
  <2>. QED BY <1>7, <2>1, <2>2 DEF TypeOK, Restart, org
<1>8. ASSUME NEW l \in Leases, LateClaim(l) PROVE TypeOK'
  BY <1>8, RowAfterClaimType DEF TypeOK, LateClaim, doCalls, runtime, Agents
<1>9. ASSUME NEW l \in Leases, RuntimeCreates(l) PROVE TypeOK'
  BY <1>9 DEF TypeOK, RuntimeCreates, doCalls, org, Agents
<1>10. ASSUME NEW l \in Leases, Reconcile(l) PROVE TypeOK'
  <2>1. /\ recon' \in [agent : MaybeLease, pc : {"idle", "row", "delete"}]
        /\ agents' \in [Agents -> {"none", "live", "deleted"}]
        /\ deletes' \subseteq Agents
    BY <1>10 DEF Reconcile, ReconLists, ReconReadsRow, ReconDeletes, ReconGivesUp,
                 ReconAt, ReconIdle, Destroyed, TypeOK, runtime, MaybeLease, Agents
  <2>. QED BY <1>10, <2>1 DEF TypeOK, Reconcile, ReconLists, ReconReadsRow,
                 ReconDeletes, ReconGivesUp, doCalls, org, runtime
<1>11. ASSUME NEW a \in Agents, RuntimeDeletes(a) PROVE TypeOK'
  BY <1>11 DEF TypeOK, RuntimeDeletes, Destroyed, doCalls, org
<1>12. CASE DeleteThread
  BY <1>12 DEF TypeOK, DeleteThread, doCalls
<1>13. CASE Pin
  BY <1>13 DEF TypeOK, Pin, doCalls, runtime
<1>14. ASSUME NEW who \in {"prewarm", "send"}, Rival(who) PROVE TypeOK'
  <2>1. CASE DirectReads(who)
    BY <2>1 DEF TypeOK, DirectReads, doCalls, org, runtime
  <2>2. CASE DirectMakes(who)
    BY <2>2 DEF TypeOK, DirectMakes, doCalls, org, Agents
  <2>3. CASE DirectRecords(who)
    BY <2>3, RowAfterClaimType DEF TypeOK, DirectRecords, doCalls, runtime, Agents
  <2>. QED BY <1>14, <2>1, <2>2, <2>3 DEF Rival
<1>. QED BY <1>1, <1>2, <1>3, <1>4, <1>5, <1>6, <1>7, <1>8, <1>9, <1>10, <1>11,
            <1>12, <1>13, <1>14 DEF Environment

LEMMA NextSplits ==
    Next <=> \/ \E l \in Leases : Attempt(l)
             \/ \E c \in commits : Commit(c)
             \/ \E t \in dels : Delete(t)
             \/ Environment
BY Zenon DEF Next, Environment

LEMMA TypeStep ==
    ASSUME TypeOK, [Next]_vars
    PROVE  TypeOK'
<1>1. CASE Next
  BY <1>1, NextSplits, AttemptType, CommitType, DeleteType, EnvironmentType
<1>2. CASE UNCHANGED vars
  BY <1>2 DEF TypeOK, vars
<1>. QED BY <1>1, <1>2

LEMMA InitType ==
    ASSUME Init
    PROVE  TypeOK
<1>1. NoRec \in Records
  BY NamesAssumption DEF Records, NoRec, MaybeLease, Agents, Phases
<1>. QED BY <1>1 DEF Init, TypeOK, ReconIdle, ReconAt, MaybeLease

(* The state has its type in every reachable state: no interleaving of the  *)
(* DO's calls, restarts and the runtime leaves the record between phases.   *)
THEOREM TypeCorrect == Spec => []TypeOK
BY InitType, TypeStep, PTL DEF Spec

-----------------------------------------------------------------------------
(* The invariant that keeps the thread's agent.  A thread just made can be  *)
(* pinned and given an agent of its own while it is moved; of one the old   *)
(* loop ran, the invariant says more.                                       *)

OldLoop == Origin = "old"

\* The row of a thread the old loop ran only ever goes from none to the agent of
\* an attempt.
RowPart == /\ ~thread => row = "NoRow"
           /\ OldLoop => /\ row \in Leases \cup {"NoRow"}
                         /\ direct = [who \in {"prewarm", "send"} |-> "idle"]

\* An attempt that holds the thread was started, and its agent made under the
\* key it had recorded first.
RecPart ==
    /\ rec.phase = "committing" \/ (rec.phase = "moved" /\ OldLoop) => rec.agent = rec.lease
    /\ rec.agent \in {None, rec.lease} \/ (rec.phase = "moved" /\ rec.agent = Direct)
    /\ rec.lease # None => att[rec.lease] # "idle"
    /\ rec.phase = "leased" /\ ~rec.key =>
          agents[rec.lease] = "none" /\ rec.lease \notin creates
    /\ \A l \in Leases : /\ att[l] \in {"idle", "clear", "export"} =>
                               agents[l] = "none" /\ l \notin creates
                         /\ att[l] = "archive" \/ rec.agent = l => agents[l] # "none"

\* Agents someone may delete, or has deleted: never the one that holds the
\* thread, nor one still to be made.  A thread just made may be moved to its own
\* agent, and the attempt's is then the spare one.
Loose(l) == \/ l \in {rec.orphan, rec.okey, recon.agent} \cup deletes
            \/ \E t \in dels : l \in {t.cand, t.next}
            \/ agents[l] = "deleted"
Needed(l) == rec.lease = l /\ (rec.phase = "moved" => OldLoop)
LoosePart == \A l \in Leases :
                Loose(l) => att[l] # "idle" /\ (thread => ~Needed(l))

\* Every claim made, under way or delayed is for the lease past prepare().
Claiming(l) == row = l \/ l \in late \/ \E c \in commits : c.lease = l
ClaimPart == thread => \A l \in Leases : Claiming(l) =>
                rec.phase \in {"committing", "moved"} /\ rec.lease = l

\* An answer to a commit() is no row, no thread, or the agent it claimed; that of
\* a thread just made may also be its pin or its own agent.
AnswerOK(c) == /\ c.out \in {None, "NoRow", "Pinned", "Gone", Direct, c.lease}
               /\ c.pc = "answered" => c.out # None
               /\ c.out = "Gone" => ~thread
               /\ OldLoop => /\ c.out \notin {"Pinned", Direct}
                             /\ c.out = c.lease /\ thread => row = c.lease
AnswerPart ==
    /\ \A c \in commits : AnswerOK(c)
    /\ OldLoop /\ rec.phase = "moved" /\ thread => row = rec.lease

\* An attempt's own clean-up is the only one it has, and runs before all else.
TaskPart ==
    /\ \A t \in dels : t.owner = "attempt" =>
          t.lease \in Leases /\ att[t.lease] = "clear"
    /\ \A t, u \in dels : t.owner = "attempt" /\ u.owner = "attempt" /\ t.lease = u.lease
                          => t = u

AgentInv == RowPart /\ RecPart /\ LoosePart /\ ClaimPart /\ AnswerPart

Inv == AgentInv /\ TaskPart

-----------------------------------------------------------------------------
(* Most steps neither claim the row nor hand the thread over: they let the  *)
(* record be, forget leftovers, or undo a lease.                            *)

Keeps == /\ rec'.phase = rec.phase /\ rec'.lease = rec.lease
         /\ rec'.agent = rec.agent /\ rec'.key = rec.key
         /\ {rec'.orphan, rec'.okey} \subseteq {rec.orphan, rec.okey, None}

Undoes == /\ rec.phase = "leased" /\ rec'.phase = "failed" /\ rec'.agent = None
          /\ {rec'.orphan, rec'.okey} \subseteq {rec.lease, rec.orphan, rec.okey, None}

QuietAttempts ==
    \A l \in Leases : \/ att'[l] = att[l]
                      \/ att[l] # "idle" /\ att'[l] = "over"
                      \/ att[l] = "clear" /\ att'[l] = "export"

QuietAgents ==
    /\ creates' \subseteq creates
    /\ \A a \in Agents : \/ agents'[a] = agents[a]
                         \/ Loose(a) /\ agents[a] = "live" /\ agents'[a] = "deleted"
    /\ \A a \in deletes' : a \in deletes \/ Loose(a)

QuietCalls ==
    /\ \A t \in dels' : \A l \in {t.cand, t.next} \cap Leases :
          l \in {rec'.orphan, rec'.okey} \/ \E u \in dels : l \in {u.cand, u.next}
    /\ \A c \in commits' : c \in commits \/ (rec.phase = "committing" /\ c = Claim(rec.lease))

Quiet == /\ Keeps \/ Undoes
         /\ QuietAttempts /\ QuietAgents /\ QuietCalls
         /\ UNCHANGED <<thread, row, late, recon, direct>>

LEMMA QuietInv ==
    ASSUME TypeOK, TypeOK', AgentInv, Quiet
    PROVE  AgentInv'
<1>. USE NamesAssumption
<1>0. \A l \in Leases : att[l] # "idle" => att'[l] # "idle"
  BY DEF Quiet, QuietAttempts
<1>1. RowPart'
  BY DEF Quiet, AgentInv, RowPart
<1>2. RecPart'
  <2>1. \A l \in Leases : /\ agents[l] = "none" <=> agents'[l] = "none"
                          /\ l \notin creates => l \notin creates'
    BY DEF Quiet, QuietAgents, Agents
  <2>2. rec.lease \in MaybeLease /\ rec'.lease \in MaybeLease
    BY DEF TypeOK, Records
  <2>5. \A l \in Leases : att'[l] \in {"idle", "clear", "export"} =>
                               agents[l] = "none" /\ l \notin creates
    <3>1. \A l \in Leases : att'[l] \in {"idle", "clear", "export"} =>
                               att[l] \in {"idle", "clear", "export"}
      BY DEF Quiet, QuietAttempts
    <3>. QED BY <3>1 DEF AgentInv, RecPart
  <2>3. CASE Keeps
    <3>1. /\ rec'.phase = "committing" \/ (rec'.phase = "moved" /\ OldLoop) => rec'.agent = rec'.lease
          /\ rec'.agent \in {None, rec'.lease} \/ (rec'.phase = "moved" /\ rec'.agent = Direct)
      BY <2>3 DEF Keeps, AgentInv, RecPart
    <3>2. rec'.lease # None => att'[rec'.lease] # "idle"
      BY <1>0, <2>2, <2>3 DEF Keeps, AgentInv, RecPart, MaybeLease
    <3>3. ASSUME rec'.phase = "leased", ~rec'.key
          PROVE  agents'[rec'.lease] = "none" /\ rec'.lease \notin creates'
      <4>1. rec.phase = "leased" /\ ~rec.key /\ rec'.lease = rec.lease
        BY <2>3, <3>3 DEF Keeps
      <4>2. rec.lease \in Leases
        BY <2>2, <4>1 DEF TypeOK, Records, MaybeLease
      <4>3. agents[rec.lease] = "none" /\ rec.lease \notin creates
        BY <4>1 DEF AgentInv, RecPart
      <4>. QED BY <2>1, <4>1, <4>2, <4>3
    <3>4. \A l \in Leases : att'[l] \in {"idle", "clear", "export"} =>
                               agents'[l] = "none" /\ l \notin creates'
      BY <2>1, <2>5
    <3>5. \A l \in Leases : att'[l] = "archive" \/ rec'.agent = l => agents'[l] # "none"
      BY <2>1, <2>3 DEF Keeps, Quiet, QuietAttempts, AgentInv, RecPart
    <3>. QED BY <3>1, <3>2, <3>3, <3>4, <3>5 DEF RecPart
  <2>4. CASE Undoes
    <3>1. rec'.phase = "failed" /\ rec'.lease = None /\ rec'.agent = None
      BY <2>4 DEF Undoes, TypeOK, Records
    <3>2. \A l \in Leases : att'[l] \in {"idle", "clear", "export"} =>
                               agents'[l] = "none" /\ l \notin creates'
      BY <2>1, <2>5
    <3>3. \A l \in Leases : att'[l] = "archive" => agents'[l] # "none"
      BY <2>1 DEF Quiet, QuietAttempts, AgentInv, RecPart
    <3>. QED BY <3>1, <3>2, <3>3 DEF RecPart, Agents
  <2>. QED BY <2>3, <2>4 DEF Quiet
<1>3. LoosePart'
  <2>. SUFFICES ASSUME NEW l \in Leases, Loose(l)'
                PROVE  att'[l] # "idle" /\ (thread' => ~Needed(l)')
    BY DEF LoosePart
  <2>1. CASE Loose(l)
    <3>1. att[l] # "idle" /\ (thread => ~Needed(l))
      BY <2>1 DEF AgentInv, LoosePart
    <3>2. CASE Keeps BY <1>0, <3>1, <3>2 DEF Quiet, Keeps, Needed
    <3>3. CASE Undoes
      BY <1>0, <3>1, <3>3 DEF Quiet, Undoes, TypeOK, Records, Agents, Needed
    <3>. QED BY <3>2, <3>3 DEF Quiet
  <2>2. CASE ~Loose(l)
    <3>1. l \in {rec'.orphan, rec'.okey}
      BY <2>2 DEF Loose, Quiet, QuietAgents, QuietCalls, Agents
    <3>2. Undoes /\ l = rec.lease
      BY <2>2, <3>1 DEF Loose, Quiet, Keeps, Undoes, Agents
    <3>. QED BY <1>0, <3>2 DEF Undoes, AgentInv, RecPart, TypeOK, Records, Agents, Needed
  <2>. QED BY <2>1, <2>2
<1>4. ClaimPart'
  <2>. SUFFICES ASSUME thread', NEW l \in Leases, Claiming(l)'
                PROVE  rec'.phase \in {"committing", "moved"} /\ rec'.lease = l
    BY DEF ClaimPart
  <2>1. Claiming(l) \/ (rec.phase = "committing" /\ rec.lease = l)
    BY DEF Claiming, Quiet, QuietCalls, Claim
  <2>2. rec.phase \in {"committing", "moved"} /\ rec.lease = l
    BY <2>1 DEF AgentInv, ClaimPart, Quiet
  <2>. QED BY <2>2 DEF Quiet, Keeps, Undoes
<1>5. AnswerPart'
  <2>1. ASSUME NEW c \in commits'
        PROVE  AnswerOK(c)'
    <3>1. CASE c \in commits BY <3>1 DEF AgentInv, AnswerPart, AnswerOK, Quiet
    <3>2. CASE rec.phase = "committing" /\ c = Claim(rec.lease)
      BY <3>2 DEF Claim, TypeOK, Records, AnswerOK, Agents, MaybeLease
    <3>. QED BY <3>1, <3>2 DEF Quiet, QuietCalls
  <2>2. OldLoop /\ rec'.phase = "moved" /\ thread' => row' = rec'.lease
    BY DEF AgentInv, AnswerPart, Quiet, Keeps, Undoes
  <2>. QED BY <2>1, <2>2 DEF AnswerPart
<1>. QED BY <1>1, <1>2, <1>3, <1>4, <1>5 DEF AgentInv

\* An attempt's clean-up goes on, or ends; nothing else takes it up.
QuietTasks ==
    /\ \A t \in dels' : t.owner = "attempt" => t \in dels
    /\ \A l \in Leases : att[l] = "clear" => att'[l] = "clear"

LEMMA QuietTasksKept ==
    ASSUME TaskPart, QuietTasks
    PROVE  TaskPart'
BY DEF TaskPart, QuietTasks

-----------------------------------------------------------------------------
(* What the helpers do to the record and the calls.                         *)

LEMMA CleanUpTasks ==
    ASSUME TypeOK, NEW r \in Records, NEW t \in CleanUp(r)
    PROVE  /\ t.owner = "clean"
           /\ {t.cand, t.next} \subseteq {r.orphan, r.okey, None}
BY NamesAssumption DEF CleanUp, Leftovers, Deleting

LEMMA FailQuiet ==
    ASSUME TypeOK, AgentInv, NEW l, Fail(l)
    PROVE  /\ Keeps \/ Undoes
           /\ \A t \in dels' : \/ t \in dels
                               \/ /\ t.owner = "clean"
                                  /\ {t.cand, t.next} \subseteq {rec'.orphan, rec'.okey, None}
<1>1. CASE rec.phase = "leased" /\ rec.lease = l
  <2>1. rec' = FailedLease /\ dels' = dels \cup CleanUp(FailedLease)
    BY <1>1 DEF Fail
  <2>2. FailedLease \in Records
    BY <2>1, FailType
  <2>3. Undoes
    BY <1>1, <2>1, NamesAssumption
       DEF Undoes, FailedLease, Failed, NoRec, AgentInv, RecPart, TypeOK, Records, MaybeLease, Agents
  <2>4. ASSUME NEW t \in dels', t \notin dels
        PROVE  t.owner = "clean" /\ {t.cand, t.next} \subseteq {rec'.orphan, rec'.okey, None}
    <3>1. t \in CleanUp(FailedLease)
      BY <2>1, <2>4
    <3>. QED BY <2>1, <2>2, <3>1, CleanUpTasks
  <2>. QED BY <2>3, <2>4
<1>2. CASE ~(rec.phase = "leased" /\ rec.lease = l)
  BY <1>2 DEF Fail, Keeps
<1>. QED BY <1>1, <1>2

LEMMA FinishQuiet ==
    ASSUME TypeOK, Inv, NEW t \in dels, NEW out, Finish(t, out)
    PROVE  /\ Keeps \/ Undoes
           /\ QuietAttempts
           /\ dels' = dels \ {t}
           /\ \A l \in Leases : att'[l] = att[l] \/ (t.owner = "attempt" /\ t.lease = l)
<1>. USE NamesAssumption
<1>0. dels' = dels \ {t}
  BY DEF Finish
<1>1. t \in DeleteCalls
  BY DEF TypeOK
<1>2. CASE UNCHANGED <<rec, att>>
  BY <1>0, <1>2 DEF Keeps, QuietAttempts
<1>3. CASE rec' = NoLeftovers(rec) /\ UNCHANGED att
  BY <1>0, <1>3 DEF Keeps, QuietAttempts, NoLeftovers, TypeOK, Records
<1>4. CASE /\ t.owner = "attempt" /\ LeaseHeld(t.lease)
           /\ rec' = NoLeftovers(rec) /\ att' = [att EXCEPT ![t.lease] = "export"]
  <2>1. t.lease \in Leases /\ att[t.lease] = "clear"
    BY <1>4 DEF Inv, TaskPart
  <2>2. Keeps
    BY <1>4 DEF Keeps, NoLeftovers, TypeOK, Records
  <2>. QED BY <1>0, <1>4, <2>1, <2>2 DEF QuietAttempts, TypeOK
<1>5. CASE /\ t.owner = "attempt" /\ LeaseHeld(t.lease)
           /\ rec' = Failed(rec.orphan, rec.okey, rec.settled, "waiting") /\ End(t.lease)
  <2>1. t.lease \in Leases /\ att[t.lease] = "clear"
    BY <1>5 DEF Inv, TaskPart
  <2>2. Undoes
    BY <1>5 DEF Undoes, Failed, NoRec, LeaseHeld
  <2>. QED BY <1>0, <1>5, <2>1, <2>2 DEF QuietAttempts, End, TypeOK
<1>6. CASE t.owner = "attempt" /\ End(t.lease) /\ UNCHANGED rec
  <2>1. t.lease \in Leases /\ att[t.lease] = "clear"
    BY <1>6 DEF Inv, TaskPart
  <2>. QED BY <1>0, <1>6, <2>1 DEF QuietAttempts, Keeps, End, TypeOK
<1>7. t.owner \in {"clean", "attempt", "spare"}
  BY <1>1 DEF DeleteCalls
<1>8. \/ t.owner = "clean" /\ Names(rec, t) /\ out = "done"
      \/ t.owner = "clean" /\ Names(rec, t) /\ out # "done"
      \/ t.owner = "clean" /\ ~Names(rec, t)
      \/ t.owner = "attempt" /\ LeaseHeld(t.lease) /\ out = "done"
      \/ t.owner = "attempt" /\ LeaseHeld(t.lease) /\ out # "done"
      \/ t.owner = "attempt" /\ ~LeaseHeld(t.lease)
      \/ t.owner = "spare"
  BY <1>7
<1>. QED BY <1>2, <1>3, <1>4, <1>5, <1>6, <1>8 DEF Finish

LEMMA AdvanceQuiet ==
    ASSUME TypeOK, Inv, NEW t \in dels, NEW out, Advance(t, out)
    PROVE  /\ Keeps \/ Undoes
           /\ QuietAttempts
           /\ \A l \in Leases : att'[l] = att[l] \/ (t.owner = "attempt" /\ t.lease = l)
           /\ \/ dels' = dels \ {t}
              \/ /\ UNCHANGED att
                 /\ \E u \in dels' : /\ dels' = (dels \ {t}) \cup {u}
                                     /\ u.owner = t.owner /\ u.lease = t.lease
                                     /\ u.cand = t.next /\ u.next = None
<1>1. CASE t.next # None /\ StillOwned(t)
  <2>. DEFINE u == [t EXCEPT !.cand = t.next, !.next = None, !.pc = "read",
                             !.held = None, !.out = out]
  <2>1. dels' = (dels \ {t}) \cup {u} /\ UNCHANGED <<rec, alarm, att>>
    BY <1>1 DEF Advance, Replace
  <2>2. u.owner = t.owner /\ u.lease = t.lease /\ u.cand = t.next /\ u.next = None
    BY DEF TypeOK, DeleteCalls
  <2>3. Keeps /\ QuietAttempts
    BY <2>1 DEF Keeps, QuietAttempts
  <2>. HIDE DEF u
  <2>. QED BY <2>1, <2>2, <2>3
<1>2. CASE Finish(t, out) \/ Finish(t, "failed")
  BY <1>2, FinishQuiet
<1>. QED BY <1>1, <1>2 DEF Advance

\* A step of a clean-up, of which the caller says what it does to the agents.
LEMMA TaskSteps ==
    ASSUME TypeOK, Inv, NEW t \in dels,
           \/ dels' = dels \ {t}
           \/ /\ UNCHANGED att
              /\ \E u \in dels' : /\ dels' = (dels \ {t}) \cup {u}
                                  /\ u.owner = t.owner /\ u.lease = t.lease,
           \A l \in Leases : att'[l] = att[l] \/ (t.owner = "attempt" /\ t.lease = l)
    PROVE  TaskPart'
<1>1. CASE dels' = dels \ {t}
  <2>1. ASSUME NEW v \in dels', v.owner = "attempt"
        PROVE  v.lease \in Leases /\ att'[v.lease] = "clear"
    <3>1. v \in dels /\ v # t
      BY <1>1, <2>1
    <3>2. v.lease \in Leases /\ att[v.lease] = "clear"
      BY <2>1, <3>1 DEF Inv, TaskPart
    <3>3. ~(t.owner = "attempt" /\ t.lease = v.lease)
      BY <2>1, <3>1 DEF Inv, TaskPart
    <3>. QED BY <3>2, <3>3
  <2>2. ASSUME NEW v \in dels', NEW w \in dels', v.owner = "attempt", w.owner = "attempt",
               v.lease = w.lease
        PROVE  v = w
    BY <1>1, <2>2 DEF Inv, TaskPart
  <2>. QED BY <2>1, <2>2 DEF TaskPart
<1>2. ASSUME NEW u \in dels', dels' = (dels \ {t}) \cup {u},
             u.owner = t.owner, u.lease = t.lease, UNCHANGED att
      PROVE  TaskPart'
  <2>1. ASSUME NEW v \in dels', v.owner = "attempt"
        PROVE  v.lease \in Leases /\ att'[v.lease] = "clear"
    BY <1>2, <2>1 DEF Inv, TaskPart
  <2>2. ASSUME NEW v \in dels', NEW w \in dels', v.owner = "attempt", w.owner = "attempt",
               v.lease = w.lease
        PROVE  v = w
    <3>1. CASE v = u \/ w = u
      BY <1>2, <2>2, <3>1 DEF Inv, TaskPart
    <3>2. CASE v # u /\ w # u
      BY <1>2, <2>2, <3>2 DEF Inv, TaskPart
    <3>. QED BY <3>1, <3>2
  <2>. QED BY <2>1, <2>2 DEF TaskPart
<1>. QED BY <1>1, <1>2

LEMMA DeleteInv ==
    ASSUME TypeOK, TypeOK', Inv, NEW t \in dels, Delete(t)
    PROVE  Inv'
<1>. USE NamesAssumption
<1>1. UNCHANGED <<commits, thread, row, creates, late, recon, direct>>
  BY DEF Delete, DeleteReadsRow, DeleteChecks, DeleteAnswered, DeleteFails, org, runtime
<1>2. QuietAgents
  <2>1. t.cand \in Leases /\ Loose(t.cand)
    BY DEF TypeOK, DeleteCalls, Loose
  <2>2. CASE UNCHANGED <<agents, deletes>>
    BY <1>1, <2>2 DEF QuietAgents
  <2>3. CASE DeleteAnswered(t)
    BY <1>1, <2>1, <2>3 DEF QuietAgents, DeleteAnswered, Destroyed
  <2>4. CASE DeleteFails(t)
    BY <1>1, <2>1, <2>4 DEF QuietAgents, DeleteFails
  <2>. QED BY <2>2, <2>3, <2>4 DEF Delete, DeleteReadsRow, DeleteChecks, runtime
<1>3. \/ \E out : Finish(t, out) \/ Advance(t, out)
      \/ \E u : /\ Replace(t, u) /\ u.owner = t.owner /\ u.lease = t.lease
                /\ u.cand = t.cand /\ u.next = t.next
  <2>1. CASE DeleteReadsRow(t)
    <3>1. CASE Finish(t, "failed") BY <3>1
    <3>2. CASE Replace(t, [t EXCEPT !.pc = "check", !.held = HeldByRow])
      <4>. DEFINE u == [t EXCEPT !.pc = "check", !.held = HeldByRow]
      <4>1. /\ u.owner = t.owner /\ u.lease = t.lease
            /\ u.cand = t.cand /\ u.next = t.next
        BY DEF TypeOK, DeleteCalls
      <4>2. Replace(t, u)
        BY <3>2
      <4>. HIDE DEF u
      <4>. QED BY <4>1, <4>2
    <3>. QED BY <2>1, <3>1, <3>2 DEF DeleteReadsRow
  <2>2. CASE DeleteChecks(t)
    <3>1. CASE Finish(t, "failed") BY <3>1
    <3>2. CASE Advance(t, t.out) BY <3>2
    <3>3. CASE Replace(t, [t EXCEPT !.pc = "delete", !.held = None])
      <4>. DEFINE u == [t EXCEPT !.pc = "delete", !.held = None]
      <4>1. /\ u.owner = t.owner /\ u.lease = t.lease
            /\ u.cand = t.cand /\ u.next = t.next
        BY DEF TypeOK, DeleteCalls
      <4>2. Replace(t, u)
        BY <3>3
      <4>. HIDE DEF u
      <4>. QED BY <4>1, <4>2
    <3>. QED BY <2>2, <3>1, <3>2, <3>3 DEF DeleteChecks
  <2>3. CASE DeleteAnswered(t)
    BY <2>3 DEF DeleteAnswered
  <2>4. CASE DeleteFails(t)
    BY <2>4 DEF DeleteFails
  <2>. QED BY <2>1, <2>2, <2>3, <2>4 DEF Delete
<1>4. /\ Keeps \/ Undoes
      /\ QuietAttempts
      /\ \A l \in Leases : att'[l] = att[l] \/ (t.owner = "attempt" /\ t.lease = l)
      /\ \/ dels' = dels \ {t}
         \/ /\ UNCHANGED att
            /\ \E u \in dels' : /\ dels' = (dels \ {t}) \cup {u}
                                /\ u.owner = t.owner /\ u.lease = t.lease
                                /\ {u.cand, u.next} \subseteq {t.cand, t.next, None}
  <2>1. ASSUME NEW out, Finish(t, out) \/ Advance(t, out)
        PROVE  <1>4!1 /\ <1>4!2 /\ <1>4!3 /\ <1>4!4
    <3>1. CASE Finish(t, out)
      BY <3>1, FinishQuiet
    <3>2. CASE Advance(t, out)
      BY <3>2, AdvanceQuiet
    <3>. QED BY <2>1, <3>1, <3>2
  <2>2. ASSUME NEW u, Replace(t, u), u.owner = t.owner, u.lease = t.lease,
               u.cand = t.cand, u.next = t.next
        PROVE  <1>4!1 /\ <1>4!2 /\ <1>4!3 /\ <1>4!4
    BY <2>2 DEF Replace, Keeps, QuietAttempts
  <2>. QED BY <1>3, <2>1, <2>2
<1>5. QuietCalls
  <2>. SUFFICES ASSUME NEW v \in dels', NEW l \in {v.cand, v.next} \cap Leases
                PROVE  \E u \in dels : l \in {u.cand, u.next}
    BY <1>1 DEF QuietCalls
  <2>1. v \in dels \/ {v.cand, v.next} \subseteq {t.cand, t.next, None}
    BY <1>4
  <2>. QED BY <2>1 DEF Agents
<1>6. AgentInv'
  BY <1>1, <1>2, <1>4, <1>5, QuietInv DEF Quiet, Inv
<1>7. TaskPart'
  <2>1. \/ dels' = dels \ {t}
        \/ /\ UNCHANGED att
           /\ \E u \in dels' : /\ dels' = (dels \ {t}) \cup {u}
                               /\ u.owner = t.owner /\ u.lease = t.lease
    BY <1>4
  <2>. QED BY <1>4, <2>1, TaskSteps
<1>. QED BY <1>6, <1>7 DEF Inv

-----------------------------------------------------------------------------
(* The attempts.                                                            *)

\* An attempt that fails past its clean-up undoes its lease, if it holds it.
LEMMA FailedAttempt ==
    ASSUME TypeOK, TypeOK', Inv, NEW l \in Leases, att[l] \notin {"idle", "clear"},
           Fail(l), End(l), creates' \subseteq creates,
           UNCHANGED <<commits, thread, row, agents, deletes, late, recon, direct>>
    PROVE  Inv'
<1>. USE NamesAssumption
<1>1. QuietAttempts /\ QuietAgents
  BY DEF QuietAttempts, QuietAgents, End, TypeOK
<1>2. QuietCalls
  <2>. SUFFICES ASSUME NEW v \in dels', NEW m \in {v.cand, v.next} \cap Leases
                PROVE  \/ m \in {rec'.orphan, rec'.okey}
                       \/ \E u \in dels : m \in {u.cand, u.next}
    BY DEF QuietCalls
  <2>1. v \in dels \/ {v.cand, v.next} \subseteq {rec'.orphan, rec'.okey, None}
    BY FailQuiet DEF Inv
  <2>. QED BY <2>1 DEF Agents
<1>3. AgentInv'
  BY <1>1, <1>2, FailQuiet, QuietInv DEF Quiet, Inv
<1>4. QuietTasks
  BY FailQuiet DEF Inv, QuietTasks, End, TypeOK
<1>. QED BY <1>3, <1>4, QuietTasksKept DEF Inv

\* An attempt that holds the thread, with its agent made, hands over to commit().
LEMMA HandedOver ==
    ASSUME TypeOK, TypeOK', Inv, NEW l \in Leases, att[l] \in {"create", "archive"},
           agents[l] # "none", LeaseHeld(l), HandOver(l),
           UNCHANGED <<thread, row, agents, creates, deletes, late, recon, direct>>
    PROVE  Inv'
<1>. USE NamesAssumption DEF HandOver, LeaseHeld, Committing, NoRec, Claim
<1>1. /\ rec.phase = "leased" /\ rec.lease = l
      /\ rec'.phase = "committing" /\ rec'.lease = l /\ rec'.agent = l
      /\ rec'.orphan = None /\ rec'.okey = None
  OBVIOUS
<1>2. /\ att' = [att EXCEPT ![l] = "over"] /\ commits' = commits \cup {Claim(l)}
      /\ UNCHANGED dels
  BY DEF End
<1>3. RowPart' BY DEF Inv, AgentInv, RowPart
<1>4. RecPart' BY <1>1, <1>2 DEF Inv, AgentInv, RecPart, TypeOK, Agents
<1>5. LoosePart'
  <2>. SUFFICES ASSUME NEW m \in Leases, Loose(m)'
                PROVE  att'[m] # "idle" /\ (thread' => rec'.lease # m)
    BY DEF LoosePart, Needed
  <2>1. Loose(m)
    BY <1>1, <1>2 DEF Loose, Agents
  <2>. QED BY <1>1, <1>2, <2>1 DEF Inv, AgentInv, LoosePart, Needed, TypeOK
<1>6. ClaimPart'
  <2>. SUFFICES ASSUME thread', NEW m \in Leases, Claiming(m)'
                PROVE  m = l
    BY <1>1 DEF ClaimPart
  <2>1. Claiming(m) \/ m = l
    BY <1>2 DEF Claiming
  <2>. QED BY <1>1, <2>1 DEF Inv, AgentInv, ClaimPart
<1>7. AnswerPart'
  BY <1>1, <1>2 DEF Inv, AgentInv, AnswerPart, AnswerOK, Agents
<1>8. TaskPart'
  BY <1>2, QuietTasksKept DEF Inv, QuietTasks, TypeOK
<1>. QED BY <1>3, <1>4, <1>5, <1>6, <1>7, <1>8 DEF Inv, AgentInv

LEMMA StartInv ==
    ASSUME TypeOK, TypeOK', Inv, NEW l \in Leases, StartLease(l)
    PROVE  Inv'
<1>. USE NamesAssumption DEF org, runtime
<1>1. /\ rec'.phase = "leased" /\ rec'.lease = l /\ ~rec'.key /\ rec'.agent = None
      /\ rec'.orphan = rec.orphan /\ rec'.okey = rec.okey
      /\ att[l] = "idle" /\ rec.phase \in {"none", "failed"}
  BY DEF StartLease, Leased, NoRec
<1>2. /\ att' = [att EXCEPT ![l] = IF HasLeftovers(rec) THEN "clear" ELSE "export"]
      /\ dels' = dels \cup Leftovers("attempt", l, rec.orphan, rec.okey)
      /\ UNCHANGED <<commits, thread, row, agents, creates, deletes, late, recon, direct>>
  BY DEF StartLease
<1>3. RowPart' BY <1>2 DEF Inv, AgentInv, RowPart
<1>4. RecPart' BY <1>1, <1>2 DEF Inv, AgentInv, RecPart, TypeOK, Agents
<1>5. LoosePart'
  <2>. SUFFICES ASSUME NEW m \in Leases, Loose(m)'
                PROVE  att'[m] # "idle" /\ (thread' => rec'.lease # m)
    BY DEF LoosePart, Needed
  <2>1. Loose(m)
    BY <1>1, <1>2 DEF Loose, Leftovers, Deleting, Agents
  <2>. QED BY <1>1, <1>2, <2>1 DEF Inv, AgentInv, LoosePart, Needed, TypeOK
<1>6. ClaimPart'
  BY <1>1, <1>2 DEF Inv, AgentInv, ClaimPart, Claiming
<1>7. AnswerPart'
  BY <1>1, <1>2 DEF Inv, AgentInv, AnswerPart, AnswerOK
<1>8. TaskPart'
  <2>1. ASSUME NEW t \in dels', t.owner = "attempt"
        PROVE  /\ t.lease \in Leases /\ att'[t.lease] = "clear"
               /\ t \in dels \/ t.lease = l
    BY <1>1, <1>2, <2>1 DEF Inv, TaskPart, TypeOK, Leftovers, Deleting, HasLeftovers
  <2>2. ASSUME NEW t \in dels', NEW u \in dels', t.owner = "attempt", u.owner = "attempt",
               t.lease = u.lease
        PROVE  t = u
    <3>1. CASE t.lease = l
      <4>1. t \notin dels /\ u \notin dels
        BY <1>1, <2>2, <3>1 DEF Inv, TaskPart
      <4>. QED BY <1>2, <4>1 DEF Leftovers
    <3>2. CASE t.lease # l
      BY <2>1, <2>2, <3>2 DEF Inv, TaskPart
    <3>. QED BY <3>1, <3>2
  <2>. QED BY <2>1, <2>2 DEF TaskPart
<1>. QED BY <1>3, <1>4, <1>5, <1>6, <1>7, <1>8 DEF Inv, AgentInv

LEMMA AttemptInv ==
    ASSUME TypeOK, TypeOK', Inv, NEW l \in Leases, Attempt(l)
    PROVE  Inv'
<1>. USE NamesAssumption DEF org, runtime
<1>1. CASE StartLease(l) BY <1>1, StartInv
<1>2. CASE ExportFails(l)
  BY <1>2, FailedAttempt DEF ExportFails
<1>3. CASE SendCreate(l)
  <2>1. CASE LeaseHeld(l)
    <3>1. /\ rec' = [rec EXCEPT !.key = TRUE] /\ att' = [att EXCEPT ![l] = "create"]
          /\ creates' = creates \cup {l} /\ att[l] = "export"
          /\ rec.phase = "leased" /\ rec.lease = l
          /\ UNCHANGED <<commits, dels, thread, row, agents, deletes, late, recon, direct>>
      BY <1>3, <2>1 DEF SendCreate, LeaseHeld
    <3>2. /\ rec'.phase = "leased" /\ rec'.lease = l /\ rec'.key
          /\ rec'.agent = rec.agent /\ rec'.orphan = rec.orphan /\ rec'.okey = rec.okey
      BY <3>1 DEF TypeOK, Records
    <3>3. AgentInv'
      BY <3>1, <3>2 DEF Inv, AgentInv, RowPart, RecPart, LoosePart, Loose, Needed, ClaimPart,
                        Claiming, AnswerPart, AnswerOK, TypeOK, Agents
    <3>4. QuietTasks
      BY <3>1 DEF QuietTasks, TypeOK
    <3>. QED BY <3>3, <3>4, QuietTasksKept DEF Inv
  <2>2. CASE ~LeaseHeld(l)
    <3>1. Quiet /\ QuietTasks
      BY <1>3, <2>2 DEF SendCreate, Quiet, Keeps, QuietAttempts, QuietAgents, QuietCalls,
                        QuietTasks, End, TypeOK
    <3>. QED BY <3>1, QuietInv, QuietTasksKept DEF Inv
  <2>. QED BY <2>1, <2>2
<1>4. CASE CreateAnswered(l)
  <2>1. att[l] = "create" /\ l \notin creates /\ agents[l] # "none"
    BY <1>4 DEF CreateAnswered
  <2>2. CASE /\ LeaseHeld(l) /\ rec' = [rec EXCEPT !.agent = l]
             /\ att' = [att EXCEPT ![l] = "archive"] /\ UNCHANGED <<commits, dels>>
    <3>1. /\ rec'.phase = "leased" /\ rec'.lease = l /\ rec.lease = l /\ rec.phase = "leased"
          /\ rec'.key = rec.key
          /\ rec'.agent = l /\ rec'.orphan = rec.orphan /\ rec'.okey = rec.okey
      BY <2>2 DEF TypeOK, Records, LeaseHeld
    <3>2. UNCHANGED <<thread, row, agents, creates, deletes, late, recon, direct>>
      BY <1>4 DEF CreateAnswered
    <3>3. RowPart' /\ ClaimPart' /\ AnswerPart'
      BY <2>2, <3>1, <3>2 DEF Inv, AgentInv, RowPart, ClaimPart, Claiming, AnswerPart, AnswerOK
    <3>4. RecPart'
      BY <2>1, <2>2, <3>1, <3>2 DEF Inv, AgentInv, RecPart, TypeOK
    <3>5. LoosePart'
      BY <2>1, <2>2, <3>1, <3>2 DEF Inv, AgentInv, LoosePart, Loose, Needed, TypeOK
    <3>6. QuietTasks
      BY <2>1, <2>2 DEF QuietTasks, TypeOK
    <3>. QED BY <3>3, <3>4, <3>5, <3>6, QuietTasksKept DEF Inv, AgentInv
  <2>3. CASE LeaseHeld(l) /\ HandOver(l)
    BY <1>4, <2>1, <2>3, HandedOver DEF CreateAnswered
  <2>4. CASE End(l) /\ UNCHANGED <<rec, commits, dels>>
    <3>1. Quiet /\ QuietTasks
      BY <1>4, <2>1, <2>4 DEF CreateAnswered, Quiet, Keeps, QuietAttempts, QuietAgents,
                              QuietCalls, QuietTasks, End, TypeOK
    <3>. QED BY <3>1, QuietInv, QuietTasksKept DEF Inv
  <2>. QED BY <1>4, <2>2, <2>3, <2>4 DEF CreateAnswered
<1>5. CASE CreateFails(l)
  BY <1>5, FailedAttempt DEF CreateFails
<1>6. CASE ArchiveKept(l)
  <2>1. att[l] = "archive" /\ agents[l] # "none"
    BY <1>6 DEF ArchiveKept, Inv, AgentInv, RecPart
  <2>2. CASE LeaseHeld(l) /\ HandOver(l)
    BY <1>6, <2>1, <2>2, HandedOver DEF ArchiveKept
  <2>3. CASE Fail(l) /\ End(l) /\ UNCHANGED commits
    BY <1>6, <2>1, <2>3, FailedAttempt DEF ArchiveKept
  <2>. QED BY <1>6, <2>2, <2>3 DEF ArchiveKept
<1>7. CASE ArchiveFails(l)
  BY <1>7, FailedAttempt DEF ArchiveFails
<1>. QED BY <1>1, <1>2, <1>3, <1>4, <1>5, <1>6, <1>7 DEF Attempt

-----------------------------------------------------------------------------
(* The claims and their answers.                                            *)

LEMMA ClaimTakes ==
    ASSUME TypeOK, Inv, NEW l \in Leases, Claiming(l), row' = RowAfterClaim(l),
           UNCHANGED thread
    PROVE  /\ row' \in {row, l}
           /\ row \in Leases => row' = row
           /\ thread => row' \in {l, Direct}
           /\ OldLoop /\ thread => row' = l
           /\ ~thread => row' = row
BY NamesAssumption DEF RowAfterClaim, Inv, AgentInv, RowPart, ClaimPart, Claiming, Agents

\* A step of a call, or of a claim nobody waits for, that leaves the record be.
LEMMA ClaimStep ==
    ASSUME TypeOK, TypeOK', Inv, NEW l \in Leases,
           UNCHANGED <<rec, att, dels, thread, agents, creates, deletes, recon, direct>>,
           row' = row \/ (Claiming(l) /\ row' = RowAfterClaim(l)),
           \A m \in late' : Claiming(m),
           \A c \in commits' : c \in commits \/ (Claiming(c.lease) /\ AnswerOK(c)')
    PROVE  Inv'
<1>. USE NamesAssumption
<1>1. /\ row' = row \/ (Claiming(l) /\ row' = l)
      /\ row \in Leases => row' = row
      /\ ~thread => row' = row
  BY ClaimTakes
<1>2. RowPart' BY <1>1 DEF Inv, AgentInv, RowPart
<1>3. RecPart' /\ LoosePart' /\ TaskPart'
  BY DEF Inv, AgentInv, RecPart, LoosePart, Loose, Needed, TaskPart
<1>4. ClaimPart'
  <2>. SUFFICES ASSUME thread', NEW m \in Leases, Claiming(m)'
                PROVE  Claiming(m)
    BY DEF Inv, AgentInv, ClaimPart
  <2>. QED BY <1>1 DEF Claiming
<1>5. AnswerPart'
  <2>1. \A c \in commits' : AnswerOK(c)'
    <3>. SUFFICES ASSUME NEW c \in commits' PROVE AnswerOK(c)'
      OBVIOUS
    <3>1. CASE c \in commits
      BY <1>1, <3>1 DEF Inv, AgentInv, AnswerPart, AnswerOK, TypeOK, CommitCalls
    <3>. QED BY <3>1
  <2>2. OldLoop /\ rec'.phase = "moved" /\ thread' => row' = rec'.lease
    <3>. SUFFICES ASSUME OldLoop, rec.phase = "moved", thread PROVE row' = rec.lease
      OBVIOUS
    <3>1. row = rec.lease /\ rec.lease \in Leases
      BY DEF Inv, AgentInv, AnswerPart, TypeOK, Records, MaybeLease
    <3>. QED BY <1>1, <3>1
  <2>. QED BY <2>1, <2>2 DEF AnswerPart
<1>. QED BY <1>2, <1>3, <1>4, <1>5 DEF Inv, AgentInv

LEMMA CommitInv ==
    ASSUME TypeOK, TypeOK', Inv, NEW c \in commits, Commit(c)
    PROVE  Inv'
<1>. USE NamesAssumption DEF org, runtime
<1>0. c.lease \in Leases /\ c \in CommitCalls /\ AnswerOK(c)
      /\ Claiming(c.lease)
      /\ \A m \in late : Claiming(m)
  BY DEF TypeOK, CommitCalls, Claiming, Inv, AgentInv, AnswerPart
<1>1. CASE OrgClaims(c)
  <2>1. row' = RowAfterClaim(c.lease)
        /\ UNCHANGED <<rec, att, dels, thread, agents, creates, deletes, late, recon, direct>>
    BY <1>1 DEF OrgClaims
  <2>2. PICK d : /\ commits' = (commits \ {c}) \cup {d}
                 /\ d = [c EXCEPT !.pc = "answered", !.out = ClaimAnswer(c.lease)]
    BY <1>1 DEF OrgClaims, Answer
  <2>3. ClaimAnswer(c.lease) = IF thread THEN row' ELSE "Gone"
    BY <2>1 DEF ClaimAnswer
  <2>4. d.lease = c.lease /\ d.pc = "answered" /\ d.out = IF thread THEN row' ELSE "Gone"
    BY <1>0, <2>2, <2>3 DEF CommitCalls
  <2>5. /\ c.lease \notin {None, "NoRow", "Pinned", "Gone", Direct}
        /\ Direct \notin {None, "NoRow", "Pinned", "Gone"} /\ None # "Gone"
    BY <1>0 DEF Agents
  <2>6. thread => row' \in {c.lease, Direct} /\ (OldLoop => row' = c.lease)
    BY <1>0, <2>1, ClaimTakes
  <2>7. AnswerOK(d)'
    BY <2>1, <2>4, <2>5, <2>6 DEF AnswerOK
  <2>. QED BY <1>0, <2>1, <2>2, <2>4, <2>7, ClaimStep
<1>2. CASE ClaimFails(c)
  <2>1. /\ UNCHANGED <<rec, att, dels, thread, agents, creates, deletes, late, recon, direct>>
        /\ row' \in {row, RowAfterClaim(c.lease)}
    BY <1>2 DEF ClaimFails
  <2>2. PICK d : commits' = (commits \ {c}) \cup {d} /\ d = [c EXCEPT !.pc = "readback"]
    BY <1>2 DEF ClaimFails
  <2>3. d.lease = c.lease /\ d.pc = "readback" /\ d.out = c.out
    BY <1>0, <2>2 DEF CommitCalls
  <2>4. OldLoop /\ c.out = c.lease /\ thread => row' = c.lease
    BY <1>0, <2>1, ClaimTakes DEF AnswerOK
  <2>5. AnswerOK(d)'
    BY <1>0, <2>1, <2>3, <2>4 DEF AnswerOK
  <2>. QED BY <1>0, <2>1, <2>2, <2>3, <2>5, ClaimStep
<1>3. CASE ReadBack(c)
  <2>1. UNCHANGED <<rec, att, dels, thread, row, agents, creates, deletes, late, recon, direct>>
    BY <1>3 DEF ReadBack
  <2>2. PICK d : /\ commits' = (commits \ {c}) \cup {d}
                 /\ d = [c EXCEPT !.pc = "answered", !.out = row]
    BY <1>3 DEF ReadBack, Answer
  <2>3. d.lease = c.lease /\ d.pc = "answered" /\ d.out = row
    BY <1>0, <2>2 DEF CommitCalls
  <2>4. row \in {c.lease, Direct, "NoRow", "Pinned"}
    <3>1. row \in Leases => thread /\ Claiming(row)
      BY DEF Inv, AgentInv, RowPart, Claiming, Agents
    <3>2. row \in Leases \cup {Direct, "NoRow", "Pinned"}
      BY DEF TypeOK, Agents
    <3>. QED BY <1>0, <3>1, <3>2 DEF Inv, AgentInv, ClaimPart
  <2>5. /\ row # "Gone" /\ row # None /\ c.lease # "NoRow"
        /\ OldLoop => row \notin {Direct, "Pinned"}
    BY <1>0, <2>4 DEF Agents, Inv, AgentInv, RowPart
  <2>6. AnswerOK(d)'
    BY <2>1, <2>3, <2>4, <2>5 DEF AnswerOK
  <2>. QED BY <1>0, <2>1, <2>2, <2>3, <2>6, ClaimStep
<1>4. CASE ReadBackFails(c)
  BY <1>0, <1>4, ClaimStep DEF ReadBackFails, Pending
<1>5. CASE ClaimTimesOut(c)
  BY <1>0, <1>5, ClaimStep DEF ClaimTimesOut, Pending
<1>6. CASE CommitAnswered(c)
  <2>1. UNCHANGED <<att, thread, row, agents, creates, deletes, late, recon, direct>>
    BY <1>6 DEF CommitAnswered
  <2>2. CASE UNCHANGED <<rec, dels>> /\ commits' = commits \ {c}
    BY <1>0, <2>1, <2>2, ClaimStep
  <2>3. CASE /\ c.out = "Gone" /\ StillCommitting(c)
             /\ rec' = Failed(c.lease, None, FALSE, "never")
             /\ dels' = dels \cup CleanUp(Failed(c.lease, None, FALSE, "never"))
             /\ commits' = commits \ {c}
    <3>1. ~thread /\ ~thread'
      BY <1>0, <2>1, <2>3 DEF AnswerOK
    <3>2. /\ rec'.phase = "failed" /\ rec'.lease = None /\ rec'.agent = None
          /\ rec'.orphan = c.lease /\ rec'.okey = None
      BY <2>3 DEF Failed, NoRec
    <3>3. att[c.lease] # "idle"
      BY <1>0, <2>3 DEF StillCommitting, Inv, AgentInv, RecPart, Agents
    <3>4. \A t \in dels' : t \in dels \/ (t.owner = "clean" /\ {t.cand, t.next} \subseteq {c.lease, None})
      <4>. SUFFICES ASSUME NEW t \in dels', t \notin dels
                    PROVE  t.owner = "clean" /\ {t.cand, t.next} \subseteq {c.lease, None}
        OBVIOUS
      <4>1. t \in CleanUp(rec')
        BY <2>3
      <4>. QED BY <3>2, <4>1 DEF CleanUp, Leftovers, Deleting
    <3>5. RowPart' /\ ClaimPart' /\ AnswerPart'
      BY <2>1, <2>3, <3>1, <3>2 DEF Inv, AgentInv, RowPart, ClaimPart, AnswerPart, AnswerOK
    <3>6. RecPart'
      BY <2>1, <3>2 DEF Inv, AgentInv, RecPart, Agents
    <3>7. LoosePart'
      <4>. SUFFICES ASSUME NEW m \in Leases, Loose(m)' PROVE att[m] # "idle"
        BY <2>1, <3>1 DEF LoosePart
      <4>1. Loose(m) \/ m = c.lease
        BY <2>1, <3>2, <3>4 DEF Loose, Agents
      <4>. QED BY <3>3, <4>1 DEF Inv, AgentInv, LoosePart
    <3>8. QuietTasks
      BY <2>1, <3>4 DEF QuietTasks
    <3>. QED BY <3>5, <3>6, <3>7, <3>8, QuietTasksKept DEF Inv, AgentInv
  <2>4. CASE /\ c.out = c.lease /\ StillCommitting(c) /\ rec' = Moved(c.lease, c.lease)
             /\ commits' = commits \ {c} /\ UNCHANGED dels
    <3>1. /\ rec'.phase = "moved" /\ rec'.lease = rec.lease /\ rec'.agent = rec.lease
          /\ rec'.orphan = None /\ rec'.okey = None
          /\ rec.lease = c.lease /\ rec.phase = "committing" /\ rec.agent = rec.lease
      BY <2>4 DEF Moved, NoRec, StillCommitting, Inv, AgentInv, RecPart
    <3>2. OldLoop /\ thread => row = c.lease
      BY <1>0, <2>4 DEF AnswerOK
    <3>3. RowPart' /\ AnswerPart' /\ TaskPart'
      BY <2>1, <2>4, <3>1, <3>2 DEF Inv, AgentInv, RowPart, AnswerPart, AnswerOK, TaskPart
    <3>4. RecPart'
      BY <2>1, <3>1 DEF Inv, AgentInv, RecPart, Agents
    <3>5. ClaimPart'
      BY <2>1, <2>4, <3>1 DEF Inv, AgentInv, ClaimPart, Claiming
    <3>6. LoosePart'
      BY <2>1, <2>4, <3>1 DEF Inv, AgentInv, LoosePart, Loose, Needed, Agents
    <3>. QED BY <3>3, <3>4, <3>5, <3>6 DEF Inv, AgentInv
  <2>5. CASE /\ c.out \in (Agents \cup {"Pinned"}) \ {c.lease} /\ StillCommitting(c)
             /\ rec' = Moved(c.lease, IF c.out \in Agents THEN c.out ELSE c.lease)
             /\ dels' = dels \cup Spare(c.lease) /\ commits' = commits \ {c}
    <3>1. ~OldLoop /\ c.out \in {Direct, "Pinned"}
      BY <1>0, <2>5 DEF AnswerOK, Agents
    <3>2. /\ rec'.phase = "moved" /\ rec'.lease = rec.lease
          /\ rec'.agent \in {rec.lease, Direct}
          /\ rec'.orphan = None /\ rec'.okey = None
          /\ rec.lease = c.lease /\ rec.phase = "committing" /\ rec.agent = rec.lease
      BY <2>5, <3>1 DEF Moved, NoRec, StillCommitting, Inv, AgentInv, RecPart, Agents
    <3>3. \A t \in dels' : t \in dels \/ (/\ t.owner = "spare"
                                          /\ t.cand = c.lease /\ t.next = None)
      BY <2>5 DEF Spare, Deleting
    <3>4. RowPart' /\ AnswerPart'
      BY <2>1, <2>5, <3>1 DEF Inv, AgentInv, RowPart, AnswerPart, AnswerOK
    <3>5. RecPart'
      BY <1>0, <2>1, <3>1, <3>2 DEF Inv, AgentInv, RecPart, Agents
    <3>6. ClaimPart'
      BY <2>1, <2>5, <3>2 DEF Inv, AgentInv, ClaimPart, Claiming
    <3>7. LoosePart'
      <4>. SUFFICES ASSUME NEW m \in Leases, Loose(m)'
                    PROVE  att[m] # "idle" /\ ~Needed(m)'
        BY <2>1 DEF LoosePart
      <4>1. Loose(m) \/ m = c.lease
        BY <2>1, <3>2, <3>3 DEF Loose, Agents
      <4>2. att[c.lease] # "idle"
        BY <1>0, <3>2 DEF Inv, AgentInv, RecPart, Agents
      <4>. QED BY <3>1, <3>2, <4>1, <4>2 DEF Inv, AgentInv, LoosePart, Needed
    <3>8. QuietTasks
      BY <2>1, <3>3 DEF QuietTasks
    <3>. QED BY <3>4, <3>5, <3>6, <3>7, <3>8, QuietTasksKept DEF Inv, AgentInv
  <2>. QED BY <1>6, <2>2, <2>3, <2>4, <2>5 DEF CommitAnswered, Pending
<1>. QED BY <1>1, <1>2, <1>3, <1>4, <1>5, <1>6 DEF Commit

-----------------------------------------------------------------------------
(* Time, the alarm, a restart, the runtime, the reconciler, OrgDO.          *)

LEMMA QuietStep ==
    ASSUME TypeOK, TypeOK', Inv, Quiet, QuietTasks
    PROVE  Inv'
BY QuietInv, QuietTasksKept DEF Inv

\* The clean-ups a failed record or an undone lease starts.
LEMMA FailCalls ==
    ASSUME TypeOK, Inv, NEW l, Fail(l), UNCHANGED commits
    PROVE  QuietCalls
<1>. SUFFICES ASSUME NEW v \in dels', NEW m \in {v.cand, v.next} \cap Leases
              PROVE  \/ m \in {rec'.orphan, rec'.okey}
                     \/ \E u \in dels : m \in {u.cand, u.next}
  BY DEF QuietCalls
<1>1. v \in dels \/ {v.cand, v.next} \subseteq {rec'.orphan, rec'.okey, None}
  BY FailQuiet DEF Inv
<1>. QED BY <1>1, NamesAssumption DEF Agents

LEMMA AlarmInv ==
    ASSUME TypeOK, TypeOK', Inv, AlarmFires
    PROVE  Inv'
<1>. USE NamesAssumption
<1>1. QuietAttempts /\ QuietAgents
      /\ UNCHANGED <<thread, row, late, recon, direct, att>>
  BY DEF AlarmFires, QuietAttempts, QuietAgents, org, runtime
<1>2. CASE rec.phase = "leased" /\ ~rec.live
  <2>1. Fail(rec.lease) /\ UNCHANGED commits
    BY <1>2 DEF AlarmFires
  <2>2. (Keeps \/ Undoes) /\ QuietCalls
    BY <2>1, FailQuiet, FailCalls DEF Inv
  <2>3. QuietTasks
    BY <1>1, <2>1, FailQuiet DEF Inv, QuietTasks
  <2>. QED BY <1>1, <2>2, <2>3, QuietStep DEF Quiet
<1>3. CASE ~(rec.phase = "leased" /\ ~rec.live)
  <2>1. /\ UNCHANGED rec
        /\ \A t \in dels' : t \in dels \/ t \in CleanUp(rec)
        /\ \A c \in commits' : c \in commits \/ (rec.phase = "committing" /\ c = Claim(rec.lease))
    BY <1>3 DEF AlarmFires
  <2>2. \A t \in CleanUp(rec) : t.owner = "clean" /\ {t.cand, t.next} \subseteq {rec.orphan, rec.okey, None}
    BY CleanUpTasks DEF TypeOK
  <2>3. Keeps
    BY <2>1 DEF Keeps
  <2>4. QuietCalls
    BY <2>1, <2>2 DEF QuietCalls, Agents
  <2>5. QuietTasks
    BY <1>1, <2>1, <2>2 DEF QuietTasks
  <2>. QED BY <1>1, <2>3, <2>4, <2>5, QuietStep DEF Quiet
<1>. QED BY <1>2, <1>3

LEMMA RestartInv ==
    ASSUME TypeOK, TypeOK', Inv, Restart
    PROVE  Inv'
<1>. USE NamesAssumption DEF org
<1>1. /\ dels' = {} /\ commits' = {}
      /\ UNCHANGED <<rec, thread, row, agents, creates, recon, direct>>
      /\ late' = late \cup {c.lease : c \in {d \in commits : d.pc = "claim"}}
      /\ deletes' = deletes \cup {t.cand : t \in {u \in dels : u.pc = "delete"}}
      /\ att' = [l \in Leases |-> IF att[l] = "idle" THEN "idle" ELSE "over"]
  BY DEF Restart
<1>2. RowPart' /\ AnswerPart' /\ TaskPart'
  BY <1>1 DEF Inv, AgentInv, RowPart, AnswerPart, AnswerOK, TaskPart
<1>3. RecPart'
  BY <1>1 DEF Inv, AgentInv, RecPart, TypeOK, Records, MaybeLease
<1>4. LoosePart'
  <2>. SUFFICES ASSUME NEW m \in Leases, Loose(m)'
                PROVE  Loose(m)
    BY <1>1 DEF LoosePart, Needed, Inv, AgentInv
  <2>. QED BY <1>1 DEF Loose
<1>5. ClaimPart'
  <2>. SUFFICES ASSUME NEW m \in Leases, Claiming(m)'
                PROVE  Claiming(m)
    BY <1>1 DEF ClaimPart, Inv, AgentInv
  <2>. QED BY <1>1 DEF Claiming
<1>. QED BY <1>2, <1>3, <1>4, <1>5 DEF Inv, AgentInv

LEMMA RuntimeCreatesInv ==
    ASSUME TypeOK, TypeOK', Inv, NEW l \in Leases, RuntimeCreates(l)
    PROVE  Inv'
<1>. USE NamesAssumption DEF org, doCalls
<1>1. /\ UNCHANGED <<rec, att, commits, dels, thread, row, deletes, late, recon, direct>>
      /\ l \in creates /\ creates' = creates \ {l}
      /\ \/ agents[l] = "none" /\ agents' = [agents EXCEPT ![l] = "live"]
         \/ UNCHANGED agents
  BY DEF RuntimeCreates
<1>2. RowPart' /\ AnswerPart' /\ TaskPart' /\ ClaimPart'
  BY <1>1 DEF Inv, AgentInv, RowPart, AnswerPart, AnswerOK, TaskPart, ClaimPart, Claiming
<1>3. RecPart'
  <2>1. \A m \in Leases : agents'[m] = agents[m] \/ (m = l /\ agents'[m] = "live")
    BY <1>1 DEF TypeOK, Agents
  <2>2. rec.lease \in Leases \cup {None} /\ (rec.phase = "leased" => rec.lease \in Leases)
    BY DEF TypeOK, Records, MaybeLease
  <2>. QED BY <1>1, <2>1, <2>2 DEF Inv, AgentInv, RecPart
<1>4. LoosePart'
  BY <1>1 DEF Inv, AgentInv, LoosePart, Loose, Needed, TypeOK, Agents
<1>. QED BY <1>2, <1>3, <1>4 DEF Inv, AgentInv

LEMMA ReconcileInv ==
    ASSUME TypeOK, TypeOK', Inv, NEW l \in Leases, Reconcile(l)
    PROVE  Inv'
<1>. USE NamesAssumption DEF org, runtime, doCalls, ReconAt, ReconIdle
<1>1. UNCHANGED <<rec, att, commits, dels, thread, row, creates, late, direct>>
  BY DEF Reconcile, ReconLists, ReconReadsRow, ReconDeletes, ReconGivesUp
<1>2. RowPart' /\ AnswerPart' /\ TaskPart' /\ ClaimPart'
  BY <1>1 DEF Inv, AgentInv, RowPart, AnswerPart, AnswerOK, TaskPart, ClaimPart, Claiming
<1>3. RecPart'
  <2>1. \A m \in Leases : agents[m] = "none" <=> agents'[m] = "none"
    BY DEF Reconcile, ReconLists, ReconReadsRow, ReconDeletes, ReconGivesUp, Destroyed, Agents
  <2>2. rec.lease \in Leases \cup {None} /\ (rec.phase = "leased" => rec.lease \in Leases)
    BY DEF TypeOK, Records, MaybeLease
  <2>. QED BY <1>1, <2>1, <2>2 DEF Inv, AgentInv, RecPart
<1>4. LoosePart'
  <2>1. CASE ReconLists(l)
    <3>1. agents[l] = "live" /\ ~Holds(l) /\ recon' = [agent |-> l, pc |-> "row"]
          /\ UNCHANGED <<agents, deletes>>
      BY <2>1 DEF ReconLists
    <3>2. att[l] # "idle" /\ ~Needed(l)
      <4>1. att[l] # "idle"
        BY <3>1 DEF Inv, AgentInv, RecPart
      <4>2. ASSUME rec.lease = l, rec.phase = "moved" => OldLoop PROVE FALSE
        <5>1. rec.phase \in {"leased", "committing", "moved"}
          BY <4>2 DEF TypeOK, Records, Phases, Agents
        <5>. QED BY <3>1, <4>2, <5>1 DEF Holds, Inv, AgentInv, RecPart
      <4>. QED BY <4>1, <4>2 DEF Needed
    <3>3. \A m \in Leases : Loose(m)' => Loose(m) \/ m = l
      BY <1>1, <3>1 DEF Loose
    <3>. QED BY <1>1, <3>2, <3>3 DEF Inv, AgentInv, LoosePart, Needed
  <2>2. CASE ReconReadsRow(l) \/ ReconDeletes(l) \/ ReconGivesUp(l)
    <3>1. recon.agent = l /\ recon'.agent \in {l, None}
      BY <2>2 DEF ReconReadsRow, ReconDeletes, ReconGivesUp
    <3>2. deletes' \subseteq deletes \cup {l}
      BY <2>2 DEF ReconReadsRow, ReconDeletes, ReconGivesUp
    <3>3. \A m \in Leases : agents'[m] = agents[m] \/ m = l
      BY <2>2 DEF ReconReadsRow, ReconDeletes, ReconGivesUp, Destroyed, Agents
    <3>4. \A m \in Leases : Loose(m)' => Loose(m)
      BY <1>1, <3>1, <3>2, <3>3 DEF Loose, Agents
    <3>. QED BY <1>1, <3>4 DEF Inv, AgentInv, LoosePart, Needed
  <2>. QED BY <2>1, <2>2 DEF Reconcile
<1>. QED BY <1>2, <1>3, <1>4 DEF Inv, AgentInv

LEMMA DeleteThreadInv ==
    ASSUME TypeOK, TypeOK', Inv, DeleteThread
    PROVE  Inv'
<1>. USE NamesAssumption DEF doCalls
<1>1. /\ UNCHANGED <<rec, att, commits, dels, agents, creates, late, recon, direct>>
      /\ thread /\ ~thread' /\ row' = "NoRow"
      /\ deletes' = IF row \in Agents THEN deletes \cup {row} ELSE deletes
  BY DEF DeleteThread
<1>2. RowPart' /\ AnswerPart' /\ TaskPart' /\ ClaimPart'
  BY <1>1 DEF Inv, AgentInv, RowPart, AnswerPart, AnswerOK, TaskPart, ClaimPart
<1>3. RecPart'
  BY <1>1 DEF Inv, AgentInv, RecPart
<1>4. LoosePart'
  <2>. SUFFICES ASSUME NEW m \in Leases, Loose(m)'
                PROVE  att[m] # "idle"
    BY <1>1 DEF LoosePart
  <2>1. Loose(m) \/ m = row
    BY <1>1 DEF Loose
  <2>2. m = row => rec.lease = m
    BY <1>1 DEF Inv, AgentInv, ClaimPart, Claiming
  <2>. QED BY <2>1, <2>2 DEF Inv, AgentInv, LoosePart, RecPart, Agents
<1>. QED BY <1>2, <1>3, <1>4 DEF Inv, AgentInv

\* A thread just made is pinned, and given its own agent: only that agent and the
\* row are touched, and the row holds no agent of an attempt then.
LEMMA NewThreadInv ==
    ASSUME TypeOK, TypeOK', Inv,
           \/ Pin
           \/ \E who \in {"prewarm", "send"} : Rival(who)
    PROVE  Inv'
<1>. USE NamesAssumption DEF org, runtime, doCalls
<1>1. /\ UNCHANGED <<rec, att, commits, dels, thread, creates, deletes, late, recon>>
      /\ \A l \in Leases : agents'[l] = agents[l]
      /\ row' \in {row, "Pinned", Direct}
      /\ row' # row => thread
  <2>1. CASE Pin
    BY <2>1 DEF Pin
  <2>2. ASSUME NEW who \in {"prewarm", "send"}, Rival(who) PROVE <1>1
    <3>1. CASE DirectReads(who)
      BY <3>1 DEF DirectReads
    <3>2. CASE DirectMakes(who)
      BY <3>2 DEF DirectMakes, TypeOK, Agents
    <3>3. CASE DirectRecords(who)
      BY <3>3 DEF DirectRecords, RowAfterClaim
    <3>. QED BY <2>2, <3>1, <3>2, <3>3 DEF Rival
  <2>. QED BY <2>1, <2>2
<1>2. ~OldLoop
  <2>1. ASSUME OldLoop PROVE FALSE
    <3>1. /\ row \in Leases \cup {"NoRow"}
          /\ direct = [who \in {"prewarm", "send"} |-> "idle"]
      BY <2>1 DEF Inv, AgentInv, RowPart
    <3>2. row # "Pinned"
      BY <3>1 DEF Agents
    <3>3. \A who \in {"prewarm", "send"} : direct[who] = "idle"
      BY <3>1
    <3>. QED BY <2>1, <3>2, <3>3 DEF OldLoop, Pin, Rival, DirectReads, DirectMakes, DirectRecords
  <2>. QED BY <2>1
<1>3. RowPart' /\ AnswerPart' /\ TaskPart'
  BY <1>1, <1>2 DEF Inv, AgentInv, RowPart, AnswerPart, AnswerOK, TaskPart
<1>4. ClaimPart'
  <2>1. \A l \in Leases : Claiming(l)' => Claiming(l)
    BY <1>1 DEF Claiming, Agents
  <2>. QED BY <1>1, <2>1 DEF Inv, AgentInv, ClaimPart
<1>5. RecPart'
  <2>1. rec.phase = "leased" => rec.lease \in Leases
    BY DEF TypeOK, Records, MaybeLease
  <2>. QED BY <1>1, <2>1 DEF Inv, AgentInv, RecPart
<1>6. LoosePart'
  BY <1>1 DEF Inv, AgentInv, LoosePart, Loose, Needed
<1>. QED BY <1>3, <1>4, <1>5, <1>6 DEF Inv, AgentInv

LEMMA EnvironmentInv ==
    ASSUME TypeOK, TypeOK', Inv, Environment
    PROVE  Inv'
<1>. USE NamesAssumption DEF org, runtime, doCalls
<1>1. CASE RequestFindsExpired
  <2>1. /\ Fail(rec.lease)
        /\ UNCHANGED <<att, commits, thread, row, agents, creates, deletes, late, recon, direct>>
    BY <1>1 DEF RequestFindsExpired
  <2>2. (Keeps \/ Undoes) /\ QuietCalls
    BY <2>1, FailQuiet, FailCalls DEF Inv
  <2>3. QuietTasks
    BY <2>1, FailQuiet DEF Inv, QuietTasks
  <2>4. QuietAttempts /\ QuietAgents
    BY <2>1 DEF QuietAttempts, QuietAgents
  <2>. QED BY <2>1, <2>2, <2>3, <2>4, QuietStep DEF Quiet
<1>2. CASE RequestRedrives
  <2>1. Quiet /\ QuietTasks
    BY <1>2 DEF RequestRedrives, Quiet, Keeps, QuietAttempts, QuietAgents, QuietCalls, QuietTasks
  <2>. QED BY <2>1, QuietStep
<1>3. CASE LeaseRunsOut \/ BackoffEnds \/ KeySettles
  <2>1. Keeps
    BY <1>3 DEF LeaseRunsOut, BackoffEnds, KeySettles, Keeps, TypeOK, Records
  <2>2. UNCHANGED <<att, commits, dels, thread, row, agents, creates, deletes, late, recon, direct>>
    BY <1>3 DEF LeaseRunsOut, BackoffEnds, KeySettles
  <2>3. Quiet /\ QuietTasks
    BY <2>1, <2>2 DEF Quiet, QuietAttempts, QuietAgents, QuietCalls, QuietTasks
  <2>. QED BY <2>3, QuietStep
<1>4. CASE AlarmFires BY <1>4, AlarmInv
<1>5. CASE Restart BY <1>5, RestartInv
<1>6. CASE \E l \in Leases : LateClaim(l)
  <2>1. PICK l \in Leases : LateClaim(l)
    BY <1>6
  <2>2. Claiming(l) /\ \A m \in late' : Claiming(m)
    BY <2>1 DEF LateClaim, Claiming
  <2>. QED BY <2>1, <2>2, ClaimStep DEF LateClaim
<1>7. CASE \E l \in Leases : RuntimeCreates(l)
  BY <1>7, RuntimeCreatesInv
<1>8. CASE \E l \in Leases : Reconcile(l)
  BY <1>8, ReconcileInv
<1>9. CASE \E a \in Agents : RuntimeDeletes(a)
  <2>1. PICK a \in Agents : RuntimeDeletes(a)
    BY <1>9
  <2>2. Loose(a) /\ UNCHANGED <<rec, att, commits, dels, thread, row, creates, late, recon, direct>>
    BY <2>1 DEF RuntimeDeletes, Loose
  <2>3. QuietAgents
    BY <2>1, <2>2 DEF RuntimeDeletes, QuietAgents, Destroyed
  <2>4. Quiet /\ QuietTasks
    BY <2>2, <2>3 DEF Quiet, Keeps, QuietAttempts, QuietCalls, QuietTasks
  <2>. QED BY <2>4, QuietStep
<1>10. CASE DeleteThread BY <1>10, DeleteThreadInv
<1>11. CASE Pin \/ \E who \in {"prewarm", "send"} : Rival(who)
  BY <1>11, NewThreadInv
<1>. QED BY <1>1, <1>2, <1>3, <1>4, <1>5, <1>6, <1>7, <1>8, <1>9, <1>10, <1>11
         DEF Environment

-----------------------------------------------------------------------------
LEMMA InvInit ==
    ASSUME Init
    PROVE  Inv
BY NamesAssumption DEF Init, Inv, AgentInv, RowPart, RecPart, LoosePart, Loose, ClaimPart, Claiming,
   AnswerPart, AnswerOK, TaskPart, NoRec, ReconIdle, ReconAt, Agents

LEMMA InvStep ==
    ASSUME TypeOK, TypeOK', Inv, [Next]_vars
    PROVE  Inv'
<1>1. CASE Next
  BY <1>1, NextSplits, AttemptInv, CommitInv, DeleteInv, EnvironmentInv
<1>2. CASE UNCHANGED vars
  BY <1>2 DEF vars, Inv, AgentInv, RowPart, RecPart, LoosePart, Loose, Needed, ClaimPart,
     Claiming, AnswerPart, AnswerOK, TaskPart
<1>. QED BY <1>1, <1>2

LEMMA InvAlways == Spec => [](TypeOK /\ Inv)
<1>1. Init => TypeOK /\ Inv
  BY InitType, InvInit
<1>2. TypeOK /\ Inv /\ [Next]_vars => (TypeOK /\ Inv)'
  BY TypeStep, InvStep
<1>. QED BY <1>1, <1>2, PTL DEF Spec

LEMMA SafeNow ==
    ASSUME TypeOK, Inv
    PROVE  /\ MovingAgentSafe /\ ClaimsAgree
           /\ OldLoop => RowAgentSafe /\ MovedHasAgent
<1>. USE NamesAssumption
<1>0. /\ rec.lease \in MaybeLease
      /\ rec.phase \in {"leased", "committing", "moved"} => rec.lease \in Leases
  BY DEF TypeOK, Records, MaybeLease
<1>1. \A l \in Leases : ~Loose(l) => agents[l] # "deleted" /\ ~Condemned(l)
  BY DEF Loose, Condemned, ReconAt
<1>2. ASSUME OldLoop PROVE RowAgentSafe
  <2>. SUFFICES ASSUME row \in Agents
                PROVE  agents[row] = "live" /\ ~Condemned(row)
    BY DEF RowAgentSafe
  <2>1. row \in Leases /\ thread
    BY <1>2 DEF Inv, AgentInv, RowPart, Agents
  <2>2. rec.phase \in {"committing", "moved"} /\ rec.lease = row
    BY <2>1 DEF Inv, AgentInv, ClaimPart, Claiming
  <2>3. ~Loose(row)
    BY <1>2, <2>1, <2>2 DEF Inv, AgentInv, LoosePart, Needed
  <2>4. agents[row] # "none"
    BY <1>2, <2>1, <2>2 DEF Inv, AgentInv, RecPart
  <2>. QED BY <1>1, <2>1, <2>3, <2>4 DEF TypeOK, Agents
<1>3. MovingAgentSafe
  BY <1>0, <1>1 DEF MovingAgentSafe, Inv, AgentInv, LoosePart, Needed
<1>4. ClaimsAgree
  <2>. SUFFICES ASSUME thread, NEW l \in late \cup {c.lease : c \in {d \in commits : d.pc = "claim"}}
                PROVE  rec.phase \in {"committing", "moved"} /\ rec.lease = l
    BY DEF ClaimsAgree
  <2>1. l \in Leases /\ Claiming(l)
    BY DEF TypeOK, CommitCalls, Claiming
  <2>. QED BY <2>1 DEF Inv, AgentInv, ClaimPart
<1>5. OldLoop => MovedHasAgent
  BY DEF MovedHasAgent, Inv, AgentInv, AnswerPart, RecPart
<1>. QED BY <1>2, <1>3, <1>4, <1>5

(* No agent the thread's row holds is ever deleted, or about to be: not by  *)
(* the clean-up of this move or an earlier one, not by the reconciler,      *)
(* whatever they read before the row was claimed.                           *)
THEOREM RowAgentIsSafe ==
    ASSUME Origin = "old"
    PROVE  Spec => []RowAgentSafe
<1>1. TypeOK /\ Inv => RowAgentSafe
  BY SafeNow DEF OldLoop
<1>. QED BY <1>1, InvAlways, PTL

(* Nothing deletes the agent of a move that may still commit, not of a      *)
(* thread just made either, whatever its pin and its own agent come to.     *)
THEOREM MovingAgentIsSafe == Spec => []MovingAgentSafe
BY InvAlways, SafeNow, PTL

(* However often the commit is driven again, and however late a claim is    *)
(* carried out, the DO only ever claims the row for one agent.              *)
THEOREM ClaimsAlwaysAgree == Spec => []ClaimsAgree
BY InvAlways, SafeNow, PTL

(* A move is final only with its agent in the row.                          *)
THEOREM MovedThreadHasAgent ==
    ASSUME Origin = "old"
    PROVE  Spec => []MovedHasAgent
<1>1. TypeOK /\ Inv => MovedHasAgent
  BY SafeNow DEF OldLoop
<1>. QED BY <1>1, InvAlways, PTL

-----------------------------------------------------------------------------
(* The refinement: a step gives the thread its agent, deletes an agent it   *)
(* does not hold, deletes the thread, or changes nothing of its home.       *)

Claims == /\ UNCHANGED <<thread, agents>>
          /\ \E l \in Leases : Claiming(l) /\ row' = RowAfterClaim(l)
Deletes == /\ UNCHANGED <<thread, row>>
           /\ \E a \in Agents : Loose(a) /\ agents' = Destroyed({a})
Stays == /\ UNCHANGED <<thread, row>>
         /\ \A a \in Agents : agents'[a] = "deleted" <=> agents[a] = "deleted"
Removes == /\ thread /\ ~thread' /\ row' = "NoRow" /\ UNCHANGED agents

LEMMA StepKinds ==
    ASSUME Origin = "old", TypeOK, Inv, Next
    PROVE  Claims \/ Deletes \/ Stays \/ Removes
<1>. USE NamesAssumption DEF org, runtime, doCalls, OldLoop
<1>1. ASSUME NEW l \in Leases, Attempt(l) PROVE Stays
  BY <1>1 DEF Attempt, StartLease, ExportFails, SendCreate, CreateAnswered, CreateFails,
              ArchiveKept, ArchiveFails, Stays
<1>2. ASSUME NEW c \in commits, Commit(c) PROVE Claims \/ Stays
  <2>1. c.lease \in Leases /\ Claiming(c.lease)
    BY DEF TypeOK, CommitCalls, Claiming
  <2>2. CASE OrgClaims(c)
    BY <2>1, <2>2 DEF OrgClaims, Claims
  <2>3. CASE ClaimFails(c)
    BY <2>1, <2>3 DEF ClaimFails, Claims, Stays
  <2>4. CASE ClaimTimesOut(c) \/ ReadBack(c) \/ ReadBackFails(c) \/ CommitAnswered(c)
    BY <2>4 DEF ClaimTimesOut, ReadBack, ReadBackFails, CommitAnswered, Stays
  <2>. QED BY <1>2, <2>2, <2>3, <2>4 DEF Commit
<1>3. ASSUME NEW t \in dels, Delete(t) PROVE Deletes \/ Stays
  <2>1. t.cand \in Leases /\ Loose(t.cand)
    BY DEF TypeOK, DeleteCalls, Loose
  <2>2. CASE DeleteAnswered(t)
    BY <2>1, <2>2 DEF DeleteAnswered, Deletes, Agents
  <2>3. CASE DeleteReadsRow(t) \/ DeleteChecks(t) \/ DeleteFails(t)
    BY <2>3 DEF DeleteReadsRow, DeleteChecks, DeleteFails, Stays
  <2>. QED BY <1>3, <2>2, <2>3 DEF Delete
<1>4. ASSUME NEW l \in Leases, LateClaim(l) \/ RuntimeCreates(l) \/ Reconcile(l)
      PROVE  Claims \/ Deletes \/ Stays
  <2>1. CASE LateClaim(l)
    BY <2>1 DEF LateClaim, Claiming, Claims, Stays
  <2>2. CASE RuntimeCreates(l)
    BY <2>2 DEF RuntimeCreates, Stays, TypeOK, Agents
  <2>3. CASE ReconDeletes(l)
    BY <2>3 DEF ReconDeletes, ReconAt, Loose, Deletes, Agents
  <2>4. CASE ReconLists(l) \/ ReconReadsRow(l) \/ ReconGivesUp(l)
    BY <2>4 DEF ReconLists, ReconReadsRow, ReconGivesUp, Stays
  <2>. QED BY <1>4, <2>1, <2>2, <2>3, <2>4 DEF Reconcile
<1>5. ASSUME NEW a \in Agents, RuntimeDeletes(a) PROVE Deletes \/ Stays
  BY <1>5 DEF RuntimeDeletes, Deletes, Stays, Loose
<1>6. CASE RequestFindsExpired \/ RequestRedrives \/ LeaseRunsOut \/ BackoffEnds
           \/ KeySettles \/ AlarmFires \/ Restart
  BY <1>6 DEF RequestFindsExpired, RequestRedrives, LeaseRunsOut, BackoffEnds, KeySettles,
              AlarmFires, Restart, Stays
<1>7. CASE DeleteThread
  BY <1>7 DEF DeleteThread, Removes
<1>8. ~Pin
  BY DEF Pin
<1>9. ~ \E who \in {"prewarm", "send"} : Rival(who)
  BY DEF Rival, DirectReads, DirectMakes, DirectRecords, Inv, AgentInv, RowPart, Agents
<1>. QED BY <1>1, <1>2, <1>3, <1>4, <1>5, <1>6, <1>7, <1>8, <1>9 DEF Next

LEMMA HomeInit ==
    ASSUME Init
    PROVE  Home!Init
BY NamesAssumption DEF Init, Home!Init, HomeOf, HeldByRow, DeadAgents, Agents

LEMMA HomeStep ==
    ASSUME Origin = "old", TypeOK, Inv, TypeOK', Inv', [Next]_vars
    PROVE  [Home!Next]_Home!vars
<1>. USE NamesAssumption DEF OldLoop
<1>0. /\ row \in Leases \cup {"NoRow"} /\ row' \in Leases \cup {"NoRow"}
      /\ ~thread => row = "NoRow"
      /\ \A l \in Leases : l \in Agents /\ l # "NoRow"
      /\ "NoRow" \notin Agents
  BY DEF Inv, AgentInv, RowPart, Agents
<1>1. /\ HeldByRow = IF row \in Leases THEN row ELSE None
      /\ HeldByRow' = IF row' \in Leases THEN row' ELSE None
      /\ HomeOf = IF ~thread THEN "gone" ELSE IF row \in Leases THEN "runtime" ELSE "here"
      /\ HomeOf' = IF ~thread' THEN "gone" ELSE IF row' \in Leases THEN "runtime" ELSE "here"
  BY <1>0 DEF HeldByRow, HomeOf
<1>2. CASE Claims
  <2>1. UNCHANGED DeadAgents
    BY <1>2 DEF Claims, DeadAgents
  <2>2. PICK l \in Leases : Claiming(l) /\ row' = RowAfterClaim(l)
    BY <1>2 DEF Claims
  <2>3. UNCHANGED thread
    BY <1>2 DEF Claims
  <2>4. CASE thread /\ row = "NoRow"
    <3>1. row' = l
      BY <2>2, <2>3, <2>4, ClaimTakes
    <3>2. ~Loose(l)
      BY <2>2, <2>4 DEF Inv, AgentInv, ClaimPart, LoosePart, Needed
    <3>3. l \notin DeadAgents
      BY <3>2 DEF Loose, DeadAgents
    <3>4. HomeOf = "here" /\ HomeOf' = "runtime" /\ HeldByRow' = l
      BY <1>0, <1>1, <2>3, <2>4, <3>1
    <3>5. Home!Give(l)
      BY <2>1, <3>3, <3>4 DEF Home!Give
    <3>. QED BY <1>0, <3>5 DEF Home!Next
  <2>5. CASE ~(thread /\ row = "NoRow")
    <3>1. UNCHANGED row
      BY <1>0, <2>2, <2>3, <2>5, ClaimTakes
    <3>. QED BY <1>1, <2>1, <2>3, <3>1 DEF Home!vars
  <2>. QED BY <2>4, <2>5
<1>3. CASE Deletes
  <2>1. UNCHANGED <<HomeOf, HeldByRow>>
    BY <1>1, <1>3 DEF Deletes
  <2>2. PICK a \in Agents : Loose(a) /\ agents' = Destroyed({a})
    BY <1>3 DEF Deletes
  <2>3. CASE agents[a] = "live"
    <3>1. DeadAgents' = DeadAgents \cup {a} /\ a \notin DeadAgents
      BY <2>2, <2>3 DEF DeadAgents, Destroyed
    <3>2. a # HeldByRow
      <4>. SUFFICES ASSUME a = row, row \in Leases PROVE FALSE
        BY <1>1 DEF Agents
      <4>1. rec.lease = row /\ thread
        BY <1>0 DEF Inv, AgentInv, ClaimPart, Claiming
      <4>. QED BY <2>2, <4>1 DEF Inv, AgentInv, LoosePart, Needed
    <3>3. Home!Destroy(a)
      BY <2>1, <3>1, <3>2 DEF Home!Destroy
    <3>. QED BY <3>3 DEF Home!Next
  <2>4. CASE agents[a] # "live"
    <3>1. UNCHANGED DeadAgents
      BY <2>2, <2>4 DEF DeadAgents, Destroyed
    <3>. QED BY <2>1, <3>1 DEF Home!vars
  <2>. QED BY <2>3, <2>4
<1>4. CASE Stays
  <2>1. UNCHANGED <<HomeOf, HeldByRow>>
    BY <1>1, <1>4 DEF Stays
  <2>2. UNCHANGED DeadAgents
    BY <1>4 DEF Stays, DeadAgents
  <2>. QED BY <2>1, <2>2 DEF Home!vars
<1>5. CASE Removes
  <2>1. UNCHANGED DeadAgents
    BY <1>5 DEF Removes, DeadAgents
  <2>2. HomeOf # "gone" /\ HomeOf' = "gone" /\ HeldByRow' = None
    BY <1>0, <1>1, <1>5 DEF Removes
  <2>3. Home!Remove
    BY <2>1, <2>2 DEF Home!Remove
  <2>. QED BY <2>3 DEF Home!Next
<1>6. CASE UNCHANGED vars
  BY <1>6 DEF vars, HomeOf, HeldByRow, DeadAgents, Home!vars
<1>. QED BY <1>2, <1>3, <1>4, <1>5, <1>6, StepKinds

(* The move is given its agent once and for good, and neither then nor      *)
(* before is that agent destroyed: the whole of the DO, OrgDO, the runtime  *)
(* and the reconciler together do what ThreadHome says.                     *)
THEOREM MoveImplementsHome ==
    ASSUME Origin = "old"
    PROVE  Spec => ImplementsHome
<1>1. Init => Home!Init
  BY HomeInit
<1>2. TypeOK /\ Inv /\ (TypeOK /\ Inv)' /\ [Next]_vars => [Home!Next]_Home!vars
  BY HomeStep
<1>. QED BY <1>1, <1>2, InvAlways, PTL DEF Spec, ImplementsHome, Home!Spec

=============================================================================
