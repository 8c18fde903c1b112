---------------------- MODULE ThreadMigrationStepProofs ----------------------
(***************************************************************************)
(* Proofs of what a step of a move may not do: undo a commit, or forget an *)
(* agent it made.                                                          *)
(***************************************************************************)
EXTENDS ThreadMigrationProofs

-----------------------------------------------------------------------------
(* The leftovers *)

\* Leftovers are cleared before an attempt goes on to its key, and none are kept past
\* prepare().
CleanPart ==
    /\ rec.phase \in {"none", "committing", "moved"} => rec.orphan = None /\ rec.okey = None
    /\ rec.phase = "leased" /\ (\/ rec.key \/ rec.agent # None
                                \/ att[rec.lease] \in {"export", "create", "archive"})
          => rec.orphan = None /\ rec.okey = None
    /\ rec.phase = "leased" /\ att[rec.lease] = "clear" => ~rec.key /\ rec.agent = None

\* An orphan was made.
OrphanPart == rec.orphan # None => agents[rec.orphan] # "none"

\* Given the record r and what was made, a clean-up goes from the orphan to the key's
\* agent, deletes what it comes by, and an attempt's own is of the record's leftovers.
\* Once the move is final no clean-up says anything of the record any more: the spare
\* agent of a thread just made may even be found in the row.
Fits(t, r, made) ==
    /\ t.orphan # None => made[t.orphan] # "none"
    /\ t.owner # "spare" =>
          \/ t.cand = t.orphan /\ t.next = IF t.okey = t.orphan THEN None ELSE t.okey
          \/ /\ t.cand = t.okey /\ t.cand # t.orphan /\ t.next = None
             /\ r.phase # "moved" /\ t.orphan # None /\ t.out = "done" => made[t.orphan] = "deleted"
    /\ r.phase # "moved" /\ t.pc = "check" => t.held # t.cand
    /\ t.owner = "attempt" /\ r.phase = "leased" /\ r.lease = t.lease =>
          r.orphan = t.orphan /\ r.okey = t.okey

LeftInv == CleanPart /\ OrphanPart /\ \A t \in dels : Fits(t, rec, agents)

\* What a step is shown to do: the bodies of CommitStands and LeftoversKept.
Stands == /\ rec.phase = "moved" => UNCHANGED rec
          /\ rec.phase = "committing" /\ thread =>
                rec'.phase \in {"committing", "moved"} /\ rec'.lease = rec.lease
Keeping == \A l \in Leases : AnswersFor(l) /\ ~AnswersFor(l)' =>
              \/ agents'[l] = "deleted"
              \/ rec'.phase = "moved" /\ rec'.agent = l
              \/ \E t \in dels' : t.cand = l
              \/ rec.okey = l /\ rec.settled
Good == LeftInv' /\ Stands /\ Keeping

-----------------------------------------------------------------------------
(* Kinds of steps *)

AgentsOn == \A a \in Leases : /\ agents[a] # "none" => agents'[a] # "none"
                              /\ agents[a] = "deleted" => agents'[a] = "deleted"
AttOn == \A l \in Leases : att'[l] = att[l] \/ att'[l] = "over"
NewFit == \A t \in dels' : t \in dels \/ Fits(t, rec', agents')

\* A final move stays so, and the record's leftovers stay as they are for the attempts
\* whose clean-up is under way.
NamesOn ==
    /\ rec.phase = "moved" => rec'.phase = "moved"
    /\ \A t \in dels : t \in dels' /\ t.owner = "attempt" /\ rec'.phase = "leased" /\ rec'.lease = t.lease =>
           /\ rec.phase = "leased" /\ rec.lease = t.lease
           /\ rec'.orphan = rec.orphan /\ rec'.okey = rec.okey

\* The record stays but for its times.
KeptRec == /\ rec'.phase = rec.phase /\ rec'.lease = rec.lease /\ rec'.key = rec.key
           /\ rec'.agent = rec.agent /\ rec'.orphan = rec.orphan /\ rec'.okey = rec.okey
           /\ rec.phase \in {"committing", "moved"} => UNCHANGED rec

LEMMA TaskNames ==
    ASSUME TypeOK, NEW t \in dels
    PROVE  /\ t.cand \in Leases /\ t.orphan \in Leases \cup {None} /\ t.okey \in Leases \cup {None}
           /\ t.orphan # None => t.orphan \in Agents
BY DEF TypeOK, DeleteCalls, MaybeLease, Agents

LEMMA FitsOn ==
    ASSUME TypeOK, LeftInv, AgentsOn, NamesOn, NEW t \in dels, t \in dels'
    PROVE  Fits(t, rec', agents')
<1>1. Fits(t, rec, agents)
  BY DEF LeftInv
<1>2. t.orphan # None => /\ agents'[t.orphan] # "none"
                         /\ agents[t.orphan] = "deleted" => agents'[t.orphan] = "deleted"
  BY <1>1, TaskNames DEF Fits, AgentsOn
<1>. QED BY <1>1, <1>2 DEF Fits, NamesOn

LEMMA KeptStep ==
    ASSUME TypeOK, LeftInv, AgentsOn, AttOn, KeptRec, NewFit
    PROVE  Good
<1>1. NamesOn
  BY DEF NamesOn, KeptRec
<1>2. \A t \in dels' : Fits(t, rec', agents')
  BY <1>1, FitsOn DEF NewFit
<1>3. CleanPart'
  <2>1. rec.phase = "leased" => rec.lease \in Leases
    BY DEF TypeOK, Records, MaybeLease
  <2>. QED BY <2>1 DEF LeftInv, CleanPart, KeptRec, AttOn
<1>4. OrphanPart'
  <2>1. rec.orphan # None => rec.orphan \in Leases
    BY DEF TypeOK, Records, MaybeLease
  <2>. QED BY <2>1 DEF LeftInv, OrphanPart, KeptRec, AgentsOn
<1>5. Stands
  BY DEF Stands, KeptRec
<1>6. Keeping
  BY DEF Keeping, AnswersFor, KeptRec
<1>. QED BY <1>2, <1>3, <1>4, <1>5, <1>6 DEF Good, LeftInv

\* The calls for leftovers go through them in order.
LEMMA LeftoversFit ==
    ASSUME NEW r, NEW made, NEW owner, NEW l, NEW o, NEW k, o # None => made[o] # "none",
           owner = "attempt" /\ r.phase = "leased" /\ r.lease = l => r.orphan = o /\ r.okey = k,
           NEW t \in Leftovers(owner, l, o, k)
    PROVE  Fits(t, r, made)
<1>1. CASE o # None
  <2>1. t = Deleting(owner, l, o, k, o, IF k = o THEN None ELSE k)
    BY <1>1 DEF Leftovers
  <2>. QED BY <2>1 DEF Deleting, Fits
<1>2. CASE o = None
  <2>1. t = Deleting(owner, l, o, k, k, None) /\ k # None
    BY <1>2 DEF Leftovers
  <2>. QED BY <1>2, <2>1 DEF Deleting, Fits
<1>. QED BY <1>1, <1>2

LEMMA CleanUpFits ==
    ASSUME NEW r, NEW made, NEW s, s.orphan # None => made[s.orphan] # "none", NEW t \in CleanUp(s)
    PROVE  Fits(t, r, made)
BY LeftoversFit DEF CleanUp

-----------------------------------------------------------------------------
(* A lease that is undone *)

LEMMA UndoneStep ==
    ASSUME TypeOK, Inv, LeftInv, rec.phase = "leased", rec' = FailedLease,
           dels' = dels \cup CleanUp(FailedLease), UNCHANGED agents
    PROVE  Good
<1>. USE NamesAssumption
<1>1. /\ rec'.phase = "failed" /\ rec'.agent = None /\ rec'.key = FALSE
      /\ rec'.orphan = IF rec.agent # None THEN rec.agent ELSE rec.orphan
      /\ rec'.okey = IF rec.agent = None /\ rec.key THEN rec.lease ELSE rec.okey
  BY DEF FailedLease, Failed, NoRec
<1>2. /\ rec.agent \in {None, rec.lease} /\ rec.lease \in Leases
      /\ rec.agent # None => agents[rec.agent] # "none"
  BY DEF TypeOK, Records, MaybeLease, Inv, AgentInv, RecPart
<1>4. \A t \in dels' : Fits(t, rec', agents')
  <2>1. NamesOn /\ AgentsOn
    BY <1>1 DEF NamesOn, AgentsOn
  <2>2. \A t \in CleanUp(FailedLease) : Fits(t, rec', agents')
    <3>1. FailedLease.orphan # None => agents'[FailedLease.orphan] # "none"
      BY <1>1, <1>2 DEF LeftInv, OrphanPart
    <3>. QED BY <3>1, CleanUpFits
  <2>. QED BY <2>1, <2>2, FitsOn
<1>5. Keeping
  <2>. SUFFICES ASSUME NEW l \in Leases, AnswersFor(l) PROVE l \in {rec'.orphan, rec'.okey}
    BY DEF Keeping, AnswersFor
  <2>0. /\ l # None
        /\ rec.key \/ rec.agent # None => rec.orphan = None /\ rec.okey = None
    BY DEF Agents, LeftInv, CleanPart
  <2>1. CASE l \in {rec.orphan, rec.okey}
    BY <1>1, <2>0, <2>1
  <2>2. CASE rec.lease = l /\ (rec.key \/ rec.agent = l)
    BY <1>1, <1>2, <2>0, <2>2
  <2>. QED BY <2>1, <2>2 DEF AnswersFor
<1>6. OrphanPart'
  BY <1>1, <1>2 DEF LeftInv, OrphanPart
<1>. QED BY <1>1, <1>4, <1>5, <1>6 DEF Good, LeftInv, CleanPart, Stands

LEMMA FailStep ==
    ASSUME TypeOK, Inv, LeftInv, NEW l, Fail(l), AttOn, UNCHANGED agents
    PROVE  Good
<1>1. CASE rec.phase = "leased" /\ rec.lease = l
  BY <1>1, UndoneStep DEF Fail
<1>2. CASE ~(rec.phase = "leased" /\ rec.lease = l)
  <2>1. UNCHANGED <<rec, dels>>
    BY <1>2 DEF Fail
  <2>. QED BY <2>1, KeptStep DEF AgentsOn, KeptRec, NewFit
<1>. QED BY <1>1, <1>2

-----------------------------------------------------------------------------
(* The attempts *)

LEMMA StartStep ==
    ASSUME TypeOK, Inv, LeftInv, NEW l \in Leases, StartLease(l)
    PROVE  Good
<1>. USE NamesAssumption
<1>1. /\ rec'.phase = "leased" /\ rec'.lease = l /\ ~rec'.key /\ rec'.agent = None
      /\ rec'.orphan = rec.orphan /\ rec'.okey = rec.okey
      /\ att[l] = "idle" /\ rec.phase \in {"none", "failed"}
  BY DEF StartLease, Leased, NoRec
<1>2. /\ att' = [att EXCEPT ![l] = IF HasLeftovers(rec) THEN "clear" ELSE "export"]
      /\ dels' = dels \cup Leftovers("attempt", l, rec.orphan, rec.okey) /\ UNCHANGED agents
  BY DEF StartLease, runtime
<1>3. CleanPart'
  <2>1. att'[l] = IF HasLeftovers(rec) THEN "clear" ELSE "export"
    BY <1>2 DEF TypeOK
  <2>. QED BY <1>1, <2>1 DEF CleanPart, HasLeftovers
<1>4. OrphanPart'
  BY <1>1, <1>2 DEF LeftInv, OrphanPart
<1>5. \A t \in dels' : Fits(t, rec', agents')
  <2>1. NamesOn
    BY <1>1 DEF NamesOn, Inv, TaskPart
  <2>2. \A t \in Leftovers("attempt", l, rec.orphan, rec.okey) : Fits(t, rec', agents')
    BY <1>1, <1>4, LeftoversFit DEF OrphanPart
  <2>. QED BY <1>2, <2>1, <2>2, FitsOn DEF AgentsOn
<1>. QED BY <1>1, <1>3, <1>4, <1>5 DEF Good, LeftInv, Stands, Keeping, AnswersFor

\* An attempt goes on under its lease: the leftovers are cleared by then.
LEMMA OnwardStep ==
    ASSUME TypeOK, Inv, LeftInv, NEW l \in Leases, att[l] \in {"export", "create"}, LeaseHeld(l),
           rec' = [rec EXCEPT !.key = TRUE] \/ rec' = [rec EXCEPT !.agent = l],
           att'[l] \in {"create", "archive"}, UNCHANGED <<dels, agents>>
    PROVE  Good
<1>. USE NamesAssumption
<1>1. /\ rec.phase = "leased" /\ rec.lease = l /\ rec.orphan = None /\ rec.okey = None
      /\ rec.agent \in {None, l}
  BY DEF LeaseHeld, LeftInv, CleanPart, Inv, AgentInv, RecPart
<1>2. /\ rec'.phase = "leased" /\ rec'.lease = l /\ rec'.orphan = None /\ rec'.okey = None
      /\ rec.key => rec'.key
      /\ rec.agent = l => rec'.agent = l
  BY <1>1 DEF TypeOK, Records
<1>3. CleanPart' /\ OrphanPart'
  BY <1>2 DEF CleanPart, OrphanPart
<1>4. \A t \in dels' : Fits(t, rec', agents')
  <2>1. NamesOn /\ AgentsOn
    BY <1>1, <1>2 DEF NamesOn, AgentsOn
  <2>. QED BY <2>1, FitsOn
<1>5. Keeping
  BY <1>1, <1>2 DEF Keeping, AnswersFor
<1>. QED BY <1>1, <1>3, <1>4, <1>5 DEF Good, LeftInv, Stands

LEMMA HandOverStep ==
    ASSUME TypeOK, Inv, LeftInv, NEW l \in Leases, att[l] \in {"create", "archive"}, LeaseHeld(l),
           HandOver(l), UNCHANGED agents
    PROVE  Good
<1>. USE NamesAssumption
<1>1. rec.phase = "leased" /\ rec.lease = l /\ rec.orphan = None /\ rec.okey = None
  BY DEF LeaseHeld, LeftInv, CleanPart
<1>2. rec'.phase = "committing" /\ rec'.lease = l /\ rec'.orphan = None /\ rec'.okey = None
  BY DEF HandOver, Committing, NoRec
<1>3. CleanPart' /\ OrphanPart'
  BY <1>2 DEF CleanPart, OrphanPart
<1>4. \A t \in dels' : Fits(t, rec', agents')
  <2>1. NamesOn /\ AgentsOn /\ UNCHANGED dels
    BY <1>1, <1>2 DEF NamesOn, AgentsOn, HandOver
  <2>. QED BY <2>1, FitsOn
<1>5. Keeping
  BY <1>1, <1>2 DEF Keeping, AnswersFor
<1>. QED BY <1>1, <1>3, <1>4, <1>5 DEF Good, LeftInv, Stands

\* A step that leaves the record, the clean-ups and the agents.
LEMMA ElseStep ==
    ASSUME TypeOK, LeftInv, AttOn, UNCHANGED <<rec, dels, agents>>
    PROVE  Good
BY KeptStep DEF AgentsOn, KeptRec, NewFit

LEMMA EndOn == ASSUME TypeOK, NEW l \in Leases, End(l) PROVE AttOn
BY DEF TypeOK, End, AttOn

LEMMA AttemptStep ==
    ASSUME TypeOK, Inv, LeftInv, NEW l \in Leases, Attempt(l)
    PROVE  Good
<1>. USE DEF runtime
<1>1. CASE ExportFails(l) \/ CreateFails(l) \/ ArchiveFails(l)
  BY <1>1, FailStep, EndOn DEF ExportFails, CreateFails, ArchiveFails
<1>2. CASE SendCreate(l)
  <2>1. CASE LeaseHeld(l)
    <3>1. att'[l] = "create"
      BY <1>2, <2>1 DEF SendCreate, TypeOK
    <3>. QED BY <1>2, <2>1, <3>1, OnwardStep DEF SendCreate
  <2>2. CASE ~LeaseHeld(l)
    BY <1>2, <2>2, ElseStep, EndOn DEF SendCreate
  <2>. QED BY <2>1, <2>2
<1>3. CASE CreateAnswered(l)
  <2>1. CASE LeaseHeld(l) /\ rec' = [rec EXCEPT !.agent = l] /\ att' = [att EXCEPT ![l] = "archive"] /\ UNCHANGED dels
    <3>1. att'[l] = "archive"
      BY <2>1 DEF TypeOK
    <3>. QED BY <1>3, <2>1, <3>1, OnwardStep DEF CreateAnswered
  <2>2. CASE LeaseHeld(l) /\ HandOver(l)
    BY <1>3, <2>2, HandOverStep DEF CreateAnswered
  <2>3. CASE ~LeaseHeld(l)
    BY <1>3, <2>3, ElseStep, EndOn DEF CreateAnswered
  <2>. QED BY <1>3, <2>1, <2>2, <2>3 DEF CreateAnswered
<1>4. CASE ArchiveKept(l)
  <2>1. CASE LeaseHeld(l)
    BY <1>4, <2>1, HandOverStep DEF ArchiveKept
  <2>2. CASE ~LeaseHeld(l)
    BY <1>4, <2>2, FailStep, EndOn DEF ArchiveKept
  <2>. QED BY <2>1, <2>2
<1>. QED BY <1>1, <1>2, <1>3, <1>4, StartStep DEF Attempt

-----------------------------------------------------------------------------
(* The commits *)

LEMMA SettledStep ==
    ASSUME TypeOK, Inv, LeftInv, NEW c \in commits, CommitAnswered(c), StillCommitting(c), c.out # "NoRow"
    PROVE  Good
<1>. USE NamesAssumption
<1>1. /\ rec.phase = "committing" /\ rec.lease = c.lease /\ rec.orphan = None /\ rec.okey = None
      /\ c.lease \in Leases /\ agents[c.lease] # "none" /\ UNCHANGED agents
      /\ c.out = "Gone" => ~thread
  BY DEF StillCommitting, LeftInv, CleanPart, TypeOK, CommitCalls, Inv, AgentInv, RecPart, AnswerPart,
         AnswerOK, CommitAnswered, runtime
<1>2. CASE rec' = Failed(c.lease, None, FALSE, "never") /\ c.out = "Gone"
           /\ dels' = dels \cup CleanUp(Failed(c.lease, None, FALSE, "never"))
  <2>1. rec'.phase = "failed" /\ rec'.orphan = c.lease /\ rec'.okey = None
    BY <1>2 DEF Failed, NoRec
  <2>2. CleanPart' /\ OrphanPart'
    BY <1>1, <2>1 DEF CleanPart, OrphanPart
  <2>3. \A t \in dels' : Fits(t, rec', agents')
    <3>1. NamesOn /\ AgentsOn
      BY <1>1, <2>1 DEF NamesOn, AgentsOn
    <3>2. rec'.orphan # None => agents'[rec'.orphan] # "none"
      BY <2>2 DEF OrphanPart
    <3>3. \A t \in CleanUp(rec') : Fits(t, rec', agents')
      BY <3>2, CleanUpFits
    <3>. QED BY <1>2, <3>1, <3>3, FitsOn
  <2>4. Keeping
    BY <1>1, <2>1 DEF Keeping, AnswersFor
  <2>. QED BY <1>1, <1>2, <2>2, <2>3, <2>4 DEF Good, LeftInv, Stands
<1>3. ASSUME NEW a, rec' = Moved(c.lease, a),
             \/ a = c.lease /\ UNCHANGED dels
             \/ dels' = dels \cup Spare(c.lease)
      PROVE  Good
  <2>1. /\ rec'.phase = "moved" /\ rec'.lease = c.lease /\ rec'.agent = a
        /\ rec'.orphan = None /\ rec'.okey = None
    BY <1>3 DEF Moved, NoRec
  <2>2. CleanPart' /\ OrphanPart'
    BY <2>1 DEF CleanPart, OrphanPart
  <2>3. \A t \in dels' : Fits(t, rec', agents')
    <3>1. NamesOn /\ AgentsOn
      BY <1>1, <2>1 DEF NamesOn, AgentsOn
    <3>2. \A t \in Spare(c.lease) : Fits(t, rec', agents')
      BY DEF Spare, Deleting, Fits
    <3>. QED BY <1>3, <3>1, <3>2, FitsOn
  <2>4. Keeping
    <3>1. \A t \in Spare(c.lease) : t.cand = c.lease
      BY DEF Spare, Deleting
    <3>2. Spare(c.lease) # {}
      BY DEF Spare
    <3>. QED BY <1>1, <1>3, <2>1, <3>1, <3>2 DEF Keeping, AnswersFor
  <2>. QED BY <1>1, <2>1, <2>2, <2>3, <2>4 DEF Good, LeftInv, Stands
<1>. QED BY <1>2, <1>3 DEF CommitAnswered

LEMMA CommitStep ==
    ASSUME TypeOK, Inv, LeftInv, NEW c \in commits, Commit(c)
    PROVE  Good
<1>. USE DEF runtime, org
<1>1. CASE CommitAnswered(c) /\ StillCommitting(c) /\ c.out # "NoRow"
  BY <1>1, SettledStep
<1>2. CASE CommitAnswered(c) /\ ~(StillCommitting(c) /\ c.out # "NoRow")
  <2>0. "NoRow" \notin Agents \cup {"Pinned", "Gone"} /\ c.lease \in Agents
    BY NamesAssumption DEF TypeOK, CommitCalls, Agents
  <2>1. UNCHANGED <<rec, dels, agents, att>>
    BY <1>2, <2>0 DEF CommitAnswered
  <2>. QED BY <2>1, ElseStep DEF AttOn
<1>3. CASE OrgClaims(c) \/ ClaimFails(c) \/ ClaimTimesOut(c) \/ ReadBack(c) \/ ReadBackFails(c)
  <2>1. UNCHANGED <<rec, dels, agents, att>>
    BY <1>3 DEF OrgClaims, ClaimFails, ClaimTimesOut, ReadBack, ReadBackFails
  <2>. QED BY <2>1, ElseStep DEF AttOn
<1>. QED BY <1>1, <1>2, <1>3 DEF Commit

-----------------------------------------------------------------------------
(* The clean-ups *)

\* The row holds nobody that may be deleted before the move is final.
LEMMA HeldElsewhere ==
    ASSUME TypeOK, Inv, NEW t \in dels, rec.phase # "moved"
    PROVE  HeldByRow # t.cand
<1>. USE NamesAssumption
<1>1. t.cand \in Leases /\ Loose(t.cand)
  BY TaskNames DEF Loose
<1>2. CASE row = t.cand
  <2>1. thread
    BY <1>1, <1>2 DEF Inv, AgentInv, RowPart, Agents
  <2>. QED BY <1>1, <1>2, <2>1 DEF Inv, AgentInv, LoosePart, Needed, ClaimPart, Claiming
<1>3. CASE row # t.cand
  BY <1>1, <1>3 DEF HeldByRow, Agents
<1>. QED BY <1>2, <1>3

\* What a clean-up that is done has found of the candidate it was at.
Outcome(t, out) ==
    rec.phase # "moved" /\ t.owner # "spare" /\ out = "done" =>
        /\ t.out = "done"
        /\ t.cand = t.orphan => agents'[t.cand] = "deleted"
        /\ t.cand # t.orphan => agents'[t.cand] = "deleted" \/ rec.settled

LEMMA AllDeleted ==
    ASSUME TypeOK, LeftInv, AgentsOn, NEW t \in dels, NEW out, Outcome(t, out), t.owner # "spare", out = "done",
           rec.phase # "moved", t.next = None, NEW l \in Leases, l \in {t.orphan, t.okey}
    PROVE  agents'[l] = "deleted" \/ (l = t.okey /\ rec.settled)
<1>. USE NamesAssumption
<1>0. l # None /\ l \in Agents
  BY DEF Agents
<1>1. Fits(t, rec, agents)
  BY DEF LeftInv
<1>2. CASE t.cand = t.orphan
  BY <1>0, <1>1, <1>2, TaskNames DEF Fits, Outcome
<1>3. CASE t.cand # t.orphan
  <2>1. t.cand = t.okey /\ (t.orphan # None => agents[t.orphan] = "deleted")
    BY <1>1, <1>3 DEF Fits, Outcome
  <2>2. CASE l = t.okey
    BY <1>3, <2>1, <2>2 DEF Outcome
  <2>3. CASE l = t.orphan
    BY <1>0, <2>1, <2>3 DEF AgentsOn
  <2>. QED BY <2>2, <2>3
<1>. QED BY <1>2, <1>3

LEMMA FinishStep ==
    ASSUME TypeOK, Inv, LeftInv, AgentsOn, NEW t \in dels, NEW out, Finish(t, out),
           out = "done" => t.next = None /\ Outcome(t, out)
    PROVE  Good
<1>. USE NamesAssumption
<1>0. dels' = dels \ {t} /\ NewFit
  BY DEF Finish, NewFit
<1>1. CASE t.owner = "clean" /\ Names(rec, t) /\ out = "done"
  <2>1. rec' = NoLeftovers(rec) /\ UNCHANGED att
    BY <1>1 DEF Finish
  <2>2. /\ rec.phase = "failed" /\ rec'.phase = "failed" /\ rec'.orphan = None /\ rec'.okey = None
        /\ rec.orphan = t.orphan /\ rec.okey = t.okey
    BY <1>1, <2>1 DEF Names, NoLeftovers, TypeOK, Records
  <2>3. \A u \in dels' : Fits(u, rec', agents')
    <3>1. NamesOn
      BY <2>2 DEF NamesOn
    <3>. QED BY <1>0, <3>1, FitsOn
  <2>4. Keeping
    BY <1>1, <2>2, AllDeleted DEF Keeping, AnswersFor
  <2>. QED BY <2>2, <2>3, <2>4 DEF Good, LeftInv, CleanPart, OrphanPart, Stands
<1>2. CASE t.owner = "attempt" /\ LeaseHeld(t.lease) /\ out = "done"
  <2>1. rec' = NoLeftovers(rec) /\ att' = [att EXCEPT ![t.lease] = "export"]
    BY <1>2 DEF Finish
  <2>2. /\ rec.phase = "leased" /\ rec.lease = t.lease
        /\ rec.orphan = t.orphan /\ rec.okey = t.okey
    BY <1>2 DEF LeaseHeld, LeftInv, Fits
  <2>3. /\ rec'.phase = "leased" /\ rec'.lease = t.lease /\ rec'.orphan = None /\ rec'.okey = None
        /\ rec'.key = rec.key /\ rec'.agent = rec.agent
    BY <2>1, <2>2 DEF NoLeftovers, TypeOK, Records
  <2>4. att'[t.lease] = "export"
    BY <1>2, <2>1 DEF TypeOK, Inv, TaskPart
  <2>5. \A u \in dels' : Fits(u, rec', agents')
    <3>1. NamesOn
      BY <1>0, <1>2, <2>2, <2>3 DEF NamesOn, Inv, TaskPart
    <3>. QED BY <1>0, <3>1, FitsOn
  <2>6. Keeping
    BY <1>2, <2>2, <2>3, AllDeleted DEF Keeping, AnswersFor
  <2>. QED BY <2>2, <2>3, <2>4, <2>5, <2>6 DEF Good, LeftInv, CleanPart, OrphanPart, Stands
<1>3. CASE t.owner = "attempt" /\ LeaseHeld(t.lease) /\ out # "done"
  <2>1. rec' = Failed(rec.orphan, rec.okey, rec.settled, "waiting")
    BY <1>3 DEF Finish
  <2>2. rec'.phase = "failed" /\ rec'.orphan = rec.orphan /\ rec'.okey = rec.okey
    BY <2>1 DEF Failed, NoRec
  <2>3. rec.phase = "leased" /\ ~rec.key /\ rec.agent = None
    BY <1>3 DEF LeaseHeld, Inv, TaskPart, LeftInv, CleanPart
  <2>4. \A u \in dels' : Fits(u, rec', agents')
    <3>1. NamesOn
      BY <2>2, <2>3 DEF NamesOn
    <3>. QED BY <1>0, <3>1, FitsOn
  <2>5. Keeping
    BY <2>2, <2>3 DEF Keeping, AnswersFor, Agents
  <2>6. OrphanPart'
    <3>1. rec.orphan # None => rec.orphan \in Leases
      BY DEF TypeOK, Records, MaybeLease
    <3>. QED BY <2>2, <3>1 DEF LeftInv, OrphanPart, AgentsOn
  <2>. QED BY <2>2, <2>3, <2>4, <2>5, <2>6 DEF Good, LeftInv, CleanPart, Stands
<1>4. CASE t.owner = "attempt" /\ ~LeaseHeld(t.lease)
  <2>1. UNCHANGED rec /\ End(t.lease) /\ t.lease \in Leases
    BY <1>4 DEF Finish, Inv, TaskPart
  <2>. QED BY <1>0, <2>1, KeptStep, EndOn DEF KeptRec
<1>5. CASE \/ t.owner = "clean" /\ ~(Names(rec, t) /\ out = "done")
           \/ t.owner = "spare"
  <2>1. UNCHANGED <<rec, att>>
    BY <1>5 DEF Finish
  <2>. QED BY <1>0, <2>1, KeptStep DEF KeptRec, AttOn
<1>6. t.owner \in {"clean", "attempt", "spare"}
  BY DEF TypeOK, DeleteCalls
<1>. QED BY <1>1, <1>2, <1>3, <1>4, <1>5, <1>6

LEMMA ReplaceStep ==
    ASSUME TypeOK, LeftInv, AgentsOn, NEW t \in dels, NEW u, Replace(t, u), Fits(u, rec, agents')
    PROVE  Good
BY KeptStep DEF Replace, KeptRec, AttOn, NewFit

LEMMA AdvanceStep ==
    ASSUME TypeOK, Inv, LeftInv, AgentsOn, NEW t \in dels, NEW out, Advance(t, out), Outcome(t, out)
    PROVE  Good
<1>. USE NamesAssumption
<1>1. CASE t.next = None \/ ~StillOwned(t)
  BY <1>1, FinishStep DEF Advance
<1>2. CASE t.next # None /\ StillOwned(t)
  <2>. DEFINE u == [t EXCEPT !.cand = t.next, !.next = None, !.pc = "read", !.held = None, !.out = out]
  <2>1. Replace(t, u)
    BY <1>2 DEF Advance
  <2>2. /\ u.owner = t.owner /\ u.lease = t.lease /\ u.orphan = t.orphan /\ u.okey = t.okey
        /\ u.cand = t.next /\ u.next = None /\ u.pc = "read" /\ u.out = out
    BY DEF TypeOK, DeleteCalls
  <2>3. Fits(t, rec, agents)
    BY DEF LeftInv
  <2>4. t.orphan # None => agents'[t.orphan] # "none"
    BY <2>3, TaskNames DEF Fits, AgentsOn
  <2>5. t.owner # "spare" => t.cand = t.orphan /\ t.next = t.okey /\ t.okey # t.orphan
    BY <1>2, <2>3 DEF Fits
  <2>. HIDE DEF u
  <2>6. Fits(u, rec, agents')
    BY <2>2, <2>3, <2>4, <2>5 DEF Fits, Outcome
  <2>. QED BY <2>1, <2>6, ReplaceStep
<1>. QED BY <1>1, <1>2

LEMMA DeleteStep ==
    ASSUME TypeOK, Inv, LeftInv, NEW t \in dels, Delete(t)
    PROVE  Good
<1>. USE NamesAssumption DEF runtime
<1>0. Fits(t, rec, agents)
  BY DEF LeftInv
<1>1. CASE DeleteReadsRow(t)
  <2>1. AgentsOn /\ UNCHANGED agents
    BY <1>1 DEF DeleteReadsRow, AgentsOn
  <2>2. CASE Finish(t, "failed")
    BY <2>1, <2>2, FinishStep
  <2>3. CASE Replace(t, [t EXCEPT !.pc = "check", !.held = HeldByRow])
    <3>. DEFINE u == [t EXCEPT !.pc = "check", !.held = HeldByRow]
    <3>1. /\ u.owner = t.owner /\ u.lease = t.lease /\ u.orphan = t.orphan /\ u.okey = t.okey
          /\ u.cand = t.cand /\ u.next = t.next /\ u.out = t.out /\ u.held = HeldByRow
      BY DEF TypeOK, DeleteCalls
    <3>. HIDE DEF u
    <3>2. Fits(u, rec, agents')
      BY <1>0, <2>1, <3>1, HeldElsewhere DEF Fits
    <3>. QED BY <2>1, <2>3, <3>2, ReplaceStep DEF u
  <2>. QED BY <1>1, <2>2, <2>3 DEF DeleteReadsRow
<1>2. CASE DeleteChecks(t)
  <2>1. /\ AgentsOn /\ UNCHANGED agents
        /\ rec.phase # "moved" => t.cand # t.held
    BY <1>0, <1>2 DEF DeleteChecks, AgentsOn, Fits
  <2>2. CASE Finish(t, "failed")
    BY <2>1, <2>2, FinishStep
  <2>3. CASE Replace(t, [t EXCEPT !.pc = "delete", !.held = None])
    <3>. DEFINE u == [t EXCEPT !.pc = "delete", !.held = None]
    <3>1. /\ u.owner = t.owner /\ u.lease = t.lease /\ u.orphan = t.orphan /\ u.okey = t.okey
          /\ u.cand = t.cand /\ u.next = t.next /\ u.out = t.out /\ u.pc = "delete"
      BY DEF TypeOK, DeleteCalls
    <3>. HIDE DEF u
    <3>2. Fits(u, rec, agents')
      BY <1>0, <2>1, <3>1 DEF Fits
    <3>. QED BY <2>1, <2>3, <3>2, ReplaceStep DEF u
  <2>4. CASE rec.phase = "moved" /\ Advance(t, t.out)
    BY <2>1, <2>4, AdvanceStep DEF Outcome
  <2>. QED BY <1>2, <2>1, <2>2, <2>3, <2>4 DEF DeleteChecks
<1>3. CASE DeleteAnswered(t)
  <2>. DEFINE out == IF /\ agents[t.cand] # "live" /\ ByKey(t) /\ t.out = "done" /\ ~rec.settled
                     THEN "settling" ELSE t.out
  <2>1. agents' = Destroyed({t.cand}) /\ Advance(t, out) /\ t.cand \in Agents
    BY <1>3, TaskNames DEF DeleteAnswered, Agents
  <2>2. agents'[t.cand] = IF agents[t.cand] = "live" THEN "deleted" ELSE agents[t.cand]
    BY <2>1 DEF Destroyed
  <2>3. AgentsOn
    BY <2>1 DEF AgentsOn, Agents, Destroyed
  <2>4. Outcome(t, out)
    <3>. SUFFICES ASSUME rec.phase # "moved", t.owner # "spare", out = "done"
                  PROVE  /\ t.out = "done"
                         /\ t.cand = t.orphan => agents'[t.cand] = "deleted"
                         /\ t.cand # t.orphan => agents'[t.cand] = "deleted" \/ rec.settled
      BY DEF Outcome
    <3>1. agents[t.cand] \in {"none", "live", "deleted"}
      BY <2>1 DEF TypeOK
    <3>2. t.cand # None
      BY <2>1
    <3>3. t.cand = t.orphan => agents[t.cand] # "none"
      BY <1>0, <3>2 DEF Fits
    <3>4. t.cand # t.orphan => ByKey(t)
      BY <1>0 DEF Fits, ByKey
    <3>. QED BY <2>2, <3>1, <3>3, <3>4
  <2>. HIDE DEF out
  <2>. QED BY <2>1, <2>3, <2>4, AdvanceStep
<1>4. CASE DeleteFails(t)
  BY <1>4, AdvanceStep DEF DeleteFails, AgentsOn, Outcome
<1>. QED BY <1>1, <1>2, <1>3, <1>4 DEF Delete

-----------------------------------------------------------------------------
(* Time, the alarm, the runtime and OrgDO *)

LEMMA EnvironmentStep ==
    ASSUME TypeOK, Inv, LeftInv, Environment
    PROVE  Good
<1>. USE NamesAssumption DEF runtime, org, doCalls
<1>1. CASE RequestFindsExpired
  BY <1>1, FailStep DEF RequestFindsExpired, AttOn
<1>2. CASE LeaseRunsOut \/ BackoffEnds \/ KeySettles
  <2>1. UNCHANGED <<att, dels, agents>>
    BY <1>2 DEF LeaseRunsOut, BackoffEnds, KeySettles
  <2>2. KeptRec
    BY <1>2 DEF LeaseRunsOut, BackoffEnds, KeySettles, KeptRec, TypeOK, Records, LeftInv, CleanPart
  <2>. QED BY <2>1, <2>2, KeptStep DEF AgentsOn, AttOn, NewFit
<1>3. CASE AlarmFires
  <2>1. UNCHANGED <<att, agents>>
    BY <1>3 DEF AlarmFires
  <2>2. CASE rec.phase = "leased" /\ ~rec.live
    BY <1>3, <2>1, <2>2, FailStep DEF AlarmFires, AttOn
  <2>3. CASE ~(rec.phase = "leased" /\ ~rec.live)
    <3>1. UNCHANGED rec /\ dels' \subseteq dels \cup CleanUp(rec)
      BY <1>3, <2>3 DEF AlarmFires
    <3>2. \A t \in CleanUp(rec) : Fits(t, rec', agents')
      <4>1. rec.orphan # None => agents'[rec.orphan] # "none"
        BY <2>1 DEF LeftInv, OrphanPart
      <4>. QED BY <4>1, CleanUpFits
    <3>. QED BY <2>1, <3>1, <3>2, KeptStep DEF AgentsOn, AttOn, KeptRec, NewFit
  <2>. QED BY <2>2, <2>3
<1>4. CASE Restart
  <2>1. UNCHANGED <<rec, agents>> /\ dels' = {} /\ AttOn
    BY <1>4 DEF Restart, AttOn
  <2>. QED BY <2>1, KeptStep DEF AgentsOn, KeptRec, NewFit
<1>5. CASE RequestRedrives \/ DeleteThread
  <2>1. UNCHANGED <<rec, dels, agents, att>>
    BY <1>5 DEF RequestRedrives, DeleteThread
  <2>. QED BY <2>1, ElseStep DEF AttOn
<1>6. ASSUME NEW l \in Leases, LateClaim(l) \/ ReconLists(l) \/ ReconReadsRow(l) \/ ReconGivesUp(l)
      PROVE  Good
  <2>1. UNCHANGED <<rec, dels, agents, att>>
    BY <1>6 DEF LateClaim, ReconLists, ReconReadsRow, ReconGivesUp
  <2>. QED BY <2>1, ElseStep DEF AttOn
<1>7. ASSUME NEW l \in Leases, RuntimeCreates(l) \/ ReconDeletes(l)
      PROVE  Good
  <2>1. UNCHANGED <<rec, dels, att>> /\ AgentsOn
    BY <1>7 DEF RuntimeCreates, ReconDeletes, Destroyed, AgentsOn, TypeOK, Agents
  <2>. QED BY <2>1, KeptStep DEF AttOn, KeptRec, NewFit
<1>8. ASSUME NEW a \in Agents, RuntimeDeletes(a) PROVE Good
  <2>1. UNCHANGED <<rec, dels, att>> /\ AgentsOn
    BY <1>8 DEF RuntimeDeletes, Destroyed, AgentsOn, Agents
  <2>. QED BY <2>1, KeptStep DEF AttOn, KeptRec, NewFit
<1>9. CASE Pin
  BY <1>9, ElseStep DEF Pin, AttOn
<1>10. ASSUME NEW who \in {"prewarm", "send"}, Rival(who) PROVE Good
  <2>1. CASE DirectReads(who) \/ DirectRecords(who)
    BY <2>1, ElseStep DEF DirectReads, DirectRecords, AttOn
  <2>2. CASE DirectMakes(who)
    <3>1. UNCHANGED <<rec, dels, att>> /\ agents' = [agents EXCEPT ![Direct] = "live"]
      BY <2>2 DEF DirectMakes
    <3>2. AgentsOn
      BY <3>1, NamesAssumption DEF AgentsOn, TypeOK, Agents
    <3>. QED BY <3>1, <3>2, KeptStep DEF AttOn, KeptRec, NewFit
  <2>. QED BY <1>10, <2>1, <2>2 DEF Rival
<1>. QED BY <1>1, <1>2, <1>3, <1>4, <1>5, <1>6, <1>7, <1>8, <1>9, <1>10 DEF Environment, Reconcile

-----------------------------------------------------------------------------
LEMMA LeftInit ==
    ASSUME Init
    PROVE  LeftInv
BY NamesAssumption DEF Init, LeftInv, CleanPart, OrphanPart, NoRec

LEMMA EveryStep ==
    ASSUME TypeOK, Inv, LeftInv, Next
    PROVE  Good
BY NextSplits, AttemptStep, CommitStep, DeleteStep, EnvironmentStep

LEMMA LeftAlways ==
    Spec => [](TypeOK /\ Inv /\ LeftInv)
<1>1. TypeOK /\ Inv /\ LeftInv /\ [Next]_vars => LeftInv'
  <2>1. CASE Next
    BY <2>1, EveryStep DEF Good
  <2>2. CASE UNCHANGED vars
    BY <2>2 DEF vars, LeftInv, CleanPart, OrphanPart, Fits
  <2>. QED BY <2>1, <2>2
<1>. QED BY <1>1, LeftInit, InvAlways, PTL DEF Spec

\* A move past prepare() stays so, and a final one stays as it is, but for the thread's
\* deletion: answers that come late find the record as it was (commit, deleteLeftovers).
THEOREM CommitsStand ==
    Spec => CommitStands
<1>1. TypeOK /\ Inv /\ LeftInv /\ Next => Stands
  BY EveryStep DEF Good
<1>. QED BY <1>1, LeftAlways, PTL DEF Spec, CommitStands, Stands

\* An agent a move made is not forgotten before it is deleted or moved to (fail,
\* deleteLeftovers, commit): what an attempt leaves is kept through every later one, and
\* a create that was cut off is waited for until its key settles.
THEOREM LeftoversAreKept ==
    Spec => LeftoversKept
<1>1. TypeOK /\ Inv /\ LeftInv /\ Next => Keeping
  BY EveryStep DEF Good
<1>. QED BY <1>1, LeftAlways, PTL DEF Spec, LeftoversKept, Keeping

=============================================================================
