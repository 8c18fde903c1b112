------------------------- MODULE MirrorOutboxProofs -------------------------
(***************************************************************************)
(* Proofs about MirrorOutbox: any number of entities, events, writes and   *)
(* faults, any limits. That the mirror only moves forward holds for any    *)
(* drains; that no mark is lost and an alarm covers what waits, for the    *)
(* alarm's drain alone (two drains do lose marks).                         *)
(***************************************************************************)
EXTENDS MirrorOutbox, TLAPS

RowRecords == [gen : Nat, due : BOOLEAN]
Takings == [key : Facts, gen : Nat]
CallRecords == [key : Facts, gen : Nat, part : Nat, ver : Nat, val : Nat]
Sendings == [key : Facts, part : Nat, ver : Nat, val : Nat, ok : BOOLEAN]

-----------------------------------------------------------------------------
(* Types, by what changes together *)

BellOK == alarm \in BOOLEAN /\ armed \in BOOLEAN /\ arms \in Nat
OutboxOK == rows \in [Facts -> RowRecords] /\ clock \in Nat /\ drain \in [Drains -> Pass]
MirroredOK == flight \in SUBSET Sendings /\ d1 \in [Slots -> Nat] /\ ledger \in [Keys -> Nat]
OwnerOK == fact \in [Facts -> Nat] /\ owner \in {"here", "wiped", "purged"}
CountsOK == writes \in Nat /\ faults \in Nat

LEMMA Types == TypeOK <=> BellOK /\ OutboxOK /\ MirroredOK /\ OwnerOK /\ CountsOK
BY DEF TypeOK, BellOK, OutboxOK, MirroredOK, OwnerOK, CountsOK, RowRecords, Sendings

LEMMA TypesNext == TypeOK' <=> BellOK' /\ OutboxOK' /\ MirroredOK' /\ OwnerOK' /\ CountsOK'
BY DEF TypeOK, BellOK, OutboxOK, MirroredOK, OwnerOK, CountsOK, RowRecords, Sendings

LEMMA Kept == ASSUME TypeOK
              PROVE  /\ UNCHANGED bell => BellOK'
                     /\ UNCHANGED outbox => OutboxOK'
                     /\ UNCHANGED mirrored => MirroredOK'
                     /\ UNCHANGED <<fact, owner>> => OwnerOK'
                     /\ UNCHANGED <<writes, faults>> => CountsOK'
<1>1. BellOK /\ OutboxOK /\ MirroredOK /\ OwnerOK /\ CountsOK
  BY Types
<1>2. UNCHANGED bell => BellOK'
  BY <1>1 DEF BellOK, bell
<1>3. UNCHANGED outbox => OutboxOK'
  BY <1>1 DEF OutboxOK, outbox
<1>4. UNCHANGED mirrored => MirroredOK'
  BY <1>1 DEF MirroredOK, mirrored
<1>5. UNCHANGED <<fact, owner>> => OwnerOK'
  BY <1>1 DEF OwnerOK
<1>6. UNCHANGED <<writes, faults>> => CountsOK'
  BY <1>1 DEF CountsOK
<1>. QED BY <1>2, <1>3, <1>4, <1>5, <1>6

LEMMA StreakRange == 0 \in 0 .. MaxStreak - 1
BY OutboxConstants

LEMMA IdlePass == Idle \in Pass
BY StreakRange DEF Idle, Pass

LEMMA QueuedFacts == Queued \in SUBSET Facts /\ Due \in SUBSET Facts
BY DEF Queued, Due

LEMMA MarkType == ASSUME TypeOK, NEW S, MarkDirty(S) PROVE BellOK' /\ OutboxOK'
<1>1. \A k \in Facts : rows[k] \in RowRecords /\ [rows[k] EXCEPT !.gen = @ + 1] \in RowRecords
  BY DEF TypeOK, RowRecords
<1>2. rows' \in [Facts -> RowRecords]
  BY <1>1 DEF MarkDirty, Marked
<1>3. OutboxOK'
  BY <1>2, Types DEF MarkDirty, OutboxOK
<1>4. armed = TRUE \/ armed = FALSE
  BY DEF TypeOK
<1>5. CASE armed = TRUE
  <2>1. UNCHANGED bell
    BY <1>5 DEF MarkDirty, Armed
  <2>. QED BY <1>3, <2>1, Kept
<1>6. CASE armed = FALSE
  <2>1. armed' = TRUE /\ arms' = arms + 1 /\ alarm' = alarm
    BY <1>6 DEF MarkDirty, Armed
  <2>. QED BY <1>3, <2>1, Types DEF BellOK
<1>. QED BY <1>4, <1>5, <1>6

LEMMA TakeType == ASSUME TypeOK, NEW d \in Drains, NEW from \in SUBSET Facts, Take(d, from)
                  PROVE  drain' \in [Drains -> Pass]
<1>1. PICK S \in SUBSET from : drain' = [drain EXCEPT ![d] =
               [Idle EXCEPT !.on = TRUE, !.todo = {[key |-> k, gen |-> rows[k].gen] : k \in S}]]
  BY DEF Take
<1>2. {[key |-> k, gen |-> rows[k].gen] : k \in S} \in SUBSET Takings
  BY DEF TypeOK, Takings
<1>3. [Idle EXCEPT !.on = TRUE, !.todo = {[key |-> k, gen |-> rows[k].gen] : k \in S}] \in Pass
  BY <1>2, StreakRange DEF Idle, Pass, Takings
<1>. QED BY <1>1, <1>3 DEF TypeOK

LEMMA UnmarkType == ASSUME TypeOK, NEW k, NEW gen PROVE Unmark(k, gen) \in [Facts -> RowRecords]
BY DEF TypeOK, Unmark, NoRow, RowRecords

LEMMA PassFields == ASSUME TypeOK, NEW d \in Drains
                    PROVE  /\ drain[d] \in Pass /\ drain[d].todo \in SUBSET Takings
                           /\ drain[d].call \in CallRecords \cup {NoCall}
                           /\ Waiting(d) => drain[d].call \in CallRecords
BY DEF TypeOK, Pass, Takings, CallRecords, Waiting

LEMMA SentType == ASSUME NEW c \in CallRecords PROVE Sent(c) \in Sendings
BY DEF Sent, CallRecords, Sendings

-----------------------------------------------------------------------------
(* What the steps of a drain do, field by field *)

\* The call that a pass makes for the row r it took.
CallFor(r) == [key |-> r.key, gen |-> r.gen, part |-> 1,
               ver |-> IF r.key \in Keys THEN NextVersion ELSE 0, val |-> fact[r.key]]

LEMMA SendStep ==
    ASSUME TypeOK, NEW d \in Drains, Send(d)
    PROVE  /\ Ready(d)
           /\ \E r \in drain[d].todo :
                /\ r \in Takings /\ CallFor(r) \in CallRecords /\ (r.key \in Events \/ owner = "here")
                /\ clock' = IF r.key \in Keys THEN clock + 1 ELSE clock
                /\ flight' = flight \cup {Sent(CallFor(r))}
                /\ drain' = [drain EXCEPT ![d] = [drain[d] EXCEPT !.todo = drain[d].todo \ {r},
                                                                   !.call = CallFor(r)]]
           /\ UNCHANGED <<fact, rows, bell, d1, ledger, owner, writes, faults>>
<1>1. PICK r \in drain[d].todo :
        /\ r.key \in Events \/ owner = "here"
        /\ clock' = IF r.key \in Keys THEN CallFor(r).ver ELSE clock
        /\ flight' = flight \cup {Sent(CallFor(r))}
        /\ drain' = [drain EXCEPT ![d].todo = @ \ {r}, ![d].call = CallFor(r)]
  BY DEF Send, CallFor
<1>2. r \in Takings
  BY PassFields
<1>3. CallFor(r) \in CallRecords /\ (r.key \in Keys => CallFor(r).ver = clock + 1)
  BY <1>2 DEF TypeOK, CallRecords, Takings, CallFor, NextVersion
<1>4. drain' = [drain EXCEPT ![d] = [drain[d] EXCEPT !.todo = drain[d].todo \ {r}, !.call = CallFor(r)]]
  BY <1>1 DEF TypeOK
<1>5. Ready(d) /\ UNCHANGED <<fact, rows, bell, d1, ledger, owner, writes, faults>>
  BY DEF Send
<1>. QED BY <1>1, <1>2, <1>3, <1>4, <1>5

LEMMA SkipStep ==
    ASSUME TypeOK, NEW d \in Drains, Skip(d)
    PROVE  /\ Ready(d) /\ owner # "here"
           /\ \E r \in drain[d].todo :
                /\ r \in Takings /\ rows' = Unmark(r.key, r.gen)
                /\ drain' = [drain EXCEPT ![d] = [drain[d] EXCEPT !.todo = drain[d].todo \ {r},
                                                        !.applied = TRUE, !.streak = 0]]
           /\ UNCHANGED <<fact, clock, bell, mirrored, owner, writes, faults>>
<1>1. PICK r \in drain[d].todo :
         /\ rows' = Unmark(r.key, r.gen)
         /\ drain' = [drain EXCEPT ![d].todo = @ \ {r}, ![d].applied = TRUE, ![d].streak = 0]
  BY DEF Skip
<1>2. r \in Takings
  BY PassFields
<1>3. drain' = [drain EXCEPT ![d] = [drain[d] EXCEPT !.todo = drain[d].todo \ {r},
                                                     !.applied = TRUE, !.streak = 0]]
  BY <1>1 DEF TypeOK
<1>. QED BY <1>1, <1>2, <1>3 DEF Skip

Following(c) == [c EXCEPT !.part = @ + 1]

LEMMA AnsweredStep ==
    ASSUME TypeOK, NEW d \in Drains, Answered(d)
    PROVE  /\ Waiting(d) /\ Flying(d) = {} /\ drain[d].call \in CallRecords
           /\ \/ /\ drain[d].call.part < PartsOf(drain[d].call.key)
                 /\ Following(drain[d].call) \in CallRecords
                 /\ flight' = flight \cup {Sent(Following(drain[d].call))}
                 /\ drain' = [drain EXCEPT ![d] = [drain[d] EXCEPT !.call = Following(drain[d].call)]]
                 /\ UNCHANGED rows
              \/ /\ drain[d].call.part = PartsOf(drain[d].call.key)
                 /\ rows' = Unmark(drain[d].call.key, drain[d].call.gen) /\ UNCHANGED flight
                 /\ drain' = [drain EXCEPT ![d] = [drain[d] EXCEPT !.call = NoCall, !.applied = TRUE,
                                                                   !.streak = 0]]
           /\ UNCHANGED <<fact, clock, bell, d1, ledger, owner, writes, faults>>
<1>. DEFINE c == drain[d].call
<1>1. c \in CallRecords /\ Waiting(d) /\ Flying(d) = {}
  BY PassFields DEF Answered
<1>2. Following(c) \in CallRecords
  BY <1>1 DEF CallRecords, Following
<1>3. UNCHANGED <<fact, clock, bell, d1, ledger, owner, writes, faults>>
  BY DEF Answered
<1>4. CASE /\ c.part < PartsOf(c.key) /\ UNCHANGED rows
           /\ flight' = flight \cup {Sent(Following(c))}
           /\ drain' = [drain EXCEPT ![d].call = Following(c)]
  <2>1. drain' = [drain EXCEPT ![d] = [drain[d] EXCEPT !.call = Following(c)]]
    BY <1>4 DEF TypeOK
  <2>. QED BY <1>1, <1>2, <1>3, <1>4, <2>1
<1>5. CASE /\ c.part = PartsOf(c.key) /\ rows' = Unmark(c.key, c.gen) /\ UNCHANGED flight
           /\ drain' = [drain EXCEPT ![d].call = NoCall, ![d].applied = TRUE, ![d].streak = 0]
  <2>1. drain' = [drain EXCEPT ![d] = [drain[d] EXCEPT !.call = NoCall, !.applied = TRUE, !.streak = 0]]
    BY <1>5 DEF TypeOK
  <2>. QED BY <1>1, <1>2, <1>3, <1>5, <2>1
<1>. QED BY <1>4, <1>5 DEF Answered, Following

LEMMA FailsStep ==
    ASSUME TypeOK, NEW d \in Drains, Fails(d)
    PROVE  /\ Waiting(d) /\ faults' = faults + 1 /\ faults < MaxFaults
           /\ flight' \in {flight, flight \ Flying(d)}
           /\ rows' \in [Facts -> RowRecords] /\ \A k \in Facts : rows'[k].gen = rows[k].gen
           /\ \E n \in 0 .. MaxStreak - 1, todo \in {{}, drain[d].todo} :
                drain' = [drain EXCEPT ![d] = [drain[d] EXCEPT !.call = NoCall, !.failed = TRUE,
                                                     !.streak = n, !.todo = todo]]
           /\ UNCHANGED <<fact, clock, bell, d1, ledger, owner, writes>>
<1>. DEFINE streak == drain[d].streak + 1
            n == IF GivesUp(streak) THEN 0 ELSE streak
            todo == IF GivesUp(streak) THEN {} ELSE drain[d].todo
<1>1. drain[d].streak \in 0 .. MaxStreak - 1
  BY PassFields DEF Pass
<1>2. n \in 0 .. MaxStreak - 1 /\ todo \in {{}, drain[d].todo}
  BY <1>1, OutboxConstants DEF GivesUp
<1>3. drain' = [drain EXCEPT ![d].call = NoCall, ![d].failed = TRUE, ![d].streak = n,
                             ![d].todo = IF GivesUp(streak) THEN {} ELSE @]
  BY DEF Fails
<1>4. drain' = [drain EXCEPT ![d] = [drain[d] EXCEPT !.call = NoCall, !.failed = TRUE,
                                                     !.streak = n, !.todo = todo]]
  BY <1>3 DEF TypeOK
<1>5. rows' = Retried(drain[d].call.key, streak)
  BY DEF Fails
<1>6. rows' \in [Facts -> RowRecords] /\ \A k \in Facts : rows'[k].gen = rows[k].gen
  BY <1>5 DEF Retried, TypeOK, RowRecords
<1>. QED BY <1>2, <1>4, <1>6 DEF Fails

-----------------------------------------------------------------------------
LEMMA SendType == ASSUME TypeOK, NEW d \in Drains, Send(d) PROVE TypeOK'
<1>1. PICK r \in drain[d].todo :
        /\ CallFor(r) \in CallRecords /\ clock' \in {clock, clock + 1}
        /\ flight' = flight \cup {Sent(CallFor(r))}
        /\ drain' = [drain EXCEPT ![d] = [drain[d] EXCEPT !.todo = drain[d].todo \ {r},
                                                          !.call = CallFor(r)]]
  BY SendStep
<1>2. UNCHANGED <<fact, rows, bell, d1, ledger, owner, writes, faults>>
  BY SendStep
<1>3. [drain[d] EXCEPT !.todo = drain[d].todo \ {r}, !.call = CallFor(r)] \in Pass
  BY <1>1, PassFields DEF Pass, CallRecords
<1>4. OutboxOK'
  BY <1>1, <1>2, <1>3, Types DEF OutboxOK
<1>5. MirroredOK'
  BY <1>1, <1>2, SentType, Types DEF MirroredOK
<1>. QED BY <1>2, <1>4, <1>5, Kept, TypesNext

LEMMA SkipType == ASSUME TypeOK, NEW d \in Drains, Skip(d) PROVE TypeOK'
<1>1. PICK r \in drain[d].todo :
         /\ rows' = Unmark(r.key, r.gen)
         /\ drain' = [drain EXCEPT ![d] = [drain[d] EXCEPT !.todo = drain[d].todo \ {r},
                                                           !.applied = TRUE, !.streak = 0]]
  BY SkipStep
<1>2. UNCHANGED <<fact, clock, bell, mirrored, owner, writes, faults>>
  BY SkipStep
<1>3. [drain[d] EXCEPT !.todo = drain[d].todo \ {r}, !.applied = TRUE, !.streak = 0] \in Pass
  BY PassFields, StreakRange DEF Pass
<1>4. OutboxOK'
  BY <1>1, <1>2, <1>3, UnmarkType, Types DEF OutboxOK
<1>. QED BY <1>2, <1>4, Kept, TypesNext

LEMMA AnsweredType == ASSUME TypeOK, NEW d \in Drains, Answered(d) PROVE TypeOK'
<1>. DEFINE c == drain[d].call
<1>1. UNCHANGED <<fact, clock, bell, d1, ledger, owner, writes, faults>>
  BY AnsweredStep
<1>2. CASE /\ Following(c) \in CallRecords /\ UNCHANGED rows
           /\ flight' = flight \cup {Sent(Following(c))}
           /\ drain' = [drain EXCEPT ![d] = [drain[d] EXCEPT !.call = Following(c)]]
  <2>1. [drain[d] EXCEPT !.call = Following(c)] \in Pass
    BY <1>2, PassFields DEF Pass, CallRecords
  <2>2. OutboxOK'
    BY <1>1, <1>2, <2>1, Types DEF OutboxOK
  <2>3. MirroredOK'
    BY <1>1, <1>2, SentType, Types DEF MirroredOK
  <2>. QED BY <1>1, <2>2, <2>3, Kept, TypesNext
<1>3. CASE /\ rows' = Unmark(c.key, c.gen) /\ UNCHANGED flight
           /\ drain' = [drain EXCEPT ![d] = [drain[d] EXCEPT !.call = NoCall, !.applied = TRUE,
                                                             !.streak = 0]]
  <2>1. [drain[d] EXCEPT !.call = NoCall, !.applied = TRUE, !.streak = 0] \in Pass
    BY PassFields, StreakRange DEF Pass
  <2>2. OutboxOK'
    BY <1>1, <1>3, <2>1, UnmarkType, Types DEF OutboxOK
  <2>. QED BY <1>1, <1>3, <2>2, Kept, TypesNext DEF mirrored
<1>. QED BY <1>2, <1>3, AnsweredStep

LEMMA FailsType == ASSUME TypeOK, NEW d \in Drains, Fails(d) PROVE TypeOK'
<1>1. /\ flight' \in {flight, flight \ Flying(d)} /\ rows' \in [Facts -> RowRecords]
      /\ faults' = faults + 1 /\ UNCHANGED <<fact, clock, bell, d1, ledger, owner, writes>>
  BY FailsStep
<1>2. PICK n \in 0 .. MaxStreak - 1, todo \in {{}, drain[d].todo} :
        drain' = [drain EXCEPT ![d] = [drain[d] EXCEPT !.call = NoCall, !.failed = TRUE,
                                             !.streak = n, !.todo = todo]]
  BY FailsStep
<1>3. [drain[d] EXCEPT !.call = NoCall, !.failed = TRUE, !.streak = n, !.todo = todo] \in Pass
  BY PassFields DEF Pass
<1>4. OutboxOK'
  BY <1>1, <1>2, <1>3, Types DEF OutboxOK
<1>5. MirroredOK' /\ CountsOK'
  BY <1>1, Types DEF MirroredOK, CountsOK
<1>. QED BY <1>1, <1>4, <1>5, Kept, TypesNext

LEMMA LandType == ASSUME TypeOK, NEW c \in flight, Lands(c) \/ LooksUp(c) \/ Lost(c) PROVE TypeOK'
<1>1. c \in Sendings /\ MirroredOK
  BY Types DEF MirroredOK
<1>2. UNCHANGED <<fact, outbox, bell, owner, writes, faults>>
  BY DEF Lands, LooksUp, Lost
<1>3. CASE Lands(c)
  <2>1. d1' \in [Slots -> Nat] /\ ledger' \in [Keys -> Nat]
    BY <1>1, <1>3 DEF Lands, Carried, MirroredOK, Sendings
  <2>. QED BY <1>1, <1>2, <1>3, <2>1, Kept, TypesNext DEF Lands, MirroredOK
<1>4. CASE LooksUp(c)
  <2>1. [c EXCEPT !.ok = TRUE] \in Sendings
    BY <1>1 DEF Sendings
  <2>2. MirroredOK'
    BY <1>1, <1>4, <2>1 DEF LooksUp, MirroredOK
  <2>. QED BY <1>2, <2>2, Kept, TypesNext
<1>5. CASE Lost(c)
  <2>1. MirroredOK'
    BY <1>1, <1>5 DEF Lost, MirroredOK
  <2>. QED BY <1>2, <2>1, Kept, TypesNext
<1>. QED BY <1>3, <1>4, <1>5

LEMMA BellType == ASSUME TypeOK, ArmLands \/ ArmFails \/ AlarmFires \/ AlarmEnds \/ Restart PROVE TypeOK'
<1>0. BellOK /\ OutboxOK /\ CountsOK
  BY Types
<1>1. UNCHANGED <<fact, mirrored, owner>>
  BY DEF ArmLands, ArmFails, AlarmFires, AlarmEnds, Restart
<1>2. CASE ArmLands
  <2>1. BellOK'
    BY <1>0, <1>2 DEF ArmLands, BellOK
  <2>. QED BY <1>1, <1>2, <2>1, Kept, TypesNext DEF ArmLands
<1>3. CASE ArmFails
  <2>0. armed' = FALSE /\ alarm' = alarm
    BY <1>3 DEF ArmFails
  <2>1. arms' \in Nat /\ CountsOK'
    BY <1>0, <1>3 DEF ArmFails, BellOK, CountsOK
  <2>2. BellOK'
    BY <1>0, <2>0, <2>1 DEF BellOK
  <2>. QED BY <1>1, <1>3, <2>1, <2>2, Kept, TypesNext DEF ArmFails
<1>4. CASE AlarmFires
  <2>1. drain' \in [Drains -> Pass]
    BY <1>4, TakeType, QueuedFacts, OutboxConstants DEF AlarmFires
  <2>2. OutboxOK'
    BY <1>0, <1>4, <2>1 DEF AlarmFires, OutboxOK
  <2>3. alarm' \in BOOLEAN /\ armed' = FALSE /\ arms' = arms
    <3>1. alarm' = (Owner = "org") /\ armed' = FALSE /\ arms' = arms
      BY <1>4 DEF AlarmFires, NoteAlarmFired
    <3>2. alarm' \in BOOLEAN
      BY <3>1
    <3>. QED BY <3>1, <3>2
  <2>4. BellOK'
    BY <1>0, <2>3 DEF BellOK
  <2>. QED BY <1>1, <1>4, <2>2, <2>4, Kept, TypesNext DEF AlarmFires
<1>5. CASE AlarmEnds
  <2>1. alarm' \in BOOLEAN
    BY <1>5 DEF AlarmEnds, NextAlarm
  <2>2. BellOK' /\ OutboxOK'
    BY <1>0, <1>5, <2>1, IdlePass DEF AlarmEnds, BellOK, OutboxOK
  <2>. QED BY <1>1, <1>5, <2>2, Kept, TypesNext DEF AlarmEnds
<1>6. CASE Restart
  <2>1. alarm' = (alarm \/ drain["alarm"].on) /\ armed' = FALSE /\ arms' = 0
    BY <1>6 DEF Restart
  <2>2. BellOK'
    BY <2>1 DEF BellOK
  <2>3. OutboxOK' /\ CountsOK'
    BY <1>0, <1>6, IdlePass DEF Restart, OutboxOK, CountsOK
  <2>. QED BY <1>1, <2>2, <2>3, Kept, TypesNext
<1>. QED BY <1>2, <1>3, <1>4, <1>5, <1>6

LEMMA WriteType == ASSUME TypeOK, (\E k \in Facts : Write(k)) \/ Resync PROVE TypeOK'
<1>1. \E S : MarkDirty(S)
  BY DEF Write, Resync
<1>2. BellOK' /\ OutboxOK'
  BY <1>1, MarkType
<1>3. UNCHANGED <<mirrored, owner, faults>> /\ writes' = writes + 1
  BY DEF Write, Resync, Counted
<1>4. fact' \in [Facts -> Nat]
  <2>1. fact \in [Facts -> Nat]
    BY DEF TypeOK
  <2>2. CASE \E k \in Facts : Write(k)
    BY <2>1, <2>2 DEF Write
  <2>. QED BY <2>1, <2>2 DEF Resync
<1>5. OwnerOK' /\ CountsOK'
  BY <1>3, <1>4, Types DEF OwnerOK, CountsOK
<1>. QED BY <1>2, <1>3, <1>5, Kept, TypesNext

LEMMA OtherType == ASSUME TypeOK, (\E k \in Facts : RowFallsDue(k)) \/ DrainNow \/ NowEnds \/ Wipe \/ Purge
                   PROVE  TypeOK'
<1>0. OutboxOK /\ MirroredOK /\ OwnerOK
  BY Types
<1>1. CASE \E k \in Facts : RowFallsDue(k)
  <2>1. OutboxOK'
    BY <1>0, <1>1 DEF RowFallsDue, OutboxOK, RowRecords
  <2>. QED BY <1>1, <2>1, Kept, TypesNext DEF RowFallsDue
<1>2. CASE DrainNow
  <2>1. drain' \in [Drains -> Pass]
    BY <1>2, TakeType, QueuedFacts DEF DrainNow
  <2>2. OutboxOK'
    BY <1>0, <1>2, <2>1 DEF DrainNow, OutboxOK
  <2>. QED BY <1>2, <2>2, Kept, TypesNext DEF DrainNow
<1>3. CASE NowEnds
  <2>1. drain' \in [Drains -> Pass]
    BY <1>0, <1>3, IdlePass, TakeType, QueuedFacts DEF NowEnds, OutboxOK
  <2>2. OutboxOK'
    BY <1>0, <1>3, <2>1 DEF NowEnds, OutboxOK
  <2>. QED BY <1>3, <2>2, Kept, TypesNext DEF NowEnds
<1>4. CASE Wipe
  <2>1. OutboxOK' /\ OwnerOK'
    BY <1>0, <1>4 DEF Wipe, NoRow, OutboxOK, OwnerOK, RowRecords
  <2>. QED BY <1>4, <2>1, Kept, TypesNext DEF Wipe
<1>5. CASE Purge
  <2>1. MirroredOK' /\ OwnerOK'
    BY <1>0, <1>5 DEF Purge, MirroredOK, OwnerOK
  <2>. QED BY <1>5, <2>1, Kept, TypesNext DEF Purge
<1>. QED BY <1>1, <1>2, <1>3, <1>4, <1>5

LEMMA InitType == Init => TypeOK
<1>. SUFFICES ASSUME Init PROVE TypeOK
  OBVIOUS
<1>1. BellOK
  BY DEF Init, BellOK
<1>2. OutboxOK
  BY IdlePass DEF Init, OutboxOK, NoRow, RowRecords
<1>3. MirroredOK
  BY DEF Init, MirroredOK
<1>4. OwnerOK /\ CountsOK
  BY DEF Init, OwnerOK, CountsOK
<1>. QED BY <1>1, <1>2, <1>3, <1>4, Types

LEMMA StepType == TypeOK /\ [Next]_vars => TypeOK'
<1>. SUFFICES ASSUME TypeOK, [Next]_vars PROVE TypeOK'
  OBVIOUS
<1>1. CASE UNCHANGED vars
  BY <1>1, Kept, TypesNext DEF vars
<1>2. CASE Next
  BY <1>2, WriteType, OtherType, BellType, SendType, SkipType, AnsweredType, FailsType, LandType DEF Next
<1>. QED BY <1>1, <1>2

(* The outbox, its passes, the calls in flight and D1 keep their shape, and *)
(* no pass of drain() goes on after MaxStreak failures in a row.            *)
THEOREM TypeCorrect == Spec => []TypeOK
BY InitType, StepType, PTL DEF Spec

-----------------------------------------------------------------------------
(* The mirror only moves forward *)

(* What is on its way to D1: the state n of k under version v.             *)
InFlight(k, v, n) == \E f \in flight : f.key = k /\ f.ver = v /\ f.val = n
InCall(k, v, n) == \E d \in Drains : /\ Waiting(d) /\ drain[d].call.key = k
                                     /\ drain[d].call.ver = v /\ drain[d].call.val = n
Known(k, v, n) == InFlight(k, v, n) \/ InCall(k, v, n)

(* A state on its way is not from the future, nor older than what D1 shows *)
(* if D1 would still take it.                                              *)
NewerPart == \A k \in Keys : \A v, n \in Nat : Known(k, v, n) =>
                /\ v <= clock /\ n <= fact[k]
                /\ v >= ledger[k] => \A s \in Slots : s[1] = k => n >= d1[s]

(* A greater version is of a later state.                                  *)
OrderPart == \A k \in Keys : \A v, n, w, m \in Nat :
                Known(k, v, n) /\ Known(k, w, m) /\ v <= w => n <= m

(* An event is on its way only once it happened, and it happens once.      *)
EventPart == /\ \A e \in Events \cap Queued : fact[e] >= 1
             /\ \A d \in Drains : \A r \in drain[d].todo : r.key \in Events => fact[r.key] >= 1
             /\ \A e \in Events : \A v, n \in Nat : Known(e, v, n) => n = fact[e] /\ n >= 1

ShownPart == \A s \in Slots : d1[s] <= fact[s[1]]

MirrorInv == TypeOK /\ NewerPart /\ OrderPart /\ EventPart /\ ShownPart

LEMMA SlotForm == ASSUME NEW s \in Slots PROVE s[1] \in Facts /\ s = <<s[1], s[2]>>
BY DEF Slots

LEMMA KeyOrEvent == /\ \A k \in Facts : k \in Keys <=> k \notin Events
                    /\ Keys \subseteq Facts /\ Events \subseteq Facts
BY OutboxConstants DEF Facts

(* A write: what is shown and on its way is as before.                     *)
LEMMA WriteMirror == ASSUME MirrorInv, (\E k \in Facts : Write(k)) \/ Resync
                     PROVE  NewerPart' /\ OrderPart' /\ EventPart' /\ ShownPart'
<1>1. UNCHANGED <<flight, d1, ledger, clock, drain>>
  BY DEF Write, Resync, MarkDirty, mirrored
<1>2. fact \in [Facts -> Nat] /\ rows \in [Facts -> RowRecords] /\ d1 \in [Slots -> Nat]
  BY DEF MirrorInv, TypeOK, RowRecords
<1>3. /\ fact' \in [Facts -> Nat] /\ \A k \in Facts : fact'[k] >= fact[k]
      /\ \A e \in Events : fact[e] >= 1 => fact'[e] = fact[e]
      /\ \A e \in Events \cap Queued' : fact'[e] >= 1
  <2>1. CASE \E k \in Facts : Write(k)
    <3>1. PICK k \in Facts : Write(k)
      BY <2>1
    <3>2. fact' = [fact EXCEPT ![k] = @ + 1] /\ (k \in Events => fact[k] = 0)
      BY <3>1 DEF Write
    <3>3. \A e \in Facts : e # k => rows'[e] = rows[e]
      BY <3>1 DEF Write, MarkDirty, Marked
    <3>4. \A e \in Events \cap Queued' : e = k \/ e \in Queued
      BY <3>3 DEF Queued
    <3>. QED BY <1>2, <3>2, <3>4, KeyOrEvent DEF MirrorInv, EventPart
  <2>2. CASE Resync
    <3>1. PICK S \in SUBSET Keys : rows' = Marked(S)
      BY <2>2 DEF Resync, MarkDirty
    <3>2. \A e \in Events : rows'[e] = rows[e]
      BY <3>1, KeyOrEvent DEF Marked
    <3>3. Events \cap Queued' = Events \cap Queued
      BY <3>2 DEF Queued
    <3>. QED BY <1>2, <2>2, <3>3, KeyOrEvent DEF MirrorInv, EventPart, Resync
  <2>. QED BY <2>1, <2>2
<1>4. \A k, v, n : Known(k, v, n)' <=> Known(k, v, n)
  BY <1>1 DEF Known, InFlight, InCall, Waiting
<1>5. NewerPart'
  <2>1. ASSUME NEW k \in Keys, NEW v \in Nat, NEW n \in Nat, Known(k, v, n)'
        PROVE  /\ v <= clock' /\ n <= fact'[k]
               /\ v >= ledger'[k] => \A s \in Slots : s[1] = k => n >= d1'[s]
    <3>1. /\ v <= clock /\ n <= fact[k]
          /\ v >= ledger[k] => \A s \in Slots : s[1] = k => n >= d1[s]
      BY <1>4, <2>1 DEF MirrorInv, NewerPart
    <3>2. fact[k] \in Nat /\ fact'[k] \in Nat /\ fact'[k] >= fact[k]
      BY <1>2, <1>3, KeyOrEvent
    <3>. QED BY <1>1, <3>1, <3>2
  <2>. QED BY <2>1 DEF NewerPart
<1>6. OrderPart'
  BY <1>4 DEF MirrorInv, OrderPart
<1>7. EventPart'
  <2>1. \A d \in Drains : \A r \in drain'[d].todo : r.key \in Events => fact'[r.key] >= 1
    BY <1>1, <1>3 DEF MirrorInv, EventPart
  <2>2. \A e \in Events : \A v, n \in Nat : Known(e, v, n)' => n = fact'[e] /\ n >= 1
    BY <1>3, <1>4 DEF MirrorInv, EventPart
  <2>. QED BY <1>3, <2>1, <2>2 DEF EventPart
<1>8. ShownPart'
  <2>1. ASSUME NEW s \in Slots PROVE d1'[s] <= fact'[s[1]]
    BY <1>1, <1>2, <1>3, SlotForm DEF MirrorInv, ShownPart
  <2>. QED BY <2>1 DEF ShownPart
<1>. QED BY <1>5, <1>6, <1>7, <1>8

(* Every other step but a send and a landing brings nothing new on its way *)
(* and nothing into D1, or empties D1.                                     *)
Quiet == /\ fact' = fact /\ clock' = clock /\ ledger' = ledger
         /\ d1' = d1 \/ d1' = [s \in Slots |-> 0]
         /\ \A k \in Facts : \A v, n \in Nat : Known(k, v, n)' => Known(k, v, n)
         /\ Queued' \subseteq Queued
         /\ \A d \in Drains : \A r \in drain'[d].todo : r \in drain[d].todo \/ r.key \in Queued

LEMMA QuietMirror == ASSUME MirrorInv, Quiet PROVE NewerPart' /\ OrderPart' /\ EventPart' /\ ShownPart'
<1>1. fact \in [Facts -> Nat] /\ d1 \in [Slots -> Nat]
  BY DEF MirrorInv, TypeOK
<1>2. \A s \in Slots : d1'[s] \in Nat /\ d1'[s] <= d1[s]
  BY <1>1 DEF Quiet
<1>3. NewerPart'
  <2>1. ASSUME NEW k \in Keys, NEW v \in Nat, NEW n \in Nat, Known(k, v, n)'
        PROVE  /\ v <= clock' /\ n <= fact'[k]
               /\ v >= ledger'[k] => \A s \in Slots : s[1] = k => n >= d1'[s]
    <3>1. Known(k, v, n)
      BY <2>1, KeyOrEvent DEF Quiet
    <3>2. /\ v <= clock /\ n <= fact[k]
          /\ v >= ledger[k] => \A s \in Slots : s[1] = k => n >= d1[s]
      BY <3>1 DEF MirrorInv, NewerPart
    <3>3. ASSUME v >= ledger[k], NEW s \in Slots, s[1] = k PROVE n >= d1'[s]
      BY <1>1, <1>2, <3>2, <3>3
    <3>. QED BY <3>2, <3>3 DEF Quiet
  <2>. QED BY <2>1 DEF NewerPart
<1>4. OrderPart'
  BY KeyOrEvent DEF MirrorInv, OrderPart, Quiet
<1>5. EventPart'
  <2>1. \A d \in Drains : \A r \in drain'[d].todo : r.key \in Events => fact'[r.key] >= 1
    BY DEF Quiet, MirrorInv, EventPart
  <2>2. \A e \in Events : \A v, n \in Nat : Known(e, v, n)' => n = fact'[e] /\ n >= 1
    BY KeyOrEvent DEF MirrorInv, EventPart, Quiet
  <2>. QED BY <2>1, <2>2 DEF EventPart, Quiet, MirrorInv
<1>6. ShownPart'
  <2>1. ASSUME NEW s \in Slots PROVE d1'[s] <= fact'[s[1]]
    <3>1. d1[s] <= fact[s[1]] /\ fact[s[1]] \in Nat
      BY <1>1, SlotForm DEF MirrorInv, ShownPart
    <3>. QED BY <1>1, <1>2, <3>1 DEF Quiet
  <2>. QED BY <2>1 DEF ShownPart
<1>. QED BY <1>3, <1>4, <1>5, <1>6

LEMMA TakeQuiet == ASSUME TypeOK, NEW d \in Drains, NEW from \in SUBSET Queued, Take(d, from)
                   PROVE  /\ \A k, v, n : InCall(k, v, n)' => InCall(k, v, n)
                          /\ \A e \in Drains : \A r \in drain'[e].todo : r \in drain[e].todo \/ r.key \in Queued
                          /\ drain'[d].on /\ drain'[d].call = NoCall
                          /\ \A r \in drain'[d].todo : r.key \in from /\ r = [key |-> r.key, gen |-> rows[r.key].gen]
<1>1. PICK S \in SUBSET from : drain' = [drain EXCEPT ![d] =
               [Idle EXCEPT !.on = TRUE, !.todo = {[key |-> k, gen |-> rows[k].gen] : k \in S}]]
  BY DEF Take
<1>2. /\ drain'[d] = [Idle EXCEPT !.on = TRUE, !.todo = {[key |-> k, gen |-> rows[k].gen] : k \in S}]
      /\ \A e \in Drains : e # d => drain'[e] = drain[e]
  BY <1>1 DEF TypeOK
<1>3. /\ drain'[d].on /\ drain'[d].call = NoCall
      /\ drain'[d].todo = {[key |-> k, gen |-> rows[k].gen] : k \in S}
  BY <1>2 DEF Idle
<1>4. \A k, v, n : InCall(k, v, n)' => InCall(k, v, n)
  BY <1>2, <1>3 DEF InCall, Waiting
<1>5. \A r \in drain'[d].todo : r.key \in from /\ r = [key |-> r.key, gen |-> rows[r.key].gen]
  BY <1>3
<1>. QED BY <1>2, <1>3, <1>4, <1>5

LEMMA UnmarkQueued == ASSUME TypeOK, NEW k, NEW gen, rows' = Unmark(k, gen)
                      PROVE  /\ Queued' \subseteq Queued
                             /\ \A j \in Facts : j # k \/ rows[j].gen # gen => rows'[j] = rows[j]
BY DEF TypeOK, Unmark, Queued, NoRow

LEMMA PassQuiet == ASSUME MirrorInv, NEW d \in Drains, Skip(d) \/ Answered(d) \/ Fails(d) PROVE Quiet
<1>0. TypeOK
  BY DEF MirrorInv
<1>1. CASE Skip(d)
  <2>1. PICK r \in drain[d].todo :
           /\ rows' = Unmark(r.key, r.gen)
           /\ drain' = [drain EXCEPT ![d] = [drain[d] EXCEPT !.todo = drain[d].todo \ {r},
                                                             !.applied = TRUE, !.streak = 0]]
    BY <1>0, <1>1, SkipStep
  <2>2. UNCHANGED <<fact, clock, flight, d1, ledger>>
    BY <1>1 DEF Skip, mirrored
  <2>3. \A e \in Drains : drain'[e].on = drain[e].on /\ drain'[e].call = drain[e].call
                          /\ drain'[e].todo \subseteq drain[e].todo
    BY <1>0, <2>1, PassFields DEF Pass, TypeOK
  <2>4. \A k, v, n : Known(k, v, n)' => Known(k, v, n)
    BY <2>2, <2>3 DEF Known, InFlight, InCall, Waiting
  <2>. QED BY <1>0, <2>1, <2>2, <2>3, <2>4, UnmarkQueued DEF Quiet
<1>2. CASE Answered(d)
  <2>. DEFINE c == drain[d].call
  <2>1. Waiting(d) /\ c \in CallRecords /\ UNCHANGED <<fact, clock, d1, ledger>>
    BY <1>0, <1>2, AnsweredStep
  <2>2. CASE /\ flight' = flight \cup {Sent(Following(c))} /\ UNCHANGED rows
             /\ drain' = [drain EXCEPT ![d] = [drain[d] EXCEPT !.call = Following(c)]]
    <3>1. /\ Sent(Following(c)).key = c.key /\ Sent(Following(c)).ver = c.ver /\ Sent(Following(c)).val = c.val
          /\ Following(c).key = c.key /\ Following(c).ver = c.ver /\ Following(c).val = c.val
      BY <2>1 DEF Sent, Following, CallRecords
    <3>2. /\ drain'[d].call = Following(c) /\ drain'[d].todo = drain[d].todo /\ drain'[d].on = drain[d].on
          /\ \A e \in Drains : e # d => drain'[e] = drain[e]
      BY <1>0, <2>2, PassFields DEF Pass, TypeOK
    <3>3. \A k, v, n : InFlight(k, v, n)' => InFlight(k, v, n) \/ InCall(k, v, n)
      BY <2>1, <2>2, <3>1 DEF InFlight, InCall
    <3>4. \A k, v, n : InCall(k, v, n)' => InCall(k, v, n)
      BY <2>1, <3>1, <3>2 DEF InCall, Waiting
    <3>. QED BY <2>1, <2>2, <3>2, <3>3, <3>4 DEF Quiet, Known, Queued
  <2>3. CASE /\ rows' = Unmark(c.key, c.gen) /\ UNCHANGED flight
             /\ drain' = [drain EXCEPT ![d] = [drain[d] EXCEPT !.call = NoCall, !.applied = TRUE,
                                                               !.streak = 0]]
    <3>1. /\ drain'[d].call = NoCall /\ drain'[d].todo = drain[d].todo
          /\ \A e \in Drains : e # d => drain'[e] = drain[e]
      BY <1>0, <2>3, PassFields DEF Pass, TypeOK
    <3>2. \A k, v, n : Known(k, v, n)' => Known(k, v, n)
      BY <2>3, <3>1 DEF Known, InFlight, InCall, Waiting
    <3>. QED BY <1>0, <2>1, <2>3, <3>1, <3>2, UnmarkQueued DEF Quiet
  <2>. QED BY <1>0, <1>2, <2>2, <2>3, AnsweredStep
<1>3. CASE Fails(d)
  <2>1. /\ flight' \subseteq flight /\ \A k \in Facts : rows'[k].gen = rows[k].gen
        /\ UNCHANGED <<fact, clock, d1, ledger>>
    BY <1>0, <1>3, FailsStep
  <2>2. PICK n \in 0 .. MaxStreak - 1, todo \in {{}, drain[d].todo} :
          drain' = [drain EXCEPT ![d] = [drain[d] EXCEPT !.call = NoCall, !.failed = TRUE,
                                               !.streak = n, !.todo = todo]]
    BY <1>0, <1>3, FailsStep
  <2>3. /\ drain'[d].call = NoCall /\ drain'[d].todo \subseteq drain[d].todo
        /\ \A e \in Drains : e # d => drain'[e] = drain[e]
    BY <1>0, <2>2, PassFields DEF Pass, TypeOK
  <2>4. \A k, v, m : Known(k, v, m)' => Known(k, v, m)
    BY <2>1, <2>3 DEF Known, InFlight, InCall, Waiting
  <2>. QED BY <2>1, <2>3, <2>4 DEF Quiet, Queued
<1>. QED BY <1>1, <1>2, <1>3

(* The steps that leave the fact, its versions and D1 alone, or empty D1.  *)
QuietSteps == \/ \E k \in Facts : RowFallsDue(k)
              \/ ArmLands \/ ArmFails \/ AlarmFires \/ AlarmEnds \/ DrainNow \/ NowEnds
              \/ Restart \/ Wipe \/ Purge \/ \E c \in flight : LooksUp(c) \/ Lost(c)

LEMMA OtherQuiet == ASSUME MirrorInv, QuietSteps \/ UNCHANGED vars PROVE Quiet
<1>0. TypeOK
  BY DEF MirrorInv
<1>. DEFINE Rest == /\ fact' = fact /\ clock' = clock /\ ledger' = ledger
                    /\ d1' = d1 \/ d1' = [s \in Slots |-> 0]
            Same1 == drain' = drain /\ Queued' \subseteq Queued
            Passes == /\ \A k, v, n : InCall(k, v, n)' => InCall(k, v, n)
                      /\ \A e \in Drains : \A r \in drain'[e].todo : r \in drain[e].todo \/ r.key \in Queued
<1>1. Rest
  BY DEF QuietSteps, RowFallsDue, ArmLands, ArmFails, AlarmFires, AlarmEnds, DrainNow, NowEnds, Restart,
         Wipe, Purge, LooksUp, Lost, outbox, mirrored, bell, vars
<1>2. ASSUME NEW d \in Drains, drain' = [drain EXCEPT ![d] = Idle] PROVE Passes
  <2>1. drain'[d] = Idle /\ \A e \in Drains : e # d => drain'[e] = drain[e]
    BY <1>0, <1>2 DEF TypeOK
  <2>. QED BY <2>1 DEF Idle, InCall, Waiting
<1>3. ASSUME drain' = drain PROVE Passes
  BY <1>3 DEF InCall, Waiting
<1>4. ASSUME Passes, rows' = rows, flight' = flight PROVE Quiet
  BY <1>1, <1>4 DEF Quiet, Known, InFlight, Queued
<1>5. CASE AlarmFires
  <2>1. Passes
    BY <1>0, <1>5, TakeQuiet, OutboxConstants DEF AlarmFires, Due
  <2>. QED BY <1>4, <1>5, <2>1 DEF AlarmFires, mirrored
<1>6. CASE AlarmEnds
  <2>1. Passes
    BY <1>2, <1>6, OutboxConstants DEF AlarmEnds
  <2>. QED BY <1>4, <1>6, <2>1 DEF AlarmEnds, mirrored
<1>7. CASE DrainNow
  <2>1. Passes
    BY <1>0, <1>7, TakeQuiet DEF DrainNow
  <2>. QED BY <1>4, <1>7, <2>1 DEF DrainNow, mirrored
<1>8. CASE NowEnds
  <2>1. Passes
    <3>1. CASE Take("now", Queued)
      BY <1>0, <1>8, <3>1, TakeQuiet DEF NowEnds
    <3>2. CASE drain' = [drain EXCEPT !["now"] = Idle]
      BY <1>2, <1>8, <3>2 DEF NowEnds
    <3>. QED BY <1>8, <3>1, <3>2 DEF NowEnds
  <2>. QED BY <1>4, <1>8, <2>1 DEF NowEnds, mirrored
<1>9. CASE Restart
  <2>1. Passes
    BY <1>9 DEF Restart, InCall, Waiting, Idle
  <2>. QED BY <1>4, <1>9, <2>1 DEF Restart, mirrored
<1>10. CASE ArmLands \/ ArmFails \/ UNCHANGED vars
  BY <1>3, <1>4, <1>10 DEF ArmLands, ArmFails, outbox, mirrored, vars
<1>11. CASE Purge
  BY <1>3, <1>4, <1>11 DEF Purge, outbox
<1>12. CASE Wipe
  <2>1. Queued' = {}
    BY <1>12 DEF Wipe, Queued, NoRow
  <2>. QED BY <1>1, <1>3, <1>12, <2>1 DEF Wipe, Quiet, Known, InFlight, mirrored
<1>13. CASE \E k \in Facts : RowFallsDue(k)
  <2>1. \A k \in Facts : rows'[k].gen = rows[k].gen
    BY <1>0, <1>13 DEF RowFallsDue, TypeOK, RowRecords
  <2>. QED BY <1>1, <1>3, <1>13, <2>1 DEF RowFallsDue, Quiet, Known, InFlight, Queued, mirrored
<1>14. CASE \E c \in flight : LooksUp(c) \/ Lost(c)
  <2>1. PICK c \in flight : LooksUp(c) \/ Lost(c)
    BY <1>14
  <2>2. c \in Sendings
    BY <1>0, Types DEF MirroredOK
  <2>3. flight' \subseteq flight \cup {[c EXCEPT !.ok = TRUE]}
    BY <2>1 DEF LooksUp, Lost
  <2>4. [c EXCEPT !.ok = TRUE].key = c.key /\ [c EXCEPT !.ok = TRUE].ver = c.ver /\ [c EXCEPT !.ok = TRUE].val = c.val
    BY <2>2 DEF Sendings
  <2>5. \A k, v, n : InFlight(k, v, n)' => InFlight(k, v, n)
    BY <2>3, <2>4 DEF InFlight
  <2>. QED BY <1>1, <1>3, <2>1, <2>5 DEF LooksUp, Lost, Quiet, Known, Queued, outbox
<1>. QED BY <1>5, <1>6, <1>7, <1>8, <1>9, <1>10, <1>11, <1>12, <1>13, <1>14 DEF QuietSteps

(* A send puts the fact as it is on its way, under a version of its own.   *)
LEMMA SendMirror == ASSUME MirrorInv, NEW d \in Drains, Send(d)
                    PROVE  NewerPart' /\ OrderPart' /\ EventPart' /\ ShownPart'
<1>0. TypeOK /\ fact \in [Facts -> Nat] /\ d1 \in [Slots -> Nat] /\ clock \in Nat /\ ledger \in [Keys -> Nat]
  BY DEF MirrorInv, TypeOK
<1>1. PICK r \in drain[d].todo :
         /\ r \in Takings /\ CallFor(r) \in CallRecords
         /\ clock' = IF r.key \in Keys THEN clock + 1 ELSE clock
         /\ flight' = flight \cup {Sent(CallFor(r))}
         /\ drain' = [drain EXCEPT ![d] = [drain[d] EXCEPT !.todo = drain[d].todo \ {r},
                                                           !.call = CallFor(r)]]
  BY <1>0, SendStep
<1>2. Ready(d) /\ UNCHANGED <<fact, rows, d1, ledger>>
  BY <1>0, SendStep
<1>. DEFINE ver == IF r.key \in Keys THEN clock + 1 ELSE 0
<1>3. r.key \in Facts /\ ver \in Nat /\ fact[r.key] \in Nat
  BY <1>0, <1>1 DEF Takings
<1>4. /\ CallFor(r).key = r.key /\ CallFor(r).ver = ver /\ CallFor(r).val = fact[r.key]
      /\ Sent(CallFor(r)).key = r.key /\ Sent(CallFor(r)).ver = ver /\ Sent(CallFor(r)).val = fact[r.key]
  BY DEF CallFor, Sent, NextVersion
<1>5. /\ drain'[d].call = CallFor(r) /\ drain'[d].todo \subseteq drain[d].todo
      /\ \A e \in Drains : e # d => drain'[e] = drain[e]
  BY <1>0, <1>1, PassFields DEF Pass, TypeOK
<1>6. \A k, v, n : Known(k, v, n)' => Known(k, v, n) \/ (k = r.key /\ v = ver /\ n = fact[r.key])
  <2>1. \A k, v, n : InFlight(k, v, n)' => InFlight(k, v, n) \/ (k = r.key /\ v = ver /\ n = fact[r.key])
    BY <1>1, <1>4 DEF InFlight
  <2>2. \A k, v, n : InCall(k, v, n)' => InCall(k, v, n) \/ (k = r.key /\ v = ver /\ n = fact[r.key])
    BY <1>4, <1>5 DEF InCall, Waiting
  <2>. QED BY <2>1, <2>2 DEF Known
<1>. HIDE DEF ver
<1>7. r.key \in Keys => ver = clock + 1
  BY DEF ver
<1>8. NewerPart'
  <2>1. ASSUME NEW k \in Keys, NEW v \in Nat, NEW n \in Nat, Known(k, v, n)'
        PROVE  /\ v <= clock' /\ n <= fact'[k]
               /\ v >= ledger'[k] => \A s \in Slots : s[1] = k => n >= d1'[s]
    <3>1. CASE Known(k, v, n)
      <4>1. /\ v <= clock /\ n <= fact[k]
            /\ v >= ledger[k] => \A s \in Slots : s[1] = k => n >= d1[s]
        BY <3>1 DEF MirrorInv, NewerPart
      <4>. QED BY <1>0, <1>1, <1>2, <4>1
    <3>2. CASE k = r.key /\ v = ver /\ n = fact[r.key]
      <4>1. v <= clock' /\ n <= fact'[k]
        BY <1>0, <1>1, <1>2, <1>3, <1>7, <3>2
      <4>2. \A s \in Slots : s[1] = k => n >= d1[s]
        BY <1>0, <1>3, <3>2 DEF MirrorInv, ShownPart
      <4>. QED BY <1>2, <4>1, <4>2
    <3>. QED BY <1>6, <2>1, <3>1, <3>2
  <2>. QED BY <2>1 DEF NewerPart
<1>9. OrderPart'
  <2>1. ASSUME NEW k \in Keys, NEW v \in Nat, NEW n \in Nat, NEW w \in Nat, NEW m \in Nat,
               Known(k, v, n)', Known(k, w, m)', v <= w
        PROVE  n <= m
    <3>1. CASE Known(k, v, n) /\ Known(k, w, m)
      BY <2>1, <3>1 DEF MirrorInv, OrderPart
    <3>2. CASE Known(k, v, n) /\ k = r.key /\ w = ver /\ m = fact[r.key]
      BY <3>2 DEF MirrorInv, NewerPart
    <3>3. CASE Known(k, w, m) /\ k = r.key /\ v = ver
      <4>1. w <= clock
        BY <3>3 DEF MirrorInv, NewerPart
      <4>. QED BY <1>0, <1>7, <2>1, <3>3, <4>1
    <3>4. CASE n = fact[r.key] /\ m = fact[r.key]
      BY <3>4
    <3>. QED BY <1>6, <2>1, <3>1, <3>2, <3>3, <3>4
  <2>. QED BY <2>1 DEF OrderPart
<1>10. EventPart'
  <2>1. \A e \in Events : \A v, n \in Nat : Known(e, v, n)' => n = fact'[e] /\ n >= 1
    <3>1. r.key \in Events => fact[r.key] >= 1
      BY DEF MirrorInv, EventPart
    <3>. QED BY <1>2, <1>6, <3>1 DEF MirrorInv, EventPart
  <2>2. \A e \in Drains : \A q \in drain'[e].todo : q.key \in Events => fact'[q.key] >= 1
    BY <1>2, <1>5 DEF MirrorInv, EventPart
  <2>3. \A e \in Events \cap Queued' : fact'[e] >= 1
    BY <1>2 DEF MirrorInv, EventPart, Queued
  <2>. QED BY <2>1, <2>2, <2>3 DEF EventPart
<1>11. ShownPart'
  BY <1>2 DEF MirrorInv, ShownPart
<1>. QED BY <1>8, <1>9, <1>10, <1>11

(* D1 takes a state only over one that is no later.                        *)
LEMMA LandStep == ASSUME MirrorInv, NEW c \in flight, Lands(c)
                  PROVE  /\ c \in Sendings /\ flight' = flight \ {c} /\ UNCHANGED <<fact, outbox, owner>>
                         /\ \/ UNCHANGED <<d1, ledger>>
                            \/ \E p \in Nat : /\ d1' = [d1 EXCEPT ![<<c.key, p>>] = c.val]
                                              /\ <<c.key, p>> \in Slots => c.val >= d1[<<c.key, p>>]
                                              /\ c.key \in Events \/ Admits(c)
                                              /\ \/ c.key \in Events /\ ledger' = ledger
                                                 \/ /\ c.key \in Keys /\ c.ver >= ledger[c.key]
                                                    /\ ledger' = [ledger EXCEPT ![c.key] = c.ver]
<1>1. c \in Sendings /\ flight' = flight \ {c} /\ UNCHANGED <<fact, outbox, owner>>
  BY Types DEF MirrorInv, MirroredOK, Lands
<1>2. c.key \in Facts /\ c.ver \in Nat /\ c.val \in Nat /\ c.part \in Nat
  BY <1>1 DEF Sendings
<1>3. Known(c.key, c.ver, c.val)
  BY DEF Known, InFlight
<1>4. CASE c.key \in Events
  <2>1. d1' = [d1 EXCEPT ![<<c.key, 1>>] = c.val] /\ ledger' = ledger
    BY <1>4 DEF Lands, Carried
  <2>2. c.val = fact[c.key]
    BY <1>2, <1>3, <1>4 DEF MirrorInv, EventPart
  <2>3. <<c.key, 1>> \in Slots => c.val >= d1[<<c.key, 1>>]
    <3>. SUFFICES ASSUME <<c.key, 1>> \in Slots PROVE c.val >= d1[<<c.key, 1>>]
      OBVIOUS
    <3>1. d1[<<c.key, 1>>] <= fact[c.key] /\ d1[<<c.key, 1>>] \in Nat
      BY DEF MirrorInv, ShownPart, TypeOK
    <3>. QED BY <1>2, <2>2, <3>1
  <2>. QED BY <1>1, <1>4, <2>1, <2>3
<1>5. CASE c.key \notin Events /\ Admits(c)
  <2>1. c.key \in Keys /\ c.ver >= ledger[c.key]
    BY <1>2, <1>5, KeyOrEvent DEF Admits
  <2>2. d1' = [d1 EXCEPT ![<<c.key, c.part>>] = c.val] /\ ledger' = [ledger EXCEPT ![c.key] = c.ver]
    BY <1>5 DEF Lands, Carried
  <2>3. <<c.key, c.part>> \in Slots => c.val >= d1[<<c.key, c.part>>]
    <3>1. \A s \in Slots : s[1] = c.key => c.val >= d1[s]
      BY <1>2, <1>3, <2>1 DEF MirrorInv, NewerPart
    <3>. QED BY <3>1
  <2>. QED BY <1>1, <1>2, <1>5, <2>1, <2>2, <2>3
<1>6. CASE c.key \notin Events /\ ~Admits(c)
  BY <1>1, <1>6 DEF Lands, Carried
<1>. QED BY <1>4, <1>5, <1>6

LEMMA LandMirror == ASSUME MirrorInv, NEW c \in flight, Lands(c)
                    PROVE  NewerPart' /\ OrderPart' /\ EventPart' /\ ShownPart'
<1>0. /\ fact \in [Facts -> Nat] /\ d1 \in [Slots -> Nat] /\ ledger \in [Keys -> Nat]
      /\ c \in Sendings /\ flight' = flight \ {c} /\ UNCHANGED <<fact, rows, clock, drain>>
  BY LandStep DEF MirrorInv, TypeOK, outbox
<1>1. c.key \in Facts /\ c.ver \in Nat /\ c.val \in Nat /\ Known(c.key, c.ver, c.val)
  BY <1>0 DEF Sendings, Known, InFlight
<1>2. \A k, v, n : Known(k, v, n)' => Known(k, v, n)
  BY <1>0 DEF Known, InFlight, InCall, Waiting
<1>3. CASE UNCHANGED <<d1, ledger>>
  <2>1. Quiet
    BY <1>0, <1>2, <1>3 DEF Quiet, Queued
  <2>. QED BY <2>1, QuietMirror
<1>4. ASSUME NEW p \in Nat, d1' = [d1 EXCEPT ![<<c.key, p>>] = c.val],
             \/ c.key \in Events /\ ledger' = ledger
             \/ /\ c.key \in Keys /\ c.ver >= ledger[c.key]
                /\ ledger' = [ledger EXCEPT ![c.key] = c.ver]
      PROVE  NewerPart' /\ OrderPart' /\ EventPart' /\ ShownPart'
  <2>1. \A s \in Slots : d1'[s] = IF s = <<c.key, p>> THEN c.val ELSE d1[s]
    BY <1>0, <1>4
  <2>2. NewerPart'
    <3>1. ASSUME NEW k \in Keys, NEW v \in Nat, NEW n \in Nat, Known(k, v, n)'
          PROVE  /\ v <= clock' /\ n <= fact'[k]
                 /\ v >= ledger'[k] => \A s \in Slots : s[1] = k => n >= d1'[s]
      <4>1. /\ Known(k, v, n) /\ v <= clock /\ n <= fact[k]
            /\ v >= ledger[k] => \A s \in Slots : s[1] = k => n >= d1[s]
        BY <1>2, <3>1 DEF MirrorInv, NewerPart
      <4>2. CASE k # c.key
        <5>1. ledger'[k] = ledger[k] /\ \A s \in Slots : s[1] = k => d1'[s] = d1[s]
          BY <1>0, <1>4, <2>1, <4>2
        <5>. QED BY <1>0, <4>1, <5>1
      <4>3. CASE k = c.key
        <5>1. ledger'[k] = c.ver /\ c.ver >= ledger[k] /\ ledger[k] \in Nat
          BY <1>0, <1>4, <4>3, KeyOrEvent
        <5>2. v >= c.ver => v >= ledger[k]
          BY <1>1, <5>1
        <5>3. v >= c.ver => n >= c.val
          BY <1>1, <4>1, <4>3 DEF MirrorInv, OrderPart
        <5>4. v >= ledger'[k] => \A s \in Slots : s[1] = k => n >= d1'[s]
          BY <2>1, <4>1, <5>1, <5>2, <5>3
        <5>. QED BY <1>0, <4>1, <5>4
      <4>. QED BY <4>2, <4>3
    <3>. QED BY <3>1 DEF NewerPart
  <2>3. OrderPart'
    BY <1>2 DEF MirrorInv, OrderPart
  <2>4. EventPart'
    <3>1. \A e \in Events : \A v, n \in Nat : Known(e, v, n)' => n = fact'[e] /\ n >= 1
      BY <1>0, <1>2 DEF MirrorInv, EventPart
    <3>. QED BY <1>0, <3>1 DEF MirrorInv, EventPart, Queued
  <2>5. ShownPart'
    <3>1. c.val <= fact[c.key]
      <4>1. CASE c.key \in Keys
        BY <1>1, <4>1 DEF MirrorInv, NewerPart
      <4>2. CASE c.key \in Events
        BY <1>0, <1>1, <4>2 DEF MirrorInv, EventPart
      <4>. QED BY <1>1, <4>1, <4>2 DEF Facts
    <3>2. ASSUME NEW s \in Slots PROVE d1'[s] <= fact'[s[1]]
      BY <1>0, <2>1, <3>1 DEF MirrorInv, ShownPart
    <3>. QED BY <3>2 DEF ShownPart
  <2>. QED BY <2>2, <2>3, <2>4, <2>5
<1>. QED BY <1>3, <1>4, LandStep

LEMMA InitMirror == Init => MirrorInv
<1>. SUFFICES ASSUME Init PROVE MirrorInv
  OBVIOUS
<1>1. \A k, v, n : ~Known(k, v, n)
  BY DEF Init, Known, InFlight, InCall, Waiting, Idle
<1>2. NewerPart /\ OrderPart
  BY <1>1 DEF NewerPart, OrderPart
<1>3. Queued = {} /\ \A d \in Drains : drain[d].todo = {}
  BY DEF Init, Queued, NoRow, Idle
<1>4. EventPart
  BY <1>1, <1>3 DEF EventPart
<1>5. ShownPart
  BY SlotForm DEF Init, ShownPart
<1>. QED BY <1>2, <1>4, <1>5, InitType DEF MirrorInv

LEMMA StepMirror == MirrorInv /\ [Next]_vars => MirrorInv'
<1>. SUFFICES ASSUME MirrorInv, [Next]_vars PROVE MirrorInv'
  OBVIOUS
<1>1. TypeOK'
  BY StepType DEF MirrorInv
<1>2. NewerPart' /\ OrderPart' /\ EventPart' /\ ShownPart'
  <2>1. CASE (\E k \in Facts : Write(k)) \/ Resync
    BY <2>1, WriteMirror
  <2>2. CASE \E d \in Drains : Send(d)
    BY <2>2, SendMirror
  <2>3. CASE \E c \in flight : Lands(c)
    BY <2>3, LandMirror
  <2>4. CASE \E d \in Drains : Skip(d) \/ Answered(d) \/ Fails(d)
    BY <2>4, PassQuiet, QuietMirror
  <2>5. CASE QuietSteps \/ UNCHANGED vars
    BY <2>5, OtherQuiet, QuietMirror
  <2>. QED BY <2>1, <2>2, <2>3, <2>4, <2>5 DEF Next, QuietSteps
<1>. QED BY <1>1, <1>2 DEF MirrorInv

-----------------------------------------------------------------------------
(* The refinement *)

LEMMA LandImplements == ASSUME MirrorInv, NEW c \in flight, Lands(c)
                        PROVE  [Mirror!Next]_(Mirror!vars)
<1>1. UNCHANGED <<fact, owner>> /\ c \in Sendings
  BY LandStep
<1>2. CASE d1' = d1
  BY <1>1, <1>2 DEF Mirror!vars
<1>3. ASSUME NEW p \in Nat, d1' = [d1 EXCEPT ![<<c.key, p>>] = c.val], d1' # d1,
             <<c.key, p>> \in Slots => c.val >= d1[<<c.key, p>>],
             c.key \in Events \/ Admits(c)
      PROVE  Mirror!Next
  <2>. DEFINE s == <<c.key, p>>
  <2>1. d1 \in [Slots -> Nat] /\ s \in Slots /\ d1[s] # c.val
    BY <1>3 DEF MirrorInv, TypeOK
  <2>2. c.key \in Facts /\ c.ver \in Nat /\ c.val \in Nat /\ Known(c.key, c.ver, c.val)
    BY <1>1 DEF Sendings, Known, InFlight
  <2>3. c.val <= fact[c.key] /\ fact[c.key] \in Nat
    <3>1. CASE c.key \in Keys
      BY <2>2, <3>1 DEF MirrorInv, NewerPart, TypeOK
    <3>2. CASE c.key \in Events
      BY <2>2, <3>2 DEF MirrorInv, EventPart, TypeOK
    <3>. QED BY <2>2, <3>1, <3>2 DEF Facts
  <2>4. c.val \in (d1[s] + 1) .. fact[s[1]]
    BY <1>3, <2>1, <2>2, <2>3
  <2>5. owner = "purged" => s \notin Lasting
    <3>. SUFFICES ASSUME owner = "purged", s \in Lasting PROVE FALSE
      OBVIOUS
    <3>1. Owner = "org" /\ c.key = Root
      BY DEF Lasting
    <3>2. Root \in Keys /\ Root \notin Events
      BY OutboxConstants
    <3>. QED BY <1>3, <3>1, <3>2 DEF Admits, Tombstoned
  <2>6. Mirror!Show(s)
    BY <1>1, <1>3, <2>4, <2>5 DEF Mirror!Show
  <2>. QED BY <2>1, <2>6 DEF Mirror!Next
<1>. QED BY <1>2, <1>3, LandStep

LEMMA StepImplements == MirrorInv /\ [Next]_vars => [Mirror!Next]_(Mirror!vars)
<1>. SUFFICES ASSUME MirrorInv, [Next]_vars PROVE [Mirror!Next]_(Mirror!vars)
  OBVIOUS
<1>1. CASE \E k \in Facts : Write(k)
  BY <1>1 DEF Write, Mirror!Next, Mirror!Write, mirrored
<1>2. CASE \E c \in flight : Lands(c)
  BY <1>2, LandImplements
<1>3. CASE Wipe
  BY <1>3 DEF Wipe, Mirror!Next, Mirror!Wipe, mirrored
<1>4. CASE Purge
  BY <1>4 DEF Purge, Mirror!Next, Mirror!Purge
<1>5. CASE \E d \in Drains : Send(d) \/ Skip(d) \/ Answered(d) \/ Fails(d)
  BY <1>5 DEF Send, Skip, Answered, Fails, mirrored, Mirror!vars
<1>6. CASE \/ Resync \/ ArmLands \/ ArmFails \/ AlarmFires \/ AlarmEnds \/ DrainNow \/ NowEnds \/ Restart
           \/ \E k \in Facts : RowFallsDue(k)
           \/ \E c \in flight : LooksUp(c) \/ Lost(c)
           \/ UNCHANGED vars
  BY <1>6 DEF Resync, ArmLands, ArmFails, AlarmFires, AlarmEnds, DrainNow, NowEnds, Restart, RowFallsDue,
              LooksUp, Lost, mirrored, vars, Mirror!vars
<1>. QED BY <1>1, <1>2, <1>3, <1>4, <1>5, <1>6 DEF Next

(* D1 shows an owner's facts as they were, never moving back, and a purged *)
(* organisation stays away: every step of the outbox, of any number of     *)
(* drains, is a step of IdentityMirror or a stutter.                       *)
THEOREM MirrorMovesForward == Spec => ImplementsMirror
<1>1. Init => Mirror!Init
  BY DEF Init, Mirror!Init
<1>. QED BY <1>1, InitMirror, StepMirror, StepImplements, PTL DEF Spec, ImplementsMirror, Mirror!Spec

(* A late write does not bring the row of a purged organisation back: the  *)
(* tombstone's version is above every other (purgeIdentityMirror).         *)
THEOREM PurgedOrgGone == ASSUME Owner = "org" PROVE Spec => []PurgedRootGone
<1>1. Init => PurgedRootGone
  BY DEF Init, PurgedRootGone
<1>2. ASSUME MirrorInv, PurgedRootGone, [Next]_vars PROVE PurgedRootGone'
  <2>1. \A i \in 1 .. Parts[Root] : <<Root, i>> \in Slots
    BY OutboxConstants DEF Slots, Facts, PartsOf
  <2>2. ASSUME NEW s \in Slots, Mirror!Show(s) PROVE PurgedRootGone'
    <3>1. PICK n : d1' = [d1 EXCEPT ![s] = n]
      BY <2>2 DEF Mirror!Show
    <3>2. owner' = owner /\ (owner = "purged" => s \notin Lasting)
      BY <2>2 DEF Mirror!Show
    <3>3. ASSUME owner = "purged", NEW i \in 1 .. Parts[Root] PROVE d1'[<<Root, i>>] = 0
      <4>1. <<Root, i>> \in Lasting
        BY DEF Lasting
      <4>2. <<Root, i>> # s /\ d1[<<Root, i>>] = 0
        BY <1>2, <3>2, <3>3, <4>1 DEF PurgedRootGone
      <4>. QED BY <2>1, <3>1, <4>2 DEF MirrorInv, TypeOK
    <3>. QED BY <3>2, <3>3 DEF PurgedRootGone
  <2>3. CASE (\E k \in Facts : Mirror!Write(k)) \/ Mirror!Wipe \/ UNCHANGED Mirror!vars
    BY <1>2, <2>3 DEF Mirror!Write, Mirror!Wipe, Mirror!vars, PurgedRootGone
  <2>4. CASE Mirror!Purge
    BY <2>1, <2>4 DEF Mirror!Purge, PurgedRootGone
  <2>. QED BY <1>2, <2>2, <2>3, <2>4, StepImplements DEF Mirror!Next
<1>. QED BY <1>1, <1>2, InitMirror, StepMirror, PTL DEF Spec

-----------------------------------------------------------------------------
(* One drain: the alarm covers what waits *)

OneDrain == Drains = {"alarm"}

AlarmPass == drain["alarm"]
Called == Waiting("alarm")
Alerted == alarm \/ arms > 0 \/ AlarmPass.on

(* What a pass took of a row is no newer than the row, and taken once.     *)
TakenPart == owner = "here" =>
    /\ \A r \in AlarmPass.todo : 1 <= r.gen /\ r.gen <= rows[r.key].gen
    /\ \A q, r \in AlarmPass.todo : q.key = r.key => q = r
    /\ Called => /\ 1 <= AlarmPass.call.gen /\ AlarmPass.call.gen <= rows[AlarmPass.call.key].gen
                 /\ \A r \in AlarmPass.todo : r.key # AlarmPass.call.key

(* A row that was marked after the pass took what it has of it, if at all. *)
Unread(k) == /\ \A r \in AlarmPass.todo : r.key = k => r.gen < rows[k].gen
             /\ Called /\ AlarmPass.call.key = k => AlarmPass.call.gen < rows[k].gen

(* What was armed while the handler runs was armed for a row it will leave. *)
NewMarkPart == owner = "here" /\ armed /\ AlarmPass.on => \E k \in Queued : Unread(k)

BellInv == TypeOK /\ TakenPart /\ NewMarkPart /\ ArmedIsArmed /\ (ArmsCut \/ AlarmCovers)

(* A step that marks nothing, drops nothing, and takes nothing.            *)
Calm == owner' = "here" =>
            /\ owner = "here" /\ \A k \in Facts : rows'[k].gen = rows[k].gen
            /\ AlarmPass'.todo \subseteq AlarmPass.todo /\ (AlarmPass'.on => AlarmPass.on)
            /\ Called' => /\ Called /\ AlarmPass'.call.key = AlarmPass.call.key
                          /\ AlarmPass'.call.gen = AlarmPass.call.gen
            /\ armed' => armed

LEMMA PassTypes == ASSUME TypeOK
                   PROVE  /\ AlarmPass \in Pass /\ AlarmPass.todo \in SUBSET Takings
                          /\ Called => AlarmPass.call \in CallRecords
                          /\ \A k \in Facts : rows[k].gen \in Nat
BY PassFields, OutboxConstants DEF AlarmPass, Called, TypeOK

LEMMA CalmTaken == ASSUME BellInv, Calm PROVE TakenPart' /\ NewMarkPart'
<1>. SUFFICES ASSUME owner' = "here" PROVE TakenPart' /\ NewMarkPart'
  BY DEF TakenPart, NewMarkPart
<1>1. \A r \in AlarmPass.todo : r.key \in Facts
  BY PassTypes DEF BellInv, Takings
<1>2. Called => AlarmPass.call.key \in Facts
  BY PassTypes DEF BellInv, CallRecords
<1>3. TakenPart'
  BY <1>1, <1>2 DEF TakenPart, Calm, BellInv
<1>4. \A k \in Queued : k \in Facts /\ k \in Queued' /\ (Unread(k) => Unread(k)')
  BY <1>1, <1>2 DEF Queued, Unread, Calm
<1>5. NewMarkPart'
  BY <1>4 DEF NewMarkPart, Calm, BellInv
<1>. QED BY <1>3, <1>5

LEMMA MarkBell == ASSUME BellInv, owner = "here", NEW S \in SUBSET Facts, S # {}, MarkDirty(S), owner' = owner
                  PROVE  TakenPart' /\ NewMarkPart' /\ Alerted'
<1>1. /\ \A k \in Facts : rows[k].gen \in Nat
      /\ \A k \in S : rows'[k].gen = rows[k].gen + 1
      /\ \A k \in Facts \ S : rows'[k] = rows[k]
  BY DEF BellInv, TypeOK, MarkDirty, Marked
<1>2. \A k \in Facts : rows'[k].gen \in Nat /\ rows'[k].gen >= rows[k].gen
  BY <1>1
<1>3. AlarmPass' = AlarmPass /\ (Called' <=> Called)
  BY DEF MarkDirty, AlarmPass, Called, Waiting
<1>4. /\ \A r \in AlarmPass.todo : r.key \in Facts /\ r.gen \in Nat
      /\ Called => AlarmPass.call.key \in Facts /\ AlarmPass.call.gen \in Nat
  BY PassTypes DEF BellInv, Takings, CallRecords
<1>5. TakenPart'
  <2>1. \A r \in AlarmPass.todo : 1 <= r.gen /\ r.gen <= rows'[r.key].gen
    BY <1>1, <1>2, <1>4 DEF TakenPart, BellInv
  <2>2. Called => 1 <= AlarmPass.call.gen /\ AlarmPass.call.gen <= rows'[AlarmPass.call.key].gen
    BY <1>1, <1>2, <1>4 DEF TakenPart, BellInv
  <2>. QED BY <1>3, <2>1, <2>2 DEF TakenPart, BellInv
<1>6. \A k \in S : k \in Queued' /\ Unread(k)'
  <2>. SUFFICES ASSUME NEW k \in S PROVE k \in Queued' /\ Unread(k)'
    OBVIOUS
  <2>1. rows[k].gen \in Nat /\ rows'[k].gen = rows[k].gen + 1
    BY <1>1
  <2>2. \A r \in AlarmPass.todo : r.key = k => r.gen <= rows[k].gen
    BY DEF TakenPart, BellInv
  <2>3. Called /\ AlarmPass.call.key = k => AlarmPass.call.gen <= rows[k].gen
    BY DEF TakenPart, BellInv
  <2>. QED BY <1>3, <1>4, <2>1, <2>2, <2>3 DEF Unread, Queued
<1>7. NewMarkPart'
  BY <1>6 DEF NewMarkPart
<1>8. Alerted'
  <2>1. CASE armed
    BY <1>3, <2>1 DEF MarkDirty, Armed, bell, BellInv, ArmedIsArmed, Alerted, AlarmPass
  <2>2. CASE ~armed
    <3>1. arms' > 0
      BY <2>2 DEF MarkDirty, Armed, BellInv, TypeOK
    <3>. QED BY <3>1 DEF Alerted
  <2>. QED BY <2>1, <2>2
<1>. QED BY <1>5, <1>7, <1>8

LEMMA SendBell == ASSUME BellInv, Send("alarm") PROVE TakenPart' /\ NewMarkPart'
<1>0. TypeOK /\ "alarm" \in Drains
  BY OutboxConstants DEF BellInv
<1>1. PICK r \in AlarmPass.todo :
         /\ r \in Takings
         /\ drain' = [drain EXCEPT !["alarm"] = [drain["alarm"] EXCEPT !.todo = drain["alarm"].todo \ {r},
                                                                       !.call = CallFor(r)]]
  BY <1>0, SendStep DEF AlarmPass
<1>2. AlarmPass.call = NoCall /\ AlarmPass.on /\ UNCHANGED <<rows, owner, armed>>
  BY DEF Send, Ready, AlarmPass, bell
<1>3. AlarmPass' = [AlarmPass EXCEPT !.todo = AlarmPass.todo \ {r}, !.call = CallFor(r)]
  BY <1>0, <1>1 DEF AlarmPass, TypeOK
<1>4. AlarmPass'.todo = AlarmPass.todo \ {r} /\ AlarmPass'.call = CallFor(r) /\ AlarmPass'.on = AlarmPass.on
  BY <1>0, <1>3, PassTypes DEF Pass
<1>5. CallFor(r).key = r.key /\ CallFor(r).gen = r.gen
  BY DEF CallFor
<1>6. TakenPart'
  BY <1>2, <1>4, <1>5 DEF TakenPart, BellInv
<1>7. \A k : Unread(k) => Unread(k)'
  BY <1>2, <1>4, <1>5 DEF Unread
<1>8. NewMarkPart'
  BY <1>2, <1>4, <1>7 DEF NewMarkPart, BellInv, Queued
<1>. QED BY <1>6, <1>8

(* A row is dropped only where the pass took it as it is: what was marked  *)
(* meanwhile stays.                                                        *)
LEMMA DropBell == ASSUME BellInv, Called, rows' = Unmark(AlarmPass.call.key, AlarmPass.call.gen),
                         drain' = [drain EXCEPT !["alarm"] = [drain["alarm"] EXCEPT
                                        !.call = NoCall, !.applied = TRUE, !.streak = 0]],
                         UNCHANGED <<owner, armed>>
                  PROVE  TakenPart' /\ NewMarkPart'
<1>0. TypeOK /\ "alarm" \in Drains
  BY OutboxConstants DEF BellInv
<1>1. AlarmPass'.todo = AlarmPass.todo /\ AlarmPass'.call = NoCall /\ AlarmPass'.on = AlarmPass.on
  BY <1>0, PassTypes DEF AlarmPass, TypeOK, Pass
<1>2. ~Called'
  BY <1>1 DEF Called, Waiting, AlarmPass
<1>3. \A j \in Facts : j # AlarmPass.call.key \/ rows[j].gen # AlarmPass.call.gen => rows'[j] = rows[j]
  BY <1>0, UnmarkQueued
<1>4. \A r \in AlarmPass.todo : r.key \in Facts
  BY <1>0, PassTypes DEF Takings
<1>5. TakenPart'
  BY <1>1, <1>2, <1>3, <1>4 DEF TakenPart, BellInv
<1>6. ASSUME NEW k \in Queued, Unread(k) PROVE k \in Queued' /\ Unread(k)'
  <2>1. k \in Facts /\ rows'[k] = rows[k]
    <3>1. k \in Facts /\ rows[k].gen \in Nat /\ AlarmPass.call.gen \in Nat
      BY <1>0, PassTypes DEF Queued, CallRecords
    <3>2. AlarmPass.call.key = k => AlarmPass.call.gen < rows[k].gen
      BY <1>6 DEF Unread
    <3>. QED BY <1>3, <3>1, <3>2
  <2>. QED BY <1>1, <1>2, <1>6, <2>1 DEF Unread, Queued
<1>7. NewMarkPart'
  BY <1>1, <1>6 DEF NewMarkPart, BellInv
<1>. QED BY <1>5, <1>7

LEMMA FireBell == ASSUME BellInv, AlarmFires PROVE TakenPart' /\ NewMarkPart' /\ Alerted' /\ ~armed'
<1>0. TypeOK /\ "alarm" \in Drains /\ Due \in SUBSET Queued
  BY OutboxConstants DEF BellInv, Due
<1>1. Take("alarm", Due) /\ rows' = rows /\ ~armed'
  BY DEF AlarmFires, NoteAlarmFired
<1>2. /\ AlarmPass'.on /\ AlarmPass'.call = NoCall
      /\ \A r \in AlarmPass'.todo : r.key \in Due /\ r = [key |-> r.key, gen |-> rows[r.key].gen]
  BY <1>0, <1>1, TakeQuiet DEF AlarmPass
<1>3. ~Called'
  BY <1>2 DEF Called, Waiting, AlarmPass
<1>4. \A r \in AlarmPass'.todo : 1 <= r.gen /\ r.gen <= rows'[r.key].gen
  <2>. SUFFICES ASSUME NEW r \in AlarmPass'.todo PROVE 1 <= r.gen /\ r.gen <= rows'[r.key].gen
    OBVIOUS
  <2>1. r.gen = rows[r.key].gen /\ rows[r.key].gen \in Nat /\ rows[r.key].gen > 0
    BY <1>0, <1>2, PassTypes DEF Due, Queued
  <2>. QED BY <1>1, <2>1
<1>5. \A q, r \in AlarmPass'.todo : q.key = r.key => q = r
  BY <1>2
<1>6. TakenPart'
  BY <1>3, <1>4, <1>5 DEF TakenPart
<1>. QED BY <1>1, <1>2, <1>6 DEF NewMarkPart, Alerted

(* Every other step is calm, rings no bell off but where nothing waits for *)
(* it, and queues nothing.                                                 *)
RingsOn == /\ Alerted => Alerted' 
           /\ Queued' \subseteq Queued
           /\ owner' = "here" /\ armed' => owner = "here" /\ armed

LEMMA RingsOnCovers == ASSUME BellInv, RingsOn PROVE ArmedIsArmed' /\ (ArmsCut \/ AlarmCovers')
BY DEF BellInv, RingsOn, ArmedIsArmed, AlarmCovers, Alerted, AlarmPass

LEMMA AnsweredBell == ASSUME BellInv, Answered("alarm")
                      PROVE  TakenPart' /\ NewMarkPart' /\ RingsOn
<1>0. TypeOK /\ "alarm" \in Drains
  BY OutboxConstants DEF BellInv
<1>. DEFINE c == drain["alarm"].call
<1>1. Called /\ UNCHANGED <<owner, alarm, armed, arms>>
  BY <1>0, AnsweredStep DEF Called, bell
<1>2. CASE /\ Following(c) \in CallRecords /\ UNCHANGED rows
           /\ drain' = [drain EXCEPT !["alarm"] = [drain["alarm"] EXCEPT !.call = Following(c)]]
  <2>1. /\ AlarmPass'.call = Following(c) /\ AlarmPass'.on = AlarmPass.on
        /\ AlarmPass'.todo = AlarmPass.todo
    BY <1>0, <1>2, PassTypes DEF AlarmPass, TypeOK, Pass
  <2>2. Following(c).key = AlarmPass.call.key /\ Following(c).gen = AlarmPass.call.gen
    BY <1>0, <1>1, PassTypes DEF Following, CallRecords, AlarmPass
  <2>3. Calm /\ RingsOn
    BY <1>1, <1>2, <2>1, <2>2 DEF Calm, RingsOn, Alerted, Queued
  <2>. QED BY <2>3, CalmTaken
<1>3. CASE /\ rows' = Unmark(c.key, c.gen)
           /\ drain' = [drain EXCEPT !["alarm"] = [drain["alarm"] EXCEPT !.call = NoCall, !.applied = TRUE,
                                                                         !.streak = 0]]
  <2>1. AlarmPass'.on = AlarmPass.on
    BY <1>0, <1>3, PassTypes DEF AlarmPass, TypeOK, Pass
  <2>2. RingsOn
    BY <1>0, <1>1, <1>3, <2>1, UnmarkQueued DEF RingsOn, Alerted
  <2>. QED BY <1>1, <1>3, <2>2, DropBell DEF AlarmPass
<1>. QED BY <1>0, <1>2, <1>3, AnsweredStep

LEMMA PassBell == ASSUME BellInv, Skip("alarm") \/ Fails("alarm")
                  PROVE  Calm /\ RingsOn
<1>0. TypeOK /\ "alarm" \in Drains
  BY OutboxConstants DEF BellInv
<1>1. CASE Skip("alarm")
  <2>1. PICK r \in drain["alarm"].todo :
           /\ rows' = Unmark(r.key, r.gen)
           /\ drain' = [drain EXCEPT !["alarm"] = [drain["alarm"] EXCEPT !.todo = drain["alarm"].todo \ {r},
                                                             !.applied = TRUE, !.streak = 0]]
    BY <1>0, <1>1, SkipStep
  <2>2. owner # "here" /\ UNCHANGED <<owner, alarm, armed, arms>>
    BY <1>1 DEF Skip, bell
  <2>3. AlarmPass'.on = AlarmPass.on
    BY <1>0, <2>1, PassTypes DEF AlarmPass, TypeOK, Pass
  <2>. QED BY <1>0, <2>1, <2>2, <2>3, UnmarkQueued DEF Calm, RingsOn, Alerted
<1>2. CASE Fails("alarm")
  <2>1. (\A k \in Facts : rows'[k].gen = rows[k].gen) /\ UNCHANGED <<owner, alarm, armed, arms>>
    BY <1>0, <1>2, FailsStep DEF bell
  <2>2. PICK n \in 0 .. MaxStreak - 1, todo \in {{}, drain["alarm"].todo} :
          drain' = [drain EXCEPT !["alarm"] = [drain["alarm"] EXCEPT !.call = NoCall, !.failed = TRUE,
                                               !.streak = n, !.todo = todo]]
    BY <1>0, <1>2, FailsStep
  <2>3. AlarmPass'.on = AlarmPass.on /\ AlarmPass'.todo \subseteq AlarmPass.todo /\ AlarmPass'.call = NoCall
    BY <1>0, <2>2, PassTypes DEF AlarmPass, TypeOK, Pass
  <2>4. ~Called'
    BY <2>3 DEF Called, Waiting, AlarmPass
  <2>. QED BY <2>1, <2>3, <2>4 DEF Calm, RingsOn, Alerted, Queued
<1>. QED BY <1>1, <1>2

LEMMA EndBell == ASSUME BellInv, AlarmEnds \/ Restart \/ ArmFails
                 PROVE  Calm /\ ArmedIsArmed' /\ (ArmsCut \/ AlarmCovers')
<1>0. TypeOK /\ "alarm" \in Drains /\ drain \in [Drains -> Pass]
  BY OutboxConstants DEF BellInv, TypeOK
<1>1. CASE AlarmEnds
  <2>1. AlarmPass.on /\ AlarmPass' = Idle /\ UNCHANGED <<rows, armed, arms, owner>>
    BY <1>0, <1>1 DEF AlarmEnds, PassOver, Ready, AlarmPass
  <2>2. ~Called' /\ AlarmPass'.todo = {} /\ ~AlarmPass'.on
    BY <2>1 DEF Called, Waiting, AlarmPass, Idle
  <2>3. Queued # {} => alarm'
    BY <1>1 DEF AlarmEnds, NextAlarm
  <2>4. owner = "here" /\ armed => Queued # {}
    BY <2>1 DEF BellInv, NewMarkPart
  <2>. QED BY <2>1, <2>2, <2>3, <2>4 DEF Calm, ArmedIsArmed, AlarmCovers, Queued
<1>2. CASE Restart
  <2>1. /\ AlarmPass' = Idle /\ UNCHANGED <<rows, owner>> /\ ~armed' /\ arms' = 0
        /\ alarm' = (alarm \/ AlarmPass.on) /\ (arms > 0 => ArmsCut)
    BY <1>0, <1>2 DEF Restart, AlarmPass
  <2>2. ~Called' /\ AlarmPass'.todo = {} /\ ~AlarmPass'.on
    BY <2>1 DEF Called, Waiting, AlarmPass, Idle
  <2>. QED BY <2>1, <2>2 DEF Calm, ArmedIsArmed, AlarmCovers, Queued, BellInv, AlarmPass
<1>3. CASE ArmFails
  <2>1. ArmsCut /\ ~armed' /\ UNCHANGED <<rows, drain, owner>>
    BY <1>3 DEF ArmFails, outbox
  <2>. QED BY <2>1 DEF Calm, ArmedIsArmed, AlarmPass, Called, Waiting
<1>. QED BY <1>1, <1>2, <1>3

LEMMA OtherBell == ASSUME BellInv,
                          \/ \E k \in Facts : RowFallsDue(k)
                          \/ ArmLands \/ Wipe \/ Purge \/ UNCHANGED vars
                          \/ \E c \in flight : Lands(c) \/ LooksUp(c) \/ Lost(c)
                   PROVE  Calm /\ RingsOn
<1>1. drain' = drain /\ armed' = armed /\ (owner' = owner \/ owner' # "here")
  BY DEF RowFallsDue, ArmLands, Wipe, Purge, Lands, LooksUp, Lost, outbox, bell, vars
<1>2. CASE ArmLands
  BY <1>1, <1>2 DEF ArmLands, Calm, RingsOn, Alerted, outbox, AlarmPass, Called, Waiting, Queued
<1>3. CASE Wipe
  <2>1. Queued' = {} /\ owner' # "here" /\ UNCHANGED bell
    BY <1>3 DEF Wipe, Queued, NoRow
  <2>. QED BY <1>1, <2>1 DEF Calm, RingsOn, Alerted, AlarmPass, bell
<1>4. CASE \E k \in Facts : RowFallsDue(k)
  <2>1. \A k \in Facts : rows'[k].gen = rows[k].gen
    BY <1>4 DEF RowFallsDue, BellInv, TypeOK, RowRecords
  <2>. QED BY <1>1, <1>4, <2>1 DEF RowFallsDue, Calm, RingsOn, Alerted, AlarmPass, Called, Waiting, Queued, bell
<1>5. CASE Purge \/ UNCHANGED vars \/ \E c \in flight : Lands(c) \/ LooksUp(c) \/ Lost(c)
  <2>1. rows' = rows /\ UNCHANGED bell
    BY <1>5 DEF Purge, Lands, LooksUp, Lost, outbox, vars
  <2>2. Calm
    BY <1>1, <2>1 DEF Calm, AlarmPass, Called, Waiting
  <2>. QED BY <1>1, <1>5, <2>1, <2>2 DEF Purge, Lands, LooksUp, Lost, vars, RingsOn, Alerted, AlarmPass, bell, Queued
<1>. QED BY <1>2, <1>3, <1>4, <1>5

LEMMA InitBell == Init => BellInv
<1>. SUFFICES ASSUME Init PROVE BellInv
  OBVIOUS
<1>1. AlarmPass = Idle
  BY OutboxConstants DEF Init, AlarmPass
<1>2. AlarmPass.todo = {} /\ ~AlarmPass.on /\ ~Called
  BY <1>1 DEF Idle, AlarmPass, Called, Waiting
<1>3. Queued = {} /\ ~armed
  BY DEF Init, Queued, NoRow
<1>. QED BY <1>2, <1>3, InitType DEF BellInv, TakenPart, NewMarkPart, ArmedIsArmed, AlarmCovers

LEMMA StepBell == ASSUME OneDrain PROVE BellInv /\ [Next]_vars => BellInv'
<1>. SUFFICES ASSUME BellInv, [Next]_vars PROVE BellInv'
  OBVIOUS
<1>1. TypeOK'
  BY StepType DEF BellInv
<1>2. CASE (\E k \in Facts : Write(k)) \/ Resync
  <2>1. PICK S \in SUBSET Facts : S # {} /\ MarkDirty(S) /\ owner = "here" /\ owner' = owner
    BY <1>2, KeyOrEvent DEF Write, Resync
  <2>2. TakenPart' /\ NewMarkPart' /\ Alerted'
    BY <2>1, MarkBell
  <2>. QED BY <1>1, <2>2 DEF BellInv, ArmedIsArmed, AlarmCovers, Alerted, AlarmPass
<1>3. CASE Send("alarm")
  <2>1. TakenPart' /\ NewMarkPart'
    BY <1>3, SendBell
  <2>2. UNCHANGED <<rows, owner, alarm, armed, arms>> /\ AlarmPass'.on = AlarmPass.on
    <3>1. TypeOK /\ "alarm" \in Drains
      BY OutboxConstants DEF BellInv
    <3>2. \E r \in drain["alarm"].todo :
             drain' = [drain EXCEPT !["alarm"] = [drain["alarm"] EXCEPT !.todo = drain["alarm"].todo \ {r},
                                                                        !.call = CallFor(r)]]
      BY <1>3, <3>1, SendStep
    <3>. QED BY <1>3, <3>1, <3>2, PassTypes DEF Send, AlarmPass, TypeOK, Pass, bell
  <2>3. RingsOn
    BY <2>2 DEF RingsOn, Alerted, Queued
  <2>. QED BY <1>1, <2>1, <2>3, RingsOnCovers DEF BellInv
<1>4. CASE AlarmFires
  BY <1>1, <1>4, FireBell DEF BellInv, ArmedIsArmed, AlarmCovers, Alerted, AlarmPass
<1>5. CASE Answered("alarm")
  BY <1>1, <1>5, AnsweredBell, RingsOnCovers DEF BellInv
<1>6. CASE Skip("alarm") \/ Fails("alarm")
  BY <1>1, <1>6, PassBell, CalmTaken, RingsOnCovers DEF BellInv
<1>7. CASE AlarmEnds \/ Restart \/ ArmFails
  BY <1>1, <1>7, EndBell, CalmTaken DEF BellInv
<1>8. CASE \/ \E k \in Facts : RowFallsDue(k)
           \/ ArmLands \/ Wipe \/ Purge \/ UNCHANGED vars
           \/ \E c \in flight : Lands(c) \/ LooksUp(c) \/ Lost(c)
  BY <1>1, <1>8, OtherBell, CalmTaken, RingsOnCovers DEF BellInv
<1>9. "now" \notin Drains
  BY DEF OneDrain
<1>. QED BY <1>2, <1>3, <1>4, <1>5, <1>6, <1>7, <1>8, <1>9 DEF Next, OneDrain, DrainNow, NowEnds

(* While a row waits some alarm will come, if arming is not cut off: what  *)
(* the handler's end deletes or a restart forgets was not needed.          *)
THEOREM WaitingIsCovered == ASSUME OneDrain, ~ArmsCut PROVE Spec => []AlarmCovers
<1>1. BellInv => AlarmCovers
  BY DEF BellInv
<1>. QED BY <1>1, InitBell, StepBell, PTL DEF Spec

(* What armedAt says is so, whatever arming fails.                         *)
THEOREM ArmedIsTrue == ASSUME OneDrain PROVE Spec => []ArmedIsArmed
<1>1. BellInv => ArmedIsArmed
  BY DEF BellInv
<1>. QED BY <1>1, InitBell, StepBell, PTL DEF Spec

-----------------------------------------------------------------------------
(* One drain: no mark is lost *)

LedgerPart == \A k \in Keys : ledger[k] <= clock

PartPart == Called => AlarmPass.call.part \in 1 .. PartsOf(AlarmPass.call.key)

(* Nothing later than the pass's own call is on its way.                   *)
TopPart == Called /\ AlarmPass.call.key \in Keys =>
              /\ ledger[AlarmPass.call.key] <= AlarmPass.call.ver
              /\ \A f \in flight : f.key = AlarmPass.call.key => f.ver <= AlarmPass.call.ver

(* The pass's call is of a row nobody marked since.                        *)
Latest == owner = "here" /\ Called /\ AlarmPass.call.gen = rows[AlarmPass.call.key].gen

(* Then it carries the fact as it is, and D1 shows the parts it answered.  *)
LastPart == Latest =>
    /\ AlarmPass.call.val = fact[AlarmPass.call.key]
    /\ \A i \in 1 .. PartsOf(AlarmPass.call.key) :
          i < AlarmPass.call.part \/ (i = AlarmPass.call.part /\ Flying("alarm") = {})
          => d1[<<AlarmPass.call.key, i>>] = fact[AlarmPass.call.key]

Keep == LedgerPart /\ PartPart /\ TopPart /\ LastPart /\ MarkKept
KeepInv == MirrorInv /\ BellInv /\ Keep

LEMMA SlotOf == ASSUME NEW k \in Facts, NEW i \in 1 .. PartsOf(k)
                PROVE  <<k, i>> \in Slots
BY DEF Slots

LEMMA SlotParts == ASSUME NEW s \in Slots PROVE s[2] \in 1 .. PartsOf(s[1])
BY DEF Slots

LEMMA PartsNat == \A k \in Facts : PartsOf(k) \in Nat \ {0}
BY OutboxConstants DEF Facts, PartsOf

LEMMA CallTypes == ASSUME KeepInv
                   PROVE  /\ Called => AlarmPass.call \in CallRecords
                          /\ \A f \in flight : f \in Sendings
                          /\ clock \in Nat /\ ledger \in [Keys -> Nat] /\ fact \in [Facts -> Nat]
                          /\ d1 \in [Slots -> Nat] /\ drain \in [Drains -> Pass] /\ "alarm" \in Drains
                          /\ \A k \in Facts : rows[k].gen \in Nat
BY PassTypes, Types, OutboxConstants DEF KeepInv, MirrorInv, MirroredOK, OwnerOK, OutboxOK

(* A pass without a call: its end, its failure, its beginning.             *)
LEMMA EndedKeeps == ASSUME KeepInv, ~Called', UNCHANGED <<fact, d1, ledger, clock>>,
                           owner' = "here" => owner = "here" /\ Queued' = Queued
                    PROVE  Keep'
BY DEF KeepInv, Keep, LedgerPart, PartPart, TopPart, LastPart, Latest, MarkKept

(* Nothing the pass or D1 knows of changes.                                *)
LEMMA StillKeeps == ASSUME KeepInv, UNCHANGED <<ledger, clock, flight, drain>>,
                           owner' = "here" => /\ owner = "here" /\ UNCHANGED <<fact, d1>>
                                              /\ \A k \in Facts : rows'[k].gen = rows[k].gen
                    PROVE  Keep'
<1>1. AlarmPass' = AlarmPass /\ (Called' <=> Called) /\ Flying("alarm")' = Flying("alarm")
  BY DEF AlarmPass, Called, Waiting, Flying
<1>2. LedgerPart' /\ PartPart' /\ TopPart'
  BY <1>1 DEF KeepInv, Keep, LedgerPart, PartPart, TopPart
<1>3. Called => AlarmPass.call.key \in Facts
  BY CallTypes DEF CallRecords
<1>4. LastPart'
  BY <1>1, <1>3 DEF KeepInv, Keep, LastPart, Latest
<1>5. MarkKept'
  BY SlotForm DEF KeepInv, Keep, MarkKept, Queued
<1>. QED BY <1>2, <1>4, <1>5 DEF Keep

LEMMA WriteKeeps == ASSUME KeepInv, (\E k \in Facts : Write(k)) \/ Resync PROVE Keep'
<1>1. UNCHANGED <<ledger, clock, flight, drain, d1, owner>> /\ owner = "here"
  BY DEF Write, Resync, MarkDirty, mirrored
<1>2. PICK S \in SUBSET Facts : /\ rows' = Marked(S)
                                /\ \A j \in Facts \ S : fact'[j] = fact[j]
  <2>1. fact \in [Facts -> Nat]
    BY CallTypes
  <2>2. CASE \E k \in Facts : Write(k)
    <3>1. PICK k \in Facts : Write(k)
      BY <2>2
    <3>. QED BY <2>1, <3>1 DEF Write, MarkDirty
  <2>3. CASE Resync
    BY <2>3, KeyOrEvent DEF Resync, MarkDirty
  <2>. QED BY <2>2, <2>3
<1>3. /\ \A k \in S : rows'[k].gen = rows[k].gen + 1
      /\ \A k \in Facts \ S : rows'[k] = rows[k]
  BY <1>2 DEF Marked, KeepInv, BellInv, TypeOK
<1>4. AlarmPass' = AlarmPass /\ (Called' <=> Called) /\ Flying("alarm")' = Flying("alarm")
  BY <1>1 DEF AlarmPass, Called, Waiting, Flying
<1>5. LedgerPart' /\ PartPart' /\ TopPart'
  BY <1>1, <1>4 DEF KeepInv, Keep, LedgerPart, PartPart, TopPart
<1>6. LastPart'
  <2>. SUFFICES ASSUME Latest' PROVE LastPart'
    BY DEF LastPart
  <2>1. Called /\ AlarmPass.call.key \in Facts /\ AlarmPass.call.gen \in Nat
    BY <1>4, CallTypes DEF Latest, CallRecords
  <2>2. AlarmPass.call.gen <= rows[AlarmPass.call.key].gen /\ rows[AlarmPass.call.key].gen \in Nat
    BY <1>1, <2>1, CallTypes DEF KeepInv, BellInv, TakenPart
  <2>3. AlarmPass.call.key \notin S
    BY <1>3, <1>4, <2>1, <2>2 DEF Latest
  <2>4. Latest /\ fact'[AlarmPass.call.key] = fact[AlarmPass.call.key]
    BY <1>1, <1>2, <1>3, <1>4, <2>1, <2>3 DEF Latest
  <2>. QED BY <1>1, <1>4, <2>4 DEF KeepInv, Keep, LastPart
<1>7. MarkKept'
  <2>1. ASSUME NEW s \in Slots, d1'[s] # fact'[s[1]] PROVE s[1] \in Queued'
    <3>1. s[1] \in Facts /\ rows[s[1]].gen \in Nat
      BY SlotForm, CallTypes
    <3>2. CASE s[1] \in S
      BY <1>3, <3>1, <3>2 DEF Queued
    <3>3. CASE s[1] \notin S
      <4>1. s[1] \in Queued
        BY <1>1, <1>2, <2>1, <3>1, <3>3 DEF KeepInv, Keep, MarkKept
      <4>. QED BY <1>3, <3>1, <3>3, <4>1 DEF Queued
    <3>. QED BY <3>2, <3>3
  <2>. QED BY <2>1 DEF MarkKept
<1>. QED BY <1>5, <1>6, <1>7 DEF Keep

LEMMA SendKeeps == ASSUME KeepInv, Send("alarm") PROVE Keep'
<1>0. TypeOK
  BY DEF KeepInv, BellInv
<1>1. PICK r \in drain["alarm"].todo :
         /\ r \in Takings /\ CallFor(r) \in CallRecords
         /\ clock' = IF r.key \in Keys THEN clock + 1 ELSE clock
         /\ flight' = flight \cup {Sent(CallFor(r))}
         /\ drain' = [drain EXCEPT !["alarm"] = [drain["alarm"] EXCEPT !.todo = drain["alarm"].todo \ {r},
                                                                       !.call = CallFor(r)]]
  BY <1>0, CallTypes, SendStep
<1>2. UNCHANGED <<fact, rows, d1, ledger, owner>>
  BY DEF Send
<1>3. AlarmPass'.call = CallFor(r)
  BY <1>0, <1>1, CallTypes, PassTypes DEF AlarmPass, Pass
<1>4. /\ CallFor(r).key = r.key /\ CallFor(r).gen = r.gen /\ CallFor(r).part = 1
      /\ CallFor(r).val = fact[r.key] /\ (r.key \in Keys => CallFor(r).ver = clock + 1)
      /\ Sent(CallFor(r)).key = r.key /\ Sent(CallFor(r)).ver = CallFor(r).ver
      /\ Same(CallFor(r), Sent(CallFor(r)))
  BY DEF CallFor, Sent, Same, NextVersion
<1>5. r.key \in Facts
  BY <1>1 DEF Takings
<1>. HIDE DEF CallFor
<1>6. LedgerPart'
  BY <1>1, <1>2, CallTypes DEF KeepInv, Keep, LedgerPart
<1>7. PartPart'
  BY <1>3, <1>4, <1>5, PartsNat DEF PartPart
<1>8. TopPart'
  <2>. SUFFICES ASSUME r.key \in Keys
                PROVE  /\ ledger[r.key] <= CallFor(r).ver
                       /\ \A f \in flight' : f.key = r.key => f.ver <= CallFor(r).ver
    BY <1>2, <1>3, <1>4 DEF TopPart
  <2>1. ledger[r.key] <= CallFor(r).ver
    BY <1>4, CallTypes DEF KeepInv, Keep, LedgerPart
  <2>2. ASSUME NEW f \in flight, f.key = r.key PROVE f.ver <= CallFor(r).ver
    <3>1. f.ver \in Nat /\ f.val \in Nat /\ Known(r.key, f.ver, f.val)
      BY <2>2, CallTypes DEF Sendings, Known, InFlight
    <3>2. f.ver <= clock
      BY <3>1 DEF KeepInv, MirrorInv, NewerPart
    <3>. QED BY <1>4, <3>1, <3>2, CallTypes
  <2>3. CallFor(r).ver \in Nat
    BY <1>1 DEF CallRecords
  <2>. QED BY <1>1, <1>4, <2>1, <2>2, <2>3
<1>9. LastPart'
  <2>. SUFFICES ASSUME Latest' PROVE LastPart'
    BY DEF LastPart
  <2>1. Sent(CallFor(r)) \in Flying("alarm")'
    BY <1>1, <1>3, <1>4 DEF Flying, Latest, Called, AlarmPass
  <2>. QED BY <1>2, <1>3, <1>4, <2>1 DEF LastPart
<1>10. MarkKept'
  BY <1>2 DEF KeepInv, Keep, MarkKept, Queued
<1>. QED BY <1>6, <1>7, <1>8, <1>9, <1>10 DEF Keep

LEMMA AnsweredKeeps == ASSUME KeepInv, Answered("alarm") PROVE Keep'
<1>0. TypeOK
  BY DEF KeepInv, BellInv
<1>. DEFINE c == drain["alarm"].call
<1>1. /\ Called /\ Flying("alarm") = {} /\ c \in CallRecords /\ c = AlarmPass.call
      /\ UNCHANGED <<fact, clock, d1, ledger, owner>>
  BY <1>0, CallTypes, AnsweredStep DEF Called, AlarmPass
<1>2. CASE /\ c.part < PartsOf(c.key) /\ Following(c) \in CallRecords /\ UNCHANGED rows
           /\ flight' = flight \cup {Sent(Following(c))}
           /\ drain' = [drain EXCEPT !["alarm"] = [drain["alarm"] EXCEPT !.call = Following(c)]]
  <2>1. AlarmPass'.call = Following(c)
    BY <1>0, <1>2, CallTypes, PassTypes DEF AlarmPass, Pass
  <2>2. /\ Following(c).key = c.key /\ Following(c).gen = c.gen /\ Following(c).part = c.part + 1
        /\ Following(c).ver = c.ver /\ Following(c).val = c.val
        /\ Sent(Following(c)).key = c.key /\ Sent(Following(c)).ver = c.ver
        /\ Same(Following(c), Sent(Following(c)))
    BY <1>1 DEF Following, Sent, Same, CallRecords
  <2>3. c.key \in Facts /\ c.part \in 1 .. PartsOf(c.key) /\ PartsOf(c.key) \in Nat
    BY <1>1, PartsNat DEF CallRecords, KeepInv, Keep, PartPart
  <2>4. LedgerPart' /\ PartPart'
    BY <1>1, <1>2, <2>1, <2>2, <2>3 DEF KeepInv, Keep, LedgerPart, PartPart
  <2>5. TopPart'
    <3>. SUFFICES ASSUME c.key \in Keys
                  PROVE  ledger[c.key] <= c.ver /\ \A f \in flight' : f.key = c.key => f.ver <= c.ver
      BY <1>1, <2>1, <2>2 DEF TopPart
    <3>1. ledger[c.key] <= c.ver /\ \A f \in flight : f.key = c.key => f.ver <= c.ver
      BY <1>1 DEF KeepInv, Keep, TopPart
    <3>2. c.ver \in Nat
      BY <1>1 DEF CallRecords
    <3>. QED BY <1>2, <2>2, <3>1, <3>2
  <2>6. LastPart'
    <3>. SUFFICES ASSUME Latest' PROVE LastPart'
      BY DEF LastPart
    <3>1. Sent(Following(c)) \in Flying("alarm")'
      BY <1>2, <2>1, <2>2 DEF Flying, Latest, Called, AlarmPass
    <3>2. Latest
      BY <1>1, <1>2, <2>1, <2>2 DEF Latest
    <3>3. /\ c.val = fact[c.key]
          /\ \A i \in 1 .. PartsOf(c.key) : i < c.part + 1 => d1[<<c.key, i>>] = fact[c.key]
      BY <1>1, <2>3, <3>2 DEF KeepInv, Keep, LastPart
    <3>. QED BY <1>1, <2>1, <2>2, <3>1, <3>3 DEF LastPart
  <2>7. MarkKept'
    BY <1>1, <1>2 DEF KeepInv, Keep, MarkKept, Queued
  <2>. QED BY <2>4, <2>5, <2>6, <2>7 DEF Keep
<1>3. CASE /\ c.part = PartsOf(c.key) /\ rows' = Unmark(c.key, c.gen)
           /\ drain' = [drain EXCEPT !["alarm"] = [drain["alarm"] EXCEPT !.call = NoCall, !.applied = TRUE,
                                                                         !.streak = 0]]
  <2>1. AlarmPass'.call = NoCall
    BY <1>0, <1>3, CallTypes, PassTypes DEF AlarmPass, Pass
  <2>2. ~Called'
    BY <2>1 DEF Called, Waiting, AlarmPass
  <2>3. MarkKept'
    <3>1. ASSUME owner = "here", NEW s \in Slots, d1[s] # fact[s[1]] PROVE s[1] \in Queued'
      <4>1. s[1] \in Queued /\ s[1] \in Facts /\ s = <<s[1], s[2]>> /\ s[2] \in 1 .. PartsOf(s[1])
        BY <3>1, SlotForm, SlotParts DEF KeepInv, Keep, MarkKept
      <4>2. s[1] # c.key \/ rows[s[1]].gen # c.gen
        <5>. SUFFICES ASSUME s[1] = c.key, rows[s[1]].gen = c.gen PROVE FALSE
          OBVIOUS
        <5>1. Latest
          BY <1>1, <3>1 DEF Latest
        <5>2. s[2] < c.part \/ s[2] = c.part
          BY <1>3, <4>1, PartsNat
        <5>3. d1[<<c.key, s[2]>>] = fact[c.key]
          BY <1>1, <4>1, <5>1, <5>2 DEF KeepInv, Keep, LastPart
        <5>. QED BY <3>1, <4>1, <5>3
      <4>3. rows'[s[1]] = rows[s[1]]
        BY <1>0, <1>3, <4>1, <4>2, UnmarkQueued
      <4>. QED BY <4>1, <4>3 DEF Queued
    <3>. QED BY <1>1, <3>1 DEF MarkKept
  <2>4. LedgerPart'
    BY <1>1 DEF KeepInv, Keep, LedgerPart
  <2>. QED BY <2>2, <2>3, <2>4 DEF Keep, PartPart, TopPart, LastPart, Latest
<1>. QED BY <1>0, <1>2, <1>3, CallTypes, AnsweredStep

(* What a drain gave up on and D1 takes late is no older than what D1      *)
(* shows, so it cannot disturb a fact that is shown as it is.              *)
LEMMA LandKeeps == ASSUME KeepInv, NEW f \in flight, Lands(f) PROVE Keep'
<1>0. MirrorInv /\ TypeOK
  BY DEF KeepInv, MirrorInv
<1>1. /\ f \in Sendings /\ flight' = flight \ {f} /\ UNCHANGED <<fact, rows, clock, drain, owner>>
      /\ \/ UNCHANGED <<d1, ledger>>
         \/ \E p \in Nat : /\ d1' = [d1 EXCEPT ![<<f.key, p>>] = f.val]
                           /\ <<f.key, p>> \in Slots => f.val >= d1[<<f.key, p>>]
                           /\ \/ f.key \in Events /\ ledger' = ledger
                              \/ /\ f.key \in Keys /\ f.ver >= ledger[f.key]
                                 /\ ledger' = [ledger EXCEPT ![f.key] = f.ver]
  BY <1>0, LandStep DEF outbox
<1>2. /\ f.key \in Facts /\ f.ver \in Nat /\ f.val \in Nat /\ f.part \in Nat
      /\ Known(f.key, f.ver, f.val)
  BY <1>1 DEF Sendings, Known, InFlight
<1>3. ShownPart' /\ d1' \in [Slots -> Nat]
  <2>1. TypeOK'
    BY <1>0, LandType
  <2>. QED BY <1>0, <2>1, LandMirror DEF TypeOK
<1>4. \A s \in Slots : d1[s] = fact[s[1]] => d1'[s] = fact[s[1]]
  <2>. SUFFICES ASSUME NEW s \in Slots, d1[s] = fact[s[1]] PROVE d1'[s] = fact[s[1]]
    OBVIOUS
  <2>1. d1'[s] <= fact[s[1]] /\ d1'[s] \in Nat /\ d1[s] \in Nat
    BY <1>1, <1>3, CallTypes DEF ShownPart
  <2>2. d1'[s] >= d1[s]
    <3>1. CASE UNCHANGED d1
      BY <2>1, <3>1
    <3>2. ASSUME NEW p \in Nat, d1' = [d1 EXCEPT ![<<f.key, p>>] = f.val],
                 <<f.key, p>> \in Slots => f.val >= d1[<<f.key, p>>]
          PROVE d1'[s] >= d1[s]
      <4>1. d1 \in [Slots -> Nat]
        BY CallTypes
      <4>2. CASE s = <<f.key, p>>
        BY <3>2, <4>1, <4>2
      <4>3. CASE s # <<f.key, p>>
        BY <2>1, <3>2, <4>1, <4>3
      <4>. QED BY <4>2, <4>3
    <3>. QED BY <1>1, <3>1, <3>2
  <2>. QED BY <2>1, <2>2
<1>5. AlarmPass' = AlarmPass /\ (Called' <=> Called) /\ (Latest' <=> Latest)
  BY <1>1 DEF AlarmPass, Called, Waiting, Latest
<1>6. MarkKept'
  BY <1>1, <1>4 DEF KeepInv, Keep, MarkKept, Queued
<1>7. LedgerPart'
  <2>1. f.key \in Keys => f.ver <= clock
    BY <1>0, <1>2 DEF MirrorInv, NewerPart
  <2>. QED BY <1>1, <2>1, CallTypes DEF KeepInv, Keep, LedgerPart
<1>8. PartPart'
  BY <1>5 DEF KeepInv, Keep, PartPart
<1>9. TopPart'
  BY <1>1, <1>5, CallTypes DEF KeepInv, Keep, TopPart
<1>10. LastPart'
  <2>. SUFFICES ASSUME Latest PROVE LastPart'
    BY <1>5 DEF LastPart
  <2>. DEFINE c == AlarmPass.call
  <2>1. /\ Called /\ owner = "here" /\ c \in CallRecords /\ c.key \in Facts
        /\ c.part \in 1 .. PartsOf(c.key) /\ PartsOf(c.key) \in Nat /\ c.ver \in Nat /\ c.val \in Nat
    BY CallTypes, PartsNat DEF Latest, CallRecords, KeepInv, Keep, PartPart
  <2>2. /\ c.val = fact[c.key]
        /\ \A i \in 1 .. PartsOf(c.key) :
              i < c.part \/ (i = c.part /\ Flying("alarm") = {}) => d1[<<c.key, i>>] = fact[c.key]
    BY DEF KeepInv, Keep, LastPart
  <2>3. ASSUME Flying("alarm")' = {} PROVE d1'[<<c.key, c.part>>] = fact[c.key]
    <3>0. <<c.key, c.part>> \in Slots
      BY <2>1, SlotOf
    <3>1. CASE Flying("alarm") = {}
      <4>1. d1[<<c.key, c.part>>] = fact[c.key]
        BY <2>1, <2>2, <3>1
      <4>. QED BY <1>4, <3>0, <4>1
    <3>2. CASE Flying("alarm") # {}
      <4>1. Same(c, f)
        BY <1>1, <1>5, <2>1, <2>3, <3>2 DEF Flying, AlarmPass, Called
      <4>2. f.key = c.key /\ f.part = c.part /\ f.ver = c.ver
        BY <4>1 DEF Same
      <4>3. Known(c.key, c.ver, c.val)
        BY <2>1, CallTypes DEF Known, InCall, Called, AlarmPass
      <4>4. CASE c.key \in Keys
        <5>1. f.val <= c.val /\ c.val <= f.val
          BY <1>0, <1>2, <2>1, <4>2, <4>3, <4>4 DEF MirrorInv, OrderPart
        <5>2. f.val = fact[c.key]
          BY <1>2, <2>1, <2>2, <5>1
        <5>3. Admits(f)
          BY <2>1, <4>2, <4>4 DEF KeepInv, Keep, TopPart, Admits, Tombstoned
        <5>4. d1' = [d1 EXCEPT ![<<f.key, f.part>>] = f.val]
          BY <4>2, <4>4, <5>3, KeyOrEvent DEF Lands, Carried
        <5>. QED BY <3>0, <4>2, <5>2, <5>4, CallTypes
      <4>5. CASE c.key \in Events
        <5>1. c.part = 1
          BY <2>1, <4>5, KeyOrEvent DEF PartsOf
        <5>2. d1' = [d1 EXCEPT ![<<f.key, 1>>] = f.val]
          BY <4>2, <4>5 DEF Lands, Carried
        <5>3. f.val = fact[c.key]
          BY <1>0, <1>2, <4>2, <4>5 DEF MirrorInv, EventPart
        <5>. QED BY <3>0, <4>2, <5>1, <5>2, <5>3, CallTypes
      <4>. QED BY <2>1, <4>4, <4>5 DEF Facts
    <3>. QED BY <3>1, <3>2
  <2>4. ASSUME NEW i \in 1 .. PartsOf(c.key), i < c.part PROVE d1'[<<c.key, i>>] = fact[c.key]
    <3>1. <<c.key, i>> \in Slots /\ d1[<<c.key, i>>] = fact[c.key]
      BY <2>1, <2>2, <2>4, SlotOf
    <3>. QED BY <1>4, <3>1
  <2>. QED BY <1>1, <1>5, <2>2, <2>3, <2>4 DEF LastPart
<1>. QED BY <1>6, <1>7, <1>8, <1>9, <1>10 DEF Keep

LEMMA LookKeeps == ASSUME KeepInv, NEW f \in flight, LooksUp(f) \/ Lost(f) PROVE Keep'
<1>1. UNCHANGED <<fact, rows, clock, drain, d1, ledger, owner>> /\ f \in Sendings
  BY CallTypes DEF LooksUp, Lost, outbox
<1>. DEFINE g == [f EXCEPT !.ok = TRUE]
<1>2. g.key = f.key /\ g.part = f.part /\ g.ver = f.ver
  BY <1>1 DEF Sendings
<1>3. flight' \subseteq flight \cup {g}
  BY DEF LooksUp, Lost
<1>4. AlarmPass' = AlarmPass /\ (Called' <=> Called) /\ (Latest' <=> Latest)
  BY <1>1 DEF AlarmPass, Called, Waiting, Latest
<1>5. LedgerPart' /\ PartPart' /\ MarkKept'
  BY <1>1, <1>4 DEF KeepInv, Keep, LedgerPart, PartPart, MarkKept, Queued
<1>6. TopPart'
  BY <1>1, <1>2, <1>3, <1>4 DEF KeepInv, Keep, TopPart
<1>7. LastPart'
  <2>. SUFFICES ASSUME Latest PROVE LastPart'
    BY <1>4 DEF LastPart
  <2>1. Flying("alarm") # {} => Flying("alarm")' # {}
    <3>. SUFFICES ASSUME NEW h \in Flying("alarm") PROVE Flying("alarm")' # {}
      OBVIOUS
    <3>1. h \in flight /\ Called /\ Same(AlarmPass.call, h)
      BY DEF Flying, Called, AlarmPass
    <3>2. h \in flight' \/ (h = f /\ g \in flight')
      <4>1. CASE LooksUp(f)
        <5>1. ~Tombstoned
          BY DEF Latest, Tombstoned
        <5>. QED BY <3>1, <4>1, <5>1 DEF LooksUp
      <4>2. CASE Lost(f)
        BY <3>1, <4>2, CallTypes DEF Lost
      <4>. QED BY <4>1, <4>2
    <3>3. h = f => Same(AlarmPass.call, g)
      BY <1>2, <3>1 DEF Same
    <3>. QED BY <1>4, <3>1, <3>2, <3>3 DEF Flying, Called, AlarmPass
  <2>. QED BY <1>1, <1>4, <2>1 DEF KeepInv, Keep, LastPart
<1>. QED BY <1>5, <1>6, <1>7 DEF Keep

(* The pass begins, ends, fails or is skipped over.                        *)
LEMMA PassKeeps == ASSUME KeepInv, AlarmFires \/ AlarmEnds \/ Restart \/ Skip("alarm") \/ Fails("alarm")
                   PROVE  Keep'
<1>0. TypeOK
  BY DEF KeepInv, BellInv
<1>1. UNCHANGED <<fact, d1, ledger, clock, owner>>
  BY DEF AlarmFires, AlarmEnds, Restart, Skip, Fails, mirrored
<1>2. CASE AlarmFires
  <2>1. AlarmPass'.call = NoCall
    BY <1>0, <1>2, CallTypes, TakeQuiet DEF AlarmFires, Due, AlarmPass
  <2>. QED BY <1>1, <1>2, <2>1, EndedKeeps DEF AlarmFires, Queued, Called, Waiting, AlarmPass
<1>3. CASE AlarmEnds \/ Restart
  <2>1. AlarmPass' = Idle
    BY <1>3, CallTypes DEF AlarmEnds, Restart, AlarmPass
  <2>2. ~Called'
    BY <2>1 DEF Called, Waiting, AlarmPass, Idle
  <2>. QED BY <1>1, <1>3, <2>2, EndedKeeps DEF AlarmEnds, Restart, Queued
<1>4. CASE Skip("alarm")
  <2>1. PICK r \in drain["alarm"].todo :
           drain' = [drain EXCEPT !["alarm"] = [drain["alarm"] EXCEPT !.todo = drain["alarm"].todo \ {r},
                                                             !.applied = TRUE, !.streak = 0]]
    BY <1>0, <1>4, CallTypes, SkipStep
  <2>2. AlarmPass'.call = AlarmPass.call
    BY <1>0, <2>1, CallTypes, PassTypes DEF AlarmPass, Pass
  <2>3. owner # "here" /\ AlarmPass.call = NoCall
    BY <1>4 DEF Skip, Ready, AlarmPass
  <2>4. ~Called'
    BY <2>2, <2>3 DEF Called, Waiting, AlarmPass
  <2>. QED BY <1>1, <2>3, <2>4, EndedKeeps
<1>5. CASE Fails("alarm")
  <2>1. PICK n \in 0 .. MaxStreak - 1, todo \in {{}, drain["alarm"].todo} :
          drain' = [drain EXCEPT !["alarm"] = [drain["alarm"] EXCEPT !.call = NoCall, !.failed = TRUE,
                                               !.streak = n, !.todo = todo]]
    BY <1>0, <1>5, CallTypes, FailsStep
  <2>2. AlarmPass'.call = NoCall
    BY <1>0, <2>1, CallTypes, PassTypes DEF AlarmPass, Pass
  <2>3. \A k \in Facts : rows'[k].gen = rows[k].gen
    BY <1>0, <1>5, CallTypes, FailsStep
  <2>4. ~Called'
    BY <2>2 DEF Called, Waiting, AlarmPass
  <2>. QED BY <1>1, <2>3, <2>4, EndedKeeps DEF Queued
<1>. QED BY <1>2, <1>3, <1>4, <1>5

LEMMA OtherKeeps == ASSUME KeepInv,
                           \/ \E k \in Facts : RowFallsDue(k)
                           \/ ArmLands \/ ArmFails \/ Wipe \/ Purge \/ UNCHANGED vars
                    PROVE  Keep'
<1>1. UNCHANGED <<ledger, clock, flight, drain>>
  BY DEF RowFallsDue, ArmLands, ArmFails, Wipe, Purge, outbox, mirrored, vars
<1>2. owner' = "here" => owner = "here" /\ UNCHANGED <<fact, d1>>
  BY DEF RowFallsDue, ArmLands, ArmFails, Wipe, Purge, outbox, mirrored, vars
<1>3. owner' = "here" => \A k \in Facts : rows'[k].gen = rows[k].gen
  BY DEF RowFallsDue, ArmLands, ArmFails, Wipe, Purge, outbox, vars, KeepInv, BellInv, TypeOK
<1>. QED BY <1>1, <1>2, <1>3, StillKeeps

LEMMA InitKeep == Init => KeepInv
<1>. SUFFICES ASSUME Init PROVE KeepInv
  OBVIOUS
<1>1. ~Called
  BY OutboxConstants DEF Init, Called, Waiting, Idle
<1>2. LedgerPart
  BY DEF Init, LedgerPart
<1>3. MarkKept
  BY SlotForm DEF Init, MarkKept
<1>. QED BY <1>1, <1>2, <1>3, InitMirror, InitBell DEF KeepInv, Keep, PartPart, TopPart, LastPart, Latest

LEMMA StepKeep == ASSUME OneDrain PROVE KeepInv /\ [Next]_vars => KeepInv'
<1>. SUFFICES ASSUME KeepInv, [Next]_vars PROVE KeepInv'
  OBVIOUS
<1>1. MirrorInv' /\ BellInv'
  BY StepMirror, StepBell DEF KeepInv
<1>2. "now" \notin Drains
  BY DEF OneDrain
<1>3. Keep'
  <2>1. CASE (\E k \in Facts : Write(k)) \/ Resync
    BY <2>1, WriteKeeps
  <2>2. CASE Send("alarm")
    BY <2>2, SendKeeps
  <2>3. CASE Answered("alarm")
    BY <2>3, AnsweredKeeps
  <2>4. CASE \E f \in flight : Lands(f)
    BY <2>4, LandKeeps
  <2>5. CASE \E f \in flight : LooksUp(f) \/ Lost(f)
    BY <2>5, LookKeeps
  <2>6. CASE AlarmFires \/ AlarmEnds \/ Restart \/ Skip("alarm") \/ Fails("alarm")
    BY <2>6, PassKeeps
  <2>7. CASE \/ \E k \in Facts : RowFallsDue(k)
             \/ ArmLands \/ ArmFails \/ Wipe \/ Purge \/ UNCHANGED vars
    BY <2>7, OtherKeeps
  <2>. QED BY <1>2, <2>1, <2>2, <2>3, <2>4, <2>5, <2>6, <2>7 DEF Next, OneDrain, DrainNow, NowEnds
<1>. QED BY <1>1, <1>3 DEF KeepInv

(* While D1 does not show a fact as it is, its mark stays in the outbox:   *)
(* however calls fail, are late, lost or cut off, and whatever is written  *)
(* while a pass has the row in hand, as long as the alarm's drain is alone *)
(* (a user's drainMirrorNow beside it can drop a mark of generation 1).    *)
THEOREM MarksAreKept == ASSUME OneDrain PROVE Spec => []MarkKept
<1>1. KeepInv => MarkKept
  BY DEF KeepInv, Keep
<1>. QED BY <1>1, InitKeep, StepKeep, PTL DEF Spec

=============================================================================
