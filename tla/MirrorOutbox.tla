---------------------------- MODULE MirrorOutbox ----------------------------
(***************************************************************************)
(* The outbox through which a UserDO or an OrgDO mirrors its facts into D1 *)
(* (identity/d1-mirror-outbox.ts), with the alarm it shares, the drains    *)
(* that empty it, the versioned writes D1 takes (app-index-db.ts) and the  *)
(* hard deletion of the owner.                                             *)
(*                                                                         *)
(* A fact is the number of times it was written: whether its current state *)
(* is a row or a deletion is data, both take the same versioned claim.     *)
(* Times are abstracted to whether a row is due and whether an alarm is    *)
(* set; a re-dirtied row's due time never moves later, so neither do they. *)
(***************************************************************************)
EXTENDS Naturals, FiniteSets

CONSTANTS
    Keys,       \* the entities of the owner, mirrored from current state
    Root,       \* the entity of the owner itself
    Events,     \* append-only events, mirrored from their payload
    Parts,      \* how many D1 events an entity's snapshot has
    Owner,      \* "org" or "user"
    Drains,     \* the drains that may run: "alarm", and "now" for drainMirrorNow
    Limit,      \* rows a pass takes
    MaxStreak,  \* consecutive failures that end a pass
    ArmsCut,    \* whether arming may fail, or a restart cut it off
    MaxWrites,  \* bound: writes, resyncs and events of a behaviour
    MaxFaults,  \* bound: failed calls, failed armings and restarts
    NoCall      \* a drain waiting for nothing

ASSUME OutboxConstants ==
    /\ Root \in Keys /\ Keys \cap Events = {}
    /\ Parts \in [Keys -> Nat \ {0}]
    /\ Owner \in {"org", "user"} /\ "alarm" \in Drains
    /\ Limit \in Nat \ {0} /\ MaxStreak \in Nat \ {0}
    /\ ArmsCut \in BOOLEAN /\ MaxWrites \in Nat /\ MaxFaults \in Nat

VARIABLES
    fact,       \* fact[k]: how often k was written
    rows,       \* the d1_mirror_outbox row of each key
    clock,      \* d1_mirror_clock
    alarm,      \* whether the Durable Object has an alarm set
    armed,      \* armedAt is not null
    arms,       \* setAlarm calls of arm() under way
    drain,      \* drain[d]: the pass under way
    flight,     \* D1 calls sent and not carried out
    d1,         \* d1[<<k, part>>]: the write D1's row shows, 0 for no row
    ledger,     \* mirror_rows.version of each entity
    owner,      \* "here", "wiped" (hard-deleted) or "purged" (from D1 too)
    writes, faults

outbox == <<rows, clock, drain>>
mirrored == <<flight, d1, ledger>>
bell == <<alarm, armed, arms>>
vars == <<fact, outbox, bell, mirrored, owner, writes, faults>>

Facts == Keys \cup Events
PartsOf(k) == IF k \in Keys THEN Parts[k] ELSE 1
Slots == UNION {{<<k, i>> : i \in 1 .. PartsOf(k)} : k \in Facts}

\* No row is a row of generation 0.
NoRow == [gen |-> 0, due |-> FALSE]
Idle == [on |-> FALSE, todo |-> {}, call |-> NoCall, streak |-> 0,
         applied |-> FALSE, failed |-> FALSE]
Queued == {k \in Facts : rows[k].gen > 0}
Due == {k \in Queued : rows[k].due}

-----------------------------------------------------------------------------
(* Marking and arming *)

Armed == IF armed THEN UNCHANGED bell
                  ELSE armed' = TRUE /\ arms' = arms + 1 /\ UNCHANGED alarm

\* An upsert: a new row has generation 1, a queued one the next and its due time.
Marked(S) == [k \in Facts |-> IF k \in S THEN [rows[k] EXCEPT !.gen = @ + 1] ELSE rows[k]]

MarkDirty(S) == rows' = Marked(S) /\ Armed /\ UNCHANGED <<clock, drain>>

Counted == writes < MaxWrites /\ writes' = writes + 1

\* A fact and its mark are one transaction. An event has a key of its own.
Write(k) == /\ owner = "here" /\ (k \in Events => fact[k] = 0) /\ Counted
            /\ fact' = [fact EXCEPT ![k] = @ + 1]
            /\ MarkDirty({k})
            /\ UNCHANGED <<mirrored, owner, faults>>

\* The reconciler, a backfill or a bootstrap has what the owner still has marked.
Resync == /\ owner = "here" /\ Counted
          /\ \E S \in SUBSET {k \in Keys : fact[k] > 0} : Root \in S /\ MarkDirty(S)
          /\ UNCHANGED <<fact, mirrored, owner, faults>>

\* arm() reads the alarm and sets it unless it is set early enough: set either way.
ArmLands == /\ arms > 0 /\ arms' = arms - 1 /\ alarm' = TRUE
            /\ UNCHANGED <<fact, outbox, armed, mirrored, owner, writes, faults>>

ArmFails == /\ ArmsCut /\ faults < MaxFaults /\ faults' = faults + 1
            /\ arms > 0 /\ arms' = arms - 1 /\ armed' = FALSE
            /\ UNCHANGED <<fact, outbox, alarm, mirrored, owner, writes>>

RowFallsDue(k) == /\ rows[k].gen > 0 /\ ~rows[k].due
                  /\ rows' = [rows EXCEPT ![k].due = TRUE]
                  /\ UNCHANGED <<fact, clock, drain, bell, mirrored, owner, writes, faults>>

-----------------------------------------------------------------------------
(* Drains *)

\* A pass takes up to Limit of the rows it may, as they are now.
Take(d, from) ==
    \E S \in SUBSET from :
        /\ Cardinality(S) = IF Cardinality(from) < Limit THEN Cardinality(from) ELSE Limit
        /\ drain' = [drain EXCEPT ![d] =
               [Idle EXCEPT !.on = TRUE, !.todo = {[key |-> k, gen |-> rows[k].gen] : k \in S}]]

\* a slip of the code: the flag of an earlier alarm is kept
NoteNothing == UNCHANGED armed
NoteAlarmFired == armed' = FALSE

\* An OrgDO sets its fallback alarm before anything else.
AlarmFires == /\ alarm /\ ~drain["alarm"].on
              /\ alarm' = (Owner = "org") /\ NoteAlarmFired
              /\ Take("alarm", Due)
              /\ UNCHANGED <<fact, rows, clock, arms, mirrored, owner, writes, faults>>

DrainNow == /\ "now" \in Drains /\ ~drain["now"].on /\ Queued # {}
            /\ Take("now", Queued)
            /\ UNCHANGED <<fact, rows, clock, bell, mirrored, owner, writes, faults>>

Ready(d) == drain[d].on /\ drain[d].call = NoCall

Sent(c) == [key |-> c.key, part |-> c.part, ver |-> c.ver, val |-> c.val,
            ok |-> Owner = "org" \/ c.key \in Events]

\* a slip of the code: the clock is read and not moved
RepeatedVersion == IF clock = 0 THEN 1 ELSE clock
NextVersion == clock + 1

\* A fact is read and given its version in one step; an event is its payload.
Send(d) ==
    /\ Ready(d)
    /\ \E r \in drain[d].todo :
        LET c == [key |-> r.key, gen |-> r.gen, part |-> 1,
                  ver |-> IF r.key \in Keys THEN NextVersion ELSE 0, val |-> fact[r.key]]
        IN /\ r.key \in Events \/ owner = "here"
           /\ clock' = IF r.key \in Keys THEN c.ver ELSE clock
           /\ flight' = flight \cup {Sent(c)}
           /\ drain' = [drain EXCEPT ![d].todo = @ \ {r}, ![d].call = c]
    /\ UNCHANGED <<fact, rows, bell, d1, ledger, owner, writes, faults>>

\* a slip of the code: the row is deleted by its key
UnmarkAny(k, gen) == [rows EXCEPT ![k] = NoRow]
\* What was marked while the pass read it keeps its row.
Unmark(k, gen) == IF rows[k].gen = gen THEN [rows EXCEPT ![k] = NoRow] ELSE rows

\* A wiped owner has nothing to mirror: the row goes unsent.
Skip(d) == /\ Ready(d) /\ owner # "here"
           /\ \E r \in drain[d].todo :
                  /\ r.key \in Keys
                  /\ rows' = Unmark(r.key, r.gen)
                  /\ drain' = [drain EXCEPT ![d].todo = @ \ {r}, ![d].applied = TRUE,
                                            ![d].streak = 0]
           /\ UNCHANGED <<fact, clock, bell, mirrored, owner, writes, faults>>

Same(c, f) == f.key = c.key /\ f.part = c.part /\ f.ver = c.ver
Waiting(d) == drain[d].on /\ drain[d].call # NoCall
Flying(d) == {f \in flight : Waiting(d) /\ Same(drain[d].call, f)}

\* One D1 event of the snapshot is in: the next is sent, or the row is done.
Answered(d) ==
    LET c == drain[d].call
        next == [c EXCEPT !.part = @ + 1]
    IN /\ Waiting(d) /\ Flying(d) = {}
       /\ \/ /\ c.part < PartsOf(c.key)
             /\ flight' = flight \cup {Sent(next)}
             /\ drain' = [drain EXCEPT ![d].call = next]
             /\ UNCHANGED rows
          \/ /\ c.part = PartsOf(c.key)
             /\ rows' = Unmark(c.key, c.gen)
             /\ drain' = [drain EXCEPT ![d].call = NoCall, ![d].applied = TRUE, ![d].streak = 0]
             /\ UNCHANGED flight
       /\ UNCHANGED <<fact, clock, bell, d1, ledger, owner, writes, faults>>

\* What a failure leaves of the rows: its own waits again, all do once D1 seems down.
Retried(k, streak) == [j \in Facts |-> IF j = k \/ streak = MaxStreak
                                         THEN [rows[j] EXCEPT !.due = FALSE] ELSE rows[j]]

\* a slip of the code: a pass goes on however many calls failed
SpinsOn(streak) == FALSE
GivesUp(streak) == streak = MaxStreak

\* A call fails: it was never carried out, or was, or still will be.
Fails(d) ==
    LET c == drain[d].call
        streak == drain[d].streak + 1
    IN /\ Waiting(d) /\ faults < MaxFaults /\ faults' = faults + 1
       /\ flight' \in {flight, flight \ Flying(d)}
       /\ rows' = Retried(c.key, streak)
       /\ drain' = [drain EXCEPT ![d].call = NoCall, ![d].failed = TRUE,
                        ![d].streak = IF GivesUp(streak) THEN 0 ELSE streak,
                        ![d].todo = IF GivesUp(streak) THEN {} ELSE @]
       /\ UNCHANGED <<fact, clock, bell, d1, ledger, owner, writes>>

\* A pass ends with its rows, or with its time once it has tried one.
PassOver(d) == Ready(d) /\ (drain[d].todo = {} \/ drain[d].applied \/ drain[d].failed)

\* a slip of the code: only the token is thought of
TokenOnly(token) == token
\* The alarm is set for the outbox, and for a token of an OrgDO that expires.
NextAlarm(token) == Queued # {} \/ token

AlarmEnds == /\ PassOver("alarm")
             /\ drain' = [drain EXCEPT !["alarm"] = Idle]
             /\ \E token \in BOOLEAN : /\ token => Owner = "org"
                                       /\ alarm' = NextAlarm(token)
             /\ UNCHANGED <<fact, rows, clock, armed, arms, mirrored, owner, writes, faults>>

\* drainAll goes on until nothing is left, nothing was done, or something failed.
NowEnds == /\ "now" \in Drains /\ PassOver("now")
           /\ IF Queued # {} /\ drain["now"].applied /\ ~drain["now"].failed
                THEN Take("now", Queued)
                ELSE drain' = [drain EXCEPT !["now"] = Idle]
           /\ UNCHANGED <<fact, rows, clock, bell, mirrored, owner, writes, faults>>

\* A restart forgets the passes and the arming; an alarm cut off fires again.
Restart == /\ faults < MaxFaults /\ faults' = faults + 1
           /\ arms > 0 => ArmsCut
           /\ alarm' = (alarm \/ drain["alarm"].on)
           /\ armed' = FALSE /\ arms' = 0
           /\ drain' = [d \in Drains |-> Idle]
           /\ UNCHANGED <<fact, rows, clock, mirrored, owner, writes>>

-----------------------------------------------------------------------------
(* D1 *)

Tombstoned == owner = "purged"

\* slips of the code: a write not compared with the last, or with the tombstone
AdmitsStale(c) == Owner = "org" /\ c.key = Root => ~Tombstoned
AdmitsAfterPurge(c) == c.ver >= ledger[c.key]
\* The version a purge leaves on an org's row is above every other.
Admits(c) == c.ver >= ledger[c.key] /\ (Owner = "org" /\ c.key = Root => ~Tombstoned)

\* An event is inserted once; a fact's state only while its version is the last.
Carried(c) ==
    IF c.key \in Events
      THEN d1' = [d1 EXCEPT ![<<c.key, 1>>] = c.val] /\ UNCHANGED ledger
      ELSE IF Admits(c)
        THEN /\ ledger' = [ledger EXCEPT ![c.key] = c.ver]
             /\ d1' = [d1 EXCEPT ![<<c.key, c.part>>] = c.val]
        ELSE UNCHANGED <<d1, ledger>>

Lands(c) == /\ c.ok /\ Carried(c)
            /\ flight' = flight \ {c}
            /\ UNCHANGED <<fact, outbox, bell, owner, writes, faults>>

\* A user is first looked up among the deleted ones, then written.
LooksUp(c) == /\ ~c.ok
              /\ flight' = (flight \ {c}) \cup
                     (IF Tombstoned THEN {} ELSE {[c EXCEPT !.ok = TRUE]})
              /\ UNCHANGED <<fact, outbox, bell, d1, ledger, owner, writes, faults>>

\* A call nobody waits for any more is never carried out.
Lost(c) == /\ \A d \in Drains : c \notin Flying(d)
           /\ flight' = flight \ {c}
           /\ UNCHANGED <<fact, outbox, bell, d1, ledger, owner, writes, faults>>

-----------------------------------------------------------------------------
(* The owner's hard deletion *)

Wipe == /\ owner = "here" /\ owner' = "wiped"
        /\ rows' = [k \in Facts |-> NoRow]
        /\ UNCHANGED <<fact, clock, drain, bell, mirrored, writes, faults>>

\* Run by the deletion, and again by the backfill or the reconciler.
Purge == /\ owner # "here" /\ owner' = "purged"
         /\ d1' = [s \in Slots |-> 0]
         /\ UNCHANGED <<fact, outbox, bell, flight, ledger, writes, faults>>

-----------------------------------------------------------------------------
Init == /\ fact = [k \in Facts |-> 0]
        /\ rows = [k \in Facts |-> NoRow]
        /\ clock = 0
        /\ alarm = FALSE /\ armed = FALSE /\ arms = 0
        /\ drain = [d \in Drains |-> Idle]
        /\ flight = {} /\ d1 = [s \in Slots |-> 0]
        /\ ledger = [k \in Keys |-> 0]
        /\ owner = "here" /\ writes = 0 /\ faults = 0

Next == \/ \E k \in Facts : Write(k) \/ RowFallsDue(k)
        \/ Resync \/ ArmLands \/ ArmFails
        \/ AlarmFires \/ AlarmEnds \/ DrainNow \/ NowEnds
        \/ \E d \in Drains : Send(d) \/ Skip(d) \/ Answered(d) \/ Fails(d)
        \/ \E c \in flight : Lands(c) \/ LooksUp(c) \/ Lost(c)
        \/ Restart \/ Wipe \/ Purge

Spec == Init /\ [][Next]_vars

\* Time passes, the alarm fires, D1 answers what a drain waits for, and a drain goes on.
FairSpec ==
    /\ Spec
    /\ \A k \in Facts : WF_vars(RowFallsDue(k))
    /\ WF_vars(ArmLands) /\ WF_vars(AlarmFires) /\ WF_vars(AlarmEnds)
    /\ \A d \in Drains : /\ WF_vars(Send(d)) /\ WF_vars(Skip(d)) /\ WF_vars(Answered(d))
                         /\ WF_vars(\E c \in Flying(d) : Lands(c) \/ LooksUp(c))

-----------------------------------------------------------------------------
(* Properties *)

Pass == [on : BOOLEAN, todo : SUBSET [key : Facts, gen : Nat], streak : 0 .. MaxStreak - 1,
         applied : BOOLEAN, failed : BOOLEAN,
         call : [key : Facts, gen : Nat, part : Nat, ver : Nat, val : Nat] \cup {NoCall}]

\* The types of the state; a pass never goes on after MaxStreak failures in a row.
TypeOK ==
    /\ fact \in [Facts -> Nat] /\ clock \in Nat /\ arms \in Nat
    /\ rows \in [Facts -> [gen : Nat, due : BOOLEAN]]
    /\ alarm \in BOOLEAN /\ armed \in BOOLEAN
    /\ drain \in [Drains -> Pass]
    /\ flight \in SUBSET [key : Facts, part : Nat, ver : Nat, val : Nat, ok : BOOLEAN]
    /\ d1 \in [Slots -> Nat] /\ ledger \in [Keys -> Nat]
    /\ owner \in {"here", "wiped", "purged"} /\ writes \in Nat /\ faults \in Nat

\* While D1 does not show a fact as it is, the fact's row stays in the outbox: a drain
\* drops a mark only when what it wrote is the state the mark stands for.
MarkKept == owner = "here" => \A s \in Slots : d1[s] # fact[s[1]] => s[1] \in Queued

\* While a row waits, an alarm is set, about to be set, or its handler is running.
AlarmCovers == Queued # {} => alarm \/ arms > 0 \/ drain["alarm"].on

\* What armedAt says is so: an alarm is set, about to be, or its handler is running.
ArmedIsArmed == owner = "here" /\ armed => alarm \/ arms > 0 \/ drain["alarm"].on

\* The row of an owner that was hard-deleted and purged does not come back, however
\* late a drain's write is carried out.
PurgedRootGone == owner = "purged" => \A i \in 1 .. Parts[Root] : d1[<<Root, i>>] = 0

\* What a purge removes for good: an org's own row. A user's comes back (PurgedRootGone).
Lasting == IF Owner = "org" THEN {<<Root, i>> : i \in 1 .. Parts[Root]} ELSE {}

Mirror == INSTANCE IdentityMirror WITH shown <- d1

\* D1's rows only move forward through the states the owner's facts really had, and a
\* purged org's row stays away, whatever is lost, late, repeated or cut off.
ImplementsMirror == Mirror!Spec

\* D1 comes to show every fact as it is, again and again, unless the owner is deleted.
CatchesUp == []<>(owner = "here" => \A s \in Slots : d1[s] = fact[s[1]])
=============================================================================
