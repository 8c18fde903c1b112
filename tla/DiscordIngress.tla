--------------------------- MODULE DiscordIngress ---------------------------
(***************************************************************************)
(* One Discord conversation on its way to the agent: the ordered ingress   *)
(* outbox of DiscordControlDO (discord-control-do.ts), the Cloudflare      *)
(* queue its rows are published to and that queue's dead-letter queue, and *)
(* the main worker's consumers (discord-events-queue.ts).                  *)
(*                                                                         *)
(* A row is published by the Gateway dispatch that stored it or by a sweep *)
(* (alarm() and the cron's maintenance() are the same code). The cron runs *)
(* every minute whatever the alarm, so a sweep may start at any time and   *)
(* the alarm's own time is left out. Times are abstracted to whether a     *)
(* lease has run out and whether a row is over a day old.                  *)
(***************************************************************************)
EXTENDS Naturals, FiniteSets

CONSTANTS
    Messages,    \* how many messages the conversation has, in the order they come
    Slots,       \* bound: the queue messages there may be at a time
    Sweepers,    \* sweeps that may overlap: the alarm's and the cron's
    MaxRetries,  \* retries of the events queue before it dead-letters
    DlqRetries,  \* retries of the dead-letter queue before it drops
    LateAnswers, \* whether a queue message may be consumed before send() returns
    Expiry,      \* whether rows may grow over a day old
    MaxFaults,   \* bound: lost calls, dying consumers and restarts
    None

ASSUME IngressConstants ==
    /\ Messages \in Nat /\ MaxRetries \in Nat /\ DlqRetries \in Nat
    /\ LateAnswers \in BOOLEAN /\ Expiry \in BOOLEAN
    /\ MaxFaults \in Nat
    /\ "gateway" \notin Sweepers /\ None \notin Nat \cup Slots \cup Sweepers \cup {"gateway"}

VARIABLES
    rows,        \* the ingress_outbox row of each message
    completed,   \* conversation_state.completed_ordinal
    nextOrdinal, \* thread_bindings.next_ingress_ordinal
    sends,       \* publishEvent calls under way, one a publisher
    sweep,       \* sweep[s]: the rows a sweep has still to publish
    copies,      \* queue messages, and how far a consumer is with each
    accepted,    \* messages the agent runtime has taken
    faults

outbox == <<rows, completed, nextOrdinal>>
vars == <<outbox, sends, sweep, copies, accepted, faults>>

Msgs == 1 .. Messages
Publishers == {"gateway"} \cup Sweepers
Terminal == {"completed", "failed"}
Open == {"pending", "enqueued", "leased"}

\* live: its lease has not run out; old: it is over OUTBOX_EXPIRY_MS old.
NoRow == [st |-> "none", ordinal |-> 0, holder |-> None, live |-> FALSE, old |-> FALSE]
NoSend == [m |-> None, at |-> "idle"]
NoCopy == [m |-> None, at |-> "none", tries |-> 0, by |-> None]
Resting == [on |-> FALSE, todo |-> {}]

InState(S) == {m \in Msgs : rows[m].st \in S}
Expired == {m \in InState(Open) : rows[m].old}
\* a slip of the code: any message not yet settled may be worked on.
AnyInLine(m) == rows[m].ordinal > completed
NextInLine(m) == rows[m].ordinal = completed + 1
Faulty == faults < MaxFaults /\ faults' = faults + 1
Later(m) == IF rows[m].ordinal > completed THEN rows[m].ordinal ELSE completed

-----------------------------------------------------------------------------
(* Storing a message: dedupe, ordinal and row are one transaction *)

Inserted(m) == [rows EXCEPT ![m] = [NoRow EXCEPT !.st = "pending", !.ordinal = nextOrdinal]]

\* a slip of the code: the ordinal is taken before the duplicate is seen.
HoleAfter(duplicate) == nextOrdinal + 1
OrdinalAfter(duplicate) == IF duplicate THEN nextOrdinal ELSE nextOrdinal + 1

\* The Gateway forwards one dispatch at a time, and waits for its publication.
HandleMessageCreate(m) ==
    /\ sends["gateway"] = NoSend /\ rows[m] = NoRow
    /\ \A n \in 1 .. m - 1 : rows[n] # NoRow
    /\ rows' = Inserted(m) /\ nextOrdinal' = OrdinalAfter(FALSE)
    /\ sends' = [sends EXCEPT !["gateway"] = [m |-> m, at |-> "sending"]]
    /\ UNCHANGED <<completed, sweep, copies, accepted, faults>>

Replay(m) ==
    /\ sends["gateway"] = NoSend /\ rows[m] # NoRow
    /\ nextOrdinal' = OrdinalAfter(TRUE)
    /\ UNCHANGED <<rows, completed, sends, sweep, copies, accepted, faults>>

-----------------------------------------------------------------------------
(* Publishing *)

\* Queue messages have no names: a new one takes any free slot.
Free == {c \in Slots : copies[c] = NoCopy}
SendLands(p) ==
    /\ sends[p].at = "sending" /\ Free # {}
    /\ copies' = [copies EXCEPT ![CHOOSE c \in Free : TRUE] =
                     [m |-> sends[p].m, at |-> "queue", tries |-> 0, by |-> p]]
    /\ sends' = [sends EXCEPT ![p].at = "landed"]
    /\ UNCHANGED <<outbox, sweep, accepted, faults>>

\* Nobody waits any more for the send that made these copies.
Released(S) == [c \in Slots |-> IF copies[c].by \in S THEN [copies[c] EXCEPT !.by = None]
                                                     ELSE copies[c]]

\* a slip of the code: the UPDATE without its state = 'pending'.
EnqueuedAnyway(m) == [rows EXCEPT ![m].st = "enqueued"]
\* The UPDATE after a send touches a pending row only.
Enqueued(m) == IF rows[m].st = "pending" THEN [rows EXCEPT ![m].st = "enqueued"] ELSE rows

PublishEnds(p) ==
    /\ sends' = [sends EXCEPT ![p] = NoSend]
    /\ sweep' = [s \in Sweepers |-> IF s = p THEN [sweep[s] EXCEPT !.todo = @ \ {sends[p].m}]
                                             ELSE sweep[s]]
    /\ UNCHANGED <<completed, nextOrdinal, accepted>>

SendAnswered(p) == /\ sends[p].at = "landed" /\ rows' = Enqueued(sends[p].m)
                   /\ copies' = Released({p}) /\ PublishEnds(p) /\ UNCHANGED faults

\* The send failed, or its answer did: the row stays as it is.
SendFails(p) == /\ sends[p] # NoSend /\ Faulty
                /\ copies' = Released({p}) /\ PublishEnds(p) /\ UNCHANGED rows

SweepStarts(s) ==
    /\ ~sweep[s].on
    /\ InState({"pending"}) \cup Expired # {}
    /\ sweep' = [sweep EXCEPT ![s] = [on |-> TRUE, todo |-> InState({"pending"})]]
    /\ UNCHANGED <<outbox, sends, copies, accepted, faults>>

SweepSends(s) == \E m \in sweep[s].todo :
    /\ sends[s] = NoSend /\ \A n \in sweep[s].todo : rows[m].ordinal <= rows[n].ordinal
    /\ sends' = [sends EXCEPT ![s] = [m |-> m, at |-> "sending"]]
    /\ UNCHANGED <<outbox, sweep, copies, accepted, faults>>

\* a slip of the code: the successor is left as it is.
SuccessorLeft(S, st) == [n \in Msgs |->
    IF n \in S THEN [rows[n] EXCEPT !.st = st, !.holder = None, !.live = FALSE, !.old = FALSE]
    ELSE rows[n]]
\* terminalizeDelivery for every row of S: the enqueued successor is pending again.
Terminalized(S, st) == [n \in Msgs |->
    IF n \in S THEN [rows[n] EXCEPT !.st = st, !.holder = None, !.live = FALSE, !.old = FALSE]
    ELSE IF rows[n].st = "enqueued" /\ \E m \in S : rows[n].ordinal = rows[m].ordinal + 1
         THEN [rows[n] EXCEPT !.st = "pending"] ELSE rows[n]]


SweepEnds(s) ==
    /\ sweep[s].on /\ sweep[s].todo = {}
    /\ rows' = Terminalized(Expired, "failed")
    /\ completed' \in {Later(m) : m \in Expired} \cup {completed}
    /\ \A m \in Expired : completed' >= rows[m].ordinal
    /\ sweep' = [sweep EXCEPT ![s] = Resting]
    /\ UNCHANGED <<nextOrdinal, sends, copies, accepted, faults>>

\* The Durable Object restarts: its calls and sweeps are gone.
Restart == /\ \E p \in Publishers : sends[p] # NoSend \/ (p \in Sweepers /\ sweep[p].on)
           /\ Faulty /\ sends' = [p \in Publishers |-> NoSend]
           /\ sweep' = [s \in Sweepers |-> Resting] /\ copies' = Released(Publishers)
           /\ UNCHANGED <<outbox, accepted>>

-----------------------------------------------------------------------------
(* Consuming *)

At(c, stage) == copies[c].at = stage
Message(c) == copies[c].m
Settled(c) == rows[Message(c)].st \in Terminal
Holds(c) == rows[Message(c)].st = "leased" /\ rows[Message(c)].holder = c

Acked(c) == copies' = [copies EXCEPT ![c] = NoCopy]
Moves(c, stage) == copies' = [copies EXCEPT ![c].at = stage]

\* message.retry(), and a consumer that dies without an answer.
AfterRetry(copy) ==
    IF copy.at = "dlq"
    THEN IF copy.tries < DlqRetries THEN [copy EXCEPT !.tries = @ + 1] ELSE NoCopy
    ELSE IF copy.tries < MaxRetries THEN [copy EXCEPT !.at = "queue", !.tries = @ + 1]
                                    ELSE [copy EXCEPT !.at = "dlq", !.tries = 0]
Retried(c) == copies' = [copies EXCEPT ![c] = AfterRetry(@)]

Terminalize(c, st) ==
    /\ rows' = Terminalized({Message(c)}, st) /\ completed' = Later(Message(c))
    /\ UNCHANGED <<nextOrdinal>>

Delivered(c) == At(c, "queue") /\ (LateAnswers \/ copies[c].by = None)
LeaseWaits(m) == rows[m].st = "leased" /\ rows[m].live
\* a slip of the code: a claim that does not look at completed_ordinal.
ClaimsAny(m) == ~LeaseWaits(m)
MayClaim(m) == NextInLine(m) /\ ~LeaseWaits(m)
Leased(c) == [rows EXCEPT ![Message(c)] = [@ EXCEPT !.st = "leased", !.holder = c, !.live = TRUE]]

\* Rows already settled, and rows out of turn, are acknowledged.
AcksCopy(c) == /\ Delivered(c) /\ (Settled(c) \/ ~NextInLine(Message(c)))
               /\ Acked(c) /\ UNCHANGED <<outbox, sends, sweep, accepted, faults>>

\* a slip of the code: a copy that finds a live lease is acknowledged.
AcksWaiting(c) ==
    /\ Delivered(c) /\ ~Settled(c) /\ NextInLine(Message(c)) /\ LeaseWaits(Message(c))
    /\ Acked(c) /\ UNCHANGED <<outbox, sends, sweep, accepted, faults>>
WaitsForLease(c) ==
    /\ Delivered(c) /\ ~Settled(c) /\ NextInLine(Message(c)) /\ LeaseWaits(Message(c))
    /\ Retried(c) /\ UNCHANGED <<outbox, sends, sweep, accepted, faults>>

ClaimDelivery(c) ==
    /\ Delivered(c) /\ ~Settled(c) /\ MayClaim(Message(c))
    /\ rows' = Leased(c) /\ Moves(c, "claimed")
    /\ UNCHANGED <<completed, nextOrdinal, sends, sweep, accepted, faults>>

\* The lease is taken and nobody learns its token.
ClaimUnanswered(c) ==
    /\ Delivered(c) /\ ~Settled(c) /\ MayClaim(Message(c)) /\ Faulty
    /\ rows' = Leased(c) /\ Retried(c)
    /\ UNCHANGED <<completed, nextOrdinal, sends, sweep, accepted>>

\* The call did not get through.
ClaimFails(c) == /\ Delivered(c) /\ Faulty /\ Retried(c)
                 /\ UNCHANGED <<outbox, sends, sweep, accepted>>

LeaseRunsOut(m) ==
    /\ LeaseWaits(m) /\ rows' = [rows EXCEPT ![m].live = FALSE]
    /\ UNCHANGED <<completed, nextOrdinal, sends, sweep, copies, accepted, faults>>

\* A message handed over twice is one message: clientMessageId names it.
HandsOver(c) == /\ At(c, "claimed") /\ Moves(c, "done")
                /\ accepted' = accepted \cup {Message(c)}
                /\ UNCHANGED <<outbox, sends, sweep, faults>>

\* Nothing to hand over to: the integration is gone, or Discord refused for good.
GivesUp(c) == /\ At(c, "claimed") /\ Moves(c, "done")
              /\ UNCHANGED <<outbox, sends, sweep, accepted, faults>>

\* Busy, or an error that may pass.
TurnedAway(c) == /\ At(c, "claimed") /\ Moves(c, "retrying")
                 /\ UNCHANGED <<outbox, sends, sweep, accepted, faults>>

HandOverUnanswered(c) ==
    /\ At(c, "claimed") /\ Faulty /\ Moves(c, "retrying")
    /\ accepted' = accepted \cup {Message(c)}
    /\ UNCHANGED <<outbox, sends, sweep>>

FinishDelivery(c) ==
    /\ At(c, "done") /\ Acked(c)
    /\ \/ Settled(c) /\ UNCHANGED outbox
       \/ Holds(c) /\ Terminalize(c, "completed")
    /\ UNCHANGED <<sends, sweep, accepted, faults>>

\* The token is no longer the row's: 409, and the consumer retries.
FinishRefused(c) == /\ At(c, "done") /\ ~Settled(c) /\ ~Holds(c) /\ Moves(c, "retrying")
                    /\ UNCHANGED <<outbox, sends, sweep, accepted, faults>>

FinishUnanswered(c) ==
    /\ At(c, "done") /\ Faulty /\ Moves(c, "retrying")
    /\ \/ Holds(c) /\ Terminalize(c, "completed")
       \/ UNCHANGED outbox
    /\ UNCHANGED <<sends, sweep, accepted>>

HandedBack(c) == IF Holds(c) THEN [rows EXCEPT ![Message(c)] =
                                       [@ EXCEPT !.st = "enqueued", !.holder = None, !.live = FALSE]]
                             ELSE rows

RetryDelivery(c) ==
    /\ At(c, "retrying") /\ rows' = HandedBack(c) /\ Retried(c)
    /\ UNCHANGED <<completed, nextOrdinal, sends, sweep, accepted, faults>>

ConsumerDies(c) == /\ copies[c].at \in {"claimed", "done", "retrying"} /\ Faulty /\ Retried(c)
                   /\ UNCHANGED <<outbox, sends, sweep, accepted>>

-----------------------------------------------------------------------------
(* Dead letters *)

\* It takes no notice of a lease.
DeadLetter(c) ==
    /\ At(c, "dlq")
    /\ \/ Settled(c) /\ Acked(c) /\ UNCHANGED outbox
       \/ ~Settled(c) /\ NextInLine(Message(c)) /\ Terminalize(c, "failed") /\ Acked(c)
       \/ ~Settled(c) /\ ~NextInLine(Message(c)) /\ Retried(c) /\ UNCHANGED outbox
    /\ UNCHANGED <<sends, sweep, accepted, faults>>

DeadLetterFails(c) ==
    /\ At(c, "dlq") /\ Faulty /\ Retried(c)
    /\ \/ ~Settled(c) /\ NextInLine(Message(c)) /\ Terminalize(c, "failed")
       \/ UNCHANGED outbox
    /\ UNCHANGED <<sends, sweep, accepted>>

\* Rows are stored in the order of their ordinals.
GrowsOld(m) ==
    /\ Expiry /\ m \in InState(Open) \ Expired
    /\ \A n \in InState(Open) \ Expired : rows[m].ordinal <= rows[n].ordinal
    /\ rows' = [rows EXCEPT ![m].old = TRUE]
    /\ UNCHANGED <<completed, nextOrdinal, sends, sweep, copies, accepted, faults>>

-----------------------------------------------------------------------------
Init ==
    /\ rows = [m \in Msgs |-> NoRow] /\ completed = 0 /\ nextOrdinal = 1
    /\ sends = [p \in Publishers |-> NoSend] /\ sweep = [s \in Sweepers |-> Resting]
    /\ copies = [c \in Slots |-> NoCopy] /\ accepted = {}  /\ faults = 0

Publish(p) == SendLands(p) \/ SendAnswered(p)
Sweep(s) == SweepStarts(s) \/ SweepSends(s) \/ SweepEnds(s)
Take(c) == AcksCopy(c) \/ WaitsForLease(c) \/ ClaimDelivery(c)
Work(c) == HandsOver(c) \/ GivesUp(c) \/ TurnedAway(c)
Finish(c) == FinishDelivery(c) \/ FinishRefused(c) \/ RetryDelivery(c)
Lose(c) == \/ ClaimUnanswered(c) \/ ClaimFails(c) \/ HandOverUnanswered(c)
           \/ FinishUnanswered(c) \/ ConsumerDies(c) \/ DeadLetterFails(c)

Next ==
    \/ \E m \in Msgs : HandleMessageCreate(m) \/ Replay(m) \/ LeaseRunsOut(m) \/ GrowsOld(m)
    \/ \E p \in Publishers : Publish(p) \/ SendFails(p)
    \/ \E s \in Sweepers : Sweep(s)
    \/ Restart
    \/ \E c \in Slots : Take(c) \/ Work(c) \/ Finish(c) \/ DeadLetter(c) \/ Lose(c)

Spec == Init /\ [][Next]_vars

\* The queue delivers and is sent to, the cron fires, leases run out, calls return.
Fairness ==
    /\ \A p \in Publishers : WF_vars(Publish(p))
    /\ \A s \in Sweepers : WF_vars(Sweep(s))
    /\ \A c \in Slots : WF_vars(Take(c)) /\ WF_vars(Work(c)) /\ WF_vars(Finish(c))
                        /\ WF_vars(DeadLetter(c))
FairSpec == Spec /\ Fairness

-----------------------------------------------------------------------------
(* Properties *)

Rows == [st : {"none"} \cup Open \cup Terminal, ordinal : 0 .. Cardinality(Msgs),
         holder : Slots \cup {None}, live : BOOLEAN, old : BOOLEAN]

\* Every variable has its shape, ordinals never pass the number of stored
\* messages, and only a leased row has a holder: retries and settlements clear
\* the token (retryDelivery, terminalizeDelivery).
TypeOK ==
    /\ rows \in [Msgs -> Rows] /\ completed \in 0 .. Cardinality(Msgs)
    /\ nextOrdinal = Cardinality({m \in Msgs : rows[m] # NoRow}) + 1
    /\ accepted \subseteq Msgs
    /\ sends \in [Publishers -> [m : Msgs \cup {None}, at : {"idle", "sending", "landed"}]]
    /\ sweep \in [Sweepers -> [on : BOOLEAN, todo : SUBSET Msgs]]
    /\ copies \in [Slots -> [m : Msgs \cup {None}, tries : Nat, by : Publishers \cup {None},
                             at : {"none", "queue", "claimed", "done", "retrying", "dlq"}]]
    /\ \A m \in Msgs : rows[m].holder # None => rows[m].st = "leased"

\* A consumer works on a message, and the agent has taken one, only once every
\* message stored before it is settled, however long ago the consumer asked:
\* claimDelivery read completed_ordinal before the awaits of the work.
InHand == {copies[c].m : c \in {d \in Slots : copies[d].at \in {"claimed", "done", "retrying"}}}
HandedInOrder == \A m \in InHand \cup accepted, n \in Msgs :
    rows[n].ordinal \in 1 .. rows[m].ordinal - 1 => rows[n].st \in Terminal

\* completed_ordinal counts exactly the settled rows: a settled row never opens
\* again (a late answer to a send, a late retry), and none is settled out of turn.
SettledInOrder == \A m \in Msgs : rows[m] # NoRow =>
    (rows[m].ordinal <= completed <=> rows[m].st \in Terminal)

\* The conversation as its reader sees it is an ordered inbox (OrderedInbox): what
\* became of a message never changes, by a late answer, a late retry or a dead
\* letter; none is settled out of turn, or given to the agent out of turn.
Outcome(m) == IF rows[m].st \in Terminal THEN rows[m].st ELSE "open"
Inbox == INSTANCE OrderedInbox WITH
    stored <- nextOrdinal - 1, settled <- completed,
    outcome <- [m \in Msgs |-> Outcome(m)], given <- accepted
ImplementsInbox == Inbox!Spec

\* The next row in line, once enqueued or leased, has a queue message that will
\* bring it on: "parks an ordered delivery until its predecessor republishes it".
NextIsCarried == \A m \in InState({"enqueued", "leased"}) :
    NextInLine(m) => \E c \in Slots : copies[c].m = m

\* A consumer that works under a lease that has not run out is alone: nobody
\* else of the conversation holds one (retries, dead letters and new claims
\* between its awaits included).
LeaseIsExclusive == \A m, n \in Msgs :
    rows[m].live /\ rows[n].live => m = n

\* Every stored message is settled in the end, without waiting for the sweep
\* that fails day-old rows.
Settles == \A m \in Msgs : rows[m] # NoRow ~> rows[m].st \in Terminal
=============================================================================
