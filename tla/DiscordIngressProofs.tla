------------------------ MODULE DiscordIngressProofs ------------------------
(***************************************************************************)
(* Proofs about DiscordIngress: any number of messages, queue messages,    *)
(* sweeps, retries and faults.                                             *)
(*                                                                         *)
(* Messages are named by their arrival, so a stored message's ordinal is   *)
(* its name. Everything else rests on what the steps do to the rows: they  *)
(* store one, touch an open one, let one grow old, or settle all the open  *)
(* rows up to some ordinal (RowStep).                                      *)
(***************************************************************************)
EXTENDS DiscordIngress, FiniteSetTheorems, TLAPS

Stages == {"queue", "claimed", "done", "retrying", "dlq"}
Copies == {NoCopy} \cup [m : Msgs, at : Stages, tries : Nat, by : Publishers \cup {None}]
Sends == {NoSend} \cup [m : Msgs, at : {"sending", "landed"}]
RowRecords == [st : {"none"} \cup Open \cup Terminal, ordinal : Nat,
               holder : Slots \cup {None}, live : BOOLEAN, old : BOOLEAN]
Stored(m) == m < nextOrdinal

(* Ordinals are given out without holes, in the order of arrival.          *)
Numbered ==
    /\ rows \in [Msgs -> RowRecords]
    /\ completed \in Nat /\ nextOrdinal \in Nat
    /\ completed < nextOrdinal /\ nextOrdinal <= Messages + 1
    /\ \A m \in Msgs : Stored(m) => rows[m].ordinal = m /\ rows[m].st # "none"
    /\ \A m \in Msgs : ~Stored(m) => rows[m] = NoRow

SettledPart == \A m \in Msgs : Stored(m) => (m <= completed <=> rows[m].st \in Terminal)

LeasePart == \A m \in Msgs :
    /\ rows[m].st = "leased" => m = completed + 1
    /\ rows[m].live \/ rows[m].holder # None => rows[m].st = "leased"

(* Rows grow old in order.                                                 *)
OldPart ==
    /\ \A m \in Msgs : rows[m].old => rows[m].st \in Open
    /\ \A m, n \in Msgs : m < n /\ rows[n].old => rows[m].old \/ rows[m].st \in Terminal

RowsInv == Numbered /\ SettledPart /\ LeasePart /\ OldPart

(* Calls, sweeps and queue messages are about stored rows.                 *)
CallsPart ==
    /\ copies \in [Slots -> Copies] /\ sends \in [Publishers -> Sends]
    /\ sweep \in [Sweepers -> [on : BOOLEAN, todo : SUBSET Msgs]]
    /\ \A c \in Slots : copies[c] # NoCopy => Stored(copies[c].m)
    /\ \A p \in Publishers : sends[p] # NoSend => Stored(sends[p].m)
    /\ \A s \in Sweepers : \A m \in sweep[s].todo : Stored(m)

(* What a consumer has, and what the agent has taken, is settled or next.  *)
HandPart == accepted \subseteq Msgs /\ \A m \in InHand \cup accepted : m <= completed + 1

IInv == RowsInv /\ CallsPart /\ HandPart

-----------------------------------------------------------------------------
(* The kinds of step, as far as the rows go.                               *)

Store == \E m \in Msgs :
    /\ ~Stored(m) /\ \A n \in 1 .. m - 1 : Stored(n)
    /\ rows' = Inserted(m) /\ nextOrdinal' = nextOrdinal + 1 /\ completed' = completed

Touch == \E m \in Msgs, r \in RowRecords :
    /\ rows[m].st \in Open /\ r.st \in Open /\ r.ordinal = rows[m].ordinal /\ r.old = rows[m].old
    /\ r.st = "leased" => m = completed + 1
    /\ r.live \/ r.holder # None => r.st = "leased"
    /\ rows' = [rows EXCEPT ![m] = r] /\ UNCHANGED <<completed, nextOrdinal>>

Age == \E m \in Msgs :
    /\ rows[m].st \in Open /\ \A n \in Msgs : n < m => rows[n].old \/ rows[n].st \in Terminal
    /\ rows' = [rows EXCEPT ![m].old = TRUE] /\ UNCHANGED <<completed, nextOrdinal>>

SettleUpTo == \E st \in Terminal, k \in Nat :
    /\ completed <= k /\ k < nextOrdinal
    /\ rows' = Terminalized({m \in Msgs : rows[m].st \in Open /\ m <= k}, st)
    /\ completed' = k /\ UNCHANGED nextOrdinal

RowStep == Store \/ Touch \/ Age \/ SettleUpTo \/ UNCHANGED outbox

-----------------------------------------------------------------------------
LEMMA Records ==
    /\ Msgs \subseteq Nat /\ None \notin Msgs
    /\ NoRow \in RowRecords /\ NoRow.st = "none" /\ NoRow.ordinal = 0
    /\ ~NoRow.live /\ ~NoRow.old /\ NoRow.holder = None
BY IngressConstants DEF Msgs, NoRow, RowRecords

LEMMA StoreKeeps == ASSUME RowsInv, Store PROVE RowsInv'
<1>. USE DEF RowsInv, Terminal, Open
<1>1. PICK m \in Msgs :
        /\ ~Stored(m) /\ \A n \in 1 .. m - 1 : Stored(n)
        /\ rows' = Inserted(m) /\ nextOrdinal' = nextOrdinal + 1 /\ completed' = completed
  BY DEF Store
<1>2. m = nextOrdinal
  <2>1. m \in 1 .. Messages /\ nextOrdinal \in Nat /\ nextOrdinal > 0 /\ m >= nextOrdinal
    BY <1>1, IngressConstants DEF Msgs, Stored, Numbered
  <2>2. m > nextOrdinal => nextOrdinal \in 1 .. m - 1
    BY <2>1, IngressConstants
  <2>3. ~(nextOrdinal < nextOrdinal)
    BY <2>1
  <2>. QED BY <1>1, <2>1, <2>2, <2>3 DEF Stored
<1>3. m \in Nat /\ m >= 1 /\ m <= Messages
  BY IngressConstants DEF Msgs
<1>4. DEFINE r == [NoRow EXCEPT !.st = "pending", !.ordinal = nextOrdinal]
<1>5. /\ r \in RowRecords /\ r.st = "pending" /\ r.ordinal = m
      /\ ~r.live /\ ~r.old /\ r.holder = None
  BY <1>2, <1>3 DEF NoRow, RowRecords
<1>6. /\ rows' \in [Msgs -> RowRecords] /\ rows'[m] = r
      /\ \A n \in Msgs : n # m => rows'[n] = rows[n]
  BY <1>1, <1>5 DEF Inserted, Numbered
<1>7. \A n \in Msgs : n \in Nat /\ (Stored(n)' <=> Stored(n) \/ n = m)
  BY <1>1, <1>2, <1>3, Records DEF Stored, Numbered
<1>. HIDE DEF r
<1>8. Numbered'
  <2>1. rows[m] = NoRow
    BY <1>1 DEF Numbered
  <2>. QED BY <1>1, <1>2, <1>3, <1>5, <1>6, <1>7, IngressConstants DEF Numbered
<1>9. SettledPart'
  BY <1>1, <1>2, <1>5, <1>6, <1>7, Records DEF SettledPart, Numbered
<1>10. LeasePart'
  BY <1>1, <1>5, <1>6 DEF LeasePart
<1>11. OldPart'
  <2>1. \A n \in Msgs : n > m => ~rows[n].old
    BY <1>1, <1>2, Records DEF Numbered, Stored
  <2>. QED BY <1>1, <1>3, <1>5, <1>6, <2>1, Records DEF OldPart
<1>. QED BY <1>8, <1>9, <1>10, <1>11

LEMMA TouchKeeps == ASSUME RowsInv, Touch PROVE RowsInv'
<1>. USE DEF RowsInv
<1>1. PICK m \in Msgs, r \in RowRecords :
        /\ rows[m].st \in Open /\ r.st \in Open /\ r.ordinal = rows[m].ordinal
        /\ r.old = rows[m].old
        /\ r.st = "leased" => m = completed + 1
        /\ r.live \/ r.holder # None => r.st = "leased"
        /\ rows' = [rows EXCEPT ![m] = r] /\ UNCHANGED <<completed, nextOrdinal>>
  BY DEF Touch
<1>2. /\ rows' \in [Msgs -> RowRecords] /\ rows'[m] = r
      /\ \A n \in Msgs : n # m => rows'[n] = rows[n]
  BY <1>1 DEF Numbered
<1>3. Stored(m) /\ \A n \in Msgs : Stored(n)' <=> Stored(n)
  BY <1>1, Records DEF Stored, Numbered, Open
<1>4. r.st # "none" /\ r.st \notin Terminal /\ rows[m].st \notin Terminal
  BY <1>1 DEF Open, Terminal
<1>5. Numbered'
  BY <1>1, <1>2, <1>3, <1>4 DEF Numbered
<1>6. SettledPart'
  BY <1>1, <1>2, <1>3, <1>4 DEF SettledPart
<1>7. LeasePart'
  BY <1>1, <1>2 DEF LeasePart
<1>8. OldPart'
  <2>1. \A n \in Msgs : rows'[n].old = rows[n].old
    BY <1>1, <1>2
  <2>2. \A n \in Msgs : rows'[n].st \in Terminal <=> rows[n].st \in Terminal
    BY <1>2, <1>4
  <2>3. \A n \in Msgs : rows[n].st \in Open => rows'[n].st \in Open
    BY <1>1, <1>2
  <2>. QED BY <2>1, <2>2, <2>3 DEF OldPart
<1>. QED BY <1>5, <1>6, <1>7, <1>8

LEMMA AgeKeeps == ASSUME RowsInv, Age PROVE RowsInv'
<1>. USE DEF RowsInv
<1>1. PICK m \in Msgs :
        /\ rows[m].st \in Open /\ \A n \in Msgs : n < m => rows[n].old \/ rows[n].st \in Terminal
        /\ rows' = [rows EXCEPT ![m].old = TRUE] /\ UNCHANGED <<completed, nextOrdinal>>
  BY DEF Age
<1>2. DEFINE r == [rows[m] EXCEPT !.old = TRUE]
<1>3. /\ r \in RowRecords /\ r.st = rows[m].st /\ r.ordinal = rows[m].ordinal /\ r.old
      /\ r.live = rows[m].live /\ r.holder = rows[m].holder
  BY DEF Numbered, RowRecords
<1>4. /\ rows' \in [Msgs -> RowRecords] /\ rows'[m] = r
      /\ \A n \in Msgs : n # m => rows'[n] = rows[n]
  BY <1>1, <1>3 DEF Numbered
<1>. HIDE DEF r
<1>5. Stored(m) /\ \A n \in Msgs : Stored(n)' <=> Stored(n)
  BY <1>1, Records DEF Stored, Numbered, Open
<1>6. \A n \in Msgs : rows'[n].st = rows[n].st
  BY <1>3, <1>4
<1>7. Numbered'
  BY <1>1, <1>3, <1>4, <1>5 DEF Numbered
<1>8. SettledPart'
  BY <1>1, <1>5, <1>6 DEF SettledPart
<1>9. LeasePart'
  BY <1>1, <1>3, <1>4 DEF LeasePart
<1>10. OldPart'
  <2>1. \A n \in Msgs : rows'[n].old <=> rows[n].old \/ n = m
    BY <1>3, <1>4
  <2>. QED BY <1>1, <1>6, <2>1 DEF OldPart
<1>. QED BY <1>7, <1>8, <1>9, <1>10

(* What Terminalized leaves in each row.                                   *)
LEMMA TerminalizedRows ==
    ASSUME Numbered, NEW S \in SUBSET Msgs, NEW st \in Terminal
    PROVE  /\ Terminalized(S, st) \in [Msgs -> RowRecords]
           /\ \A n \in S : /\ Terminalized(S, st)[n].st = st
                           /\ Terminalized(S, st)[n].ordinal = rows[n].ordinal
                           /\ Terminalized(S, st)[n].holder = None
                           /\ ~Terminalized(S, st)[n].live /\ ~Terminalized(S, st)[n].old
           /\ \A n \in Msgs \ S :
                \/ Terminalized(S, st)[n] = rows[n]
                \/ /\ rows[n].st = "enqueued" /\ \E m \in S : rows[n].ordinal = rows[m].ordinal + 1
                   /\ Terminalized(S, st)[n] = [rows[n] EXCEPT !.st = "pending"]
<1>1. \A n \in Msgs : rows[n] \in RowRecords
  BY DEF Numbered
<1>2. \A n \in Msgs : /\ [rows[n] EXCEPT !.st = "pending"] \in RowRecords
                      /\ [rows[n] EXCEPT !.st = "pending"].st = "pending"
  BY <1>1 DEF RowRecords, Open
<1>3. DEFINE t(n) == [rows[n] EXCEPT !.st = st, !.holder = None, !.live = FALSE, !.old = FALSE]
<1>4. \A n \in Msgs : /\ t(n) \in RowRecords /\ t(n).st = st /\ t(n).ordinal = rows[n].ordinal
                      /\ t(n).holder = None /\ ~t(n).live /\ ~t(n).old
  BY <1>1 DEF RowRecords
<1>5. /\ \A n \in S : Terminalized(S, st)[n] = t(n)
      /\ \A n \in Msgs \ S : Terminalized(S, st)[n] =
           IF rows[n].st = "enqueued" /\ \E m \in S : rows[n].ordinal = rows[m].ordinal + 1
           THEN [rows[n] EXCEPT !.st = "pending"] ELSE rows[n]
      /\ Terminalized(S, st) = [n \in Msgs |-> Terminalized(S, st)[n]]
  BY DEF Terminalized
<1>. HIDE DEF t
<1>6. \A n \in Msgs : Terminalized(S, st)[n] \in RowRecords
  BY <1>1, <1>2, <1>4, <1>5
<1>. QED BY <1>2, <1>4, <1>5, <1>6

(* The successor of a settled row is no longer enqueued.                   *)
LEMMA SuccessorFreed ==
    ASSUME Numbered, NEW S \in SUBSET Msgs, NEW st \in Terminal,
           NEW n \in Msgs \ S, NEW k \in S, rows[n].ordinal = rows[k].ordinal + 1
    PROVE  Terminalized(S, st)[n].st # "enqueued"
<1>1. [rows[n] EXCEPT !.st = "pending"].st = "pending"
  BY DEF Numbered, RowRecords
<1>2. Terminalized(S, st)[n] = IF rows[n].st = "enqueued"
                               THEN [rows[n] EXCEPT !.st = "pending"] ELSE rows[n]
  BY DEF Terminalized
<1>. QED BY <1>1, <1>2

LEMMA SettleKeeps == ASSUME RowsInv, SettleUpTo PROVE RowsInv'
<1>. USE DEF RowsInv
<1>1. PICK st \in Terminal, k \in Nat :
        /\ completed <= k /\ k < nextOrdinal
        /\ rows' = Terminalized({m \in Msgs : rows[m].st \in Open /\ m <= k}, st)
        /\ completed' = k /\ UNCHANGED nextOrdinal
  BY DEF SettleUpTo
<1>2. DEFINE S == {m \in Msgs : rows[m].st \in Open /\ m <= k}
<1>3. \A n \in Msgs : Stored(n)' <=> Stored(n)
  BY <1>1 DEF Stored
<1>4. /\ rows' \in [Msgs -> RowRecords]
      /\ \A n \in S : /\ rows'[n].st = st /\ rows'[n].ordinal = rows[n].ordinal
                      /\ rows'[n].holder = None /\ ~rows'[n].live /\ ~rows'[n].old
      /\ \A n \in Msgs \ S : \/ rows'[n] = rows[n]
                             \/ rows[n].st = "enqueued" /\ rows'[n] = [rows[n] EXCEPT !.st = "pending"]
  <2>1. S \in SUBSET Msgs /\ rows' = Terminalized(S, st)
    BY <1>1
  <2>. HIDE DEF S
  <2>2. /\ Terminalized(S, st) \in [Msgs -> RowRecords]
        /\ \A n \in S : /\ Terminalized(S, st)[n].st = st
                        /\ Terminalized(S, st)[n].ordinal = rows[n].ordinal
                        /\ Terminalized(S, st)[n].holder = None
                        /\ ~Terminalized(S, st)[n].live /\ ~Terminalized(S, st)[n].old
        /\ \A n \in Msgs \ S :
             \/ Terminalized(S, st)[n] = rows[n]
             \/ /\ rows[n].st = "enqueued" /\ \E m \in S : rows[n].ordinal = rows[m].ordinal + 1
                /\ Terminalized(S, st)[n] = [rows[n] EXCEPT !.st = "pending"]
    BY <2>1, TerminalizedRows, Zenon
  <2>. QED BY <2>1, <2>2
<1>5. \A n \in Msgs \ S :
        /\ rows'[n].ordinal = rows[n].ordinal /\ rows'[n].old = rows[n].old
        /\ rows'[n].live = rows[n].live /\ rows'[n].holder = rows[n].holder
        /\ rows'[n].st \in Terminal <=> rows[n].st \in Terminal
        /\ rows'[n].st \in Open <=> rows[n].st \in Open
        /\ rows'[n].st = "leased" <=> rows[n].st = "leased"
  <2>. SUFFICES ASSUME NEW n \in Msgs \ S,
                       rows[n].st = "enqueued", rows'[n] = [rows[n] EXCEPT !.st = "pending"]
                PROVE  /\ rows'[n].ordinal = rows[n].ordinal /\ rows'[n].old = rows[n].old
                       /\ rows'[n].live = rows[n].live /\ rows'[n].holder = rows[n].holder
                       /\ rows'[n].st = "pending"
    BY <1>4 DEF Open, Terminal
  <2>1. rows[n] \in RowRecords
    BY DEF Numbered
  <2>. QED BY <2>1 DEF RowRecords
<1>6. \A n \in Msgs : Stored(n) => rows[n].st \in Open \cup Terminal
  BY DEF Numbered, RowRecords
<1>7. \A n \in S : Stored(n) /\ st \notin Open /\ st # "none" /\ st # "leased" /\ n > completed
  <2>1. \A n \in S : Stored(n)
    BY Records DEF Numbered, Open
  <2>2. \A n \in S : rows[n].st \notin Terminal
    BY DEF Open, Terminal
  <2>. QED BY <2>1, <2>2, Records DEF SettledPart, Open, Terminal, Numbered
<1>. HIDE DEF S
<1>8. Numbered'
  <2>1. \A n \in Msgs : Stored(n) => rows'[n].ordinal = n /\ rows'[n].st # "none"
    BY <1>4, <1>5, <1>6, <1>7 DEF Numbered, Open, Terminal
  <2>2. \A n \in Msgs : ~Stored(n) => rows'[n] = NoRow
    BY <1>4, <1>7, Records DEF Numbered
  <2>. QED BY <1>1, <1>3, <1>4, <2>1, <2>2 DEF Numbered
<1>9. SettledPart'
  <2>. SUFFICES ASSUME NEW n \in Msgs, Stored(n)
                PROVE  n <= k <=> rows'[n].st \in Terminal
    BY <1>1, <1>3 DEF SettledPart
  <2>1. n \in S => n <= k
    BY DEF S
  <2>2. n \notin S /\ n <= k => rows[n].st \in Terminal
    BY <1>6 DEF S
  <2>3. n \in Nat /\ completed \in Nat
    BY Records DEF Numbered
  <2>4. n \notin S /\ rows[n].st \in Terminal => n <= k
    BY <1>1, <2>3 DEF SettledPart
  <2>. QED BY <1>4, <1>5, <2>1, <2>2, <2>4
<1>10. LeasePart'
  <2>1. ASSUME NEW n \in Msgs \ S, rows[n].st = "leased" PROVE n = k + 1
    <3>1. n = completed + 1 /\ n > k
      BY <1>1, <2>1, Records DEF LeasePart, S, Open, Numbered
    <3>. QED BY <1>1, <3>1 DEF Numbered
  <2>. QED BY <1>1, <1>4, <1>5, <1>7, <2>1 DEF LeasePart
<1>11. OldPart'
  <2>1. \A n \in Msgs : rows'[n].old => n \notin S /\ rows[n].old /\ rows'[n].st \in Open
    BY <1>4, <1>5 DEF OldPart
  <2>2. \A n \in S : rows'[n].st \in Terminal
    BY <1>4
  <2>. QED BY <1>4, <1>5, <2>1, <2>2 DEF OldPart
<1>. QED BY <1>8, <1>9, <1>10, <1>11

LEMMA RowsKeep ==
    ASSUME RowsInv, RowStep
    PROVE  RowsInv' /\ completed <= completed' /\ nextOrdinal <= nextOrdinal'
<1>1. completed \in Nat /\ nextOrdinal \in Nat
  BY DEF RowsInv, Numbered
<1>2. CASE Store
  <2>1. RowsInv'
    BY <1>2, StoreKeeps
  <2>2. completed <= completed' /\ nextOrdinal <= nextOrdinal'
    BY <1>1, <1>2 DEF Store
  <2>. QED BY <2>1, <2>2
<1>3. CASE Touch
  <2>1. RowsInv'
    BY <1>3, TouchKeeps
  <2>2. completed <= completed' /\ nextOrdinal <= nextOrdinal'
    BY <1>1, <1>3 DEF Touch
  <2>. QED BY <2>1, <2>2
<1>4. CASE Age
  <2>1. RowsInv'
    BY <1>4, AgeKeeps
  <2>2. completed <= completed' /\ nextOrdinal <= nextOrdinal'
    BY <1>1, <1>4 DEF Age
  <2>. QED BY <2>1, <2>2
<1>5. CASE SettleUpTo
  <2>1. RowsInv'
    BY <1>5, SettleKeeps
  <2>2. completed <= completed' /\ nextOrdinal <= nextOrdinal'
    BY <1>1, <1>5 DEF SettleUpTo
  <2>. QED BY <2>1, <2>2
<1>6. CASE UNCHANGED outbox
  BY <1>1, <1>6 DEF outbox, RowsInv, Numbered, SettledPart, LeasePart, OldPart, Stored
<1>. QED BY <1>2, <1>3, <1>4, <1>5, <1>6 DEF RowStep

-----------------------------------------------------------------------------
(* What the steps do to queue messages and calls.                          *)

HandStages == {"claimed", "done", "retrying"}

CopyStep ==
    /\ copies' \in [Slots -> Copies]
    /\ \A d \in Slots :
        /\ copies'[d] # NoCopy =>
             \/ copies[d] # NoCopy /\ copies'[d].m = copies[d].m
             \/ \E p \in Publishers : sends[p] # NoSend /\ copies'[d].m = sends[p].m
        /\ copies'[d].at \in HandStages => copies'[d].m <= completed + 1

CallStep ==
    \/ UNCHANGED <<sends, sweep>>
    \/ /\ sends' \in [Publishers -> Sends]
       /\ sweep' \in [Sweepers -> [on : BOOLEAN, todo : SUBSET Msgs]]
       /\ \A p \in Publishers : sends'[p] # NoSend => sends'[p].m < nextOrdinal'
       /\ \A s \in Sweepers : \A m \in sweep'[s].todo : m < nextOrdinal'

AcceptStep ==
    \/ UNCHANGED accepted
    \/ \E c \in Slots : copies[c].at \in HandStages /\ accepted' = accepted \cup {copies[c].m}

IStep == RowStep /\ CopyStep /\ CallStep /\ AcceptStep

LEMMA Shapes ==
    /\ NoCopy.m = None /\ NoCopy.at = "none" /\ NoCopy.by = None
    /\ NoSend.m = None /\ NoSend.at = "idle"
    /\ \A x \in Copies : x # NoCopy => x.m \in Msgs /\ x.at \in Stages /\ x.at # "none"
    /\ \A x \in Copies : x.at \in Stages => x # NoCopy
    /\ \A x \in Sends : x # NoSend => x.m \in Msgs /\ x.at \in {"sending", "landed"}
    /\ \A x \in Sends : x.at # "idle" => x # NoSend
BY DEF NoCopy, NoSend, Copies, Sends, Stages

LEMMA StepKeeps == ASSUME IInv, IStep PROVE IInv'
<1>1. RowsInv' /\ completed <= completed' /\ nextOrdinal <= nextOrdinal'
  BY RowsKeep DEF IInv, IStep
<1>2. /\ completed \in Nat /\ nextOrdinal \in Nat /\ completed' \in Nat /\ nextOrdinal' \in Nat
  BY <1>1 DEF IInv, RowsInv, Numbered
<1>3. \A m \in Msgs : m \in Nat /\ (Stored(m) => m < nextOrdinal')
  BY <1>1, <1>2, Records DEF Stored
<1>4. CallsPart'
  <2>1. copies' \in [Slots -> Copies]
    BY DEF IStep, CopyStep
  <2>2. ASSUME NEW d \in Slots, copies'[d] # NoCopy PROVE copies'[d].m < nextOrdinal'
    <3>1. copies'[d].m \in Msgs
      BY <2>1, <2>2, Shapes
    <3>2. Stored(copies'[d].m)
      BY <2>2 DEF IStep, CopyStep, IInv, CallsPart
    <3>. QED BY <1>3, <3>1, <3>2
  <2>3. CASE UNCHANGED <<sends, sweep>>
    <3>1. \A p \in Publishers : sends[p] # NoSend => sends[p].m < nextOrdinal'
      BY <1>3, Shapes DEF IInv, CallsPart
    <3>2. \A s \in Sweepers : \A m \in sweep[s].todo : m < nextOrdinal'
      BY <1>3 DEF IInv, CallsPart
    <3>. QED BY <2>1, <2>2, <2>3, <3>1, <3>2 DEF IInv, CallsPart, Stored
  <2>4. CASE ~UNCHANGED <<sends, sweep>>
    BY <2>1, <2>2, <2>4 DEF IStep, CallStep, CallsPart, Stored
  <2>. QED BY <2>3, <2>4
<1>5. HandPart'
  <2>1. \A c \in Slots : copies[c].at \in HandStages =>
          copies[c].m \in InHand /\ copies[c].m \in Msgs
    BY Shapes DEF IInv, CallsPart, HandStages, Stages, InHand
  <2>2. accepted' \subseteq Msgs /\ \A m \in accepted' : m <= completed + 1
    BY <2>1 DEF IInv, HandPart, IStep, AcceptStep
  <2>3. \A m \in InHand' : m \in Msgs /\ m <= completed + 1
    BY Shapes DEF IStep, CopyStep, HandStages, Stages, InHand
  <2>. QED BY <1>1, <1>2, <1>3, <2>2, <2>3 DEF HandPart
<1>. QED BY <1>1, <1>4, <1>5 DEF IInv

-----------------------------------------------------------------------------
(* The ways a copy changes.                                                *)

LEMMA RetriedCopy ==
    ASSUME NEW x \in Copies, x # NoCopy
    PROVE  /\ AfterRetry(x) \in Copies
           /\ AfterRetry(x) # NoCopy => AfterRetry(x).m = x.m /\ AfterRetry(x).by = x.by
           /\ AfterRetry(x).at \notin HandStages
<1>1. x \in [m : Msgs, at : Stages, tries : Nat, by : Publishers \cup {None}]
  BY DEF Copies
<1>2. CASE x.at = "dlq" /\ x.tries < DlqRetries
  BY <1>1, <1>2 DEF AfterRetry, Copies, Stages, HandStages
<1>3. CASE x.at = "dlq" /\ ~(x.tries < DlqRetries)
  BY <1>3 DEF AfterRetry, Copies, NoCopy, HandStages
<1>4. CASE x.at # "dlq" /\ x.tries < MaxRetries
  <2>1. AfterRetry(x) = [x EXCEPT !.at = "queue", !.tries = x.tries + 1]
    BY <1>4 DEF AfterRetry
  <2>2. "queue" \in Stages /\ x.tries + 1 \in Nat
    BY <1>1 DEF Stages
  <2>3. /\ AfterRetry(x) \in [m : Msgs, at : Stages, tries : Nat, by : Publishers \cup {None}]
        /\ AfterRetry(x).m = x.m /\ AfterRetry(x).by = x.by /\ AfterRetry(x).at = "queue"
    BY <1>1, <2>1, <2>2
  <2>. QED BY <2>3 DEF Copies, HandStages
<1>5. CASE x.at # "dlq" /\ ~(x.tries < MaxRetries)
  BY <1>1, <1>5 DEF AfterRetry, Copies, Stages, HandStages
<1>. QED BY <1>2, <1>3, <1>4, <1>5

LEMMA CopyChanges ==
    ASSUME IInv, NEW c \in Slots
    PROVE  /\ Acked(c) => CopyStep
           /\ copies[c] # NoCopy /\ Retried(c) => CopyStep
           /\ \A stage \in HandStages :
                copies[c] # NoCopy /\ Moves(c, stage) /\ copies[c].m <= completed + 1 => CopyStep
<1>1. /\ copies \in [Slots -> Copies] /\ NoCopy \in Copies
      /\ \A d \in Slots : copies[d].at \in HandStages => copies[d].m <= completed + 1
  BY DEF IInv, CallsPart, HandPart, Copies, InHand, HandStages
<1>2. NoCopy.at \notin HandStages
  BY DEF NoCopy, HandStages
<1>3. Acked(c) => CopyStep
  BY <1>1, <1>2 DEF Acked, CopyStep
<1>4. ASSUME copies[c] # NoCopy, Retried(c) PROVE CopyStep
  <2>1. copies' = [copies EXCEPT ![c] = AfterRetry(copies[c])]
    BY <1>4 DEF Retried
  <2>. QED BY <1>1, <1>4, <2>1, RetriedCopy DEF CopyStep
<1>5. ASSUME NEW stage \in HandStages, copies[c] # NoCopy, Moves(c, stage),
             copies[c].m <= completed + 1
      PROVE  CopyStep
  <2>1. /\ [copies[c] EXCEPT !.at = stage] \in Copies
        /\ [copies[c] EXCEPT !.at = stage].m = copies[c].m
    BY <1>1, <1>5 DEF Copies, HandStages, Stages
  <2>2. copies' = [copies EXCEPT ![c] = [copies[c] EXCEPT !.at = stage]]
    BY <1>5 DEF Moves
  <2>. QED BY <1>1, <1>5, <2>1, <2>2 DEF CopyStep
<1>. QED BY <1>3, <1>4, <1>5

LEMMA ReleasedCopies ==
    ASSUME IInv, NEW S, copies' = Released(S)
    PROVE  CopyStep
<1>1. /\ copies \in [Slots -> Copies]
      /\ \A d \in Slots : copies[d].at \in HandStages => copies[d].m <= completed + 1
  BY DEF IInv, CallsPart, HandPart, InHand, HandStages
<1>2. \A x \in Copies : LET y == [x EXCEPT !.by = None]
                        IN  y \in Copies /\ y.m = x.m /\ y.at = x.at /\ (y # NoCopy <=> x # NoCopy)
  BY DEF Copies, NoCopy, Stages
<1>3. \A d \in Slots : LET y == copies'[d]
                       IN  y \in Copies /\ y.m = copies[d].m /\ y.at = copies[d].at
                           /\ (y # NoCopy <=> copies[d] # NoCopy)
  BY <1>1, <1>2 DEF Released
<1>4. copies' \in [Slots -> Copies]
  BY <1>3 DEF Released
<1>. QED BY <1>1, <1>3, <1>4 DEF CopyStep

LEMMA SameCopies == ASSUME IInv, UNCHANGED copies PROVE CopyStep
BY DEF IInv, CallsPart, HandPart, InHand, HandStages, CopyStep

-----------------------------------------------------------------------------
(* The ways a row changes.                                                 *)

LEMMA OpenRows ==
    ASSUME RowsInv, NEW m \in Msgs, Stored(m)
    PROVE  /\ rows[m] \in RowRecords /\ rows[m].ordinal = m /\ m \in Nat
           /\ rows[m].st \in Open \cup Terminal
           /\ rows[m].st \notin Terminal => rows[m].st \in Open /\ m > completed
           /\ NextInLine(m) <=> m = completed + 1
BY Records DEF RowsInv, Numbered, SettledPart, RowRecords, NextInLine

LEMMA TerminalizeStep ==
    ASSUME RowsInv, NEW m \in Msgs, NEW st \in Terminal,
           rows[m].st \in Open, m = completed + 1,
           rows' = Terminalized({m}, st), completed' = Later(m), UNCHANGED nextOrdinal
    PROVE  SettleUpTo /\ completed' = completed + 1
<1>1. Stored(m)
  BY Records DEF RowsInv, Numbered, Open
<1>2. /\ completed \in Nat /\ nextOrdinal \in Nat /\ m \in Nat /\ m < nextOrdinal
      /\ completed < m /\ Later(m) = m
  BY <1>1, OpenRows DEF RowsInv, Numbered, Later, Stored
<1>3. ASSUME NEW n \in Msgs PROVE rows[n].st \in Open /\ n <= m <=> n = m
  <2>1. rows[n].st \in Open => Stored(n) /\ rows[n].st \notin Terminal
    BY Records DEF RowsInv, Numbered, Open, Terminal
  <2>2. rows[n].st \in Open => n > completed
    BY <2>1, OpenRows
  <2>. QED BY <1>2, <2>2, Records
<1>4. {n \in Msgs : rows[n].st \in Open /\ n <= m} = {m}
  BY <1>3
<1>5. /\ completed <= m /\ m < nextOrdinal
      /\ rows' = Terminalized({n \in Msgs : rows[n].st \in Open /\ n <= m}, st)
      /\ completed' = m
  BY <1>2, <1>4
<1>. QED BY <1>2, <1>5 DEF SettleUpTo

LEMMA LeasedStep ==
    ASSUME RowsInv, NEW c \in Slots, Message(c) \in Msgs, Stored(Message(c)),
           ~Settled(c), NextInLine(Message(c)),
           rows' = Leased(c), UNCHANGED <<completed, nextOrdinal>>
    PROVE  RowStep
<1>. DEFINE m == Message(c)
            r == [rows[m] EXCEPT !.st = "leased", !.holder = c, !.live = TRUE]
<1>1. /\ rows[m] \in RowRecords /\ rows[m].st \in Open /\ m = completed + 1
  BY OpenRows DEF Settled
<1>2. /\ r \in RowRecords /\ r.st = "leased" /\ r.ordinal = rows[m].ordinal /\ r.old = rows[m].old
  BY <1>1 DEF RowRecords, Open
<1>3. rows' = [rows EXCEPT ![m] = r]
  BY DEF Leased
<1>. QED BY <1>1, <1>2, <1>3 DEF RowStep, Touch, Open

LEMMA HandedBackStep ==
    ASSUME RowsInv, NEW c \in Slots, Message(c) \in Msgs,
           rows' = HandedBack(c), UNCHANGED <<completed, nextOrdinal>>
    PROVE  RowStep
<1>. DEFINE m == Message(c)
            r == [rows[m] EXCEPT !.st = "enqueued", !.holder = None, !.live = FALSE]
<1>1. CASE Holds(c)
  <2>1. rows[m] \in RowRecords /\ rows[m].st \in Open
    BY <1>1 DEF RowsInv, Numbered, Holds, Open
  <2>2. /\ r \in RowRecords /\ r.st = "enqueued" /\ r.ordinal = rows[m].ordinal
        /\ r.old = rows[m].old /\ ~r.live /\ r.holder = None
    BY <2>1 DEF RowRecords, Open
  <2>3. rows' = [rows EXCEPT ![m] = r]
    BY <1>1 DEF HandedBack
  <2>. HIDE DEF r
  <2>. QED BY <2>1, <2>2, <2>3 DEF RowStep, Touch, Open
<1>2. CASE ~Holds(c)
  BY <1>2 DEF HandedBack, RowStep, outbox
<1>. QED BY <1>1, <1>2

LEMMA EnqueuedStep ==
    ASSUME RowsInv, NEW m \in Msgs,
           rows' = Enqueued(m), UNCHANGED <<completed, nextOrdinal>>
    PROVE  RowStep
<1>. DEFINE r == [rows[m] EXCEPT !.st = "enqueued"]
<1>1. CASE rows[m].st = "pending"
  <2>1. rows[m] \in RowRecords /\ ~rows[m].live /\ rows[m].holder = None
    BY <1>1 DEF RowsInv, Numbered, LeasePart, RowRecords
  <2>2. /\ r \in RowRecords /\ r.st = "enqueued" /\ r.ordinal = rows[m].ordinal
        /\ r.old = rows[m].old /\ ~r.live /\ r.holder = None
    BY <2>1 DEF RowRecords, Open
  <2>3. rows' = [rows EXCEPT ![m] = r]
    BY <1>1, <2>1 DEF Enqueued, RowsInv, Numbered, RowRecords
  <2>. HIDE DEF r
  <2>. QED BY <1>1, <2>1, <2>2, <2>3 DEF RowStep, Touch, Open
<1>2. CASE rows[m].st # "pending"
  BY <1>2 DEF Enqueued, RowStep, outbox
<1>. QED BY <1>1, <1>2

-----------------------------------------------------------------------------
(* Every action is such a step.                                            *)

LEMMA CopyOf ==
    ASSUME IInv, NEW c \in Slots, copies[c].at \in Stages
    PROVE  /\ copies[c] # NoCopy /\ Message(c) \in Msgs /\ Stored(Message(c))
           /\ copies[c].at \in HandStages => Message(c) <= completed + 1
<1>1. copies[c] # NoCopy /\ Message(c) \in Msgs /\ Stored(Message(c))
  BY Shapes DEF IInv, CallsPart, Message
<1>. QED BY <1>1 DEF IInv, HandPart, InHand, HandStages, Message

LEMMA StoreActions ==
    ASSUME IInv, NEW m \in Msgs
    PROVE  /\ HandleMessageCreate(m) => IStep
           /\ Replay(m) => IStep
           /\ LeaseRunsOut(m) => IStep
           /\ GrowsOld(m) => IStep
<1>. USE DEF IInv
<1>0. m \in Nat /\ completed \in Nat /\ nextOrdinal \in Nat /\ m >= 1 /\ m <= Messages
  BY IngressConstants DEF RowsInv, Numbered, Msgs
<1>00. \A n \in Msgs : /\ Stored(n) <=> rows[n] # NoRow
                       /\ rows[n].st \in Open \cup Terminal <=> Stored(n)
  BY Records DEF RowsInv, Numbered, RowRecords, Open, Terminal
<1>1. ASSUME HandleMessageCreate(m) PROVE IStep
  <2>1. /\ ~Stored(m) /\ \A n \in 1 .. m - 1 : n \in Msgs /\ Stored(n)
        /\ rows' = Inserted(m) /\ nextOrdinal' = nextOrdinal + 1 /\ completed' = completed
    BY <1>0, <1>00, <1>1, IngressConstants DEF HandleMessageCreate, OrdinalAfter, Msgs
  <2>2. RowStep
    BY <2>1 DEF RowStep, Store
  <2>3. m < nextOrdinal'
    <3>1. m > nextOrdinal => nextOrdinal \in 1 .. m - 1
      BY <1>0 DEF RowsInv, Numbered
    <3>. QED BY <1>0, <2>1, <3>1 DEF Stored
  <2>4. CallStep
    <3>1. sends' = [sends EXCEPT !["gateway"] = [m |-> m, at |-> "sending"]] /\ UNCHANGED sweep
      BY <1>1 DEF HandleMessageCreate
    <3>2. [m |-> m, at |-> "sending"] \in Sends
      BY DEF Sends
    <3>3. sends' \in [Publishers -> Sends]
      BY <3>1, <3>2 DEF CallsPart
    <3>4. \A p \in Publishers : sends[p] # NoSend => sends[p].m < nextOrdinal'
      <4>1. \A p \in Publishers : sends[p] # NoSend => sends[p].m \in Nat /\ Stored(sends[p].m)
        BY Shapes, Records DEF CallsPart
      <4>. QED BY <1>0, <2>1, <4>1 DEF Stored
    <3>5. \A s \in Sweepers : \A n \in sweep[s].todo : n < nextOrdinal'
      BY <1>0, <2>1, Records DEF CallsPart, Stored
    <3>. QED BY <2>3, <3>1, <3>3, <3>4, <3>5 DEF CallsPart, CallStep
  <2>. QED BY <1>1, <2>2, <2>4, SameCopies DEF HandleMessageCreate, IStep, AcceptStep
<1>2. ASSUME Replay(m) PROVE IStep
  BY <1>2, SameCopies
     DEF Replay, OrdinalAfter, IStep, RowStep, outbox, CallStep, AcceptStep
<1>3. ASSUME LeaseRunsOut(m) PROVE IStep
  <2>. DEFINE r == [rows[m] EXCEPT !.live = FALSE]
  <2>1. /\ rows[m].st = "leased" /\ rows' = [rows EXCEPT ![m] = r]
        /\ UNCHANGED <<completed, nextOrdinal>>
    BY <1>3 DEF LeaseRunsOut, LeaseWaits
  <2>2. /\ r \in RowRecords /\ r.st = "leased" /\ r.ordinal = rows[m].ordinal
        /\ r.old = rows[m].old
    BY <2>1 DEF RowsInv, Numbered, RowRecords
  <2>3. m = completed + 1
    BY <2>1 DEF RowsInv, LeasePart
  <2>. HIDE DEF r
  <2>4. RowStep
    BY <2>1, <2>2, <2>3 DEF RowStep, Touch, Open
  <2>. QED BY <1>3, <2>4, SameCopies DEF LeaseRunsOut, IStep, CallStep, AcceptStep
<1>4. ASSUME GrowsOld(m) PROVE IStep
  <2>1. /\ rows[m].st \in Open /\ ~rows[m].old /\ rows' = [rows EXCEPT ![m].old = TRUE]
        /\ UNCHANGED <<completed, nextOrdinal>>
    BY <1>4 DEF GrowsOld, InState, Expired
  <2>2. ASSUME NEW n \in Msgs, n < m PROVE rows[n].old \/ rows[n].st \in Terminal
    <3>1. Stored(m) /\ Stored(n)
      BY <1>0, <1>00, <2>1, <2>2, Records DEF Stored
    <3>2. rows[n].ordinal = n /\ rows[m].ordinal = m /\ n \in Nat
      BY <3>1, OpenRows
    <3>3. ~(n \in InState(Open) \ Expired)
      BY <1>0, <1>4, <2>2, <3>2 DEF GrowsOld
    <3>. QED BY <1>00, <3>1, <3>3 DEF InState, Expired
  <2>3. RowStep
    BY <2>1, <2>2 DEF RowStep, Age
  <2>. QED BY <1>4, <2>3, SameCopies DEF GrowsOld, IStep, CallStep, AcceptStep
<1>. QED BY <1>1, <1>2, <1>3, <1>4

LEMMA PublishActions ==
    ASSUME IInv, NEW p \in Publishers
    PROVE  /\ SendLands(p) => IStep
           /\ SendAnswered(p) => IStep
           /\ SendFails(p) => IStep
<1>. USE DEF IInv
<1>0. ASSUME sends[p] # NoSend, PublishEnds(p)
      PROVE  CallStep /\ AcceptStep /\ UNCHANGED <<completed, nextOrdinal>>
  <2>1. sends' \in [Publishers -> Sends] /\ \A q \in Publishers : sends'[q] # NoSend => sends'[q] = sends[q]
    BY <1>0 DEF PublishEnds, CallsPart, Sends
  <2>2. /\ sweep' \in [Sweepers -> [on : BOOLEAN, todo : SUBSET Msgs]]
        /\ \A s \in Sweepers : sweep'[s].todo \subseteq sweep[s].todo
    <3>1. ASSUME NEW s \in Sweepers
          PROVE  LET t == [sweep[s] EXCEPT !.todo = @ \ {sends[p].m}]
                 IN  t \in [on : BOOLEAN, todo : SUBSET Msgs] /\ t.todo \subseteq sweep[s].todo
      <4>1. sweep[s] \in [on : BOOLEAN, todo : SUBSET Msgs]
        BY DEF CallsPart
      <4>. QED BY <4>1
    <3>2. \A s \in Sweepers :
            sweep'[s] = IF s = p THEN [sweep[s] EXCEPT !.todo = @ \ {sends[p].m}] ELSE sweep[s]
      BY <1>0 DEF PublishEnds
    <3>3. \A s \in Sweepers : sweep'[s] \in [on : BOOLEAN, todo : SUBSET Msgs]
                              /\ sweep'[s].todo \subseteq sweep[s].todo
      BY <3>1, <3>2 DEF CallsPart
    <3>. QED BY <1>0, <3>3 DEF PublishEnds
  <2>3. UNCHANGED <<completed, nextOrdinal, accepted>>
    BY <1>0 DEF PublishEnds
  <2>. QED BY <2>1, <2>2, <2>3 DEF CallStep, AcceptStep, CallsPart, Stored
<1>1. ASSUME SendLands(p) PROVE IStep
  <2>. DEFINE c == CHOOSE c \in Free : TRUE
              x == [m |-> sends[p].m, at |-> "queue", tries |-> 0, by |-> p]
  <2>1. c \in Slots
    BY <1>1 DEF SendLands, Free
  <2>2. sends[p] # NoSend /\ sends[p] \in Sends /\ sends[p].m \in Msgs /\ copies' = [copies EXCEPT ![c] = x]
    BY <1>1, Shapes DEF SendLands, CallsPart
  <2>3. x \in Copies /\ x.m = sends[p].m /\ x.at = "queue"
    BY <2>2 DEF Copies, Stages
  <2>. HIDE DEF c, x
  <2>4. CopyStep
    <3>1. \A d \in Slots : copies[d].at \in HandStages => copies[d].m <= completed + 1
      BY DEF HandPart, InHand, HandStages
    <3>2. "queue" \notin HandStages
      BY DEF HandStages
    <3>. QED BY <2>1, <2>2, <2>3, <3>1, <3>2 DEF CopyStep, CallsPart
  <2>5. CallStep
    <3>1. sends' = [sends EXCEPT ![p].at = "landed"] /\ UNCHANGED <<sweep, nextOrdinal>>
      BY <1>1 DEF SendLands, outbox
    <3>2. /\ [sends[p] EXCEPT !.at = "landed"] \in Sends
          /\ [sends[p] EXCEPT !.at = "landed"].m = sends[p].m
      BY <2>2 DEF Sends
    <3>. QED BY <2>2, <3>1, <3>2 DEF CallStep, CallsPart, Stored
  <2>. QED BY <1>1, <2>4, <2>5 DEF SendLands, IStep, RowStep, AcceptStep
<1>2. ASSUME SendAnswered(p) PROVE IStep
  <2>1. sends[p] # NoSend /\ sends[p].m \in Msgs
    BY <1>2, Shapes DEF SendAnswered, CallsPart
  <2>2. CallStep /\ AcceptStep /\ UNCHANGED <<completed, nextOrdinal>>
    BY <1>0, <1>2, <2>1 DEF SendAnswered
  <2>3. RowStep
    BY <1>2, <2>1, <2>2, EnqueuedStep DEF SendAnswered
  <2>. QED BY <1>2, <2>2, <2>3, ReleasedCopies DEF SendAnswered, IStep
<1>3. ASSUME SendFails(p) PROVE IStep
  <2>1. CallStep /\ AcceptStep /\ UNCHANGED <<completed, nextOrdinal>>
    BY <1>0, <1>3 DEF SendFails
  <2>. QED BY <1>3, <2>1, ReleasedCopies DEF SendFails, IStep, RowStep, outbox
<1>. QED BY <1>1, <1>2, <1>3

(* A sweep settles exactly the open rows up to the youngest expired one.  *)
LEMMA SweepSettles == ASSUME RowsInv, NEW s \in Sweepers, SweepEnds(s) PROVE SettleUpTo
<1>1. /\ rows' = Terminalized(Expired, "failed") /\ UNCHANGED nextOrdinal
      /\ completed' \in {Later(m) : m \in Expired} \cup {completed}
      /\ \A m \in Expired : completed' >= rows[m].ordinal
  BY DEF SweepEnds
<1>2. ASSUME NEW m \in Msgs, rows[m].st \in Open
      PROVE  rows[m].ordinal = m /\ m \in Nat /\ m > completed /\ Stored(m) /\ Later(m) = m
  <2>1. Stored(m) /\ rows[m].st \notin Terminal
    BY <1>2, Records DEF RowsInv, Numbered, Open, Terminal
  <2>. QED BY <2>1, OpenRows DEF Later
<1>3. Expired = {m \in Msgs : rows[m].st \in Open /\ rows[m].old}
  BY DEF Expired, InState
<1>4. /\ completed \in Nat /\ completed' \in Nat
      /\ completed <= completed' /\ completed' < nextOrdinal
  <2>1. completed \in Nat /\ completed < nextOrdinal
    BY DEF RowsInv, Numbered
  <2>2. \A m \in Expired : Later(m) \in Nat /\ completed <= Later(m) /\ Later(m) < nextOrdinal
    BY <1>2, <1>3, <2>1 DEF Stored
  <2>. QED BY <1>1, <2>1, <2>2
<1>5. Expired = {m \in Msgs : rows[m].st \in Open /\ m <= completed'}
  <2>1. \A m \in Expired : m \in Msgs /\ rows[m].st \in Open /\ m <= completed'
    BY <1>1, <1>2, <1>3, <1>4
  <2>2. ASSUME NEW n \in Msgs, rows[n].st \in Open, n <= completed' PROVE rows[n].old
    <3>1. n > completed /\ n \in Nat /\ rows[n].st \notin Terminal
      BY <1>2, <2>2 DEF Open, Terminal
    <3>2. PICK m \in Expired : completed' = Later(m)
      BY <1>1, <1>4, <2>2, <3>1
    <3>3. m \in Msgs /\ m \in Nat /\ rows[m].old /\ n <= m
      BY <1>2, <1>3, <2>2, <3>2
    <3>. QED BY <3>1, <3>3 DEF RowsInv, OldPart
  <2>. QED BY <1>3, <2>1, <2>2
<1>6. SettleUpTo
  <2>1. rows' = Terminalized({m \in Msgs : rows[m].st \in Open /\ m <= completed'}, "failed")
    BY <1>1, <1>5
  <2>. QED BY <1>1, <1>4, <2>1 DEF SettleUpTo, Terminal
<1>. QED BY <1>6

LEMMA SweepActions ==
    ASSUME IInv, NEW s \in Sweepers
    PROVE  Sweep(s) => IStep
<1>. USE DEF IInv
<1>1. ASSUME SweepStarts(s) PROVE IStep
  <2>1. InState({"pending"}) \in SUBSET Msgs /\ \A m \in InState({"pending"}) : Stored(m)
    BY Records DEF InState, RowsInv, Numbered
  <2>2. sweep' = [sweep EXCEPT ![s] = [on |-> TRUE, todo |-> InState({"pending"})]]
    BY <1>1 DEF SweepStarts
  <2>3. CallStep
    <3>1. UNCHANGED <<sends, nextOrdinal>>
      BY <1>1 DEF SweepStarts, outbox
    <3>. QED BY <2>1, <2>2, <3>1 DEF CallStep, CallsPart, Stored
  <2>. QED BY <1>1, <2>3, SameCopies DEF SweepStarts, IStep, RowStep, AcceptStep
<1>2. ASSUME SweepSends(s) PROVE IStep
  <2>1. PICK m \in sweep[s].todo : sends' = [sends EXCEPT ![s] = [m |-> m, at |-> "sending"]]
    BY <1>2 DEF SweepSends
  <2>2. m \in Msgs /\ Stored(m)
    BY DEF CallsPart
  <2>3. [m |-> m, at |-> "sending"] \in Sends /\ [m |-> m, at |-> "sending"].m = m
    BY <2>2 DEF Sends
  <2>4. UNCHANGED <<sweep, outbox, copies, accepted>>
    BY <1>2 DEF SweepSends
  <2>5. CallStep
    BY <2>1, <2>2, <2>3, <2>4 DEF CallStep, CallsPart, Stored, outbox
  <2>. QED BY <2>4, <2>5, SameCopies DEF IStep, RowStep, AcceptStep
<1>3. ASSUME SweepEnds(s) PROVE IStep
  <2>1. RowStep
    BY <1>3, SweepSettles DEF RowStep
  <2>2. CallStep
    BY <1>3 DEF SweepEnds, CallStep, CallsPart, Resting, Stored
  <2>. QED BY <1>3, <2>1, <2>2, SameCopies DEF SweepEnds, IStep, AcceptStep
<1>. QED BY <1>1, <1>2, <1>3 DEF Sweep

LEMMA RestartAction == ASSUME IInv, Restart PROVE IStep
<1>1. CallStep
  BY DEF Restart, IInv, CallsPart, CallStep, Sends, Resting, Stored, outbox
<1>. QED BY <1>1, ReleasedCopies DEF Restart, IStep, RowStep, AcceptStep

LEMMA TakeActions ==
    ASSUME IInv, NEW c \in Slots
    PROVE  /\ Take(c) => IStep
           /\ ClaimUnanswered(c) => IStep
           /\ ClaimFails(c) => IStep
<1>. USE DEF IInv, CallStep, AcceptStep
<1>0. ASSUME Delivered(c) PROVE copies[c] # NoCopy /\ Message(c) \in Msgs /\ Stored(Message(c))
  BY <1>0, CopyOf DEF Delivered, At, Stages
<1>1. ASSUME AcksCopy(c) PROVE IStep
  BY <1>1, CopyChanges DEF AcksCopy, IStep, RowStep
<1>2. ASSUME WaitsForLease(c) PROVE IStep
  BY <1>0, <1>2, CopyChanges DEF WaitsForLease, IStep, RowStep
<1>3. ASSUME ClaimDelivery(c) PROVE IStep
  <2>1. RowStep
    BY <1>0, <1>3, LeasedStep DEF ClaimDelivery, MayClaim
  <2>2. Message(c) <= completed + 1
    <3>1. Message(c) = completed + 1
      BY <1>0, <1>3, OpenRows DEF ClaimDelivery, MayClaim
    <3>. QED BY <3>1 DEF RowsInv, Numbered
  <2>3. CopyStep
    BY <1>0, <1>3, <2>2, CopyChanges DEF ClaimDelivery, Message, HandStages
  <2>. QED BY <1>3, <2>1, <2>3 DEF ClaimDelivery, IStep
<1>4. ASSUME ClaimUnanswered(c) PROVE IStep
  <2>1. RowStep
    BY <1>0, <1>4, LeasedStep DEF ClaimUnanswered, MayClaim
  <2>. QED BY <1>0, <1>4, <2>1, CopyChanges DEF ClaimUnanswered, IStep
<1>5. ASSUME ClaimFails(c) PROVE IStep
  BY <1>0, <1>5, CopyChanges DEF ClaimFails, IStep, RowStep
<1>. QED BY <1>1, <1>2, <1>3, <1>4, <1>5 DEF Take

LEMMA WorkActions ==
    ASSUME IInv, NEW c \in Slots
    PROVE  /\ Work(c) => IStep
           /\ HandOverUnanswered(c) => IStep
           /\ ConsumerDies(c) => IStep
<1>. USE DEF IInv, CallStep
<1>0. ASSUME copies[c].at \in HandStages
      PROVE  copies[c] # NoCopy /\ copies[c].m <= completed + 1
  BY <1>0, CopyOf DEF HandStages, Stages, Message
<1>00. "claimed" \in HandStages /\ "done" \in HandStages /\ "retrying" \in HandStages
  BY DEF HandStages
<1>1. ASSUME HandsOver(c) PROVE IStep
  BY <1>0, <1>00, <1>1, CopyChanges DEF HandsOver, At, Message, IStep, RowStep, AcceptStep
<1>2. ASSUME GivesUp(c) PROVE IStep
  BY <1>0, <1>00, <1>2, CopyChanges DEF GivesUp, At, IStep, RowStep, AcceptStep
<1>3. ASSUME TurnedAway(c) PROVE IStep
  BY <1>0, <1>00, <1>3, CopyChanges DEF TurnedAway, At, IStep, RowStep, AcceptStep
<1>4. ASSUME HandOverUnanswered(c) PROVE IStep
  BY <1>0, <1>00, <1>4, CopyChanges
     DEF HandOverUnanswered, At, Message, IStep, RowStep, AcceptStep
<1>5. ASSUME ConsumerDies(c) PROVE IStep
  BY <1>0, <1>5, CopyChanges DEF ConsumerDies, HandStages, IStep, RowStep, AcceptStep
<1>. QED BY <1>1, <1>2, <1>3, <1>4, <1>5 DEF Work

LEMMA FinishActions ==
    ASSUME IInv, NEW c \in Slots
    PROVE  /\ Finish(c) => IStep
           /\ FinishUnanswered(c) => IStep
<1>. USE DEF IInv, CallStep, AcceptStep
<1>0. ASSUME copies[c].at \in HandStages
      PROVE  /\ copies[c] # NoCopy /\ copies[c].m <= completed + 1
             /\ Message(c) \in Msgs /\ Stored(Message(c))
  BY <1>0, CopyOf DEF HandStages, Stages, Message
<1>00. "done" \in HandStages /\ "retrying" \in HandStages
  BY DEF HandStages
<1>01. ASSUME Message(c) \in Msgs, Holds(c), Terminalize(c, "completed") PROVE RowStep
  <2>1. rows[Message(c)].st \in Open /\ Message(c) = completed + 1
    BY <1>01 DEF Holds, Open, RowsInv, LeasePart
  <2>. QED BY <1>01, <2>1, TerminalizeStep DEF Terminalize, Terminal, RowStep
<1>1. ASSUME FinishDelivery(c) PROVE IStep
  <2>1. RowStep
    BY <1>0, <1>00, <1>01, <1>1 DEF FinishDelivery, At, RowStep
  <2>. QED BY <1>1, <2>1, CopyChanges DEF FinishDelivery, IStep
<1>2. ASSUME FinishRefused(c) PROVE IStep
  BY <1>0, <1>00, <1>2, CopyChanges DEF FinishRefused, At, IStep, RowStep
<1>3. ASSUME RetryDelivery(c) PROVE IStep
  <2>1. RowStep
    BY <1>0, <1>00, <1>3, HandedBackStep DEF RetryDelivery, At
  <2>. QED BY <1>0, <1>00, <1>3, <2>1, CopyChanges DEF RetryDelivery, At, IStep
<1>4. ASSUME FinishUnanswered(c) PROVE IStep
  <2>1. RowStep
    BY <1>0, <1>00, <1>01, <1>4 DEF FinishUnanswered, At, RowStep
  <2>. QED BY <1>0, <1>00, <1>4, <2>1, CopyChanges DEF FinishUnanswered, At, IStep
<1>. QED BY <1>1, <1>2, <1>3, <1>4 DEF Finish

LEMMA DeadLetterActions ==
    ASSUME IInv, NEW c \in Slots
    PROVE  /\ DeadLetter(c) => IStep
           /\ DeadLetterFails(c) => IStep
<1>. USE DEF IInv, CallStep, AcceptStep
<1>0. ASSUME At(c, "dlq")
      PROVE  copies[c] # NoCopy /\ Message(c) \in Msgs /\ Stored(Message(c))
  BY <1>0, CopyOf DEF At, Stages
<1>1. ASSUME At(c, "dlq"), ~Settled(c), NextInLine(Message(c)), Terminalize(c, "failed")
      PROVE  RowStep
  <2>1. rows[Message(c)].st \in Open /\ Message(c) = completed + 1
    BY <1>0, <1>1, OpenRows DEF Settled
  <2>. QED BY <1>0, <1>1, <2>1, TerminalizeStep DEF Terminalize, Terminal, RowStep
<1>2. ASSUME DeadLetter(c) PROVE IStep
  <2>1. RowStep
    BY <1>1, <1>2 DEF DeadLetter, RowStep
  <2>. QED BY <1>0, <1>2, <2>1, CopyChanges DEF DeadLetter, IStep
<1>3. ASSUME DeadLetterFails(c) PROVE IStep
  <2>1. RowStep
    BY <1>1, <1>3 DEF DeadLetterFails, RowStep
  <2>. QED BY <1>0, <1>3, <2>1, CopyChanges DEF DeadLetterFails, IStep
<1>. QED BY <1>2, <1>3

-----------------------------------------------------------------------------
LEMMA InitInv == Init => IInv
<1>. SUFFICES ASSUME Init PROVE IInv
  OBVIOUS
<1>1. RowsInv
  BY IngressConstants, Records
     DEF Init, RowsInv, Numbered, SettledPart, LeasePart, OldPart, Stored, Msgs, Terminal
<1>2. CallsPart
  BY DEF Init, CallsPart, Copies, Sends, Resting
<1>3. HandPart
  BY Shapes DEF Init, HandPart, InHand
<1>. QED BY <1>1, <1>2, <1>3 DEF IInv

LEMMA NextSteps == ASSUME IInv, Next PROVE IStep
<1>1. CASE \E m \in Msgs : HandleMessageCreate(m) \/ Replay(m) \/ LeaseRunsOut(m) \/ GrowsOld(m)
  BY <1>1, StoreActions
<1>2. CASE \E p \in Publishers : Publish(p) \/ SendFails(p)
  BY <1>2, PublishActions DEF Publish
<1>3. CASE \E s \in Sweepers : Sweep(s)
  BY <1>3, SweepActions
<1>4. CASE Restart
  BY <1>4, RestartAction
<1>5. CASE \E c \in Slots : Take(c) \/ Work(c) \/ Finish(c) \/ DeadLetter(c) \/ Lose(c)
  BY <1>5, TakeActions, WorkActions, FinishActions, DeadLetterActions DEF Lose
<1>. QED BY <1>1, <1>2, <1>3, <1>4, <1>5 DEF Next

(* The inductive invariant holds in every reachable state.                 *)
LEMMA Inductive == Spec => []IInv
<1>1. Init => IInv
  BY InitInv
<1>2. IInv /\ [Next]_vars => IInv'
  <2>1. ASSUME IInv, Next PROVE IInv'
    BY <2>1, NextSteps, StepKeeps
  <2>2. ASSUME IInv, UNCHANGED vars PROVE IInv'
    BY <2>2 DEF vars, outbox, IInv, RowsInv, Numbered, SettledPart, LeasePart, OldPart,
                CallsPart, HandPart, InHand, Stored
  <2>. QED BY <2>1, <2>2
<1>. QED BY <1>1, <1>2, PTL DEF Spec

-----------------------------------------------------------------------------
(* Every variable keeps its shape, and ordinals are given out without      *)
(* holes: as many as there are stored messages.                            *)
THEOREM TypeCorrect == Spec => []TypeOK
<1>1. IInv => TypeOK
  <2>. SUFFICES ASSUME IInv PROVE TypeOK
    OBVIOUS
  <2>. USE DEF IInv
  <2>1. Cardinality(Msgs) = Messages /\ Messages \in Nat
    BY FS_Interval, IngressConstants DEF Msgs
  <2>2. /\ completed \in Nat /\ nextOrdinal \in Nat
        /\ completed < nextOrdinal /\ nextOrdinal <= Messages + 1
    BY DEF RowsInv, Numbered
  <2>3. nextOrdinal = Cardinality({m \in Msgs : rows[m] # NoRow}) + 1
    <3>1. \A m \in Msgs : rows[m] # NoRow <=> m < nextOrdinal
      BY Records DEF RowsInv, Numbered, Stored
    <3>2. {m \in Msgs : rows[m] # NoRow} = 1 .. nextOrdinal - 1
      <4>1. \A m : m \in 1 .. Messages /\ m < nextOrdinal <=> m \in 1 .. nextOrdinal - 1
        BY <2>1, <2>2
      <4>. QED BY <3>1, <4>1 DEF Msgs
    <3>3. Cardinality(1 .. nextOrdinal - 1) = nextOrdinal - 1
      <4>. DEFINE k == nextOrdinal - 1
      <4>1. k \in Nat /\ 1 \in Int /\ k \in Int
        BY <2>2
      <4>. HIDE DEF k
      <4>2. Cardinality(1 .. k) = IF 1 > k THEN 0 ELSE k - 1 + 1
        BY <4>1, FS_Interval
      <4>3. Cardinality(1 .. k) = k
        BY <4>1, <4>2
      <4>. QED BY <4>3 DEF k
    <3>4. Cardinality({m \in Msgs : rows[m] # NoRow}) = nextOrdinal - 1
      BY <3>2, <3>3, Zenon
    <3>. QED BY <2>2, <3>4
  <2>4. rows \in [Msgs -> Rows] /\ \A m \in Msgs : rows[m].holder # None => rows[m].st = "leased"
    <3>1. ASSUME NEW m \in Msgs PROVE rows[m] \in Rows
      <4>1. rows[m].ordinal \in 0 .. Messages
        BY <2>1, <2>2, Records DEF RowsInv, Numbered, Msgs
      <4>. QED BY <2>1, <4>1 DEF RowsInv, Numbered, RowRecords, Rows
    <3>2. rows \in [Msgs -> RowRecords]
      BY DEF RowsInv, Numbered
    <3>3. rows \in [Msgs -> Rows]
      BY <3>1, <3>2
    <3>. QED BY <3>3 DEF RowsInv, LeasePart
  <2>5. sends \in [Publishers -> [m : Msgs \cup {None}, at : {"idle", "sending", "landed"}]]
    BY DEF CallsPart, Sends, NoSend
  <2>6. copies \in [Slots -> [m : Msgs \cup {None}, tries : Nat, by : Publishers \cup {None},
                              at : {"none", "queue", "claimed", "done", "retrying", "dlq"}]]
    BY DEF CallsPart, Copies, NoCopy, Stages
  <2>. QED BY <2>1, <2>2, <2>3, <2>4, <2>5, <2>6 DEF TypeOK, CallsPart, HandPart
<1>. QED BY <1>1, Inductive, PTL

(* claimDelivery's look at completed_ordinal still holds when the message  *)
(* is handed over: no predecessor is open then.                            *)
THEOREM DeliveredInOrder == Spec => []HandedInOrder
<1>1. IInv => HandedInOrder
  <2>. SUFFICES ASSUME IInv, NEW m \in InHand \cup accepted, NEW n \in Msgs,
                       rows[n].ordinal \in 1 .. rows[m].ordinal - 1
                PROVE  rows[n].st \in Terminal
    BY DEF HandedInOrder
  <2>. USE DEF IInv
  <2>1. m \in Msgs /\ m <= completed + 1
    BY Shapes DEF HandPart, InHand, CallsPart, Stages
  <2>2. /\ completed \in Nat /\ m \in Nat /\ n \in Nat
        /\ rows[n].ordinal = n /\ Stored(n) /\ rows[m].ordinal \in {0, m}
    BY <2>1, Records DEF RowsInv, Numbered
  <2>3. n <= completed
    BY <2>1, <2>2
  <2>. QED BY <2>2, <2>3 DEF RowsInv, SettledPart
<1>. QED BY <1>1, Inductive, PTL

(* completed_ordinal counts exactly the settled rows, whatever late        *)
(* answers, stale tokens and expiries do.                                  *)
THEOREM SettlesInOrder == Spec => []SettledInOrder
<1>1. IInv => SettledInOrder
  BY Records DEF IInv, RowsInv, Numbered, SettledPart, SettledInOrder
<1>. QED BY <1>1, Inductive, PTL

(* A conversation has one live lease at a time.                            *)
THEOREM OneLease == Spec => []LeaseIsExclusive
<1>1. IInv => LeaseIsExclusive
  BY DEF IInv, RowsInv, LeasePart, LeaseIsExclusive
<1>. QED BY <1>1, Inductive, PTL

-----------------------------------------------------------------------------
(* The next row in line is carried, unless an answer comes late or more is *)
(* lost than a dead letter has retries for.                                *)

Waits(m) == rows[m].st \in {"enqueued", "leased"} /\ m = completed + 1
Carries(c, m) == copies[c].m = m /\ (copies[c].at = "dlq" => copies[c].tries <= faults)
CarryPart == \A m \in Msgs : Waits(m) => \E c \in Slots : Carries(c, m)

(* A queue message is untouched until the send that made it is answered.   *)
SendPart ==
    /\ \A c \in Slots : copies[c].by # None => copies[c].at = "queue"
    /\ \A p \in Publishers : sends[p].at = "landed" =>
          \E c \in Slots : copies[c].by = p /\ copies[c].m = sends[p].m

CarryInv == faults \in 0 .. MaxFaults /\ CarryPart /\ SendPart

(* The row becomes a waiting one in three places only.                     *)
LEMMA WaitsBefore ==
    ASSUME RowsInv, NEW m \in Msgs, Waits(m)',
           Store \/ Age \/ SettleUpTo \/ UNCHANGED outbox
    PROVE  Waits(m)
<1>. USE DEF RowsInv, Waits
<1>0. m \in Nat /\ completed \in Nat /\ rows[m] \in RowRecords
  BY Records DEF Numbered
<1>1. CASE Store
  <2>1. PICK n \in Msgs : rows' = Inserted(n) /\ completed' = completed
    BY <1>1 DEF Store
  <2>2. n = m => rows'[m].st = "pending"
    BY <2>1 DEF Inserted, Numbered, NoRow
  <2>3. n # m => rows'[m] = rows[m]
    BY <2>1 DEF Inserted, Numbered
  <2>. QED BY <2>1, <2>2, <2>3
<1>2. CASE Age
  <2>1. PICK n \in Msgs : rows' = [rows EXCEPT ![n].old = TRUE] /\ completed' = completed
    BY <1>2 DEF Age
  <2>2. rows'[m].st = rows[m].st
    BY <1>0, <2>1 DEF Numbered, RowRecords
  <2>. QED BY <2>1, <2>2
<1>3. CASE SettleUpTo
  <2>1. PICK st \in Terminal, k \in Nat :
          /\ completed <= k /\ k < nextOrdinal
          /\ rows' = Terminalized({n \in Msgs : rows[n].st \in Open /\ n <= k}, st)
          /\ completed' = k
    BY <1>3 DEF SettleUpTo
  <2>. DEFINE S == {n \in Msgs : rows[n].st \in Open /\ n <= k}
  <2>2. S \in SUBSET Msgs /\ rows' = Terminalized(S, st) /\ m = k + 1 /\ m \notin S
    BY <1>0, <2>1
  <2>3. \A n \in S : n \in Msgs /\ n <= k /\ rows[n].st \in Open
    OBVIOUS
  <2>4. ASSUME k > completed PROVE k \in S /\ rows[m].ordinal = rows[k].ordinal + 1
    <3>1. k \in Msgs /\ Stored(k)
      BY <1>0, <2>1, <2>2, <2>4, IngressConstants DEF Msgs, Stored
    <3>2. rows[k].st \in Open /\ rows[k].ordinal = k
      BY <1>0, <2>4, <3>1, OpenRows DEF SettledPart
    <3>3. rows[m].st # "none"
      <4>. SUFFICES ASSUME rows[m].st = "none" PROVE FALSE
        OBVIOUS
      <4>. HIDE DEF S
      <4>1. Terminalized(S, st)[m] = rows[m] \/ rows[m].st = "enqueued"
        BY <2>2, TerminalizedRows, Zenon
      <4>. QED BY <2>2, <4>1
    <3>4. rows[m].ordinal = m
      BY <3>3, Records DEF Numbered
    <3>. QED BY <2>2, <3>1, <3>2, <3>4
  <2>. HIDE DEF S
  <2>5. \/ rows'[m] = rows[m]
        \/ rows[m].st = "enqueued" /\ rows'[m] = [rows[m] EXCEPT !.st = "pending"]
    <3>1. Numbered /\ S \in SUBSET Msgs /\ m \in Msgs \ S
      BY <2>2
    <3>2. \/ Terminalized(S, st)[m] = rows[m]
          \/ /\ rows[m].st = "enqueued"
             /\ Terminalized(S, st)[m] = [rows[m] EXCEPT !.st = "pending"]
      BY <3>1, TerminalizedRows
    <3>. QED BY <2>2, <3>2, Zenon
  <2>6. rows'[m].st = rows[m].st
    <3>1. rows'[m].st \in {"enqueued", "leased"}
      OBVIOUS
    <3>2. [rows[m] EXCEPT !.st = "pending"].st = "pending"
      BY <1>0 DEF RowRecords
    <3>. QED BY <2>5, <3>1, <3>2
  <2>7. ASSUME k > completed PROVE rows'[m].st # "enqueued"
    <3>1. Numbered /\ S \in SUBSET Msgs /\ m \in Msgs \ S
      BY <2>2
    <3>2. Terminalized(S, st)[m].st # "enqueued"
      BY <2>4, <2>7, <3>1, SuccessorFreed
    <3>. QED BY <2>2, <3>2
  <2>8. rows[m].st = "leased" => m = completed + 1
    BY DEF LeasePart
  <2>. QED BY <1>0, <2>1, <2>2, <2>6, <2>7, <2>8
<1>4. CASE UNCHANGED outbox
  BY <1>4 DEF outbox
<1>. QED BY <1>1, <1>2, <1>3, <1>4

(* One copy changes into x, everything else of sends and copies is kept.   *)
LEMMA OneCopy ==
    ASSUME IInv, CarryInv, NEW c \in Slots, NEW x \in Copies,
           copies' = [copies EXCEPT ![c] = x], x.by = None, copies[c].by = None,
           faults' \in 0 .. MaxFaults, faults <= faults'
    PROVE  /\ \A d \in Slots \ {c}, m \in Msgs : Carries(d, m) => Carries(d, m)'
           /\ \A m \in Msgs : x.m = m /\ (x.at = "dlq" => x.tries <= faults') => Carries(c, m)'
           /\ UNCHANGED sends => SendPart'
<1>1. copies'[c] = x /\ \A d \in Slots \ {c} : copies'[d] = copies[d]
  BY DEF IInv, CallsPart
<1>2. \A d \in Slots : copies[d] \in Copies
  BY DEF IInv, CallsPart
<1>3. \A d \in Slots \ {c}, m \in Msgs : Carries(d, m) => Carries(d, m)'
  <2>. SUFFICES ASSUME NEW d \in Slots \ {c}, NEW m \in Msgs, Carries(d, m) PROVE Carries(d, m)'
    OBVIOUS
  <2>1. copies[d] # NoCopy => copies[d].tries \in Nat
    BY <1>2 DEF Copies
  <2>2. copies[d] = NoCopy => copies[d].at # "dlq"
    BY DEF NoCopy
  <2>. QED BY <1>1, <2>1, <2>2 DEF Carries, CarryInv
<1>4. ASSUME UNCHANGED sends PROVE SendPart'
  <2>1. \A p \in Publishers : p # None
    BY IngressConstants DEF Publishers
  <2>. QED BY <1>1, <1>4, <2>1 DEF SendPart, CarryInv
<1>. QED BY <1>1, <1>3, <1>4 DEF Carries

LEMMA ReleasedCarries ==
    ASSUME IInv, CarryInv, NEW S, copies' = Released(S),
           faults' \in 0 .. MaxFaults, faults <= faults'
    PROVE  /\ \A d \in Slots, m \in Msgs : Carries(d, m) => Carries(d, m)'
           /\ \A d \in Slots : copies'[d].by # None => copies'[d] = copies[d] /\ copies[d].by \notin S
           /\ \A d \in Slots : copies[d].by # None /\ copies[d].by \notin S => copies'[d] = copies[d]
<1>1. \A d \in Slots : copies'[d] = IF copies[d].by \in S THEN [copies[d] EXCEPT !.by = None]
                                                        ELSE copies[d]
  BY DEF Released
<1>2. \A d \in Slots : copies[d] \in Copies
  BY DEF IInv, CallsPart
<1>3. ASSUME NEW d \in Slots
      PROVE  /\ copies'[d].m = copies[d].m /\ copies'[d].at = copies[d].at
             /\ copies'[d].tries = copies[d].tries /\ copies[d].tries \in Nat
             /\ copies[d].by \in S => copies'[d].by = None
  <2>1. copies[d] \in [m : Msgs \cup {None}, at : Stages \cup {"none"}, tries : Nat,
                       by : Publishers \cup {None}]
    BY <1>2 DEF Copies, NoCopy
  <2>. QED BY <1>1, <2>1
<1>4. \A d \in Slots, m \in Msgs : Carries(d, m) => Carries(d, m)'
  BY <1>3 DEF Carries, CarryInv
<1>. QED BY <1>1, <1>3, <1>4

LEMMA OneCopyCarries ==
    ASSUME IInv, CarryInv, NEW c \in Slots, NEW x \in Copies,
           copies' = [copies EXCEPT ![c] = x], x.by = None, copies[c].by = None,
           faults' \in 0 .. MaxFaults, faults <= faults', UNCHANGED sends,
           \A m \in Msgs : Waits(m)' =>
                \/ x.m = m /\ (x.at = "dlq" => x.tries <= faults')
                \/ Waits(m) /\ ~Carries(c, m)
    PROVE  CarryInv'
<1>1. /\ \A d \in Slots \ {c}, m \in Msgs : Carries(d, m) => Carries(d, m)'
      /\ \A m \in Msgs : x.m = m /\ (x.at = "dlq" => x.tries <= faults') => Carries(c, m)'
      /\ SendPart'
  BY OneCopy
<1>2. ASSUME NEW m \in Msgs, Waits(m)' PROVE \E d \in Slots : Carries(d, m)'
  <2>1. CASE x.m = m /\ (x.at = "dlq" => x.tries <= faults')
    BY <1>1, <2>1
  <2>2. CASE Waits(m) /\ ~Carries(c, m)
    <3>1. PICK d \in Slots : Carries(d, m)
      BY <2>2 DEF CarryInv, CarryPart
    <3>. QED BY <1>1, <2>2, <3>1
  <2>. QED BY <1>2, <2>1, <2>2
<1>3. CarryPart'
  BY <1>2 DEF CarryPart, Msgs
<1>. QED BY <1>1, <1>3 DEF CarryInv

(* No queue message changes but for the sends it belongs to.               *)
LEMMA SameCopyCarries ==
    ASSUME IInv, CarryInv, UNCHANGED <<copies, faults>>,
           \A m \in Msgs : Waits(m)' => Waits(m),
           \A p \in Publishers : sends'[p].at = "landed" => sends'[p] = sends[p]
    PROVE  CarryInv'
<1>1. \A d \in Slots, m \in Msgs : Carries(d, m) => Carries(d, m)'
  BY DEF Carries
<1>2. CarryPart'
  BY <1>1 DEF CarryInv, CarryPart, Msgs
<1>3. SendPart'
  BY DEF CarryInv, SendPart, Publishers
<1>. QED BY <1>2, <1>3 DEF CarryInv

LEMMA RetriedCarries ==
    ASSUME IInv, CarryInv, NEW c \in Slots, copies[c] # NoCopy, copies[c].at # "dlq",
           copies[c].by = None, Retried(c),
           faults' \in 0 .. MaxFaults, faults <= faults', UNCHANGED sends,
           \A m \in Msgs : Waits(m)' => Waits(m) \/ m = copies[c].m
    PROVE  CarryInv'
<1>. DEFINE x == AfterRetry(copies[c])
<1>1. copies[c] \in [m : Msgs, at : Stages, tries : Nat, by : Publishers \cup {None}]
  BY DEF IInv, CallsPart, Copies
<1>2. x \in Copies
  BY RetriedCopy DEF IInv, CallsPart
<1>3. x.m = copies[c].m /\ x.by = None /\ (x.at = "dlq" => x.tries = 0)
  <2>1. CASE copies[c].tries < MaxRetries
    <3>1. x = [copies[c] EXCEPT !.at = "queue", !.tries = copies[c].tries + 1]
      BY <2>1 DEF AfterRetry
    <3>. QED BY <1>1, <3>1
  <2>2. CASE ~(copies[c].tries < MaxRetries)
    <3>1. x = [copies[c] EXCEPT !.at = "dlq", !.tries = 0]
      BY <2>2 DEF AfterRetry
    <3>. QED BY <1>1, <3>1
  <2>. QED BY <2>1, <2>2
<1>4. copies' = [copies EXCEPT ![c] = x]
  BY DEF Retried
<1>. HIDE DEF x
<1>5. x.at = "dlq" => x.tries <= faults'
  BY <1>3
<1>6. \A m \in Msgs : Carries(c, m) => x.m = m
  BY <1>3 DEF Carries
<1>. QED BY <1>2, <1>3, <1>4, <1>5, <1>6, OneCopyCarries

LEMMA MovedCarries ==
    ASSUME IInv, CarryInv, NEW c \in Slots, copies[c] # NoCopy, copies[c].by = None,
           NEW stage \in HandStages, Moves(c, stage),
           faults' \in 0 .. MaxFaults, faults <= faults', UNCHANGED sends,
           \A m \in Msgs : Waits(m)' => Waits(m) \/ m = copies[c].m
    PROVE  CarryInv'
<1>. DEFINE x == [copies[c] EXCEPT !.at = stage]
<1>1. copies[c] \in [m : Msgs, at : Stages, tries : Nat, by : Publishers \cup {None}]
  BY DEF IInv, CallsPart, Copies
<1>2. x \in Copies /\ x.m = copies[c].m /\ x.by = None /\ x.at # "dlq"
  BY <1>1 DEF Copies, HandStages, Stages
<1>3. copies' = [copies EXCEPT ![c] = x]
  BY DEF Moves
<1>. HIDE DEF x
<1>4. \A m \in Msgs : Carries(c, m) => x.m = m
  BY <1>2 DEF Carries
<1>. QED BY <1>2, <1>3, <1>4, OneCopyCarries

LEMMA AckedCarries ==
    ASSUME IInv, CarryInv, NEW c \in Slots, copies[c].by = None, Acked(c),
           UNCHANGED <<sends, faults>>,
           \A m \in Msgs : Waits(m)' => Waits(m) /\ ~Carries(c, m)
    PROVE  CarryInv'
<1>1. NoCopy \in Copies /\ NoCopy.by = None /\ copies' = [copies EXCEPT ![c] = NoCopy]
  BY DEF Copies, NoCopy, Acked
<1>2. faults' \in 0 .. MaxFaults /\ faults <= faults'
  BY DEF CarryInv
<1>. QED BY <1>1, <1>2, OneCopyCarries

-----------------------------------------------------------------------------
(* The conditions under which the next row is always carried.              *)
AnswersInTime == ~LateAnswers /\ MaxFaults <= DlqRetries

LEMMA Faults ==
    ASSUME CarryInv
    PROVE  /\ faults \in Nat /\ MaxFaults \in Nat /\ faults \in 0 .. MaxFaults /\ faults <= faults
           /\ Faulty => faults' \in 0 .. MaxFaults /\ faults <= faults'
                        /\ faults' = faults + 1 /\ faults < MaxFaults
BY IngressConstants DEF CarryInv, Faulty

LEMMA StoreCarries ==
    ASSUME IInv, CarryInv, NEW m \in Msgs,
           HandleMessageCreate(m) \/ Replay(m) \/ LeaseRunsOut(m) \/ GrowsOld(m)
    PROVE  CarryInv'
<1>. USE DEF IInv
<1>1. CASE HandleMessageCreate(m)
  <2>1. ASSUME NEW n \in Msgs, Waits(n)' PROVE Waits(n)
    <3>1. CASE n = m
      <4>1. rows'[n].st = "pending"
        BY <1>1, <3>1 DEF HandleMessageCreate, Inserted, NoRow, RowsInv, Numbered
      <4>. QED BY <2>1, <4>1 DEF Waits
    <3>2. CASE n # m
      <4>1. rows'[n] = rows[n] /\ completed' = completed
        BY <1>1, <3>2 DEF HandleMessageCreate, Inserted, RowsInv, Numbered
      <4>. QED BY <2>1, <4>1 DEF Waits
    <3>. QED BY <3>1, <3>2
  <2>2. \A p \in Publishers : sends'[p].at = "landed" => sends'[p] = sends[p]
    BY <1>1 DEF HandleMessageCreate, CallsPart
  <2>. QED BY <1>1, <2>1, <2>2, SameCopyCarries DEF HandleMessageCreate
<1>2. CASE Replay(m)
  <2>1. \A n \in Msgs : Waits(n)' => Waits(n)
    BY <1>2 DEF Replay, Waits
  <2>. QED BY <1>2, <2>1, SameCopyCarries DEF Replay
<1>3. CASE LeaseRunsOut(m)
  <2>1. \A n \in Msgs : rows'[n].st = rows[n].st
    BY <1>3 DEF LeaseRunsOut, RowsInv, Numbered, RowRecords
  <2>2. \A n \in Msgs : Waits(n)' => Waits(n)
    BY <1>3, <2>1 DEF LeaseRunsOut, Waits
  <2>. QED BY <1>3, <2>2, SameCopyCarries DEF LeaseRunsOut
<1>4. CASE GrowsOld(m)
  <2>1. \A n \in Msgs : rows'[n].st = rows[n].st
    BY <1>4 DEF GrowsOld, RowsInv, Numbered, RowRecords
  <2>2. \A n \in Msgs : Waits(n)' => Waits(n)
    BY <1>4, <2>1 DEF GrowsOld, Waits
  <2>. QED BY <1>4, <2>2, SameCopyCarries DEF GrowsOld
<1>. QED BY <1>1, <1>2, <1>3, <1>4

LEMMA ReleasedInv ==
    ASSUME IInv, CarryInv, NEW S, copies' = Released(S),
           faults' \in 0 .. MaxFaults, faults <= faults',
           \A p \in Publishers : sends'[p].at = "landed" => p \notin S /\ sends'[p] = sends[p],
           \A m \in Msgs : Waits(m)' => Waits(m) \/ \E d \in Slots : Carries(d, m)
    PROVE  CarryInv'
<1>1. CarryPart'
  BY ReleasedCarries DEF CarryInv, CarryPart, Msgs
<1>2. SendPart'
  <2>1. \A d \in Slots : copies'[d].by # None => copies'[d].at = "queue"
    BY ReleasedCarries DEF CarryInv, SendPart
  <2>2. ASSUME NEW p \in Publishers, sends'[p].at = "landed"
        PROVE  \E d \in Slots : copies'[d].by = p /\ copies'[d].m = sends'[p].m
    <3>1. p \notin S /\ sends'[p] = sends[p] /\ p # None
      BY <2>2, IngressConstants DEF Publishers
    <3>2. PICK d \in Slots : copies[d].by = p /\ copies[d].m = sends[p].m
      BY <2>2, <3>1 DEF CarryInv, SendPart
    <3>. QED BY <3>1, <3>2, ReleasedCarries
  <2>. QED BY <2>1, <2>2 DEF SendPart, Publishers
<1>. QED BY <1>1, <1>2 DEF CarryInv

LEMMA PublishCarries ==
    ASSUME IInv, CarryInv, NEW p \in Publishers, Publish(p) \/ SendFails(p)
    PROVE  CarryInv'
<1>. USE DEF IInv
<1>1. CASE SendLands(p)
  <2>. DEFINE c == CHOOSE c \in Free : TRUE
              x == [m |-> sends[p].m, at |-> "queue", tries |-> 0, by |-> p]
  <2>1. c \in Slots /\ copies[c] = NoCopy
    BY <1>1 DEF SendLands, Free
  <2>2. copies' = [copies EXCEPT ![c] = x] /\ sends' = [sends EXCEPT ![p].at = "landed"]
    BY <1>1 DEF SendLands
  <2>3. x.m = sends[p].m /\ x.at = "queue" /\ x.by = p
    OBVIOUS
  <2>. HIDE DEF c, x
  <2>4. /\ copies'[c] = x /\ \A d \in Slots \ {c} : copies'[d] = copies[d]
        /\ sends'[p].m = sends[p].m /\ \A q \in Publishers \ {p} : sends'[q] = sends[q]
    BY <2>1, <2>2 DEF CallsPart, Sends, NoSend
  <2>5. \A n \in Msgs : Waits(n)' => Waits(n)
    BY <1>1 DEF SendLands, outbox, Waits
  <2>6. \A d \in Slots, n \in Msgs : Carries(d, n) => d # c /\ Carries(d, n)'
    <3>1. \A n \in Msgs : ~Carries(c, n)
      BY <2>1, Shapes, Records DEF Carries
    <3>2. UNCHANGED faults
      BY <1>1 DEF SendLands
    <3>. QED BY <2>4, <3>1, <3>2 DEF Carries
  <2>7. CarryPart'
    BY <2>5, <2>6 DEF CarryInv, CarryPart, Msgs
  <2>8. SendPart'
    <3>1. copies[c].by = None /\ \A q \in Publishers : q # None
      BY <2>1, Shapes, IngressConstants DEF Publishers
    <3>2. \A d \in Slots : copies'[d].by # None => copies'[d].at = "queue"
      BY <2>3, <2>4 DEF CarryInv, SendPart
    <3>3. ASSUME NEW q \in Publishers, sends'[q].at = "landed"
          PROVE  \E d \in Slots : copies'[d].by = q /\ copies'[d].m = sends'[q].m
      <4>1. CASE q = p
        BY <2>1, <2>3, <2>4, <4>1
      <4>2. CASE q # p
        <5>1. PICK d \in Slots : copies[d].by = q /\ copies[d].m = sends[q].m
          BY <2>4, <3>3, <4>2 DEF CarryInv, SendPart
        <5>. QED BY <2>4, <3>1, <4>2, <5>1
      <4>. QED BY <4>1, <4>2
    <3>. QED BY <3>2, <3>3 DEF SendPart, Publishers
  <2>. QED BY <1>1, <2>7, <2>8 DEF SendLands, CarryInv
<1>2. ASSUME PublishEnds(p)
      PROVE  /\ \A q \in Publishers : sends'[q].at = "landed" => q \notin {p} /\ sends'[q] = sends[q]
             /\ completed' = completed
  BY <1>2, Shapes DEF PublishEnds, CallsPart
<1>3. CASE SendAnswered(p)
  <2>1. sends[p].m \in Msgs /\ PublishEnds(p)
    BY <1>3, Shapes DEF SendAnswered, CallsPart
  <2>2. \E d \in Slots : Carries(d, sends[p].m)
    <3>1. PICK d \in Slots : copies[d].by = p /\ copies[d].m = sends[p].m
      BY <1>3 DEF SendAnswered, CarryInv, SendPart
    <3>2. copies[d].at = "queue"
      BY <3>1, IngressConstants DEF CarryInv, SendPart, Publishers
    <3>. QED BY <3>1, <3>2 DEF Carries
  <2>3. \A m \in Msgs : m # sends[p].m => rows'[m] = rows[m]
    BY <1>3 DEF SendAnswered, Enqueued, RowsInv, Numbered
  <2>4. \A m \in Msgs : Waits(m)' => Waits(m) \/ \E d \in Slots : Carries(d, m)
    BY <1>2, <2>1, <2>2, <2>3 DEF Waits
  <2>. QED BY <1>2, <1>3, <2>1, <2>4, Faults, ReleasedInv DEF SendAnswered
<1>4. CASE SendFails(p)
  <2>1. \A m \in Msgs : Waits(m)' => Waits(m)
    BY <1>2, <1>4 DEF SendFails, Waits
  <2>. QED BY <1>2, <1>4, <2>1, Faults, ReleasedInv DEF SendFails
<1>. QED BY <1>1, <1>3, <1>4 DEF Publish

LEMMA SweepCarries == ASSUME IInv, CarryInv, NEW s \in Sweepers, Sweep(s) PROVE CarryInv'
<1>. USE DEF IInv
<1>1. CASE SweepStarts(s)
  <2>1. \A m \in Msgs : Waits(m)' => Waits(m)
    BY <1>1 DEF SweepStarts, outbox, Waits
  <2>. QED BY <1>1, <2>1, SameCopyCarries DEF SweepStarts
<1>2. CASE SweepSends(s)
  <2>1. \A m \in Msgs : Waits(m)' => Waits(m)
    BY <1>2 DEF SweepSends, outbox, Waits
  <2>2. \A p \in Publishers : sends'[p].at = "landed" => sends'[p] = sends[p]
    BY <1>2 DEF SweepSends, CallsPart
  <2>. QED BY <1>2, <2>1, <2>2, SameCopyCarries DEF SweepSends
<1>3. CASE SweepEnds(s)
  <2>1. SettleUpTo
    BY <1>3, SweepSettles
  <2>2. \A m \in Msgs : Waits(m)' => Waits(m)
    BY <2>1, WaitsBefore
  <2>. QED BY <1>3, <2>2, SameCopyCarries DEF SweepEnds
<1>. QED BY <1>1, <1>2, <1>3 DEF Sweep

LEMMA RestartCarries == ASSUME IInv, CarryInv, Restart PROVE CarryInv'
<1>1. \A m \in Msgs : Waits(m)' => Waits(m)
  BY DEF Restart, outbox, Waits
<1>2. \A p \in Publishers : sends'[p].at # "landed"
  BY DEF Restart, NoSend
<1>. QED BY <1>1, <1>2, Faults, ReleasedInv DEF Restart

LEMMA TakeCarries ==
    ASSUME IInv, CarryInv, AnswersInTime, NEW c \in Slots,
           Take(c) \/ ClaimUnanswered(c) \/ ClaimFails(c)
    PROVE  CarryInv'
<1>. USE DEF IInv
<1>1. Delivered(c)
  BY DEF Take, AcksCopy, WaitsForLease, ClaimDelivery, ClaimUnanswered, ClaimFails
<1>2. /\ copies[c] # NoCopy /\ Message(c) \in Msgs /\ Stored(Message(c))
      /\ copies[c].at # "dlq" /\ copies[c].by = None /\ Message(c) = copies[c].m
  BY <1>1, CopyOf DEF Delivered, At, Stages, AnswersInTime, Message
<1>3. NextInLine(Message(c)) <=> Message(c) = completed + 1
  BY <1>2, OpenRows
<1>4. ASSUME MayClaim(Message(c)), rows' = Leased(c), UNCHANGED completed
      PROVE  \A m \in Msgs : Waits(m)' => m = copies[c].m
  <2>1. Message(c) = completed + 1
    BY <1>3, <1>4 DEF MayClaim
  <2>. QED BY <1>2, <1>4, <2>1 DEF Waits
<1>5. CASE AcksCopy(c)
  <2>1. \A m \in Msgs : Waits(m)' => Waits(m) /\ ~Carries(c, m)
    BY <1>2, <1>3, <1>5 DEF AcksCopy, outbox, Waits, Carries, Settled, Terminal
  <2>. QED BY <1>2, <1>5, <2>1, AckedCarries DEF AcksCopy
<1>6. CASE WaitsForLease(c)
  <2>1. \A m \in Msgs : Waits(m)' => Waits(m)
    BY <1>6 DEF WaitsForLease, outbox, Waits
  <2>. QED BY <1>2, <1>6, <2>1, Faults, RetriedCarries DEF WaitsForLease
<1>7. CASE ClaimDelivery(c)
  <2>1. \A m \in Msgs : Waits(m)' => m = copies[c].m
    BY <1>4, <1>7 DEF ClaimDelivery
  <2>2. "claimed" \in HandStages
    BY DEF HandStages
  <2>. QED BY <1>2, <1>7, <2>1, <2>2, Faults, MovedCarries DEF ClaimDelivery
<1>8. CASE ClaimUnanswered(c)
  <2>1. \A m \in Msgs : Waits(m)' => m = copies[c].m
    BY <1>4, <1>8 DEF ClaimUnanswered
  <2>. QED BY <1>2, <1>8, <2>1, Faults, RetriedCarries DEF ClaimUnanswered
<1>9. CASE ClaimFails(c)
  <2>1. \A m \in Msgs : Waits(m)' => Waits(m)
    BY <1>9 DEF ClaimFails, outbox, Waits
  <2>. QED BY <1>2, <1>9, <2>1, Faults, RetriedCarries DEF ClaimFails
<1>. QED BY <1>5, <1>6, <1>7, <1>8, <1>9 DEF Take

(* A row that is settled leaves no row waiting: its successor is pending.  *)
LEMMA NoneWaits ==
    ASSUME RowsInv, SettleUpTo, completed' = completed + 1
    PROVE  \A m \in Msgs : ~Waits(m)'
<1>1. \A m \in Msgs : Waits(m)' => Waits(m)
  BY WaitsBefore
<1>2. completed \in Nat
  BY DEF RowsInv, Numbered
<1>. QED BY <1>1, <1>2 DEF Waits

LEMMA WorkCarries ==
    ASSUME IInv, CarryInv, NEW c \in Slots,
           \/ Work(c) \/ HandOverUnanswered(c) \/ ConsumerDies(c)
           \/ Finish(c) \/ FinishUnanswered(c)
    PROVE  CarryInv'
<1>. USE DEF IInv
<1>1. copies[c].at \in HandStages
  BY DEF Work, HandsOver, GivesUp, TurnedAway, HandOverUnanswered, ConsumerDies, Finish,
         FinishDelivery, FinishRefused, RetryDelivery, FinishUnanswered, At, HandStages
<1>2. /\ copies[c] # NoCopy /\ Message(c) \in Msgs /\ Message(c) = copies[c].m
      /\ copies[c].at # "dlq" /\ copies[c].by = None
  BY <1>1, CopyOf DEF HandStages, Stages, Message, CarryInv, SendPart
<1>3. "done" \in HandStages /\ "retrying" \in HandStages
  BY DEF HandStages
<1>4. UNCHANGED <<rows, completed>> => \A m \in Msgs : Waits(m)' => Waits(m)
  BY DEF Waits
<1>5. ASSUME Holds(c), Terminalize(c, "completed") PROVE \A m \in Msgs : ~Waits(m)'
  <2>1. rows[Message(c)].st \in Open /\ Message(c) = completed + 1
    BY <1>2, <1>5 DEF Holds, Open, RowsInv, LeasePart
  <2>2. SettleUpTo /\ completed' = completed + 1
    BY <1>2, <1>5, <2>1, TerminalizeStep DEF Terminalize, Terminal
  <2>. QED BY <2>2, NoneWaits
<1>6. CASE Work(c)
  BY <1>2, <1>3, <1>4, <1>6, Faults, MovedCarries
     DEF Work, HandsOver, GivesUp, TurnedAway, outbox
<1>7. CASE HandOverUnanswered(c)
  BY <1>2, <1>3, <1>4, <1>7, Faults, MovedCarries DEF HandOverUnanswered, outbox
<1>8. CASE ConsumerDies(c)
  BY <1>2, <1>4, <1>8, Faults, RetriedCarries DEF ConsumerDies, outbox
<1>9. CASE FinishDelivery(c)
  <2>1. \A m \in Msgs : Waits(m)' => Waits(m) /\ ~Carries(c, m)
    <3>1. CASE Settled(c) /\ UNCHANGED outbox
      BY <1>2, <3>1 DEF outbox, Waits, Carries, Settled, Terminal
    <3>2. CASE Holds(c) /\ Terminalize(c, "completed")
      BY <1>5, <3>2
    <3>. QED BY <1>9, <3>1, <3>2 DEF FinishDelivery
  <2>. QED BY <1>2, <1>9, <2>1, AckedCarries DEF FinishDelivery
<1>10. CASE FinishRefused(c)
  BY <1>2, <1>3, <1>4, <1>10, Faults, MovedCarries DEF FinishRefused, outbox
<1>11. CASE RetryDelivery(c)
  <2>1. \A m \in Msgs : Waits(m)' => Waits(m) \/ m = copies[c].m
    <3>1. \A m \in Msgs : m # Message(c) => rows'[m] = rows[m]
      BY <1>11 DEF RetryDelivery, HandedBack, RowsInv, Numbered
    <3>. QED BY <1>2, <1>11, <3>1 DEF RetryDelivery, Waits
  <2>. QED BY <1>2, <1>11, <2>1, Faults, RetriedCarries DEF RetryDelivery
<1>12. CASE FinishUnanswered(c)
  <2>1. \A m \in Msgs : Waits(m)' => Waits(m)
    BY <1>4, <1>5, <1>12 DEF FinishUnanswered, outbox
  <2>. QED BY <1>2, <1>3, <1>12, <2>1, Faults, MovedCarries DEF FinishUnanswered
<1>. QED BY <1>6, <1>7, <1>8, <1>9, <1>10, <1>11, <1>12 DEF Finish

LEMMA DeadLetterCarries ==
    ASSUME IInv, CarryInv, AnswersInTime, NEW c \in Slots,
           DeadLetter(c) \/ DeadLetterFails(c)
    PROVE  CarryInv'
<1>. USE DEF IInv
<1>1. At(c, "dlq")
  BY DEF DeadLetter, DeadLetterFails
<1>2. /\ copies[c] # NoCopy /\ Message(c) \in Msgs /\ Stored(Message(c))
      /\ copies[c].by = None /\ Message(c) = copies[c].m
  BY <1>1, CopyOf DEF At, Stages, Message, CarryInv, SendPart
<1>3. NextInLine(Message(c)) <=> Message(c) = completed + 1
  BY <1>2, OpenRows
<1>4. ASSUME ~Settled(c), NextInLine(Message(c)), Terminalize(c, "failed")
      PROVE  \A m \in Msgs : ~Waits(m)'
  <2>1. rows[Message(c)].st \in Open /\ Message(c) = completed + 1
    BY <1>2, <1>4, OpenRows DEF Settled
  <2>2. SettleUpTo /\ completed' = completed + 1
    BY <1>2, <1>4, <2>1, TerminalizeStep DEF Terminalize, Terminal
  <2>. QED BY <2>2, NoneWaits
<1>5. UNCHANGED outbox => \A m \in Msgs : Waits(m)' => Waits(m)
  BY DEF outbox, Waits
<1>6. ASSUME Retried(c), UNCHANGED sends, faults' \in 0 .. MaxFaults, faults <= faults',
             \A m \in Msgs : Waits(m)' => Waits(m) /\ (Carries(c, m) => faults' = faults + 1)
      PROVE  CarryInv'
  <2>. DEFINE x == AfterRetry(copies[c])
  <2>1. copies[c] \in [m : Msgs, at : Stages, tries : Nat, by : Publishers \cup {None}]
    BY <1>2 DEF CallsPart, Copies
  <2>2. x \in Copies /\ copies' = [copies EXCEPT ![c] = x]
    BY <1>2, <1>6, RetriedCopy DEF CallsPart, Retried
  <2>3. CASE copies[c].tries < DlqRetries
    <3>1. x = [copies[c] EXCEPT !.tries = copies[c].tries + 1]
      BY <1>1, <2>3 DEF AfterRetry, At
    <3>2. x.m = copies[c].m /\ x.by = None /\ x.tries = copies[c].tries + 1
      BY <1>2, <2>1, <3>1
    <3>3. ASSUME NEW m \in Msgs, Waits(m)', Carries(c, m) PROVE x.m = m /\ x.tries <= faults'
      <4>1. copies[c].tries <= faults /\ faults' = faults + 1 /\ copies[c].m = m
        BY <1>1, <1>6, <3>3 DEF Carries, At
      <4>. QED BY <2>1, <3>2, <4>1, Faults
    <3>. HIDE DEF x
    <3>4. \A m \in Msgs : Waits(m)' => \/ x.m = m /\ (x.at = "dlq" => x.tries <= faults')
                                       \/ Waits(m) /\ ~Carries(c, m)
      BY <1>6, <3>3
    <3>. QED BY <1>2, <1>6, <2>2, <3>2, <3>4, OneCopyCarries
  <2>4. CASE ~(copies[c].tries < DlqRetries)
    <3>1. x = NoCopy /\ NoCopy.by = None
      BY <1>1, <2>4, Shapes DEF AfterRetry, At
    <3>2. ASSUME NEW m \in Msgs, Waits(m)', Carries(c, m) PROVE FALSE
      <4>1. copies[c].tries <= faults /\ faults' = faults + 1
        BY <1>1, <1>6, <3>2 DEF Carries, At
      <4>. QED BY <1>6, <2>1, <2>4, <4>1, Faults, IngressConstants DEF AnswersInTime
    <3>3. x.by = None
      BY <3>1
    <3>. HIDE DEF x
    <3>4. \A m \in Msgs : Waits(m)' => Waits(m) /\ ~Carries(c, m)
      BY <1>6, <3>2
    <3>. QED BY <1>2, <1>6, <2>2, <3>3, <3>4, OneCopyCarries
  <2>. QED BY <2>3, <2>4
<1>7. CASE DeadLetter(c)
  <2>1. CASE Settled(c) /\ Acked(c) /\ UNCHANGED outbox
    <3>1. \A m \in Msgs : Waits(m)' => Waits(m) /\ ~Carries(c, m)
      BY <1>2, <1>5, <2>1 DEF Waits, Carries, Settled, Terminal
    <3>. QED BY <1>2, <1>7, <2>1, <3>1, AckedCarries DEF DeadLetter
  <2>2. CASE ~Settled(c) /\ NextInLine(Message(c)) /\ Terminalize(c, "failed") /\ Acked(c)
    <3>1. \A m \in Msgs : Waits(m)' => Waits(m) /\ ~Carries(c, m)
      BY <1>4, <2>2
    <3>. QED BY <1>2, <1>7, <2>2, <3>1, AckedCarries DEF DeadLetter
  <2>3. CASE ~Settled(c) /\ ~NextInLine(Message(c)) /\ Retried(c) /\ UNCHANGED outbox
    <3>1. \A m \in Msgs : Waits(m)' => Waits(m) /\ ~Carries(c, m)
      BY <1>2, <1>3, <1>5, <2>3 DEF Waits, Carries
    <3>. QED BY <1>6, <1>7, <2>3, <3>1, Faults DEF DeadLetter
  <2>. QED BY <1>7, <2>1, <2>2, <2>3 DEF DeadLetter
<1>8. CASE DeadLetterFails(c)
  <2>1. \A m \in Msgs : Waits(m)' => Waits(m)
    BY <1>4, <1>5, <1>8 DEF DeadLetterFails
  <2>. QED BY <1>6, <1>8, <2>1, Faults DEF DeadLetterFails
<1>. QED BY <1>7, <1>8

(* The next row in line, enqueued or leased, has a queue message that      *)
(* brings it on: claimDelivery parks a message whose predecessor is open,  *)
(* and terminalizeDelivery publishes it again. It takes answers that do    *)
(* not come after their queue message is consumed, and no more faults than *)
(* a dead letter has retries.                                              *)
THEOREM NextCarried == ASSUME AnswersInTime PROVE Spec => []NextIsCarried
<1>1. Init => CarryInv
  <2>. SUFFICES ASSUME Init PROVE CarryInv
    OBVIOUS
  <2>1. CarryPart
    BY DEF Init, CarryPart, Waits, NoRow
  <2>2. SendPart
    BY DEF Init, SendPart, NoCopy, NoSend
  <2>. QED BY <2>1, <2>2, IngressConstants DEF Init, CarryInv
<1>2. IInv /\ CarryInv /\ [Next]_vars => CarryInv'
  <2>. SUFFICES ASSUME IInv, CarryInv, [Next]_vars PROVE CarryInv'
    OBVIOUS
  <2>1. CASE \E m \in Msgs : HandleMessageCreate(m) \/ Replay(m) \/ LeaseRunsOut(m) \/ GrowsOld(m)
    BY <2>1, StoreCarries
  <2>2. CASE \E p \in Publishers : Publish(p) \/ SendFails(p)
    BY <2>2, PublishCarries
  <2>3. CASE \E s \in Sweepers : Sweep(s)
    BY <2>3, SweepCarries
  <2>4. CASE Restart
    BY <2>4, RestartCarries
  <2>5. CASE \E c \in Slots : Take(c) \/ Work(c) \/ Finish(c) \/ DeadLetter(c) \/ Lose(c)
    BY <2>5, TakeCarries, WorkCarries, DeadLetterCarries DEF Lose
  <2>6. CASE UNCHANGED vars
    BY <2>6 DEF vars, outbox, CarryInv, CarryPart, Waits, Carries, SendPart
  <2>. QED BY <2>1, <2>2, <2>3, <2>4, <2>5, <2>6 DEF Next
<1>3. IInv /\ CarryInv => NextIsCarried
  <2>. SUFFICES ASSUME IInv, CarryInv, NEW m \in InState({"enqueued", "leased"}), NextInLine(m)
                PROVE  \E c \in Slots : copies[c].m = m
    BY DEF NextIsCarried
  <2>1. m \in Msgs /\ Stored(m)
    BY Records DEF InState, IInv, RowsInv, Numbered
  <2>2. Waits(m)
    BY <2>1, OpenRows DEF IInv, InState, Waits
  <2>. QED BY <2>1, <2>2 DEF CarryInv, CarryPart, Carries
<1>. QED BY <1>1, <1>2, <1>3, Inductive, PTL DEF Spec
-----------------------------------------------------------------------------
(* DiscordIngress is an ordered inbox.                                     *)

Outcomes == [m \in Msgs |-> Outcome(m)]

LEMMA GivenOrStored == ASSUME Next PROVE UNCHANGED accepted \/ UNCHANGED outbox
<1>1. CASE \E m \in Msgs : HandleMessageCreate(m) \/ Replay(m) \/ LeaseRunsOut(m) \/ GrowsOld(m)
  BY <1>1 DEF HandleMessageCreate, Replay, LeaseRunsOut, GrowsOld
<1>2. CASE \E p \in Publishers : Publish(p) \/ SendFails(p)
  BY <1>2 DEF Publish, SendLands, SendAnswered, SendFails, PublishEnds
<1>3. CASE \E s \in Sweepers : Sweep(s)
  BY <1>3 DEF Sweep, SweepStarts, SweepSends, SweepEnds
<1>4. CASE Restart
  BY <1>4 DEF Restart
<1>5. ASSUME NEW c \in Slots, Take(c) \/ Work(c) \/ Finish(c) \/ DeadLetter(c) \/ Lose(c)
      PROVE  UNCHANGED accepted \/ UNCHANGED outbox
  <2>1. CASE Take(c)
    BY <2>1 DEF Take, AcksCopy, WaitsForLease, ClaimDelivery
  <2>2. CASE Work(c)
    BY <2>2 DEF Work, HandsOver, GivesUp, TurnedAway
  <2>3. CASE Finish(c)
    BY <2>3 DEF Finish, FinishDelivery, FinishRefused, RetryDelivery
  <2>4. CASE DeadLetter(c)
    BY <2>4 DEF DeadLetter
  <2>5. CASE Lose(c)
    BY <2>5 DEF Lose, ClaimUnanswered, ClaimFails, HandOverUnanswered, FinishUnanswered,
                ConsumerDies, DeadLetterFails
  <2>. QED BY <1>5, <2>1, <2>2, <2>3, <2>4, <2>5
<1>. QED BY <1>1, <1>2, <1>3, <1>4, <1>5 DEF Next

LEMMA SameOutcomes ==
    ASSUME \A m \in Msgs : Outcome(m)' = Outcome(m)
    PROVE  Outcomes' = Outcomes
BY DEF Outcomes

LEMMA OutcomesStay ==
    ASSUME RowsInv, Store \/ Touch \/ Age
    PROVE  Outcomes' = Outcomes
<1>1. CASE Store
  <2>1. PICK m \in Msgs : ~Stored(m) /\ rows' = Inserted(m)
    BY <1>1 DEF Store
  <2>2. rows[m] = NoRow /\ rows \in [Msgs -> RowRecords]
    BY <2>1 DEF RowsInv, Numbered
  <2>3. rows'[m].st = "pending" /\ \A n \in Msgs : n # m => rows'[n] = rows[n]
    BY <2>1, <2>2 DEF Inserted, NoRow
  <2>. QED BY <2>2, <2>3, Records, SameOutcomes DEF Outcome, Terminal
<1>2. CASE Touch
  <2>1. PICK m \in Msgs, r \in RowRecords :
          rows[m].st \in Open /\ r.st \in Open /\ rows' = [rows EXCEPT ![m] = r]
    BY <1>2 DEF Touch
  <2>2. rows'[m] = r /\ \A n \in Msgs : n # m => rows'[n] = rows[n]
    BY <2>1 DEF RowsInv, Numbered
  <2>. QED BY <2>1, <2>2, SameOutcomes DEF Outcome, Open, Terminal
<1>3. CASE Age
  <2>1. PICK m \in Msgs : rows' = [rows EXCEPT ![m].old = TRUE]
    BY <1>3 DEF Age
  <2>2. \A n \in Msgs : rows'[n].st = rows[n].st
    BY <2>1 DEF RowsInv, Numbered, RowRecords
  <2>. QED BY <2>2, SameOutcomes DEF Outcome
<1>. QED BY <1>1, <1>2, <1>3

(* A step that settles rows settles those after completed_ordinal.         *)
LEMMA SettledOutcomes ==
    ASSUME RowsInv, NEW st \in Terminal, NEW k \in Nat, completed <= k, k < nextOrdinal,
           rows' = Terminalized({m \in Msgs : rows[m].st \in Open /\ m <= k}, st),
           NEW n \in Msgs
    PROVE  Outcome(n)' = IF completed < n /\ n <= k THEN st ELSE Outcome(n)
<1>. DEFINE S == {m \in Msgs : rows[m].st \in Open /\ m <= k}
<1>1. n \in S <=> completed < n /\ n <= k
  <2>1. completed \in Nat /\ nextOrdinal \in Nat /\ n \in Nat
    BY Records DEF RowsInv, Numbered
  <2>2. rows[n].st \in Open => Stored(n) /\ rows[n].st \notin Terminal
    BY Records DEF RowsInv, Numbered, Open, Terminal
  <2>3. n <= k => Stored(n)
    BY <2>1 DEF Stored
  <2>. QED BY <2>1, <2>2, <2>3, OpenRows DEF RowsInv, SettledPart
<1>2. S \in SUBSET Msgs /\ rows' = Terminalized(S, st) /\ Numbered
  BY DEF RowsInv
<1>. HIDE DEF S
<1>3. CASE n \in S
  <2>1. Terminalized(S, st)[n].st = st
    BY <1>2, <1>3, TerminalizedRows
  <2>. QED BY <1>1, <1>2, <1>3, <2>1 DEF Outcome
<1>4. CASE n \notin S
  <2>1. \/ rows'[n] = rows[n]
        \/ rows[n].st = "enqueued" /\ rows'[n] = [rows[n] EXCEPT !.st = "pending"]
    BY <1>2, <1>4, TerminalizedRows
  <2>2. rows[n] \in RowRecords
    BY <1>2 DEF Numbered
  <2>3. Outcome(n)' = Outcome(n)
    BY <2>1, <2>2 DEF Outcome, RowRecords, Terminal
  <2>. QED BY <1>1, <1>4, <2>3
<1>. QED BY <1>3, <1>4

LEMMA SettleIsSettle ==
    ASSUME RowsInv, SettleUpTo, UNCHANGED accepted
    PROVE  (\E k \in 1 .. Messages, end \in {"completed", "failed"} : Inbox!Settle(k, end))
           \/ UNCHANGED Inbox!inbox
<1>1. PICK st \in Terminal, k \in Nat :
        /\ completed <= k /\ k < nextOrdinal
        /\ rows' = Terminalized({m \in Msgs : rows[m].st \in Open /\ m <= k}, st)
        /\ completed' = k /\ UNCHANGED nextOrdinal
  BY DEF SettleUpTo
<1>2. \A n \in Msgs : Outcome(n)' = IF completed < n /\ n <= k THEN st ELSE Outcome(n)
  BY <1>1, SettledOutcomes
<1>3. completed \in Nat /\ nextOrdinal \in Nat /\ nextOrdinal <= Messages + 1 /\ Msgs = 1 .. Messages
  BY DEF RowsInv, Numbered, Msgs
<1>4. CASE completed < k
  <2>1. k \in 1 .. Messages /\ k <= nextOrdinal - 1
    BY <1>1, <1>3, <1>4, IngressConstants
  <2>2. Outcomes' = [m \in 1 .. Messages |->
                        IF completed < m /\ m <= k THEN st ELSE Outcomes[m]]
    BY <1>2, <1>3 DEF Outcomes
  <2>3. Inbox!Settle(k, st)
    BY <1>1, <1>4, <2>1, <2>2 DEF Inbox!Settle, Outcomes
  <2>. QED BY <2>1, <2>3 DEF Terminal
<1>5. CASE completed = k
  <2>1. Outcomes' = Outcomes
    BY <1>2, <1>3, <1>5, Records, SameOutcomes
  <2>. QED BY <1>1, <1>5, <2>1 DEF Inbox!inbox, Outcomes
<1>. QED BY <1>1, <1>3, <1>4, <1>5

LEMMA StepIsInbox == ASSUME IInv, [Next]_vars PROVE [Inbox!Next]_(Inbox!inbox)
<1>. USE DEF IInv
<1>1. ASSUME UNCHANGED <<outbox, accepted>> PROVE UNCHANGED Inbox!inbox
  BY <1>1, SameOutcomes DEF outbox, Inbox!inbox, Outcomes, Outcome
<1>2. CASE UNCHANGED vars
  BY <1>1, <1>2 DEF vars
<1>3. CASE Next /\ UNCHANGED outbox
  <2>1. AcceptStep
    BY <1>3, NextSteps DEF IStep
  <2>2. ASSUME NEW c \in Slots, copies[c].at \in HandStages, accepted' = accepted \cup {copies[c].m}
        PROVE  Inbox!Give(copies[c].m) /\ copies[c].m \in 1 .. Messages
    <3>1. Message(c) \in Msgs /\ Stored(Message(c)) /\ Message(c) <= completed + 1
      BY <2>2, CopyOf DEF HandStages, Stages
    <3>2. Message(c) = copies[c].m /\ copies[c].m \in Nat /\ nextOrdinal \in Nat
      BY <3>1, Records DEF Message, RowsInv, Numbered
    <3>3. copies[c].m <= nextOrdinal - 1
      BY <3>1, <3>2 DEF Stored
    <3>4. Outcomes' = Outcomes
      BY <1>3, SameOutcomes DEF outbox, Outcome
    <3>. QED BY <1>3, <2>2, <3>1, <3>2, <3>3, <3>4 DEF Inbox!Give, outbox, Outcomes, Msgs
  <2>. QED BY <1>1, <1>3, <2>1, <2>2 DEF AcceptStep, Inbox!Next
<1>4. CASE Next /\ UNCHANGED accepted
  <2>1. RowStep
    BY <1>4, NextSteps DEF IStep
  <2>2. CASE Store
    <3>1. Outcomes' = Outcomes
      BY <2>2, OutcomesStay
    <3>2. nextOrdinal \in Nat /\ nextOrdinal' = nextOrdinal + 1 /\ completed' = completed
      BY <2>2 DEF Store, RowsInv, Numbered
    <3>3. nextOrdinal' <= Messages + 1
      BY <2>1, RowsKeep DEF RowsInv, Numbered
    <3>4. nextOrdinal - 1 < Messages /\ nextOrdinal' - 1 = nextOrdinal - 1 + 1
      BY <3>2, <3>3, IngressConstants
    <3>. QED BY <1>4, <3>1, <3>2, <3>4 DEF Inbox!Next, Inbox!Store, Outcomes
  <2>3. CASE Touch \/ Age
    <3>1. Outcomes' = Outcomes /\ UNCHANGED <<completed, nextOrdinal>>
      BY <2>3, OutcomesStay DEF Touch, Age
    <3>. QED BY <1>4, <3>1 DEF Inbox!inbox, Outcomes
  <2>4. CASE SettleUpTo
    BY <1>4, <2>4, SettleIsSettle DEF Inbox!Next
  <2>. QED BY <1>1, <1>4, <2>1, <2>2, <2>3, <2>4 DEF RowStep
<1>. QED BY <1>2, <1>3, <1>4, GivenOrStored

(* Whatever the queue, the leases, the sweeps and the dead letters do, the *)
(* conversation is an ordered inbox: what became of a message stays, none  *)
(* is settled or given to the agent out of turn.                           *)
THEOREM IngressImplementsInbox == Spec => ImplementsInbox
<1>1. Init => Inbox!Init
  <2>. SUFFICES ASSUME Init PROVE Inbox!Init
    OBVIOUS
  <2>1. \A m \in Msgs : Outcome(m) = "open"
    BY Records DEF Init, Outcome, Terminal
  <2>. QED BY <2>1 DEF Init, Inbox!Init, Msgs
<1>2. IInv /\ [Next]_vars => [Inbox!Next]_(Inbox!inbox)
  BY StepIsInbox
<1>. QED BY <1>1, <1>2, Inductive, PTL DEF Spec, ImplementsInbox, Inbox!Spec
=============================================================================
