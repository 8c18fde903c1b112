----------------------------- MODULE OrderedInbox -----------------------------
(***************************************************************************)
(* What the Discord ingress promises of a conversation, whatever queue,    *)
(* leases and sweeps lie between: messages are numbered as they come, they *)
(* are settled in that order and for good, and the agent is given a        *)
(* message only once all before it are settled.  DiscordIngress implements *)
(* it.                                                                     *)
(***************************************************************************)
EXTENDS Naturals

CONSTANT Messages

VARIABLES
    stored,   \* how many messages have come
    settled,  \* how many are settled: the first ones
    outcome,  \* what became of each message
    given     \* messages the agent has been given

inbox == <<stored, settled, outcome, given>>

Init ==
    /\ stored = 0 /\ settled = 0 /\ given = {}
    /\ outcome = [m \in 1 .. Messages |-> "open"]

Store == stored < Messages /\ stored' = stored + 1 /\ UNCHANGED <<settled, outcome, given>>

\* An expiry may settle several at once, all of them in one way.
Settle(k, end) ==
    /\ settled < k /\ k <= stored
    /\ settled' = k
    /\ outcome' = [m \in 1 .. Messages |->
                      IF settled < m /\ m <= k THEN end ELSE outcome[m]]
    /\ UNCHANGED <<stored, given>>

\* A message settled meanwhile may still be given: its consumer outlived its lease.
Give(m) ==
    /\ m <= stored /\ m <= settled + 1
    /\ given' = given \cup {m}
    /\ UNCHANGED <<stored, settled, outcome>>

Next ==
    \/ Store
    \/ \E k \in 1 .. Messages, end \in {"completed", "failed"} : Settle(k, end)
    \/ \E m \in 1 .. Messages : Give(m)

Spec == Init /\ [][Next]_inbox
=============================================================================
