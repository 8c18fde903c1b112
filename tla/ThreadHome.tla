------------------------------ MODULE ThreadHome ------------------------------
(***************************************************************************)
(* What a thread's move promises, whoever takes part in it: a thread lives *)
(* in its Durable Object until it is given one agent of the runtime, for   *)
(* good, and no agent that is gone is ever given, nor the given one ever   *)
(* destroyed, while the thread exists.                                     *)
(***************************************************************************)
CONSTANTS
    Agents,     \* the agents a runtime may make
    NoAgent     \* none of them

VARIABLES
    home,       \* where the thread is: "here", on the "runtime", or "gone"
    agent,      \* the agent it was given
    dead        \* the agents destroyed

vars == <<home, agent, dead>>

Init == home = "here" /\ agent = NoAgent /\ dead = {}

Give(a) == /\ home = "here" /\ a \notin dead
           /\ home' = "runtime" /\ agent' = a
           /\ UNCHANGED dead

Destroy(a) == /\ a # agent /\ a \notin dead
              /\ dead' = dead \cup {a}
              /\ UNCHANGED <<home, agent>>

Remove == /\ home # "gone"
          /\ home' = "gone" /\ agent' = NoAgent
          /\ UNCHANGED dead

Next == (\E a \in Agents : Give(a) \/ Destroy(a)) \/ Remove

Spec == Init /\ [][Next]_vars
=============================================================================
