--------------------------- MODULE IdentityMirror ---------------------------
(***************************************************************************)
(* What a mirror of an owner's facts promises its readers: each part of a  *)
(* fact is shown as it was at some moment, never as it was before a moment *)
(* already shown; and once the owner is gone and its rows are purged, the  *)
(* parts that were purged for good are not shown again.                    *)
(***************************************************************************)
EXTENDS Naturals

CONSTANTS
    Facts,      \* the facts of the owner
    Slots,      \* their parts in the mirror, each <<fact, part>>
    Lasting     \* the parts a purge removes for good

VARIABLES
    fact,       \* how often each fact was written
    shown,      \* the write each part shows, 0 for none
    owner       \* "here", "wiped" or "purged"

vars == <<fact, shown, owner>>

Init == /\ fact = [f \in Facts |-> 0]
        /\ shown = [s \in Slots |-> 0]
        /\ owner = "here"

Write(f) == /\ owner = "here"
            /\ fact' = [fact EXCEPT ![f] = @ + 1]
            /\ UNCHANGED <<shown, owner>>

Show(s) == /\ owner = "purged" => s \notin Lasting
           /\ \E n \in (shown[s] + 1) .. fact[s[1]] : shown' = [shown EXCEPT ![s] = n]
           /\ UNCHANGED <<fact, owner>>

Wipe == /\ owner = "here" /\ owner' = "wiped"
        /\ UNCHANGED <<fact, shown>>

Purge == /\ owner # "here" /\ owner' = "purged"
         /\ shown' = [s \in Slots |-> 0]
         /\ UNCHANGED fact

Next == \/ \E f \in Facts : Write(f)
        \/ \E s \in Slots : Show(s)
        \/ Wipe
        \/ Purge

Spec == Init /\ [][Next]_vars
=============================================================================
