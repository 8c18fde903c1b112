--------------------------- MODULE MCMirrorOutbox ---------------------------
(* An owner whose own snapshot is two D1 events (org_upsert and            *)
(* org_llm_provider_update), one entity of one event beside it, and one    *)
(* append-only event.                                                      *)
EXTENDS MirrorOutbox

TwoPartRoot == [k \in Keys |-> IF k = Root /\ Owner = "org" THEN 2 ELSE 1]
=============================================================================
