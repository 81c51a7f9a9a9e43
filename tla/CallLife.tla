------------------------------ MODULE CallLife ------------------------------
(***************************************************************************)
(* A call as CallManager relies on it: the abstract specification          *)
(* CallController implements.                                              *)
(***************************************************************************)
EXTENDS CallPhases

VARIABLE phase      \* one of Phases, or "gone" while its process is

Goes(p, q) == phase = p /\ phase' = q

Init == phase = "over"

Open == \E s \in Openings : Goes(s[1], s[2])

Stop == \E s \in Stops : Goes(s[1], s[2])

Own == \E s \in OwnSteps : Goes(s[1], s[2])

Crash == phase # "gone" /\ phase' = "gone"

Return == Goes("gone", "over")

Next == Open \/ Stop \/ Own \/ Crash \/ Return

Spec == Init /\ [][Next]_phase
=============================================================================
