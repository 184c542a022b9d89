------------------------------ MODULE MCMissions ------------------------------
(* Small instances of Missions for TLC. *)
EXTENDS Missions

CONSTANTS r1, r2, n1, n2, e1, e2

\* Routes that overlap, and each robot started on its own, or both together.
Overlapping == {<<n1, n2>>, <<n2>>}
OneByOne    == {<<r1>>, <<r2>>}
Together    == {<<r1>>, <<r2>>, <<r1, r2>>}

\* The event has the node the routes share.
OnSharedNode == [e \in {e1, e2} |-> IF e = e1 THEN {n2} ELSE {}]
=============================================================================
