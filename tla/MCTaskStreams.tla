--------------------------- MODULE MCTaskStreams ---------------------------
(* Instances of TaskStreams for TLC. *)
EXTENDS TaskStreams, TaskServiceProps, TLC

CONSTANTS u1, w1, empty, t1, t2, r1, r2, s1, none, outsider

OneOwner == [w \in {w1} |-> u1]
=============================================================================
