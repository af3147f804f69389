--------------------------- MODULE MCTaskService ---------------------------
(* Instances of TaskService for TLC. *)
EXTENDS TaskServiceProps, TLC

CONSTANTS u1, u2, stranger, w1, w2, k1, empty, t1, t2, t3, r1, r2, r3, none, outsider

OneOwner == [w \in {w1} |-> u1]
EachOwns == [w \in {w1, w2} |-> IF w = w1 THEN u1 ELSE u2]
(* the two users, each with the workspace that is theirs *)
SwapUsers == u1 :> u2 @@ u2 :> u1 @@ w1 :> w2 @@ w2 :> w1
Symmetry == Permutations(TaskIds) \union Permutations(Requests) \union {SwapUsers}
=============================================================================
