--------------------------- MODULE MCGitWorkspace ---------------------------
(* Instances of GitWorkspace for TLC. *)
EXTENDS GitWorkspace, FiniteSets, TLC

CONSTANTS t1, t2, none

AllClash == {pair \in SUBSET Tasks : Cardinality(pair) = 2}
=============================================================================
