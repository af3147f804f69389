----------------------------- MODULE TaskTypes -----------------------------
(***************************************************************************)
(* The vocabulary of the tasks and journal_events tables (app/models.py),  *)
(* shared by the abstract task and by the service that keeps the tables.   *)
(***************************************************************************)
EXTENDS Naturals

(* The state of a task that has no row yet; also the payload's            *)
(* "from": None in the first row of a journal.                            *)
Absent == "ABSENT"

(* TaskState and its is_terminal *)
Terminal == {"DONE", "FAILED", "BUDGET_EXHAUSTED", "CANCELLED"}
InFlight == {"PLANNING", "RETRIEVING", "EDITING", "VERIFYING", "REPAIRING"}
TaskState == {"QUEUED", "CANCELLING"} \union InFlight \union Terminal

(* A journal row whose event_type is state_transition, the one type the   *)
(* code writes.  A journal is the set of its rows.                        *)
Transition == [step : Nat, from : TaskState \union {Absent}, to : TaskState]

Row(n, from, to) == [step |-> n, from |-> from, to |-> to]

(* e is the row of rows with the highest step_index *)
Last(rows, e) == e \in rows /\ \A d \in rows : d.step <= e.step
=============================================================================
