--------------------------- MODULE TaskLifecycle ---------------------------
(***************************************************************************)
(* What the platform promises about a task, whoever drives it: a task is   *)
(* a state machine whose every change is one row of an append-only         *)
(* journal, and a terminal state is the end of both (app/models.py, the    *)
(* TaskState and JournalEvent tables; docs/adr/002).  TaskService is shown *)
(* to implement this specification.                                        *)
(***************************************************************************)
EXTENDS TaskTypes

CONSTANT TaskIds

VARIABLES
    status,    \* status[t]: the task's state, or Absent before it exists
    history    \* history[t]: the set of its journal rows

lvars == <<status, history>>

-----------------------------------------------------------------------------
Init ==
    /\ status = [t \in TaskIds |-> Absent]
    /\ history = [t \in TaskIds |-> {}]

Create(t) ==
    /\ status[t] = Absent
    /\ status' = [status EXCEPT ![t] = "QUEUED"]
    /\ history' = [history EXCEPT ![t] = {Row(0, Absent, "QUEUED")}]

(* One transition, to the same state or another: the row joins the state  *)
(* the task is in to the one it moves to, and the two change together.    *)
Advance(t, to) ==
    /\ status[t] \notin Terminal \union {Absent}
    /\ \E e \in history[t] :
          /\ Last(history[t], e)
          /\ history' = [history EXCEPT
                            ![t] = @ \union {Row(e.step + 1, status[t], to)}]
    /\ status' = [status EXCEPT ![t] = to]

Next == \E t \in TaskIds : Create(t) \/ \E to \in TaskState : Advance(t, to)

Spec == Init /\ [][Next]_lvars
-----------------------------------------------------------------------------
TypeOK ==
    /\ status \in [TaskIds -> TaskState \union {Absent}]
    /\ history \in [TaskIds -> SUBSET Transition]

(* The rows of a task are numbered 0, 1, ... without a gap or a double,   *)
(* each starts in the state its predecessor reached, and the last one     *)
(* reaches the state the tasks table shows: replaying the journal yields  *)
(* the task (docs/adr/002, "replay it into in-memory state").             *)
ChainedJournal ==
    \A t \in TaskIds :
      /\ status[t] = Absent <=> history[t] = {}
      /\ \A d, e \in history[t] : d.step = e.step => d = e
      /\ \A e \in history[t] :
            \/ e.step = 0 /\ e.from = Absent
            \/ \E d \in history[t] : d.step + 1 = e.step /\ d.to = e.from
      /\ \A e \in history[t] : Last(history[t], e) => e.to = status[t]

(* A finished task stays what it is and its journal is closed, and a row  *)
(* once written is never lost.                                            *)
ClosedTask(t) ==
    /\ history[t] \subseteq history'[t]
    /\ status[t] \in Terminal =>
          status'[t] = status[t] /\ history'[t] = history[t]

TerminalIsFinal == [][\A t \in TaskIds : ClosedTask(t)]_lvars
=============================================================================
