-------------------------- MODULE TaskServiceProps --------------------------
(***************************************************************************)
(* What the task API must guarantee, and what its documentation says of    *)
(* it, over the model of app/api/tasks.py in TaskService.                  *)
(***************************************************************************)
EXTENDS TaskService

TypeOK ==
    /\ tasks \in [TaskIds -> TaskRow \union {None}]
    /\ journal \in [TaskIds -> SUBSET Transition]
    /\ writer \in Requests \union {None, Outsider}
    /\ worktrees \subseteq TaskIds
    /\ pc \in [Requests -> Labels]
    /\ call \in [Requests -> Call \union {None}]
    /\ target \in [Requests -> TaskIds \union {None}]
    /\ loaded \in [Requests -> TaskState \union {Absent}]
    /\ answer \in [Requests -> Answers]
    /\ runs \in [TaskIds -> {"none", "scheduled", "loaded", "noted", "failed",
                             "lost"}]
    /\ crashes \in 0 .. MaxCrashes

Answered(r, code) == answer[r].code = code

(* The tasks table and the journal are a TaskLifecycle: the state of a     *)
(* task changes in the same commit as its journal, the rows are numbered   *)
(* without a gap and chain to the state, a terminal state is final.  The   *)
(* code has no check of its own for it in run_task, which appends at a     *)
(* fixed step whatever a racing cancel did: the table's unique constraint  *)
(* and the order of cancel's statements must give it.                      *)
Lifecycle == INSTANCE TaskLifecycle WITH
                status <- [t \in TaskIds |-> StateOf(t)], history <- journal
LifecycleSpec == Lifecycle!Spec
ChainedJournal == Lifecycle!ChainedJournal
TerminalIsFinal == Lifecycle!TerminalIsFinal

(* Two POSTs with one (user, idempotency key), retried or concurrent, are  *)
(* never two paid runs (tasks.py:40-42); "" is a key here, NULL is not.    *)
OneTaskPerKey ==
    \A s, t \in TaskIds :
       (/\ Exists(s) /\ Exists(t) /\ tasks[s].key # None
        /\ tasks[s].user = tasks[t].user /\ tasks[s].key = tasks[t].key)
       => s = t

(* Every 202 for one (user, key) names the same task, and it is the task   *)
(* of that user and key, whatever raced, failed or crashed in between.     *)
SameKeySameTask ==
    \A q, r \in Requests :
       (/\ Answered(q, "accepted") /\ Answered(r, "accepted")
        /\ call[q].user = call[r].user /\ call[q].key = call[r].key
        /\ call[q].key # None)
       => answer[q].task = answer[r].task

(* An answer about a task goes to the task's owner, and only to a caller   *)
(* whose key is known (docs/adr/001): every other caller learns nothing.   *)
OwnerScoped ==
    \A r \in Requests :
       answer[r].task # None => Owned(answer[r].task, call[r].user)

(* At most one cancel of a task is told that it cancelled it: of two that  *)
(* both read QUEUED one is refused (tasks.py:213-215, "did my cancel do    *)
(* anything should be reliable"), and its answer outlives any crash.       *)
CancelledOnce ==
    \A q, r \in Requests :
       (/\ Answered(q, "cancel_ok") /\ Answered(r, "cancel_ok")
        /\ answer[q].task = answer[r].task)
       => q = r

(* What a cancel answered stays true: the creating request, which writes   *)
(* the same row later, never brings the task back.                         *)
CancelledIsTerminal ==
    \A r \in Requests :
       Answered(r, "cancel_ok") => LET task == tasks[answer[r].task]
                                   IN  task.state \in Terminal /\ task.completed_at

(* Whatever raced or crashed, "cancelled" is said once and remains true. *)
CancelHolds == CancelledOnce /\ CancelledIsTerminal

(* A queued task that no orchestrator run has noted, because its creator   *)
(* failed, its run is still to come, or the process died with it after the *)
(* 202 (tasks.py:88; nothing reschedules it), has a journal of one row: a  *)
(* cancel, which fails on a second row, can still clear it away.           *)
AbandonedIsCancellable ==
    \A t \in TaskIds :
       StateOf(t) = "QUEUED" /\ runs[t] # "noted" => ~MultipleRows(journal[t])

(* The orchestrator runs a task only after its isolated worktree is on     *)
(* disk and its path is committed, although the task row is visible to     *)
(* other requests before that.                                             *)
RunsInWorktree ==
    \A t \in TaskIds :
       runs[t] # "none" => t \in worktrees /\ tasks[t].worktree_path

(* A recorded path is the path of a checkout that exists: the two stores   *)
(* are written in the order disk, then row, and a crash in between leaves  *)
(* an unrecorded worktree, never a recorded path to nothing.               *)
RecordedWorktreeExists ==
    \A t \in TaskIds : Exists(t) /\ tasks[t].worktree_path => t \in worktrees

(* The order disk, row, run is kept by every path. *)
WorktreeFirst == RunsInWorktree /\ RecordedWorktreeExists

(* A request is always answered, by its handler or by a lost connection:   *)
(* none waits for the write lock forever.                                  *)
EveryRequestAnswered == \A r \in Requests : pc[r] # "idle" ~> pc[r] = "done"

(* The write lock is always given back: every path of a handler, also      *)
(* those that raise, ends its transaction.                                 *)
LockReleased == writer # None ~> writer = None

(* A scheduled orchestrator run ends. *)
RunsEnd == \A t \in TaskIds : runs[t] \in {"scheduled", "loaded"}
                              ~> runs[t] \notin {"scheduled", "loaded"}

(* Nothing in the service hangs: neither a request, nor the write lock,    *)
(* nor a background run, although each may wait for another.               *)
EverythingEnds == EveryRequestAnswered /\ LockReleased /\ RunsEnd
-----------------------------------------------------------------------------
(* Statements of the documentation that the code does not keep. *)

(* "a 202 response guarantees the task's isolated workspace already exists *)
(* on disk" (tasks.py:80-82)                                               *)
AcceptedHasWorktree ==
    \A r \in Requests : Answered(r, "accepted") => answer[r].task \in worktrees

(* "QUEUED: ... It is safe to finalize straight to CANCELLED"              *)
(* (tasks.py:199-202): a cancel of a QUEUED task is not refused with an    *)
(* internal error.                                                         *)
QueuedIsCancellable ==
    \A r \in Requests :
       Answered(r, "multiple_rows") => tasks[answer[r].task].state # "QUEUED"

(* "Re-POSTing the same key for this user returns the existing task"       *)
(* (app/schemas.py:42-43): a POST whose key is taken is not refused with   *)
(* an internal error.                                                      *)
RepostReturnsExisting ==
    \A r \in Requests : Answered(r, "integrity_error") => call[r].key \notin Keys
=============================================================================
