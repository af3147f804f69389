---------------------------- MODULE TaskService ----------------------------
(***************************************************************************)
(* The task half of the API: POST /v1/tasks, POST /v1/tasks/{id}/cancel    *)
(* (app/api/tasks.py) and the background orchestrator run that a created   *)
(* task starts (app/agent/orchestrator.py), over one SQLite database, the  *)
(* task worktrees on disk, and a process that may crash.                   *)
(*                                                                         *)
(* A request is a coroutine: it is cut at its awaits, one action for each  *)
(* database call, and other coroutines run in between.  The database is    *)
(* external and modelled from its use: a SELECT outside a write sees the   *)
(* last commit; the first INSERT or UPDATE of a transaction takes the one  *)
(* write lock, which the transaction keeps until its commit or rollback;   *)
(* a writer that finds the lock held waits, and after the driver's busy    *)
(* timeout gives up with "database is locked".                             *)
(*                                                                         *)
(* A definition marked "mutant" is a plausible bug in the one that follows *)
(* it, there to show that a property would notice; Next uses none of them. *)
(***************************************************************************)
EXTENDS TaskTypes, FiniteSets

CONSTANTS
    Users,        \* rows of the users table
    Callers,      \* bearers of an API key; those not in Users match no hash
    Workspaces,   \* rows of the workspaces table
    Owner,        \* Owner[w]: the workspace's user_id
    Keys,         \* non-empty idempotency keys
    EmptyKey,     \* the idempotency key ""
    TaskIds,      \* ids new_id("tsk") may draw
    Requests,     \* HTTP requests, each used once
    Outsider,     \* a writer of the database that is not modelled here
    None,         \* SQL NULL, Python None
    MaxCrashes    \* bound on the crashes of the process

AllKeys == Keys \union {EmptyKey, None}

TaskRow == [user : Users, key : AllKeys, state : TaskState,
            worktree_path : BOOLEAN, completed_at : BOOLEAN]

ASSUME ServiceAssumption ==
    /\ Users \subseteq Callers
    /\ Owner \in [Workspaces -> Users]
    /\ EmptyKey \notin Keys
    /\ None \notin Keys \union {EmptyKey}
    /\ Outsider \notin Requests \union {None}
    /\ None \notin TaskIds /\ None \notin Requests /\ None \notin TaskRow
    /\ MaxCrashes \in Nat

VARIABLES
    tasks,      \* tasks[t]: the committed row of t, or None
    journal,    \* journal[t]: the committed journal rows of t
    writer,     \* the request whose open transaction holds the write lock
    worktrees,  \* the tasks whose worktree is checked out on disk
    pc,         \* where each request is
    call,       \* what it asks for
    target,     \* create: the id of the row it inserted
    loaded,     \* cancel: the state it read, which it decides by
    answer,     \* what its client was told
    runs,       \* runs[t]: the orchestrator's background run of t
    crashes

db == <<tasks, journal>>
session == <<call, target, loaded>>
vars == <<tasks, journal, writer, worktrees, pc, call, target, loaded, answer,
          runs, crashes>>

CreatePC == {"lookup", "workspace", "flush", "commit", "worktree", "record",
             "accept"}
CancelPC == {"load", "update", "journal"}
Labels == CreatePC \union CancelPC \union {"idle", "done"}
(* the transaction of a request at one of these labels holds the lock *)
HoldsLock == {"commit", "journal"}
(* a request at one of these labels is about to write *)
WantsLock == {"flush", "record", "update"}

Codes == {"none", "accepted", "cancel_ok", "unauthorized", "not_found",
          "conflict", "integrity_error", "multiple_rows", "git_error",
          "locked", "lost"}
Answers == [code : Codes, task : TaskIds \union {None}]
Call == [op : {"create", "cancel"}, user : Callers, key : AllKeys,
         ws : Workspaces \union {None}, task : TaskIds \union {None}]

Exists(t) == tasks[t] # None
Owned(t, u) == Exists(t) /\ tasks[t].user = u
StateOf(t) == IF Exists(t) THEN tasks[t].state ELSE Absent

Init ==
    /\ tasks = [t \in TaskIds |-> None]
    /\ journal = [t \in TaskIds |-> {}]
    /\ writer = None
    /\ worktrees = {}
    /\ pc = [r \in Requests |-> "idle"]
    /\ call = [r \in Requests |-> None]
    /\ target = [r \in Requests |-> None]
    /\ loaded = [r \in Requests |-> Absent]
    /\ answer = [r \in Requests |-> [code |-> "none", task |-> None]]
    /\ runs = [t \in TaskIds |-> "none"]
    /\ crashes = 0

Goto(r, label) ==
    /\ pc' = [pc EXCEPT ![r] = label]
    /\ UNCHANGED answer

Answer(r, code, t) ==
    /\ pc' = [pc EXCEPT ![r] = "done"]
    /\ answer' = [answer EXCEPT ![r] = [code |-> code, task |-> t]]

(* require_user runs before the body of every route *)
Authenticated(r, u, label) ==
    IF u \in Users THEN Goto(r, label) ELSE Answer(r, "unauthorized", None)
-----------------------------------------------------------------------------
(* POST /v1/tasks *)

Creates == {r \in Requests : pc[r] # "idle" /\ call[r].op = "create"}

(* The bound on the POSTs is the number of ids: new_id never runs out. *)
Post(r) ==
    /\ pc[r] = "idle"
    /\ Cardinality(Creates) < Cardinality(TaskIds)
    /\ \E u \in Callers, k \in AllKeys, w \in Workspaces :
          /\ call' = [call EXCEPT ![r] = [op |-> "create", user |-> u,
                                          key |-> k, ws |-> w, task |-> None]]
          /\ Authenticated(r, u, IF k \in Keys THEN "lookup" ELSE "workspace")
    /\ UNCHANGED <<db, writer, worktrees, target, loaded, runs, crashes>>

TasksOfAnyone(u, k) == {t \in TaskIds : Exists(t) /\ tasks[t].key = k}  \* mutant
TasksWithKey(u, k) == {t \in TaskIds : Owned(t, u) /\ tasks[t].key = k}

(* the idempotency check: SELECT by (user_id, idempotency_key) *)
FindExisting(r) ==
    /\ pc[r] = "lookup"
    /\ LET mine == TasksWithKey(call[r].user, call[r].key)
       IN  \/ mine = {} /\ Goto(r, "workspace")
           \/ \E t \in mine : Answer(r, "accepted", t)
    /\ UNCHANGED <<db, writer, worktrees, session, runs, crashes>>

(* get_owned_workspace *)
FetchWorkspace(r) ==
    /\ pc[r] = "workspace"
    /\ IF Owner[call[r].ws] = call[r].user
       THEN Goto(r, "flush")
       ELSE Answer(r, "not_found", None)
    /\ UNCHANGED <<db, writer, worktrees, session, runs, crashes>>

(* uq_task_user_idempotency: SQL uniqueness, under which NULLs never clash *)
KeyNeverTaken(u, k) == FALSE                           \* mutant: no constraint
KeyTaken(u, k) == k # None /\ TasksWithKey(u, k) # {}

(* db.add(task); flush.  No handler catches the IntegrityError. *)
InsertTask(r) ==
    /\ pc[r] = "flush"
    /\ writer = None
    /\ \/ /\ KeyTaken(call[r].user, call[r].key)
          /\ Answer(r, "integrity_error", None)
          /\ UNCHANGED <<writer, target>>
       \/ /\ ~KeyTaken(call[r].user, call[r].key)
          /\ \E t \in TaskIds :
                ~Exists(t) /\ target' = [target EXCEPT ![r] = t]
          /\ writer' = r
          /\ Goto(r, "commit")
    /\ UNCHANGED <<db, worktrees, call, loaded, runs, crashes>>

(* mutant: the background run is started with the task, not with the answer *)
CommitTaskAndRun(r) ==
    /\ pc[r] = "commit"
    /\ tasks' = [tasks EXCEPT ![target[r]] =
                    [user |-> call[r].user, key |-> call[r].key,
                     state |-> "QUEUED", worktree_path |-> FALSE,
                     completed_at |-> FALSE]]
    /\ journal' = [journal EXCEPT ![target[r]] =
                      @ \union {Row(0, Absent, "QUEUED")}]
    /\ writer' = None
    /\ runs' = [runs EXCEPT ![target[r]] = "scheduled"]
    /\ Goto(r, "worktree")
    /\ UNCHANGED <<worktrees, session, crashes>>

(* the task row and the first row of its journal, in one commit *)
CommitTask(r) ==
    /\ pc[r] = "commit"
    /\ tasks' = [tasks EXCEPT ![target[r]] =
                    [user |-> call[r].user, key |-> call[r].key,
                     state |-> "QUEUED", worktree_path |-> FALSE,
                     completed_at |-> FALSE]]
    /\ journal' = [journal EXCEPT ![target[r]] =
                      @ \union {Row(0, Absent, "QUEUED")}]
    /\ writer' = None
    /\ Goto(r, "worktree")
    /\ UNCHANGED <<worktrees, session, runs, crashes>>

(* mutant: git's exit status is not looked at *)
CreateWorktreeUnchecked(r) ==
    /\ pc[r] = "worktree"
    /\ worktrees' \in {worktrees, worktrees \union {target[r]}}
    /\ Goto(r, "record")
    /\ UNCHANGED <<db, writer, session, runs, crashes>>

(* create_worktree, a blocking git command, after the commit: a failure   *)
(* leaves the committed task behind.                                      *)
CreateWorktree(r) ==
    /\ pc[r] = "worktree"
    /\ \/ /\ worktrees' = worktrees \union {target[r]}
          /\ Goto(r, "record")
       \/ /\ Answer(r, "git_error", None)
          /\ UNCHANGED worktrees
    /\ UNCHANGED <<db, writer, session, runs, crashes>>

(* mutant: the UPDATE writes back every column the session read *)
RecordWholeRow(r) ==
    /\ pc[r] = "record"
    /\ writer = None
    /\ tasks' = [tasks EXCEPT ![target[r]].worktree_path = TRUE,
                              ![target[r]].state = "QUEUED"]
    /\ Goto(r, "accept")
    /\ UNCHANGED <<journal, writer, worktrees, session, runs, crashes>>

(* task.worktree_path = ...; the second commit writes that column only, so *)
(* a cancel that came first is not overwritten.                            *)
RecordWorktree(r) ==
    /\ pc[r] = "record"
    /\ writer = None
    /\ tasks' = [tasks EXCEPT ![target[r]].worktree_path = TRUE]
    /\ Goto(r, "accept")
    /\ UNCHANGED <<journal, writer, worktrees, session, runs, crashes>>

(* the 202 is sent, then the background task starts *)
Accept(r) ==
    /\ pc[r] = "accept"
    /\ Answer(r, "accepted", target[r])
    /\ runs' = [runs EXCEPT ![target[r]] = "scheduled"]
    /\ UNCHANGED <<db, writer, worktrees, session, crashes>>
-----------------------------------------------------------------------------
(* POST /v1/tasks/{task_id}/cancel *)

PostCancel(r) ==
    /\ pc[r] = "idle"
    /\ \E u \in Callers, t \in TaskIds :
          /\ call' = [call EXCEPT ![r] = [op |-> "cancel", user |-> u,
                                          key |-> None, ws |-> None, task |-> t]]
          /\ Authenticated(r, u, "load")
    /\ UNCHANGED <<db, writer, worktrees, target, loaded, runs, crashes>>

(* get_owned_task, and the 409 of a finished task *)
LoadTask(r) ==
    /\ pc[r] = "load"
    /\ LET t == call[r].task
       IN  \/ /\ ~Owned(t, call[r].user)
              /\ Answer(r, "not_found", None)
              /\ UNCHANGED loaded
           \/ /\ Owned(t, call[r].user) /\ tasks[t].state \in Terminal
              /\ Answer(r, "conflict", t)
              /\ UNCHANGED loaded
           \/ /\ Owned(t, call[r].user) /\ tasks[t].state \notin Terminal
              /\ loaded' = [loaded EXCEPT ![r] = tasks[t].state]
              /\ Goto(r, "update")
    /\ UNCHANGED <<db, writer, worktrees, call, target, runs, crashes>>

(* The SELECT of the journal makes the session flush task.state first: the *)
(* UPDATE takes the write lock.                                            *)
FlushCancel(r) ==
    /\ pc[r] = "update"
    /\ writer = None
    /\ writer' = r
    /\ Goto(r, "journal")
    /\ UNCHANGED <<db, worktrees, session, runs, crashes>>

(* scalar_one_or_none() raises on a second row *)
LimitOne(rows) == FALSE                                \* mutant: LIMIT 1
MultipleRows(rows) == \E d, e \in rows : d # e

LastStepCounted(rows) == Cardinality(rows)             \* mutant: count(*)
LastStep(rows) == IF rows = {} THEN 0 ELSE (CHOOSE e \in rows : Last(rows, e)).step

NextStateMisspelt(state) == IF state = "QUEUED" THEN "CANCELED" ELSE "CANCELLING"
NextState(state) == IF state = "QUEUED" THEN "CANCELLED" ELSE "CANCELLING"

(* mutant: the failed transaction is not rolled back *)
CommitCancelLeaks(r) ==
    LET t == call[r].task
    IN  /\ pc[r] = "journal"
        /\ MultipleRows(journal[t])
        /\ Answer(r, "multiple_rows", t)
        /\ UNCHANGED <<db, writer, worktrees, session, runs, crashes>>

CommitCancel(r) ==
    LET t == call[r].task
        to == NextState(loaded[r])
    IN  /\ pc[r] = "journal"
        /\ \/ /\ MultipleRows(journal[t])
              /\ Answer(r, "multiple_rows", t)
              /\ UNCHANGED db
           \/ /\ ~MultipleRows(journal[t])
              /\ tasks' = [tasks EXCEPT ![t] =
                    [tasks[t] EXCEPT
                       !.state = to,
                       !.completed_at = tasks[t].completed_at \/ to = "CANCELLED"]]
              /\ journal' = [journal EXCEPT ![t] = @ \union
                                {Row(LastStep(@) + 1, loaded[r], to)}]
              /\ Answer(r, "cancel_ok", t)
        /\ writer' = None
        /\ UNCHANGED <<worktrees, session, runs, crashes>>

(* OperationalError: the busy timeout ran out while another transaction    *)
(* held the lock, for instance because the event loop, and the lock's      *)
(* holder with it, was blocked in a git command.                           *)
LockTimeout(r) ==
    /\ pc[r] \in WantsLock
    /\ writer # None
    /\ Answer(r, "locked", None)
    /\ UNCHANGED <<db, writer, worktrees, session, runs, crashes>>
-----------------------------------------------------------------------------
(* run_task *)

RunLoad(t) ==
    /\ runs[t] = "scheduled"
    /\ runs' = [runs EXCEPT ![t] = IF Exists(t) THEN "loaded" ELSE "failed"]
    /\ UNCHANGED <<db, writer, worktrees, pc, session, answer, crashes>>

(* step_index = 1, whatever the journal holds by now *)
RunStepNext(rows) == LastStep(rows) + 1                \* mutant: the next one
RunStep(rows) == 1

(* _append_journal: the insert and its commit write one row and are one    *)
(* step; uq_journal_task_step rejects a step_index that is taken.          *)
RunAppend(t) ==
    /\ runs[t] = "loaded"
    /\ writer = None
    /\ LET step == RunStep(journal[t])
       IN  \/ /\ \E e \in journal[t] : e.step = step
              /\ runs' = [runs EXCEPT ![t] = "failed"]
              /\ UNCHANGED journal
           \/ /\ \A e \in journal[t] : e.step # step
              /\ journal' = [journal EXCEPT ![t] =
                                @ \union {Row(step, "QUEUED", "QUEUED")}]
              /\ runs' = [runs EXCEPT ![t] = "noted"]
    /\ UNCHANGED <<tasks, writer, worktrees, pc, session, answer, crashes>>

RunTimeout(t) ==
    /\ runs[t] = "loaded"
    /\ writer # None
    /\ runs' = [runs EXCEPT ![t] = "failed"]
    /\ UNCHANGED <<db, writer, worktrees, pc, session, answer, crashes>>
-----------------------------------------------------------------------------
(* create_workspace, with its clone, and index_workspace, with its parses, *)
(* hold the write lock as well; they touch no table of this module.        *)
OutsiderBegins ==
    /\ writer = None
    /\ writer' = Outsider
    /\ UNCHANGED <<db, worktrees, pc, session, answer, runs, crashes>>

OutsiderEnds ==
    /\ writer = Outsider
    /\ writer' = None
    /\ UNCHANGED <<db, worktrees, pc, session, answer, runs, crashes>>
-----------------------------------------------------------------------------
(* The process dies and is restarted: coroutines, open transactions and    *)
(* background tasks are gone, the committed rows and the disk stay.        *)
Crash ==
    /\ crashes < MaxCrashes
    /\ crashes' = crashes + 1
    /\ pc' = [r \in Requests |-> IF pc[r] = "idle" THEN "idle" ELSE "done"]
    /\ answer' = [r \in Requests |->
                     IF pc[r] \in {"idle", "done"} THEN answer[r]
                     ELSE [code |-> "lost", task |-> None]]
    /\ writer' = None
    /\ runs' = [t \in TaskIds |->
                   IF runs[t] \in {"scheduled", "loaded"} THEN "lost"
                   ELSE runs[t]]
    /\ UNCHANGED <<db, worktrees, session>>

CreateStep(r) ==
    \/ FindExisting(r) \/ FetchWorkspace(r) \/ InsertTask(r) \/ CommitTask(r)
    \/ CreateWorktree(r) \/ RecordWorktree(r) \/ Accept(r)
CancelStep(r) == LoadTask(r) \/ FlushCancel(r) \/ CommitCancel(r)
Handle(r) == CreateStep(r) \/ CancelStep(r) \/ LockTimeout(r)
RunTask(t) == RunLoad(t) \/ RunAppend(t) \/ RunTimeout(t)

Serve ==
    \/ \E r \in Requests : Post(r) \/ PostCancel(r) \/ Handle(r)
    \/ \E t \in TaskIds : RunTask(t)
    \/ OutsiderBegins \/ OutsiderEnds

Next == Serve \/ Crash

(* The event loop runs every coroutine that can run, and transactions end; *)
(* nobody promises that a client calls, or that the process crashes.       *)
Fairness ==
    /\ WF_vars(OutsiderEnds)
    /\ \A r \in Requests : WF_vars(Handle(r))
    /\ \A t \in TaskIds : WF_vars(RunTask(t))

Spec == Init /\ [][Next]_vars /\ Fairness
=============================================================================
