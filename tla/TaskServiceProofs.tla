------------------------- MODULE TaskServiceProofs -------------------------
(***************************************************************************)
(* Proofs about TaskService, for any number of users, tasks, requests and  *)
(* crashes.  The safety properties do not hold by themselves from step to  *)
(* step: what makes them inductive is where each request is.  A request    *)
(* between its flush and its commit owns the database, so nobody takes its *)
(* key or its id; a cancel only ever decides by QUEUED, and one that finds *)
(* a single journal row finds the row of the creation.                     *)
(***************************************************************************)
EXTENDS TaskServiceProps, TLAPS

Queued0   == Row(0, Absent, "QUEUED")
Noted1    == Row(1, "QUEUED", "QUEUED")
Cancelled1 == Row(1, "QUEUED", "CANCELLED")

(* the three things a task and its journal can be together *)
Shape(t) ==
    \/ /\ tasks[t] = None
       /\ journal[t] = {}
       /\ t \notin worktrees
       /\ runs[t] = "none"
    \/ /\ tasks[t] # None
       /\ tasks[t].state = "QUEUED"
       /\ journal[t] \in {{Queued0}, {Queued0, Noted1}}
    \/ /\ tasks[t] # None
       /\ tasks[t].state = "CANCELLED"
       /\ tasks[t].completed_at
       /\ journal[t] = {Queued0, Cancelled1}

Shapes == \A t \in TaskIds : Shape(t)

(* the lock is held by the request that is inside a write transaction *)
LockInv == \A r \in Requests : writer = r <=> pc[r] \in HoldsLock

(* what a request knows at each of its labels *)
Working(r) ==
    pc[r] \notin {"idle", "done"} => call[r] \in Call /\ call[r].user \in Users
Inserting(r) ==
    pc[r] = "commit" =>
       /\ target[r] \in TaskIds
       /\ tasks[target[r]] = None
       /\ ~KeyTaken(call[r].user, call[r].key)
Inserted(r) ==
    pc[r] \in {"worktree", "record", "accept"} =>
       /\ target[r] \in TaskIds
       /\ Owned(target[r], call[r].user)
       /\ tasks[target[r]].key = call[r].key
CheckedOut(r) == pc[r] \in {"record", "accept"} => target[r] \in worktrees
Recorded(r) == pc[r] = "accept" => tasks[target[r]].worktree_path
Cancelling(r) ==
    pc[r] \in CancelPC => call[r].task \in TaskIds
Decided(r) ==
    pc[r] \in {"update", "journal"} =>
       Owned(call[r].task, call[r].user) /\ loaded[r] = "QUEUED"

Knows(r) ==
    /\ Working(r) /\ Inserting(r) /\ Inserted(r) /\ CheckedOut(r)
    /\ Recorded(r) /\ Cancelling(r) /\ Decided(r)
RequestInv == \A r \in Requests : Knows(r)

(* what an answer still says of the tables, however late it is read *)
Sound(r) ==
    /\ pc[r] # "done" => answer[r].code = "none" /\ answer[r].task = None
    /\ answer[r].task # None => Owned(answer[r].task, call[r].user)
    /\ answer[r].code = "accepted" =>
          answer[r].task # None /\ tasks[answer[r].task].key = call[r].key
    /\ answer[r].code = "cancel_ok" =>
          answer[r].task # None /\ tasks[answer[r].task].state = "CANCELLED"
AnswerInv == \A r \in Requests : Sound(r)

(* the order disk, row, run *)
WorktreeInv == RunsInWorktree /\ RecordedWorktreeExists

IInv ==
    /\ TypeOK /\ Shapes /\ LockInv /\ RequestInv /\ AnswerInv
    /\ OneTaskPerKey /\ CancelledOnce /\ WorktreeInv
-----------------------------------------------------------------------------
(* What a step that leaves the tables, or the requests, alone keeps.      *)

LEMMA TablesKept ==
  ASSUME Shapes, OneTaskPerKey, WorktreeInv,
         UNCHANGED <<tasks, journal, worktrees, runs>>
  PROVE  Shapes' /\ OneTaskPerKey' /\ WorktreeInv'
  BY DEF Shapes, Shape, OneTaskPerKey, WorktreeInv, RunsInWorktree,
         RecordedWorktreeExists, Exists

LEMMA RequestsKept ==
  ASSUME LockInv, RequestInv, AnswerInv, CancelledOnce, OneTaskPerKey,
         UNCHANGED <<tasks, writer, worktrees, pc, call, target, loaded, answer>>
  PROVE  LockInv' /\ RequestInv' /\ AnswerInv' /\ CancelledOnce' /\ OneTaskPerKey'
  BY DEF LockInv, RequestInv, Knows, Working, Inserting, Inserted, CheckedOut, Recorded,
         Cancelling, Decided, AnswerInv, Sound, CancelledOnce, Answered, OneTaskPerKey,
         Owned, Exists, KeyTaken, TasksWithKey

(* A step of r keeps what the other requests know. *)
LEMMA OthersKept ==
  ASSUME NEW q \in Requests, Knows(q), Sound(q),
         UNCHANGED <<tasks, worktrees, pc[q], call[q], target[q], loaded[q],
                     answer[q]>>
  PROVE  Knows(q)' /\ Sound(q)'
  BY DEF Knows, Working, Inserting, Inserted, CheckedOut, Recorded, Cancelling,
         Decided, Sound, Owned, Exists, KeyTaken, TasksWithKey

LEMMA GotoType ==
  ASSUME TypeOK, NEW r \in Requests, NEW label \in Labels, Goto(r, label)
  PROVE  /\ pc' = [pc EXCEPT ![r] = label] /\ answer' = answer
         /\ pc' \in [Requests -> Labels] /\ answer' \in [Requests -> Answers]
  BY DEF TypeOK, Goto

LEMMA AnswerType ==
  ASSUME TypeOK, NEW r \in Requests, NEW code \in Codes,
         NEW t \in TaskIds \union {None}, Answer(r, code, t)
  PROVE  /\ pc' = [pc EXCEPT ![r] = "done"]
         /\ answer'[r].code = code /\ answer'[r].task = t
         /\ \A q \in Requests \ {r} : answer'[q] = answer[q]
         /\ pc' \in [Requests -> Labels] /\ answer' \in [Requests -> Answers]
  <1>1. [code |-> code, task |-> t] \in Answers
    BY DEF Answers
  <1>. QED
    BY <1>1 DEF TypeOK, Answer, Labels

LEMMA JournalRows ==
  /\ Queued0 \in Transition /\ Noted1 \in Transition /\ Cancelled1 \in Transition
  /\ Queued0.step = 0 /\ Queued0.from = Absent /\ Queued0.to = "QUEUED"
  /\ Noted1.step = 1 /\ Noted1.from = "QUEUED" /\ Noted1.to = "QUEUED"
  /\ Cancelled1.step = 1 /\ Cancelled1.from = "QUEUED" /\ Cancelled1.to = "CANCELLED"
  BY DEF Queued0, Noted1, Cancelled1, Row, Transition, TaskState, Terminal, Absent

LEMMA InitInv == Init => IInv
  <1>. SUFFICES ASSUME Init PROVE IInv
    OBVIOUS
  <1>. USE ServiceAssumption DEF ServiceAssumption, Init
  <1>1. TypeOK
    BY DEF TypeOK, Codes, Answers, Labels
  <1>2. Shapes /\ LockInv
    BY DEF Shapes, Shape, LockInv, HoldsLock
  <1>3. RequestInv
    BY DEF RequestInv, Knows, Working, Inserting, Inserted, CheckedOut, Recorded,
           Cancelling, Decided, CancelPC
  <1>4. AnswerInv /\ OneTaskPerKey /\ CancelledOnce /\ WorktreeInv
    BY DEF AnswerInv, Sound, OneTaskPerKey, CancelledOnce, Answered, WorktreeInv,
           RunsInWorktree, RecordedWorktreeExists, Exists
  <1>. QED
    BY <1>1, <1>2, <1>3, <1>4 DEF IInv
-----------------------------------------------------------------------------
(* A step of request r: what it writes has its type, and the other         *)
(* requests stay where they are.                                           *)
StepOf(r) ==
    /\ writer' \in Requests \union {None, Outsider}
    /\ pc' \in [Requests -> Labels]
    /\ call' \in [Requests -> Call \union {None}]
    /\ target' \in [Requests -> TaskIds \union {None}]
    /\ loaded' \in [Requests -> TaskState \union {Absent}]
    /\ answer' \in [Requests -> Answers]
    /\ \A q \in Requests \ {r} :
          UNCHANGED <<pc[q], call[q], target[q], loaded[q], answer[q]>>

LEMMA KnowsDone ==
  ASSUME NEW r \in Requests, pc'[r] = "done"
  PROVE  Knows(r)'
  BY DEF Knows, Working, Inserting, Inserted, CheckedOut, Recorded, Cancelling,
         Decided, CancelPC

LEMMA LockKept ==
  ASSUME LockInv, NEW r \in Requests, StepOf(r), writer' = writer,
         pc[r] \notin HoldsLock, pc'[r] \notin HoldsLock
  PROVE  LockInv'
  BY DEF LockInv, StepOf, HoldsLock

LEMMA LockTaken ==
  ASSUME LockInv, NEW r \in Requests, StepOf(r), writer = None, writer' = r,
         pc'[r] \in HoldsLock
  PROVE  LockInv'
  BY ServiceAssumption DEF ServiceAssumption, LockInv, StepOf, HoldsLock

LEMMA LockGiven ==
  ASSUME LockInv, NEW r \in Requests, StepOf(r), pc[r] \in HoldsLock,
         writer' = None, pc'[r] \notin HoldsLock
  PROVE  LockInv'
  BY ServiceAssumption DEF ServiceAssumption, LockInv, StepOf, HoldsLock

(* A step that writes no table keeps IInv if r itself comes out right. *)
LEMMA QuietStep ==
  ASSUME IInv, NEW r \in Requests, StepOf(r),
         UNCHANGED <<tasks, journal, worktrees, runs, crashes>>,
         LockInv', Knows(r)', Sound(r)', answer'[r].code # "cancel_ok"
  PROVE  IInv'
  <1>1. TypeOK'
    BY DEF IInv, TypeOK, StepOf
  <1>2. \A q \in Requests : Knows(q)' /\ Sound(q)'
    BY OthersKept DEF IInv, RequestInv, AnswerInv, StepOf
  <1>3. CancelledOnce'
    BY DEF IInv, CancelledOnce, Answered, StepOf
  <1>. QED
    BY <1>1, <1>2, <1>3, TablesKept DEF IInv, RequestInv, AnswerInv

(* r is refused: it keeps nothing but its answer. *)
LEMMA RefusedKeeps ==
  ASSUME IInv, NEW r \in Requests,
         NEW code \in Codes \ {"accepted", "cancel_ok"},
         NEW t \in TaskIds \union {None}, Answer(r, code, t),
         t # None => Owned(t, call[r].user),
         pc[r] \notin HoldsLock,
         UNCHANGED <<tasks, journal, writer, worktrees, call, target, loaded,
                     runs, crashes>>
  PROVE  IInv'
  <1>1. StepOf(r) /\ pc'[r] = "done" /\ answer'[r].code = code
        /\ answer'[r].task = t
    BY AnswerType DEF IInv, TypeOK, StepOf
  <1>2. Sound(r)'
    BY <1>1 DEF Sound, Owned, Exists
  <1>3. LockInv'
    BY <1>1, LockKept DEF IInv, HoldsLock
  <1>. QED
    BY <1>1, <1>2, <1>3, KnowsDone, QuietStep

(* r goes on: it has no answer yet. *)
LEMMA GoingOn ==
  ASSUME IInv, NEW r \in Requests, NEW label \in Labels, Goto(r, label),
         pc[r] # "done", label # "done",
         call' \in [Requests -> Call \union {None}],
         target' \in [Requests -> TaskIds \union {None}],
         loaded' \in [Requests -> TaskState \union {Absent}],
         writer' \in Requests \union {None, Outsider},
         \A q \in Requests \ {r} : UNCHANGED <<call[q], target[q], loaded[q]>>
  PROVE  /\ StepOf(r) /\ pc'[r] = label
         /\ Sound(r)' /\ answer'[r].code # "cancel_ok"
  <1>1. answer[r].code = "none" /\ answer[r].task = None
    BY DEF IInv, AnswerInv, Sound
  <1>2. StepOf(r) /\ pc'[r] = label /\ answer' = answer
    BY GotoType DEF IInv, TypeOK, StepOf
  <1>. QED
    BY <1>1, <1>2 DEF Sound
-----------------------------------------------------------------------------
(* The steps of requests that write no table. *)

LEMMA PostKeeps ==
  ASSUME IInv, NEW r \in Requests, Post(r)
  PROVE  IInv'
  <1>1. PICK c \in Call, label \in {"lookup", "workspace"} :
           /\ call' = [call EXCEPT ![r] = c]
           /\ Authenticated(r, c.user, label)
    <2>1. PICK u \in Callers, k \in AllKeys, w \in Workspaces :
             /\ call' = [call EXCEPT ![r] = [op |-> "create", user |-> u,
                                             key |-> k, ws |-> w, task |-> None]]
             /\ Authenticated(r, u, IF k \in Keys THEN "lookup" ELSE "workspace")
      BY DEF Post
    <2>. DEFINE new == [op |-> "create", user |-> u, key |-> k, ws |-> w,
                        task |-> None]
    <2>2. new \in Call /\ new.user = u
      BY DEF Call
    <2>. QED
      BY <2>1, <2>2
  <1>2. /\ pc[r] = "idle" /\ label \in Labels \ {"done"}
        /\ UNCHANGED <<tasks, journal, writer, worktrees, target, loaded, runs,
                       crashes>>
    BY DEF Post, db, Labels, CreatePC, CancelPC
  <1>3. /\ call' \in [Requests -> Call \union {None}] /\ call'[r] = c
        /\ \A q \in Requests \ {r} : call'[q] = call[q]
    BY <1>1 DEF IInv, TypeOK
  <1>4. CASE c.user \in Users
    <2>1. Goto(r, label)
      BY <1>1, <1>4 DEF Authenticated
    <2>2. /\ StepOf(r) /\ pc'[r] = label
          /\ Sound(r)' /\ answer'[r].code # "cancel_ok"
      BY <1>2, <1>3, <2>1, GoingOn DEF IInv, TypeOK
    <2>3. LockInv'
      BY <1>2, <2>2, LockKept DEF IInv, HoldsLock
    <2>4. Knows(r)'
      BY <1>3, <1>4, <2>2 DEF Call, Knows, Working, Inserting, Inserted, CheckedOut,
           Recorded, Cancelling, Decided, CancelPC
    <2>. QED
      BY <1>2, <2>2, <2>3, <2>4, QuietStep
  <1>5. CASE c.user \notin Users
    <2>1. Answer(r, "unauthorized", None)
      BY <1>1, <1>5 DEF Authenticated
    <2>2. StepOf(r) /\ pc'[r] = "done" /\ answer'[r].code = "unauthorized"
          /\ answer'[r].task = None
      BY <1>2, <1>3, <2>1, AnswerType DEF IInv, TypeOK, StepOf, Codes
    <2>3. LockInv' /\ Sound(r)'
      BY <1>2, <2>2, LockKept DEF IInv, HoldsLock, Sound
    <2>. QED
      BY <1>2, <2>2, <2>3, KnowsDone, QuietStep
  <1>. QED
    BY <1>4, <1>5

LEMMA PostCancelKeeps ==
  ASSUME IInv, NEW r \in Requests, PostCancel(r)
  PROVE  IInv'
  <1>1. PICK c \in Call, label \in {"load"} :
           /\ call' = [call EXCEPT ![r] = c]
           /\ Authenticated(r, c.user, label)
           /\ c.task \in TaskIds
    <2>1. PICK u \in Callers, t \in TaskIds :
             /\ call' = [call EXCEPT ![r] = [op |-> "cancel", user |-> u,
                                             key |-> None, ws |-> None, task |-> t]]
             /\ Authenticated(r, u, "load")
      BY DEF PostCancel
    <2>. DEFINE new == [op |-> "cancel", user |-> u, key |-> None, ws |-> None,
                        task |-> t]
    <2>2. new \in Call /\ new.user = u /\ new.task \in TaskIds
      BY DEF Call, AllKeys
    <2>. QED
      BY <2>1, <2>2
  <1>2. /\ pc[r] = "idle" /\ label \in Labels \ {"done"}
        /\ UNCHANGED <<tasks, journal, writer, worktrees, target, loaded, runs,
                       crashes>>
    BY DEF PostCancel, db, Labels, CreatePC, CancelPC
  <1>3. /\ call' \in [Requests -> Call \union {None}] /\ call'[r] = c
        /\ \A q \in Requests \ {r} : call'[q] = call[q]
    BY <1>1 DEF IInv, TypeOK
  <1>4. CASE c.user \in Users
    <2>1. Goto(r, label)
      BY <1>1, <1>4 DEF Authenticated
    <2>2. /\ StepOf(r) /\ pc'[r] = label
          /\ Sound(r)' /\ answer'[r].code # "cancel_ok"
      BY <1>2, <1>3, <2>1, GoingOn DEF IInv, TypeOK
    <2>3. LockInv'
      BY <1>2, <2>2, LockKept DEF IInv, HoldsLock
    <2>4. Knows(r)'
      BY <1>1, <1>3, <1>4, <2>2 DEF Call, Knows, Working, Inserting, Inserted, CheckedOut,
           Recorded, Cancelling, Decided, CancelPC
    <2>. QED
      BY <1>2, <2>2, <2>3, <2>4, QuietStep
  <1>5. CASE c.user \notin Users
    <2>1. Answer(r, "unauthorized", None)
      BY <1>1, <1>5 DEF Authenticated
    <2>2. StepOf(r) /\ pc'[r] = "done" /\ answer'[r].code = "unauthorized"
          /\ answer'[r].task = None
      BY <1>2, <1>3, <2>1, AnswerType DEF IInv, TypeOK, StepOf, Codes
    <2>3. LockInv' /\ Sound(r)'
      BY <1>2, <2>2, LockKept DEF IInv, HoldsLock, Sound
    <2>. QED
      BY <1>2, <2>2, <2>3, KnowsDone, QuietStep
  <1>. QED
    BY <1>4, <1>5

LEMMA FindExistingKeeps ==
  ASSUME IInv, NEW r \in Requests, FindExisting(r)
  PROVE  IInv'
  <1>1. /\ pc[r] = "lookup"
        /\ UNCHANGED <<tasks, journal, writer, worktrees, call, target, loaded,
                       runs, crashes>>
    BY DEF FindExisting, db, session
  <1>2. CASE Goto(r, "workspace")
    <2>1. /\ StepOf(r) /\ pc'[r] = "workspace"
          /\ Sound(r)' /\ answer'[r].code # "cancel_ok"
      BY <1>1, <1>2, GoingOn DEF IInv, TypeOK, Labels, CreatePC
    <2>2. LockInv'
      BY <1>1, <2>1, LockKept DEF IInv, HoldsLock
    <2>3. Knows(r)'
      BY <1>1, <2>1 DEF IInv, RequestInv, Knows, Working, Inserting, Inserted, CheckedOut,
           Recorded, Cancelling, Decided, CancelPC
    <2>. QED
      BY <1>1, <2>1, <2>2, <2>3, QuietStep
  <1>3. ASSUME NEW t \in TaskIds, Owned(t, call[r].user),
               tasks[t].key = call[r].key, Answer(r, "accepted", t)
        PROVE  IInv'
    <2>1. StepOf(r) /\ pc'[r] = "done" /\ answer'[r].code = "accepted"
          /\ answer'[r].task = t
      BY <1>1, <1>3, AnswerType DEF IInv, TypeOK, StepOf, Codes
    <2>2. LockInv'
      BY <1>1, <2>1, LockKept DEF IInv, HoldsLock
    <2>3. Sound(r)'
      BY <1>1, <1>3, <2>1, ServiceAssumption
      DEF ServiceAssumption, Sound, Owned, Exists
    <2>. QED
      BY <1>1, <2>1, <2>2, <2>3, KnowsDone, QuietStep
  <1>. QED
    BY <1>2, <1>3 DEF FindExisting, TasksWithKey

LEMMA FetchWorkspaceKeeps ==
  ASSUME IInv, NEW r \in Requests, FetchWorkspace(r)
  PROVE  IInv'
  <1>1. /\ pc[r] = "workspace"
        /\ UNCHANGED <<tasks, journal, writer, worktrees, call, target, loaded,
                       runs, crashes>>
    BY DEF FetchWorkspace, db, session
  <1>2. CASE Goto(r, "flush")
    <2>1. /\ StepOf(r) /\ pc'[r] = "flush"
          /\ Sound(r)' /\ answer'[r].code # "cancel_ok"
      BY <1>1, <1>2, GoingOn DEF IInv, TypeOK, Labels, CreatePC
    <2>2. LockInv'
      BY <1>1, <2>1, LockKept DEF IInv, HoldsLock
    <2>3. Knows(r)'
      BY <1>1, <2>1 DEF IInv, RequestInv, Knows, Working, Inserting, Inserted, CheckedOut,
           Recorded, Cancelling, Decided, CancelPC
    <2>. QED
      BY <1>1, <2>1, <2>2, <2>3, QuietStep
  <1>3. CASE Answer(r, "not_found", None)
    BY <1>1, <1>3, RefusedKeeps DEF Codes, HoldsLock
  <1>. QED
    BY <1>2, <1>3 DEF FetchWorkspace

LEMMA InsertTaskKeeps ==
  ASSUME IInv, NEW r \in Requests, InsertTask(r)
  PROVE  IInv'
  <1>1. /\ pc[r] = "flush" /\ writer = None
        /\ UNCHANGED <<tasks, journal, worktrees, call, loaded, runs, crashes>>
    BY DEF InsertTask, db
  <1>2. CASE Answer(r, "integrity_error", None) /\ UNCHANGED <<writer, target>>
    BY <1>1, <1>2, RefusedKeeps DEF Codes, HoldsLock
  <1>3. ASSUME ~KeyTaken(call[r].user, call[r].key), NEW t \in TaskIds, ~Exists(t),
               target' = [target EXCEPT ![r] = t], writer' = r, Goto(r, "commit")
        PROVE  IInv'
    <2>1. /\ StepOf(r) /\ pc'[r] = "commit"
          /\ Sound(r)' /\ answer'[r].code # "cancel_ok"
      BY <1>1, <1>3, GoingOn DEF IInv, TypeOK, Labels, CreatePC
    <2>2. LockInv'
      BY <1>1, <1>3, <2>1, LockTaken DEF IInv, HoldsLock
    <2>3. target'[r] = t
      BY <1>3 DEF IInv, TypeOK
    <2>4. Knows(r)'
      BY <1>1, <1>3, <2>1, <2>3 DEF IInv, RequestInv, Exists, KeyTaken,
           TasksWithKey, Owned, Knows, Working, Inserting, Inserted, CheckedOut,
           Recorded, Cancelling, Decided, CancelPC
    <2>. QED
      BY <1>1, <2>1, <2>2, <2>4, QuietStep
  <1>. QED
    BY <1>2, <1>3 DEF InsertTask

LEMMA LoadTaskKeeps ==
  ASSUME IInv, NEW r \in Requests, LoadTask(r)
  PROVE  IInv'
  <1>. DEFINE t == call[r].task
  <1>1. /\ pc[r] = "load"
        /\ UNCHANGED <<tasks, journal, writer, worktrees, call, target, runs,
                       crashes>>
    BY DEF LoadTask, db
  <1>2. t \in TaskIds
    BY <1>1 DEF IInv, RequestInv, Knows, Cancelling, CancelPC
  <1>3. CASE Answer(r, "not_found", None) /\ UNCHANGED loaded
    BY <1>1, <1>3, RefusedKeeps DEF Codes, HoldsLock
  <1>4. CASE /\ Owned(t, call[r].user) /\ Answer(r, "conflict", t)
             /\ UNCHANGED loaded
    BY <1>1, <1>2, <1>4, RefusedKeeps DEF Codes, HoldsLock
  <1>5. CASE /\ Owned(t, call[r].user) /\ tasks[t].state \notin Terminal
             /\ loaded' = [loaded EXCEPT ![r] = tasks[t].state]
             /\ Goto(r, "update")
    <2>1. tasks[t].state = "QUEUED"
      BY <1>2, <1>5 DEF IInv, Shapes, Shape, Owned, Exists, Terminal
    <2>2. loaded' \in [Requests -> TaskState \union {Absent}]
          /\ loaded'[r] = "QUEUED" /\ \A q \in Requests \ {r} : loaded'[q] = loaded[q]
      BY <1>5, <2>1 DEF IInv, TypeOK, TaskState
    <2>3. /\ StepOf(r) /\ pc'[r] = "update"
          /\ Sound(r)' /\ answer'[r].code # "cancel_ok"
      BY <1>1, <1>5, <2>2, GoingOn DEF IInv, TypeOK, Labels, CancelPC
    <2>4. LockInv'
      BY <1>1, <2>3, LockKept DEF IInv, HoldsLock
    <2>5. Knows(r)'
      BY <1>1, <1>2, <1>5, <2>2, <2>3 DEF IInv, RequestInv, Owned, Exists, Knows, Working, Inserting, Inserted, CheckedOut,
           Recorded, Cancelling, Decided, CancelPC
    <2>. QED
      BY <1>1, <2>3, <2>4, <2>5, QuietStep
  <1>. QED
    BY <1>3, <1>4, <1>5 DEF LoadTask

LEMMA FlushCancelKeeps ==
  ASSUME IInv, NEW r \in Requests, FlushCancel(r)
  PROVE  IInv'
  <1>1. /\ pc[r] = "update" /\ writer = None /\ writer' = r /\ Goto(r, "journal")
        /\ UNCHANGED <<tasks, journal, worktrees, call, target, loaded, runs,
                       crashes>>
    BY DEF FlushCancel, db, session
  <1>2. /\ StepOf(r) /\ pc'[r] = "journal"
        /\ Sound(r)' /\ answer'[r].code # "cancel_ok"
    BY <1>1, GoingOn DEF IInv, TypeOK, Labels, CancelPC
  <1>3. LockInv'
    BY <1>1, <1>2, LockTaken DEF IInv, HoldsLock
  <1>4. Knows(r)'
    BY <1>1, <1>2 DEF IInv, RequestInv, Owned, Exists, Knows, Working, Inserting, Inserted, CheckedOut,
           Recorded, Cancelling, Decided, CancelPC
  <1>. QED
    BY <1>1, <1>2, <1>3, <1>4, QuietStep

LEMMA LockTimeoutKeeps ==
  ASSUME IInv, NEW r \in Requests, LockTimeout(r)
  PROVE  IInv'
  <1>1. /\ pc[r] \notin HoldsLock /\ Answer(r, "locked", None)
        /\ UNCHANGED <<tasks, journal, writer, worktrees, call, target, loaded,
                       runs, crashes>>
    BY DEF LockTimeout, WantsLock, HoldsLock, db, session
  <1>. QED
    BY <1>1, RefusedKeeps DEF Codes

(* Whoever else takes the lock, no request thinks that it has it. *)
LEMMA OutsiderKeeps ==
  ASSUME IInv, OutsiderBegins \/ OutsiderEnds
  PROVE  IInv'
  <1>1. /\ UNCHANGED <<tasks, journal, worktrees, pc, call, target, loaded, answer,
                       runs, crashes>>
        /\ writer \in {None, Outsider} /\ writer' \in {None, Outsider}
    BY DEF OutsiderBegins, OutsiderEnds, db, session
  <1>2. TypeOK' /\ LockInv'
    BY <1>1, ServiceAssumption DEF ServiceAssumption, IInv, TypeOK, LockInv
  <1>3. \A q \in Requests : Knows(q)' /\ Sound(q)'
    BY <1>1, OthersKept DEF IInv, RequestInv, AnswerInv
  <1>4. CancelledOnce'
    BY <1>1 DEF IInv, CancelledOnce, Answered
  <1>. QED
    BY <1>1, <1>2, <1>3, <1>4, TablesKept DEF IInv, RequestInv, AnswerInv
-----------------------------------------------------------------------------
(* The steps that write a table or the disk. *)

(* A row that exists keeps its owner and its key, a recorded worktree stays *)
(* recorded and a cancelled task cancelled.                                *)
RowsKept ==
    \A t \in TaskIds : tasks[t] # None =>
       /\ tasks'[t] # None
       /\ tasks'[t].user = tasks[t].user /\ tasks'[t].key = tasks[t].key
       /\ tasks[t].worktree_path => tasks'[t].worktree_path
       /\ tasks[t].state = "CANCELLED" => tasks'[t].state = "CANCELLED"

LEMMA OthersServed ==
  ASSUME TypeOK, NEW q \in Requests, Knows(q), Sound(q), RowsKept,
         worktrees \subseteq worktrees', pc[q] # "commit",
         UNCHANGED <<pc[q], call[q], target[q], loaded[q], answer[q]>>
  PROVE  Knows(q)' /\ Sound(q)'
  <1>1. Working(q)' /\ Inserting(q)' /\ Inserted(q)' /\ CheckedOut(q)'
    BY DEF TypeOK, RowsKept, Owned, Exists, Knows, Working, Inserting, Inserted,
           CheckedOut
  <1>2. Recorded(q)' /\ Cancelling(q)' /\ Decided(q)'
    BY DEF TypeOK, RowsKept, Owned, Exists, Knows, Inserted, Recorded, Cancelling,
           Decided, CancelPC
  <1>3. Sound(q)'
    BY DEF TypeOK, Answers, RowsKept, Owned, Exists, Sound
  <1>. QED
    BY <1>1, <1>2, <1>3 DEF Knows

(* what a step that writes a table has to show, request by request *)
LEMMA Assemble ==
  ASSUME IInv, NEW r \in Requests, StepOf(r), RowsKept,
         worktrees \subseteq worktrees', \A q \in Requests \ {r} : pc[q] # "commit",
         TypeOK', Shapes', LockInv', Knows(r)', Sound(r)', OneTaskPerKey',
         CancelledOnce', WorktreeInv'
  PROVE  IInv'
  <1>1. \A q \in Requests \ {r} : Knows(q)' /\ Sound(q)'
    BY OthersServed DEF IInv, RequestInv, AnswerInv, StepOf
  <1>. QED
    BY <1>1 DEF IInv, RequestInv, AnswerInv

LEMMA CommitTaskKeeps ==
  ASSUME IInv, NEW r \in Requests, CommitTask(r)
  PROVE  IInv'
  <1>. DEFINE t == target[r]
              row == [user |-> call[r].user, key |-> call[r].key,
                      state |-> "QUEUED", worktree_path |-> FALSE,
                      completed_at |-> FALSE]
  <1>1. /\ pc[r] = "commit" /\ writer' = None /\ Goto(r, "worktree")
        /\ UNCHANGED <<worktrees, call, target, loaded, runs, crashes>>
    BY DEF CommitTask, session
  <1>2. /\ tasks' = [tasks EXCEPT ![t] = row]
        /\ journal' = [journal EXCEPT ![t] = @ \union {Queued0}]
    BY DEF CommitTask, Queued0
  <1>3. /\ t \in TaskIds /\ tasks[t] = None
        /\ ~KeyTaken(call[r].user, call[r].key)
        /\ call[r] \in Call /\ call[r].user \in Users
    BY <1>1 DEF IInv, RequestInv, Knows, Inserting, Working
  <1>4. journal[t] = {} /\ t \notin worktrees /\ runs[t] = "none"
    BY <1>3 DEF IInv, Shapes, Shape
  <1>5. /\ row \in TaskRow /\ row.user = call[r].user /\ row.key = call[r].key
        /\ row.state = "QUEUED" /\ row.worktree_path = FALSE
    BY <1>3 DEF TaskRow, Call, TaskState
  <1>6. row # None
    BY <1>5, ServiceAssumption DEF ServiceAssumption
  <1>. HIDE DEF row
  <1>7. /\ tasks'[t] = row /\ \A s \in TaskIds \ {t} : tasks'[s] = tasks[s]
        /\ journal'[t] = {Queued0}
        /\ \A s \in TaskIds \ {t} : journal'[s] = journal[s]
    BY <1>2, <1>3, <1>4 DEF IInv, TypeOK
  <1>8. /\ StepOf(r) /\ pc'[r] = "worktree"
        /\ Sound(r)' /\ answer'[r].code # "cancel_ok"
    BY <1>1, GoingOn, ServiceAssumption DEF IInv, TypeOK, Labels, CreatePC
  <1>9. TypeOK'
    <2>1. tasks' \in [TaskIds -> TaskRow \union {None}]
      BY <1>2, <1>3, <1>5 DEF IInv, TypeOK
    <2>2. journal' \in [TaskIds -> SUBSET Transition]
      BY <1>2, <1>3, <1>4, JournalRows DEF IInv, TypeOK
    <2>. QED
      BY <1>1, <1>8, <2>1, <2>2 DEF IInv, TypeOK, StepOf
  <1>10. Shapes'
    BY <1>1, <1>5, <1>6, <1>7 DEF IInv, Shapes, Shape
  <1>11. LockInv'
    BY <1>1, <1>8, LockGiven DEF IInv, HoldsLock
  <1>12. \A q \in Requests \ {r} : pc[q] # "commit"
    BY <1>1, ServiceAssumption DEF ServiceAssumption, IInv, LockInv, HoldsLock
  <1>13. RowsKept
    BY <1>3, <1>7 DEF RowsKept
  <1>14. Knows(r)'
    BY <1>1, <1>3, <1>5, <1>6, <1>7, <1>8 DEF Owned, Exists, Knows, Working, Inserting, Inserted, CheckedOut,
           Recorded, Cancelling, Decided, CancelPC
  <1>15. OneTaskPerKey'
    BY <1>3, <1>5, <1>7
    DEF IInv, OneTaskPerKey, Exists, KeyTaken, TasksWithKey, Owned
  <1>16. CancelledOnce'
    BY <1>8 DEF IInv, CancelledOnce, Answered, StepOf
  <1>17. WorktreeInv'
    BY <1>1, <1>4, <1>5, <1>7
    DEF IInv, WorktreeInv, RunsInWorktree, RecordedWorktreeExists, Exists
  <1>. QED
    BY <1>1, <1>8, <1>9, <1>10, <1>11, <1>12, <1>13, <1>14, <1>15, <1>16, <1>17,
       Assemble

LEMMA CreateWorktreeKeeps ==
  ASSUME IInv, NEW r \in Requests, CreateWorktree(r)
  PROVE  IInv'
  <1>1. /\ pc[r] = "worktree"
        /\ UNCHANGED <<tasks, journal, writer, call, target, loaded, runs, crashes>>
    BY DEF CreateWorktree, db, session
  <1>2. CASE Answer(r, "git_error", None) /\ UNCHANGED worktrees
    BY <1>1, <1>2, RefusedKeeps DEF Codes, HoldsLock
  <1>3. CASE worktrees' = worktrees \union {target[r]} /\ Goto(r, "record")
    <2>1. /\ StepOf(r) /\ pc'[r] = "record"
          /\ Sound(r)' /\ answer'[r].code # "cancel_ok"
      BY <1>1, <1>3, GoingOn DEF IInv, TypeOK, Labels, CreatePC
    <2>2. LockInv'
      BY <1>1, <2>1, LockKept DEF IInv, HoldsLock
    <2>3. target[r] \in TaskIds /\ tasks[target[r]] # None
      BY <1>1 DEF IInv, RequestInv, Knows, Inserted, Owned, Exists
    <2>4. TypeOK'
      BY <1>1, <1>3, <2>1, <2>3 DEF IInv, TypeOK, StepOf
    <2>5. Shapes'
      BY <1>1, <1>3, <2>3 DEF IInv, Shapes, Shape
    <2>6. Knows(r)'
      BY <1>1, <1>3, <2>1 DEF IInv, RequestInv, Owned, Exists, Knows, Working, Inserting, Inserted, CheckedOut,
           Recorded, Cancelling, Decided, CancelPC
    <2>7. \A q \in Requests \ {r} : Knows(q)' /\ Sound(q)'
      BY <1>1, <1>3, <2>1 DEF IInv, StepOf, RequestInv, AnswerInv, Sound, Owned,
             Exists, KeyTaken, TasksWithKey, Knows, Working, Inserting, Inserted, CheckedOut,
           Recorded, Cancelling, Decided, CancelPC
    <2>8. OneTaskPerKey' /\ CancelledOnce'
      BY <1>1, <2>1 DEF IInv, OneTaskPerKey, Exists, CancelledOnce, Answered, StepOf
    <2>9. WorktreeInv'
      BY <1>1, <1>3
      DEF IInv, WorktreeInv, RunsInWorktree, RecordedWorktreeExists, Exists
    <2>. QED
      BY <2>1, <2>2, <2>4, <2>5, <2>6, <2>7, <2>8, <2>9
      DEF IInv, RequestInv, AnswerInv
  <1>. QED
    BY <1>2, <1>3 DEF CreateWorktree

LEMMA RecordWorktreeKeeps ==
  ASSUME IInv, NEW r \in Requests, RecordWorktree(r)
  PROVE  IInv'
  <1>. DEFINE t == target[r]
              row == [tasks[t] EXCEPT !.worktree_path = TRUE]
  <1>1. /\ pc[r] = "record" /\ writer = None /\ Goto(r, "accept")
        /\ UNCHANGED <<journal, writer, worktrees, call, target, loaded, runs,
                       crashes>>
    BY DEF RecordWorktree, session
  <1>2. t \in TaskIds /\ tasks[t] \in TaskRow /\ t \in worktrees
    BY <1>1 DEF IInv, TypeOK, RequestInv, Knows, Inserted, CheckedOut, Owned, Exists
  <1>3. tasks' = [tasks EXCEPT ![t] = row]
    BY <1>2, Zenon DEF IInv, TypeOK, RecordWorktree
  <1>4. /\ row \in TaskRow /\ row.user = tasks[t].user /\ row.key = tasks[t].key
        /\ row.state = tasks[t].state /\ row.completed_at = tasks[t].completed_at
        /\ row.worktree_path = TRUE
    BY <1>2 DEF TaskRow
  <1>5. row # None /\ tasks[t] # None
    BY <1>2, <1>4, ServiceAssumption DEF ServiceAssumption
  <1>. HIDE DEF row
  <1>6. tasks'[t] = row /\ \A s \in TaskIds \ {t} : tasks'[s] = tasks[s]
    BY <1>2, <1>3 DEF IInv, TypeOK
  <1>7. /\ StepOf(r) /\ pc'[r] = "accept"
        /\ Sound(r)' /\ answer'[r].code # "cancel_ok"
    BY <1>1, GoingOn DEF IInv, TypeOK, Labels, CreatePC
  <1>8. TypeOK'
    BY <1>1, <1>2, <1>3, <1>4, <1>7 DEF IInv, TypeOK, StepOf
  <1>9. Shapes'
    BY <1>1, <1>4, <1>5, <1>6 DEF IInv, Shapes, Shape
  <1>10. LockInv'
    BY <1>1, <1>7, LockKept DEF IInv, HoldsLock
  <1>11. \A q \in Requests \ {r} : pc[q] # "commit"
    BY <1>1, ServiceAssumption DEF ServiceAssumption, IInv, LockInv, HoldsLock
  <1>12. RowsKept
    BY <1>4, <1>5, <1>6 DEF RowsKept
  <1>13. Knows(r)'
    BY <1>1, <1>2, <1>4, <1>5, <1>6, <1>7
    DEF IInv, RequestInv, Owned, Exists, Knows, Working, Inserting, Inserted, CheckedOut,
           Recorded, Cancelling, Decided, CancelPC
  <1>14. OneTaskPerKey'
    BY <1>4, <1>5, <1>6 DEF IInv, OneTaskPerKey, Exists
  <1>15. CancelledOnce'
    BY <1>7 DEF IInv, CancelledOnce, Answered, StepOf
  <1>16. WorktreeInv'
    BY <1>1, <1>2, <1>4, <1>6
    DEF IInv, WorktreeInv, RunsInWorktree, RecordedWorktreeExists, Exists
  <1>. QED
    BY <1>1, <1>7, <1>8, <1>9, <1>10, <1>11, <1>12, <1>13, <1>14, <1>15, <1>16,
       Assemble

LEMMA AcceptKeeps ==
  ASSUME IInv, NEW r \in Requests, Accept(r)
  PROVE  IInv'
  <1>. DEFINE t == target[r]
  <1>1. /\ pc[r] = "accept" /\ Answer(r, "accepted", t)
        /\ runs' = [runs EXCEPT ![t] = "scheduled"]
        /\ UNCHANGED <<tasks, journal, writer, worktrees, call, target, loaded,
                       crashes>>
    BY DEF Accept, db, session
  <1>2. /\ t \in TaskIds /\ Owned(t, call[r].user) /\ tasks[t].key = call[r].key
        /\ t \in worktrees /\ tasks[t].worktree_path
    BY <1>1 DEF IInv, RequestInv, Knows, Inserted, CheckedOut, Recorded
  <1>3. StepOf(r) /\ pc'[r] = "done" /\ answer'[r].code = "accepted"
        /\ answer'[r].task = t
    BY <1>1, <1>2, AnswerType DEF IInv, TypeOK, StepOf, Codes
  <1>4. TypeOK'
    BY <1>1, <1>2, <1>3 DEF IInv, TypeOK, StepOf
  <1>5. Shapes'
    BY <1>1, <1>2 DEF IInv, TypeOK, Shapes, Shape, Owned, Exists
  <1>6. LockInv'
    BY <1>1, <1>3, LockKept DEF IInv, HoldsLock
  <1>7. Sound(r)'
    BY <1>1, <1>2, <1>3, ServiceAssumption
    DEF ServiceAssumption, Sound, Owned, Exists
  <1>8. \A q \in Requests \ {r} : Knows(q)' /\ Sound(q)'
    BY <1>1, <1>3, OthersKept DEF IInv, RequestInv, AnswerInv, StepOf
  <1>9. OneTaskPerKey' /\ CancelledOnce'
    BY <1>1, <1>3 DEF IInv, OneTaskPerKey, Exists, CancelledOnce, Answered, StepOf
  <1>10. WorktreeInv'
    BY <1>1, <1>2
    DEF IInv, TypeOK, WorktreeInv, RunsInWorktree, RecordedWorktreeExists, Exists
  <1>. QED
    BY <1>3, <1>4, <1>5, <1>6, <1>7, <1>8, <1>9, <1>10, KnowsDone
    DEF IInv, RequestInv, AnswerInv

LEMMA CommitCancelKeeps ==
  ASSUME IInv, NEW r \in Requests, CommitCancel(r)
  PROVE  IInv'
  <1>. DEFINE t == call[r].task
              row == [tasks[t] EXCEPT !.state = "CANCELLED",
                                      !.completed_at = TRUE]
  <1>1. /\ pc[r] = "journal" /\ writer' = None
        /\ UNCHANGED <<worktrees, call, target, loaded, runs, crashes>>
    BY DEF CommitCancel, session
  <1>2. /\ t \in TaskIds /\ Owned(t, call[r].user) /\ tasks[t] # None
        /\ loaded[r] = "QUEUED"
    BY <1>1 DEF IInv, RequestInv, Knows, Decided, Cancelling, CancelPC, Owned, Exists
  <1>3. ASSUME NEW code \in {"multiple_rows", "cancel_ok"}, Answer(r, code, t)
        PROVE  /\ StepOf(r) /\ pc'[r] = "done" /\ answer'[r].code = code
               /\ answer'[r].task = t /\ LockInv'
    <2>1. /\ StepOf(r) /\ pc'[r] = "done" /\ answer'[r].code = code
          /\ answer'[r].task = t
      BY <1>1, <1>2, <1>3, AnswerType DEF IInv, TypeOK, StepOf, Codes
    <2>. QED
      BY <1>1, <2>1, LockGiven DEF IInv, HoldsLock
  <1>4. CASE Answer(r, "multiple_rows", t) /\ UNCHANGED <<tasks, journal>>
    <2>1. /\ StepOf(r) /\ pc'[r] = "done" /\ answer'[r].code = "multiple_rows"
          /\ answer'[r].task = t /\ LockInv'
      BY <1>3, <1>4
    <2>2. Sound(r)'
      BY <1>1, <1>2, <1>4, <2>1 DEF Sound, Owned, Exists
    <2>. QED
      BY <1>1, <1>4, <2>1, <2>2, KnowsDone, QuietStep
  <1>5. ASSUME ~MultipleRows(journal[t]), Answer(r, "cancel_ok", t),
               tasks' = [tasks EXCEPT ![t] =
                           [tasks[t] EXCEPT
                              !.state = NextState(loaded[r]),
                              !.completed_at = tasks[t].completed_at
                                               \/ NextState(loaded[r]) = "CANCELLED"]],
               journal' = [journal EXCEPT ![t] = @ \union
                             {Row(LastStep(@) + 1, loaded[r], NextState(loaded[r]))}]
        PROVE  IInv'
    <2>1. NextState(loaded[r]) = "CANCELLED"
      BY <1>2 DEF NextState
    <2>2. journal[t] = {Queued0} /\ tasks[t].state = "QUEUED"
      <3>1. Queued0 # Noted1 /\ Queued0 # Cancelled1
        BY JournalRows
      <3>. QED
        BY <1>2, <1>5, <3>1 DEF IInv, Shapes, Shape, MultipleRows
    <2>3. LastStep({Queued0}) = 0
      BY DEF LastStep, Last, Queued0, Row
    <2>4. journal' = [journal EXCEPT ![t] = {Queued0, Cancelled1}]
      <3>1. Row(LastStep(journal[t]) + 1, loaded[r], NextState(loaded[r]))
              = Cancelled1
        BY <1>2, <2>1, <2>2, <2>3 DEF Cancelled1, NextState
      <3>2. journal[t] \union {Cancelled1} = {Queued0, Cancelled1}
        BY <2>2
      <3>. QED
        BY <1>5, <3>1, <3>2, Zenon
    <2>5. tasks[t] \in TaskRow
      BY <1>2 DEF IInv, TypeOK
    <2>6. tasks' = [tasks EXCEPT ![t] = row]
      BY <1>2, <1>5, <2>1, Zenon DEF NextState
    <2>7. /\ row \in TaskRow /\ row.user = tasks[t].user /\ row.key = tasks[t].key
          /\ row.state = "CANCELLED" /\ row.completed_at = TRUE
          /\ row.worktree_path = tasks[t].worktree_path
      BY <2>5 DEF TaskRow, TaskState, Terminal
    <2>8. row # None
      BY <2>7, ServiceAssumption DEF ServiceAssumption
    <2>. HIDE DEF row
    <2>9. /\ tasks'[t] = row /\ journal'[t] = {Queued0, Cancelled1}
          /\ \A s \in TaskIds \ {t} :
                tasks'[s] = tasks[s] /\ journal'[s] = journal[s]
      BY <1>2, <2>4, <2>6 DEF IInv, TypeOK
    <2>10. /\ StepOf(r) /\ pc'[r] = "done" /\ answer'[r].code = "cancel_ok"
           /\ answer'[r].task = t /\ LockInv'
      BY <1>3, <1>5
    <2>11. TypeOK'
      <3>1. journal' \in [TaskIds -> SUBSET Transition]
        BY <2>4, JournalRows DEF IInv, TypeOK
      <3>2. tasks' \in [TaskIds -> TaskRow \union {None}]
        BY <2>6, <2>7 DEF IInv, TypeOK
      <3>. QED
        BY <1>1, <2>10, <3>1, <3>2 DEF IInv, TypeOK, StepOf
    <2>12. Shapes'
      BY <1>1, <2>7, <2>8, <2>9 DEF IInv, Shapes, Shape
    <2>13. \A q \in Requests \ {r} : pc[q] # "commit"
      BY <1>1, ServiceAssumption DEF ServiceAssumption, IInv, LockInv, HoldsLock
    <2>14. RowsKept
      BY <2>7, <2>8, <2>9 DEF RowsKept
    <2>15. Sound(r)'
      BY <1>1, <1>2, <2>7, <2>8, <2>9, <2>10, ServiceAssumption
      DEF ServiceAssumption, Sound, Owned, Exists
    <2>16. OneTaskPerKey'
      BY <1>2, <2>7, <2>9 DEF IInv, OneTaskPerKey, Exists
    <2>17. CancelledOnce'
      <3>1. \A q \in Requests \ {r} :
               ~(answer[q].code = "cancel_ok" /\ answer[q].task = t)
        BY <2>2 DEF IInv, AnswerInv, Sound
      <3>. QED
        BY <2>10, <3>1 DEF IInv, CancelledOnce, Answered, StepOf
    <2>18. WorktreeInv'
      BY <1>1, <1>2, <2>7, <2>9
      DEF IInv, WorktreeInv, RunsInWorktree, RecordedWorktreeExists, Exists
    <2>. QED
      BY <1>1, <2>10, <2>11, <2>12, <2>13, <2>14, <2>15, <2>16, <2>17, <2>18,
         KnowsDone, Assemble
  <1>. QED
    BY <1>4, <1>5 DEF CommitCancel, db
-----------------------------------------------------------------------------
(* The orchestrator's runs. *)

LEMMA RunTaskKeeps ==
  ASSUME IInv, NEW t \in TaskIds, RunTask(t)
  PROVE  IInv'
  <1>1. /\ UNCHANGED <<tasks, writer, worktrees, pc, call, target, loaded, answer,
                       crashes>>
        /\ runs[t] \in {"scheduled", "loaded"}
        /\ \E stage \in {"loaded", "noted", "failed"} :
              runs' = [runs EXCEPT ![t] = stage]
    BY DEF RunTask, RunLoad, RunAppend, RunTimeout, db, session
  <1>2. \/ UNCHANGED journal
        \/ /\ \A e \in journal[t] : e.step # 1
           /\ journal' = [journal EXCEPT ![t] = @ \union {Noted1}]
    BY DEF RunTask, RunLoad, RunAppend, RunTimeout, db, RunStep, Noted1
  <1>3. \/ UNCHANGED journal
        \/ /\ journal[t] = {Queued0}
           /\ journal' = [journal EXCEPT ![t] = {Queued0, Noted1}]
    <2>1. Noted1.step = 1 /\ Cancelled1.step = 1
      BY JournalRows
    <2>2. journal[t] # {}
      BY <1>1 DEF IInv, Shapes, Shape
    <2>3. ASSUME \A e \in journal[t] : e.step # 1
          PROVE  journal[t] = {Queued0}
      BY <2>1, <2>2, <2>3 DEF IInv, Shapes, Shape
    <2>4. journal[t] = {Queued0} =>
            journal[t] \union {Noted1} = {Queued0, Noted1}
      OBVIOUS
    <2>. QED
      BY <1>2, <2>3, <2>4, Zenon
  <1>4. TypeOK'
    <2>1. journal' \in [TaskIds -> SUBSET Transition]
      BY <1>3, JournalRows DEF IInv, TypeOK
    <2>. QED
      BY <1>1, <2>1 DEF IInv, TypeOK
  <1>5. Shapes'
    <2>1. Shape(t)'
      <3>1. CASE UNCHANGED journal
        BY <1>1, <3>1 DEF IInv, TypeOK, Shapes, Shape
      <3>2. CASE /\ journal[t] = {Queued0}
                 /\ journal' = [journal EXCEPT ![t] = {Queued0, Noted1}]
        <4>1. Queued0 # Cancelled1
          BY JournalRows
        <4>2. tasks[t] # None /\ tasks[t].state = "QUEUED"
          BY <3>2, <4>1 DEF IInv, Shapes, Shape
        <4>. QED
          BY <1>1, <3>2, <4>2 DEF IInv, TypeOK, Shape
      <3>. QED
        BY <1>3, <3>1, <3>2
    <2>2. \A s \in TaskIds \ {t} : Shape(s)'
      BY <1>1, <1>3 DEF IInv, TypeOK, Shapes, Shape
    <2>. QED
      BY <2>1, <2>2 DEF Shapes
  <1>6. WorktreeInv'
    BY <1>1
    DEF IInv, TypeOK, WorktreeInv, RunsInWorktree, RecordedWorktreeExists, Exists
  <1>. QED
    BY <1>1, <1>4, <1>5, <1>6, RequestsKept DEF IInv

LEMMA CrashKeeps ==
  ASSUME IInv, Crash
  PROVE  IInv'
  <1>1. /\ UNCHANGED <<tasks, journal, worktrees, call, target, loaded>>
        /\ writer' = None /\ crashes < MaxCrashes /\ crashes' = crashes + 1
    BY DEF Crash, db, session
  <1>2. \A r \in Requests :
           /\ pc'[r] \in {"idle", "done"}
           /\ pc[r] = "done" => pc'[r] = "done"
           /\ \/ answer'[r] = answer[r] /\ pc'[r] = pc[r]
              \/ /\ answer'[r].code = "lost" /\ answer'[r].task = None
                 /\ pc'[r] = "done"
    BY DEF Crash
  <1>3. \A t \in TaskIds :
           runs'[t] = runs[t] \/ (runs'[t] = "lost" /\ runs[t] # "none")
    BY DEF Crash
  <1>4. TypeOK'
    <2>1. pc' \in [Requests -> Labels]
      BY DEF Crash, Labels
    <2>2. answer' \in [Requests -> Answers]
      <3>1. [code |-> "lost", task |-> None] \in Answers
        BY DEF Answers, Codes
      <3>. QED
        BY <3>1 DEF IInv, TypeOK, Crash
    <2>3. runs' \in [TaskIds -> {"none", "scheduled", "loaded", "noted", "failed",
                                "lost"}]
      BY DEF IInv, TypeOK, Crash
    <2>4. crashes' \in 0 .. MaxCrashes
      BY <1>1, ServiceAssumption DEF ServiceAssumption, IInv, TypeOK
    <2>. QED
      BY <1>1, <2>1, <2>2, <2>3, <2>4 DEF IInv, TypeOK
  <1>5. Shapes'
    BY <1>1, <1>3 DEF IInv, Shapes, Shape
  <1>6. LockInv'
    BY <1>1, <1>2, ServiceAssumption DEF ServiceAssumption, LockInv, HoldsLock
  <1>7. RequestInv'
    BY <1>2 DEF RequestInv, Knows, Working, Inserting, Inserted, CheckedOut,
           Recorded, Cancelling, Decided, CancelPC
  <1>8. AnswerInv'
    BY <1>1, <1>2 DEF IInv, AnswerInv, Sound, Owned, Exists
  <1>9. OneTaskPerKey' /\ CancelledOnce'
    BY <1>1, <1>2 DEF IInv, OneTaskPerKey, Exists, CancelledOnce, Answered
  <1>10. WorktreeInv'
    BY <1>1, <1>3
    DEF IInv, WorktreeInv, RunsInWorktree, RecordedWorktreeExists, Exists
  <1>. QED
    BY <1>4, <1>5, <1>6, <1>7, <1>8, <1>9, <1>10 DEF IInv

LEMMA NextKeeps == IInv /\ [Next]_vars => IInv'
  <1>. SUFFICES ASSUME IInv, [Next]_vars PROVE IInv'
    OBVIOUS
  <1>1. ASSUME NEW r \in Requests, Post(r) \/ PostCancel(r) \/ Handle(r)
        PROVE  IInv'
    BY <1>1, PostKeeps, PostCancelKeeps, FindExistingKeeps, FetchWorkspaceKeeps,
       InsertTaskKeeps, CommitTaskKeeps, CreateWorktreeKeeps, RecordWorktreeKeeps,
       AcceptKeeps, LoadTaskKeeps, FlushCancelKeeps, CommitCancelKeeps,
       LockTimeoutKeeps
    DEF Handle, CreateStep, CancelStep
  <1>2. CASE UNCHANGED vars
    BY <1>2, TablesKept, RequestsKept DEF IInv, TypeOK, vars, db, session
  <1>. QED
    BY <1>1, <1>2, RunTaskKeeps, OutsiderKeeps, CrashKeeps DEF Next, Serve

(* The inductive invariant: every reachable state of the service is one in *)
(* which each task is absent, queued or cancelled with exactly the journal *)
(* of its past, and each request knows what its label says.                *)
THEOREM Inductive == Spec => []IInv
  <1>. QED
    BY InitInv, NextKeeps, PTL DEF Spec

(* Every variable keeps its type (TypeOK), over all interleavings of       *)
(* requests, orchestrator runs and crashes.                                *)
THEOREM TypeCorrect == Spec => []TypeOK
  <1>1. IInv => TypeOK
    BY DEF IInv
  <1>. QED
    BY <1>1, Inductive, PTL
-----------------------------------------------------------------------------
(* The safety properties, each a consequence of the invariant. *)

(* No two tasks of a user carry one idempotency key, whichever POSTs raced: *)
(* the request that passed the constraint keeps the database until its     *)
(* commit.                                                                 *)
THEOREM KeysUnique == Spec => []OneTaskPerKey
  <1>1. IInv => OneTaskPerKey
    BY DEF IInv
  <1>. QED
    BY <1>1, Inductive, PTL

(* All 202s for one user and key name one task. *)
THEOREM RetriesAgree == Spec => []SameKeySameTask
  <1>1. IInv => SameKeySameTask
    <2>. SUFFICES ASSUME IInv, NEW q \in Requests, NEW r \in Requests,
                         Answered(q, "accepted"), Answered(r, "accepted"),
                         call[q].user = call[r].user, call[q].key = call[r].key,
                         call[q].key # None
                  PROVE  answer[q].task = answer[r].task
      BY DEF SameKeySameTask
    <2>1. Sound(q) /\ Sound(r) /\ OneTaskPerKey
      BY DEF IInv, AnswerInv
    <2>2. answer[q].task \in TaskIds /\ answer[r].task \in TaskIds
      BY <2>1 DEF IInv, TypeOK, Answers, Answered, Sound
    <2>. QED
      BY <2>1, <2>2 DEF Sound, Answered, Owned, OneTaskPerKey
  <1>. QED
    BY <1>1, Inductive, PTL

(* Whoever is told about a task owns it. *)
THEOREM TenantsIsolated == Spec => []OwnerScoped
  <1>1. IInv => OwnerScoped
    BY DEF IInv, AnswerInv, Sound, OwnerScoped
  <1>. QED
    BY <1>1, Inductive, PTL

(* A cancel is granted once, and what it granted stays so. *)
THEOREM CancelReliable == Spec => []CancelHolds
  <1>1. IInv => CancelledOnce
    BY DEF IInv
  <1>2. IInv => CancelledIsTerminal
    <2>. SUFFICES ASSUME IInv, NEW r \in Requests, Answered(r, "cancel_ok")
                  PROVE  /\ tasks[answer[r].task].state \in Terminal
                         /\ tasks[answer[r].task].completed_at
      BY DEF CancelledIsTerminal
    <2>1. Sound(r)
      BY DEF IInv, AnswerInv
    <2>2. answer[r].task \in TaskIds
      BY <2>1 DEF IInv, TypeOK, Answers, Answered, Sound
    <2>. QED
      BY <2>1, <2>2
      DEF IInv, Shapes, Shape, Sound, Answered, Owned, Exists, Terminal
  <1>3. IInv => CancelHolds
    BY <1>1, <1>2 DEF CancelHolds
  <1>. QED
    BY <1>3, Inductive, PTL

(* A run has its worktree, on disk and in the row. *)
THEOREM RunsIsolated == Spec => []WorktreeFirst
  <1>1. IInv => WorktreeFirst
    BY DEF IInv, WorktreeInv, WorktreeFirst
  <1>. QED
    BY <1>1, Inductive, PTL
-----------------------------------------------------------------------------
(* A task is scheduled at most once: its creator does it, and no other     *)
(* request has the same target.  So the row of a run is of a run that has  *)
(* ended well, in no other way can a queued task have two rows.            *)

Created == {"worktree", "record", "accept"}
Alone(r) ==
    pc[r] \in Created =>
       /\ runs[target[r]] = "none"
       /\ \A q \in Requests \ {r} : pc[q] \in Created => target[q] # target[r]
NotedBy(t) == Noted1 \in journal[t] => runs[t] = "noted"
ScheduleInv == (\A r \in Requests : Alone(r)) /\ (\A t \in TaskIds : NotedBy(t))

(* A step that commits no task and starts no run, and brings no request    *)
(* from elsewhere to the labels of a created task.                         *)
LEMMA ScheduleUndisturbed ==
  ASSUME ScheduleInv, IInv, UNCHANGED <<runs, target>>,
         \A r \in Requests : pc'[r] \in Created => pc[r] \in Created,
         \A t \in TaskIds : Noted1 \in journal'[t] => Noted1 \in journal[t]
  PROVE  ScheduleInv'
  BY DEF ScheduleInv, Alone, NotedBy

LEMMA ScheduleStep ==
  ASSUME IInv, ScheduleInv, NEW r \in Requests, Post(r) \/ PostCancel(r) \/ Handle(r)
  PROVE  ScheduleInv'
  <1>. USE DEF Created
  <1>1. CASE InsertTask(r)
    <2>1. runs' = runs /\ journal' = journal /\ pc[r] = "flush"
      BY <1>1 DEF InsertTask, db
    <2>2. pc'[r] \notin Created /\ \A q \in Requests \ {r} : pc'[q] = pc[q]
      BY <1>1 DEF InsertTask, IInv, TypeOK, Goto, Answer
    <2>3. \A q \in Requests \ {r} : target'[q] = target[q]
      BY <1>1 DEF InsertTask, IInv, TypeOK
    <2>. QED
      BY <2>1, <2>2, <2>3 DEF ScheduleInv, Alone, NotedBy, IInv, TypeOK
  <1>2. CASE CommitTask(r)
    <2>1. /\ target[r] \in TaskIds /\ tasks[target[r]] = None /\ pc[r] = "commit"
          /\ UNCHANGED <<runs, target>>
      BY <1>2 DEF CommitTask, session, IInv, RequestInv, Knows, Inserting
    <2>2. runs[target[r]] = "none" /\ journal[target[r]] = {}
      BY <2>1 DEF IInv, Shapes, Shape
    <2>3. \A q \in Requests : pc[q] \in Created => target[q] # target[r]
      BY <2>1 DEF IInv, RequestInv, Knows, Inserted, Owned, Exists
    <2>4. pc'[r] \in Created /\ \A q \in Requests \ {r} : pc'[q] = pc[q]
      BY <1>2 DEF CommitTask, IInv, TypeOK, Goto
    <2>5. Queued0 # Noted1
      BY JournalRows
    <2>6. \A t \in TaskIds : Noted1 \in journal'[t] => Noted1 \in journal[t]
      BY <1>2, <2>1, <2>5 DEF CommitTask, IInv, TypeOK, Queued0
    <2>. QED
      BY <2>1, <2>2, <2>3, <2>4, <2>6 DEF ScheduleInv, Alone, NotedBy
  <1>3. CASE Accept(r)
    <2>1. /\ target[r] \in TaskIds /\ pc[r] \in Created /\ pc'[r] \notin Created
          /\ UNCHANGED <<journal, target>> /\ \A q \in Requests \ {r} : pc'[q] = pc[q]
      BY <1>3 DEF Accept, session, db, Answer, IInv, TypeOK, RequestInv, Knows, Inserted
    <2>2. \A t \in TaskIds : t # target[r] => runs'[t] = runs[t]
      BY <1>3 DEF Accept, IInv, TypeOK
    <2>3. Noted1 \notin journal[target[r]]
      BY <2>1 DEF ScheduleInv, Alone, NotedBy
    <2>4. \A q \in Requests : pc[q] \in Created => target[q] \in TaskIds
      BY DEF IInv, RequestInv, Knows, Inserted
    <2>. QED
      BY <2>1, <2>2, <2>3, <2>4 DEF ScheduleInv, Alone, NotedBy
  <1>4. CASE CommitCancel(r)
    <2>1. /\ UNCHANGED <<runs, target>> /\ pc'[r] \notin Created
          /\ \A q \in Requests \ {r} : pc'[q] = pc[q]
      BY <1>4 DEF CommitCancel, session, Answer, IInv, TypeOK
    <2>2. Row(LastStep(journal[call[r].task]) + 1, loaded[r], NextState(loaded[r])) # Noted1
      BY DEF Row, Noted1, NextState
    <2>3. \A t \in TaskIds : Noted1 \in journal'[t] => Noted1 \in journal[t]
      <3>1. CASE UNCHANGED db
        BY <3>1 DEF db
      <3>2. CASE journal' = [journal EXCEPT ![call[r].task] = @ \union
                   {Row(LastStep(@) + 1, loaded[r], NextState(loaded[r]))}]
        BY <2>2, <3>2 DEF IInv, TypeOK
      <3>. QED
        BY <1>4, <3>1, <3>2, Zenon DEF CommitCancel
    <2>. QED
      BY <2>1, <2>3, ScheduleUndisturbed
  <1>5. CASE CreateWorktree(r) \/ RecordWorktree(r)
    <2>1. /\ UNCHANGED <<runs, target, journal>> /\ pc[r] \in Created
          /\ \A q \in Requests \ {r} : pc'[q] = pc[q]
      BY <1>5 DEF CreateWorktree, RecordWorktree, session, db, Goto, Answer, IInv, TypeOK
    <2>. QED
      BY <2>1, ScheduleUndisturbed
  <1>6. CASE \/ Post(r) \/ PostCancel(r) \/ FindExisting(r) \/ FetchWorkspace(r)
             \/ LoadTask(r) \/ FlushCancel(r) \/ LockTimeout(r)
    <2>1. /\ UNCHANGED <<runs, target, journal>> /\ pc'[r] \notin Created
          /\ \A q \in Requests \ {r} : pc'[q] = pc[q]
      BY <1>6 DEF Post, PostCancel, FindExisting, FetchWorkspace, LoadTask, FlushCancel,
           LockTimeout, Authenticated, session, db, Goto, Answer, IInv, TypeOK
    <2>. QED
      BY <2>1, ScheduleUndisturbed
  <1>. QED
    BY <1>1, <1>2, <1>3, <1>4, <1>5, <1>6 DEF Handle, CreateStep, CancelStep

LEMMA ScheduleKept == IInv /\ ScheduleInv /\ [Next]_vars => ScheduleInv'
  <1>. SUFFICES ASSUME IInv, ScheduleInv, [Next]_vars PROVE ScheduleInv'
    OBVIOUS
  <1>1. ASSUME NEW t \in TaskIds, RunTask(t) PROVE ScheduleInv'
    <2>1. UNCHANGED <<pc, target>> /\ runs[t] \in {"scheduled", "loaded"}
          /\ \A s \in TaskIds \ {t} : runs'[s] = runs[s] /\ journal'[s] = journal[s]
      BY <1>1 DEF RunTask, RunLoad, RunAppend, RunTimeout, session, db, IInv, TypeOK
    <2>2. Noted1 \notin journal[t]
      BY <2>1 DEF ScheduleInv, NotedBy
    <2>3. Noted1 \in journal'[t] => runs'[t] = "noted"
      BY <1>1, <2>2 DEF RunTask, RunLoad, RunAppend, RunTimeout, db, IInv, TypeOK
    <2>4. \A q \in Requests : pc[q] \in Created => target[q] # t
      BY <2>1 DEF ScheduleInv, Alone
    <2>5. \A q \in Requests : pc[q] \in Created => target[q] \in TaskIds
      BY DEF IInv, RequestInv, Knows, Inserted, Created
    <2>. QED
      BY <2>1, <2>3, <2>4, <2>5 DEF ScheduleInv, Alone, NotedBy
  <1>2. CASE OutsiderBegins \/ OutsiderEnds \/ UNCHANGED vars
    BY <1>2 DEF OutsiderBegins, OutsiderEnds, vars, session, db, ScheduleInv, Alone, NotedBy
  <1>3. CASE Crash
    <2>1. /\ UNCHANGED <<journal, target>>
          /\ \A r \in Requests : pc'[r] \notin Created
          /\ \A t \in TaskIds : runs[t] = "noted" => runs'[t] = "noted"
      BY <1>3 DEF Crash, session, db, Created
    <2>. QED
      BY <2>1 DEF ScheduleInv, Alone, NotedBy
  <1>. QED
    BY <1>1, <1>2, <1>3, ScheduleStep DEF Next, Serve

(* A queued task whose run never came to its end can be cancelled: its     *)
(* journal has the one row of its creation, whatever crashed or raced.     *)
THEOREM AbandonedCancellable == Spec => []AbandonedIsCancellable
  <1>1. Init => ScheduleInv
    BY DEF Init, ScheduleInv, Alone, NotedBy, Created
  <1>2. IInv /\ ScheduleInv => AbandonedIsCancellable
    <2>. SUFFICES ASSUME IInv, ScheduleInv, NEW t \in TaskIds,
                         StateOf(t) = "QUEUED", runs[t] # "noted"
                  PROVE  ~MultipleRows(journal[t])
      BY DEF AbandonedIsCancellable
    <2>1. Noted1 \notin journal[t]
      BY DEF ScheduleInv, NotedBy
    <2>2. journal[t] = {Queued0}
      BY <2>1 DEF IInv, Shapes, Shape, StateOf, Exists, Absent
    <2>. QED
      BY <2>2 DEF MultipleRows
  <1>. QED
    BY <1>1, <1>2, ScheduleKept, Inductive, PTL DEF Spec
-----------------------------------------------------------------------------
(* The service implements TaskLifecycle. *)

(* What a step does to the journal of the one task it touches. *)
Grows(t) ==
    /\ journal[t] \subseteq journal'[t]
    /\ tasks[t] # None => tasks'[t] # None
    /\ tasks[t] = None => journal'[t] \subseteq {Queued0}

Steady(t) == tasks'[t] = tasks[t] /\ journal'[t] = journal[t]

LEMMA OneGrows ==
  ASSUME IInv, [Next]_vars
  PROVE  \/ UNCHANGED <<tasks, journal>>
         \/ \E t \in TaskIds : Grows(t) /\ \A s \in TaskIds \ {t} : Steady(s)
  <1>1. ASSUME NEW r \in Requests, CommitTask(r)
        PROVE  \E t \in TaskIds : Grows(t) /\ \A s \in TaskIds \ {t} : Steady(s)
    <2>. DEFINE t == target[r]
    <2>1. t \in TaskIds /\ tasks[t] = None /\ journal[t] = {}
      BY <1>1 DEF CommitTask, IInv, RequestInv, Knows, Inserting, Shapes, Shape
    <2>2. Grows(t) /\ \A s \in TaskIds \ {t} : Steady(s)
      BY <1>1, <2>1 DEF CommitTask, IInv, TypeOK, Grows, Steady, Queued0
    <2>. QED
      BY <2>1, <2>2
  <1>2. ASSUME NEW r \in Requests, RecordWorktree(r)
        PROVE  \E t \in TaskIds : Grows(t) /\ \A s \in TaskIds \ {t} : Steady(s)
    <2>. DEFINE t == target[r]
                row == [tasks[t] EXCEPT !.worktree_path = TRUE]
    <2>1. t \in TaskIds /\ tasks[t] \in TaskRow /\ tasks[t] # None
      BY <1>2 DEF RecordWorktree, IInv, TypeOK, RequestInv, Knows, Inserted, Owned,
             Exists
    <2>2. tasks' = [tasks EXCEPT ![t] = row] /\ UNCHANGED journal
      BY <1>2, <2>1, Zenon DEF RecordWorktree, IInv, TypeOK
    <2>3. row \in TaskRow
      BY <2>1 DEF TaskRow
    <2>. HIDE DEF row
    <2>4. Grows(t) /\ \A s \in TaskIds \ {t} : Steady(s)
      BY <2>1, <2>2, <2>3, ServiceAssumption
      DEF ServiceAssumption, IInv, TypeOK, Grows, Steady
    <2>. QED
      BY <2>1, <2>4
  <1>3. ASSUME NEW r \in Requests, CommitCancel(r), ~UNCHANGED <<tasks, journal>>
        PROVE  \E t \in TaskIds : Grows(t) /\ \A s \in TaskIds \ {t} : Steady(s)
    <2>. DEFINE t == call[r].task
                row == [tasks[t] EXCEPT
                          !.state = NextState(loaded[r]),
                          !.completed_at = tasks[t].completed_at
                                           \/ NextState(loaded[r]) = "CANCELLED"]
                new == Row(LastStep(journal[t]) + 1, loaded[r], NextState(loaded[r]))
    <2>1. t \in TaskIds /\ tasks[t] \in TaskRow /\ tasks[t] # None
      BY <1>3 DEF CommitCancel, IInv, TypeOK, RequestInv, Knows, Cancelling, Decided,
             CancelPC, Owned, Exists
    <2>2. /\ tasks' = [tasks EXCEPT ![t] = row]
          /\ journal' = [journal EXCEPT ![t] = @ \union {new}]
      <3>1. ~UNCHANGED db
        BY <1>3 DEF db
      <3>. QED
        BY <1>3, <3>1, Zenon DEF CommitCancel
    <2>3. row \in TaskRow
      BY <2>1 DEF TaskRow, NextState, TaskState, Terminal
    <2>. HIDE DEF row, new
    <2>4. Grows(t) /\ \A s \in TaskIds \ {t} : Steady(s)
      BY <2>1, <2>2, <2>3, ServiceAssumption
      DEF ServiceAssumption, IInv, TypeOK, Grows, Steady
    <2>. QED
      BY <2>1, <2>4
  <1>4. ASSUME NEW t \in TaskIds, RunTask(t)
        PROVE  \E u \in TaskIds : Grows(u) /\ \A s \in TaskIds \ {u} : Steady(s)
    <2>1. UNCHANGED tasks /\ runs[t] # "none"
      BY <1>4 DEF RunTask, RunLoad, RunAppend, RunTimeout, db
    <2>2. tasks[t] # None
      BY <2>1 DEF IInv, Shapes, Shape
    <2>3. \/ UNCHANGED journal
          \/ journal' = [journal EXCEPT ![t] = @ \union {Noted1}]
      BY <1>4 DEF RunTask, RunLoad, RunAppend, RunTimeout, db, RunStep, Noted1
    <2>. QED
      BY <2>1, <2>2, <2>3 DEF IInv, TypeOK, Grows, Steady
  <1>5. ASSUME NEW r \in Requests, Post(r) \/ PostCancel(r) \/ Handle(r),
               ~CommitTask(r), ~RecordWorktree(r), ~CommitCancel(r)
        PROVE  UNCHANGED <<tasks, journal>>
    BY <1>5 DEF Post, PostCancel, Handle, CreateStep, CancelStep, FindExisting,
           FetchWorkspace, InsertTask, CreateWorktree, Accept, LoadTask, FlushCancel,
           LockTimeout, db
  <1>6. CASE OutsiderBegins \/ OutsiderEnds \/ Crash \/ UNCHANGED vars
    BY <1>6 DEF OutsiderBegins, OutsiderEnds, Crash, vars, db
  <1>. QED
    BY <1>1, <1>2, <1>3, <1>4, <1>5, <1>6 DEF Next, Serve

(* Every step of the service is a step of the abstract task, or none. *)
LEMMA StepImplements ==
  ASSUME IInv, IInv', [Next]_vars
  PROVE  [Lifecycle!Next]_(Lifecycle!lvars)
  <1>1. CASE UNCHANGED <<tasks, journal>>
    BY <1>1 DEF Lifecycle!lvars, StateOf, Exists
  <1>2. ASSUME NEW t \in TaskIds, Grows(t), \A s \in TaskIds \ {t} : Steady(s)
        PROVE  [Lifecycle!Next]_(Lifecycle!lvars)
    <2>. DEFINE status == [s \in TaskIds |-> StateOf(s)]
    <2>1. Shape(t) /\ Shape(t)'
      BY DEF IInv, Shapes
    <2>2. status' = [status EXCEPT ![t] = StateOf(t)']
      BY <1>2 DEF Steady, StateOf, Exists
    <2>3. journal' = [journal EXCEPT ![t] = journal'[t]]
      BY <1>2 DEF IInv, TypeOK, Steady
    <2>4. Queued0 # Noted1 /\ Queued0 # Cancelled1 /\ Noted1 # Cancelled1
      BY JournalRows
    <2>5. CASE StateOf(t)' = StateOf(t) /\ journal'[t] = journal[t]
      <3>1. status' = status /\ journal' = journal
        BY <2>2, <2>3, <2>5 DEF IInv, TypeOK
      <3>. QED
        BY <3>1 DEF Lifecycle!lvars
    <2>6. CASE /\ StateOf(t) = Absent /\ journal[t] = {}
               /\ StateOf(t)' = "QUEUED" /\ journal'[t] = {Queued0}
      <3>1. Lifecycle!Create(t)
        BY <2>2, <2>3, <2>6 DEF Lifecycle!Create, Queued0, Row, Absent, Lifecycle!Row,
             Lifecycle!Absent
      <3>. QED
        BY <3>1 DEF Lifecycle!Next
    <2>7. CASE /\ StateOf(t) = "QUEUED" /\ journal[t] = {Queued0}
               /\ StateOf(t)' \in {"QUEUED", "CANCELLED"}
               /\ journal'[t] = {Queued0, Row(1, "QUEUED", StateOf(t)')}
      <3>1. Last(journal[t], Queued0) /\ Queued0.step + 1 = 1
        BY <2>7, JournalRows DEF Last
      <3>2. journal[t] \union {Row(1, "QUEUED", StateOf(t)')} = journal'[t]
        BY <2>7
      <3>3. Lifecycle!Advance(t, StateOf(t)')
        BY <2>2, <2>3, <2>7, <3>1, <3>2
        DEF Lifecycle!Advance, Lifecycle!Terminal, Lifecycle!Absent, Lifecycle!Last,
            Lifecycle!Row, Last, Row
      <3>. QED
        BY <2>7, <3>3 DEF Lifecycle!Next, Lifecycle!TaskState, Lifecycle!Terminal
    <2>. QED
      <3>1. CASE tasks[t] = None
        BY <1>2, <2>1, <2>4, <2>5, <2>6, <3>1
        DEF Grows, Shape, StateOf, Exists
      <3>2. CASE tasks[t] # None /\ tasks[t].state = "CANCELLED"
        BY <1>2, <2>1, <2>4, <2>5, <3>2 DEF Grows, Shape, StateOf, Exists
      <3>3. CASE tasks[t] # None /\ tasks[t].state = "QUEUED"
        <4>1. CASE journal[t] = {Queued0, Noted1}
          BY <1>2, <2>1, <2>4, <2>5, <3>3, <4>1 DEF Grows, Shape, StateOf, Exists
        <4>2. CASE journal[t] = {Queued0} /\ journal'[t] # {Queued0}
          BY <1>2, <2>1, <2>4, <2>7, <3>3, <4>2
          DEF Grows, Shape, StateOf, Exists, Noted1, Cancelled1
        <4>3. CASE journal[t] = {Queued0} /\ journal'[t] = {Queued0}
          BY <1>2, <2>1, <2>4, <2>5, <3>3, <4>3 DEF Grows, Shape, StateOf, Exists
        <4>. QED
          BY <2>1, <3>3, <4>1, <4>2, <4>3 DEF Shape
      <3>. QED
        BY <2>1, <3>1, <3>2, <3>3 DEF Shape
  <1>. QED
    BY <1>1, <1>2, OneGrows

(* The tables of the service are a TaskLifecycle: it creates each task once *)
(* and advances it with one row per transition, out of no terminal state.  *)
THEOREM Implements == Spec => LifecycleSpec
  <1>1. Init => Lifecycle!Init
    BY DEF Init, Lifecycle!Init, StateOf, Exists, Absent, Lifecycle!Absent
  <1>2. IInv /\ IInv' /\ [Next]_vars => [Lifecycle!Next]_(Lifecycle!lvars)
    BY StepImplements
  <1>. QED
    BY <1>1, <1>2, Inductive, PTL DEF Spec, LifecycleSpec, Lifecycle!Spec

(* Replaying a journal yields the task: its rows are numbered without a gap *)
(* or a double and chain to the state in the tasks table.                  *)
THEOREM JournalChains == Spec => []ChainedJournal
  <1>1. IInv => ChainedJournal
    <2>. SUFFICES ASSUME IInv, NEW t \in TaskIds
                  PROVE  /\ StateOf(t) = Absent <=> journal[t] = {}
                         /\ \A d, e \in journal[t] : d.step = e.step => d = e
                         /\ \A e \in journal[t] :
                               \/ e.step = 0 /\ e.from = Absent
                               \/ \E d \in journal[t] :
                                     d.step + 1 = e.step /\ d.to = e.from
                         /\ \A e \in journal[t] :
                               Last(journal[t], e) => e.to = StateOf(t)
      BY DEF ChainedJournal, Lifecycle!ChainedJournal, Lifecycle!Last, Last,
             Lifecycle!Absent, Absent
    <2>1. CASE tasks[t] = None /\ journal[t] = {}
      BY <2>1 DEF StateOf, Exists
    <2>2. CASE tasks[t] # None /\ tasks[t].state = "QUEUED" /\ journal[t] = {Queued0}
      BY <2>2, JournalRows DEF StateOf, Exists, Absent
    <2>3. CASE /\ tasks[t] # None /\ tasks[t].state = "QUEUED"
               /\ journal[t] = {Queued0, Noted1}
      BY <2>3, JournalRows DEF StateOf, Exists, Absent, Last
    <2>4. CASE /\ tasks[t] # None /\ tasks[t].state = "CANCELLED"
               /\ journal[t] = {Queued0, Cancelled1}
      BY <2>4, JournalRows DEF StateOf, Exists, Absent, Last
    <2>. QED
      BY <2>1, <2>2, <2>3, <2>4 DEF IInv, Shapes, Shape
  <1>. QED
    BY <1>1, Inductive, PTL

(* No step takes a row from a journal or moves a finished task. *)
LEMMA StepCloses ==
  ASSUME IInv, IInv', [Next]_vars, NEW t \in TaskIds
  PROVE  Lifecycle!ClosedTask(t)
  <1>1. \/ UNCHANGED <<tasks[t], journal[t]>>
        \/ Grows(t)
    BY OneGrows DEF Steady
  <1>2. CASE UNCHANGED <<tasks[t], journal[t]>>
    BY <1>2 DEF Lifecycle!ClosedTask, StateOf, Exists
  <1>3. CASE Grows(t)
    <2>1. StateOf(t) \in Lifecycle!Terminal =>
             StateOf(t)' = StateOf(t) /\ journal'[t] = journal[t]
      <3>. SUFFICES ASSUME StateOf(t) \in Lifecycle!Terminal
                    PROVE  StateOf(t)' = StateOf(t) /\ journal'[t] = journal[t]
        OBVIOUS
      <3>1. /\ tasks[t] # None /\ tasks[t].state = "CANCELLED"
            /\ journal[t] = {Queued0, Cancelled1}
        BY DEF IInv, Shapes, Shape, StateOf, Exists, Absent, Lifecycle!Terminal
      <3>2. Shape(t)' /\ Queued0 # Noted1 /\ Queued0 # Cancelled1
            /\ Noted1 # Cancelled1
        BY JournalRows DEF IInv, Shapes
      <3>. QED
        BY <1>3, <3>1, <3>2 DEF Grows, Shape, StateOf, Exists
    <2>. QED
      BY <1>3, <2>1 DEF Lifecycle!ClosedTask, Grows
  <1>. QED
    BY <1>1, <1>2, <1>3

(* A cancelled task stays cancelled and its journal closed, and a journal  *)
(* never loses a row, whichever request or run comes late.                 *)
THEOREM TerminalForever == Spec => TerminalIsFinal
  <1>1. IInv /\ IInv' /\ [Next]_vars =>
           [\A t \in TaskIds : Lifecycle!ClosedTask(t)]_(Lifecycle!lvars)
    BY StepCloses
  <1>. QED
    BY <1>1, Inductive, PTL DEF Spec, TerminalIsFinal, Lifecycle!TerminalIsFinal
=============================================================================
