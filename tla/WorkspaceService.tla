------------------------ MODULE WorkspaceService ------------------------
(***************************************************************************)
(* The workspace half of the API (app/api/workspaces.py): POST             *)
(* /v1/workspaces, which inserts a row, clones the source repository while *)
(* the transaction is open (init_canonical_repo), and commits; and GET     *)
(* /v1/workspaces/{id}.  The database is the one of TaskService: a flush   *)
(* takes the write lock, a writer that waits too long gives up.            *)
(*                                                                         *)
(* init_canonical_repo blocks the event loop; it is one action, whose      *)
(* outcomes are those of its git commands, and a crash may cut it.         *)
(*                                                                         *)
(* A definition marked "mutant" is a plausible bug in the one that follows *)
(* it, there to show that a property would notice; Next uses none of them. *)
(***************************************************************************)
EXTENDS Naturals, FiniteSets

CONSTANTS
    Users,         \* rows of the users table
    Callers,       \* bearers of an API key; those not in Users match no hash
    Names,         \* workspace names
    Branches,      \* branch names
    WorkspaceIds,  \* ids new_id("ws") may draw
    Requests,      \* HTTP requests, each used once
    None,
    Partial,       \* a clone that was cut short, or lacks its configuration
    MaxCrashes     \* bound on the crashes of the process

WorkspaceRow == [user : Users, name : Names, branch : Branches]

ASSUME WorkspaceAssumption ==
    /\ Users \subseteq Callers
    /\ Partial \notin Branches /\ Partial # None
    /\ None \notin Branches /\ None \notin WorkspaceRow
    /\ None \notin Requests /\ None \notin WorkspaceIds
    /\ MaxCrashes \in Nat

VARIABLES
    rows,     \* rows[w]: the committed row of w, or None
    repos,    \* repos[w]: the branch of the clone under repos_dir, or Partial
    writer,   \* the request whose open transaction holds the write lock
    pc,       \* where each request is
    call,     \* what it asks for
    target,   \* create: the id of the row it inserted
    answer,   \* what its client was told
    crashes

vars == <<rows, repos, writer, pc, call, target, answer, crashes>>

(* the row r asks for *)
Asked(r) == [user |-> call[r].user, name |-> call[r].name, branch |-> call[r].branch]

Labels == {"idle", "flush", "clone", "commit", "refresh", "fetch", "done"}
HoldsLock == {"clone", "commit"}
Codes == {"none", "created", "found", "bad_request", "conflict", "failed",
          "not_found", "unauthorized", "lost"}
Call == [op : {"create", "get"}, user : Callers, name : Names \union {None},
         branch : Branches \union {None}, id : WorkspaceIds \union {None}]

Init ==
    /\ rows = [w \in WorkspaceIds |-> None]
    /\ repos = [w \in WorkspaceIds |-> None]
    /\ writer = None
    /\ pc = [r \in Requests |-> "idle"]
    /\ call = [r \in Requests |-> None]
    /\ target = [r \in Requests |-> None]
    /\ answer = [r \in Requests |-> "none"]
    /\ crashes = 0

Goto(r, label) == pc' = [pc EXCEPT ![r] = label] /\ UNCHANGED answer
Answer(r, code) ==
    /\ pc' = [pc EXCEPT ![r] = "done"]
    /\ answer' = [answer EXCEPT ![r] = code]

(* await db.rollback(), then the HTTPException *)
RollbackLeaks(r, code) == Answer(r, code) /\ UNCHANGED writer    \* mutant
Rollback(r, code) == Answer(r, code) /\ writer' = None
-----------------------------------------------------------------------------
(* POST /v1/workspaces *)

Creates == {r \in Requests : pc[r] # "idle" /\ call[r].op = "create"}

(* Authentication, then the check of a local path, before any write: what  *)
(* the source is shows here and in Clone.  The bound on the POSTs is the   *)
(* number of ids: new_id never runs out.                                   *)
Post(r) ==
    /\ pc[r] = "idle"
    /\ Cardinality(Creates) < Cardinality(WorkspaceIds)
    /\ \E u \in Callers, n \in Names, b \in Branches :
          /\ call' = [call EXCEPT ![r] = [op |-> "create", user |-> u, name |-> n,
                                          branch |-> b, id |-> None]]
          /\ \/ u \notin Users /\ Answer(r, "unauthorized")
             \/ u \in Users /\ Answer(r, "bad_request")
             \/ u \in Users /\ Goto(r, "flush")
    /\ UNCHANGED <<rows, repos, writer, target, crashes>>

(* uq_workspace_user_name *)
NameTaken(u, n) ==
    \E w \in WorkspaceIds :
       rows[w] # None /\ rows[w].user = u /\ rows[w].name = n

Unused(w) == \A q \in Requests : target[q] # w

(* db.add(ws); flush: the INSERT, its IntegrityError, or a fresh id *)
Insert(r) ==
    /\ pc[r] = "flush" /\ writer = None
    /\ \/ /\ NameTaken(call[r].user, call[r].name)
          /\ Rollback(r, "conflict")
          /\ UNCHANGED target
       \/ /\ ~NameTaken(call[r].user, call[r].name)
          /\ \E w \in WorkspaceIds : Unused(w) /\ target' = [target EXCEPT ![r] = w]
          /\ writer' = r
          /\ Goto(r, "clone")
    /\ UNCHANGED <<rows, repos, call, crashes>>

(* mutant: every database error is taken for the constraint's *)
LockTimeoutConflict(r) ==
    /\ pc[r] = "flush" /\ writer # None
    /\ Answer(r, "conflict")
    /\ UNCHANGED <<rows, repos, writer, call, target, crashes>>

(* OperationalError, under "except Exception" *)
LockTimeout(r) ==
    /\ pc[r] = "flush" /\ writer # None
    /\ Answer(r, "failed")
    /\ UNCHANGED <<rows, repos, writer, call, target, crashes>>

(* mutant: the exit status of the commands after the clone is not looked at *)
CloneUnchecked(r) ==
    /\ pc[r] = "clone"
    /\ repos' \in {[repos EXCEPT ![target[r]] = b] : b \in {call[r].branch, Partial}}
    /\ Goto(r, "commit")
    /\ UNCHANGED <<rows, writer, call, target, crashes>>

(* clone, two configs, and the source's branch renamed to the default one *)
Clone(r) ==
    /\ pc[r] = "clone"
    /\ \/ (* every command succeeds *)
          /\ repos' = [repos EXCEPT ![target[r]] = call[r].branch]
          /\ Goto(r, "commit")
          /\ UNCHANGED writer
       \/ (* git clone fails and clears up after itself: GitError *)
          /\ Rollback(r, "bad_request")
          /\ UNCHANGED repos
       \/ (* a later one fails, as the rename does on a source with a detached *)
          (* HEAD (GitError), or any is killed by its timeout                 *)
          /\ repos' = [repos EXCEPT ![target[r]] = Partial]
          /\ \E code \in {"bad_request", "failed"} : Rollback(r, code)
    /\ UNCHANGED <<rows, call, target, crashes>>

(* mutant: the body's default_branch is not copied *)
CommitBranchless(r) ==
    /\ pc[r] = "commit"
    /\ rows' = [rows EXCEPT ![target[r]] = [Asked(r) EXCEPT !.branch = None]]
    /\ writer' = None
    /\ Goto(r, "refresh")
    /\ UNCHANGED <<repos, call, target, crashes>>

(* ws.repo_path = ...; commit.  A commit that fails is rolled back. *)
Commit(r) ==
    /\ pc[r] = "commit"
    /\ \/ /\ rows' = [rows EXCEPT ![target[r]] = Asked(r)]
          /\ writer' = None
          /\ Goto(r, "refresh")
       \/ Rollback(r, "failed") /\ UNCHANGED rows
    /\ UNCHANGED <<repos, call, target, crashes>>

(* db.refresh(ws), then 201; a SELECT that fails, within the same try, is a *)
(* 500 like any other error, and there is nothing left to roll back.        *)
Refresh(r) ==
    /\ pc[r] = "refresh"
    /\ \E code \in {"created", "failed"} : Answer(r, code)
    /\ UNCHANGED <<rows, repos, writer, call, target, crashes>>
-----------------------------------------------------------------------------
(* GET /v1/workspaces/{workspace_id} *)

PostGet(r) ==
    /\ pc[r] = "idle"
    /\ \E u \in Callers, w \in WorkspaceIds :
          /\ call' = [call EXCEPT ![r] = [op |-> "get", user |-> u, name |-> None,
                                          branch |-> None, id |-> w]]
          /\ IF u \in Users THEN Goto(r, "fetch") ELSE Answer(r, "unauthorized")
    /\ UNCHANGED <<rows, repos, writer, target, crashes>>

Owned(w, u) == rows[w] # None /\ rows[w].user = u

(* get_owned_workspace *)
Fetch(r) ==
    /\ pc[r] = "fetch"
    /\ IF Owned(call[r].id, call[r].user)
       THEN Answer(r, "found") ELSE Answer(r, "not_found")
    /\ UNCHANGED <<rows, repos, writer, call, target, crashes>>
-----------------------------------------------------------------------------
(* The process dies and is restarted; a clone it was making stays half way. *)
Crash ==
    /\ crashes < MaxCrashes
    /\ crashes' = crashes + 1
    /\ repos' \in {repos} \union {[repos EXCEPT ![target[r]] = Partial] :
                                     r \in {q \in Requests : pc[q] = "clone"}}
    /\ pc' = [r \in Requests |-> IF pc[r] = "idle" THEN "idle" ELSE "done"]
    /\ answer' = [r \in Requests |->
                     IF pc[r] \in {"idle", "done"} THEN answer[r] ELSE "lost"]
    /\ writer' = None
    /\ UNCHANGED <<rows, call, target>>

Handle(r) == Insert(r) \/ LockTimeout(r) \/ Clone(r) \/ Commit(r) \/ Refresh(r) \/ Fetch(r)

Next == (\E r \in Requests : Post(r) \/ PostGet(r) \/ Handle(r)) \/ Crash

(* The event loop runs every coroutine that can run; each git command ends *)
(* within its own timeout.                                                 *)
Fairness == \A r \in Requests : WF_vars(Handle(r))

Spec == Init /\ [][Next]_vars /\ Fairness
-----------------------------------------------------------------------------
(* Every variable holds values of its kind. *)
TypeOK ==
    /\ rows \in [WorkspaceIds -> WorkspaceRow \union {None}]
    /\ repos \in [WorkspaceIds -> Branches \union {None, Partial}]
    /\ writer \in Requests \union {None}
    /\ pc \in [Requests -> Labels]
    /\ call \in [Requests -> Call \union {None}]
    /\ target \in [Requests -> WorkspaceIds \union {None}]
    /\ answer \in [Requests -> Codes]
    /\ crashes \in 0..MaxCrashes

(* A workspace that anyone can see has a whole clone on disk, on the branch *)
(* its row names, which is what create_worktree will ask of it: a clone     *)
(* that failed, was killed, or was cut by a crash never has a row.          *)
CommittedIsReady ==
    \A w \in WorkspaceIds : rows[w] # None => repos[w] = rows[w].branch

(* A user never has two workspaces of one name, however many requests for  *)
(* it run at once (uq_workspace_user_name).                                *)
OneNamePerUser ==
    \A v, w \in WorkspaceIds :
       /\ rows[v] # None /\ rows[w] # None
       /\ rows[v].user = rows[w].user /\ rows[v].name = rows[w].name
       => v = w

(* What a client is told stays so.  201: the workspace is there as it was   *)
(* asked for.  200: it is there and the client's own.  409: the client has  *)
(* a workspace of that name, it is not another user's and not a lock        *)
(* timeout.  400 and 409: what the request inserted is not there, so that   *)
(* it can be repeated.  500, which refresh may answer after the commit, and *)
(* a connection cut by a crash: the workspace is there whole, or not at all.*)
TrueAnswer(r) ==
    /\ answer[r] = "created" => rows[target[r]] = Asked(r)
    /\ answer[r] = "found" => Owned(call[r].id, call[r].user)
    /\ answer[r] = "conflict" => \E w \in WorkspaceIds : /\ Owned(w, call[r].user)
                                                         /\ rows[w].name = call[r].name
    /\ target[r] # None =>
          /\ answer[r] \in {"bad_request", "conflict"} => rows[target[r]] = None
          /\ answer[r] \in {"failed", "lost"} => rows[target[r]] \in {None, Asked(r)}
(* The constraint has seen to it that a 201 names the only workspace of its *)
(* name that the client has, also when two requests for it ran at once.     *)
OnlyOfItsName(r) ==
    answer[r] = "created" =>
        \A w \in WorkspaceIds :
           Owned(w, call[r].user) /\ rows[w].name = call[r].name => w = target[r]
AnswersAreTrue == \A r \in Requests : TrueAnswer(r) /\ OnlyOfItsName(r)

(* Every request is answered, or cut by a crash, and every clone, whole or  *)
(* failed, gives the write lock back: it delays others and never blocks     *)
(* them for good.                                                           *)
RequestsEnd ==
    /\ \A r \in Requests : pc[r] \notin {"idle", "done"} ~> pc[r] = "done"
    /\ writer # None ~> writer = None
=============================================================================
