---------------------------- MODULE GitWorkspace ----------------------------
(***************************************************************************)
(* The git side of one workspace (app/retrieval/workspace.py): the         *)
(* worktrees of its tasks, create_worktree and remove_worktree, and the    *)
(* merge of a task's branch into the base branch, merge_into_base.         *)
(*                                                                         *)
(* Each function is a sequence of git commands; calls for different tasks  *)
(* run side by side, in threads or processes, and a task makes one call at *)
(* a time.  A command may exceed its 60 seconds, whereupon subprocess      *)
(* kills it and TimeoutExpired, which is no GitError, leaves the function; *)
(* or the process dies with all of them.  What git leaves behind then is   *)
(* modelled from its behaviour: a stale index.lock, an unfinished merge, a *)
(* worktree that stays locked as "initializing".                           *)
(*                                                                         *)
(* Content is abstracted to who wrote it: a branch, like the base, is the  *)
(* set of the tasks whose work it contains.                                *)
(***************************************************************************)
EXTENDS Naturals

CONSTANTS
    Tasks,
    Clashes,    \* the pairs of tasks whose edits touch the same lines
    None,       \* no branch, nobody
    MaxKills    \* bound on the timeouts of git commands and on crashes

ASSUME GitAssumption ==
    /\ Clashes \subseteq {{s, t} : s, t \in Tasks}
    /\ None \notin Tasks /\ \A S \in SUBSET Tasks : None # S
    /\ MaxKills \in Nat

VARIABLES
    base,       \* the work that the base branch contains
    branch,     \* branch[t]: the work that task/<t> contains, or None
    wdir,       \* the worktree's directory: "none", "partial" or "whole"
    meta,       \* its entry in .git/worktrees: "none", "initializing", "listed"
    midmerge,   \* the task whose conflicting merge is in the canonical checkout
    indexlock,  \* .git/index.lock exists
    lock,       \* who holds the FileLock
    pc,         \* where the call of each task is
    outcome,    \* how its last call ended
    files,      \* the conflicting edits that its last merge found
    knew,       \* history: the work its own was made on top of
    kills

trees == <<branch, wdir, meta>>
repo == <<base, midmerge, indexlock>>
vars == <<base, branch, wdir, meta, midmerge, indexlock, lock, pc, outcome,
          files, knew, kills>>

CreatePC == {"register", "populate"}
RemovePC == {"remove_dir", "remove_meta", "remove_branch"}
(* the labels of a call inside the `with` block of the FileLock *)
LockedPC == {"checkout", "merge", "merging", "diff", "abort", "return"}
(* the labels at which a git command is running *)
GitPC == CreatePC \union RemovePC \union (LockedPC \ {"return"})

Init ==
    /\ base = {}
    /\ branch = [t \in Tasks |-> None]
    /\ wdir = [t \in Tasks |-> "none"]
    /\ meta = [t \in Tasks |-> "none"]
    /\ midmerge = None
    /\ indexlock = FALSE
    /\ lock = None
    /\ pc = [t \in Tasks |-> "idle"]
    /\ outcome = [t \in Tasks |-> "none"]
    /\ files = [t \in Tasks |-> {}]
    /\ knew = [t \in Tasks |-> {}]
    /\ kills = 0

Goto(t, label) == pc' = [pc EXCEPT ![t] = label] /\ UNCHANGED outcome
(* a call begins: the outcome and the files of the last one are forgotten *)
Enter(t, label) ==
    /\ pc' = [pc EXCEPT ![t] = label]
    /\ outcome' = [outcome EXCEPT ![t] = "none"]
    /\ files' = [files EXCEPT ![t] = {}]
Return(t, how) ==
    /\ pc' = [pc EXCEPT ![t] = "idle"]
    /\ outcome' = [outcome EXCEPT ![t] = how]
-----------------------------------------------------------------------------
(* create_worktree *)

(* An existing directory is reused; `git worktree add -b` refuses a branch *)
(* or an entry that exists; otherwise its first act is the branch.         *)
Create(t) ==
    /\ pc[t] = "idle"
    /\ \/ wdir[t] # "none" /\ Return(t, "created") /\ UNCHANGED <<branch, files>>
       \/ /\ wdir[t] = "none" /\ (branch[t] # None \/ meta[t] # "none")
          /\ Return(t, "git_error")
          /\ UNCHANGED <<branch, files>>
       \/ /\ wdir[t] = "none" /\ branch[t] = None /\ meta[t] = "none"
          /\ branch' = [branch EXCEPT ![t] = base]
          /\ Enter(t, "register")
    /\ UNCHANGED <<repo, wdir, meta, lock, knew, kills>>

(* the entry, locked until the checkout is complete, and the directory *)
Register(t) ==
    /\ pc[t] = "register"
    /\ meta' = [meta EXCEPT ![t] = "initializing"]
    /\ wdir' = [wdir EXCEPT ![t] = "partial"]
    /\ Goto(t, "populate")
    /\ UNCHANGED <<repo, branch, lock, files, knew, kills>>

Populate(t) ==
    /\ pc[t] = "populate"
    /\ meta' = [meta EXCEPT ![t] = "listed"]
    /\ wdir' = [wdir EXCEPT ![t] = "whole"]
    /\ Return(t, "created")
    /\ UNCHANGED <<repo, branch, lock, files, knew, kills>>

(* The task commits its work in its worktree. *)
Work(t) ==
    /\ pc[t] = "idle" /\ wdir[t] = "whole"
    /\ t \notin branch[t]
    /\ branch' = [branch EXCEPT ![t] = @ \union {t}]
    /\ knew' = [knew EXCEPT ![t] = branch[t]]
    /\ UNCHANGED <<repo, wdir, meta, lock, pc, outcome, files, kills>>
-----------------------------------------------------------------------------
(* remove_worktree *)

Remove(t) ==
    /\ pc[t] = "idle"
    /\ Enter(t, IF wdir[t] = "none" THEN "remove_branch" ELSE "remove_dir")
    /\ UNCHANGED <<repo, trees, lock, knew, kills>>

(* `git worktree remove --force`, or rmtree when git refuses *)
RemoveDir(t) ==
    /\ pc[t] = "remove_dir"
    /\ wdir' = [wdir EXCEPT ![t] = "none"]
    /\ Goto(t, "remove_meta")
    /\ UNCHANGED <<repo, branch, meta, lock, files, knew, kills>>

(* mutant: the branch is deleted before the worktree; git refuses while the *)
(* entry holds it, the refusal is ignored, and the removal ends here        *)
RemoveMetaLast(t) ==
    /\ pc[t] = "remove_meta"
    /\ meta' = [meta EXCEPT ![t] = IF @ = "initializing" THEN @ ELSE "none"]
    /\ Return(t, "removed")
    /\ UNCHANGED <<repo, branch, wdir, lock, files, knew, kills>>

(* the rest of `git worktree remove`, or `git worktree prune`, which skips *)
(* an entry that is locked                                                 *)
RemoveMeta(t) ==
    /\ pc[t] = "remove_meta"
    /\ meta' = [meta EXCEPT ![t] = IF @ = "initializing" THEN @ ELSE "none"]
    /\ Goto(t, "remove_branch")
    /\ UNCHANGED <<repo, branch, wdir, lock, files, knew, kills>>

(* `git branch -D` refuses a branch that an entry holds, and the function  *)
(* ignores that; with delete_branch=False the branch is kept anyway.       *)
RemoveBranch(t) ==
    /\ pc[t] = "remove_branch"
    /\ \/ /\ branch' = [branch EXCEPT ![t] = IF meta[t] = "none" THEN None ELSE @]
          /\ Return(t, "removed")
       \/ UNCHANGED branch /\ Return(t, "detached")
    /\ UNCHANGED <<repo, wdir, meta, lock, files, knew, kills>>
-----------------------------------------------------------------------------
(* merge_into_base *)

MergeIntoBase(t) ==
    /\ pc[t] = "idle"
    /\ Enter(t, "lock")
    /\ UNCHANGED <<repo, trees, lock, knew, kills>>

AcquireUnlocked(t) ==                                  \* mutant: no lock file
    /\ pc[t] = "lock"
    /\ lock' = t
    /\ Goto(t, "checkout")
    /\ UNCHANGED <<repo, trees, files, knew, kills>>

Acquire(t) ==
    /\ pc[t] = "lock"
    /\ lock = None
    /\ lock' = t
    /\ Goto(t, "checkout")
    /\ UNCHANGED <<repo, trees, files, knew, kills>>

(* filelock.Timeout, after 30 seconds *)
LockTimeout(t) ==
    /\ pc[t] = "lock"
    /\ lock # None
    /\ Return(t, "lock_timeout")
    /\ UNCHANGED <<repo, trees, lock, files, knew, kills>>

(* mutant: the lock is released by hand, and not on this path *)
LeaveLeaks(t, how) == Return(t, how) /\ UNCHANGED lock
Leave(t, how) == Return(t, how) /\ lock' = None

(* `git checkout <base>` fails over an unfinished merge and a stale lock *)
Checkout(t) ==
    /\ pc[t] = "checkout"
    /\ IF midmerge = None /\ ~indexlock
       THEN Goto(t, "merge") /\ UNCHANGED lock
       ELSE Leave(t, "git_error")
    /\ UNCHANGED <<repo, trees, files, knew, kills>>

(* git can begin to merge task/<t> *)
Mergeable(t) == branch[t] # None /\ midmerge = None /\ ~indexlock

(* `git merge --no-ff`: refused; "Already up to date"; or under way *)
BeginMerge(t) ==
    /\ pc[t] = "merge"
    /\ \/ ~Mergeable(t) /\ Goto(t, "diff") /\ UNCHANGED indexlock
       \/ Mergeable(t) /\ branch[t] \subseteq base /\ Goto(t, "return") /\ UNCHANGED indexlock
       \/ /\ Mergeable(t) /\ ~(branch[t] \subseteq base)
          /\ indexlock' = TRUE
          /\ Goto(t, "merging")
    /\ UNCHANGED <<base, midmerge, trees, lock, files, knew, kills>>

NoConflict(t) == {}                                    \* mutant: -X theirs
(* the work in base that t did not know and that its own work clashes with *)
Conflicting(t) ==
    IF t \in branch[t] \ base
    THEN {s \in base \ branch[t] : {s, t} \in Clashes}
    ELSE {}

EndMerge(t) ==
    /\ pc[t] = "merging"
    /\ IF Conflicting(t) = {}
       THEN /\ base' = base \union branch[t]
            /\ Goto(t, "return")
            /\ UNCHANGED midmerge
       ELSE /\ midmerge' = t
            /\ Goto(t, "diff")
            /\ UNCHANGED base
    /\ indexlock' = FALSE
    /\ UNCHANGED <<trees, lock, files, knew, kills>>

MergeReturns(t) ==
    /\ pc[t] = "return"
    /\ Leave(t, "merged")
    /\ UNCHANGED <<repo, trees, files, knew, kills>>

(* the output of `git diff --name-only --diff-filter=U` *)
UnmergedLines ==                                       \* mutant: keeps the empty line
    IF midmerge = None THEN {None} ELSE Conflicting(midmerge)
Unmerged == IF midmerge = None THEN {} ELSE Conflicting(midmerge)

(* except GitError: which files, whoever's merge it is *)
ListConflicts(t) ==
    /\ pc[t] = "diff"
    /\ files' = [files EXCEPT ![t] = Unmerged]
    /\ Goto(t, "abort")
    /\ UNCHANGED <<repo, trees, lock, knew, kills>>

(* mutant: the conflict is raised before the merge is aborted *)
RaiseUnaborted(t) ==
    /\ pc[t] = "abort"
    /\ Leave(t, IF midmerge = None THEN "git_error" ELSE "conflict")
    /\ UNCHANGED <<repo, trees, files, knew, kills>>

(* mutant: a merge without conflicting files is taken for a success *)
AbortOnlyConflicts(t) ==
    /\ pc[t] = "abort"
    /\ Leave(t, IF midmerge = None THEN "merged" ELSE "conflict")
    /\ midmerge' = None
    /\ UNCHANGED <<base, indexlock, trees, files, knew, kills>>

(* `git merge --abort`, which fails when there is no merge; then raise *)
AbortMerge(t) ==
    /\ pc[t] = "abort"
    /\ Leave(t, IF midmerge = None THEN "git_error" ELSE "conflict")
    /\ midmerge' = None
    /\ UNCHANGED <<base, indexlock, trees, files, knew, kills>>
-----------------------------------------------------------------------------
(* The git commands of the tasks in S are killed: a command that writes    *)
(* the index may leave its lock, a removal may be half done.               *)
Killed(S) ==
    /\ kills < MaxKills
    /\ kills' = kills + 1
    /\ indexlock' \in IF \E t \in S : pc[t] \in {"checkout", "abort"}
                      THEN BOOLEAN ELSE {indexlock}
    /\ \E torn \in SUBSET {t \in S : pc[t] = "remove_dir"} :
          wdir' = [t \in Tasks |-> IF t \in torn THEN "partial" ELSE wdir[t]]
    /\ lock' = IF lock \in S THEN None ELSE lock
    /\ UNCHANGED <<base, midmerge, branch, meta, files, knew>>

(* TimeoutExpired *)
Expire(t) ==
    /\ pc[t] \in GitPC
    /\ Killed({t})
    /\ Return(t, "expired")

Crash ==
    /\ Killed(Tasks)
    /\ pc' = [t \in Tasks |-> "idle"]
    /\ outcome' = [t \in Tasks |-> IF pc[t] = "idle" THEN outcome[t] ELSE "lost"]

CreateStep(t) == Register(t) \/ Populate(t)
RemoveStep(t) == RemoveDir(t) \/ RemoveMeta(t) \/ RemoveBranch(t)
MergeStep(t) ==
    \/ Acquire(t) \/ LockTimeout(t) \/ Checkout(t) \/ BeginMerge(t) \/ EndMerge(t)
    \/ MergeReturns(t) \/ ListConflicts(t) \/ AbortMerge(t)
Proceed(t) == CreateStep(t) \/ RemoveStep(t) \/ MergeStep(t)

Next ==
    \/ \E t \in Tasks : \/ Create(t) \/ Work(t) \/ Remove(t) \/ MergeIntoBase(t)
                        \/ Proceed(t) \/ Expire(t)
    \/ Crash

(* A git command ends, if not by itself then by its timeout. *)
Spec == Init /\ [][Next]_vars /\ \A t \in Tasks : WF_vars(Proceed(t))
-----------------------------------------------------------------------------
TypeOK ==
    /\ base \subseteq Tasks
    /\ branch \in [Tasks -> (SUBSET Tasks) \union {None}]
    /\ wdir \in [Tasks -> {"none", "partial", "whole"}]
    /\ meta \in [Tasks -> {"none", "initializing", "listed"}]
    /\ midmerge \in Tasks \union {None}
    /\ indexlock \in BOOLEAN
    /\ lock \in Tasks \union {None}
    /\ pc \in [Tasks -> {"idle", "lock", "return"} \union GitPC]
    /\ outcome \in [Tasks -> {"none", "created", "removed", "detached", "merged",
                              "conflict", "git_error", "lock_timeout", "expired",
                              "lost"}]
    /\ files \in [Tasks -> SUBSET Tasks]
    /\ knew \in [Tasks -> SUBSET Tasks]
    /\ kills \in 0 .. MaxKills

(* Of two tasks in base whose edits clash one was made on top of the       *)
(* other: no work is ever silently overwritten (workspace.py:152-154),     *)
(* whatever merged concurrently or died in between.                        *)
NoClobber ==
    \A s, t \in base : s # t /\ {s, t} \in Clashes => s \in knew[t] \/ t \in knew[s]

(* What a merge answers is so: when it returns, all of the branch is in    *)
(* base; when it raises a conflict, the task's work is not, so that work   *)
(* is never silently dropped (workspace.py:152-154).                       *)
AnswersAreTrue ==
    [][\A t \in Tasks : pc[t] \in LockedPC /\ pc'[t] = "idle" =>
          /\ outcome'[t] = "merged" => branch[t] # None /\ branch[t] \subseteq base'
          /\ outcome'[t] = "conflict" => t \notin base']_vars

(* A WorkspaceConflictError names conflicts, and those of its own task:    *)
(* the three commands merge, diff and abort are about one merge, although  *)
(* each looks at whatever merge the repository is in.                      *)
ConflictNamesFiles ==
    \A t \in Tasks :
       outcome[t] = "conflict" =>
          files[t] # {} /\ \A s \in files[t] : s \in base /\ {s, t} \in Clashes

(* A merge that ran to its end, well or not, leaves a repository in which  *)
(* the next one can begin: only a killed command leaves a merge or a lock. *)
CleanUnlessKilled ==
    lock = None /\ kills = 0 => midmerge = None /\ ~indexlock

(* Between its calls a task has all of its worktree, directory, entry and  *)
(* branch, or neither directory nor entry, in whatever order it creates,   *)
(* resumes, merges and removes, unless a command was killed: what          *)
(* create_worktree returned is complete, and what remove_worktree took     *)
(* away can be created again.  The branch goes when the entry has gone,    *)
(* whoever was killed: it does not survive its worktree.                   *)
WholeOrNone(t) ==
    \/ wdir[t] = "whole" /\ meta[t] = "listed" /\ branch[t] # None
    \/ wdir[t] = "none" /\ meta[t] = "none"
WorktreesWholeOrGone ==
    \A t \in Tasks :
       /\ kills = 0 =>
             /\ pc[t] \notin CreatePC \union RemovePC => WholeOrNone(t)
             /\ outcome[t] = "created" => wdir[t] = "whole"
       /\ outcome[t] = "removed" =>
             wdir[t] = "none" /\ (meta[t] = "none" => branch[t] = None)

(* Every call ends, and the lock on merges is always released. *)
CallsEnd ==
    /\ \A t \in Tasks : pc[t] # "idle" ~> pc[t] = "idle"
    /\ lock # None ~> lock = None
-----------------------------------------------------------------------------
(* Statements of the documentation that the code does not keep. *)

(* "the second one to acquire the lock either fast-forwards cleanly or     *)
(* fails with WorkspaceConflictError" (workspace.py:152-153)               *)
AcquirerMergesOrConflicts ==
    [][\A t \in Tasks : pc[t] \in LockedPC /\ pc'[t] = "idle" /\ branch[t] # None
                        => outcome'[t] # "git_error"]_vars

(* "Worktree metadata can get out of sync with the filesystem (e.g. the    *)
(* process was killed mid-checkout). Fall back to a raw rmtree + prune so  *)
(* cleanup is never blocked." (workspace.py:125-127)                       *)
RemovedIsGone ==
    \A t \in Tasks : outcome[t] = "removed" /\ pc[t] = "idle"
                     => wdir[t] = "none" /\ meta[t] = "none" /\ branch[t] = None

(* "Each worktree is a real, independent working directory", an "isolated, *)
(* consistent view" (workspace.py:7-10): what create_worktree returns is a *)
(* complete checkout, also when it resumes.                                *)
ReturnedIsWhole ==
    \A t \in Tasks : outcome[t] = "created" /\ pc[t] = "idle" => wdir[t] = "whole"
=============================================================================
