------------------------- MODULE GitWorkspaceProofs -------------------------
(***************************************************************************)
(* Proofs about GitWorkspace, for any number of tasks, any clashes between *)
(* them and any number of timeouts and crashes.  A merge decides by what   *)
(* three commands see, one after the other, in a checkout that all tasks   *)
(* share; and whether base keeps all work depends on what each branch was  *)
(* made on top of.  The invariant says both.                               *)
(***************************************************************************)
EXTENDS GitWorkspace, TLAPS

(* The lock is held by the one call that is inside its `with` block. *)
LockInv == \A t \in Tasks : pc[t] \in LockedPC <=> lock = t

(* what a call on the worktree of t knows at each of its labels *)
TreeInv(t) ==
    /\ wdir[t] # "none" => branch[t] # None
    /\ pc[t] \in CreatePC => branch[t] # None
    /\ pc[t] = "remove_dir" => wdir[t] # "none"
    /\ pc[t] \in {"remove_meta", "remove_branch"} => wdir[t] = "none"
    /\ pc[t] # "idle" => outcome[t] = "none"
    /\ outcome[t] = "removed" =>
          wdir[t] = "none" /\ (meta[t] = "none" => branch[t] = None)

(* and what it knows besides while no command has been killed *)
SoundInv(t) ==
    kills = 0 =>
       /\ pc[t] \notin CreatePC \union RemovePC => WholeOrNone(t)
       /\ pc[t] = "remove_dir" => meta[t] = "listed"
       /\ pc[t] = "remove_meta" => meta[t] # "initializing"
       /\ pc[t] = "remove_branch" => meta[t] = "none"
       /\ outcome[t] = "created" => wdir[t] = "whole"

(* Of two clashing works in S one was made on top of the other. *)
Reconciled(S) ==
    \A s, t \in S : s # t /\ {s, t} \in Clashes => s \in knew[t] \/ t \in knew[s]

(* A branch has nothing that is not its own or in base, and what it has of *)
(* its own it had before base had it.                                      *)
BranchInv(t) ==
    branch[t] # None =>
       /\ branch[t] \subseteq base \union {t}
       /\ t \in base => t \in branch[t]
       /\ Reconciled(branch[t])

(* what a merge knows at each of its labels *)
MergeInv(t) ==
    /\ pc[t] \in {"merge", "merging"} => midmerge = None
    /\ pc[t] = "merging" => branch[t] # None
    /\ pc[t] = "return" => branch[t] # None /\ branch[t] \subseteq base
    /\ pc[t] \in {"diff", "abort"} => midmerge \in {None, t}
    /\ pc[t] \in {"diff", "abort"} /\ midmerge = t => Conflicting(t) # {}
    /\ pc[t] = "abort" /\ midmerge = t => files[t] = Conflicting(t)

(* Without a kill, a merge and a lock on the index are somebody's. *)
CleanInv ==
    kills = 0 =>
       /\ midmerge # None => lock # None /\ pc[lock] \in {"diff", "abort"}
       /\ indexlock => lock # None /\ pc[lock] = "merging"

ConflictInv(t) ==
    outcome[t] = "conflict" =>
       /\ pc[t] = "idle" /\ files[t] # {}
       /\ \A s \in files[t] : s \in base /\ {s, t} \in Clashes

IInv == /\ TypeOK /\ LockInv /\ Reconciled(base) /\ CleanInv
        /\ \A t \in Tasks : TreeInv(t) /\ SoundInv(t) /\ BranchInv(t) /\ MergeInv(t)
                            /\ ConflictInv(t)
-----------------------------------------------------------------------------
LEMMA Labels ==
  /\ LockedPC \intersect (CreatePC \union RemovePC \union {"idle", "lock"}) = {}
  /\ LockedPC = {"checkout", "merge", "merging", "diff", "abort", "return"}
  BY DEF LockedPC, CreatePC, RemovePC

LEMMA InitInv == Init => IInv
  <1>. SUFFICES ASSUME Init PROVE IInv
    OBVIOUS
  <1>. USE GitAssumption DEF GitAssumption, Init
  <1>1. TypeOK
    <2>1. kills \in 0 .. MaxKills
      OBVIOUS
    <2>2. branch \in [Tasks -> (SUBSET Tasks) \union {None}]
      OBVIOUS
    <2>3. /\ pc \in [Tasks -> {"idle", "lock", "return"} \union GitPC]
          /\ wdir \in [Tasks -> {"none", "partial", "whole"}]
          /\ meta \in [Tasks -> {"none", "initializing", "listed"}]
      OBVIOUS
    <2>. QED
      BY <2>1, <2>2, <2>3 DEF TypeOK
  <1>2. LockInv /\ CleanInv /\ Reconciled(base)
    BY DEF LockInv, LockedPC, CleanInv, Reconciled
  <1>3. ASSUME NEW t \in Tasks
        PROVE  TreeInv(t) /\ SoundInv(t) /\ BranchInv(t) /\ MergeInv(t) /\ ConflictInv(t)
    BY DEF TreeInv, SoundInv, WholeOrNone, BranchInv, MergeInv, ConflictInv, CreatePC
  <1>. QED
    BY <1>1, <1>2, <1>3 DEF IInv
-----------------------------------------------------------------------------
(* What calls have in common. *)

(* what a step of t leaves to the other tasks *)
Alone(t) ==
    \A u \in Tasks \ {t} :
       UNCHANGED <<pc[u], branch[u], wdir[u], meta[u], outcome[u], files[u], knew[u]>>

(* a step of create_worktree or remove_worktree, or work in the worktree *)
LEMMA TreeStepKeeps ==
  ASSUME IInv, NEW t \in Tasks, TypeOK', Alone(t), UNCHANGED <<repo, lock, kills>>,
         UNCHANGED knew[t] \/ t \notin base,
         pc[t] \notin LockedPC, pc'[t] \notin LockedPC,
         TreeInv(t)', SoundInv(t)', BranchInv(t)', ConflictInv(t)'
  PROVE  IInv'
  <1>. USE DEF IInv, repo
  <1>1. LockInv'
    BY DEF LockInv, Alone
  <1>3. Reconciled(base)'
    <2>1. \A s \in base : s \in Tasks /\ knew'[s] = knew[s]
      BY DEF Alone, TypeOK
    <2>. QED
      BY <2>1 DEF Reconciled
  <1>4. CleanInv'
    <2>1. lock # None => lock \in Tasks /\ lock # t
      BY DEF TypeOK, LockInv
    <2>. QED
      BY <2>1 DEF CleanInv, Alone
  <1>5. ASSUME NEW u \in Tasks \ {t}
        PROVE  TreeInv(u)' /\ SoundInv(u)' /\ BranchInv(u)' /\ MergeInv(u)' /\ ConflictInv(u)'
    <2>1. Conflicting(u)' = Conflicting(u)
      BY DEF Conflicting, Alone
    <2>2. UNCHANGED <<pc[u], branch[u], wdir[u], meta[u], outcome[u], files[u], kills>>
      BY DEF Alone
    <2>3. TreeInv(u)' /\ SoundInv(u)' /\ ConflictInv(u)'
      BY <2>2 DEF TreeInv, SoundInv, WholeOrNone, ConflictInv
    <2>4. BranchInv(u)'
      <3>. SUFFICES ASSUME branch[u] # None PROVE BranchInv(u)'
        BY <2>2 DEF BranchInv
      <3>1. branch[u] \in SUBSET Tasks /\ (t \in branch[u] => t \in base)
        BY DEF TypeOK, BranchInv
      <3>2. \A s \in branch[u] : knew'[s] = knew[s]
        BY <3>1 DEF Alone
      <3>. QED
        BY <2>2, <3>2 DEF BranchInv, Reconciled
    <2>5. MergeInv(u)'
      BY <2>1, <2>2 DEF MergeInv
    <2>. QED
      BY <2>3, <2>4, <2>5
  <1>6. MergeInv(t)'
    BY Labels DEF MergeInv
  <1>. QED
    BY <1>1, <1>3, <1>4, <1>5, <1>6

(* a step of merge_into_base that does not change base *)
LEMMA MergeStepKeeps ==
  ASSUME IInv, NEW t \in Tasks, TypeOK', LockInv', CleanInv', Alone(t),
         UNCHANGED <<base, trees, knew, kills>>,
         pc[t] \in LockedPC \/ UNCHANGED midmerge,
         pc[t] \in LockedPC \union {"lock"},
         pc'[t] \notin CreatePC \union RemovePC,
         UNCHANGED outcome[t] \/ (pc'[t] = "idle" /\ outcome'[t] \notin {"created", "removed"}),
         MergeInv(t)', ConflictInv(t)'
  PROVE  IInv'
  <1>. USE DEF IInv, trees
  <1>1. \A S : Reconciled(S) => Reconciled(S)'
    BY DEF Reconciled
  <1>2. \A u \in Tasks : BranchInv(u)'
    BY <1>1 DEF BranchInv
  <1>3. TreeInv(t)' /\ SoundInv(t)'
    <2>1. pc[t] \notin CreatePC \union RemovePC \union {"idle"}
      BY Labels DEF CreatePC, RemovePC
    <2>. QED
      BY <2>1 DEF TreeInv, SoundInv, WholeOrNone, CreatePC, RemovePC
  <1>4. ASSUME NEW u \in Tasks \ {t}
        PROVE  TreeInv(u)' /\ SoundInv(u)' /\ MergeInv(u)' /\ ConflictInv(u)'
    <2>1. UNCHANGED <<pc[u], branch[u], wdir[u], meta[u], outcome[u], files[u]>>
      BY DEF Alone
    <2>2. Conflicting(u)' = Conflicting(u)
      BY DEF Conflicting
    <2>3. pc[u] \in LockedPC => UNCHANGED midmerge
      BY DEF LockInv
    <2>4. MergeInv(u)'
      BY <2>1, <2>2, <2>3, Labels DEF MergeInv
    <2>. QED
      BY <2>1, <2>4 DEF TreeInv, SoundInv, WholeOrNone, ConflictInv
  <1>. QED
    BY <1>1, <1>2, <1>3, <1>4
-----------------------------------------------------------------------------
(* create_worktree and the task's own work *)

LEMMA CreateKeeps ==
  ASSUME IInv, NEW t \in Tasks, Create(t)
  PROVE  IInv'
  <1>. USE DEF IInv
  <1>1. pc[t] = "idle" /\ UNCHANGED <<repo, wdir, meta, lock, knew, kills>>
    BY DEF Create
  <1>2. CASE /\ branch[t] = None /\ wdir[t] = "none"
             /\ branch' = [branch EXCEPT ![t] = base] /\ Enter(t, "register")
    <2>1. /\ pc' = [pc EXCEPT ![t] = "register"]
          /\ outcome' = [outcome EXCEPT ![t] = "none"]
          /\ files' = [files EXCEPT ![t] = {}]
      BY <1>2 DEF Enter
    <2>2. TypeOK'
      BY <1>1, <1>2, <2>1 DEF TypeOK, repo, GitPC, CreatePC
    <2>3. Alone(t)
      BY <1>1, <1>2, <2>1 DEF Alone, TypeOK
    <2>4. pc'[t] = "register" /\ branch'[t] = base /\ outcome'[t] = "none"
      BY <1>2, <2>1 DEF TypeOK
    <2>5. TreeInv(t)' /\ SoundInv(t)' /\ ConflictInv(t)'
      BY <1>1, <1>2, <2>4, GitAssumption
      DEF TreeInv, SoundInv, ConflictInv, GitAssumption, TypeOK, CreatePC, RemovePC
    <2>6. BranchInv(t)'
      BY <1>1, <2>4 DEF BranchInv, Reconciled, repo
    <2>. QED
      BY <1>1, <2>2, <2>3, <2>4, <2>5, <2>6, Labels, TreeStepKeeps
  <1>3. ASSUME NEW how \in {"created", "git_error"}, Return(t, how),
               how = "created" => wdir[t] # "none",
               UNCHANGED <<branch, files>>
        PROVE  IInv'
    <2>1. /\ pc' = [pc EXCEPT ![t] = "idle"]
          /\ outcome' = [outcome EXCEPT ![t] = how]
      BY <1>3 DEF Return
    <2>2. TypeOK'
      BY <1>1, <1>3, <2>1 DEF TypeOK, repo
    <2>3. Alone(t)
      BY <1>1, <1>3, <2>1 DEF Alone, TypeOK
    <2>4. pc'[t] = "idle" /\ outcome'[t] = how
      BY <2>1 DEF TypeOK
    <2>5. TreeInv(t)' /\ SoundInv(t)' /\ ConflictInv(t)' /\ BranchInv(t)'
      BY <1>1, <1>3, <2>4
      DEF TreeInv, SoundInv, WholeOrNone, ConflictInv, BranchInv, Reconciled, CreatePC, RemovePC, repo
    <2>. QED
      BY <1>1, <2>2, <2>3, <2>4, <2>5, Labels, TreeStepKeeps
  <1>. QED
    BY <1>2, <1>3 DEF Create

LEMMA RegisterKeeps ==
  ASSUME IInv, NEW t \in Tasks, Register(t)
  PROVE  IInv'
  <1>. USE DEF IInv
  <1>1. /\ pc[t] = "register" /\ pc' = [pc EXCEPT ![t] = "populate"]
        /\ meta' = [meta EXCEPT ![t] = "initializing"]
        /\ wdir' = [wdir EXCEPT ![t] = "partial"]
        /\ UNCHANGED <<repo, branch, lock, files, knew, kills, outcome>>
    BY DEF Register, Goto
  <1>2. TypeOK'
    BY <1>1 DEF TypeOK, repo, GitPC, CreatePC
  <1>3. Alone(t)
    BY <1>1 DEF Alone, TypeOK
  <1>4. pc'[t] = "populate" /\ wdir'[t] = "partial" /\ meta'[t] = "initializing"
    BY <1>1 DEF TypeOK
  <1>5. TreeInv(t)' /\ SoundInv(t)' /\ ConflictInv(t)' /\ BranchInv(t)'
    BY <1>1, <1>4 DEF TreeInv, SoundInv, WholeOrNone, ConflictInv, BranchInv, Reconciled, CreatePC, RemovePC, repo
  <1>. QED
    BY <1>1, <1>2, <1>3, <1>4, <1>5, Labels, TreeStepKeeps DEF CreatePC

LEMMA PopulateKeeps ==
  ASSUME IInv, NEW t \in Tasks, Populate(t)
  PROVE  IInv'
  <1>. USE DEF IInv
  <1>1. /\ pc[t] = "populate" /\ pc' = [pc EXCEPT ![t] = "idle"]
        /\ outcome' = [outcome EXCEPT ![t] = "created"]
        /\ meta' = [meta EXCEPT ![t] = "listed"]
        /\ wdir' = [wdir EXCEPT ![t] = "whole"]
        /\ UNCHANGED <<repo, branch, lock, files, knew, kills>>
    BY DEF Populate, Return
  <1>2. TypeOK'
    BY <1>1 DEF TypeOK, repo
  <1>3. Alone(t)
    BY <1>1 DEF Alone, TypeOK
  <1>4. /\ pc'[t] = "idle" /\ outcome'[t] = "created"
        /\ wdir'[t] = "whole" /\ meta'[t] = "listed"
    BY <1>1 DEF TypeOK
  <1>5. TreeInv(t)' /\ SoundInv(t)' /\ ConflictInv(t)' /\ BranchInv(t)'
    BY <1>1, <1>4 DEF TreeInv, SoundInv, WholeOrNone, ConflictInv, BranchInv, Reconciled, CreatePC, RemovePC, repo
  <1>. QED
    BY <1>1, <1>2, <1>3, <1>4, <1>5, Labels, TreeStepKeeps DEF CreatePC

(* New work is in no other branch and not in base: what others were made   *)
(* on top of is as before.                                                 *)
LEMMA WorkKeeps ==
  ASSUME IInv, NEW t \in Tasks, Work(t)
  PROVE  IInv'
  <1>. USE DEF IInv
  <1>1. /\ pc[t] = "idle" /\ wdir[t] = "whole" /\ t \notin branch[t]
        /\ branch' = [branch EXCEPT ![t] = @ \union {t}]
        /\ knew' = [knew EXCEPT ![t] = branch[t]]
        /\ UNCHANGED <<repo, wdir, meta, lock, pc, outcome, files, kills>>
    BY DEF Work
  <1>2. branch[t] # None /\ branch[t] \in SUBSET Tasks
    BY <1>1 DEF TreeInv, TypeOK
  <1>3. TypeOK'
    BY <1>1, <1>2 DEF TypeOK, repo
  <1>4. t \notin base
    BY <1>1, <1>2 DEF BranchInv
  <1>5. Alone(t)
    BY <1>1 DEF Alone, TypeOK
  <1>6. branch'[t] = branch[t] \union {t} /\ knew'[t] = branch[t]
    BY <1>1 DEF TypeOK
  <1>7. Reconciled(branch[t])'
    <2>1. \A s \in branch[t] : knew'[s] = knew[s]
      BY <1>1, <1>2 DEF TypeOK
    <2>2. Reconciled(branch[t])
      BY <1>2 DEF BranchInv
    <2>. QED
      BY <1>6, <2>1, <2>2 DEF Reconciled
  <1>8. BranchInv(t)'
    BY <1>1, <1>2, <1>4, <1>6, <1>7 DEF BranchInv, Reconciled, repo
  <1>9. branch'[t] # None
    BY <1>2, <1>6, GitAssumption DEF GitAssumption
  <1>10. TreeInv(t)' /\ SoundInv(t)' /\ ConflictInv(t)'
    BY <1>1, <1>9 DEF TreeInv, SoundInv, WholeOrNone, ConflictInv, CreatePC, RemovePC, repo
  <1>. QED
    BY <1>1, <1>3, <1>4, <1>5, <1>8, <1>10, Labels, TreeStepKeeps
-----------------------------------------------------------------------------
(* remove_worktree *)

LEMMA RemoveKeeps ==
  ASSUME IInv, NEW t \in Tasks, Remove(t)
  PROVE  IInv'
  <1>. USE DEF IInv
  <1>1. PICK label \in {"remove_branch", "remove_dir"} :
           /\ label = IF wdir[t] = "none" THEN "remove_branch" ELSE "remove_dir"
           /\ pc' = [pc EXCEPT ![t] = label]
    BY DEF Remove, Enter
  <1>2. /\ pc[t] = "idle"
        /\ outcome' = [outcome EXCEPT ![t] = "none"]
        /\ files' = [files EXCEPT ![t] = {}]
        /\ UNCHANGED <<repo, trees, lock, knew, kills>>
    BY DEF Remove, Enter
  <1>3. TypeOK'
    BY <1>1, <1>2 DEF TypeOK, repo, trees, GitPC, RemovePC
  <1>4. Alone(t)
    BY <1>1, <1>2 DEF Alone, TypeOK, trees
  <1>5. pc'[t] = label /\ outcome'[t] = "none"
    BY <1>1, <1>2 DEF TypeOK
  <1>6. TreeInv(t)' /\ SoundInv(t)' /\ ConflictInv(t)' /\ BranchInv(t)'
    BY <1>1, <1>2, <1>5
    DEF TreeInv, SoundInv, WholeOrNone, ConflictInv, BranchInv, Reconciled, CreatePC, RemovePC, repo, trees
  <1>7. pc[t] \notin LockedPC /\ pc'[t] \notin LockedPC
    BY <1>2, <1>5, Labels
  <1>. QED
    BY <1>2, <1>3, <1>4, <1>6, <1>7, TreeStepKeeps

LEMMA RemoveDirKeeps ==
  ASSUME IInv, NEW t \in Tasks, RemoveDir(t)
  PROVE  IInv'
  <1>. USE DEF IInv
  <1>1. /\ pc[t] = "remove_dir" /\ pc' = [pc EXCEPT ![t] = "remove_meta"]
        /\ wdir' = [wdir EXCEPT ![t] = "none"]
        /\ UNCHANGED <<repo, branch, meta, lock, files, knew, kills, outcome>>
    BY DEF RemoveDir, Goto
  <1>2. TypeOK'
    BY <1>1 DEF TypeOK, repo, GitPC, RemovePC
  <1>3. Alone(t)
    BY <1>1 DEF Alone, TypeOK
  <1>4. pc'[t] = "remove_meta" /\ wdir'[t] = "none"
    BY <1>1 DEF TypeOK
  <1>5. TreeInv(t)' /\ SoundInv(t)' /\ ConflictInv(t)' /\ BranchInv(t)'
    BY <1>1, <1>4 DEF TreeInv, SoundInv, WholeOrNone, ConflictInv, BranchInv, Reconciled, CreatePC, RemovePC, repo
  <1>6. pc[t] \notin LockedPC /\ pc'[t] \notin LockedPC
    BY <1>1, <1>4, Labels
  <1>. QED
    BY <1>1, <1>2, <1>3, <1>5, <1>6, TreeStepKeeps

LEMMA RemoveMetaKeeps ==
  ASSUME IInv, NEW t \in Tasks, RemoveMeta(t)
  PROVE  IInv'
  <1>. USE DEF IInv
  <1>1. /\ pc[t] = "remove_meta" /\ pc' = [pc EXCEPT ![t] = "remove_branch"]
        /\ meta' = [meta EXCEPT ![t] = IF @ = "initializing" THEN @ ELSE "none"]
        /\ UNCHANGED <<repo, branch, wdir, lock, files, knew, kills, outcome>>
    BY DEF RemoveMeta, Goto
  <1>2. TypeOK'
    BY <1>1 DEF TypeOK, repo, GitPC, RemovePC
  <1>3. Alone(t)
    BY <1>1 DEF Alone, TypeOK
  <1>4. /\ pc'[t] = "remove_branch"
        /\ meta'[t] = IF meta[t] = "initializing" THEN meta[t] ELSE "none"
    BY <1>1 DEF TypeOK
  <1>5. TreeInv(t)' /\ SoundInv(t)' /\ ConflictInv(t)' /\ BranchInv(t)'
    BY <1>1, <1>4 DEF TreeInv, SoundInv, WholeOrNone, ConflictInv, BranchInv, Reconciled, CreatePC, RemovePC, repo
  <1>6. pc[t] \notin LockedPC /\ pc'[t] \notin LockedPC
    BY <1>1, <1>4, Labels
  <1>. QED
    BY <1>1, <1>2, <1>3, <1>5, <1>6, TreeStepKeeps

LEMMA RemoveBranchKeeps ==
  ASSUME IInv, NEW t \in Tasks, RemoveBranch(t)
  PROVE  IInv'
  <1>. USE DEF IInv
  <1>1. PICK left \in {branch[t], None}, how \in {"removed", "detached"} :
           /\ branch' = [branch EXCEPT ![t] = left]
           /\ how = "removed" /\ meta[t] = "none" => left = None
           /\ pc' = [pc EXCEPT ![t] = "idle"]
           /\ outcome' = [outcome EXCEPT ![t] = how]
    BY DEF RemoveBranch, Return, TypeOK
  <1>2. pc[t] = "remove_branch" /\ UNCHANGED <<repo, wdir, meta, lock, files, knew, kills>>
    BY DEF RemoveBranch
  <1>3. TypeOK'
    BY <1>1, <1>2 DEF TypeOK, repo
  <1>4. Alone(t)
    BY <1>1, <1>2 DEF Alone, TypeOK
  <1>5. pc'[t] = "idle" /\ outcome'[t] = how /\ branch'[t] = left
    BY <1>1 DEF TypeOK
  <1>6. TreeInv(t)' /\ SoundInv(t)' /\ ConflictInv(t)' /\ BranchInv(t)'
    BY <1>1, <1>2, <1>5
    DEF TreeInv, SoundInv, WholeOrNone, ConflictInv, BranchInv, Reconciled, CreatePC, RemovePC, repo
  <1>7. pc[t] \notin LockedPC /\ pc'[t] \notin LockedPC
    BY <1>2, <1>5, Labels
  <1>. QED
    BY <1>2, <1>3, <1>4, <1>6, <1>7, TreeStepKeeps
-----------------------------------------------------------------------------
(* merge_into_base *)

(* the lock is t's, and nobody else is inside *)
LEMMA Holder ==
  ASSUME IInv, NEW t \in Tasks, pc[t] \in LockedPC
  PROVE  lock = t /\ t # None /\ \A u \in Tasks \ {t} : pc[u] \notin LockedPC
  BY GitAssumption DEF IInv, LockInv, GitAssumption

LEMMA MergeIntoBaseKeeps ==
  ASSUME IInv, NEW t \in Tasks, MergeIntoBase(t)
  PROVE  IInv'
  <1>. USE DEF IInv
  <1>1. /\ pc[t] = "idle" /\ pc' = [pc EXCEPT ![t] = "lock"]
        /\ outcome' = [outcome EXCEPT ![t] = "none"]
        /\ files' = [files EXCEPT ![t] = {}]
        /\ UNCHANGED <<repo, trees, lock, knew, kills>>
    BY DEF MergeIntoBase, Enter
  <1>2. TypeOK'
    BY <1>1 DEF TypeOK, repo, trees
  <1>3. Alone(t)
    BY <1>1 DEF Alone, TypeOK, trees
  <1>4. pc'[t] = "lock" /\ outcome'[t] = "none"
    BY <1>1 DEF TypeOK
  <1>5. TreeInv(t)' /\ SoundInv(t)' /\ ConflictInv(t)' /\ BranchInv(t)'
    BY <1>1, <1>4
    DEF TreeInv, SoundInv, WholeOrNone, ConflictInv, BranchInv, Reconciled, CreatePC, RemovePC, repo, trees
  <1>6. pc[t] \notin LockedPC /\ pc'[t] \notin LockedPC
    BY <1>1, <1>4, Labels
  <1>. QED
    BY <1>1, <1>2, <1>3, <1>5, <1>6, TreeStepKeeps

LEMMA LockTimeoutKeeps ==
  ASSUME IInv, NEW t \in Tasks, LockTimeout(t)
  PROVE  IInv'
  <1>. USE DEF IInv
  <1>1. /\ pc[t] = "lock" /\ pc' = [pc EXCEPT ![t] = "idle"]
        /\ outcome' = [outcome EXCEPT ![t] = "lock_timeout"]
        /\ UNCHANGED <<repo, trees, lock, files, knew, kills>>
    BY DEF LockTimeout, Return
  <1>2. TypeOK'
    BY <1>1 DEF TypeOK, repo, trees
  <1>3. Alone(t)
    BY <1>1 DEF Alone, TypeOK, trees
  <1>4. pc'[t] = "idle" /\ outcome'[t] = "lock_timeout"
    BY <1>1 DEF TypeOK
  <1>5. TreeInv(t)' /\ SoundInv(t)' /\ ConflictInv(t)' /\ BranchInv(t)'
    BY <1>1, <1>4
    DEF TreeInv, SoundInv, WholeOrNone, ConflictInv, BranchInv, Reconciled, CreatePC, RemovePC, repo, trees
  <1>6. pc[t] \notin LockedPC /\ pc'[t] \notin LockedPC
    BY <1>1, <1>4, Labels
  <1>. QED
    BY <1>1, <1>2, <1>3, <1>5, <1>6, TreeStepKeeps

LEMMA AcquireKeeps ==
  ASSUME IInv, NEW t \in Tasks, Acquire(t)
  PROVE  IInv'
  <1>. USE DEF IInv
  <1>1. /\ pc[t] = "lock" /\ lock = None /\ lock' = t
        /\ pc' = [pc EXCEPT ![t] = "checkout"]
        /\ UNCHANGED <<repo, trees, files, knew, kills, outcome>>
    BY DEF Acquire, Goto
  <1>2. TypeOK'
    BY <1>1 DEF TypeOK, repo, trees, GitPC, LockedPC
  <1>3. Alone(t)
    BY <1>1 DEF Alone, TypeOK, trees
  <1>4. pc'[t] = "checkout"
    BY <1>1 DEF TypeOK
  <1>5. LockInv'
    BY <1>1, <1>3, <1>4, Labels, GitAssumption DEF LockInv, Alone, GitAssumption
  <1>6. CleanInv'
    BY <1>1 DEF CleanInv, repo
  <1>7. MergeInv(t)' /\ ConflictInv(t)'
    BY <1>1, <1>4 DEF MergeInv, ConflictInv, repo
  <1>8. pc'[t] \notin CreatePC \union RemovePC
    BY <1>4 DEF CreatePC, RemovePC
  <1>. QED
    BY <1>1, <1>2, <1>3, <1>5, <1>6, <1>7, <1>8, MergeStepKeeps DEF repo

(* the end of the `with` block, with the repository as it should be *)
LEMMA LeaveKeeps ==
  ASSUME IInv, NEW t \in Tasks, pc[t] \in LockedPC,
         NEW how \in {"git_error", "merged", "conflict"}, Leave(t, how),
         UNCHANGED <<base, indexlock, trees, files, knew, kills>>,
         midmerge' \in Tasks \union {None},
         kills = 0 => midmerge' = None /\ ~indexlock,
         how = "conflict" => midmerge = t /\ pc[t] = "abort"
  PROVE  IInv'
  <1>. USE DEF IInv
  <1>1. /\ pc' = [pc EXCEPT ![t] = "idle"] /\ lock' = None
        /\ outcome' = [outcome EXCEPT ![t] = how]
    BY DEF Leave, Return
  <1>2. TypeOK'
    BY <1>1 DEF TypeOK, trees
  <1>3. Alone(t)
    BY <1>1 DEF Alone, TypeOK, trees
  <1>4. pc'[t] = "idle" /\ outcome'[t] = how
    BY <1>1 DEF TypeOK
  <1>5. LockInv'
    BY <1>1, <1>3, <1>4, Labels, Holder, GitAssumption DEF LockInv, Alone, GitAssumption
  <1>6. CleanInv'
    BY DEF CleanInv
  <1>7. MergeInv(t)'
    BY <1>4 DEF MergeInv
  <1>8. ConflictInv(t)'
    <2>1. CASE how = "conflict"
      <3>1. files[t] = Conflicting(t) /\ files[t] # {}
        BY <2>1 DEF MergeInv
      <3>2. \A s \in files[t] : s \in base /\ {s, t} \in Clashes
        BY <3>1 DEF Conflicting
      <3>. QED
        BY <1>4, <3>1, <3>2 DEF ConflictInv
    <2>2. CASE how # "conflict"
      BY <1>4, <2>2 DEF ConflictInv
    <2>. QED
      BY <2>1, <2>2
  <1>9. pc'[t] \notin CreatePC \union RemovePC
    BY <1>4 DEF CreatePC, RemovePC
  <1>. QED
    BY <1>2, <1>3, <1>4, <1>5, <1>6, <1>7, <1>8, <1>9, MergeStepKeeps

LEMMA CheckoutKeeps ==
  ASSUME IInv, NEW t \in Tasks, Checkout(t)
  PROVE  IInv'
  <1>. USE DEF IInv
  <1>1. pc[t] = "checkout" /\ UNCHANGED <<repo, trees, files, knew, kills>>
    BY DEF Checkout
  <1>2. CASE midmerge = None /\ ~indexlock
    <2>1. pc' = [pc EXCEPT ![t] = "merge"] /\ UNCHANGED <<lock, outcome>>
      BY <1>2 DEF Checkout, Goto
    <2>2. TypeOK'
      BY <1>1, <2>1 DEF TypeOK, repo, trees, GitPC, LockedPC
    <2>3. Alone(t)
      BY <1>1, <2>1 DEF Alone, TypeOK, trees
    <2>4. pc'[t] = "merge"
      BY <2>1 DEF TypeOK
    <2>5. LockInv'
      BY <1>1, <2>1, <2>3, <2>4, Labels DEF LockInv, Alone
    <2>6. CleanInv'
      BY <1>1, <1>2 DEF CleanInv, repo
    <2>7. MergeInv(t)' /\ ConflictInv(t)'
      BY <1>1, <1>2, <2>1, <2>4 DEF MergeInv, ConflictInv, repo
    <2>8. pc'[t] \notin CreatePC \union RemovePC
      BY <2>4 DEF CreatePC, RemovePC
    <2>. QED
      BY <1>1, <2>1, <2>2, <2>3, <2>5, <2>6, <2>7, <2>8, Labels, MergeStepKeeps DEF repo
  <1>3. CASE ~(midmerge = None /\ ~indexlock)
    <2>1. Leave(t, "git_error")
      BY <1>3 DEF Checkout
    <2>2. kills = 0 => midmerge = None /\ ~indexlock
      BY <1>1, Labels, Holder DEF CleanInv
    <2>. QED
      BY <1>1, <2>1, <2>2, Labels, LeaveKeeps DEF repo, TypeOK
  <1>. QED
    BY <1>2, <1>3

LEMMA BeginMergeKeeps ==
  ASSUME IInv, NEW t \in Tasks, BeginMerge(t)
  PROVE  IInv'
  <1>. USE DEF IInv
  <1>1. /\ pc[t] = "merge" /\ midmerge = None
        /\ UNCHANGED <<base, midmerge, trees, lock, files, knew, kills, outcome>>
    BY DEF BeginMerge, Goto, MergeInv
  <1>2. PICK label \in {"diff", "return", "merging"} :
          /\ pc' = [pc EXCEPT ![t] = label]
          /\ label = "return" => branch[t] # None /\ branch[t] \subseteq base
          /\ label = "merging" => branch[t] # None /\ indexlock' = TRUE
          /\ label # "merging" => UNCHANGED indexlock
    BY DEF BeginMerge, Goto, Mergeable
  <1>3. TypeOK'
    BY <1>1, <1>2 DEF TypeOK, trees, GitPC, LockedPC
  <1>4. Alone(t)
    BY <1>1, <1>2 DEF Alone, TypeOK, trees
  <1>5. pc'[t] = label
    BY <1>2 DEF TypeOK
  <1>6. LockInv'
    BY <1>1, <1>4, <1>5, Labels DEF LockInv, Alone
  <1>7. CleanInv'
    BY <1>1, <1>2, <1>5, Labels, Holder DEF CleanInv
  <1>8. MergeInv(t)'
    BY <1>1, <1>2, <1>5, GitAssumption DEF MergeInv, trees, GitAssumption
  <1>9. ConflictInv(t)' /\ pc'[t] \notin CreatePC \union RemovePC
    BY <1>1, <1>5 DEF ConflictInv, CreatePC, RemovePC
  <1>. QED
    BY <1>1, <1>3, <1>4, <1>6, <1>7, <1>8, <1>9, Labels, MergeStepKeeps

(* Base gains a branch whose work clashes with nothing that it does not    *)
(* know: the clashing pairs within base and within the branch are settled  *)
(* already, and the rest of the branch is in base.                         *)
LEMMA EndMergeKeeps ==
  ASSUME IInv, NEW t \in Tasks, EndMerge(t)
  PROVE  IInv'
  <1>. USE DEF IInv
  <1>1. /\ pc[t] = "merging" /\ indexlock' = FALSE /\ midmerge = None
        /\ branch[t] # None /\ UNCHANGED <<trees, lock, files, knew, kills, outcome>>
    BY DEF EndMerge, Goto, MergeInv
  <1>2. CASE Conflicting(t) = {}
    <2>1. /\ base' = base \union branch[t] /\ UNCHANGED midmerge
          /\ pc' = [pc EXCEPT ![t] = "return"]
      BY <1>2 DEF EndMerge, Goto
    <2>2. branch[t] \in SUBSET Tasks /\ branch[t] \subseteq base \union {t}
      BY <1>1 DEF TypeOK, BranchInv
    <2>3. TypeOK'
      BY <1>1, <2>1, <2>2 DEF TypeOK, trees, GitPC, LockedPC
    <2>4. Alone(t)
      BY <1>1, <2>1 DEF Alone, TypeOK, trees
    <2>5. pc'[t] = "return"
      BY <2>1 DEF TypeOK
    <2>6. LockInv' /\ CleanInv'
      BY <1>1, <2>1, <2>4, <2>5, Labels DEF LockInv, Alone, CleanInv
    <2>7. Reconciled(base)'
      <3>1. ASSUME NEW s \in base \union branch[t], NEW u \in base \union branch[t],
                   s # u, {s, u} \in Clashes
            PROVE  s \in knew[u] \/ u \in knew[s]
        <4>1. CASE s \in base /\ u \in base
          BY <3>1, <4>1 DEF Reconciled
        <4>2. CASE s \in branch[t] /\ u \in branch[t]
          BY <1>1, <3>1, <4>2 DEF BranchInv, Reconciled
        <4>3. CASE s \in base \ branch[t] /\ u \in branch[t] \ base
          BY <1>2, <2>2, <3>1, <4>3 DEF Conflicting
        <4>4. CASE u \in base \ branch[t] /\ s \in branch[t] \ base
          <5>1. s = t /\ {u, s} = {s, u}
            BY <2>2, <4>4
          <5>. QED
            BY <1>2, <3>1, <4>4, <5>1 DEF Conflicting
        <4>. QED
          BY <4>1, <4>2, <4>3, <4>4
      <3>. QED
        BY <1>1, <2>1, <3>1 DEF Reconciled
    <2>8. ASSUME NEW u \in Tasks
          PROVE  TreeInv(u)' /\ SoundInv(u)' /\ BranchInv(u)' /\ MergeInv(u)' /\ ConflictInv(u)'
      <3>1. BranchInv(u)'
        BY <1>1, <2>1, <2>2 DEF BranchInv, Reconciled, trees
      <3>2. ConflictInv(u)'
        BY <1>1, <2>1 DEF ConflictInv
      <3>3. u # t => pc'[u] = pc[u] /\ pc[u] \notin LockedPC
        BY <1>1, <2>4, Labels, Holder DEF Alone
      <3>4. TreeInv(u)' /\ SoundInv(u)'
        BY <1>1, <2>5, <3>3 DEF TreeInv, SoundInv, WholeOrNone, CreatePC, RemovePC, trees
      <3>5. MergeInv(u)'
        BY <1>1, <2>1, <2>5, <3>3, Labels DEF MergeInv, trees
      <3>. QED
        BY <3>1, <3>2, <3>4, <3>5
    <2>. QED
      BY <2>3, <2>6, <2>7, <2>8
  <1>3. CASE Conflicting(t) # {}
    <2>1. midmerge' = t /\ UNCHANGED base /\ pc' = [pc EXCEPT ![t] = "diff"]
      BY <1>3 DEF EndMerge, Goto
    <2>2. TypeOK'
      BY <1>1, <2>1 DEF TypeOK, trees, GitPC, LockedPC
    <2>3. Alone(t)
      BY <1>1, <2>1 DEF Alone, TypeOK, trees
    <2>4. pc'[t] = "diff" /\ pc'[t] \notin CreatePC \union RemovePC
      BY <2>1 DEF TypeOK, CreatePC, RemovePC
    <2>5. LockInv'
      BY <1>1, <2>1, <2>3, <2>4, Labels DEF LockInv, Alone
    <2>6. CleanInv'
      BY <1>1, <2>1, <2>4, Labels, Holder DEF CleanInv
    <2>7. MergeInv(t)' /\ ConflictInv(t)'
      <3>1. Conflicting(t)' = Conflicting(t)
        BY <1>1, <2>1 DEF Conflicting, trees
      <3>. QED
        BY <1>1, <1>3, <2>1, <2>4, <3>1 DEF MergeInv, ConflictInv
    <2>. QED
      BY <1>1, <2>1, <2>2, <2>3, <2>4, <2>5, <2>6, <2>7, Labels, MergeStepKeeps
  <1>. QED
    BY <1>2, <1>3

LEMMA MergeReturnsKeeps ==
  ASSUME IInv, NEW t \in Tasks, MergeReturns(t)
  PROVE  IInv'
  <1>1. /\ pc[t] = "return" /\ pc[t] \in LockedPC /\ Leave(t, "merged")
        /\ UNCHANGED <<repo, trees, files, knew, kills>>
    BY Labels DEF MergeReturns
  <1>2. kills = 0 => midmerge = None /\ ~indexlock
    BY <1>1, Holder DEF IInv, CleanInv
  <1>. QED
    BY <1>1, <1>2, LeaveKeeps DEF IInv, TypeOK, repo

LEMMA ListConflictsKeeps ==
  ASSUME IInv, NEW t \in Tasks, ListConflicts(t)
  PROVE  IInv'
  <1>. USE DEF IInv
  <1>1. /\ pc[t] = "diff" /\ pc' = [pc EXCEPT ![t] = "abort"]
        /\ files' = [files EXCEPT ![t] = Unmerged]
        /\ UNCHANGED <<repo, trees, lock, knew, kills, outcome>>
    BY DEF ListConflicts, Goto
  <1>2. Unmerged \in SUBSET Tasks
    BY DEF Unmerged, Conflicting, TypeOK
  <1>3. TypeOK'
    BY <1>1, <1>2 DEF TypeOK, repo, trees, GitPC, LockedPC
  <1>4. Alone(t)
    BY <1>1 DEF Alone, TypeOK, trees
  <1>5. pc'[t] = "abort" /\ files'[t] = Unmerged
    BY <1>1 DEF TypeOK
  <1>6. LockInv'
    BY <1>1, <1>4, <1>5, Labels DEF LockInv, Alone
  <1>7. CleanInv'
    BY <1>1, <1>5, Labels, Holder DEF CleanInv, repo
  <1>8. outcome[t] # "conflict"
    BY <1>1 DEF ConflictInv
  <1>9. MergeInv(t)'
    <2>1. Conflicting(t)' = Conflicting(t)
      BY <1>1 DEF Conflicting, repo, trees
    <2>2. midmerge = t => Unmerged = Conflicting(t)
      BY GitAssumption DEF Unmerged, GitAssumption
    <2>. QED
      BY <1>1, <1>5, <2>1, <2>2 DEF MergeInv, repo
  <1>. QED
    BY <1>1, <1>3, <1>4, <1>5, <1>6, <1>7, <1>8, <1>9, Labels, MergeStepKeeps
    DEF ConflictInv, repo, CreatePC, RemovePC

LEMMA AbortMergeKeeps ==
  ASSUME IInv, NEW t \in Tasks, AbortMerge(t)
  PROVE  IInv'
  <1>1. PICK how \in {"git_error", "conflict"} :
           Leave(t, how) /\ how = IF midmerge = None THEN "git_error" ELSE "conflict"
    BY DEF AbortMerge
  <1>2. /\ pc[t] = "abort" /\ pc[t] \in LockedPC /\ midmerge' = None
        /\ UNCHANGED <<base, indexlock, trees, files, knew, kills>>
    BY Labels DEF AbortMerge
  <1>3. kills = 0 => ~indexlock
    BY <1>2, Holder DEF IInv, CleanInv
  <1>4. how = "conflict" => midmerge = t
    BY <1>1, <1>2 DEF IInv, MergeInv
  <1>. QED
    BY <1>1, <1>2, <1>3, <1>4, LeaveKeeps
-----------------------------------------------------------------------------
(* Timeouts and crashes. *)

LEMMA KilledKeeps ==
  ASSUME IInv, NEW S \in SUBSET Tasks, Killed(S), TypeOK',
         \A t \in Tasks : /\ pc'[t] = IF t \in S THEN "idle" ELSE pc[t]
                          /\ outcome'[t] \in {outcome[t], "expired", "lost"}
                          /\ t \notin S => UNCHANGED outcome[t]
  PROVE  IInv'
  <1>. USE DEF IInv
  <1>1. /\ kills' = kills + 1
        /\ lock' = IF lock \in S THEN None ELSE lock
        /\ UNCHANGED <<base, midmerge, branch, meta, files, knew>>
    BY DEF Killed
  <1>2. PICK torn \in SUBSET {t \in S : pc[t] = "remove_dir"} :
           wdir' = [t \in Tasks |-> IF t \in torn THEN "partial" ELSE wdir[t]]
    BY DEF Killed
  <1>3. CleanInv'
    BY <1>1 DEF CleanInv, TypeOK
  <1>4. LockInv'
    BY <1>1, Labels, GitAssumption DEF LockInv, GitAssumption
  <1>5. Reconciled(base)' /\ \A t \in Tasks : BranchInv(t)'
    BY <1>1 DEF Reconciled, BranchInv
  <1>6. ASSUME NEW t \in Tasks
        PROVE  TreeInv(t)' /\ SoundInv(t)' /\ MergeInv(t)' /\ ConflictInv(t)'
    <2>1. Conflicting(t)' = Conflicting(t)
      BY <1>1 DEF Conflicting
    <2>2. MergeInv(t)'
      BY <1>1, <2>1 DEF MergeInv
    <2>3. ConflictInv(t)'
      BY <1>1 DEF ConflictInv
    <2>4. TreeInv(t)'
      BY <1>1, <1>2 DEF TreeInv, CreatePC
    <2>5. SoundInv(t)'
      BY <1>1 DEF SoundInv, TypeOK
    <2>. QED
      BY <2>2, <2>3, <2>4, <2>5
  <1>. QED
    BY <1>3, <1>4, <1>5, <1>6

LEMMA KilledType ==
  ASSUME IInv, NEW S \in SUBSET Tasks, Killed(S),
         pc' \in [Tasks -> {"idle", "lock", "return"} \union GitPC],
         outcome' \in [Tasks -> {"none", "created", "removed", "detached", "merged",
                                 "conflict", "git_error", "lock_timeout", "expired",
                                 "lost"}]
  PROVE  TypeOK'
  <1>. USE DEF IInv
  <1>1. kills' \in 0 .. MaxKills
    BY GitAssumption DEF Killed, TypeOK, GitAssumption
  <1>2. wdir' \in [Tasks -> {"none", "partial", "whole"}]
    BY DEF Killed, TypeOK
  <1>3. indexlock' \in BOOLEAN
    BY DEF Killed, TypeOK
  <1>4. lock' \in Tasks \union {None}
    BY DEF Killed, TypeOK
  <1>5. UNCHANGED <<base, midmerge, branch, meta, files, knew>>
    BY DEF Killed
  <1>. QED
    BY <1>1, <1>2, <1>3, <1>4, <1>5 DEF TypeOK

LEMMA ExpireKeeps ==
  ASSUME IInv, NEW t \in Tasks, Expire(t)
  PROVE  IInv'
  <1>1. /\ Killed({t}) /\ pc' = [pc EXCEPT ![t] = "idle"]
        /\ outcome' = [outcome EXCEPT ![t] = "expired"]
    BY DEF Expire, Return
  <1>2. TypeOK'
    BY <1>1, KilledType DEF IInv, TypeOK
  <1>. QED
    BY <1>1, <1>2, KilledKeeps DEF IInv, TypeOK

LEMMA CrashKeeps ==
  ASSUME IInv, Crash
  PROVE  IInv'
  <1>1. /\ Killed(Tasks) /\ pc' = [t \in Tasks |-> "idle"]
        /\ outcome' = [t \in Tasks |-> IF pc[t] = "idle" THEN outcome[t] ELSE "lost"]
    BY DEF Crash
  <1>2. TypeOK'
    BY <1>1, KilledType DEF IInv, TypeOK
  <1>. QED
    BY <1>1, <1>2, KilledKeeps

LEMMA NextKeeps == IInv /\ [Next]_vars => IInv'
  <1>. SUFFICES ASSUME IInv, [Next]_vars PROVE IInv'
    OBVIOUS
  <1>1. ASSUME NEW t \in Tasks, CreateStep(t) \/ RemoveStep(t) PROVE IInv'
    BY <1>1, RegisterKeeps, PopulateKeeps, RemoveDirKeeps, RemoveMetaKeeps,
       RemoveBranchKeeps DEF CreateStep, RemoveStep
  <1>2. ASSUME NEW t \in Tasks, MergeStep(t) PROVE IInv'
    BY <1>2, AcquireKeeps, LockTimeoutKeeps, CheckoutKeeps, BeginMergeKeeps,
       EndMergeKeeps, MergeReturnsKeeps, ListConflictsKeeps, AbortMergeKeeps
    DEF MergeStep
  <1>3. CASE UNCHANGED vars
    <2>. USE <1>3 DEF vars, IInv
    <2>1. TypeOK' /\ LockInv' /\ CleanInv' /\ Reconciled(base)'
      BY DEF TypeOK, LockInv, CleanInv, Reconciled
    <2>2. ASSUME NEW t \in Tasks PROVE TreeInv(t)' /\ SoundInv(t)' /\ BranchInv(t)'
      BY DEF TreeInv, SoundInv, WholeOrNone, BranchInv, Reconciled
    <2>3. ASSUME NEW t \in Tasks PROVE MergeInv(t)' /\ ConflictInv(t)'
      BY DEF MergeInv, ConflictInv, Conflicting
    <2>. QED
      BY <2>1, <2>2, <2>3
  <1>. QED
    BY <1>1, <1>2, <1>3, CreateKeeps, WorkKeeps, RemoveKeeps, MergeIntoBaseKeeps,
       ExpireKeeps, CrashKeeps DEF Next, Proceed
-----------------------------------------------------------------------------
(* The inductive invariant: who holds the lock, what each call knows at    *)
(* each label, and what the branches and base were made on top of.         *)
THEOREM Inductive == Spec => []IInv
  BY InitInv, NextKeeps, PTL DEF Spec

(* Every variable keeps its type, whatever is killed. *)
THEOREM TypeCorrect == Spec => []TypeOK
  <1>1. IInv => TypeOK
    BY DEF IInv
  <1>. QED
    BY <1>1, Inductive, PTL

(* No work in base is overwritten by work that did not know it, over any   *)
(* number of concurrent, failed, killed and repeated merges.               *)
THEOREM NothingClobbered == Spec => []NoClobber
  <1>1. IInv => NoClobber
    BY DEF IInv, Reconciled, NoClobber
  <1>. QED
    BY <1>1, Inductive, PTL

(* A conflict that is reported is the task's own, and names what clashes.  *)
THEOREM ConflictsNamed == Spec => []ConflictNamesFiles
  <1>1. IInv => ConflictNamesFiles
    BY DEF IInv, ConflictInv, ConflictNamesFiles
  <1>. QED
    BY <1>1, Inductive, PTL

(* Merges that nobody kills leave a repository in which one can merge.     *)
THEOREM LeftClean == Spec => []CleanUnlessKilled
  <1>1. IInv => CleanUnlessKilled
    BY DEF IInv, CleanInv, CleanUnlessKilled
  <1>. QED
    BY <1>1, Inductive, PTL

(* Calls that nobody kills leave a whole worktree or none, and a removed   *)
(* one can be created again; a removal takes the branch unless an entry,   *)
(* which a killed command left locked, holds it.                           *)
THEOREM WorktreesSound == Spec => []WorktreesWholeOrGone
  <1>1. IInv => WorktreesWholeOrGone
    BY DEF IInv, TreeInv, SoundInv, WorktreesWholeOrGone
  <1>. QED
    BY <1>1, Inductive, PTL

(* What a step of merge_into_base may answer. *)
LEMMA StepAnswers ==
  ASSUME IInv, [Next]_vars, NEW t \in Tasks, pc[t] \in LockedPC, pc'[t] = "idle"
  PROVE  /\ outcome'[t] = "merged" => branch[t] # None /\ branch[t] \subseteq base'
         /\ outcome'[t] = "conflict" => t \notin base'
  <1>. USE DEF IInv
  <1>1. pc \in [Tasks -> {"idle", "lock", "return"} \union GitPC] /\ pc'[t] # pc[t]
    BY Labels DEF TypeOK
  <1>2. ASSUME NEW u \in Tasks \ {t},
               \/ Create(u) \/ Work(u) \/ Remove(u) \/ MergeIntoBase(u)
               \/ Proceed(u) \/ Expire(u)
        PROVE  FALSE
    <2>1. \/ UNCHANGED pc
          \/ \E label : pc' = [pc EXCEPT ![u] = label]
      BY <1>2 DEF Create, Work, Remove, MergeIntoBase, Proceed, CreateStep, RemoveStep,
         MergeStep, Register, Populate, RemoveDir, RemoveMeta, RemoveBranch, Acquire,
         LockTimeout, Checkout, BeginMerge, EndMerge, MergeReturns, ListConflicts,
         AbortMerge, Expire, Enter, Goto, Return, Leave
    <2>. QED
      BY <1>1, <2>1
  <1>3. CASE Checkout(t)
    BY <1>1, <1>3 DEF Checkout, Goto, Leave, Return, TypeOK
  <1>4. CASE MergeReturns(t)
    BY <1>4 DEF MergeReturns, Leave, Return, TypeOK, MergeInv, repo
  <1>5. CASE AbortMerge(t)
    <2>1. midmerge # None => midmerge = t /\ Conflicting(t) # {}
      BY <1>5 DEF AbortMerge, MergeInv
    <2>2. outcome'[t] = IF midmerge = None THEN "git_error" ELSE "conflict"
      BY <1>5 DEF AbortMerge, Leave, Return, TypeOK
    <2>3. midmerge # None => t \notin base
      BY <2>1 DEF Conflicting
    <2>. QED
      BY <1>5, <2>2, <2>3 DEF AbortMerge
  <1>6. CASE Expire(t)
    BY <1>6 DEF Expire, Return, TypeOK
  <1>7. CASE Crash
    BY <1>7, Labels DEF Crash, TypeOK
  <1>8. CASE BeginMerge(t) \/ EndMerge(t) \/ ListConflicts(t)
    <2>1. \E label \in {"diff", "return", "merging", "abort"} :
             pc' = [pc EXCEPT ![t] = label]
      BY <1>8 DEF BeginMerge, EndMerge, ListConflicts, Goto
    <2>. QED
      BY <1>1, <2>1
  <1>9. /\ ~Create(t) /\ ~Work(t) /\ ~Remove(t) /\ ~MergeIntoBase(t)
        /\ ~CreateStep(t) /\ ~RemoveStep(t) /\ ~Acquire(t) /\ ~LockTimeout(t)
    BY Labels DEF Create, Work, Remove, MergeIntoBase, CreateStep, RemoveStep, Register,
       Populate, RemoveDir, RemoveMeta, RemoveBranch, Acquire, LockTimeout, LockedPC
  <1>10. CASE UNCHANGED vars
    BY <1>1, <1>10 DEF vars
  <1>. QED
    BY <1>2, <1>3, <1>4, <1>5, <1>6, <1>7, <1>8, <1>9, <1>10
    DEF Next, Proceed, MergeStep

(* A merge is reported only when all of the branch is in base, a conflict  *)
(* only when the task's work is not.                                       *)
THEOREM AnswersTrue == Spec => AnswersAreTrue
  <1>1. IInv /\ [Next]_vars =>
          [\A t \in Tasks : pc[t] \in LockedPC /\ pc'[t] = "idle" =>
              /\ outcome'[t] = "merged" => branch[t] # None /\ branch[t] \subseteq base'
              /\ outcome'[t] = "conflict" => t \notin base']_vars
    BY StepAnswers
  <1>. QED
    BY <1>1, Inductive, PTL DEF Spec, AnswersAreTrue
=============================================================================
