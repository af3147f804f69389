----------------------- MODULE WorkspaceServiceProofs -----------------------
(***************************************************************************)
(* Proofs about WorkspaceService, for any number of users, names, ids,     *)
(* requests and crashes.  The argument is the lock: from its flush to its  *)
(* commit a request owns the database, so the name that the INSERT found   *)
(* free is still free, and the clone it checked is the one it commits.     *)
(***************************************************************************)
EXTENDS WorkspaceService, TLAPS

(* the request inside a transaction that has written holds the lock *)
LockInv == \A r \in Requests : writer = r <=> pc[r] \in HoldsLock

(* no two requests have drawn one id, and a row has the id of a request *)
OwnIds == \A q, r \in Requests : target[q] = target[r] /\ target[q] # None => q = r
RowsAreDrawn == \A w \in WorkspaceIds : rows[w] # None => ~Unused(w)

(* what a request knows at each of its labels *)
Creating(r) ==
    pc[r] \in {"flush", "clone", "commit", "refresh"} \/ answer[r] = "created" =>
       /\ call[r].user \in Users
       /\ call[r].name \in Names
       /\ call[r].branch \in Branches
Drawn(r) ==
    /\ pc[r] \in {"idle", "flush", "fetch"} => target[r] = None
    /\ pc[r] \in {"clone", "commit", "refresh"} => target[r] \in WorkspaceIds
Inserting(r) ==
    pc[r] \in HoldsLock =>
       rows[target[r]] = None /\ ~NameTaken(call[r].user, call[r].name)
Cloned(r) == pc[r] = "commit" => repos[target[r]] = call[r].branch
Committed(r) == pc[r] = "refresh" => rows[target[r]] = Asked(r)
Reading(r) == pc[r] = "fetch" => call[r].id \in WorkspaceIds
Silent(r) == pc[r] # "done" => answer[r] = "none"
Named(r) ==
    /\ answer[r] = "created" => target[r] \in WorkspaceIds
    /\ answer[r] = "found" => call[r].id \in WorkspaceIds

Knows(r) ==
    /\ Creating(r) /\ Drawn(r) /\ Inserting(r) /\ Cloned(r) /\ Committed(r)
    /\ Reading(r) /\ Silent(r) /\ Named(r) /\ TrueAnswer(r)
RequestInv == \A r \in Requests : Knows(r)

IInv ==
    /\ TypeOK /\ LockInv /\ OwnIds /\ RowsAreDrawn /\ RequestInv
    /\ CommittedIsReady /\ OneNamePerUser
-----------------------------------------------------------------------------
LEMMA InitInv == Init => IInv
  <1> SUFFICES ASSUME Init PROVE IInv
    OBVIOUS
  <1> USE WorkspaceAssumption
  <1>1. TypeOK
    BY DEF Init, TypeOK, Labels, Codes
  <1>2. LockInv /\ OwnIds /\ RowsAreDrawn /\ CommittedIsReady /\ OneNamePerUser
    BY DEF Init, LockInv, HoldsLock, OwnIds, RowsAreDrawn, CommittedIsReady, OneNamePerUser
  <1>3. RequestInv
    BY DEF Init, RequestInv, Knows, Creating, Drawn, Inserting, HoldsLock, Cloned,
           Committed, Reading, Silent, Named, TrueAnswer, Asked
  <1> QED
    BY <1>1, <1>2, <1>3 DEF IInv

(* A step of another request that neither takes ids away nor adds a row    *)
(* that is not its own leaves q what it knows.                             *)
LEMMA OthersKept ==
  ASSUME NEW q \in Requests, Knows(q),
         UNCHANGED <<rows, pc[q], call[q], target[q], answer[q]>>,
         pc[q] = "commit" => repos'[target[q]] = repos[target[q]]
  PROVE  Knows(q)'
  BY DEF Knows, Creating, Drawn, Inserting, Cloned, Committed, Reading, Silent, Named,
         TrueAnswer, Asked, Owned, NameTaken

LEMMA GotoType ==
  ASSUME TypeOK, NEW r \in Requests, NEW label \in Labels, Goto(r, label)
  PROVE  /\ pc' \in [Requests -> Labels] /\ answer' \in [Requests -> Codes]
         /\ pc'[r] = label /\ answer' = answer
         /\ \A q \in Requests \ {r} : pc'[q] = pc[q]
  BY DEF TypeOK, Goto

LEMMA AnswerType ==
  ASSUME TypeOK, NEW r \in Requests, NEW code \in Codes, Answer(r, code)
  PROVE  /\ pc' \in [Requests -> Labels] /\ answer' \in [Requests -> Codes]
         /\ pc'[r] = "done" /\ answer'[r] = code
         /\ \A q \in Requests \ {r} : pc'[q] = pc[q] /\ answer'[q] = answer[q]
  BY DEF TypeOK, Answer, Labels

(* A step that leaves the rows and ids alone: what is left to show is the  *)
(* lock, the clones, and what the request that takes the step knows then.  *)
LEMMA QuietStep ==
  ASSUME IInv, NEW r \in Requests,
         UNCHANGED <<rows, target, crashes>>,
         pc' \in [Requests -> Labels], answer' \in [Requests -> Codes],
         call' \in [Requests -> Call \union {None}],
         repos' \in [WorkspaceIds -> Branches \union {None, Partial}],
         writer' \in Requests \union {None},
         \A q \in Requests \ {r} :
            UNCHANGED <<pc[q], call[q], answer[q]>>,
         \A w \in WorkspaceIds :
            repos'[w] # repos[w] => w = target[r] /\ pc[r] = "clone",
         LockInv', Knows(r)'
  PROVE  IInv'
  <1>1. TypeOK'
    BY DEF IInv, TypeOK
  <1>2. OwnIds' /\ RowsAreDrawn' /\ OneNamePerUser'
    BY DEF IInv, OwnIds, RowsAreDrawn, Unused, OneNamePerUser
  <1>3. CommittedIsReady'
    <2>1. pc[r] = "clone" => rows[target[r]] = None
      BY DEF IInv, RequestInv, Knows, Inserting, HoldsLock
    <2> QED
      BY <2>1 DEF IInv, CommittedIsReady
  <1>4. ASSUME NEW q \in Requests PROVE Knows(q)'
    <2>1. CASE q = r
      BY <2>1
    <2>2. CASE q # r
      <3>1. Knows(q)
        BY DEF IInv, RequestInv
      <3>2. pc[q] = "commit" => repos'[target[q]] = repos[target[q]]
        <4> SUFFICES ASSUME pc[q] = "commit", repos'[target[q]] # repos[target[q]]
                     PROVE FALSE
          OBVIOUS
        <4>1. target[q] \in WorkspaceIds
          BY <3>1 DEF Knows, Drawn
        <4>2. target[q] = target[r]
          BY <4>1
        <4>3. target[q] # None
          BY <4>1, WorkspaceAssumption
        <4> QED
          BY <2>2, <4>2, <4>3 DEF IInv, OwnIds
      <3> QED
        BY <2>2, <3>1, <3>2, OthersKept
    <2> QED
      BY <2>1, <2>2
  <1> QED
    BY <1>1, <1>2, <1>3, <1>4 DEF IInv, RequestInv
-----------------------------------------------------------------------------
(* One lemma for each action. *)

LEMMA PostKeeps ==
  ASSUME IInv, NEW r \in Requests, Post(r)
  PROVE  IInv'
  <1>0. TypeOK /\ pc[r] = "idle" /\ writer # r /\ target[r] = None
    BY DEF IInv, LockInv, RequestInv, Knows, Drawn, HoldsLock, Post
  <1>1. PICK u \in Callers, n \in Names, b \in Branches :
           /\ call' = [call EXCEPT ![r] = [op |-> "create", user |-> u, name |-> n,
                                           branch |-> b, id |-> None]]
           /\ \/ u \notin Users /\ Answer(r, "unauthorized")
              \/ u \in Users /\ Answer(r, "bad_request")
              \/ u \in Users /\ Goto(r, "flush")
    BY DEF Post
  <1>2. /\ call' \in [Requests -> Call \union {None}]
        /\ call'[r] = [op |-> "create", user |-> u, name |-> n, branch |-> b, id |-> None]
        /\ \A q \in Requests \ {r} : call'[q] = call[q]
    BY <1>0, <1>1 DEF TypeOK, Call
  <1>3. UNCHANGED <<rows, repos, writer, target, crashes>>
    BY DEF Post
  <1>4. CASE \E code \in {"unauthorized", "bad_request"} : Answer(r, code)
    <2>1. PICK code \in {"unauthorized", "bad_request"} : Answer(r, code)
      BY <1>4
    <2>2. /\ pc' \in [Requests -> Labels] /\ answer' \in [Requests -> Codes]
          /\ pc'[r] = "done" /\ answer'[r] = code
          /\ \A q \in Requests \ {r} : pc'[q] = pc[q] /\ answer'[q] = answer[q]
      BY <1>0, <2>1, AnswerType DEF Codes
    <2>3. LockInv'
      BY <1>0, <1>3, <2>2 DEF IInv, LockInv, HoldsLock
    <2>4. Knows(r)'
      BY <1>0, <1>3, <2>2 DEF Knows, Creating, Drawn, Inserting, HoldsLock, Cloned,
         Committed, Reading, Silent, Named, TrueAnswer, Asked
    <2> QED
      BY <1>0, <1>2, <1>3, <2>2, <2>3, <2>4, QuietStep DEF TypeOK
  <1>5. CASE u \in Users /\ Goto(r, "flush")
    <2>2. /\ pc' \in [Requests -> Labels] /\ answer' \in [Requests -> Codes]
          /\ pc'[r] = "flush" /\ answer' = answer
          /\ \A q \in Requests \ {r} : pc'[q] = pc[q]
      BY <1>0, <1>5, GotoType DEF Labels
    <2>3. LockInv'
      BY <1>0, <1>3, <2>2 DEF IInv, LockInv, HoldsLock
    <2>4. answer'[r] = "none"
      BY <1>0, <2>2 DEF IInv, RequestInv, Knows, Silent
    <2>5. Knows(r)'
      BY <1>0, <1>2, <1>3, <1>5, <2>2, <2>4 DEF Knows, Creating, Drawn, Inserting,
         HoldsLock, Cloned, Committed, Reading, Silent, Named, TrueAnswer, Asked
    <2> QED
      BY <1>0, <1>2, <1>3, <2>2, <2>3, <2>5, QuietStep DEF TypeOK
  <1> QED
    BY <1>1, <1>4, <1>5

LEMMA PostGetKeeps ==
  ASSUME IInv, NEW r \in Requests, PostGet(r)
  PROVE  IInv'
  <1>0. TypeOK /\ pc[r] = "idle" /\ writer # r /\ target[r] = None
    BY DEF IInv, LockInv, RequestInv, Knows, Drawn, HoldsLock, PostGet
  <1>1. PICK u \in Callers, w \in WorkspaceIds :
           /\ call' = [call EXCEPT ![r] = [op |-> "get", user |-> u, name |-> None,
                                           branch |-> None, id |-> w]]
           /\ IF u \in Users THEN Goto(r, "fetch") ELSE Answer(r, "unauthorized")
    BY DEF PostGet
  <1>2. /\ call' \in [Requests -> Call \union {None}]
        /\ call'[r].id = w
        /\ \A q \in Requests \ {r} : call'[q] = call[q]
    BY <1>0, <1>1 DEF TypeOK, Call
  <1>3. UNCHANGED <<rows, repos, writer, target, crashes>>
    BY DEF PostGet
  <1>4. CASE Answer(r, "unauthorized")
    <2>2. /\ pc' \in [Requests -> Labels] /\ answer' \in [Requests -> Codes]
          /\ pc'[r] = "done" /\ answer'[r] = "unauthorized"
          /\ \A q \in Requests \ {r} : pc'[q] = pc[q] /\ answer'[q] = answer[q]
      BY <1>0, <1>4, AnswerType DEF Codes
    <2>3. LockInv'
      BY <1>0, <1>3, <2>2 DEF IInv, LockInv, HoldsLock
    <2>4. Knows(r)'
      BY <1>0, <1>3, <2>2 DEF Knows, Creating, Drawn, Inserting, HoldsLock, Cloned,
         Committed, Reading, Silent, Named, TrueAnswer, Asked
    <2> QED
      BY <1>0, <1>2, <1>3, <2>2, <2>3, <2>4, QuietStep DEF TypeOK
  <1>5. CASE Goto(r, "fetch")
    <2>2. /\ pc' \in [Requests -> Labels] /\ answer' \in [Requests -> Codes]
          /\ pc'[r] = "fetch" /\ answer' = answer
          /\ \A q \in Requests \ {r} : pc'[q] = pc[q]
      BY <1>0, <1>5, GotoType DEF Labels
    <2>3. LockInv'
      BY <1>0, <1>3, <2>2 DEF IInv, LockInv, HoldsLock
    <2>4. answer'[r] = "none"
      BY <1>0, <2>2 DEF IInv, RequestInv, Knows, Silent
    <2>5. Knows(r)'
      BY <1>0, <1>2, <1>3, <2>2, <2>4 DEF Knows, Creating, Drawn, Inserting,
         HoldsLock, Cloned, Committed, Reading, Silent, Named, TrueAnswer, Asked
    <2> QED
      BY <1>0, <1>2, <1>3, <2>2, <2>3, <2>5, QuietStep DEF TypeOK
  <1> QED
    BY <1>1, <1>4, <1>5
(* A request ends without a row: what it inserted, if anything, is rolled  *)
(* back, and what it says is so.                                           *)
LEMMA EndKeeps ==
  ASSUME IInv, NEW r \in Requests, NEW code \in Codes \ {"none", "created"},
         Answer(r, code),
         pc[r] \in {"flush", "clone", "commit", "fetch"},
         UNCHANGED <<rows, call, target, crashes>>,
         repos' \in [WorkspaceIds -> Branches \union {None, Partial}],
         \A w \in WorkspaceIds :
            repos'[w] # repos[w] => w = target[r] /\ pc[r] = "clone",
         writer' = IF pc[r] \in HoldsLock THEN None ELSE writer,
         code = "conflict" => NameTaken(call[r].user, call[r].name),
         code = "found" => pc[r] = "fetch" /\ Owned(call[r].id, call[r].user)
  PROVE  IInv'
  <1>0. TypeOK /\ LockInv /\ Knows(r)
    BY DEF IInv, RequestInv
  <1>1. /\ pc' \in [Requests -> Labels] /\ answer' \in [Requests -> Codes]
        /\ pc'[r] = "done" /\ answer'[r] = code
        /\ \A q \in Requests \ {r} : pc'[q] = pc[q] /\ answer'[q] = answer[q]
    BY <1>0, AnswerType
  <1>2. LockInv' /\ writer' \in Requests \union {None}
    BY <1>0, <1>1, WorkspaceAssumption DEF LockInv, TypeOK, HoldsLock
  <1>3. target[r] # None => rows[target[r]] = None
    BY <1>0 DEF Knows, Drawn, Inserting, HoldsLock
  <1>4. Knows(r)'
    BY <1>0, <1>1, <1>3 DEF Knows, Creating, Drawn, Inserting, HoldsLock, Cloned, Committed,
       Reading, Silent, Named, TrueAnswer, Asked, NameTaken, Owned
  <1>5. call' \in [Requests -> Call \union {None}]
    BY <1>0 DEF TypeOK
  <1> QED
    BY <1>1, <1>2, <1>4, <1>5, QuietStep

LEMMA LockTimeoutKeeps ==
  ASSUME IInv, NEW r \in Requests, LockTimeout(r)
  PROVE  IInv'
  <1>1. /\ Answer(r, "failed") /\ pc[r] = "flush"
        /\ UNCHANGED <<rows, repos, writer, call, target, crashes>>
    BY DEF LockTimeout
  <1>2. repos \in [WorkspaceIds -> Branches \union {None, Partial}]
    BY DEF IInv, TypeOK
  <1> QED
    BY <1>1, <1>2, EndKeeps DEF Codes, HoldsLock

LEMMA FetchKeeps ==
  ASSUME IInv, NEW r \in Requests, Fetch(r)
  PROVE  IInv'
  <1>1. /\ pc[r] = "fetch"
        /\ UNCHANGED <<rows, repos, writer, call, target, crashes>>
    BY DEF Fetch
  <1>2. repos \in [WorkspaceIds -> Branches \union {None, Partial}]
    BY DEF IInv, TypeOK
  <1>3. CASE Owned(call[r].id, call[r].user) /\ Answer(r, "found")
    BY <1>1, <1>2, <1>3, EndKeeps DEF Codes, HoldsLock
  <1>4. CASE Answer(r, "not_found")
    BY <1>1, <1>2, <1>4, EndKeeps DEF Codes, HoldsLock
  <1> QED
    BY <1>3, <1>4 DEF Fetch

LEMMA InsertKeeps ==
  ASSUME IInv, NEW r \in Requests, Insert(r)
  PROVE  IInv'
  <1>0. /\ pc[r] = "flush" /\ writer = None
        /\ UNCHANGED <<rows, repos, call, crashes>>
        /\ TypeOK /\ LockInv /\ OwnIds /\ RowsAreDrawn /\ Knows(r)
    BY DEF Insert, IInv, RequestInv
  <1>1. CASE NameTaken(call[r].user, call[r].name) /\ Rollback(r, "conflict")
             /\ UNCHANGED target
    <2>1. repos \in [WorkspaceIds -> Branches \union {None, Partial}]
      BY <1>0 DEF TypeOK
    <2> QED
      BY <1>0, <1>1, <2>1, EndKeeps DEF Codes, HoldsLock, Rollback
  <1>2. CASE /\ ~NameTaken(call[r].user, call[r].name)
             /\ \E w \in WorkspaceIds : Unused(w) /\ target' = [target EXCEPT ![r] = w]
             /\ writer' = r
             /\ Goto(r, "clone")
    <2>1. PICK w \in WorkspaceIds : Unused(w) /\ target' = [target EXCEPT ![r] = w]
      BY <1>2
    <2>2. /\ pc' \in [Requests -> Labels] /\ answer' \in [Requests -> Codes]
          /\ pc'[r] = "clone" /\ answer' = answer
          /\ \A q \in Requests \ {r} : pc'[q] = pc[q]
      BY <1>0, <1>2, GotoType DEF Labels
    <2>3. /\ target' \in [Requests -> WorkspaceIds \union {None}]
          /\ target'[r] = w
          /\ \A q \in Requests \ {r} : target'[q] = target[q]
      BY <1>0, <2>1 DEF TypeOK
    <2>4. TypeOK'
      BY <1>0, <1>2, <2>2, <2>3 DEF TypeOK
    <2>5. LockInv'
      BY <1>0, <1>2, <2>2, WorkspaceAssumption DEF LockInv, HoldsLock
    <2>6. OwnIds'
      BY <1>0, <2>1, <2>3 DEF OwnIds, Unused
    <2>7. target[r] = None
      BY <1>0 DEF Knows, Drawn
    <2>8. RowsAreDrawn'
      <3> SUFFICES ASSUME NEW v \in WorkspaceIds, rows[v] # None
                   PROVE  \E q \in Requests : target'[q] = v
        BY <1>0 DEF RowsAreDrawn, Unused
      <3>1. PICK q \in Requests : target[q] = v
        BY <1>0 DEF RowsAreDrawn, Unused
      <3>2. q # r
        BY <2>7, <3>1, WorkspaceAssumption
      <3> QED
        BY <2>3, <3>1, <3>2
    <2>9. rows[w] = None
      BY <1>0, <2>1 DEF RowsAreDrawn
    <2>10. Knows(r)'
      BY <1>0, <1>2, <2>2, <2>3, <2>9 DEF Knows, Creating, Drawn, Inserting, HoldsLock,
         Cloned, Committed, Reading, Silent, Named, TrueAnswer, Asked, NameTaken
    <2>11. ASSUME NEW q \in Requests PROVE Knows(q)'
      <3>1. CASE q = r
        BY <2>10, <3>1
      <3>2. CASE q # r
        BY <1>0, <2>2, <2>3, <3>2, OthersKept DEF IInv, RequestInv
      <3> QED
        BY <3>1, <3>2
    <2>12. CommittedIsReady' /\ OneNamePerUser'
      BY <1>0 DEF IInv, CommittedIsReady, OneNamePerUser
    <2> QED
      BY <2>4, <2>5, <2>6, <2>8, <2>11, <2>12 DEF IInv, RequestInv
  <1> QED
    BY <1>1, <1>2 DEF Insert
LEMMA CloneKeeps ==
  ASSUME IInv, NEW r \in Requests, Clone(r)
  PROVE  IInv'
  <1>0. /\ pc[r] = "clone" /\ UNCHANGED <<rows, call, target, crashes>>
        /\ TypeOK /\ LockInv /\ Knows(r)
    BY DEF Clone, IInv, RequestInv
  <1>1. /\ target[r] \in WorkspaceIds /\ call[r].branch \in Branches
        /\ repos \in [WorkspaceIds -> Branches \union {None, Partial}]
        /\ call \in [Requests -> Call \union {None}]
        /\ answer[r] = "none"
    BY <1>0 DEF Knows, Drawn, Creating, Silent, TypeOK
  <1>2. CASE /\ repos' = [repos EXCEPT ![target[r]] = call[r].branch]
             /\ Goto(r, "commit")
             /\ UNCHANGED writer
    <2>1. /\ pc' \in [Requests -> Labels] /\ answer' \in [Requests -> Codes]
          /\ pc'[r] = "commit" /\ answer' = answer
          /\ \A q \in Requests \ {r} : pc'[q] = pc[q]
      BY <1>0, <1>2, GotoType DEF Labels
    <2>2. /\ repos' \in [WorkspaceIds -> Branches \union {None, Partial}]
          /\ repos'[target[r]] = call[r].branch
          /\ \A w \in WorkspaceIds : repos'[w] # repos[w] => w = target[r]
      BY <1>1, <1>2
    <2>3. LockInv' /\ writer' \in Requests \union {None}
      BY <1>0, <1>2, <2>1 DEF LockInv, HoldsLock, TypeOK
    <2>4. Knows(r)'
      BY <1>0, <1>1, <2>1, <2>2 DEF Knows, Creating, Drawn, Inserting, HoldsLock, Cloned,
         Committed, Reading, Silent, Named, TrueAnswer, Asked, NameTaken
    <2> QED
      BY <1>0, <1>1, <2>1, <2>2, <2>3, <2>4, QuietStep
  <1>3. CASE Rollback(r, "bad_request") /\ UNCHANGED repos
    BY <1>0, <1>1, <1>3, EndKeeps DEF Rollback, HoldsLock, Codes
  <1>4. CASE /\ repos' = [repos EXCEPT ![target[r]] = Partial]
             /\ \E code \in {"bad_request", "failed"} : Rollback(r, code)
    <2>1. PICK code \in {"bad_request", "failed"} : Rollback(r, code)
      BY <1>4
    <2>2. /\ repos' \in [WorkspaceIds -> Branches \union {None, Partial}]
          /\ \A w \in WorkspaceIds : repos'[w] # repos[w] => w = target[r]
      BY <1>1, <1>4
    <2> QED
      BY <1>0, <2>1, <2>2, EndKeeps DEF Rollback, HoldsLock, Codes
  <1> QED
    BY <1>2, <1>3, <1>4 DEF Clone

LEMMA CommitKeeps ==
  ASSUME IInv, NEW r \in Requests, Commit(r)
  PROVE  IInv'
  <1>0. /\ pc[r] = "commit" /\ UNCHANGED <<repos, call, target, crashes>>
        /\ TypeOK /\ LockInv /\ OwnIds /\ RowsAreDrawn /\ Knows(r)
        /\ CommittedIsReady /\ OneNamePerUser
    BY DEF Commit, IInv, RequestInv
  <1>1. /\ target[r] \in WorkspaceIds
        /\ rows[target[r]] = None /\ ~NameTaken(call[r].user, call[r].name)
        /\ call[r].user \in Users /\ call[r].name \in Names /\ call[r].branch \in Branches
        /\ repos[target[r]] = call[r].branch
        /\ answer[r] = "none"
    BY <1>0 DEF Knows, Drawn, Inserting, HoldsLock, Creating, Cloned, Silent
  <1>2. CASE Rollback(r, "failed") /\ UNCHANGED rows
    <2>1. repos \in [WorkspaceIds -> Branches \union {None, Partial}]
      BY <1>0 DEF TypeOK
    <2> QED
      BY <1>0, <1>2, <2>1, EndKeeps DEF Rollback, HoldsLock, Codes
  <1>3. CASE /\ rows' = [rows EXCEPT ![target[r]] = Asked(r)]
             /\ writer' = None
             /\ Goto(r, "refresh")
    <2>1. /\ Asked(r) \in WorkspaceRow /\ Asked(r) # None
          /\ Asked(r).user = call[r].user /\ Asked(r).name = call[r].name
          /\ Asked(r).branch = call[r].branch
      BY <1>1, WorkspaceAssumption DEF WorkspaceRow, Asked
    <2>2. /\ rows' \in [WorkspaceIds -> WorkspaceRow \union {None}]
          /\ rows'[target[r]] = Asked(r)
          /\ \A w \in WorkspaceIds \ {target[r]} : rows'[w] = rows[w]
      BY <1>0, <1>1, <1>3, <2>1 DEF TypeOK
    <2>3. /\ pc' \in [Requests -> Labels] /\ answer' \in [Requests -> Codes]
          /\ pc'[r] = "refresh" /\ answer' = answer
          /\ \A q \in Requests \ {r} : pc'[q] = pc[q]
      BY <1>0, <1>3, GotoType DEF Labels
    <2>4. TypeOK'
      BY <1>0, <1>3, <2>2, <2>3 DEF TypeOK
    <2>5. LockInv'
      BY <1>0, <1>3, <2>3, WorkspaceAssumption DEF LockInv, HoldsLock
    <2>6. OwnIds'
      BY <1>0 DEF OwnIds
    <2>7. RowsAreDrawn'
      BY <1>0, <1>1, <2>2 DEF RowsAreDrawn, Unused
    <2>8. CommittedIsReady'
      BY <1>0, <1>1, <2>1, <2>2 DEF CommittedIsReady
    <2>9. OneNamePerUser'
      BY <1>0, <1>1, <2>1, <2>2 DEF OneNamePerUser, NameTaken
    <2>10. Knows(r)'
      BY <1>0, <1>1, <2>1, <2>2, <2>3 DEF Knows, Creating, Drawn, Inserting, HoldsLock,
         Cloned, Committed, Reading, Silent, Named, TrueAnswer, Asked, Owned
    <2>11. ASSUME NEW q \in Requests, q # r PROVE Knows(q)'
      <3>1. Knows(q) /\ UNCHANGED <<pc[q], call[q], target[q], answer[q], repos>>
        BY <1>0, <2>3, <2>11 DEF IInv, RequestInv
      <3>2. pc[q] \notin HoldsLock
        BY <1>0, <2>11 DEF LockInv, HoldsLock
      <3>3. target[q] # target[r] \/ target[q] = None
        BY <1>0, <2>11 DEF OwnIds
      <3>4. target[q] \in WorkspaceIds \union {None}
        BY <1>0 DEF TypeOK
      <3>5. target[q] # None => rows'[target[q]] = rows[target[q]]
        BY <2>2, <3>3, <3>4
      <3>6. \A w \in WorkspaceIds, u \in Users : Owned(w, u) => Owned(w, u)'
        BY <1>1, <2>2 DEF Owned
      <3>7. Creating(q)' /\ Drawn(q)' /\ Inserting(q)' /\ Cloned(q)' /\ Reading(q)' /\ Silent(q)' /\ Named(q)'
        BY <3>1, <3>2 DEF Knows, Creating, Drawn, Inserting, Cloned, Reading, Silent, Named,
           HoldsLock
      <3>8. Committed(q)'
        BY <3>1, <3>5, WorkspaceAssumption DEF Knows, Committed, Drawn, Asked
      <3>9. TrueAnswer(q)'
        <4>1. answer[q] = "created" => rows'[target[q]] = Asked(q)
          BY <3>1, <3>5, WorkspaceAssumption DEF Knows, Named, TrueAnswer, Asked
        <4>2. answer[q] = "found" => Owned(call[q].id, call[q].user)'
          BY <1>1, <2>1, <2>2, <3>1 DEF Knows, Named, TrueAnswer, Asked, Owned
        <4>3. answer[q] = "conflict" => \E w \in WorkspaceIds :
                 Owned(w, call[q].user)' /\ rows'[w].name = call[q].name
          BY <1>1, <2>2, <3>1 DEF Knows, TrueAnswer, Asked, Owned
        <4>4. target[q] # None =>
                 /\ answer[q] \in {"bad_request", "conflict"} => rows'[target[q]] = None
                 /\ answer[q] \in {"failed", "lost"} => rows'[target[q]] \in {None, Asked(q)}
          BY <3>1, <3>5 DEF Knows, TrueAnswer, Asked
        <4> QED
          BY <3>1, <4>1, <4>2, <4>3, <4>4 DEF TrueAnswer, Asked, Owned
      <3> QED
        BY <3>7, <3>8, <3>9 DEF Knows
    <2> QED
      BY <2>4, <2>5, <2>6, <2>7, <2>8, <2>9, <2>10, <2>11 DEF IInv, RequestInv
  <1> QED
    BY <1>2, <1>3 DEF Commit
LEMMA RefreshKeeps ==
  ASSUME IInv, NEW r \in Requests, Refresh(r)
  PROVE  IInv'
  <1>0. /\ pc[r] = "refresh"
        /\ UNCHANGED <<rows, repos, writer, call, target, crashes>>
        /\ TypeOK /\ LockInv /\ Knows(r)
    BY DEF Refresh, IInv, RequestInv
  <1>1. PICK code \in {"created", "failed"} : Answer(r, code)
    BY DEF Refresh
  <1>2. /\ pc' \in [Requests -> Labels] /\ answer' \in [Requests -> Codes]
        /\ pc'[r] = "done" /\ answer'[r] = code
        /\ \A q \in Requests \ {r} : pc'[q] = pc[q] /\ answer'[q] = answer[q]
    BY <1>0, <1>1, AnswerType DEF Codes
  <1>3. LockInv'
    BY <1>0, <1>2 DEF LockInv, HoldsLock
  <1>4. Knows(r)'
    BY <1>0, <1>2 DEF Knows, Creating, Drawn, Inserting, HoldsLock, Cloned, Committed,
       Reading, Silent, Named, TrueAnswer, Asked, Owned
  <1> QED
    BY <1>0, <1>2, <1>3, <1>4, QuietStep DEF TypeOK

LEMMA CrashKeeps ==
  ASSUME IInv, Crash
  PROVE  IInv'
  <1>0. /\ TypeOK /\ OwnIds /\ RowsAreDrawn /\ RequestInv
        /\ CommittedIsReady /\ OneNamePerUser
        /\ UNCHANGED <<rows, call, target>> /\ writer' = None
        /\ pc' = [r \in Requests |-> IF pc[r] = "idle" THEN "idle" ELSE "done"]
        /\ answer' = [r \in Requests |->
                         IF pc[r] \in {"idle", "done"} THEN answer[r] ELSE "lost"]
    BY DEF Crash, IInv
  <1>1. /\ repos' \in [WorkspaceIds -> Branches \union {None, Partial}]
        /\ \A w \in WorkspaceIds : rows[w] # None => repos'[w] = repos[w]
    <2>1. CASE repos' = repos
      BY <1>0, <2>1 DEF TypeOK
    <2>2. CASE \E r \in Requests :
                  pc[r] = "clone" /\ repos' = [repos EXCEPT ![target[r]] = Partial]
      <3>1. PICK r \in Requests :
                  pc[r] = "clone" /\ repos' = [repos EXCEPT ![target[r]] = Partial]
        BY <2>2
      <3>2. rows[target[r]] = None
        BY <1>0, <3>1 DEF RequestInv, Knows, Inserting, HoldsLock
      <3> QED
        BY <1>0, <3>1, <3>2 DEF TypeOK
    <2> QED
      BY <2>1, <2>2 DEF Crash
  <1>2. TypeOK'
    <2>1. crashes' \in 0 .. MaxCrashes
      BY <1>0, WorkspaceAssumption DEF Crash, TypeOK
    <2>2. pc' \in [Requests -> Labels]
      BY <1>0 DEF Labels
    <2>3. answer' \in [Requests -> Codes]
      BY <1>0 DEF TypeOK, Codes
    <2> QED
      BY <1>0, <1>1, <2>1, <2>2, <2>3 DEF TypeOK
  <1>3. LockInv' /\ OwnIds' /\ RowsAreDrawn'
    BY <1>0, WorkspaceAssumption DEF LockInv, HoldsLock, OwnIds, RowsAreDrawn, Unused
  <1>4. CommittedIsReady' /\ OneNamePerUser'
    BY <1>0, <1>1 DEF CommittedIsReady, OneNamePerUser
  <1>5. ASSUME NEW r \in Requests PROVE Knows(r)'
    <2>1. Knows(r) /\ UNCHANGED <<rows, call[r], target[r]>>
      BY <1>0 DEF RequestInv
    <2>2. CASE pc[r] \in {"idle", "done"}
      <3>1. UNCHANGED <<pc[r], answer[r]>>
        BY <1>0, <2>2
      <3> QED
        BY <2>1, <2>2, <3>1, OthersKept
    <2>3. CASE pc[r] \notin {"idle", "done"}
      <3>1. pc'[r] = "done" /\ answer'[r] = "lost"
        BY <1>0, <2>3
      <3>2. target[r] # None => rows[target[r]] \in {None, Asked(r)}
        BY <1>0, <2>1, <2>3 DEF TypeOK, Labels, Knows, Drawn, Inserting, HoldsLock, Committed
      <3>3. TrueAnswer(r)'
        BY <2>1, <3>1, <3>2 DEF TrueAnswer, Asked
      <3> QED
        BY <2>1, <3>1, <3>3 DEF Knows, Creating, Drawn, Inserting, HoldsLock, Cloned,
           Committed, Reading, Silent, Named
    <2> QED
      BY <2>2, <2>3
  <1> QED
    BY <1>2, <1>3, <1>4, <1>5 DEF IInv, RequestInv

LEMMA NextKeeps == IInv /\ [Next]_vars => IInv'
  <1> SUFFICES ASSUME IInv, [Next]_vars PROVE IInv'
    OBVIOUS
  <1>1. CASE \E r \in Requests : Post(r) \/ PostGet(r) \/ Handle(r)
    BY <1>1, PostKeeps, PostGetKeeps, InsertKeeps, LockTimeoutKeeps, CloneKeeps,
       CommitKeeps, RefreshKeeps, FetchKeeps DEF Handle
  <1>2. CASE Crash
    BY <1>2, CrashKeeps
  <1>3. CASE UNCHANGED vars
    BY <1>3 DEF vars, IInv, TypeOK, LockInv, OwnIds, RowsAreDrawn, Unused, RequestInv,
       Knows, Creating, Drawn, Inserting, HoldsLock, Cloned, Committed, Reading, Silent,
       Named, TrueAnswer, Asked, Owned, NameTaken, CommittedIsReady, OneNamePerUser
  <1> QED
    BY <1>1, <1>2, <1>3 DEF Next
-----------------------------------------------------------------------------
(* The inductive invariant: what the lock protects, and what each request  *)
(* of create_workspace and get_workspace knows at its awaits.              *)
THEOREM Inductive == Spec => []IInv
  BY InitInv, NextKeeps, PTL DEF Spec

(* Every variable holds values of its kind, whatever the constants are. *)
THEOREM TypeCorrect == Spec => []TypeOK
  <1>1. IInv => TypeOK
    BY DEF IInv
  <1> QED
    BY Inductive, <1>1, PTL

(* A workspace row that create_workspace committed names a whole clone on  *)
(* disk, on the branch of the row, through failed clones and crashes.      *)
THEOREM WorkspacesReady == Spec => []CommittedIsReady
  <1>1. IInv => CommittedIsReady
    BY DEF IInv
  <1> QED
    BY Inductive, <1>1, PTL

(* The unique constraint, met under the write lock, keeps a user's         *)
(* workspace names apart, for any number of racing creates.                *)
THEOREM NamesUnique == Spec => []OneNamePerUser
  <1>1. IInv => OneNamePerUser
    BY DEF IInv
  <1> QED
    BY Inductive, <1>1, PTL

(* What create_workspace and get_workspace answered is so and stays so: a  *)
(* 201 of the row asked for and no other of its name, a 200 of an own workspace, a 409 of an own    *)
(* name, 400 and 409 that left no row, and a 500 (which refresh may answer *)
(* after the commit) or a cut connection that left the row asked for, with *)
(* its whole clone (WorkspacesReady), or none.                             *)
THEOREM AnswersTrue == Spec => []AnswersAreTrue
  <1>1. IInv => AnswersAreTrue
    <2> SUFFICES ASSUME IInv, NEW r \in Requests
                 PROVE  TrueAnswer(r) /\ OnlyOfItsName(r)
      BY DEF AnswersAreTrue
    <2>1. Knows(r) /\ OneNamePerUser
      BY DEF IInv, RequestInv
    <2>2. TrueAnswer(r) /\ Named(r) /\ Creating(r)
      BY <2>1 DEF Knows
    <2>3. ASSUME answer[r] = "created", NEW w \in WorkspaceIds,
                 Owned(w, call[r].user), rows[w].name = call[r].name
          PROVE  w = target[r]
      <3>1. target[r] \in WorkspaceIds /\ rows[target[r]] = Asked(r)
        BY <2>2, <2>3 DEF TrueAnswer, Named
      <3>2. rows[target[r]] # None
        BY <2>2, <2>3, <3>1, WorkspaceAssumption DEF Creating, Asked, WorkspaceRow
      <3> QED
        BY <2>1, <2>3, <3>1, <3>2 DEF OneNamePerUser, Owned, Asked
    <2> QED
      BY <2>2, <2>3 DEF OnlyOfItsName
  <1> QED
    BY Inductive, <1>1, PTL
=============================================================================
