\* Two users and a caller without an account, one name for all of them, two
\* branches; three requests, two of which can reach a clone, and a crash.
CONSTANTS
    Users = {u1, u2}
    Callers = {u1, u2, stranger}
    Names = {n1}
    Branches = {main, dev}
    WorkspaceIds = {w1, w2}
    Requests = {r1, r2, r3}
    None = none
    Partial = partial
    MaxCrashes = 1
SPECIFICATION Spec
INVARIANTS TypeOK CommittedIsReady AnswersAreTrue
PROPERTIES RequestsEnd
CHECK_DEADLOCK FALSE
