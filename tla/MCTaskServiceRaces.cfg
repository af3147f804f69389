\* Two users, each with a workspace, who use the same key, and a caller without
\* an account; three requests, one crash: every race of creates, retries,
\* cancels and orchestrator runs.
CONSTANTS
    u1 = u1  u2 = u2  stranger = stranger  w1 = w1  w2 = w2  k1 = k1  empty = empty
    t1 = t1  t2 = t2  t3 = t3  r1 = r1  r2 = r2  r3 = r3  none = none  outsider = outsider
    Users = {u1, u2}
    Callers = {u1, u2, stranger}
    Workspaces = {w1, w2}
    Owner <- EachOwns
    Keys = {k1}
    EmptyKey = empty
    TaskIds = {t1, t2, t3}
    Requests = {r1, r2, r3}
    None = none
    Outsider = outsider
    MaxCrashes = 1
SPECIFICATION Spec
SYMMETRY Symmetry
INVARIANTS TypeOK ChainedJournal OneTaskPerKey SameKeySameTask CancelHolds AbandonedIsCancellable WorktreeFirst OwnerScoped
PROPERTIES LifecycleSpec TerminalIsFinal
CHECK_DEADLOCK FALSE
