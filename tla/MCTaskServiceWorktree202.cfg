\* A retry is answered while, or after, the first POST fails to check out.
CONSTANTS
    u1 = u1  u2 = u2  stranger = stranger  w1 = w1  w2 = w2  k1 = k1  empty = empty
    t1 = t1  t2 = t2  t3 = t3  r1 = r1  r2 = r2  r3 = r3  none = none  outsider = outsider
    Users = {u1}
    Callers = {u1}
    Workspaces = {w1}
    Owner <- OneOwner
    Keys = {k1}
    EmptyKey = empty
    TaskIds = {t1, t2}
    Requests = {r1, r2}
    None = none
    Outsider = outsider
    MaxCrashes = 0
SPECIFICATION Spec
INVARIANT AcceptedHasWorktree
CHECK_DEADLOCK FALSE
