\* A cancel commits between the two SELECTs of a round.
CONSTANTS
    u1 = u1  w1 = w1  empty = empty  t1 = t1  t2 = t2  none = none  outsider = outsider
    r1 = r1  r2 = r2  s1 = s1
    Users = {u1}
    Callers = {u1}
    Workspaces = {w1}
    Owner <- OneOwner
    Keys = {}
    EmptyKey = empty
    TaskIds = {t1}
    Requests = {r1, r2}
    Streams = {s1}
    None = none
    Outsider = outsider
    MaxCrashes = 0
SPECIFICATION StreamSpec
INVARIANT FullHistoryAtEnd
CHECK_DEADLOCK FALSE
