\* One stream, opened again after a disconnect or a crash, over two requests and
\* the orchestrator runs they schedule.  Streams do not interact, and no journal
\* grows beyond two rows.  No symmetry.
CONSTANTS
    u1 = u1  w1 = w1  empty = empty  t1 = t1  t2 = t2  none = none  outsider = outsider
    r1 = r1  r2 = r2  s1 = s1
    Users = {u1}
    Callers = {u1}
    Workspaces = {w1}
    Owner <- OneOwner
    Keys = {}
    EmptyKey = empty
    TaskIds = {t1, t2}
    Requests = {r1, r2}
    Streams = {s1}
    None = none
    Outsider = outsider
    MaxCrashes = 2
SPECIFICATION StreamSpec
INVARIANTS StreamTypeOK NothingSkipped TerminalEventIsTrue
PROPERTIES EverythingEnds RowsArrive StreamEnds
CHECK_DEADLOCK FALSE
