\* A checkout is cut short; then its worktree is removed.
CONSTANTS
    t1 = t1  t2 = t2  none = none
    Tasks = {t1}
    Clashes <- AllClash
    None = none
    MaxKills = 1
SPECIFICATION Spec
INVARIANT RemovedIsGone
CHECK_DEADLOCK FALSE
