\* Two tasks of a workspace index their worktrees, which start alike; one edit makes them differ.
CONSTANTS
    f1 = f1  f2 = f2  a = a  b = b  blank = blank  w1 = w1  w2 = w2
    i1 = i1  i2 = i2  i3 = i3  none = none
    Files = {f1}
    Contents = {a, b, blank}
    Blank = blank
    Worktrees = {w1, w2}
    Runs = {i1, i2, i3}
    None = none
    MaxEdits = 1
    MaxCrashes = 0
SPECIFICATION Spec
PROPERTY IndexReflectsSnapshot
CHECK_DEADLOCK FALSE
