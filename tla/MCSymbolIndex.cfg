\* Two runs over two files in two worktrees that are edited at any time; one
\* crash.  No symmetry.
CONSTANTS
    f1 = f1  f2 = f2  a = a  b = b  blank = blank  w1 = w1  w2 = w2
    i1 = i1  i2 = i2  i3 = i3  none = none
    Files = {f1, f2}
    Contents = {a, blank}
    Blank = blank
    Worktrees = {w1, w2}
    Runs = {i1, i2}
    None = none
    MaxEdits = 2
    MaxCrashes = 1
SPECIFICATION Spec
INVARIANTS TypeOK HashNamesSymbols FreshAfterIndex
PROPERTIES StoreSpec RunsEnd
CHECK_DEADLOCK FALSE
