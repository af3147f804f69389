\* Two tasks that clash, each in any sequence of calls; two timeouts or crashes.
CONSTANTS
    t1 = t1  t2 = t2  none = none
    Tasks = {t1, t2}
    Clashes <- AllClash
    None = none
    MaxKills = 2
SPECIFICATION Spec
INVARIANTS TypeOK NoClobber ConflictNamesFiles CleanUnlessKilled WorktreesWholeOrGone
PROPERTIES AnswersAreTrue CallsEnd
CHECK_DEADLOCK FALSE
