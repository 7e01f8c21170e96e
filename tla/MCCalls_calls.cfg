SPECIFICATION CallsSpec
CONSTANTS
    Boards = {1, 2}
    MaxNum = 3
    MaxArticles = 3
    Ranges <- MCRanges
    MaxLen = 3
    QueueCap = 1
    Ids = {2, 3}
    Known = 1
    DbFails = TRUE
    r1 = r1
    r2 = r2
    m1 = m1
    Readers = {r1, r2}
    Removers = {m1}
    Slow = {r1}
    None = None
    Old = Old
INVARIANTS
    NumbersTrue
    WalkComplete
    Matched
    CleanReturn
    RecordedIsLargest
PROPERTIES
    CallReturns
    PromptObtainsReturn
