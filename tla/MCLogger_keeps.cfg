CONSTANTS
    Threads = {t1, t2}
    Names <- MCNames
    LoggerObjs = {l0, l1, l2}
    Root = l0
    StdOut = so
    Files = {f1}
    LogLevels = {1, 3}
    GarbageLevels = {0, 6}
    Patterns <- MCPatterns
    DefaultPattern <- MCDefaultPattern
    StartTime = 3
    MaxTime = 6
    MaxOps = 2
    None = None
    Null = Null
    Chars <- MCChars
    Alpha <- MCAlpha
    Keys <- MCKeys
    UninitError = {FALSE, TRUE}
    MaxPatternLen = 2
SPECIFICATION Spec
INVARIANT FileKeepsEntries
