CONSTANTS
    Threads = {t1, t2}
    Lks <- MCLks
    LockKind <- MCLockKind
    Rank <- MCRank
    NoThread = NoThread
    None = None
    MaxOps = 4
SPECIFICATION Spec
INVARIANT TypeOK
PROPERTIES CriticalSectionRefined RequestsGranted
