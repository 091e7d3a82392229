CONSTANTS
    Threads = {t1, t2}
    CVars = {x1, x2}
    Vals = {0, 1, 2}
    Default = 0
    Unparsable = Unparsable
    MaxOps = 2
    NoThread = NoThread
    NoCb = NoCb
    NoVal = NoVal
SPECIFICATION Spec
INVARIANT ListenerSeesFinalValue
