CONSTANTS
    Threads = {t1, t2}
    Names = {n1}
    BadNames = {b1}
    Types = {int, str}
    Objs = {o1, o2}
    MaxOps = 3
    NoThread = NoThread
    None = None
SPECIFICATION Spec
INVARIANT OneVariablePerName
