CONSTANTS
    Objs = {o1, o2, o3}
    Fds <- MCFds
    Ctxs = {c1}
    NoData = NoData
    None = None
    Addrs = {"numeric", "name"}
    MaxBacklog = 2
    MaxAvail = 2
    RecvMax = 1

SYMMETRY ObjSymmetry

SPECIFICATION Spec

INVARIANT TypeOK
INVARIANT RegistryConsistent
PROPERTY LifecycleRefined
