---------------------------- MODULE MCScopedLock ----------------------------
(* Model-checking instance of ScopedLock: one lock of each class, the      *)
(* RWMutex outermost and the Mutex inside it, as ConfigVar's lock is held  *)
(* around the listeners and the log mutex.                                 *)
EXTENDS ScopedLock

MCLks == {"rw", "mutex", "cas"}
MCLockKind == [l \in MCLks |->
                 IF l = "rw" THEN "RWMutex"
                 ELSE IF l = "mutex" THEN "Mutex" ELSE "CASLock"]
MCRank == [l \in MCLks |-> IF l = "rw" THEN 1 ELSE IF l = "mutex" THEN 2 ELSE 3]
================================================================================
