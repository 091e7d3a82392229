--------------------------- MODULE CriticalSection ---------------------------
(***************************************************************************)
(* What the locks of src/src/base/util/mutex.h promise the code that      *)
(* takes them through a scoped guard: a thread holds a lock in one mode   *)
(* from the call that takes it to the call that gives it back; taking it  *)
(* is one atomic step, allowed when every holder and the taker are in a   *)
(* shared mode, or when nobody holds it.  Mutex and CASLock have the one  *)
(* exclusive mode; RWMutex shares its read mode.                          *)
(***************************************************************************)
CONSTANTS Threads,  \* the threads of the program
          Lks,      \* the lock objects
          Modes,    \* the modes a lock can be held in
          Shared    \* the modes that several threads may hold together

VARIABLE holders  \* holders[l]: the pairs <<thread, mode>> that hold l

TypeOK == holders \in [Lks -> SUBSET (Threads \X Modes)]

HoldsAny(t, l) == \E h \in holders[l] : h[1] = t

Compatible(l, m) ==
    \/ holders[l] = {}
    \/ m \in Shared /\ \A h \in holders[l] : h[2] \in Shared

Init == holders = [l \in Lks |-> {}]

Acquire(t, l, m) ==
    /\ ~HoldsAny(t, l)
    /\ Compatible(l, m)
    /\ holders' = [holders EXCEPT ![l] = @ \cup {<<t, m>>}]

Release(t, l) ==
    /\ HoldsAny(t, l)
    /\ holders' = [holders EXCEPT ![l] = {h \in @ : h[1] # t}]

Next == \E t \in Threads, l \in Lks :
            \/ \E m \in Modes : Acquire(t, l, m)
            \/ Release(t, l)

Spec == Init /\ [][Next]_holders
================================================================================
