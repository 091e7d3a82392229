----------------------------- MODULE ScopedLock -----------------------------
(***************************************************************************)
(* The scoped guards of src/src/base/util/mutex.h on the three lock       *)
(* classes there: Mutex (pthread_mutex_t), RWMutex (pthread_rwlock_t) and *)
(* CASLock (a spin loop on an atomic_flag).                               *)
(*                                                                         *)
(* A guard (ScopedLockImpl, ReadScopedLockImpl, WriteScopedLockImpl) is   *)
(* g[t][l]: the guard thread t holds on lock l, with its mode and its     *)
(* m_locked member, and whether t is inside the lock call the guard made. *)
(* A call that cannot return yet is a thread that waits: the step of its  *)
(* return is enabled once the lock can be taken.  A failed test_and_set   *)
(* of CASLock::lock writes TRUE over TRUE and changes nothing, so its     *)
(* loop is the same wait.  Each thread nests its guards in the order Rank *)
(* (a guard on a lock of higher rank inside those of lower rank) and      *)
(* destroys them innermost first, as C++ scopes do.                       *)
(***************************************************************************)
EXTENDS Naturals

CONSTANTS Threads,   \* the threads of the program
          Lks,       \* the lock objects
          LockKind,  \* LockKind[l] \in {"Mutex", "RWMutex", "CASLock"}
          Rank,      \* Rank[l]: nesting order of the guards on l
          NoThread,  \* the owner of a free Mutex
          None,      \* no guard
          MaxOps     \* guard constructions and lock()/unlock() calls per thread

Locks == INSTANCE Locks

VARIABLES lk,   \* lk[l]: the state of lock l
          g,    \* g[t][l]: t's guard on l, or None
          ops   \* ops[t]: the calls t has made

vars == <<lk, g, ops>>

(* The guard types a lock is taken with: Mutex::Lock and CASLock::Lock    *)
(* are ScopedLockImpl; RWMutex::ReadLock / WriteLock the other two.        *)
GuardModes(l) ==
    IF LockKind[l] = "RWMutex" THEN {"read", "write"} ELSE {"lock"}

(* A guard is waiting in its lock call, holding (m_locked), or neither. *)
Guards == {r \in [mode : {"lock", "read", "write"}, locked : BOOLEAN,
                  waiting : BOOLEAN] : ~(r.locked /\ r.waiting)}

FreeLock(l) ==
    CASE LockKind[l] = "Mutex"   -> Locks!FreeMutex
      [] LockKind[l] = "RWMutex" -> Locks!FreeRWLock
      [] LockKind[l] = "CASLock" -> Locks!FreeCASLock

(* Whether the lock call of mode m on l can return now. *)
CanTake(l, m) ==
    CASE LockKind[l] = "Mutex"   -> Locks!CanLock(lk[l])
      [] m = "read"              -> Locks!CanRdLock(lk[l])
      [] m = "write"             -> Locks!CanWrLock(lk[l])
      [] LockKind[l] = "CASLock" -> lk[l] = FALSE

Take(l, m, t) ==
    CASE LockKind[l] = "Mutex"   -> Locks!MutexLock(lk[l], t)
      [] m = "read"              -> Locks!RdLock(lk[l], t)
      [] m = "write"             -> Locks!WrLock(lk[l], t)
      [] LockKind[l] = "CASLock" -> Locks!TestAndSet(lk[l])

Give(l, t) ==
    CASE LockKind[l] = "Mutex"   -> Locks!MutexUnlock(lk[l], t)
      [] LockKind[l] = "RWMutex" -> Locks!RWUnlock(lk[l], t)
      [] LockKind[l] = "CASLock" -> Locks!CASUnlock(lk[l])

HasGuard(t, l) == g[t][l] # None
Waiting(t) == \E l \in Lks : HasGuard(t, l) /\ g[t][l].waiting
(* The guard on l is the innermost scope t is in. *)
Innermost(t, l) == \A k \in Lks : HasGuard(t, k) => Rank[k] <= Rank[l]

SetGuard(t, l, v) == g' = [g EXCEPT ![t][l] = v]
Call(t) == ops' = [ops EXCEPT ![t] = @ + 1]

Init ==
    /\ lk = [l \in Lks |-> FreeLock(l)]
    /\ g = [t \in Threads |-> [l \in Lks |-> None]]
    /\ ops = [t \in Threads |-> 0]

(* The constructor: enters m_mutex.lock(), on a Mutex or a CASLock. *)
ScopedLockImpl(t, l, m) ==
    /\ ops[t] < MaxOps
    /\ ~Waiting(t)
    /\ ~HasGuard(t, l)
    /\ \A k \in Lks : HasGuard(t, k) => Rank[k] < Rank[l]
    /\ m \in GuardModes(l)
    /\ SetGuard(t, l, [mode |-> m, locked |-> FALSE, waiting |-> TRUE])
    /\ Call(t)
    /\ UNCHANGED lk

(* The same template with rdlock and with wrlock. *)
ReadScopedLockImpl(t, l) == ScopedLockImpl(t, l, "read")
WriteScopedLockImpl(t, l) == ScopedLockImpl(t, l, "write")

(* The lock call returns and the guard sets m_locked = true. *)
LockReturns(t, l) ==
    /\ HasGuard(t, l)
    /\ g[t][l].waiting
    /\ CanTake(l, g[t][l].mode)
    /\ lk' = [lk EXCEPT ![l] = Take(l, g[t][l].mode, t)]
    /\ SetGuard(t, l, [g[t][l] EXCEPT !.locked = TRUE, !.waiting = FALSE])
    /\ UNCHANGED ops

(* Mutant: lock() without the m_locked check. *)
GuardLockUnchecked(t, l) ==
    /\ ops[t] < MaxOps
    /\ ~Waiting(t)
    /\ HasGuard(t, l)
    /\ Innermost(t, l)
    /\ Call(t)
    /\ SetGuard(t, l, [g[t][l] EXCEPT !.waiting = TRUE])
    /\ UNCHANGED lk

(* lock(): takes the lock again only when m_locked is false.  Nothing in *)
(* the code calls lock() or unlock() on a guard; a call is made on the   *)
(* guard of the scope the thread is in.                                   *)
GuardLock(t, l) ==
    /\ ops[t] < MaxOps
    /\ ~Waiting(t)
    /\ HasGuard(t, l)
    /\ Innermost(t, l)
    /\ Call(t)
    /\ IF g[t][l].locked
         THEN UNCHANGED <<lk, g>>
         ELSE /\ SetGuard(t, l, [g[t][l] EXCEPT !.waiting = TRUE])
              /\ UNCHANGED lk

(* Mutant: unlock() without the m_locked check. *)
UnlockLkUnchecked(t, l) == [lk EXCEPT ![l] = Give(l, t)]

(* unlock(): gives the lock back only when m_locked is true, then clears *)
(* m_locked.  Its effect on the lock, and the guard it leaves.            *)
UnlockLk(t, l) ==
    IF g[t][l].locked THEN [lk EXCEPT ![l] = Give(l, t)] ELSE lk

Unlocked(t, l) == [g[t][l] EXCEPT !.locked = FALSE]

GuardUnlock(t, l) ==
    /\ ops[t] < MaxOps
    /\ ~Waiting(t)
    /\ HasGuard(t, l)
    /\ Innermost(t, l)
    /\ lk' = UnlockLk(t, l)
    /\ SetGuard(t, l, Unlocked(t, l))
    /\ Call(t)

(* Mutant: a destructor that does not call unlock(). *)
GuardDestroyNoUnlock(t, l) ==
    /\ ~Waiting(t)
    /\ HasGuard(t, l)
    /\ Innermost(t, l)
    /\ SetGuard(t, l, None)
    /\ UNCHANGED <<lk, ops>>

(* The destructor calls unlock() as the scope of the guard ends. *)
GuardDestroy(t, l) ==
    /\ ~Waiting(t)
    /\ HasGuard(t, l)
    /\ Innermost(t, l)
    /\ lk' = UnlockLk(t, l)
    /\ SetGuard(t, l, None)
    /\ UNCHANGED ops

(* Every thread has made its calls and left every scope. *)
Finished == /\ \A t \in Threads : ops[t] = MaxOps /\ \A l \in Lks : ~HasGuard(t, l)
            /\ UNCHANGED vars

Next ==
    \/ Finished
    \/ \E t \in Threads, l \in Lks :
           \/ ScopedLockImpl(t, l, "lock")
           \/ ReadScopedLockImpl(t, l)
           \/ WriteScopedLockImpl(t, l)
           \/ LockReturns(t, l)
           \/ GuardLock(t, l)
           \/ GuardUnlock(t, l)
           \/ GuardDestroy(t, l)

(* The threads the scheduler runs: a lock call returns once the lock is  *)
(* free and stays free, and every scope of the code ends, since no guarded *)
(* section of the code blocks on anything but another of these locks.     *)
Fairness ==
    \A t \in Threads, l \in Lks :
        WF_vars(LockReturns(t, l)) /\ WF_vars(GuardDestroy(t, l))

Spec == Init /\ [][Next]_vars /\ Fairness

(* Type invariant.  Guards also says a guard never enters its lock call  *)
(* again while it holds the lock, which lock()'s m_locked check ensures. *)
TypeOK ==
    /\ g \in [Threads -> [Lks -> Guards \cup {None}]]
    /\ ops \in [Threads -> 0..MaxOps]

(* The guards' m_locked flags are holds of the abstract CriticalSection:  *)
(* the guards implement atomic acquire and release of the locks, with     *)
(* the Mutex owner, the rwlock's readers and writer and the CASLock flag  *)
(* as hidden state.                                                       *)
CS == INSTANCE CriticalSection WITH
        Modes <- {"lock", "read", "write"},
        Shared <- {"read"},
        holders <- [l \in Lks |-> {<<t, g[t][l].mode>> :
                      t \in {u \in Threads : HasGuard(u, l) /\ g[u][l].locked}}]

CriticalSectionRefined == CS!Spec

(* Every guard that enters its lock call comes out of it holding the lock: *)
(* no thread waits forever on a Mutex, an RWMutex or a CASLock.            *)
RequestsGranted ==
    \A t \in Threads, l \in Lks :
        (HasGuard(t, l) /\ g[t][l].waiting) ~> (HasGuard(t, l) /\ g[t][l].locked)
================================================================================
