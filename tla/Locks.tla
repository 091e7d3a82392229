-------------------------------- MODULE Locks --------------------------------
(***************************************************************************)
(* The locks of src/src/base/util/mutex.h as values and operators on them, *)
(* for the modules whose threads take them.                                *)
(*                                                                         *)
(* An RWMutex (pthread_rwlock_t) is a record of the threads holding it for *)
(* reading and the thread holding it for writing.  A thread that cannot   *)
(* take it blocks: the acquiring operator comes with the guard under      *)
(* which the call returns.  A Mutex is the thread holding it; a CASLock   *)
(* is its atomic_flag, taken by a loop of test_and_set steps.             *)
(***************************************************************************)
CONSTANT NoThread

(* RWMutex() / pthread_rwlock_init *)
FreeRWLock == [readers |-> {}, writer |-> NoThread]

(* RWMutex::rdlock: pthread_rwlock_rdlock returns when no thread writes;   *)
(* the default glibc lock prefers readers, so waiting writers do not      *)
(* hold new readers back.                                                  *)
CanRdLock(l) == l.writer = NoThread
RdLock(l, t) == [l EXCEPT !.readers = @ \cup {t}]

(* RWMutex::wrlock: pthread_rwlock_wrlock returns when nobody holds it.    *)
CanWrLock(l) == l.readers = {} /\ l.writer = NoThread
WrLock(l, t) == [l EXCEPT !.writer = t]

(* RWMutex::unlock: pthread_rwlock_unlock releases the hold of the caller, *)
(* read or write.                                                          *)
RWUnlock(l, t) ==
    IF l.writer = t THEN [l EXCEPT !.writer = NoThread]
    ELSE [l EXCEPT !.readers = @ \ {t}]

(* Mutex() / pthread_mutex_init: the thread holding it, or NoThread.      *)
FreeMutex == NoThread

(* Mutex::lock: pthread_mutex_lock returns when the mutex is free; a      *)
(* default mutex locked again by its holder never returns.                *)
CanLock(m) == m = NoThread
MutexLock(m, t) == t

(* Mutex::unlock: pthread_mutex_unlock frees it.                          *)
MutexUnlock(m, t) == NoThread

(* CASLock(): m_mutex.clear().  The lock is the atomic_flag alone: it     *)
(* records no owner.                                                      *)
FreeCASLock == FALSE

(* One test_and_set of the spin loop of CASLock::lock: sets the flag and  *)
(* returns its old value; the loop exits on FALSE.                        *)
TestAndSet(f) == TRUE

(* CASLock::unlock: atomic_flag_clear.                                    *)
CASUnlock(f) == FALSE

(* The scoped guards (ScopedLockImpl, ReadScopedLockImpl,                 *)
(* WriteScopedLockImpl) take the lock in their constructor and give it    *)
(* back in their destructor; the modules apply the operators above at     *)
(* the points where the code's guards are built and go out of scope.      *)
====
