------------------------------ MODULE ConfigVar ------------------------------
(***************************************************************************)
(* ConfigVar<T> of src/src/base/util/configReader.h under concurrent       *)
(* callers: setValue and fromString, addListener, delListener and          *)
(* clearListener, on several variables of one type T.  The variables share *)
(* the function-local static s_fun_id of addListener, which each caller    *)
(* increments under its own variable's lock only.                          *)
(*                                                                         *)
(* Each thread runs up to MaxOps calls.  A call is one step while it runs  *)
(* under a single lock hold; where the code lets go of a lock, or does a   *)
(* plain load and store of shared memory, it is split into steps at that   *)
(* point, and pc[t] names the step the thread is at.  The callbacks a      *)
(* thread passes to addListener are its own (thread, call number) pairs;   *)
(* a callback records the notification it receives.                        *)
(***************************************************************************)
EXTENDS Naturals, FiniteSets, Sequences

CONSTANTS
    Threads,     \* the calling threads
    CVars,       \* ConfigVar<T> instances of the same T
    Vals,        \* values of T
    Default,     \* the default_value the variables were created with
    Unparsable,  \* a string FromStr cannot convert
    MaxOps,      \* calls per thread
    NoThread, NoCb, NoVal

ASSUME /\ Default \in Vals /\ Unparsable \notin Vals
       /\ MaxOps \in Nat \ {0}

Locks == INSTANCE Locks

Cbs == Threads \X (1..MaxOps)
MaxId == Cardinality(Threads) * MaxOps
Ids == 1..MaxId

VARIABLES
    m_val,     \* m_val of each variable
    m_cbs,     \* m_cbs of each variable: listener id -> callback or NoCb
    m_mutex,   \* m_mutex of each variable (an RWMutex)
    s_fun_id,  \* the static counter of addListener
    pc,        \* the step each thread is at
    arg,       \* the call in progress: variable, value, loaded s_fun_id, callback
    ops,       \* calls each thread has made
    keys,      \* (variable, id, callback) triples addListener returned to the thread
    heard,     \* the new_value of the last notification each callback received
    calls,     \* notifications each callback received
    removed    \* callbacks whose delListener or clearListener has returned

vars == <<m_val, m_cbs, m_mutex, s_fun_id, pc, arg, ops, keys, heard, calls,
          removed>>
ghosts == <<heard, calls, removed>>

Listeners(x) == {m_cbs[x][k] : k \in Ids} \ {NoCb}

StartCall(t) == pc[t] = "idle" /\ ops[t] < MaxOps
Count(t) == ops' = [ops EXCEPT ![t] = @ + 1]

(***************************************************************************)
(* setValue(v), up to the end of its first block: under a read lock,      *)
(* return if v equals m_val, else call every listener with (m_val, v).    *)
(* The read lock is given back before the write lock is asked for.        *)
(***************************************************************************)
setValue(t, x, v) ==
    /\ Locks!CanRdLock(m_mutex[x])
    /\ IF v = m_val[x]
       THEN UNCHANGED <<pc, arg, heard, calls>>
       ELSE /\ heard' = [c \in DOMAIN heard |->
                            IF c \in Listeners(x) THEN v ELSE heard[c]]
            /\ calls' = [c \in DOMAIN calls |->
                            IF c \in Listeners(x) THEN calls[c] + 1 ELSE calls[c]]
            /\ pc' = [pc EXCEPT ![t] = "set_write"]
            /\ arg' = [arg EXCEPT ![t] = [@ EXCEPT !.var = x, !.val = v]]
    /\ UNCHANGED <<m_val, m_cbs, m_mutex, s_fun_id, keys, removed>>

SetValue(t, x, v) == StartCall(t) /\ Count(t) /\ setValue(t, x, v)

(* The rest of setValue: m_val = v under the write lock.                  *)
SetValueWrite(t) ==
    LET x == arg[t].var IN
    /\ pc[t] = "set_write"
    /\ Locks!CanWrLock(m_mutex[x])
    /\ m_val' = [m_val EXCEPT ![x] = arg[t].val]
    /\ pc' = [pc EXCEPT ![t] = "idle"]
    /\ UNCHANGED <<m_cbs, m_mutex, s_fun_id, arg, ops, keys, ghosts>>

(* fromString(s): FromStr throws on a string it cannot convert; the       *)
(* exception is logged and false returned with nothing changed.           *)
FromString(t, x, s) ==
    /\ StartCall(t) /\ Count(t)
    /\ IF s = Unparsable
       THEN UNCHANGED <<m_val, m_cbs, m_mutex, s_fun_id, pc, arg, keys, ghosts>>
       ELSE setValue(t, x, s)

(***************************************************************************)
(* addListener(cb): take the write lock, then s_fun_id++ as the load and  *)
(* the store it compiles to, m_cbs[s_fun_id] = cb and return s_fun_id     *)
(* from the incremented register.                                         *)
(***************************************************************************)
AddListenerLoad(t, x) ==
    /\ StartCall(t) /\ Count(t)
    /\ Locks!CanWrLock(m_mutex[x])
    /\ m_mutex' = [m_mutex EXCEPT ![x] = Locks!WrLock(@, t)]
    /\ arg' = [arg EXCEPT ![t] = [@ EXCEPT !.var = x, !.reg = s_fun_id,
                                          !.cb = <<t, ops[t] + 1>>]]
    /\ pc' = [pc EXCEPT ![t] = "add_store"]
    /\ UNCHANGED <<m_val, m_cbs, s_fun_id, keys, ghosts>>

(* Mutant: the key returned is s_fun_id from before the increment.      *)
AddListenerStoreOldId(t) ==
    LET x == arg[t].var
        id == arg[t].reg + 1
    IN /\ pc[t] = "add_store"
       /\ s_fun_id' = id
       /\ m_cbs' = [m_cbs EXCEPT ![x][id] = arg[t].cb]
       /\ m_mutex' = [m_mutex EXCEPT ![x] = Locks!RWUnlock(@, t)]
       /\ keys' = [keys EXCEPT ![t] = @ \cup {<<x, arg[t].reg, arg[t].cb>>}]
       /\ pc' = [pc EXCEPT ![t] = "idle"]
       /\ UNCHANGED <<m_val, arg, ops, ghosts>>

AddListenerStore(t) ==
    LET x == arg[t].var
        id == arg[t].reg + 1
    IN /\ pc[t] = "add_store"
       /\ s_fun_id' = id
       /\ m_cbs' = [m_cbs EXCEPT ![x][id] = arg[t].cb]
       /\ m_mutex' = [m_mutex EXCEPT ![x] = Locks!RWUnlock(@, t)]
       /\ keys' = [keys EXCEPT ![t] = @ \cup {<<x, id, arg[t].cb>>}]
       /\ pc' = [pc EXCEPT ![t] = "idle"]
       /\ UNCHANGED <<m_val, arg, ops, ghosts>>

DelListener(t, x, id, cb) ==
    /\ StartCall(t) /\ Count(t)
    /\ <<x, id, cb>> \in keys[t]
    /\ Locks!CanWrLock(m_mutex[x])
    /\ m_cbs' = [m_cbs EXCEPT ![x][id] = NoCb]
    /\ keys' = [keys EXCEPT ![t] = @ \ {<<x, id, cb>>}]
    /\ removed' = removed \cup {cb}
    /\ UNCHANGED <<m_val, m_mutex, s_fun_id, pc, arg, heard, calls>>

(* clearListener(): erase every key under the write lock.                 *)
ClearListener(t, x) ==
    /\ StartCall(t) /\ Count(t)
    /\ Locks!CanWrLock(m_mutex[x])
    /\ m_cbs' = [m_cbs EXCEPT ![x] = [k \in Ids |-> NoCb]]
    /\ removed' = removed \cup Listeners(x)
    /\ UNCHANGED <<m_val, m_mutex, s_fun_id, pc, arg, keys, heard, calls>>

(* getValue(), toString() and getListener(key): one read-locked section   *)
(* each, returning m_val, ToStr()(m_val) or the callback under key (its    *)
(* caller's business, not kept).  They wait only while a writer holds the  *)
(* lock; toString's catch cannot fire for the T of the model.              *)
ReadLocked(t, x) ==
    /\ StartCall(t) /\ Count(t)
    /\ Locks!CanRdLock(m_mutex[x])
    /\ UNCHANGED <<m_val, m_cbs, m_mutex, s_fun_id, pc, arg, keys, ghosts>>

GetValue(t, x) == ReadLocked(t, x)
ToString(t, x) == ReadLocked(t, x)
GetListener(t, x, id) == id \in Ids /\ ReadLocked(t, x)

(* Every thread has made its calls: the program goes on without them.     *)
Finished == /\ \A t \in Threads : pc[t] = "idle" /\ ops[t] = MaxOps
            /\ UNCHANGED vars

Init ==
    /\ m_val = [x \in CVars |-> Default]
    /\ m_cbs = [x \in CVars |-> [k \in Ids |-> NoCb]]
    /\ m_mutex = [x \in CVars |-> Locks!FreeRWLock]
    /\ s_fun_id = 0
    /\ pc = [t \in Threads |-> "idle"]
    /\ arg = [t \in Threads |-> [var |-> CHOOSE x \in CVars : TRUE,
                                 val |-> Default, reg |-> 0, cb |-> NoCb]]
    /\ ops = [t \in Threads |-> 0]
    /\ keys = [t \in Threads |-> {}]
    /\ heard = [c \in Cbs |-> NoVal]
    /\ calls = [c \in Cbs |-> 0]
    /\ removed = {}

Next ==
    \/ \E t \in Threads :
          \/ \E x \in CVars :
                \/ \E v \in Vals : SetValue(t, x, v)
                \/ \E s \in Vals \cup {Unparsable} : FromString(t, x, s)
                \/ AddListenerLoad(t, x)
                \/ \E id \in Ids, cb \in Cbs : DelListener(t, x, id, cb)
                \/ ClearListener(t, x)
                \/ GetValue(t, x) \/ ToString(t, x)
                \/ \E id \in Ids : GetListener(t, x, id)
          \/ SetValueWrite(t)
          \/ AddListenerStore(t)
    \/ Finished

Spec == Init /\ [][Next]_vars
-----------------------------------------------------------------------------
TypeOK ==
    /\ m_val \in [CVars -> Vals]
    /\ m_cbs \in [CVars -> [Ids -> Cbs \cup {NoCb}]]
    /\ s_fun_id \in 0..MaxId
    /\ pc \in [Threads -> {"idle", "set_write", "add_store"}]
    /\ ops \in [Threads -> 0..MaxOps]
    /\ keys \in [Threads -> SUBSET (CVars \X Ids \X Cbs)]
    /\ heard \in [Cbs -> Vals \cup {NoVal}]
    /\ removed \subseteq Cbs

Quiescent == \A t \in Threads : pc[t] = "idle"

ListenerSeesFinalValue ==
    Quiescent => \A x \in CVars : \A c \in Listeners(x) :
                     heard[c] \in {NoVal, m_val[x]}

(* addListener never overwrites a listener that is registered: the id it  *)
(* takes from s_fun_id is not in use in that variable.                    *)
AddListenerNeverReplaces ==
    [][\A x \in CVars, k \in Ids :
          m_cbs[x][k] # NoCb => m_cbs'[x][k] \in {m_cbs[x][k], NoCb}]_vars
====
