-------------------------------- MODULE Config --------------------------------
(***************************************************************************)
(* The registry of configuration variables in                              *)
(* src/src/base/util/configReader.h: Config::GetDatas(), the map from name *)
(* to ConfigVarBase::ptr, and the two Config::Lookup overloads, called by  *)
(* concurrent threads.                                                     *)
(*                                                                         *)
(* Lookup(name, default) has its write lock commented out: its find, and   *)
(* the make_shared and map insertion that follow a miss, run unlocked.     *)
(* The insertion (std::map::operator[] and the assignment) is a step of   *)
(* its own, begun and ended, so that finds of other threads can fall      *)
(* inside it.  Lookup(name) finds under GetMutex()'s read lock.            *)
(***************************************************************************)
EXTENDS Naturals, FiniteSets

CONSTANTS
    Threads,
    Names,      \* names made of [0-9a-zA-Z._]
    BadNames,   \* names with another character
    Types,      \* the T of ConfigVar<T>
    Objs,       \* heap slots for ConfigVar<T> objects
    MaxOps,     \* calls per thread
    NoThread, None

ASSUME Names \cap BadNames = {} /\ None \notin Objs

Locks == INSTANCE Locks

VARIABLES
    datas,     \* GetDatas(): name -> object or None
    objType,   \* the T each allocated object was made for; None while free
    s_mutex,   \* GetMutex()
    pc,        \* "idle" or "inserting"
    arg,       \* the Lookup in progress: name, object being inserted
    ops,       \* calls made by each thread
    returned,  \* ghost: (thread, name, type, result) of each finished Lookup
    raced      \* ghost: a find ran while another thread was inserting

vars == <<datas, objType, s_mutex, pc, arg, ops, returned, raced>>

NullPtr == "nullptr"
Thrown == "invalid_argument"

StartCall(t) == pc[t] = "idle" /\ ops[t] < MaxOps
Count(t) == ops' = [ops EXCEPT ![t] = @ + 1]
Inserting == {t \in Threads : pc[t] = "inserting"}

(* std::dynamic_pointer_cast<ConfigVar<T>> of the entry of name.           *)
CastTo(n, T) == IF objType[datas[n]] = T THEN datas[n] ELSE NullPtr

Return(t, n, T, r) == returned' = returned \cup {<<t, n, T, r>>}

(* A find on the map, noting when an unlocked insertion is under way.     *)
Find == raced' = (raced \/ Inserting # {})

(* Mutant: the check of the name's characters dropped.                   *)
LookupOrCreateNoNameCheck(t, n, T) ==
    /\ StartCall(t) /\ Count(t)
    /\ Find
    /\ IF n \in DOMAIN datas /\ datas[n] # None
       THEN /\ Return(t, n, T, CastTo(n, T))
            /\ UNCHANGED <<datas, objType, pc, arg>>
       ELSE \E o \in Objs :
               /\ objType[o] = None
               /\ objType' = [objType EXCEPT ![o] = T]
               /\ pc' = [pc EXCEPT ![t] = "inserting"]
               /\ arg' = [arg EXCEPT ![t] = [name |-> n, obj |-> o, type |-> T]]
               /\ UNCHANGED <<datas, returned>>
    /\ UNCHANGED s_mutex

(***************************************************************************)
(* Lookup(name, default_value): find; return the cast entry when there is *)
(* one; throw for a name with a character outside [0-9a-zA-Z._]; else    *)
(* make_shared a ConfigVar<T> and start GetDatas()[name] = v.             *)
(***************************************************************************)
LookupOrCreate(t, n, T) ==
    /\ StartCall(t) /\ Count(t)
    /\ Find
    /\ IF n \in DOMAIN datas /\ datas[n] # None
       THEN /\ Return(t, n, T, CastTo(n, T))
            /\ UNCHANGED <<datas, objType, pc, arg>>
       ELSE IF n \in BadNames
       THEN /\ Return(t, n, T, Thrown)
            /\ UNCHANGED <<datas, objType, pc, arg>>
       ELSE \E o \in Objs :
               /\ objType[o] = None
               /\ objType' = [objType EXCEPT ![o] = T]
               /\ pc' = [pc EXCEPT ![t] = "inserting"]
               /\ arg' = [arg EXCEPT ![t] = [name |-> n, obj |-> o, type |-> T]]
               /\ UNCHANGED <<datas, returned>>
    /\ UNCHANGED s_mutex

(* The end of GetDatas()[name] = v and return v.                          *)
LookupInsert(t) ==
    LET a == arg[t] IN
    /\ pc[t] = "inserting"
    /\ datas' = [datas EXCEPT ![a.name] = a.obj]
    /\ pc' = [pc EXCEPT ![t] = "idle"]
    /\ Return(t, a.name, a.type, a.obj)
    /\ UNCHANGED <<objType, s_mutex, arg, ops, raced>>

(* Lookup(name): find under the read lock and cast, nullptr when absent.  *)
Lookup(t, n, T) ==
    /\ StartCall(t) /\ Count(t)
    /\ Locks!CanRdLock(s_mutex)
    /\ Find
    /\ Return(t, n, T, IF n \in DOMAIN datas /\ datas[n] # None
                       THEN CastTo(n, T) ELSE NullPtr)
    /\ UNCHANGED <<datas, objType, s_mutex, pc, arg>>

Finished == /\ \A t \in Threads : pc[t] = "idle" /\ ops[t] = MaxOps
            /\ UNCHANGED vars

Init ==
    /\ datas = [n \in Names |-> None]
    /\ objType = [o \in Objs |-> None]
    /\ s_mutex = Locks!FreeRWLock
    /\ pc = [t \in Threads |-> "idle"]
    /\ arg = [t \in Threads |-> [name |-> CHOOSE n \in Names : TRUE,
                                 obj |-> None, type |-> CHOOSE T \in Types : TRUE]]
    /\ ops = [t \in Threads |-> 0]
    /\ returned = {}
    /\ raced = FALSE

Next ==
    \/ \E t \in Threads :
          \/ \E n \in Names \cup BadNames, T \in Types :
                \/ LookupOrCreate(t, n, T)
                \/ Lookup(t, n, T)
          \/ LookupInsert(t)
    \/ Finished

Spec == Init /\ [][Next]_vars
-----------------------------------------------------------------------------
TypeOK ==
    /\ datas \in [Names -> Objs \cup {None}]
    /\ objType \in [Objs -> Types \cup {None}]
    /\ pc \in [Threads -> {"idle", "inserting"}]
    /\ arg \in [Threads -> [name : Names, obj : Objs \cup {None}, type : Types]]
    /\ ops \in [Threads -> 0..MaxOps]
    /\ raced \in BOOLEAN

Results(n) == {r[4] : r \in {x \in returned : x[2] = n}} \ {NullPtr, Thrown}

(* Every Lookup of a name that returns a variable returns the same one,   *)
(* the one the registry holds: a value set through it reaches every user. *)
OneVariablePerName ==
    \A n \in Names : \A o \in Results(n) : datas[n] = o

(* No find on GetDatas() runs while another thread is inside the map's    *)
(* insertion (std::map is not safe for a concurrent reader and writer).   *)
NoFindDuringInsert == ~raced
====
