------------------------------ MODULE SafeLock ------------------------------
(***************************************************************************)
(* The lock every Object carries (lib/base/Object.cpp): Safe holds a       *)
(* pointer ___safe_k to a Safe_K, a recursive pthread mutex that is only   *)
(* created by the first lock() of the object.  The creation is guarded by  *)
(* one process-wide Safe_K, Safe::___static_safe_k.  Every line of         *)
(* Safe::lock that reads or writes shared state is a step of its own, so   *)
(* that the first locks of one object by several threads interleave.       *)
(***************************************************************************)
EXTENDS Integers

CONSTANTS
    Threads,      \* the threads of the process
    N,            \* the objects are 1..N
    MaxKeys,      \* bound: Safe_K's created for one object
    MaxDepth      \* bound: how deep one thread nests lock() of one object

ASSUME ThreadsAssumption == 0 \notin Threads
ASSUME NAssumption == N \in Nat
ASSUME MaxKeysAssumption == MaxKeys \in Nat \ {0}
ASSUME MaxDepthAssumption == MaxDepth \in Nat \ {0}

\* Objects are numbered in the order in which the code nests their locks: a
\* container (Queue, Poll, ArrayBase) is locked before the object it holds.
Objects == 1..N

Keys == 1..MaxKeys

\* The thread id of "no owner", and the NULL of ___safe_k.
Null == 0

VARIABLES
    pc,           \* pc[t]: the line of Safe::lock that t is about to run
    obj,          \* obj[t]: the object whose lock() t is executing
    staticOwner,  \* the owner of ___static_safe_k
    safe_k,       \* safe_k[o]: which Safe_K ___safe_k points to, or Null
    created,      \* created[o]: how many Safe_K were created for o
    owner,        \* owner[o][k]: the thread that owns the k-th Safe_K of o
    depth,        \* depth[o][k]: its recursion count
    hold          \* hold[t][o]: the AutoLocks on o that t is inside of

lockvars == <<pc, obj, staticOwner, safe_k, created, owner, depth, hold>>

LockInit ==
    /\ pc = [t \in Threads |-> "idle"]
    /\ obj = [t \in Threads |-> Null]
    /\ staticOwner = Null
    /\ safe_k = [o \in Objects |-> Null]
    /\ created = [o \in Objects |-> 0]
    /\ owner = [o \in Objects |-> [k \in Keys |-> Null]]
    /\ depth = [o \in Objects |-> [k \in Keys |-> 0]]
    /\ hold = [t \in Threads |-> [o \in Objects |-> 0]]

-----------------------------------------------------------------------------
\* A constructor AutoLock(o) calls o->lock(); locks nest container first.
Call(t, o) ==
    /\ pc[t] = "idle"
    /\ \A h \in Objects : hold[t][h] > 0 => h <= o
    /\ hold[t][o] < MaxDepth
    /\ pc' = [pc EXCEPT ![t] = "static"]
    /\ obj' = [obj EXCEPT ![t] = o]
    /\ UNCHANGED <<staticOwner, safe_k, created, owner, depth, hold>>

\* Mutant of LockStatic: the process-wide mutex does not exclude.
LockStaticOpen(t) ==
    /\ pc[t] = "static"
    /\ staticOwner' = t
    /\ pc' = [pc EXCEPT ![t] = "test"]
    /\ UNCHANGED <<obj, safe_k, created, owner, depth, hold>>

\* ___static_safe_k.lock()
LockStatic(t) ==
    /\ pc[t] = "static"
    /\ staticOwner = Null
    /\ staticOwner' = t
    /\ pc' = [pc EXCEPT ![t] = "test"]
    /\ UNCHANGED <<obj, safe_k, created, owner, depth, hold>>

\* if( !___safe_k )
TestKey(t) ==
    /\ pc[t] = "test"
    /\ pc' = [pc EXCEPT ![t] = IF safe_k[obj[t]] = Null THEN "new" ELSE "unstatic"]
    /\ UNCHANGED <<obj, staticOwner, safe_k, created, owner, depth, hold>>

\* ___safe_k = new Safe_K();
NewKey(t) ==
    /\ pc[t] = "new"
    /\ created[obj[t]] < MaxKeys
    /\ created' = [created EXCEPT ![obj[t]] = @ + 1]
    /\ safe_k' = [safe_k EXCEPT ![obj[t]] = created[obj[t]] + 1]
    /\ pc' = [pc EXCEPT ![t] = "unstatic"]
    /\ UNCHANGED <<obj, staticOwner, owner, depth, hold>>

\* Mutant of UnlockStatic: the process-wide mutex is held until that of the
\* object is free.
UnlockStaticLate(t) ==
    /\ pc[t] = "unstatic"
    /\ owner[obj[t]][safe_k[obj[t]]] \in {Null, t}
    /\ staticOwner' = IF staticOwner = t THEN Null ELSE staticOwner
    /\ pc' = [pc EXCEPT ![t] = "key"]
    /\ UNCHANGED <<obj, safe_k, created, owner, depth, hold>>

\* ___static_safe_k.unlock()
UnlockStatic(t) ==
    /\ pc[t] = "unstatic"
    /\ staticOwner' = IF staticOwner = t THEN Null ELSE staticOwner
    /\ pc' = [pc EXCEPT ![t] = "key"]
    /\ UNCHANGED <<obj, safe_k, created, owner, depth, hold>>

\* return ___safe_k->lock(): a recursive mutex admits its owner again.
LockKey(t) ==
    LET o == obj[t]
        k == safe_k[o]
    IN  /\ pc[t] = "key"
        /\ owner[o][k] \in {Null, t}
        /\ owner' = [owner EXCEPT ![o][k] = t]
        /\ depth' = [depth EXCEPT ![o][k] = @ + 1]
        /\ hold' = [hold EXCEPT ![t][o] = @ + 1]
        /\ pc' = [pc EXCEPT ![t] = "idle"]
        /\ obj' = [obj EXCEPT ![t] = Null]
        /\ UNCHANGED <<staticOwner, safe_k, created>>

\* ~AutoLock calls o->unlock(), which unlocks whatever ___safe_k points to
\* now; pthread refuses the unlock of a mutex the caller does not own.
Unlock(t, o) ==
    LET k == safe_k[o]
        mine == owner[o][k] = t
        last == depth[o][k] = 1
    IN  /\ pc[t] = "idle"
        /\ hold[t][o] > 0
        /\ owner' = IF mine /\ last THEN [owner EXCEPT ![o][k] = Null] ELSE owner
        /\ depth' = IF mine THEN [depth EXCEPT ![o][k] = @ - 1] ELSE depth
        /\ hold' = [hold EXCEPT ![t][o] = @ - 1]
        /\ UNCHANGED <<pc, obj, staticOwner, safe_k, created>>

LockNext ==
    \E t \in Threads :
        \/ \E o \in Objects : Call(t, o) \/ Unlock(t, o)
        \/ LockStatic(t) \/ TestKey(t) \/ NewKey(t) \/ UnlockStatic(t) \/ LockKey(t)

\* A thread runs on as long as it can.  pthread hands a free mutex to one of the
\* waiters (strong fairness: no waiter is passed over for ever).  A thread that
\* is not itself waiting leaves its AutoLock scopes, whatever it locks inside
\* of them; none of the code's scopes loops without end.
LockFairness ==
    \A t \in Threads :
        /\ WF_lockvars(TestKey(t)) /\ WF_lockvars(NewKey(t)) /\ WF_lockvars(UnlockStatic(t))
        /\ SF_lockvars(LockStatic(t)) /\ SF_lockvars(LockKey(t))
        /\ \A o \in Objects : /\ SF_lockvars(Unlock(t, o))
                             /\ SF_lockvars(hold[t][o] = 1 /\ Unlock(t, o))

LockSpec == LockInit /\ [][LockNext]_lockvars

FairLockSpec == LockSpec /\ LockFairness

-----------------------------------------------------------------------------
\* The type of every variable (Safe, Safe_K and AutoLock in Object.h).
LockTypes ==
    /\ pc \in [Threads -> {"idle", "static", "test", "new", "unstatic", "key"}]
    /\ obj \in [Threads -> Objects \cup {Null}]
    /\ staticOwner \in Threads \cup {Null}
    /\ safe_k \in [Objects -> Keys \cup {Null}]
    /\ created \in [Objects -> 0..MaxKeys]
    /\ owner \in [Objects -> [Keys -> Threads \cup {Null}]]
    /\ depth \in [Objects -> [Keys -> Nat]]
    /\ hold \in [Threads -> [Objects -> 0..MaxDepth]]

\* AutoLock excludes: two threads are never inside an AutoLock of one object,
\* although the mutex itself is created by whoever locks first.
MutualExclusion ==
    \A o \in Objects : \A t, u \in Threads :
        hold[t][o] > 0 /\ hold[u][o] > 0 => t = u

\* One mutex per object: the lazy creation never makes a second Safe_K (which
\* would leak the first and split the threads between two mutexes), and a
\* thread that is past the test always finds one to lock.
SingleKey ==
    /\ \A o \in Objects : created[o] <= 1
    /\ \A t \in Threads : pc[t] \in {"unstatic", "key"} => safe_k[obj[t]] # Null

\* Every lock() that was called returns, however many threads race to create
\* the mutex and however their scopes nest: a thread that waits for the mutex of
\* an object does not hold the process-wide one, which the owner of the first
\* may need to get out of its scopes.
LockReturns == \A t \in Threads : pc[t] = "static" ~> pc[t] = "idle"
=============================================================================
