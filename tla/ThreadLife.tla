----------------------------- MODULE ThreadLife -----------------------------
(***************************************************************************)
(* The life of a Thread (lib/base/Thread.cpp) and the list of running      *)
(* threads in ThreadManager (lib/base/ThreadManager.cpp).  A Thread object *)
(* outlives its pthread and can be started again, so o's pthreads are      *)
(* numbered 1..starts[o].  One controller (HttpdService, HostManager)      *)
(* calls start, stop, join, detach, joinAll and cancelAll, one at a time.  *)
(* A locked block is one step, except where a second lock is taken inside  *)
(* it: ___run holds the thread's lock while it waits for the manager's,    *)
(* cancelAll holds the manager's while it waits for each thread's.         *)
(* m_bCancle, signals and the time stamps, which no decision reads, are    *)
(* left out.                                                               *)
(***************************************************************************)
EXTENDS Integers, FiniteSets

CONSTANTS
    Objs,         \* the Thread objects
    None,
    JoinGarbage,  \* the objects whose uninitialised m_bJoin reads as true
    Starts        \* bounds: how often the objects may be started, as functions

ASSUME NoneAssumption == None \notin Objs
ASSUME GarbageAssumption == JoinGarbage \subseteq Objs
ASSUME StartsAssumption == Starts \subseteq [Objs -> Nat]

Runs == UNION {UNION {1..f[o] : o \in Objs} : f \in Starts}

VARIABLES
    starts,       \* how often each object may be started in this behaviour
    m_status, m_bRunnable, m_bStopped, m_bJoin, m_bDetach,
    m_handle,     \* m_handle[o]: which pthread of o, 0 before the first
    held,         \* held[o]: the pthread that keeps o's lock while it waits, or 0
    th,           \* th[o][n]: where pthread n of o is in ___run
    kernel,       \* kernel[o][n]: the pthread library's record of it
    cancelReq,    \* the pthreads that pthread_cancel was called for
    m_aList,      \* the manager's nodes <<thread, handle>>
    m_refcount, m_iscancel,
    ctl           \* the controller: step, object, whether inside joinAll, and
                  \* what it has left: a pthread number or cancelAll's nodes

base == <<starts, m_status, m_bRunnable, m_bStopped, m_bJoin, m_bDetach, m_handle>>
mana == <<m_aList, m_refcount, m_iscancel>>
vars == <<base, held, th, kernel, cancelReq, mana, ctl>>

Idle == [pc |-> "idle", o |-> None, all |-> FALSE, n |-> 0, todo |-> {}]

\* Where the controller goes after a join: joinAll ignores the result and loops.
AfterJoin == IF ctl.all THEN [Idle EXCEPT !.pc = "get", !.all = TRUE] ELSE Idle

\* A block locked by AutoLock(o) can run: no pthread keeps the lock.
Free(o) == held[o] = 0

\* cancelAll holds the manager's lock during its loop.
ManagerFree == ctl.pc # "cancel"

Init ==
    /\ starts \in Starts
    /\ m_status = [o \in Objs |-> "INIT"]
    /\ m_bRunnable = [o \in Objs |-> FALSE]
    /\ m_bStopped = [o \in Objs |-> FALSE]
    /\ m_bJoin = [o \in Objs |-> o \in JoinGarbage]
    /\ m_bDetach = [o \in Objs |-> FALSE]
    /\ m_handle = [o \in Objs |-> 0]
    /\ held = [o \in Objs |-> 0]
    /\ th = [o \in Objs |-> [n \in Runs |-> "none"]]
    /\ kernel = [o \in Objs |-> [n \in Runs |-> "attached"]]
    /\ cancelReq = {}
    /\ m_aList = {} /\ m_refcount = 0 /\ m_iscancel = FALSE
    /\ ctl = Idle

Goto(pc) == ctl' = [ctl EXCEPT !.pc = pc]

-----------------------------------------------------------------------------
(* The controller: start() *)

\* Mutant of Startable: a thread that has left run() may be started.
StartableEarly(o) == m_status[o] \in {"INIT", "EXIT", "STOP"}

\* start_check(), which reads m_status without the lock.
Startable(o) == m_status[o] \in {"INIT", "EXIT"}

\* start_check passes and start_real prepares; when onPrepare fails it returns
\* with the status READY.
Start(o) ==
    /\ ctl.pc = "idle" /\ Startable(o)
    /\ m_handle[o] < starts[o]
    /\ m_bRunnable' = [m_bRunnable EXCEPT ![o] = FALSE]
    /\ m_status' = [m_status EXCEPT ![o] = "READY"]
    /\ \/ ctl' = [Idle EXCEPT !.pc = "create", !.o = o]
       \/ UNCHANGED ctl
    /\ UNCHANGED <<starts, m_bStopped, m_bJoin, m_bDetach, m_handle, held, th, kernel,
                   cancelReq, mana>>

\* pthread_create stores the handle before the thread runs (glibc).  Its errors
\* are positive, so "< 0" never sees one and start_real waits all the same.
Create ==
    LET o == ctl.o
        n == m_handle[o] + 1
    IN  /\ ctl.pc = "create"
        /\ \/ /\ m_handle' = [m_handle EXCEPT ![o] = n]
              /\ th' = [th EXCEPT ![o][n] = "new"]
              /\ ctl' = [ctl EXCEPT !.pc = "wait", !.n = n]
           \/ /\ Goto("wait")
              /\ UNCHANGED <<m_handle, th>>
        /\ UNCHANGED <<starts, m_status, m_bRunnable, m_bStopped, m_bJoin, m_bDetach, held,
                       kernel, cancelReq, mana>>

\* The poll for m_bRunnable succeeds: start() returns NULL.
StartSucceeds ==
    /\ ctl.pc = "wait" /\ Free(ctl.o)
    /\ m_bRunnable[ctl.o]
    /\ ctl' = Idle
    /\ UNCHANGED <<base, held, th, kernel, cancelReq, mana>>

\* rcount > 900: start() returns an error, the pthread may still come up.
StartGivesUp ==
    /\ ctl.pc = "wait" /\ Free(ctl.o)
    /\ ~m_bRunnable[ctl.o]
    /\ ctl' = Idle
    /\ UNCHANGED <<base, held, th, kernel, cancelReq, mana>>

-----------------------------------------------------------------------------
(* The controller: stop(), join(), detach() *)

\* Mutant of Detached: the pthread is detached, the object does not know.
DetachedUnmarked(o) ==
    /\ UNCHANGED m_bDetach
    /\ kernel' = [kernel EXCEPT ![o][m_handle[o]] =
                    IF @ = "attached" THEN "detached" ELSE @]

\* pthread_detach(m_handle) has no effect on a pthread that somebody joins.
Detached(o) ==
    /\ m_bDetach' = [m_bDetach EXCEPT ![o] = TRUE]
    /\ kernel' = [kernel EXCEPT ![o][m_handle[o]] =
                    IF @ = "attached" THEN "detached" ELSE @]

Stop(o) ==
    /\ ctl.pc = "idle" /\ Free(o)
    /\ m_bStopped' = [m_bStopped EXCEPT ![o] = TRUE]
    /\ UNCHANGED <<starts, m_status, m_bRunnable, m_bJoin, m_bDetach, m_handle, held, th,
                   kernel, cancelReq, mana, ctl>>

\* join() is called for a thread that was started.
Join(o) ==
    /\ ctl.pc = "idle" /\ m_handle[o] # 0
    /\ ctl' = [Idle EXCEPT !.pc = "join", !.o = o]
    /\ UNCHANGED <<base, held, th, kernel, cancelReq, mana>>

\* { AutoLock _l(this); m_bJoin = true; }
JoinFlag ==
    /\ ctl.pc = "join" /\ Free(ctl.o)
    /\ m_bJoin' = [m_bJoin EXCEPT ![ctl.o] = TRUE]
    /\ Goto("pthread_join")
    /\ UNCHANGED <<starts, m_status, m_bRunnable, m_bStopped, m_bDetach, m_handle, held, th,
                   kernel, cancelReq, mana>>

\* pthread_join(m_handle) (external): it becomes the pthread's one joiner, or
\* fails at once when the pthread is detached or was joined before.
PthreadJoin ==
    LET o == ctl.o
        n == m_handle[o]
    IN  /\ ctl.pc = "pthread_join"
        /\ \/ /\ kernel[o][n] = "attached"
              /\ kernel' = [kernel EXCEPT ![o][n] = "joining"]
              /\ ctl' = [ctl EXCEPT !.pc = "joining", !.n = n]
           \/ /\ kernel[o][n] # "attached"
              /\ Goto("joinfail")
              /\ UNCHANGED kernel
        /\ UNCHANGED <<base, held, th, cancelReq, mana>>

Joined ==
    /\ ctl.pc = "joining"
    /\ th[ctl.o][ctl.n] \in {"ended", "cancelled"}
    /\ kernel' = [kernel EXCEPT ![ctl.o][ctl.n] = "joined"]
    /\ ctl' = AfterJoin
    /\ UNCHANGED <<base, held, th, cancelReq, mana>>

\* Mutant of JoinFails: a join() that fails is tried again.
JoinFailsRetry ==
    /\ ctl.pc = "joinfail" /\ Free(ctl.o)
    /\ m_bJoin' = [m_bJoin EXCEPT ![ctl.o] = FALSE]
    /\ Goto("join")
    /\ UNCHANGED <<starts, m_status, m_bRunnable, m_bStopped, m_bDetach, m_handle, held, th,
                   kernel, cancelReq, mana>>

\* The error path of join() takes its announcement back.
JoinFails ==
    /\ ctl.pc = "joinfail" /\ Free(ctl.o)
    /\ m_bJoin' = [m_bJoin EXCEPT ![ctl.o] = FALSE]
    /\ ctl' = AfterJoin
    /\ UNCHANGED <<starts, m_status, m_bRunnable, m_bStopped, m_bDetach, m_handle, held, th,
                   kernel, cancelReq, mana>>

Detach(o) ==
    /\ ctl.pc = "idle" /\ m_handle[o] # 0 /\ Free(o)
    /\ Detached(o)
    /\ UNCHANGED <<starts, m_status, m_bRunnable, m_bStopped, m_bJoin, m_handle, held, th,
                   cancelReq, mana, ctl>>

-----------------------------------------------------------------------------
(* The controller: joinAll() and cancelAll() *)

JoinAll ==
    /\ ctl.pc = "idle"
    /\ ctl' = [Idle EXCEPT !.pc = "get", !.all = TRUE]
    /\ UNCHANGED <<base, held, th, kernel, cancelReq, mana>>

\* get(0): the node with the smallest handle, which may be any of them.
JoinAllGet ==
    /\ ctl.pc = "get"
    /\ \/ m_aList = {} /\ ctl' = Idle
       \/ \E node \in m_aList : ctl' = [ctl EXCEPT !.pc = "join", !.o = node[1]]
    /\ UNCHANGED <<base, held, th, kernel, cancelReq, mana>>

\* cancelAll() locks the manager and walks over its nodes.
CancelAll ==
    /\ ctl.pc = "idle" /\ ~m_iscancel
    /\ m_iscancel' = TRUE
    /\ ctl' = [Idle EXCEPT !.pc = "cancel", !.todo = m_aList]
    /\ UNCHANGED <<base, held, th, kernel, cancelReq, m_aList, m_refcount>>

\* cancel() of one thread needs that thread's lock.
Cancel(node) ==
    /\ ctl.pc = "cancel" /\ node \in ctl.todo
    /\ Free(node[1])
    /\ cancelReq' = cancelReq \cup {<<node[1], m_handle[node[1]]>>}
    /\ ctl' = [ctl EXCEPT !.todo = @ \ {node}]
    /\ UNCHANGED <<base, held, th, kernel, mana>>

\* The loop is over and cancelAll returns joinAll().
CancelAllJoins ==
    /\ ctl.pc = "cancel" /\ ctl.todo = {}
    /\ ctl' = [Idle EXCEPT !.pc = "get", !.all = TRUE]
    /\ UNCHANGED <<base, held, th, kernel, cancelReq, mana>>

-----------------------------------------------------------------------------
(* The pthread: ___run() *)

\* Pthread n of o goes from one step of ___run to the next.
Go(o, n, from, to) ==
    /\ th[o][n] = from
    /\ th' = [th EXCEPT ![o][n] = to]

\* p->m_bRunnable = true
Come(o, n) ==
    /\ Go(o, n, "new", "up") /\ Free(o)
    /\ m_bRunnable' = [m_bRunnable EXCEPT ![o] = TRUE]
    /\ UNCHANGED <<starts, m_status, m_bStopped, m_bJoin, m_bDetach, m_handle, held, kernel,
                   cancelReq, mana, ctl>>

\* AutoLock _l(p) before insert() and before remove(): p's lock is kept while
\* the manager's is not free.
Lock(o, n) ==
    /\ Go(o, n, "up", "insert") \/ Go(o, n, "out", "remove")
    /\ Free(o)
    /\ held' = [held EXCEPT ![o] = n]
    /\ UNCHANGED <<base, kernel, cancelReq, mana, ctl>>

\* ThreadManager::insert() counts the thread also when it refuses it.
Insert(o, n) ==
    /\ Go(o, n, "insert", "start")
    /\ ManagerFree
    /\ held' = [held EXCEPT ![o] = 0]
    /\ m_refcount' = m_refcount + 1
    /\ m_aList' = IF m_iscancel THEN m_aList ELSE m_aList \cup {<<o, m_handle[o]>>}
    /\ UNCHANGED <<base, kernel, cancelReq, m_iscancel, ctl>>

\* BaseThread::run(): onStart fails, or the thread's own run() is entered.
OnStart(o, n) ==
    /\ \/ /\ Go(o, n, "start", "body")
          /\ m_status' = [m_status EXCEPT ![o] = "RUN"]
       \/ /\ Go(o, n, "start", "out")
          /\ UNCHANGED m_status
    /\ UNCHANGED <<starts, m_bRunnable, m_bStopped, m_bJoin, m_bDetach, m_handle, held, kernel,
                   cancelReq, mana, ctl>>

\* The thread's run() returns: because of isstop(), or by itself.
RunReturns(o, n) ==
    /\ Go(o, n, "body", "out")
    /\ m_status' = [m_status EXCEPT ![o] = "STOP"]
    /\ UNCHANGED <<starts, m_bRunnable, m_bStopped, m_bJoin, m_bDetach, m_handle, held, kernel,
                   cancelReq, mana, ctl>>

\* A cancelled pthread dies in onStart() or run(); only onCleanup() is called.
DieCancelled(o, n) ==
    /\ <<o, n>> \in cancelReq
    /\ Go(o, n, "start", "cancelled") \/ Go(o, n, "body", "cancelled")
    /\ UNCHANGED <<base, held, kernel, cancelReq, mana, ctl>>

\* Mutant of Remove: the status allows a start() before the node is gone.
RemoveLater(o, n) ==
    /\ Go(o, n, "remove", "decide")
    /\ ManagerFree
    /\ held' = [held EXCEPT ![o] = 0]
    /\ m_refcount' = m_refcount - 1
    /\ m_status' = [m_status EXCEPT ![o] = "EXIT"]
    /\ UNCHANGED <<starts, m_bRunnable, m_bStopped, m_bJoin, m_bDetach, m_handle, kernel,
                   cancelReq, m_aList, m_iscancel, ctl>>

\* thdmana->remove(p->handle()); p->m_status = EXIT, in one locked block.
Remove(o, n) ==
    /\ Go(o, n, "remove", "decide")
    /\ ManagerFree
    /\ held' = [held EXCEPT ![o] = 0]
    /\ m_refcount' = m_refcount - 1
    /\ m_aList' = m_aList \ {<<o, m_handle[o]>>}
    /\ m_status' = [m_status EXCEPT ![o] = "EXIT"]
    /\ UNCHANGED <<starts, m_bRunnable, m_bStopped, m_bJoin, m_bDetach, m_handle, kernel,
                   cancelReq, m_iscancel, ctl>>

CanDetach(o) == ~m_bDetach[o] /\ ~m_bJoin[o]

\* candetach is computed under the lock and used after it.
Decide(o, n) ==
    /\ Free(o)
    /\ Go(o, n, "decide", IF CanDetach(o) THEN "detach" ELSE "exit")
    /\ UNCHANGED <<base, held, kernel, cancelReq, mana, ctl>>

\* p->detach(): whatever m_handle is by then.
SelfDetach(o, n) ==
    /\ Free(o)
    /\ Go(o, n, "detach", "exit")
    /\ Detached(o)
    /\ UNCHANGED <<starts, m_status, m_bRunnable, m_bStopped, m_bJoin, m_handle, held,
                   cancelReq, mana, ctl>>

\* pthread_exit(obj) or return NULL.
Exit(o, n) ==
    /\ Free(o)
    /\ Go(o, n, "exit", "ended")
    /\ UNCHANGED <<base, held, kernel, cancelReq, mana, ctl>>

-----------------------------------------------------------------------------
StartStep == Create \/ StartSucceeds \/ StartGivesUp
JoinStep == JoinFlag \/ PthreadJoin \/ Joined \/ JoinFails \/ JoinAllGet
CancelStep == (\E node \in ctl.todo : Cancel(node)) \/ CancelAllJoins

Controller ==
    \/ \E o \in Objs : Start(o) \/ Stop(o) \/ Join(o) \/ Detach(o)
    \/ JoinAll \/ CancelAll \/ StartStep \/ JoinStep \/ CancelStep

\* The steps of ___run that end by themselves.
RunStep(o, n) ==
    \/ Come(o, n) \/ Lock(o, n) \/ Insert(o, n) \/ OnStart(o, n)
    \/ Remove(o, n) \/ Decide(o, n) \/ SelfDetach(o, n) \/ Exit(o, n)

Next ==
    \/ Controller
    \/ \E o \in Objs, n \in Runs :
          RunStep(o, n) \/ RunReturns(o, n) \/ DieCancelled(o, n)

\* A pthread and an operation the controller has begun run on; run() is only
\* sure to return once it was told to stop.
Fairness ==
    /\ WF_vars(StartStep) /\ WF_vars(JoinStep)
    /\ \A o \in Objs, n \in Runs :
          WF_vars(RunStep(o, n)) /\ WF_vars(m_bStopped[o] /\ RunReturns(o, n))

Spec == Init /\ [][Next]_vars /\ Fairness
-----------------------------------------------------------------------------
Places == {"none", "new", "up", "insert", "start", "body", "out", "remove",
           "decide", "detach", "exit", "ended", "cancelled"}

\* Every flag, list entry and program counter keeps its type.
TypeOK ==
    /\ starts \in Starts /\ m_status \in [Objs -> {"INIT", "READY", "RUN", "STOP", "EXIT"}]
    /\ m_bRunnable \in [Objs -> BOOLEAN] /\ m_bStopped \in [Objs -> BOOLEAN]
    /\ m_bJoin \in [Objs -> BOOLEAN] /\ m_bDetach \in [Objs -> BOOLEAN]
    /\ m_handle \in [Objs -> (Runs \cup {0})] /\ held \in [Objs -> (Runs \cup {0})]
    /\ th \in [Objs -> [Runs -> Places]]
    /\ kernel \in [Objs -> [Runs -> {"attached", "detached", "joining", "joined"}]]
    /\ cancelReq \subseteq Objs \X Runs
    /\ m_aList \subseteq Objs \X Runs
    /\ m_refcount \in Int /\ m_iscancel \in BOOLEAN
    /\ ctl \in [pc : {"idle", "create", "wait", "join", "pthread_join", "joining",
                      "joinfail", "get", "cancel"},
                o : Objs \cup {None}, all : BOOLEAN, n : (Runs \cup {0}),
                todo : SUBSET (Objs \X Runs)]

\* Pthreads that may still run the object's code or touch the manager's list.
Active(o) ==
    {n \in Runs : th[o][n] \in {"new", "up", "insert", "start", "body", "out", "remove"}}

\* Pthreads between their insert() and their remove().
Registered ==
    {p \in Objs \X Runs :
        th[p[1]][p[2]] \in {"start", "body", "out", "remove", "cancelled"}}

\* At most one pthread runs a Thread object, and it is the one m_handle names:
\* also after a start() that gave up waiting, a failed onPrepare and restarts.
OneRunner ==
    \A o \in Objs : \A n \in Active(o) : Active(o) = {n} /\ n = m_handle[o]

\* ThreadManager's list holds exactly the threads that run, so that joinAll and
\* the signal handler find each of them and never one that is gone; after a
\* cancelAll threads may be missing, and cancelled ones are never taken out.
ListExact ==
    /\ m_aList \subseteq Registered
    /\ ~m_iscancel => m_aList = Registered
    /\ m_refcount = Cardinality(Registered)

\* A pthread that ended gives its memory back: it was detached or joined, or the
\* controller is just joining it.  (Not for a restarted object, nor where the
\* uninitialised m_bJoin reads as true: then the pthread may be leaked.)
FirstRunReclaimed ==
    \A o \in Objs \ JoinGarbage :
        m_handle[o] = 1 /\ th[o][1] = "ended" =>
            \/ kernel[o][1] \in {"detached", "joined"}
            \/ ctl.o = o /\ ctl.pc \in {"pthread_join", "joining"}

\* Whatever join() returns (its callers ignore it), the thread has left its run()
\* and the manager's list or was cancelled, unless somebody had detached it: the
\* caller, or the pthread of an earlier run that ended late.
JoinWaits ==
    [][\A o \in Objs :
          ctl.pc \in {"joining", "joinfail"} /\ ctl.o = o /\ ctl'.pc # ctl.pc
          => Active(o) = {} \/ m_bDetach[o]]_vars

\* joinAll() returns when every thread was told to stop.
JoinAllEnds == (ctl.all /\ ~m_iscancel /\ \A o \in Objs : m_bStopped[o]) ~> ctl.pc = "idle"

\* The books on the threads are right: the list and the number of those that run,
\* and the memory of those that ended.
ThreadsAccounted == TypeOK /\ ListExact /\ FirstRunReclaimed
=============================================================================
