------------------------- MODULE Threads_proofs -------------------------
(***************************************************************************)
(* Proofs about the two primitives of lib/base that every other part runs  *)
(* on, for any number of threads: ThreadLife, which starts and ends them,  *)
(* and SafeLock, which excludes them from each other.                      *)
(***************************************************************************)
EXTENDS ThreadLife, SafeLock, FiniteSetTheorems, TLAPS

-----------------------------------------------------------------------------
(***************************************************************************)
(* ThreadLife, for any set of Thread objects and any number of restarts.   *)
(*                                                                         *)
(* That one pthread runs an object is not inductive: start() decides on    *)
(* m_status alone, and create comes a step after the decision.  The        *)
(* invariant ties the status and the controller's place to the pthreads,   *)
(* the manager's list to where each pthread is, and the pthread library's  *)
(* record to m_bJoin, m_bDetach and the join the controller is in.         *)
(***************************************************************************)

ActivePlaces == {"new", "up", "insert", "start", "body", "out", "remove"}
ListedPlaces == {"start", "body", "out", "remove", "cancelled"}
JoinPlaces == {"join", "pthread_join", "joining", "joinfail"}

\* No pthread has come up that m_handle has not counted; start() stays in its bound.
Numbered ==
    /\ \A o \in Objs, n \in Runs : n > m_handle[o] => th[o][n] = "none"
    /\ ctl.pc = "create" => m_handle[ctl.o] < starts[ctl.o]

\* A pthread in the object's code is the last one, and no other can be created:
\* neither now nor once start() has prepared.
Single ==
    /\ \A o \in Objs, n \in Runs :
          th[o][n] \in ActivePlaces =>
              /\ n = m_handle[o]
              /\ m_status[o] \notin {"INIT", "EXIT"}
              /\ ~(ctl.pc = "create" /\ ctl.o = o)
    /\ ctl.pc = "create" => m_status[ctl.o] = "READY"

\* The controller works on an object; it joins one that was started.
Control ==
    /\ ctl.pc \in JoinPlaces \cup {"create", "wait"} => ctl.o \in Objs
    /\ ctl.pc \in JoinPlaces => m_handle[ctl.o] # 0
    /\ ctl.pc = "joining" =>
          ctl.n = m_handle[ctl.o] /\ kernel[ctl.o][ctl.n] = "joining"
    /\ ctl.pc = "joinfail" => kernel[ctl.o][m_handle[ctl.o]] # "attached"
    /\ \A node \in ctl.todo : m_handle[node[1]] # 0

\* The pthread library's record of a pthread has its reason.
Recorded ==
    \A o \in Objs, n \in Runs :
        /\ kernel[o][n] = "detached" => m_bDetach[o]
        /\ kernel[o][n] = "joined" => th[o][n] \in {"ended", "cancelled"}
        /\ kernel[o][n] = "joining" => ctl.pc = "joining" /\ ctl.o = o /\ ctl.n = n

\* Somebody answers for the memory of o's first pthread.
Claimed(o) == kernel[o][1] # "attached" \/ (ctl.pc = "pthread_join" /\ ctl.o = o)

\* m_bDetach and m_bJoin mean what Decide takes them for, in an object's first run.
FirstRun ==
    \A o \in Objs :
        /\ m_handle[o] = 0 => ~m_bDetach[o] /\ (o \notin JoinGarbage => ~m_bJoin[o])
        /\ m_handle[o] = 1 =>
              /\ m_bDetach[o] => kernel[o][1] # "attached"
              /\ o \notin JoinGarbage =>
                    (m_bJoin[o] \/ th[o][1] \in {"exit", "ended"} => Claimed(o))

\* The manager's list, which is finite: its length is compared with a number.
Listed == ListExact /\ IsFiniteSet(Registered)

IInv == TypeOK /\ Numbered /\ Single /\ Control /\ Recorded /\ FirstRun /\ Listed
-----------------------------------------------------------------------------
(* Pthread numbers. *)

LEMMA RunsAreNat == \A n \in Runs : n \in Nat /\ n > 0
  BY StartsAssumption DEF Runs

LEMMA HandleIsNat ==
    ASSUME TypeOK, NEW o \in Objs
    PROVE  /\ m_handle[o] \in Nat
           /\ m_handle[o] # 0 => m_handle[o] \in Runs
<1>1. m_handle[o] \in Runs \/ m_handle[o] = 0
  BY DEF TypeOK
<1> QED
  BY <1>1, RunsAreNat

\* An object that may be started again has a number for its next pthread.
LEMMA NextRun ==
    ASSUME TypeOK, NEW o \in Objs, m_handle[o] < starts[o]
    PROVE  m_handle[o] + 1 \in Runs
<1>1. starts \in Starts /\ starts[o] \in Nat
  BY StartsAssumption DEF TypeOK
<1>2. m_handle[o] \in Nat
  BY HandleIsNat
<1>3. m_handle[o] + 1 \in 1 .. starts[o]
  BY <1>1, <1>2
<1>4. m_handle[o] + 1 \in UNION {1 .. starts[x] : x \in Objs}
  BY <1>3
<1> QED
  BY <1>1, <1>4 DEF Runs

\* The manager's list names threads that were started.
LEMMA ListedWereStarted ==
    ASSUME IInv, NEW node \in m_aList
    PROVE  node[1] \in Objs /\ m_handle[node[1]] \in Runs
<1>1. node \in Objs \X Runs /\ th[node[1]][node[2]] # "none"
  BY DEF IInv, Listed, ListExact, Registered
<1>2. node[2] <= m_handle[node[1]]
  <2>1. m_handle[node[1]] \in Nat /\ node[2] \in Nat
    BY <1>1, HandleIsNat, RunsAreNat DEF IInv
  <2>2. ~(node[2] > m_handle[node[1]])
    BY <1>1 DEF IInv, Numbered
  <2> QED
    BY <2>1, <2>2
<1>3. m_handle[node[1]] # 0
  <2>1. node[2] \in Runs
    BY <1>1
  <2>2. node[2] \in Nat /\ node[2] > 0
    BY <2>1, RunsAreNat
  <2> QED
    BY <1>2, <2>2
<1> QED
  BY <1>1, <1>3, HandleIsNat DEF IInv

-----------------------------------------------------------------------------
(* Steps of the controller that leave the threads alone. *)

LEMMA ListedKept ==
    ASSUME Listed, UNCHANGED <<th, m_aList, m_refcount>>, m_iscancel => m_iscancel'
    PROVE  Listed'
  BY DEF Listed, ListExact, Registered

\* The controller goes from one operation to another, and only its place changes.
LEMMA ControllerMoves ==
    ASSUME IInv, TypeOK',
           UNCHANGED <<starts, m_status, m_bJoin, m_bDetach, m_handle, th, kernel,
                       m_aList, m_refcount>>,
           m_iscancel => m_iscancel',
           ctl.pc \notin {"pthread_join", "joining"},
           ctl'.pc \in {"idle", "get", "join", "cancel"},
           ctl'.pc = "join" => ctl'.o \in Objs /\ m_handle[ctl'.o] # 0,
           \A node \in ctl'.todo : m_handle[node[1]] # 0
    PROVE  IInv'
<1>1. Numbered' /\ Single' /\ Recorded'
  BY DEF IInv, Numbered, Single, Recorded
<1>2. Control'
  BY DEF Control, JoinPlaces
<1>3. FirstRun'
  BY DEF IInv, FirstRun, Claimed
<1>4. Listed'
  BY ListedKept DEF IInv
<1> QED
  BY <1>1, <1>2, <1>3, <1>4 DEF IInv

LEMMA StartEnds == IInv /\ (StartSucceeds \/ StartGivesUp) => IInv'
<1> SUFFICES ASSUME IInv, StartSucceeds \/ StartGivesUp  PROVE IInv'
  OBVIOUS
<1>1. /\ ctl.pc = "wait" /\ ctl' = Idle
      /\ UNCHANGED <<base, held, th, kernel, cancelReq, mana>>
  BY DEF StartSucceeds, StartGivesUp
<1>2. TypeOK'
  BY <1>1 DEF IInv, TypeOK, Idle, base, mana
<1> QED
  BY <1>1, <1>2, ControllerMoves DEF Idle, base, mana

LEMMA StopStep == ASSUME IInv, NEW o \in Objs, Stop(o)  PROVE IInv'
<1>1. TypeOK'
  BY DEF IInv, TypeOK, Stop, mana
<1>2. \A node \in ctl.todo : m_handle[node[1]] # 0
  BY DEF IInv, Control
<1> QED
  BY <1>1, <1>2, ControllerMoves DEF Stop, mana

LEMMA JoinBegins == ASSUME IInv, NEW o \in Objs, Join(o)  PROVE IInv'
<1>1. TypeOK'
  BY DEF IInv, TypeOK, Join, Idle, base, mana
<1> QED
  BY <1>1, ControllerMoves DEF Join, Idle, base, mana

LEMMA JoinAllStep == ASSUME IInv, JoinAll \/ JoinAllGet \/ CancelAllJoins  PROVE IInv'
<1> USE DEF Idle, base, mana
<1>1. CASE JoinAll \/ CancelAllJoins
  <2>1. TypeOK'
    <3>1. /\ ctl' = [Idle EXCEPT !.pc = "get", !.all = TRUE]
          /\ UNCHANGED <<base, held, th, kernel, cancelReq, mana>>
      BY <1>1, Zenon DEF JoinAll, CancelAllJoins
    <3>2. ctl' \in [pc : {"idle", "create", "wait", "join", "pthread_join", "joining",
                               "joinfail", "get", "cancel"},
                         o : Objs \cup {None}, all : BOOLEAN, n : (Runs \cup {0}),
                         todo : SUBSET (Objs \X Runs)]
      BY <3>1
    <3>3. TypeOK
      BY DEF IInv
    <3> HIDE DEF Idle
    <3> QED
      BY <3>1, <3>2, <3>3 DEF TypeOK
  <2>2. ctl.pc \in {"idle", "cancel"} /\ ctl'.pc = "get" /\ ctl'.todo = {}
        /\ UNCHANGED <<base, th, kernel, mana>>
    BY <1>1 DEF JoinAll, CancelAllJoins
  <2> QED
    BY <2>1, <2>2, ControllerMoves
<1>2. CASE JoinAllGet
  <2>1. CASE m_aList = {} /\ ctl' = Idle
    <3>1. TypeOK'
      BY <1>2, <2>1 DEF IInv, TypeOK, JoinAllGet
    <3> QED
      BY <1>2, <2>1, <3>1, ControllerMoves DEF JoinAllGet
  <2>2. ASSUME NEW node \in m_aList, ctl' = [ctl EXCEPT !.pc = "join", !.o = node[1]]
        PROVE  IInv'
    <3>1. node[1] \in Objs /\ m_handle[node[1]] # 0
      BY ListedWereStarted, RunsAreNat
    <3>2. TypeOK'
      BY <1>2, <2>2, <3>1 DEF IInv, TypeOK, JoinAllGet
    <3>3. ctl'.pc = "join" /\ ctl'.o = node[1] /\ ctl'.todo = ctl.todo
      BY <2>2 DEF IInv, TypeOK
    <3>4. \A x \in ctl'.todo : m_handle[x[1]] # 0
      BY <3>3 DEF IInv, Control
    <3> QED
      BY <1>2, <3>1, <3>2, <3>3, <3>4, ControllerMoves DEF JoinAllGet
  <2> QED
    BY <1>2, <2>1, <2>2 DEF JoinAllGet
<1> QED
  BY <1>1, <1>2

LEMMA CancelAllStep ==
    ASSUME IInv, CancelAll \/ \E node \in ctl.todo : Cancel(node)
    PROVE  IInv'
<1>1. CASE CancelAll
  <2>1. \A node \in m_aList : m_handle[node[1]] # 0
    BY ListedWereStarted, RunsAreNat
  <2>2. TypeOK'
    BY <1>1 DEF IInv, TypeOK, CancelAll, Idle, base
  <2> QED
    BY <1>1, <2>1, <2>2, ControllerMoves DEF CancelAll, Idle, base
<1>2. ASSUME NEW node \in ctl.todo, Cancel(node)  PROVE IInv'
  <2>1. node[1] \in Objs /\ m_handle[node[1]] \in Runs
    BY HandleIsNat DEF IInv, TypeOK, Control
  <2>2. TypeOK'
    <3>1. cancelReq' \subseteq Objs \X Runs
      BY <1>2, <2>1 DEF IInv, TypeOK, Cancel
    <3> QED
      BY <1>2, <3>1 DEF IInv, TypeOK, Cancel, base, mana
  <2>3. ctl'.pc = "cancel" /\ ctl'.todo \subseteq ctl.todo
    BY <1>2 DEF IInv, TypeOK, Cancel
  <2>4. \A x \in ctl'.todo : m_handle[x[1]] # 0
    BY <2>3 DEF IInv, Control
  <2> QED
    BY <1>2, <2>2, <2>3, <2>4, ControllerMoves DEF Cancel, base, mana
<1> QED
  BY <1>1, <1>2

-----------------------------------------------------------------------------
(* The other steps of the controller. *)

\* A thread that start() accepts has no pthread left in its code.
LEMMA StartStepKeeps == ASSUME IInv, NEW o \in Objs, Start(o)  PROVE IInv'
<1>0. TypeOK /\ Numbered /\ Single /\ Control /\ Recorded /\ FirstRun
  BY DEF IInv
<1>1. TypeOK'
  <2>1. ctl' \in [pc : {"idle", "create", "wait", "join", "pthread_join", "joining",
                            "joinfail", "get", "cancel"},
                      o : Objs \cup {None}, all : BOOLEAN, n : (Runs \cup {0}),
                      todo : SUBSET (Objs \X Runs)]
    BY <1>0 DEF TypeOK, Start, Idle
  <2>2. /\ m_status' \in [Objs -> {"INIT", "READY", "RUN", "STOP", "EXIT"}]
        /\ m_bRunnable' \in [Objs -> BOOLEAN]
    BY <1>0 DEF TypeOK, Start
  <2> QED
    BY <1>0, <2>1, <2>2 DEF TypeOK, Start, mana
<1>2. Numbered' /\ Control'
  BY <1>0, Zenon DEF TypeOK, Numbered, Control, JoinPlaces, Start, Idle, mana
<1>3. Single'
  <2>1. \A n \in Runs : th[o][n] \notin ActivePlaces
    BY <1>0 DEF Single, Start, Startable
  <2>2. /\ th' = th /\ m_handle' = m_handle
        /\ ctl.pc = "idle" /\ (ctl'.pc = "create" => ctl'.o = o)
        /\ \A x \in Objs : m_status'[x] = IF x = o THEN "READY" ELSE m_status[x]
    BY <1>0 DEF TypeOK, Start, Idle
  <2> QED
    BY <1>0, <2>1, <2>2 DEF Single
<1>4. Recorded' /\ FirstRun'
  BY <1>0 DEF Recorded, FirstRun, Claimed, Start, Idle, mana
<1>5. Listed'
  BY ListedKept DEF IInv, Start, mana
<1> QED
  BY <1>1, <1>2, <1>3, <1>4, <1>5 DEF IInv

\* The next pthread gets the next number, or pthread_create fails.
LEMMA CreateStepKeeps == ASSUME IInv, Create  PROVE IInv'
<1>0. TypeOK /\ Numbered /\ Single /\ Control /\ Recorded /\ FirstRun
  BY DEF IInv
<1> DEFINE o == ctl.o
           n == m_handle[o] + 1
<1>1. /\ ctl.pc = "create" /\ o \in Objs /\ n \in Runs /\ m_handle[o] \in Nat
      /\ UNCHANGED <<starts, m_status, m_bRunnable, m_bStopped, m_bJoin, m_bDetach, held,
                     kernel, cancelReq, mana>>
  BY <1>0, NextRun, RunsAreNat DEF Create, Control, Numbered, TypeOK
<1>2. CASE /\ m_handle' = [m_handle EXCEPT ![o] = n]
           /\ th' = [th EXCEPT ![o][n] = "new"]
           /\ ctl' = [ctl EXCEPT !.pc = "wait", !.n = n]
  <2>1. th[o][n] = "none"
    BY <1>0, <1>1 DEF Numbered
  <2>2. ctl'.pc = "wait" /\ ctl'.o = o /\ ctl'.todo = ctl.todo
    BY <1>0, <1>2 DEF TypeOK
  <2>3. TypeOK'
    BY <1>0, <1>1, <1>2 DEF TypeOK, Places, mana
  <2> HIDE DEF o, n
  <2>4. /\ \A x \in Objs : m_handle'[x] = IF x = o THEN n ELSE m_handle[x]
        /\ \A x \in Objs, m \in Runs :
              th'[x][m] = IF x = o /\ m = n THEN "new" ELSE th[x][m]
        /\ \A x \in Objs : m_handle[x] \in Nat
        /\ n \in Nat /\ n = m_handle[o] + 1
    BY <1>0, <1>1, <1>2, RunsAreNat DEF TypeOK, n
  <2>5. Numbered'
    BY <1>0, <1>1, <2>2, <2>4, RunsAreNat DEF Numbered
  <2>6. Single'
    <3>1. /\ \A m \in Runs : th[o][m] \notin ActivePlaces
          /\ m_status[o] = "READY" /\ m_status' = m_status
      BY <1>0, <1>1 DEF Single, o
    <3>2. ASSUME NEW x \in Objs, NEW m \in Runs, th'[x][m] \in ActivePlaces
          PROVE  m = m_handle'[x] /\ m_status'[x] \notin {"INIT", "EXIT"}
      <4>1. CASE x = o
        BY <2>4, <3>1, <3>2, <4>1
      <4>2. CASE x # o
        <5>1. th[x][m] \in ActivePlaces /\ m_handle'[x] = m_handle[x]
          BY <2>4, <3>2, <4>2
        <5> QED
          BY <1>0, <3>1, <5>1 DEF Single
      <4> QED
        BY <4>1, <4>2
    <3> QED
      BY <2>2, <3>2 DEF Single
  <2>7. Control'
    BY <1>0, <1>1, <2>2, <2>4 DEF TypeOK, Control, JoinPlaces
  <2>8. Recorded'
    BY <1>0, <1>1, <2>1, <2>2, <2>4 DEF Recorded
  <2>9. FirstRun'
    <3>1. ASSUME NEW x \in Objs, x # o  PROVE ~(ctl.pc = "pthread_join" /\ ctl.o = x)
      BY <1>1
    <3>2. ASSUME NEW x \in Objs, m_handle'[x] = 1
          PROVE  1 \in Runs
      BY <1>0, <1>1, <2>4, <3>2, HandleIsNat
    <3> QED
      BY <1>0, <1>1, <2>2, <2>4, <3>1, <3>2 DEF FirstRun, Claimed
  <2>10. Registered' = Registered
    <3>1. \A p \in Objs \X Runs :
              th'[p[1]][p[2]] \in ListedPlaces <=> th[p[1]][p[2]] \in ListedPlaces
      BY <1>1, <2>1, <2>4 DEF ListedPlaces
    <3> QED
      BY <3>1 DEF Registered, ListedPlaces
  <2>11. Listed'
    BY <1>1, <2>10 DEF IInv, Listed, ListExact, mana
  <2> QED
    BY <2>3, <2>5, <2>6, <2>7, <2>8, <2>9, <2>11 DEF IInv
<1>3. CASE Goto("wait") /\ UNCHANGED <<m_handle, th>>
  <2>1. ctl' = [ctl EXCEPT !.pc = "wait"] /\ ctl'.pc = "wait" /\ ctl'.o = o
        /\ ctl'.todo = ctl.todo
    BY <1>0, <1>3 DEF TypeOK, Goto
  <2>2. TypeOK'
    BY <1>0, <1>1, <1>3, <2>1 DEF TypeOK, mana
  <2>3. Numbered' /\ Single' /\ Control'
    BY <1>0, <1>1, <1>3, <2>1 DEF Numbered, Single, Control, JoinPlaces
  <2>4. Recorded' /\ FirstRun'
    BY <1>0, <1>1, <1>3, <2>1 DEF Recorded, FirstRun, Claimed
  <2>5. Listed'
    BY <1>1, <1>3, ListedKept DEF IInv, mana
  <2> QED
    BY <2>2, <2>3, <2>4, <2>5 DEF IInv
<1> QED
  BY <1>2, <1>3 DEF Create

\* { AutoLock _l(this); m_bJoin = true; }
LEMMA JoinFlagStep == ASSUME IInv, JoinFlag  PROVE IInv'
<1>0. TypeOK /\ Numbered /\ Single /\ Control /\ Recorded /\ FirstRun
  BY DEF IInv
<1>1. TypeOK'
  BY <1>0 DEF TypeOK, JoinFlag, Goto, mana
<1>2. Numbered' /\ Single' /\ Control'
  BY <1>0 DEF TypeOK, Numbered, Single, Control, JoinPlaces, JoinFlag, Goto, mana
<1>3. Recorded'
  BY <1>0 DEF TypeOK, Recorded, JoinFlag, Goto, mana
<1>4. FirstRun'
  BY <1>0 DEF TypeOK, FirstRun, Claimed, Control, JoinPlaces, JoinFlag, Goto, mana
<1>5. Listed'
  BY ListedKept DEF IInv, JoinFlag, mana
<1> QED
  BY <1>1, <1>2, <1>3, <1>4, <1>5 DEF IInv

\* pthread_join(): the controller is the pthread's joiner, or has nothing to join.
LEMMA PthreadJoinStep == ASSUME IInv, PthreadJoin  PROVE IInv'
<1>0. TypeOK /\ Numbered /\ Single /\ Control /\ Recorded /\ FirstRun
  BY DEF IInv
<1> DEFINE o == ctl.o
           n == m_handle[o]
<1>1. /\ ctl.pc = "pthread_join" /\ o \in Objs /\ n \in Runs
      /\ UNCHANGED <<base, held, th, cancelReq, mana>>
  BY <1>0 DEF PthreadJoin, Control, JoinPlaces, TypeOK
<1>2. Listed'
  BY <1>1, ListedKept DEF IInv, mana
<1>3. CASE /\ kernel[o][n] = "attached"
           /\ kernel' = [kernel EXCEPT ![o][n] = "joining"]
           /\ ctl' = [ctl EXCEPT !.pc = "joining", !.n = n]
  <2>1. ctl'.pc = "joining" /\ ctl'.o = o /\ ctl'.n = n /\ ctl'.todo = ctl.todo
    BY <1>0, <1>3 DEF TypeOK
  <2>2. TypeOK'
    BY <1>0, <1>1, <1>3 DEF TypeOK, base, mana
  <2>3. \A x \in Objs, m \in Runs :
            kernel'[x][m] = IF x = o /\ m = n THEN "joining" ELSE kernel[x][m]
    BY <1>0, <1>1, <1>3 DEF TypeOK
  <2>4. Numbered' /\ Single'
    BY <1>0, <1>1, <2>1 DEF Numbered, Single, base
  <2>5. Control'
    BY <1>0, <1>1, <2>1, <2>3 DEF Control, JoinPlaces, base
  <2>6. Recorded'
    BY <1>0, <1>1, <2>1, <2>3 DEF Recorded, base
  <2>7. FirstRun'
    <3>1. ASSUME NEW x \in Objs, m_handle[x] = 1  PROVE 1 \in Runs
      BY <1>0, <3>1, HandleIsNat
    <3> QED
      BY <1>0, <1>1, <2>1, <2>3, <3>1 DEF FirstRun, Claimed, base
  <2> QED
    BY <1>2, <2>2, <2>4, <2>5, <2>6, <2>7 DEF IInv
<1>4. CASE kernel[o][n] # "attached" /\ Goto("joinfail") /\ UNCHANGED kernel
  <2>1. /\ ctl' = [ctl EXCEPT !.pc = "joinfail"] /\ ctl'.pc = "joinfail" /\ ctl'.o = o
        /\ ctl'.todo = ctl.todo
    BY <1>0, <1>4 DEF TypeOK, Goto
  <2>2. TypeOK'
    BY <1>0, <1>1, <1>4, <2>1 DEF TypeOK, base, mana
  <2>3. Numbered' /\ Single' /\ Recorded'
    BY <1>0, <1>1, <1>4, <2>1 DEF Numbered, Single, Recorded, base
  <2>4. Control'
    BY <1>0, <1>1, <1>4, <2>1 DEF Control, JoinPlaces, base
  <2>5. FirstRun'
    BY <1>0, <1>1, <1>4, <2>1 DEF FirstRun, Claimed, base
  <2> QED
    BY <1>2, <2>2, <2>3, <2>4, <2>5 DEF IInv
<1> QED
  BY <1>3, <1>4 DEF PthreadJoin

\* join() returns: the pthread is joined.
LEMMA JoinedStep == ASSUME IInv, Joined  PROVE IInv'
<1>0. TypeOK /\ Numbered /\ Single /\ Control /\ Recorded /\ FirstRun
  BY DEF IInv
<1>1. TypeOK'
  BY <1>0 DEF TypeOK, Joined, AfterJoin, Idle, base, mana
<1>2. Numbered' /\ Single' /\ Control'
  BY <1>0 DEF TypeOK, Numbered, Single, Control, JoinPlaces, Joined, AfterJoin, Idle, base, mana
<1>3. Recorded'
  BY <1>0 DEF TypeOK, Recorded, Control, JoinPlaces, Joined, AfterJoin, Idle, base, mana
<1>4. FirstRun'
  BY <1>0, RunsAreNat DEF TypeOK, FirstRun, Claimed, Control, JoinPlaces, Joined, AfterJoin,
                          Idle, base, mana
<1>5. Listed'
  BY ListedKept DEF IInv, Joined, mana
<1> QED
  BY <1>1, <1>2, <1>3, <1>4, <1>5 DEF IInv

\* join() fails and takes its announcement back.
LEMMA JoinFailsStep == ASSUME IInv, JoinFails  PROVE IInv'
<1>0. TypeOK /\ Numbered /\ Single /\ Control /\ Recorded /\ FirstRun
  BY DEF IInv
<1>1. TypeOK'
  BY <1>0 DEF TypeOK, JoinFails, AfterJoin, Idle, mana
<1>2. Numbered' /\ Single' /\ Control'
  BY <1>0 DEF TypeOK, Numbered, Single, Control, JoinPlaces, JoinFails, AfterJoin, Idle, mana
<1>3. Recorded' /\ FirstRun'
  BY <1>0 DEF TypeOK, Recorded, FirstRun, Claimed, JoinFails, AfterJoin, Idle, mana
<1>4. Listed'
  BY ListedKept DEF IInv, JoinFails, mana
<1> QED
  BY <1>1, <1>2, <1>3, <1>4 DEF IInv

\* What Detached(o) does to the pthread library's record.
LEMMA DetachedRecord ==
    ASSUME IInv, NEW o \in Objs, m_handle[o] # 0, Detached(o),
           UNCHANGED <<m_handle, m_bJoin, ctl>>,
           NEW n \in Runs, NEW to \in Places,
           th' = th \/ (th[o][n] = "detach" /\ th' = [th EXCEPT ![o][n] = "exit"])
    PROVE  /\ kernel' \in [Objs -> [Runs -> {"attached", "detached", "joining", "joined"}]]
           /\ m_bDetach' \in [Objs -> BOOLEAN]
           /\ Control' /\ Recorded' /\ FirstRun'
<1>0. TypeOK /\ Numbered /\ Control /\ Recorded /\ FirstRun
  BY DEF IInv
<1>1. m_handle[o] \in Runs
  BY <1>0 DEF TypeOK
<1>2. /\ kernel' \in [Objs -> [Runs -> {"attached", "detached", "joining", "joined"}]]
      /\ \A x \in Objs, m \in Runs :
            kernel'[x][m] = IF x = o /\ m = m_handle[o] /\ kernel[x][m] = "attached"
                            THEN "detached" ELSE kernel[x][m]
  BY <1>0, <1>1 DEF TypeOK, Detached
<1>3. /\ m_bDetach' \in [Objs -> BOOLEAN]
      /\ \A x \in Objs : m_bDetach'[x] = IF x = o THEN TRUE ELSE m_bDetach[x]
  BY <1>0 DEF TypeOK, Detached
<1>4. \A x \in Objs, m \in Runs :
          \/ th'[x][m] = th[x][m]
          \/ x = o /\ th[x][m] = "detach" /\ th'[x][m] = "exit"
  BY <1>0 DEF TypeOK
<1>5. Control'
  BY <1>0, <1>2 DEF TypeOK, Control, JoinPlaces
<1>6. Recorded'
  <2> SUFFICES ASSUME NEW x \in Objs, NEW m \in Runs
               PROVE  /\ kernel'[x][m] = "detached" => m_bDetach'[x]
                      /\ kernel'[x][m] = "joined" => th'[x][m] \in {"ended", "cancelled"}
                      /\ kernel'[x][m] = "joining" => ctl.pc = "joining" /\ ctl.o = x /\ ctl.n = m
    BY DEF Recorded
  <2>1. /\ kernel[x][m] = "detached" => m_bDetach[x]
        /\ kernel[x][m] = "joined" => th[x][m] \in {"ended", "cancelled"}
        /\ kernel[x][m] = "joining" => ctl.pc = "joining" /\ ctl.o = x /\ ctl.n = m
    BY <1>0 DEF Recorded
  <2>2. \/ th'[x][m] = th[x][m]
        \/ x = o /\ th[x][m] = "detach" /\ th'[x][m] = "exit"
    BY <1>4
  <2>3. /\ kernel'[x][m] = IF x = o /\ m = m_handle[o] /\ kernel[x][m] = "attached"
                           THEN "detached" ELSE kernel[x][m]
        /\ m_bDetach'[x] = IF x = o THEN TRUE ELSE m_bDetach[x]
    BY <1>2, <1>3
  <2> QED
    BY <2>1, <2>2, <2>3
<1>7. FirstRun'
  <2>1. ASSUME NEW x \in Objs, m_handle[x] = 1  PROVE 1 \in Runs
    BY <1>0, <2>1, HandleIsNat
  <2>2. \A x \in Objs : th'[x][1] = th[x][1] \/ x = o \/ 1 \notin Runs
    BY <1>4
  <2>3. m_handle[o] = 1 => kernel'[o][1] # "attached"
    BY <1>1, <1>2
  <2> SUFFICES ASSUME NEW x \in Objs
               PROVE  /\ m_handle'[x] = 0 => ~m_bDetach'[x] /\ (x \notin JoinGarbage => ~m_bJoin'[x])
                      /\ m_handle'[x] = 1 =>
                            /\ m_bDetach'[x] => kernel'[x][1] # "attached"
                            /\ x \notin JoinGarbage =>
                                  (m_bJoin'[x] \/ th'[x][1] \in {"exit", "ended"} => Claimed(x)')
    BY DEF FirstRun
  <2>4. /\ m_handle[x] = 0 => ~m_bDetach[x] /\ (x \notin JoinGarbage => ~m_bJoin[x])
        /\ m_handle[x] = 1 =>
              /\ m_bDetach[x] => kernel[x][1] # "attached"
              /\ x \notin JoinGarbage =>
                    (m_bJoin[x] \/ th[x][1] \in {"exit", "ended"} => Claimed(x))
    BY <1>0 DEF FirstRun
  <2>5. CASE x = o
    BY <1>3, <2>3, <2>5 DEF Claimed
  <2>6. CASE x # o
    <3>1. m_handle[x] = 1 => kernel'[x][1] = kernel[x][1] /\ th'[x][1] = th[x][1]
      BY <1>2, <2>1, <2>2, <2>6
    <3> QED
      BY <1>3, <2>4, <2>6, <3>1 DEF Claimed
  <2> QED
    BY <2>5, <2>6
<1> QED
  BY <1>2, <1>3, <1>5, <1>6, <1>7

LEMMA DetachStep == ASSUME IInv, NEW o \in Objs, Detach(o)  PROVE IInv'
<1>0. TypeOK /\ Numbered /\ Single
  BY DEF IInv
<1>1. /\ m_handle[o] # 0 /\ Detached(o)
      /\ UNCHANGED <<starts, m_status, m_bRunnable, m_bStopped, m_bJoin, m_handle, held, th,
                     cancelReq, mana, ctl>>
  BY DEF Detach
<1>2. m_handle[o] \in Runs
  BY <1>0, <1>1 DEF TypeOK
<1>3. /\ kernel' \in [Objs -> [Runs -> {"attached", "detached", "joining", "joined"}]]
      /\ m_bDetach' \in [Objs -> BOOLEAN]
      /\ Control' /\ Recorded' /\ FirstRun'
  BY <1>1, <1>2, DetachedRecord DEF Places
<1>4. TypeOK'
  BY <1>0, <1>1, <1>3 DEF TypeOK, mana
<1>5. Numbered' /\ Single'
  BY <1>0, <1>1 DEF Numbered, Single
<1>6. Listed'
  BY <1>1, ListedKept DEF IInv, mana
<1> QED
  BY <1>3, <1>4, <1>5, <1>6 DEF IInv
-----------------------------------------------------------------------------
(* The pthread. *)

\* A pthread goes from one place to the next and, but for the status, changes
\* nothing that the invariant relates to its place.
LEMMA PthreadMoves ==
    ASSUME IInv, TypeOK', NEW o \in Objs, NEW n \in Runs, NEW from \in Places, NEW to \in Places,
           Go(o, n, from, to),
           UNCHANGED <<starts, m_bJoin, m_bDetach, m_handle, kernel, mana, ctl>>,
           from \notin {"none", "ended", "cancelled"}, to # "none",
           to \in ActivePlaces => from \in ActivePlaces,
           to \in ListedPlaces <=> from \in ListedPlaces,
           \/ m_status' = m_status
           \/ /\ from \in ActivePlaces
              /\ \E s \in {"RUN", "STOP"} : m_status' = [m_status EXCEPT ![o] = s],
           to \in {"exit", "ended"} => from = "exit" \/ m_bDetach[o] \/ m_bJoin[o]
    PROVE  IInv'
<1>0. TypeOK /\ Numbered /\ Single /\ Control /\ Recorded /\ FirstRun
  BY DEF IInv
<1>1. /\ th[o][n] = from
      /\ \A x \in Objs, m \in Runs : th'[x][m] = IF x = o /\ m = n THEN to ELSE th[x][m]
  BY <1>0 DEF Go, TypeOK
<1>2. Numbered' /\ Control'
  BY <1>0, <1>1 DEF Numbered, Control
<1>3. Single'
  <2>1. CASE m_status' = m_status
    BY <1>0, <1>1, <2>1 DEF Single
  <2>2. ASSUME from \in ActivePlaces,
               NEW s \in {"RUN", "STOP"}, m_status' = [m_status EXCEPT ![o] = s]
        PROVE  Single'
    <3>1. ~(ctl.pc = "create" /\ ctl.o = o)
      BY <1>0, <1>1, <2>2 DEF Single
    <3>2. \A x \in Objs : m_status'[x] = IF x = o THEN s ELSE m_status[x]
      BY <1>0, <2>2 DEF TypeOK
    <3>3. ctl.pc = "create" => ctl.o \in Objs
      BY <1>0 DEF Control
    <3> QED
      BY <1>0, <1>1, <3>1, <3>2, <3>3 DEF Single
  <2> QED
    BY <2>1, <2>2
<1>4. Recorded'
  BY <1>0, <1>1 DEF Recorded
<1>5. FirstRun'
  <2>1. ASSUME NEW x \in Objs, m_handle[x] = 1  PROVE 1 \in Runs
    BY <1>0, <2>1, HandleIsNat
  <2> QED
    BY <1>0, <1>1, <2>1 DEF FirstRun, Claimed
<1>6. Registered' = Registered
  <2>1. \A p \in Objs \X Runs :
            th'[p[1]][p[2]] \in ListedPlaces <=> th[p[1]][p[2]] \in ListedPlaces
    BY <1>1
  <2> QED
    BY <2>1 DEF Registered, ListedPlaces
<1>7. Listed'
  BY <1>6 DEF IInv, Listed, ListExact, mana
<1> QED
  BY <1>2, <1>3, <1>4, <1>5, <1>7 DEF IInv

\* A pthread that locks, unlocks or ends, with the status as it was.
LEMMA QuietSteps ==
    ASSUME IInv, NEW o \in Objs, NEW n \in Runs,
           Come(o, n) \/ Lock(o, n) \/ DieCancelled(o, n) \/ Decide(o, n) \/ Exit(o, n)
    PROVE  IInv'
<1> USE DEF Places, ActivePlaces, ListedPlaces
<1>1. CASE Come(o, n)
  <2>1. TypeOK'
    BY <1>1 DEF IInv, TypeOK, Come, Go, mana
  <2> QED
    BY <1>1, <2>1, PthreadMoves DEF Come
<1>2. CASE Lock(o, n)
  <2>1. PICK from \in Places, to \in Places :
          /\ Go(o, n, from, to)
          /\ (from = "up" /\ to = "insert") \/ (from = "out" /\ to = "remove")
    BY <1>2 DEF Lock
  <2>2. TypeOK'
    BY <1>2, <2>1 DEF IInv, TypeOK, Lock, Go, base, mana
  <2> QED
    BY <1>2, <2>1, <2>2, PthreadMoves DEF Lock, base
<1>3. ASSUME NEW from, from = "start" \/ from = "body",
             Go(o, n, from, "cancelled"), DieCancelled(o, n)
      PROVE  IInv'
  <2>1. TypeOK'
    BY <1>3 DEF IInv, TypeOK, DieCancelled, Go, base, mana
  <2> QED
    BY <1>3, <2>1, PthreadMoves DEF DieCancelled, base
<1>4. ASSUME NEW to, Go(o, n, "decide", to), Decide(o, n),
             to = "detach" \/ (to = "exit" /\ (m_bDetach[o] \/ m_bJoin[o]))
      PROVE  IInv'
  <2>1. TypeOK'
    BY <1>4 DEF IInv, TypeOK, Decide, Go, base, mana
  <2> QED
    BY <1>4, <2>1, PthreadMoves DEF Decide, base
<1>5. CASE Exit(o, n)
  <2>1. TypeOK'
    BY <1>5 DEF IInv, TypeOK, Exit, Go, base, mana
  <2> QED
    BY <1>5, <2>1, PthreadMoves DEF Exit, base
<1>6. CASE Decide(o, n)
  <2>1. m_bDetach[o] \in BOOLEAN /\ m_bJoin[o] \in BOOLEAN
    BY DEF IInv, TypeOK
  <2>2. CASE CanDetach(o)
    BY <1>4, <1>6, <2>2 DEF Decide
  <2>3. CASE ~CanDetach(o)
    BY <1>4, <1>6, <2>1, <2>3 DEF Decide, CanDetach
  <2> QED
    BY <2>2, <2>3
<1>8. CASE DieCancelled(o, n)
  BY <1>3, <1>8 DEF DieCancelled
<1> QED
  BY <1>1, <1>2, <1>5, <1>6, <1>8

\* onStart() and run() begin or return.
LEMMA RunSteps ==
    ASSUME IInv, NEW o \in Objs, NEW n \in Runs, OnStart(o, n) \/ RunReturns(o, n)
    PROVE  IInv'
<1> USE DEF Places, ActivePlaces, ListedPlaces
<1>0. UNCHANGED <<starts, m_bRunnable, m_bStopped, m_bJoin, m_bDetach, m_handle, held, kernel,
                  cancelReq, mana, ctl>>
  BY DEF OnStart, RunReturns
<1>1. ASSUME NEW from, NEW to, NEW s, Go(o, n, from, to),
             \/ from = "start" /\ to = "body" /\ s = "RUN"
             \/ from = "body" /\ to = "out" /\ s = "STOP",
             m_status' = [m_status EXCEPT ![o] = s]
      PROVE  IInv'
  <2>1. TypeOK'
    BY <1>0, <1>1 DEF IInv, TypeOK, Go, mana
  <2> QED
    BY <1>0, <1>1, <2>1, PthreadMoves
<1>2. CASE Go(o, n, "start", "out") /\ UNCHANGED m_status
  <2>1. TypeOK'
    BY <1>0, <1>2 DEF IInv, TypeOK, Go, mana
  <2> QED
    BY <1>0, <1>2, <2>1, PthreadMoves
<1> QED
  BY <1>1, <1>2 DEF OnStart, RunReturns

\* insert() takes the pthread into the list, unless cancelAll has been called.
LEMMA InsertStep ==
    ASSUME IInv, NEW o \in Objs, NEW n \in Runs, Insert(o, n)
    PROVE  IInv'
<1>0. TypeOK /\ Numbered /\ Single /\ Control /\ Recorded /\ FirstRun /\ Listed
  BY DEF IInv
<1>1. /\ th[o][n] = "insert"
      /\ \A x \in Objs, m \in Runs : th'[x][m] = IF x = o /\ m = n THEN "start" ELSE th[x][m]
      /\ n = m_handle[o]
      /\ UNCHANGED <<base, kernel, cancelReq, m_iscancel, ctl>>
      /\ m_refcount' = m_refcount + 1
      /\ m_aList' = IF m_iscancel THEN m_aList ELSE m_aList \cup {<<o, n>>}
  BY <1>0, Zenon DEF Insert, Go, TypeOK, Single, ActivePlaces
<1>2. TypeOK'
  <2>1. m_aList' \subseteq Objs \X Runs /\ m_refcount' \in Int
    BY <1>0, <1>1 DEF TypeOK
  <2> QED
    BY <1>0, <1>1, <2>1 DEF TypeOK, Insert, Go, Places, base
<1>3. Numbered' /\ Control'
  BY <1>0, <1>1 DEF Numbered, Control, base
<1>4. Single'
  BY <1>0, <1>1 DEF Single, ActivePlaces, base
<1>5. Recorded'
  BY <1>0, <1>1 DEF Recorded, base
<1>6. FirstRun'
  <2>1. ASSUME NEW x \in Objs, m_handle[x] = 1  PROVE 1 \in Runs
    BY <1>0, <2>1, HandleIsNat
  <2> QED
    BY <1>0, <1>1, <2>1 DEF FirstRun, Claimed, base
<1>7. Registered' = Registered \cup {<<o, n>>} /\ <<o, n>> \notin Registered
  <2>1. \A p \in Objs \X Runs :
            th'[p[1]][p[2]] \in ListedPlaces
            <=> th[p[1]][p[2]] \in ListedPlaces \/ p = <<o, n>>
    BY <1>1 DEF ListedPlaces
  <2> QED
    BY <1>1, <2>1 DEF Registered, ListedPlaces
<1>8. Listed'
  <2>1. IsFiniteSet(Registered') /\ Cardinality(Registered') = Cardinality(Registered) + 1
    BY <1>0, <1>7, FS_AddElement DEF Listed
  <2> QED
    BY <1>0, <1>1, <1>7, <2>1 DEF Listed, ListExact
<1> QED
  BY <1>2, <1>3, <1>4, <1>5, <1>6, <1>8 DEF IInv

\* remove() takes it out, and the object may be started again.
LEMMA RemoveStep ==
    ASSUME IInv, NEW o \in Objs, NEW n \in Runs, Remove(o, n)
    PROVE  IInv'
<1>0. TypeOK /\ Numbered /\ Single /\ Control /\ Recorded /\ FirstRun /\ Listed
  BY DEF IInv
<1>1. /\ th[o][n] = "remove"
      /\ \A x \in Objs, m \in Runs : th'[x][m] = IF x = o /\ m = n THEN "decide" ELSE th[x][m]
      /\ n = m_handle[o] /\ ~(ctl.pc = "create" /\ ctl.o = o)
      /\ UNCHANGED <<starts, m_bRunnable, m_bStopped, m_bJoin, m_bDetach, m_handle, kernel,
                     cancelReq, m_iscancel, ctl>>
      /\ m_refcount' = m_refcount - 1
      /\ m_aList' = m_aList \ {<<o, n>>}
      /\ \A x \in Objs : m_status'[x] = IF x = o THEN "EXIT" ELSE m_status[x]
  BY <1>0 DEF Remove, Go, TypeOK, Single, ActivePlaces
<1>2. TypeOK'
  <2>1. m_aList' \subseteq Objs \X Runs /\ m_refcount' \in Int
    BY <1>0, <1>1 DEF TypeOK
  <2> QED
    BY <1>0, <1>1, <2>1 DEF TypeOK, Remove, Go, Places
<1>3. Numbered' /\ Control'
  BY <1>0, <1>1 DEF Numbered, Control
<1>4. Single'
  <2>1. \A m \in Runs : th'[o][m] \notin ActivePlaces
    BY <1>0, <1>1 DEF Single, ActivePlaces
  <2>2. ctl.pc = "create" => ctl.o \in Objs
    BY <1>0 DEF Control, JoinPlaces
  <2> QED
    BY <1>0, <1>1, <2>1, <2>2 DEF Single
<1>5. Recorded'
  BY <1>0, <1>1 DEF Recorded
<1>6. FirstRun'
  <2>1. ASSUME NEW x \in Objs, m_handle[x] = 1  PROVE 1 \in Runs
    BY <1>0, <2>1, HandleIsNat
  <2> QED
    BY <1>0, <1>1, <2>1 DEF FirstRun, Claimed
<1>7. Registered' = Registered \ {<<o, n>>} /\ <<o, n>> \in Registered
  <2>1. \A p \in Objs \X Runs :
            th'[p[1]][p[2]] \in ListedPlaces
            <=> th[p[1]][p[2]] \in ListedPlaces /\ p # <<o, n>>
    BY <1>1 DEF ListedPlaces
  <2> QED
    BY <1>1, <2>1 DEF Registered, ListedPlaces
<1>8. Listed'
  <2>1. IsFiniteSet(Registered') /\ Cardinality(Registered') = Cardinality(Registered) - 1
    BY <1>0, <1>7, FS_RemoveElement DEF Listed
  <2> QED
    BY <1>0, <1>1, <1>7, <2>1 DEF Listed, ListExact
<1> QED
  BY <1>2, <1>3, <1>4, <1>5, <1>6, <1>8 DEF IInv

\* The pthread detaches m_handle, which may be a later one.
LEMMA SelfDetachStep ==
    ASSUME IInv, NEW o \in Objs, NEW n \in Runs, SelfDetach(o, n)
    PROVE  IInv'
<1>0. TypeOK /\ Numbered /\ Single /\ Listed
  BY DEF IInv
<1>1. /\ th[o][n] = "detach" /\ th' = [th EXCEPT ![o][n] = "exit"] /\ Detached(o)
      /\ UNCHANGED <<starts, m_status, m_bRunnable, m_bStopped, m_bJoin, m_handle, held,
                     cancelReq, mana, ctl>>
      /\ \A x \in Objs, m \in Runs : th'[x][m] = IF x = o /\ m = n THEN "exit" ELSE th[x][m]
  BY <1>0 DEF SelfDetach, Go, TypeOK
<1>2. m_handle[o] # 0
  BY <1>0, <1>1, RunsAreNat DEF Numbered
<1>3. /\ kernel' \in [Objs -> [Runs -> {"attached", "detached", "joining", "joined"}]]
      /\ m_bDetach' \in [Objs -> BOOLEAN]
      /\ Control' /\ Recorded' /\ FirstRun'
  BY <1>1, <1>2, DetachedRecord DEF Places
<1>4. TypeOK'
  BY <1>0, <1>1, <1>3 DEF TypeOK, Places, mana
<1>5. Numbered' /\ Single'
  BY <1>0, <1>1 DEF Numbered, Single, ActivePlaces
<1>6. Registered' = Registered
  BY <1>1 DEF Registered
<1>7. Listed'
  BY <1>0, <1>1, <1>6 DEF Listed, ListExact, mana
<1> QED
  BY <1>3, <1>4, <1>5, <1>7 DEF IInv

-----------------------------------------------------------------------------
(* The invariant. *)

LEMMA InitIInv == Init => IInv
<1> SUFFICES ASSUME Init  PROVE IInv
  OBVIOUS
<1>1. ctl = Idle /\ Idle.pc = "idle" /\ Idle.todo = {}
  BY DEF Init, Idle
<1>2. TypeOK
  <2>1. m_bJoin \in [Objs -> BOOLEAN]
    <3>1. \A o \in Objs : (o \in JoinGarbage) \in BOOLEAN
      OBVIOUS
    <3> QED
      BY <3>1, Zenon DEF Init
  <2>2. ctl \in [pc : {"idle", "create", "wait", "join", "pthread_join", "joining",
                       "joinfail", "get", "cancel"},
                 o : Objs \cup {None}, all : BOOLEAN, n : (Runs \cup {0}),
                 todo : SUBSET (Objs \X Runs)]
    BY DEF Init, Idle
  <2>3. /\ starts \in Starts /\ m_status = [o \in Objs |-> "INIT"]
        /\ m_bRunnable = [o \in Objs |-> FALSE] /\ m_bStopped = [o \in Objs |-> FALSE]
        /\ m_bDetach = [o \in Objs |-> FALSE]
        /\ m_handle = [o \in Objs |-> 0] /\ held = [o \in Objs |-> 0]
        /\ th = [o \in Objs |-> [n \in Runs |-> "none"]]
        /\ kernel = [o \in Objs |-> [n \in Runs |-> "attached"]]
        /\ cancelReq = {} /\ m_aList = {} /\ m_refcount = 0 /\ m_iscancel = FALSE
    BY DEF Init
  <2>4. /\ m_status \in [Objs -> {"INIT", "READY", "RUN", "STOP", "EXIT"}]
        /\ m_bRunnable \in [Objs -> BOOLEAN] /\ m_bStopped \in [Objs -> BOOLEAN]
        /\ m_bDetach \in [Objs -> BOOLEAN]
        /\ m_handle \in [Objs -> (Runs \cup {0})] /\ held \in [Objs -> (Runs \cup {0})]
    BY <2>3
  <2>5. /\ th \in [Objs -> [Runs -> Places]]
        /\ kernel \in [Objs -> [Runs -> {"attached", "detached", "joining", "joined"}]]
    BY <2>3 DEF Places
  <2>6. /\ starts \in Starts /\ cancelReq \subseteq Objs \X Runs /\ m_aList \subseteq Objs \X Runs
        /\ m_refcount \in Int
    BY <2>3
  <2>7. m_iscancel \in BOOLEAN
    BY <2>3, Zenon
  <2> QED
    BY <2>1, <2>2, <2>4, <2>5, <2>6, <2>7, Zenon DEF TypeOK
<1>3. Numbered /\ Control
  BY <1>1 DEF Init, Numbered, Control, JoinPlaces
<1>4. Single /\ Recorded
  BY <1>1 DEF Init, Single, ActivePlaces, Recorded
<1>5. FirstRun
  <2>1. \A o \in Objs : m_bJoin[o] <=> o \in JoinGarbage
    BY Zenon DEF Init
  <2>2. \A o \in Objs : m_handle[o] = 0 /\ ~m_bDetach[o]
    BY DEF Init
  <2> QED
    BY <2>1, <2>2 DEF FirstRun
<1>6. Registered = {}
  BY DEF Init, Registered
<1>7. Listed
  BY <1>6, FS_EmptySet DEF Init, Listed, ListExact
<1> QED
  BY <1>2, <1>3, <1>4, <1>5, <1>7 DEF IInv

LEMMA NextIInv == IInv /\ [Next]_vars => IInv'
<1> SUFFICES ASSUME IInv, [Next]_vars  PROVE IInv'
  OBVIOUS
<1>1. CASE Controller
  <2>1. ASSUME NEW o \in Objs, Start(o) \/ Stop(o) \/ Join(o) \/ Detach(o)  PROVE IInv'
    BY <2>1, StartStepKeeps, StopStep, JoinBegins, DetachStep
  <2>2. CASE JoinAll \/ CancelAll
    BY <2>2, JoinAllStep, CancelAllStep
  <2>3. CASE StartStep
    BY <2>3, CreateStepKeeps, StartEnds DEF StartStep
  <2>4. CASE JoinStep
    BY <2>4, JoinFlagStep, PthreadJoinStep, JoinedStep, JoinFailsStep, JoinAllStep DEF JoinStep
  <2>5. CASE CancelStep
    BY <2>5, CancelAllStep, JoinAllStep DEF CancelStep
  <2> QED
    BY <1>1, <2>1, <2>2, <2>3, <2>4, <2>5 DEF Controller
<1>2. ASSUME NEW o \in Objs, NEW n \in Runs,
             RunStep(o, n) \/ RunReturns(o, n) \/ DieCancelled(o, n)
      PROVE  IInv'
  BY <1>2, QuietSteps, RunSteps, InsertStep, RemoveStep, SelfDetachStep DEF RunStep
<1>3. CASE UNCHANGED vars
  <2> USE <1>3 DEF vars, base, mana
  <2>1. TypeOK'
    BY DEF IInv, TypeOK
  <2>2. Numbered' /\ Single' /\ Control'
    BY DEF IInv, Numbered, Single, Control
  <2>3. Recorded' /\ FirstRun'
    BY DEF IInv, Recorded, FirstRun, Claimed
  <2>4. Listed'
    BY ListedKept DEF IInv
  <2> QED
    BY <2>1, <2>2, <2>3, <2>4 DEF IInv
<1> QED
  BY <1>1, <1>2, <1>3 DEF Next

THEOREM Invariant == Spec => []IInv
  BY InitIInv, NextIInv, PTL DEF Spec

-----------------------------------------------------------------------------
(* What it means. *)

LEMMA SingleMeans == IInv => OneRunner
  BY DEF IInv, Single, OneRunner, Active, ActivePlaces

\* At most one pthread runs a Thread object, and it is the one m_handle names,
\* whatever start() calls gave up, failed in onPrepare or came late.
THEOREM OneRunnerCorrect == Spec => []OneRunner
  BY Invariant, SingleMeans, PTL

LEMMA BooksMean == IInv => ThreadsAccounted
<1> SUFFICES ASSUME IInv  PROVE ThreadsAccounted
  OBVIOUS
<1>1. FirstRunReclaimed
  <2> SUFFICES ASSUME NEW o \in Objs \ JoinGarbage, m_handle[o] = 1, th[o][1] = "ended"
               PROVE  \/ kernel[o][1] \in {"detached", "joined"}
                      \/ ctl.o = o /\ ctl.pc \in {"pthread_join", "joining"}
    BY DEF FirstRunReclaimed
  <2>1. 1 \in Runs
    BY HandleIsNat DEF IInv
  <2>2. kernel[o][1] \in {"attached", "detached", "joining", "joined"}
    BY <2>1 DEF IInv, TypeOK
  <2>3. Claimed(o)
    BY DEF IInv, FirstRun
  <2>4. kernel[o][1] = "joining" => ctl.o = o /\ ctl.pc = "joining"
    BY <2>1 DEF IInv, Recorded
  <2> QED
    BY <2>2, <2>3, <2>4 DEF Claimed
<1> QED
  BY <1>1 DEF IInv, Listed, ThreadsAccounted

\* The manager lists and counts exactly the threads that run, until a cancelAll,
\* and the pthread of an object's first run gives its memory back.
THEOREM BooksCorrect == Spec => []ThreadsAccounted
  BY Invariant, BooksMean, PTL

\* join() returns when no pthread runs the object any more, or the object is detached.
THEOREM JoinCorrect == Spec => JoinWaits
<1>1. ASSUME IInv, [Next]_vars
      PROVE  [\A o \in Objs :
                ctl.pc \in {"joining", "joinfail"} /\ ctl.o = o /\ ctl'.pc # ctl.pc
                => Active(o) = {} \/ m_bDetach[o]]_vars
  <2> SUFFICES ASSUME NEW o \in Objs, ctl.pc \in {"joining", "joinfail"}, ctl.o = o,
                      ctl'.pc # ctl.pc
               PROVE  Active(o) = {} \/ m_bDetach[o]
    OBVIOUS
  <2>1. \A n \in Active(o) : n = m_handle[o] /\ n \in Runs /\ th[o][n] \in ActivePlaces
    BY <1>1 DEF IInv, Single, Active, ActivePlaces
  <2>2. m_handle[o] \in Runs
    BY <1>1, HandleIsNat DEF IInv, Control, JoinPlaces
  <2>3. CASE ctl.pc = "joining"
    <3>1. ctl.n = m_handle[o]
      BY <1>1, <2>3 DEF IInv, Control
    <3>2. ctl' # ctl
      OBVIOUS
    <3>3. Joined
      <4>1. ASSUME NEW x \in Objs, NEW m \in Runs,
                   RunStep(x, m) \/ RunReturns(x, m) \/ DieCancelled(x, m)
            PROVE  ctl' = ctl
        BY <4>1, Zenon
           DEF RunStep, Come, Lock, Insert, OnStart, RunReturns, DieCancelled, Remove, Decide,
               SelfDetach, Exit
      <4>2. Controller
        BY <1>1, <3>2, <4>1 DEF Next, vars
      <4>3. ~StartStep /\ ~CancelStep /\ ctl.pc # "idle" /\ ctl.pc # "get"
        <5>1. ctl.pc \notin {"idle", "get", "create", "wait", "cancel"}
          BY <2>3
        <5> QED
          BY <5>1, Zenon DEF StartStep, Create, StartSucceeds, StartGivesUp, CancelStep, Cancel,
                    CancelAllJoins
      <4>4. JoinStep
        BY <4>2, <4>3, Zenon DEF Controller, Start, Stop, Join, Detach, JoinAll, CancelAll
      <4> QED
        BY <2>3, <4>4 DEF JoinStep, JoinFlag, PthreadJoin, JoinFails, JoinAllGet
    <3>4. th[o][m_handle[o]] \in {"ended", "cancelled"}
      BY <3>1, <3>3 DEF Joined
    <3> QED
      BY <2>1, <3>4 DEF ActivePlaces
  <2>4. CASE ctl.pc = "joinfail"
    <3>1. kernel[o][m_handle[o]] \in {"detached", "joined"}
      BY <1>1, <2>2, <2>4 DEF IInv, TypeOK, Control, Recorded
    <3>2. kernel[o][m_handle[o]] = "detached" => m_bDetach[o]
      BY <1>1, <2>2 DEF IInv, Recorded
    <3>3. kernel[o][m_handle[o]] = "joined" => th[o][m_handle[o]] \in {"ended", "cancelled"}
      BY <1>1, <2>2 DEF IInv, Recorded
    <3> QED
      BY <2>1, <3>1, <3>2, <3>3 DEF ActivePlaces
  <2> QED
    BY <2>3, <2>4
<1> QED
  BY <1>1, Invariant, PTL DEF Spec, JoinWaits

-----------------------------------------------------------------------------
(***************************************************************************)
(* SafeLock.  That an object gets one mutex only is not inductive: the     *)
(* invariant ties the lines between ___static_safe_k.lock() and .unlock()  *)
(* to the owner of that lock, and who is inside an AutoLock to the owner   *)
(* and the depth of the object's mutex.                                    *)
(***************************************************************************)
\* Inside Safe::lock, a thread works on an object it may still nest into.
InCall ==
    \A t \in Threads :
        pc[t] # "idle" => obj[t] \in Objects /\ hold[t][obj[t]] < MaxDepth

\* The lines between ___static_safe_k.lock() and .unlock() are exactly where
\* the process-wide mutex is owned.
StaticSection ==
    \A t \in Threads : pc[t] \in {"test", "new", "unstatic"} <=> staticOwner = t

\* The first Safe_K is the only one, and it is not created twice.
KeyState ==
    /\ \A o \in Objects : safe_k[o] = created[o] /\ created[o] \in {0, 1}
    /\ \A t \in Threads : pc[t] = "new" => safe_k[obj[t]] = Null
    /\ \A t \in Threads : pc[t] \in {"unstatic", "key"} => safe_k[obj[t]] # Null

\* Whoever is inside an AutoLock owns that Safe_K, as deep as it is nested.
Ownership ==
    \A o \in Objects :
        /\ owner[o][1] = Null => depth[o][1] = 0
        /\ \A t \in Threads :
            /\ hold[t][o] > 0 => safe_k[o] = 1 /\ owner[o][1] = t
            /\ owner[o][1] = t => depth[o][1] = hold[t][o] /\ hold[t][o] > 0

LockInv == LockTypes /\ InCall /\ StaticSection /\ KeyState /\ Ownership

USE DEF Null

LEMMA OneKey == 1 \in Keys /\ 0 \notin Keys
  BY MaxKeysAssumption DEF Keys

LEMMA LockInitInv == LockInit => LockInv
  BY OneKey, ThreadsAssumption, MaxKeysAssumption, MaxDepthAssumption
  DEF LockInit, LockInv, LockTypes, InCall, StaticSection, KeyState, Ownership

LEMMA LockNextInv == LockInv /\ [LockNext]_lockvars => LockInv'
  <1> SUFFICES ASSUME LockInv, [LockNext]_lockvars PROVE LockInv'
    OBVIOUS
  <1>0. LockTypes /\ InCall /\ StaticSection /\ KeyState /\ Ownership
    BY DEF LockInv
  <1> USE OneKey, ThreadsAssumption, MaxKeysAssumption, MaxDepthAssumption
  <1>1. ASSUME NEW t \in Threads, NEW o \in Objects, Call(t, o) PROVE LockInv'
    <2>1. LockTypes'
      BY <1>0, <1>1 DEF Call, LockTypes, InCall
    <2>2. InCall'
      BY <1>0, <1>1 DEF Call, LockTypes, InCall
    <2>3. StaticSection'
      BY <1>0, <1>1 DEF Call, LockTypes, StaticSection
    <2>4. KeyState'
      BY <1>0, <1>1 DEF Call, LockTypes, InCall, StaticSection, KeyState
    <2>5. Ownership'
      BY <1>0, <1>1 DEF Call, LockTypes, InCall, KeyState, Ownership
    <2> QED
      BY <2>1, <2>2, <2>3, <2>4, <2>5 DEF LockInv
  <1>2. ASSUME NEW t \in Threads, NEW o \in Objects, Unlock(t, o) PROVE LockInv'
    <2>0. /\ safe_k[o] = 1 /\ 1 \in Keys /\ owner[o][1] = t
          /\ depth[o][1] = hold[t][o] /\ hold[t][o] \in Nat \ {0}
      BY <1>0, <1>2 DEF Unlock, LockTypes, Ownership
    <2>a. /\ owner' = IF hold[t][o] = 1 THEN [owner EXCEPT ![o][1] = Null] ELSE owner
          /\ depth' = [depth EXCEPT ![o][1] = hold[t][o] - 1]
          /\ hold' = [hold EXCEPT ![t][o] = hold[t][o] - 1]
          /\ UNCHANGED <<pc, obj, staticOwner, safe_k, created>>
      BY <2>0, <1>2, <1>0 DEF Unlock, LockTypes
    <2>1. LockTypes'
      <3>1. hold[t][o] - 1 \in 0..MaxDepth /\ hold[t][o] - 1 \in Nat
        <4>1. hold[t][o] \in 0..MaxDepth /\ hold[t][o] >= 1
          BY <1>0, <2>0 DEF LockTypes
        <4> QED
          BY <4>1
      <3>2. hold' \in [Threads -> [Objects -> 0..MaxDepth]]
        BY <1>0, <2>a, <3>1 DEF LockTypes
      <3>3. depth' \in [Objects -> [Keys -> Nat]]
        BY <1>0, <2>a, <3>1 DEF LockTypes
      <3> QED
        BY <1>0, <2>a, <3>2, <3>3 DEF LockTypes
    <2>2. InCall'
      BY <1>0, <1>2 DEF Unlock, LockTypes, InCall
    <2>3. StaticSection'
      BY <1>0, <1>2 DEF Unlock, LockTypes, StaticSection
    <2>4. KeyState'
      BY <1>0, <1>2 DEF Unlock, LockTypes, InCall, StaticSection, KeyState
    <2>5. Ownership'
      BY <1>0, <2>0, <2>a DEF LockTypes, Ownership
    <2> QED
      BY <2>1, <2>2, <2>3, <2>4, <2>5 DEF LockInv
  <1>3. ASSUME NEW t \in Threads, LockStatic(t) PROVE LockInv'
    <2>1. LockTypes'
      BY <1>0, <1>3 DEF LockStatic, LockTypes, InCall
    <2>2. InCall'
      BY <1>0, <1>3 DEF LockStatic, LockTypes, InCall
    <2>3. StaticSection'
      BY <1>0, <1>3 DEF LockStatic, LockTypes, StaticSection
    <2>4. KeyState'
      BY <1>0, <1>3 DEF LockStatic, LockTypes, InCall, StaticSection, KeyState
    <2>5. Ownership'
      BY <1>0, <1>3 DEF LockStatic, LockTypes, InCall, KeyState, Ownership
    <2> QED
      BY <2>1, <2>2, <2>3, <2>4, <2>5 DEF LockInv
  <1>4. ASSUME NEW t \in Threads, TestKey(t) PROVE LockInv'
    <2>1. LockTypes'
      BY <1>0, <1>4 DEF TestKey, LockTypes, InCall
    <2>2. InCall'
      BY <1>0, <1>4 DEF TestKey, LockTypes, InCall
    <2>3. StaticSection'
      BY <1>0, <1>4 DEF TestKey, LockTypes, StaticSection
    <2>4. KeyState'
      BY <1>0, <1>4 DEF TestKey, LockTypes, InCall, StaticSection, KeyState
    <2>5. Ownership'
      BY <1>0, <1>4 DEF TestKey, LockTypes, InCall, KeyState, Ownership
    <2> QED
      BY <2>1, <2>2, <2>3, <2>4, <2>5 DEF LockInv
  <1>5. ASSUME NEW t \in Threads, NewKey(t) PROVE LockInv'
    <2>0. /\ obj[t] \in Objects /\ created[obj[t]] = 0 /\ safe_k[obj[t]] = 0
          /\ staticOwner = t
      BY <1>0, <1>5 DEF NewKey, LockTypes, InCall, KeyState, StaticSection
    <2>a. /\ created' = [created EXCEPT ![obj[t]] = 1]
          /\ safe_k' = [safe_k EXCEPT ![obj[t]] = 1]
          /\ pc' = [pc EXCEPT ![t] = "unstatic"]
          /\ UNCHANGED <<obj, staticOwner, owner, depth, hold>>
      BY <2>0, <1>5, <1>0 DEF NewKey, LockTypes
    <2>1. LockTypes'
      BY <1>0, <2>0, <2>a DEF LockTypes
    <2>2. InCall'
      BY <1>0, <1>5 DEF NewKey, LockTypes, InCall
    <2>3. StaticSection'
      BY <1>0, <1>5 DEF NewKey, LockTypes, StaticSection
    <2>4. KeyState'
      BY <1>0, <1>5, <2>0, <2>a DEF NewKey, LockTypes, InCall, StaticSection, KeyState
    <2>5. Ownership'
      BY <1>0, <2>0, <2>a DEF LockTypes, Ownership
    <2> QED
      BY <2>1, <2>2, <2>3, <2>4, <2>5 DEF LockInv
  <1>6. ASSUME NEW t \in Threads, UnlockStatic(t) PROVE LockInv'
    <2>1. LockTypes'
      BY <1>0, <1>6 DEF UnlockStatic, LockTypes, InCall
    <2>2. InCall'
      BY <1>0, <1>6 DEF UnlockStatic, LockTypes, InCall
    <2>3. StaticSection'
      BY <1>0, <1>6 DEF UnlockStatic, LockTypes, StaticSection
    <2>4. KeyState'
      BY <1>0, <1>6 DEF UnlockStatic, LockTypes, InCall, StaticSection, KeyState
    <2>5. Ownership'
      BY <1>0, <1>6 DEF UnlockStatic, LockTypes, InCall, KeyState, Ownership
    <2> QED
      BY <2>1, <2>2, <2>3, <2>4, <2>5 DEF LockInv
  <1>7. ASSUME NEW t \in Threads, LockKey(t) PROVE LockInv'
    <2>0. /\ obj[t] \in Objects /\ safe_k[obj[t]] = 1 /\ 1 \in Keys
          /\ owner[obj[t]][1] \in {Null, t} /\ hold[t][obj[t]] < MaxDepth
          /\ depth[obj[t]][1] = hold[t][obj[t]]
      BY <1>0, <1>7 DEF LockKey, LockTypes, InCall, KeyState, Ownership
    <2>a. /\ owner' = [owner EXCEPT ![obj[t]][1] = t]
          /\ depth' = [depth EXCEPT ![obj[t]][1] = hold[t][obj[t]] + 1]
          /\ hold' = [hold EXCEPT ![t][obj[t]] = hold[t][obj[t]] + 1]
          /\ pc' = [pc EXCEPT ![t] = "idle"]
          /\ obj' = [obj EXCEPT ![t] = Null]
          /\ UNCHANGED <<staticOwner, safe_k, created>>
      BY <2>0, <1>7, <1>0 DEF LockKey, LockTypes
    <2>1. LockTypes'
      BY <1>0, <2>0, <2>a DEF LockTypes
    <2>2. InCall'
      BY <1>0, <1>7 DEF LockKey, LockTypes, InCall
    <2>3. StaticSection'
      BY <1>0, <1>7 DEF LockKey, LockTypes, StaticSection
    <2>4. KeyState'
      BY <1>0, <1>7 DEF LockKey, LockTypes, InCall, StaticSection, KeyState
    <2>5. Ownership'
      BY <1>0, <2>0, <2>a DEF LockTypes, Ownership
    <2> QED
      BY <2>1, <2>2, <2>3, <2>4, <2>5 DEF LockInv
  <1>8. CASE UNCHANGED lockvars
    BY <1>0, <1>8 DEF lockvars, LockInv, LockTypes, InCall, StaticSection, KeyState, Ownership
  <1> QED
    BY <1>1, <1>2, <1>3, <1>4, <1>5, <1>6, <1>7, <1>8 DEF LockNext

\* SafeLock's inductive invariant holds in every reachable state.
LEMMA LockSpecInv == LockSpec => []LockInv
  BY LockInitInv, LockNextInv, PTL DEF LockSpec

\* Every variable of Safe, Safe_K and AutoLock keeps its type.
THEOREM LockTypeCorrect == LockSpec => []LockTypes
  <1>1. LockInv => LockTypes
    BY DEF LockInv
  <1> QED
    BY <1>1, LockSpecInv, PTL

\* Safe::lock never creates a second mutex for an object, and never returns to
\* a caller without one.
THEOREM OneMutexPerObject == LockSpec => []SingleKey
  <1>1. LockInv => SingleKey
    <2> SUFFICES ASSUME LockInv PROVE SingleKey
      OBVIOUS
    <2>1. \A o \in Objects : created[o] <= 1
      BY DEF LockInv, KeyState
    <2>2. \A t \in Threads : pc[t] \in {"unstatic", "key"} => safe_k[obj[t]] # Null
      BY DEF LockInv, KeyState
    <2> QED
      BY <2>1, <2>2 DEF SingleKey
  <1> QED
    BY <1>1, LockSpecInv, PTL

\* AutoLock gives mutual exclusion per object.
THEOREM AutoLockExcludes == LockSpec => []MutualExclusion
  <1>1. LockInv => MutualExclusion
    BY DEF LockInv, Ownership, MutualExclusion
  <1> QED
    BY <1>1, LockSpecInv, PTL
=============================================================================
