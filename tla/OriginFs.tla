------------------------------ MODULE OriginFs ------------------------------
(***************************************************************************)
(* The failover of OriginFs (lib/httpd/OriginFs.cpp) over the origins of   *)
(* one AliasUri (HttpdHost.h).  Every connection has an OriginFs of its    *)
(* own; the AliasUri and its m_current are shared by all of them and read  *)
(* and written without a lock.  getattr, readdir and open walk over the    *)
(* origins by the same loop, beginning behind m_current; open keeps the    *)
(* origin it found for read and close.  Whether an origin can serve the    *)
(* path (fs->ready and the operation of UriFs succeed) may change at any   *)
(* time.                                                                   *)
(***************************************************************************)
EXTENDS Integers

CONSTANTS
    Clients,      \* the connections, each with its OriginFs
    N             \* uris->size(): the origins are 0..N-1

ASSUME NAssumption == N \in Nat

Origins == 0..N - 1

\* No origin: m_fs of an OriginFs that has opened nothing.
None == -1

\* The operations with a loop; getattr and readdir differ in nothing modelled.
Ops == {"getattr", "open"}

VARIABLES
    m_current,    \* of the shared AliasUri
    up,           \* up[i]: origin i can serve the path
    m_bInit,      \* m_bInit[c]
    m_fs,         \* m_fs[c]: the origin that open() found
    pc,           \* "idle", or the operation whose loop runs
    start, cur,   \* the local variables of the loop
    result,       \* result[c]: what the last call returned
    steady        \* steady[c]: the origins that were up since the loop began

local == <<m_bInit, m_fs, pc, start, cur, result>>
vars == <<m_current, up, m_bInit, m_fs, pc, start, cur, result, steady>>

Init ==
    /\ m_current = 0
    /\ up \in [Origins -> BOOLEAN]
    /\ m_bInit = [c \in Clients |-> FALSE]
    /\ m_fs = [c \in Clients |-> None]
    /\ pc = [c \in Clients |-> "idle"]
    /\ start = [c \in Clients |-> 0]
    /\ cur = [c \in Clients |-> 0]
    /\ result = [c \in Clients |-> "none"]
    /\ steady = [c \in Clients |-> {}]

-----------------------------------------------------------------------------
\* An origin comes up or goes away (external).
Flip(i) ==
    /\ up' = [up EXCEPT ![i] = ~@]
    /\ steady' = [c \in Clients |-> IF up[i] THEN steady[c] \ {i} ELSE steady[c]]
    /\ UNCHANGED <<m_current, local>>

\* ready(host)
Ready(c) ==
    /\ pc[c] = "idle"
    /\ m_bInit' = [m_bInit EXCEPT ![c] = TRUE]
    /\ UNCHANGED <<m_current, up, m_fs, pc, start, cur, result, steady>>

\* An operation before ready() fails, and so do read() and close() before open().
NotReady(c) ==
    /\ pc[c] = "idle"
    /\ ~m_bInit[c] \/ m_fs[c] = None
    /\ result' = [result EXCEPT ![c] = "error"]
    /\ UNCHANGED <<m_current, up, m_bInit, m_fs, pc, start, cur, steady>>

\* Mutant of Begin: the origin behind m_current is passed over.
BeginSkip(c, op) ==
    /\ pc[c] = "idle" /\ m_bInit[c]
    /\ pc' = [pc EXCEPT ![c] = op]
    /\ start' = [start EXCEPT ![c] = m_current]
    /\ cur' = [cur EXCEPT ![c] = m_current + 2]
    /\ result' = [result EXCEPT ![c] = "none"]
    /\ steady' = [steady EXCEPT ![c] = {i \in Origins : up[i]}]
    /\ UNCHANGED <<m_current, up, m_bInit, m_fs>>

\* int start = uris->getCurrent(); ... int cur = start + 1;
Begin(c, op) ==
    /\ pc[c] = "idle" /\ m_bInit[c]
    /\ pc' = [pc EXCEPT ![c] = op]
    /\ start' = [start EXCEPT ![c] = m_current]
    /\ cur' = [cur EXCEPT ![c] = m_current + 1]
    /\ result' = [result EXCEPT ![c] = "none"]
    /\ steady' = [steady EXCEPT ![c] = {i \in Origins : up[i]}]
    /\ UNCHANGED <<m_current, up, m_bInit, m_fs>>

\* if( cur >= size ) cur = 0;
Wrapped(k) == IF k >= N THEN 0 ELSE k

\* getUri(k) has an origin and its file system does what was asked.
Serves(k) == k \in Origins /\ up[k]

\* The loop returns r: its local variables are gone.
Return(c, r) ==
    /\ pc' = [pc EXCEPT ![c] = "idle"]
    /\ start' = [start EXCEPT ![c] = 0]
    /\ cur' = [cur EXCEPT ![c] = 0]
    /\ result' = [result EXCEPT ![c] = r]
    /\ steady' = [steady EXCEPT ![c] = {}]

\* The origin serves: uris->setCurrent(cur), open() keeps it in m_fs.
Found(c) ==
    LET k == Wrapped(cur[c])
    IN  /\ pc[c] # "idle" /\ Serves(k)
        /\ m_current' = k
        /\ m_fs' = [m_fs EXCEPT ![c] = IF pc[c] = "open" THEN k ELSE @]
        /\ Return(c, "ok")
        /\ UNCHANGED <<up, m_bInit>>

\* Mutant of LastTried: the loop ends at the end of the list.
LastTriedEnd(c, k) == k + 1 = N

\* cur++; if( cur == (start + 1) ): every origin was tried.
LastTried(c, k) == k + 1 = start[c] + 1

\* Mutant of Missed: another round when every origin has failed.
MissedRounds(c) ==
    LET k == Wrapped(cur[c])
    IN  /\ pc[c] # "idle" /\ ~Serves(k)
        /\ cur' = [cur EXCEPT ![c] = k + 1]
        /\ UNCHANGED <<m_current, up, m_bInit, m_fs, pc, start, result, steady>>

\* The origin does not serve: the next one, or the error of the last one.
Missed(c) ==
    LET k == Wrapped(cur[c])
    IN  /\ pc[c] # "idle" /\ ~Serves(k)
        /\ \/ LastTried(c, k) /\ Return(c, "error")
           \/ /\ ~LastTried(c, k)
              /\ cur' = [cur EXCEPT ![c] = k + 1]
              /\ UNCHANGED <<pc, start, result, steady>>
        /\ UNCHANGED <<m_current, up, m_bInit, m_fs>>

\* read(), close(), getContentType(): only of the origin that open() found; no
\* failover, and close() leaves m_fs.
UseOpened(c) ==
    /\ pc[c] = "idle" /\ m_bInit[c] /\ m_fs[c] # None
    /\ result' = [result EXCEPT ![c] = IF up[m_fs[c]] THEN "ok" ELSE "error"]
    /\ UNCHANGED <<m_current, up, m_bInit, m_fs, pc, start, cur, steady>>

Step(c) == Found(c) \/ Missed(c)

Next ==
    \/ \E i \in Origins : Flip(i)
    \/ \E c \in Clients :
          \/ Ready(c) \/ NotReady(c) \/ UseOpened(c) \/ Step(c)
          \/ \E op \in Ops : Begin(c, op)

\* Each try of an origin returns (with a time out, at the latest).
Spec == Init /\ [][Next]_vars /\ \A c \in Clients : WF_vars(Step(c))
-----------------------------------------------------------------------------
\* Every variable keeps its type; the shared index stays inside the list (it is
\* 0 for an empty one).
TypeOK ==
    /\ m_current \in 0..N /\ (N > 0 => m_current \in Origins)
    /\ up \in [Origins -> BOOLEAN]
    /\ m_bInit \in [Clients -> BOOLEAN]
    /\ m_fs \in [Clients -> Origins \cup {None}]
    /\ pc \in [Clients -> Ops \cup {"idle"}]
    /\ start \in [Clients -> 0..N]
    /\ cur \in [Clients -> 0..N + 1]
    /\ result \in [Clients -> {"none", "ok", "error"}]
    /\ steady \in [Clients -> SUBSET Origins]

\* The origins the running loop of c has tried: from start + 1 on, cyclically.
Tried(c) ==
    {i \in Origins : IF cur[c] > start[c] THEN start[c] < i /\ i < cur[c]
                                          ELSE start[c] < i \/ i < cur[c]}

\* Between two iterations the loop has tried exactly the origins from start + 1
\* to cur - 1, the next one is not among them, and each was unreachable at some
\* moment since the operation began.
LoopInv ==
    \A c \in Clients : pc[c] # "idle" =>
        /\ steady[c] \cap Tried(c) = {}
        /\ Wrapped(cur[c]) \notin Tried(c)
        /\ N > 0 => start[c] \in Origins
        /\ N = 0 => start[c] = 0

\* getattr, readdir and open fail only when no origin could serve the path
\* throughout the operation, whatever the other connections do to m_current.
NoFalseFailure ==
    [][\A c \in Clients :
          pc[c] # "idle" /\ pc'[c] = "idle" /\ result'[c] = "error" => steady[c] = {}]_vars

\* Every operation returns although origins come and go.
OperationReturns == \A c \in Clients : pc[c] # "idle" ~> pc[c] = "idle"
=============================================================================
