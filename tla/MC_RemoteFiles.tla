--------------------------- MODULE MC_RemoteFiles ---------------------------
(***************************************************************************)
(* What stands between a file on a web server and its reader: the cache of *)
(* host names (HostCache), the queries on a kept connection (HttpClient)   *)
(* and the reads that share one answer (HttpFs).  Each takes the others as *)
(* any of their outcomes, so the three are checked side by side: `active'  *)
(* says which one moves, the others stay in their initial state.           *)
(***************************************************************************)
EXTENDS Integers

CONSTANTS Hosts, Paths, MaxRetry, MaxWire, Relative, Nothing,
          Size, ReadSizes, MaxBytes,
          H, Callers, MaxLookups

ASSUME RemoteAssumption ==
    /\ MaxRetry \in Nat /\ MaxWire \in Nat \ {0}
    /\ Size \in Nat \ {0} /\ ReadSizes \subseteq Nat \ {0} /\ MaxBytes \in Nat
    /\ H \in Nat /\ MaxLookups \in Nat

VARIABLES
    active,
    \* of HttpClient
    m_socket, m_sLastUri, round, retry_count, retry_auth, m_bOnlyHead, q_pc, status, wire,
    moved, left,
    \* of HttpFs
    m_http, conn, f_wire, reader, m_offset, m_step, m_size, f_pc, offset, size, got, ret,
    stale,
    \* of HostCache
    cache, h_pc, host, m_uCacheTime, m_aCacheList, m_aResultList, cacheTime, lk, k,
    target, begun, seen, refresh, m_hostLookup, mgr

Query == INSTANCE HttpClient WITH None <- Nothing, pc <- q_pc
Fs == INSTANCE HttpFs WITH MaxWire <- MaxBytes, wire <- f_wire, pc <- f_pc
Names == INSTANCE HostCache WITH Clients <- Callers, pc <- h_pc

query == <<m_socket, m_sLastUri, round, retry_count, retry_auth, m_bOnlyHead, q_pc,
           status, wire, moved, left>>
fs == <<m_http, conn, f_wire, reader, m_offset, m_step, m_size, f_pc, offset, size, got,
        ret, stale>>
names == <<cache, h_pc, host, m_uCacheTime, m_aCacheList, m_aResultList, cacheTime, lk,
           k, target, begun, seen, refresh, m_hostLookup, mgr>>
remote == <<active, query, fs, names>>

-----------------------------------------------------------------------------
RemoteInit ==
    /\ active \in {"query", "fs", "names"}
    /\ Query!Init /\ Fs!Init /\ Names!Init

QueryMoves(A) == active = "query" /\ A /\ UNCHANGED <<active, fs, names>>
FsMoves(A) == active = "fs" /\ A /\ UNCHANGED <<active, query, names>>
NamesMove(A) == active = "names" /\ A /\ UNCHANGED <<active, query, fs>>

RemoteNext == QueryMoves(Query!Next) \/ FsMoves(Fs!Next) \/ NamesMove(Names!Next)

\* The fairness of each module: the calling thread, and HostLookup, run on.
Fairness ==
    /\ WF_remote(QueryMoves(Query!Client))
    /\ WF_remote(FsMoves(Fs!HttpFsStep))
    /\ \A t \in 1..MaxLookups : WF_remote(NamesMove(Names!LookupStep(t)))
    /\ WF_remote(NamesMove(Names!Joined))

RemoteFiles == RemoteInit /\ [][RemoteNext]_remote /\ Fairness

-----------------------------------------------------------------------------
\* A request goes to the host of its round, through redirections, retries and
\* kept connections; only a host that an earlier redirection connected to may be
\* there instead.  And the answer a round takes is the one to the request it sent,
\* unless an earlier query on the connection failed or wanted only the head.
AnswerIsMine == Query!RightHost /\ Query!InStep

\* The bytes a read gives are the file's bytes at its offset, and a read that
\* succeeds is whole unless the last open failed, whatever came late before; only
\* a failed open leaves a read without a connection.
ReadRight == Fs!ReadRight /\ Fs!OkIsWhole /\ Fs!NullAfterFailedOpen

\* A pass of HostLookup leaves out no host that was cached when it began, although
\* clients insert entries below its index meanwhile.
PassCoversCache == Names!PassCoversCache

\* Every query, every read and every stop of HostLookup returns.
CallsReturn == Query!QueryReturns /\ Fs!ReadReturns /\ Names!StopReturns
=============================================================================
