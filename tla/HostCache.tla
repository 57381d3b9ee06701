------------------------------ MODULE HostCache ------------------------------
(***************************************************************************)
(* The process-wide cache of host names (Hostname::m_Cache, lib/net/       *)
(* Hostname.cpp) between the threads that ask for a host (Hostname::get)   *)
(* and HostManager::HostLookup, the thread that refreshes every entry      *)
(* (lib/net/HostManager.cpp), which HostManager starts and stops.          *)
(* A host is its place in the order of names, in which the cache is        *)
(* sorted; the age of an entry is all that is kept of its time.  Of a      *)
(* list of addresses only whether it is empty is kept.  join() of a        *)
(* HostLookup fails if the thread has detached itself before join() set    *)
(* m_bJoin (see ThreadLife).                                               *)
(***************************************************************************)
EXTENDS Integers, FiniteSets

CONSTANTS
    H,            \* the hosts are 1..H
    Clients,      \* the threads that call Hostname::get
    MaxLookups    \* bound: HostLookup threads made

HostNames == 1..H
Lookups == 1..MaxLookups

VARIABLES
    cache,        \* cache[h]: "none", "fresh" or "old" (CACHE_TIME_SEC passed)
    pc, host,     \* what a client does, and for which host
    m_uCacheTime, \* m_uCacheTime[c] > 0: the answer is in m_aCacheList
    m_aCacheList, m_aResultList,  \* whether they hold an address
    cacheTime,    \* the local variable of parse_start_l
    lk,           \* lk[t]: what HostLookup t does
    k,            \* its loop index
    target,       \* the host it is looking up
    begun, seen,  \* the hosts cached when its pass began, those it looked up
    refresh,      \* m_refresh_seconds # 0
    m_hostLookup, \* which HostLookup the manager has, or 0
    mgr           \* "idle", "stop" or "join": what the holder of m_lock does

client == <<pc, host, m_uCacheTime, m_aCacheList, m_aResultList, cacheTime>>
thread == <<lk, k, target, begun, seen, refresh>>
manager == <<m_hostLookup, mgr>>
vars == <<cache, client, thread, manager>>

Cached == {h \in HostNames : cache[h] # "none"}

\* m_Cache.get(i): the entry at place i of the sorted list, or none.
CachedAt(i) == {h \in Cached : Cardinality({g \in Cached : g < h}) = i}

Init ==
    /\ cache = [h \in HostNames |-> "none"]
    /\ pc = [c \in Clients |-> "idle"]
    /\ host = [c \in Clients |-> 0]
    /\ m_uCacheTime = [c \in Clients |-> FALSE]
    /\ m_aCacheList = [c \in Clients |-> FALSE]
    /\ m_aResultList = [c \in Clients |-> FALSE]
    /\ cacheTime = [c \in Clients |-> FALSE]
    /\ lk = [t \in Lookups |-> "none"]
    /\ k = [t \in Lookups |-> 0]
    /\ target = [t \in Lookups |-> 0]
    /\ begun = [t \in Lookups |-> {}]
    /\ seen = [t \in Lookups |-> {}]
    /\ refresh = [t \in Lookups |-> FALSE]
    /\ m_hostLookup = 0 /\ mgr = "idle"

\* CACHE_TIME_SEC pass since the entry was made (external).
Expire(h) ==
    /\ cache[h] = "fresh"
    /\ cache' = [cache EXCEPT ![h] = "old"]
    /\ UNCHANGED <<client, thread, manager>>

\* m_Cache.append(): the entry is replaced in one locked block.
Append(h) == cache' = [cache EXCEPT ![h] = "fresh"]

-----------------------------------------------------------------------------
(* A client: Hostname::get(uri, bCache) *)

\* clear() and m_Cache.search(), which copies the entry.
Search(c, h, bCache) ==
    LET hit == bCache /\ h \in Cached
        answered == hit /\ cache[h] = "fresh"
    IN  /\ pc[c] \in {"idle", "answered", "failed"}
        /\ host' = [host EXCEPT ![c] = IF answered THEN 0 ELSE h]
        /\ m_aCacheList' = [m_aCacheList EXCEPT ![c] = hit]
        /\ m_aResultList' = [m_aResultList EXCEPT ![c] = FALSE]
        /\ m_uCacheTime' = [m_uCacheTime EXCEPT ![c] = answered]
        /\ cacheTime' = [cacheTime EXCEPT ![c] = hit /\ ~answered]
        /\ pc' = [pc EXCEPT ![c] = IF answered THEN "answered" ELSE "lookup"]
        /\ UNCHANGED <<cache, thread, manager>>

\* parse_hostbyname succeeds, after some EAI_AGAIN.
Resolve(c) ==
    /\ pc[c] = "lookup"
    /\ m_aResultList' = [m_aResultList EXCEPT ![c] = TRUE]
    /\ pc' = [pc EXCEPT ![c] = "append"]
    /\ UNCHANGED <<cache, host, m_uCacheTime, m_aCacheList, cacheTime, thread, manager>>

ClientAppend(c) ==
    /\ pc[c] = "append"
    /\ Append(host[c])
    /\ pc' = [pc EXCEPT ![c] = "answered"]
    /\ host' = [host EXCEPT ![c] = 0]
    /\ UNCHANGED <<m_uCacheTime, m_aCacheList, m_aResultList, cacheTime, thread, manager>>

\* parse_hostbyname fails, perhaps with some addresses in m_aResultList (an
\* address of an unknown type): an entry of any age is better than none.
ResolveFails(c) ==
    /\ pc[c] = "lookup"
    /\ m_aResultList' \in {m_aResultList, [m_aResultList EXCEPT ![c] = TRUE]}
    /\ m_uCacheTime' = [m_uCacheTime EXCEPT ![c] = cacheTime[c]]
    /\ pc' = [pc EXCEPT ![c] = IF cacheTime[c] THEN "answered" ELSE "failed"]
    /\ host' = [host EXCEPT ![c] = 0]
    /\ UNCHANGED <<cache, m_aCacheList, cacheTime, thread, manager>>

-----------------------------------------------------------------------------
(* HostLookup::run() *)

\* sleep(m_refresh_seconds) is over and a pass begins.
Wake(t) ==
    /\ lk[t] = "sleep"
    /\ lk' = [lk EXCEPT ![t] = "loop"]
    /\ k' = [k EXCEPT ![t] = 0]
    /\ begun' = [begun EXCEPT ![t] = Cached]
    /\ seen' = [seen EXCEPT ![t] = {}]
    /\ UNCHANGED <<cache, client, target, refresh, manager>>

\* k < m_Cache.size(), m_refresh_seconds and m_Cache.get(k); entries may come
\* between two looks at the cache.
Visit(t) ==
    /\ lk[t] = "loop"
    /\ refresh[t] /\ k[t] < Cardinality(Cached)
    /\ lk' = [lk EXCEPT ![t] = "get"]
    /\ target' = [target EXCEPT ![t] = CHOOSE h \in CachedAt(k[t]) : TRUE]
    /\ UNCHANGED <<cache, client, k, begun, seen, refresh, manager>>

\* Mutant of LoopOn: the entry behind the one that was refreshed is left out.
LoopOnSkip(t) == k' = [k EXCEPT ![t] = @ + 2]

\* k++
LoopOn(t) == k' = [k EXCEPT ![t] = @ + 1]

\* host->get(uri, false): without the cache; its errors are ignored.
Refresh(t) ==
    /\ lk[t] = "get"
    /\ \/ Append(target[t])
       \/ UNCHANGED cache
    /\ seen' = [seen EXCEPT ![t] = @ \cup {target[t]}]
    /\ LoopOn(t)
    /\ lk' = [lk EXCEPT ![t] = "loop"]
    /\ target' = [target EXCEPT ![t] = 0]
    /\ UNCHANGED <<client, begun, refresh, manager>>

\* What only one pass knows is gone.
PassOver(t) ==
    /\ k' = [k EXCEPT ![t] = 0]
    /\ begun' = [begun EXCEPT ![t] = {}]
    /\ seen' = [seen EXCEPT ![t] = {}]

\* The for loop is over.
PassEnds(t) ==
    /\ lk[t] = "loop" /\ k[t] >= Cardinality(Cached)
    /\ lk' = [lk EXCEPT ![t] = IF refresh[t] THEN "sleep" ELSE "ended"]
    /\ PassOver(t)
    /\ UNCHANGED <<cache, client, target, refresh, manager>>

\* if( !m_refresh_seconds ) return;
RunReturns(t) ==
    /\ lk[t] = "loop" /\ ~refresh[t]
    /\ lk' = [lk EXCEPT ![t] = "ended"]
    /\ PassOver(t)
    /\ UNCHANGED <<cache, client, target, refresh, manager>>

-----------------------------------------------------------------------------
(* HostManager *)

\* start(refresh, timesec): only if there is no HostLookup.  The thread runs, or
\* it ends at once (refresh is 0) or could not be started: the object stays in
\* m_hostLookup all the same.
Start(runs) ==
    LET t == Cardinality({x \in Lookups : lk[x] # "none"}) + 1
    IN  /\ mgr = "idle" /\ m_hostLookup = 0
        /\ t \in Lookups
        /\ m_hostLookup' = t
        /\ refresh' = [refresh EXCEPT ![t] = runs]
        /\ lk' = [lk EXCEPT ![t] = IF runs THEN "sleep" ELSE "ended"]
        /\ UNCHANGED <<cache, client, k, target, begun, seen, mgr>>

\* stop(): m_refresh_seconds = 0, then join(); join() alone waits as well.
Stop ==
    /\ mgr = "idle" /\ m_hostLookup # 0
    /\ refresh' = [refresh EXCEPT ![m_hostLookup] = FALSE]
    /\ mgr' = "stop"
    /\ UNCHANGED <<cache, client, lk, k, target, begun, seen, m_hostLookup>>

Join ==
    /\ mgr = "idle" /\ m_hostLookup # 0
    /\ mgr' = "join"
    /\ UNCHANGED <<cache, client, thread, m_hostLookup>>

\* join() returns when the thread has ended: with success (and stop() forgets
\* it), or with an error because the thread had detached itself.
Joined ==
    /\ mgr # "idle" /\ lk[m_hostLookup] = "ended"
    /\ mgr' = "idle"
    /\ \/ m_hostLookup' = IF mgr = "stop" THEN 0 ELSE m_hostLookup
       \/ UNCHANGED m_hostLookup
    /\ UNCHANGED <<cache, client, thread>>

ClientStep(c) == Resolve(c) \/ ClientAppend(c) \/ ResolveFails(c)
LookupStep(t) == Wake(t) \/ Visit(t) \/ Refresh(t) \/ PassEnds(t) \/ RunReturns(t)

Next ==
    \/ \E h \in HostNames : Expire(h)
    \/ \E c \in Clients : ClientStep(c) \/ \E h \in HostNames, b \in BOOLEAN : Search(c, h, b)
    \/ \E t \in Lookups : LookupStep(t)
    \/ \E runs \in BOOLEAN : Start(runs)
    \/ Stop \/ Join \/ Joined

\* getaddrinfo and sleep return, the threads run on.
Fairness ==
    /\ \A t \in Lookups : WF_vars(LookupStep(t))
    /\ WF_vars(Joined)

Spec == Init /\ [][Next]_vars /\ Fairness
-----------------------------------------------------------------------------
\* A pass that is not told to stop looks up every host that was in the cache when
\* it began, although clients insert entries below its index meanwhile.
PassCoversCache ==
    [][\A t \in Lookups :
          lk[t] = "loop" /\ lk'[t] = "sleep" => begun[t] \subseteq seen[t]]_vars

\* stop() returns, although it waits for the thread under m_lock.
StopReturns == mgr = "stop" ~> mgr = "idle"
=============================================================================
