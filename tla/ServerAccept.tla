---------------------------- MODULE ServerAccept ----------------------------
(***************************************************************************)
(* ServerAccept (lib/net/ServerAccept.cpp): the thread that polls the      *)
(* server sockets, accepts connections and repairs sockets that report an  *)
(* error, while the application stops it or, back from the background,     *)
(* replaces all sockets (HttpdService::repaireService).                    *)
(*                                                                         *)
(* The thread holds the lock of m_poll during a whole pass and takes the   *)
(* object's own lock inside it; the replacement takes them the other way   *)
(* round.  A port stands for its host's ServerSocket.  What a descriptor   *)
(* leads to is the kernel's: a number that was closed is the next one that *)
(* is given out, to whoever asks, and a ServerSocket that still names it   *)
(* closes what is there.                                                   *)
(***************************************************************************)
EXTENDS Integers, SequencesExt

CONSTANTS
    Hosts,        \* the port of each host, in the order of m_aHosts
    None,
    AnyPort,      \* a listening socket on whatever port the kernel chose
    File,         \* what the rest of the process has open: connections, files
    MaxReplaced,  \* bound: calls of repaireService()
    MaxFiles      \* bound: how often the rest of the process opens something

Ports == Range(Hosts)

ASSUME NoneAssumption == /\ None \notin Ports \cup {"app", "accept"}
                         /\ AnyPort \notin Ports \cup {None} /\ File \notin Ports \cup {None, AnyPort}
ASSUME HostsAssumption == Hosts \in Seq(Ports) /\ IsInjective(Hosts) /\ MaxReplaced \in Nat /\ MaxFiles \in Nat

VARIABLES
    fds,                  \* the kernel's table: what each number leads to
    handle,               \* m_iHandle of each host's socket, 0 for -1
    port,                 \* whether m_iPort is the configured port; else it is 0
    start,                \* the same of m_iStartPort and m_iEndPort
    file, files,          \* the number the rest of the process has, 0 for none; how many it had
    thisLock, pollLock,   \* who holds the object's lock and that of m_poll
    polls,                \* m_poll: socket, descriptor and event of each entry
    listed,               \* m_aSockList: how often each socket is in it, 2 for more
    sorted,               \* no m_iHandle changed of a socket in m_aSockList
    isstop,
    apc, k, ssock,        \* the accept thread, its loop index and socket
    ppc, pk, cur, fresh,  \* the application, its loop index, socket and new descriptor
    todo,                 \* the hosts that repaireService() has yet to replace
    lost,                 \* history: sockets whose repair or replacement failed
    reopened,             \* history: sockets repaired after stop() began
    replaced,             \* history: how often repaireService() was called
    clash                 \* history: a number was given out that another socket names

avars == <<apc, k, ssock>>
pvars == <<ppc, pk, cur, fresh, todo>>
locks == <<thisLock, pollLock>>
table == <<fds, handle, port, start, file, files, clash>>
lists == <<polls, listed, sorted>>
history == <<lost, reopened, replaced>>
vars == <<table, lists, history, locks, isstop, avars, pvars>>

\* As many as can be open: a socket of each host, a new one, the others'.
Numbers == 1 .. Len(Hosts) + 2

\* Where the application is from the beginning of stop() on.
Stopping == {"get", "close", "join", "done"}

Entry(p, n) == [sock |-> p, fd |-> n, event |-> "ok"]
Polled == {polls[i].sock : i \in DOMAIN polls}

\* ready(): every host's socket is open, listed and polled; then start().
Init ==
    /\ fds = [n \in Numbers |-> IF n <= Len(Hosts) THEN Hosts[n] ELSE None]
    /\ handle = [p \in Ports |-> CHOOSE n \in DOMAIN Hosts : Hosts[n] = p]
    /\ polls = [n \in DOMAIN Hosts |-> Entry(Hosts[n], n)]
    /\ port = [p \in Ports |-> TRUE] /\ start = [p \in Ports |-> TRUE]
    /\ file = 0 /\ files = 0 /\ clash = FALSE
    /\ listed = [p \in Ports |-> 1] /\ sorted = TRUE
    /\ thisLock = None /\ pollLock = None
    /\ isstop = FALSE
    /\ apc = "top" /\ k = 0 /\ ssock = None
    /\ ppc = "run" /\ pk = 0 /\ cur = None /\ fresh = 0 /\ todo = <<>>
    /\ lost = {} /\ reopened = {} /\ replaced = 0

-----------------------------------------------------------------------------
(* Descriptors. *)

\* The number that the kernel gives out: the lowest that is free, if any is.
Lowest(t, n) == t[n] = None /\ \A m \in 1..n - 1 : t[m] # None

Closed(t, n) == IF n = 0 THEN t ELSE [t EXCEPT ![n] = None]

\* A number goes to x although the socket of another host names it.
Clashes(n, x) == clash \/ \E p \in Ports \ {x} : handle[p] = n

\* What a socket for p listens on.
Own(p) == IF start[p] THEN p ELSE AnyPort

\* bind() and listen() find no other socket on the port.
MayBind(t, p) == p = AnyPort \/ \A n \in Numbers : t[n] # p

\* External: another part of the process opens a file or gets a connection ...
FileOpens ==
    /\ file = 0 /\ files < MaxFiles
    /\ files' = files + 1
    /\ \E n \in Numbers :
        /\ Lowest(fds, n)
        /\ file' = n /\ fds' = [fds EXCEPT ![n] = File] /\ clash' = Clashes(n, None)
    /\ UNCHANGED <<handle, port, start, lists, history, locks, isstop, avars, pvars>>

\* ... and closes it: whatever has its number by now.
FileCloses ==
    /\ file # 0
    /\ fds' = Closed(fds, file) /\ file' = 0
    /\ UNCHANGED <<handle, port, start, files, clash, lists, history, locks, isstop, avars, pvars>>

-----------------------------------------------------------------------------
(* The accept thread. *)

\* Mutant of RunTop: the thread does not look whether it is stopped.
RunTopDeaf ==
    /\ apc = "top" /\ thisLock = None
    /\ apc' = "lock"
    /\ UNCHANGED <<table, lists, history, locks, isstop, k, ssock, pvars>>

\* The loop of run_l(): isstop() under the object's lock.
RunTop ==
    /\ apc = "top" /\ thisLock = None
    /\ apc' = IF isstop THEN "end" ELSE "lock"
    /\ UNCHANGED <<table, lists, history, locks, isstop, k, ssock, pvars>>

\* accept_poll() takes the lock of m_poll; without sockets it sleeps and fails.
LockPoll ==
    /\ apc = "lock" /\ pollLock = None
    /\ IF polls = <<>> THEN apc' = "top" /\ UNCHANGED pollLock
                       ELSE apc' = "poll" /\ pollLock' = "accept"
    /\ UNCHANGED <<table, lists, history, thisLock, isstop, k, ssock, pvars>>

\* What poll() reported is overwritten by the next one.
Unlock ==
    /\ apc' = "top" /\ pollLock' = None /\ k' = 0
    /\ polls' = [i \in DOMAIN polls |-> Entry(polls[i].sock, polls[i].fd)]

\* poll() times out or fails.
PollNothing ==
    /\ apc = "poll"
    /\ Unlock
    /\ UNCHANGED <<table, listed, sorted, history, thisLock, isstop, ssock, pvars>>

\* poll(): an error, or nothing or input.  A closed descriptor reports POLLNVAL;
\* -1 is left out.
Poll ==
    /\ apc = "poll"
    /\ \E errs \in SUBSET DOMAIN polls :
        /\ \A i \in DOMAIN polls :
            LET n == polls[i].fd
            IN  IF n = 0 THEN i \notin errs ELSE fds[n] = None => i \in errs
        /\ polls' = [i \in DOMAIN polls |->
                       [polls[i] EXCEPT !.event = IF i \in errs THEN "err" ELSE "ok"]]
    /\ apc' = "check" /\ k' = Len(polls)
    /\ UNCHANGED <<table, listed, sorted, history, locks, isstop, ssock, pvars>>

\* The loop of accept_poll(): isstop() under the object's lock, for each socket.
Check ==
    /\ apc = "check" /\ thisLock = None
    /\ IF isstop \/ k = 0
       THEN Unlock
       ELSE apc' = "visit" /\ UNCHANGED <<pollLock, k, polls>>
    /\ UNCHANGED <<table, listed, sorted, history, thisLock, isstop, ssock, pvars>>

\* On to the next socket.
Visited == apc' = "check" /\ k' = k - 1 /\ ssock' = None

\* The socket is quiet, or Net::accept() and onAccept() are called for it.
Accept ==
    /\ apc = "visit" /\ polls[k].event # "err"
    /\ Visited
    /\ UNCHANGED <<table, lists, history, locks, isstop, pvars>>

\* Poll::remove(k): the last entry moves into the hole.
Without(i) == [j \in 1..Len(polls) - 1 |-> IF j = i THEN polls[Len(polls)] ELSE polls[j]]

\* m_aSockList.index(ssock) searches by m_iHandle: it hits a socket with the same
\* one, and may hit none when a handle has changed under the list.
Found(p) == {q \in Ports : listed[q] > 0 /\ handle[q] = handle[p]}

\* m copies left of n; 2 stands for any number from 2 on.
Less(n, m) == m = n - 1 \/ (n = 2 /\ m = 2)

Unlisted(p) ==
    {[listed EXCEPT ![x[1]] = x[2]] : x \in {x \in Found(p) \X (0..2) : Less(listed[x[1]], x[2])}}
        \cup IF Found(p) = {} \/ ~sorted THEN {listed} ELSE {}

Listed(p) == [listed EXCEPT ![p] = IF @ = 2 THEN 2 ELSE @ + 1]

\* Mutant of TakenOff: the socket stays in m_aSockList.
TakenOffPoll(p) == polls' = Without(k) /\ UNCHANGED <<listed, sorted>>

\* Poll::remove() and m_aSockList.remove() of the socket that has an error.  What
\* is left in m_aSockList once stop() has begun matters to nobody, and is not
\* followed.
TakenOff(p) ==
    /\ polls' = Without(k)
    /\ IF ppc \in Stopping
       THEN UNCHANGED <<listed, sorted>>
       ELSE listed' \in Unlisted(p) /\ sorted' = (sorted /\ listed'[p] = 0)

\* ServerSocket::create(): what m_iHandle names is closed, and a new socket opened.
Created(p) ==
    LET t == Closed(fds, handle[p])
    IN  \E n \in Numbers :
        /\ Lowest(t, n) /\ MayBind(t, Own(p))
        /\ fds' = [t EXCEPT ![n] = Own(p)]
        /\ handle' = [handle EXCEPT ![p] = n]
        /\ port' = [port EXCEPT ![p] = start[p]]
        /\ clash' = Clashes(n, p)

\* A socket with an error: off both lists, and created again ...
Repair ==
    /\ apc = "visit" /\ polls[k].event = "err"
    /\ LET p == polls[k].sock
       IN /\ TakenOff(p)
          /\ ssock' = p
          /\ reopened' = IF ppc \in Stopping THEN reopened \cup {p} ELSE reopened
          /\ Created(p)
    /\ apc' = "repair"
    /\ UNCHANGED <<start, file, files, lost, replaced, locks, isstop, k, pvars>>

\* ... create() fails: the port is gone, from m_iPort too ...
RepairFails ==
    /\ apc = "visit" /\ polls[k].event = "err"
    /\ LET p == polls[k].sock
       IN /\ TakenOff(p)
          /\ fds' = Closed(fds, handle[p])
          /\ handle' = [handle EXCEPT ![p] = 0]
          /\ port' = [port EXCEPT ![p] = FALSE]
          /\ lost' = lost \cup {p}
    /\ Visited
    /\ UNCHANGED <<start, file, files, clash, reopened, replaced, locks, isstop, pvars>>

\* ... and back on both lists, or, without memory for it, on none.
Relist ==
    /\ apc = "repair"
    /\ \/ /\ polls' = Append(polls, Entry(ssock, handle[ssock]))
          /\ listed' = IF ppc \in Stopping THEN listed ELSE Listed(ssock)
          /\ UNCHANGED lost
       \/ lost' = lost \cup {ssock} /\ UNCHANGED <<polls, listed>>
    /\ Visited
    /\ UNCHANGED <<table, sorted, reopened, replaced, locks, isstop, pvars>>

-----------------------------------------------------------------------------
(* The application. *)

\* Mutant of StopBegin: the last socket is left out.
StopBeginShort ==
    /\ ppc = "run" /\ pollLock = None
    /\ ppc' = "get" /\ pk' = Len(polls) - 1
    /\ UNCHANGED <<table, lists, history, locks, isstop, avars, cur, fresh, todo>>

\* stop(): the number of sockets, under the lock of m_poll.
StopBegin ==
    /\ ppc = "run" /\ pollLock = None
    /\ ppc' = "get" /\ pk' = Len(polls)
    /\ UNCHANGED <<table, lists, history, locks, isstop, avars, cur, fresh, todo>>

\* getObject(): one socket, under the lock again.
StopGet ==
    /\ ppc = "get" /\ pk > 0 /\ pollLock = None
    /\ IF pk > Len(polls)
       THEN pk' = pk - 1 /\ UNCHANGED <<ppc, cur>>
       ELSE cur' = polls[pk].sock /\ ppc' = "close" /\ UNCHANGED pk
    /\ UNCHANGED <<table, lists, history, locks, isstop, avars, fresh, todo>>

\* ssock->close(), under no lock of this object.
StopClose ==
    /\ ppc = "close"
    /\ fds' = Closed(fds, handle[cur])
    /\ handle' = [handle EXCEPT ![cur] = 0]
    /\ reopened' = reopened \ {cur}
    /\ ppc' = "get" /\ pk' = pk - 1 /\ cur' = None
    /\ UNCHANGED <<port, start, file, files, clash, lists, lost, replaced, locks, isstop, avars,
                   fresh, todo>>

\* Thread::stop().
StopFlag ==
    /\ ppc = "get" /\ pk <= 0
    /\ isstop' = TRUE /\ ppc' = "join" /\ pk' = 0
    /\ UNCHANGED <<table, lists, history, locks, avars, cur, fresh, todo>>

\* join().
Join ==
    /\ ppc = "join" /\ apc = "end"
    /\ ppc' = "done"
    /\ UNCHANGED <<table, lists, history, locks, isstop, avars, pk, cur, fresh, todo>>

\* repaireService(): clearServerSockets() takes its two locks, in this order.
ClearThis ==
    /\ ppc = "run" /\ thisLock = None /\ replaced < MaxReplaced
    /\ thisLock' = "app" /\ ppc' = "clear"
    /\ UNCHANGED <<table, lists, history, pollLock, isstop, avars, pk, cur, fresh, todo>>

\* Poll::clear() closes the descriptors; the ServerSockets, which their hosts
\* keep, go on naming them.
Clear ==
    /\ ppc = "clear" /\ pollLock = None
    /\ fds' = [n \in Numbers |-> IF \E i \in DOMAIN polls : polls[i].fd = n THEN None ELSE fds[n]]
    /\ polls' = <<>> /\ listed' = [p \in Ports |-> 0] /\ sorted' = TRUE
    /\ replaced' = replaced + 1
    /\ thisLock' = None /\ ppc' = "host" /\ todo' = Hosts
    /\ UNCHANGED <<handle, port, start, file, files, clash, lost, reopened, pollLock, isstop, avars,
                   pk, cur, fresh>>

\* HttpdHost::repaireServerSocket(): a new ServerSocket for getPort(), which is 0
\* after a failed create() ...
Host ==
    /\ ppc = "host" /\ todo # <<>>
    /\ cur' = Head(todo)
    /\ LET own == IF port[cur'] THEN cur' ELSE AnyPort
       IN  \E n \in Numbers :
           /\ Lowest(fds, n) /\ MayBind(fds, own)
           /\ fds' = [fds EXCEPT ![n] = own]
           /\ fresh' = n
           /\ clash' = Clashes(n, cur')
    /\ ppc' = "assign"
    /\ UNCHANGED <<handle, port, start, file, files, lists, history, locks, isstop, avars, pk, todo>>

\* ... takes the place of the old one, whose destructor closes what it names.
Assign ==
    /\ ppc = "assign"
    /\ fds' = Closed(fds, handle[cur])
    /\ handle' = [handle EXCEPT ![cur] = fresh]
    /\ start' = [start EXCEPT ![cur] = port[cur]]
    /\ fresh' = 0 /\ ppc' = "append"
    /\ UNCHANGED <<port, file, files, clash, lists, history, locks, isstop, avars, pk, cur, todo>>

\* The replacement is over, or ends with an error: the hosts left are not served.
HostsEnd ==
    /\ ppc = "host"
    /\ lost' = lost \cup Range(todo) /\ todo' = <<>> /\ ppc' = "run"
    /\ UNCHANGED <<table, lists, reopened, replaced, locks, isstop, avars, pk, cur, fresh>>

\* appendServerSocket(): on m_aSockList under the object's lock ...
AppendThis ==
    /\ ppc = "append" /\ thisLock = None
    /\ Found(cur) = {} \/ ~sorted
    /\ thisLock' = "app" /\ ppc' = "appended"
    /\ listed' = Listed(cur)
    /\ UNCHANGED <<table, polls, sorted, history, pollLock, isstop, avars, pk, cur, fresh, todo>>

\* ... unless a socket with the same m_iHandle is there, or memory is not.
AppendRefused ==
    /\ ppc = "append" /\ thisLock = None
    /\ lost' = lost \cup Range(todo) /\ todo' = <<>> /\ cur' = None /\ ppc' = "run"
    /\ UNCHANGED <<table, lists, reopened, replaced, locks, isstop, avars, pk, fresh>>

\* ... and on m_poll, whose append() takes its own lock inside ...
AppendPoll ==
    /\ ppc = "appended" /\ pollLock = None
    /\ polls' = Append(polls, Entry(cur, handle[cur]))
    /\ lost' = IF port[cur] THEN lost \ {cur} ELSE lost
    /\ thisLock' = None /\ ppc' = "host" /\ cur' = None /\ todo' = Tail(todo)
    /\ UNCHANGED <<table, listed, sorted, reopened, replaced, pollLock, isstop, avars, pk, fresh>>

\* ... and may fail.
AppendFails ==
    /\ ppc = "appended" /\ pollLock = None
    /\ listed' \in Unlisted(cur)
    /\ lost' = lost \cup Range(todo) /\ todo' = <<>>
    /\ thisLock' = None /\ ppc' = "run" /\ cur' = None
    /\ UNCHANGED <<table, polls, sorted, reopened, replaced, pollLock, isstop, avars, pk, fresh>>

Done == ppc = "done" /\ UNCHANGED vars

AcceptThread ==
    \/ RunTop \/ LockPoll \/ PollNothing \/ Poll \/ Check \/ Accept
    \/ Repair \/ RepairFails \/ Relist

Stop == StopBegin \/ StopGet \/ StopClose \/ StopFlag \/ Join

Replace ==
    \/ ClearThis \/ Clear \/ Host \/ Assign \/ HostsEnd
    \/ AppendThis \/ AppendRefused \/ AppendPoll \/ AppendFails

Next == AcceptThread \/ Stop \/ Replace \/ FileOpens \/ FileCloses \/ Done

\* Both threads run.  stop() takes the lock of m_poll between two passes: the
\* mutex must not be given to the accept thread every time.
Spec == Init /\ [][Next]_vars /\ WF_vars(AcceptThread) /\ SF_vars(StopGet) /\ WF_vars(Stop)

-----------------------------------------------------------------------------
\* Types; no socket is polled twice.
TypeOK ==
    /\ fds \in [Numbers -> Ports \cup {None, AnyPort, File}]
    /\ handle \in [Ports -> Numbers \cup {0}]
    /\ port \in [Ports -> BOOLEAN] /\ start \in [Ports -> BOOLEAN]
    /\ file \in Numbers \cup {0} /\ files \in 0..MaxFiles /\ fresh \in Numbers \cup {0}
    /\ thisLock \in {None, "app"} /\ pollLock \in {None, "accept"}
    /\ polls \in Seq([sock : Ports, fd : Numbers \cup {0}, event : {"ok", "err"}])
    /\ \A i, j \in DOMAIN polls : polls[i].sock = polls[j].sock => i = j
    /\ listed \in [Ports -> 0..2]
    /\ lost \subseteq Ports /\ reopened \subseteq Ports /\ todo \in Seq(Ports)
    /\ sorted \in BOOLEAN /\ isstop \in BOOLEAN /\ clash \in BOOLEAN /\ replaced \in 0..MaxReplaced
    /\ k \in Nat /\ pk \in Int
    /\ ssock \in Ports \cup {None} /\ cur \in Ports \cup {None}
    /\ apc \in {"top", "lock", "poll", "check", "visit", "repair", "end"}
    /\ ppc \in {"run", "get", "close", "join", "done", "clear", "host", "assign", "append",
                "appended"}

\* A number that a host's socket still names is given to somebody else only after
\* the sockets were replaced.
ClashAfterReplacement == clash => replaced > 0

\* No listening socket is forgotten: the ServerSocket of its port names it.
NamedByItsPort ==
    \A n \in Numbers : fds[n] \in Ports =>
        handle[fds[n]] = n \/ (ppc = "assign" /\ cur = fds[n] /\ fresh = n)

\* What a ServerSocket names is its own or closed, as long as no such number was
\* given out: no close(), not that of the destructor either, hits a descriptor of
\* somebody else.
HandlesOwn ==
    ~clash => \A p \in Ports :
        handle[p] # 0 /\ ~(ppc = "assign" /\ cur = p) => fds[handle[p]] \in {None, Own(p)}

\* Nor do, until stop() begins, m_poll and m_aSockList disagree, through any
\* sequence of errors, repairs, failed repairs and replacements.
ListsAgree ==
    ~clash /\ ppc = "run" =>
        \A p \in Ports : listed[p] = IF p \in Polled THEN 1 ELSE 0

\* Until stop() begins, every port is polled, or is being repaired, unless a
\* repair or a replacement failed; and if no number was mixed up, its descriptor
\* is a socket that listens on it.  After a replacement it may be a closed one,
\* which the next poll() reports.
PortsServed ==
    ppc = "run" => \A p \in Ports \ lost :
        /\ ssock = p \/ \E i \in DOMAIN polls : polls[i].sock = p /\ polls[i].fd = handle[p]
        /\ handle[p] # 0
        /\ ~clash => fds[handle[p]] = p \/ (replaced > 0 /\ fds[handle[p]] = None)

\* stop() leaves no server socket open, but for those that the accept thread
\* repaired while stop() was at work, and those whose repair or replacement had
\* failed; however numbers were mixed up.
StopCloses ==
    ppc = "done" => \A n \in Numbers : fds[n] \in Ports => fds[n] \in reopened \cup lost

\* stop() and join() return.
StopReturns == ppc = "get" ~> ppc = "done"

\* The descriptors and the two lists of sockets are right, and every port is served.
SocketsAccounted ==
    TypeOK /\ ClashAfterReplacement /\ NamedByItsPort /\ HandlesOwn /\ ListsAgree /\ PortsServed
=============================================================================
