------------------------------ MODULE PollSet ------------------------------
(***************************************************************************)
(* Poll (lib/net/Poll.cpp) and the loop that HttpdWorker::readPackets,     *)
(* HttpdSendStream::sendPackets and HttpdSendLocalFile::sendPackets run    *)
(* over it.  Poll keeps two parallel arrays, grown by whole pieces, and    *)
(* removes by moving the last entry into the hole; the loops remove while  *)
(* they walk, from the last index captured before the walk down to 0.      *)
(* A member of Socks is one registration; its file descriptor carries the  *)
(* same name, so that the two arrays can be compared.                      *)
(***************************************************************************)
EXTENDS Integers

CONSTANTS
    Socks,        \* the registrations
    NULL,
    PIECE,        \* DFW_POLL_PIECE_SIZE
    MaxMemsize    \* bound: how far the arrays may grow

ASSUME PieceAssumption == PIECE \in Nat \ {0} /\ MaxMemsize \in Nat
ASSUME NullAssumption == NULL \notin Socks

\* What one entry's revents says to the loop: nothing, the event the loop asked
\* for (isPollIn / isPollOut), or POLLERR, POLLNVAL, POLLHUP (getPollErr).
Events == {"none", "ready", "err"}

VARIABLES
    m_polls,      \* m_polls[i]: file descriptor and revents
    m_ppsocks,    \* m_ppsocks[i]: the owned object, or NULL
    m_used,
    m_memsize,
    m_bLive,      \* cleared by stop() of the worker or sender
    pc,           \* "run" between passes, "loop" in the for loop, "end"
    k,            \* the loop index
    due,          \* the registrations that had an event when the pass began
    served        \* served[s]: how often this pass handled s

poll == <<m_polls, m_ppsocks, m_used, m_memsize>>
vars == <<m_polls, m_ppsocks, m_used, m_memsize, m_bLive, pc, k, due, served>>

\* memset(polls, -1, ...): neither a descriptor nor an event.
Blank == [fd |-> NULL, revents |-> "none"]

\* The registrations now in the poll set, each index below m_used.
Watched == {m_ppsocks[i] : i \in 0..m_used - 1}

Init ==
    /\ m_polls = [i \in 0..-1 |-> Blank]
    /\ m_ppsocks = [i \in 0..-1 |-> NULL]
    /\ m_used = 0
    /\ m_memsize = 0
    /\ m_bLive = TRUE
    /\ pc = "run"
    /\ k = -1
    /\ due = {}
    /\ served = [s \in Socks |-> 0]

-----------------------------------------------------------------------------
\* prepare(): PIECE more entries, the old ones copied.
Grown(a, blank) ==
    [i \in 0..m_memsize + PIECE - 1 |-> IF i < m_memsize THEN a[i] ELSE blank]

NeedsRoom == m_used >= m_memsize - 1

\* append(): the loop's thread drains its queue into the poll set.
AppendEntry(s) ==
    LET mem == IF NeedsRoom THEN m_memsize + PIECE ELSE m_memsize
        polls == IF NeedsRoom THEN Grown(m_polls, Blank) ELSE m_polls
        socks == IF NeedsRoom THEN Grown(m_ppsocks, NULL) ELSE m_ppsocks
    IN  /\ pc = "run" /\ m_bLive
        /\ s \notin Watched
        /\ mem <= MaxMemsize
        /\ m_polls' = [i \in DOMAIN polls |->
                         IF i = m_used THEN [fd |-> s, revents |-> "none"] ELSE polls[i]]
        /\ m_ppsocks' = [i \in DOMAIN socks |-> IF i = m_used THEN s ELSE socks[i]]
        /\ m_used' = m_used + 1
        /\ m_memsize' = mem
        /\ UNCHANGED <<m_bLive, pc, k, due, served>>

\* append() when prepare() finds no memory: the error is only logged.
AppendNoMemory(s) ==
    /\ pc = "run" /\ m_bLive
    /\ s \notin Watched
    /\ NeedsRoom
    /\ UNCHANGED vars

\* remove(i) returns early when there is no entry i.
NoEntry(i) == m_used = 0 \/ i < 0 \/ m_used <= i

\* Mutant of Remove: the last entry is lost instead of moved.
RemoveLast(i, thenReset) ==
    IF NoEntry(i) THEN UNCHANGED poll
    ELSE LET last == m_used - 1
         IN  /\ m_polls' = [m_polls EXCEPT ![last].fd = NULL]
             /\ m_ppsocks' = [m_ppsocks EXCEPT ![last] = NULL]
             /\ m_used' = last
             /\ UNCHANGED m_memsize

\* remove(i): the last entry moves into the hole.  When the caller goes on to
\* resetRevents(i), it is the moved entry that loses its events.
Remove(i, thenReset) ==
    IF NoEntry(i) THEN UNCHANGED poll
    ELSE LET last == m_used - 1
             moved == IF thenReset /\ i # last
                      THEN [m_polls[last] EXCEPT !.revents = "none"]
                      ELSE m_polls[last]
         IN  /\ m_polls' = [m_polls EXCEPT ![i] = moved, ![last].fd = NULL]
             /\ m_ppsocks' = [m_ppsocks EXCEPT ![i] = m_ppsocks[last], ![last] = NULL]
             /\ m_used' = last
             /\ UNCHANGED m_memsize

\* resetRevents(i)
ResetRevents(i) ==
    /\ m_polls' = IF m_used > i THEN [m_polls EXCEPT ![i].revents = "none"] ELSE m_polls
    /\ UNCHANGED <<m_ppsocks, m_used, m_memsize>>

\* clear(): every descriptor is closed and every object released.
Clear ==
    /\ pc = "run"
    /\ m_polls' = [i \in DOMAIN m_polls |-> Blank]
    /\ m_ppsocks' = [i \in DOMAIN m_ppsocks |-> NULL]
    /\ m_used' = 0
    /\ UNCHANGED <<m_memsize, m_bLive, pc, k, due, served>>

-----------------------------------------------------------------------------
\* The pass begins: size is captured, poll() sets every revents; nothing more
\* happens when no socket has an event.
Poll ==
    /\ pc = "run" /\ m_bLive
    /\ m_used > 0
    /\ \E ev \in [0..m_used - 1 -> Events] :
        LET some == \E i \in 0..m_used - 1 : ev[i] # "none"
        IN  /\ m_polls' = [i \in DOMAIN m_polls |->
                             IF i < m_used THEN [m_polls[i] EXCEPT !.revents = ev[i]]
                                           ELSE m_polls[i]]
            /\ due' = {m_ppsocks[i] : i \in {j \in 0..m_used - 1 : ev[j] # "none"}}
            /\ pc' = IF some THEN "loop" ELSE "run"
            /\ k' = IF some THEN m_used - 1 ELSE -1
    /\ served' = [s \in Socks |-> 0]
    /\ UNCHANGED <<m_ppsocks, m_used, m_memsize, m_bLive>>

\* Mutant of Advance: the walk ends at index 1 (k>0).
AdvanceToOne ==
    /\ k' = k - 1
    /\ pc' = IF k <= 1 THEN "run" ELSE "loop"
    /\ UNCHANGED <<m_bLive, due>>

\* for(int k=size-1; k>-1; k--)
Advance ==
    /\ k' = k - 1
    /\ pc' = IF k = 0 THEN "run" ELSE "loop"
    /\ UNCHANGED <<m_bLive, due>>

Visiting(event) ==
    /\ pc = "loop" /\ m_bLive
    /\ ~NoEntry(k)
    /\ m_polls[k].revents = event

Count == served' = [served EXCEPT ![m_ppsocks[k]] = @ + 1]

\* No event at k; or getObject(k) fails and remove(k) is tried, which IndexValid
\* says never happens.
VisitIdle ==
    /\ pc = "loop" /\ m_bLive
    /\ IF NoEntry(k) THEN Remove(k, FALSE)
                     ELSE m_polls[k].revents = "none" /\ ResetRevents(k)
    /\ Advance
    /\ UNCHANGED served

\* getPollErr(k): the client is removed.
VisitError ==
    /\ Visiting("err")
    /\ Remove(k, FALSE)
    /\ Count
    /\ Advance

\* The handler answers "not yet" (DFW_E_AGAIN, or a request answered by another
\* sender): the client stays.
VisitKeeps ==
    /\ Visiting("ready")
    /\ ResetRevents(k)
    /\ Count
    /\ Advance

\* The handler fails, or sendStream is complete: remove(k), no reset.
VisitDrops ==
    /\ Visiting("ready")
    /\ Remove(k, FALSE)
    /\ Count
    /\ Advance

\* HttpdWorker::pollin and HttpdSendLocalFile::sendLocalFile hand the client on
\* and remove it themselves; the loop, told of no error, still resets entry k.
VisitHandsOver ==
    /\ Visiting("ready")
    /\ Remove(k, TRUE)
    /\ Count
    /\ Advance

\* stop(): the flag is seen before the next entry or the next pass.
SetStop ==
    /\ m_bLive
    /\ m_bLive' = FALSE
    /\ UNCHANGED <<m_polls, m_ppsocks, m_used, m_memsize, pc, k, due, served>>

SeeStop ==
    /\ ~m_bLive /\ pc # "end"
    /\ pc' = "end"
    /\ k' = -1
    /\ UNCHANGED <<m_polls, m_ppsocks, m_used, m_memsize, m_bLive, due, served>>

Ended == pc = "end" /\ UNCHANGED vars

Next ==
    \/ \E s \in Socks : AppendEntry(s) \/ AppendNoMemory(s)
    \/ Clear \/ Poll
    \/ VisitIdle \/ VisitError \/ VisitKeeps \/ VisitDrops \/ VisitHandsOver
    \/ SetStop \/ SeeStop \/ Ended

Spec == Init /\ [][Next]_vars

-----------------------------------------------------------------------------
\* The type of every variable of Poll and of the loop.
TypeOK ==
    /\ m_used \in Nat /\ m_memsize \in Nat
    /\ m_polls \in [0..m_memsize - 1 -> [fd : Socks \cup {NULL}, revents : Events]]
    /\ m_ppsocks \in [0..m_memsize - 1 -> Socks \cup {NULL}]
    /\ m_bLive \in BOOLEAN
    /\ pc \in {"run", "loop", "end"}
    /\ k \in Int
    /\ due \subseteq Socks
    /\ served \in [Socks -> Nat]

\* After any sequence of append, remove and clear the two arrays agree: the
\* first m_used entries hold one registration each, none twice, with its own
\* descriptor; the rest is blank; and the next append writes inside them.
ArraysAgree ==
    /\ m_used <= m_memsize
    /\ \A i \in 0..m_used - 1 : m_ppsocks[i] \in Socks /\ m_polls[i].fd = m_ppsocks[i]
    /\ \A i, j \in 0..m_used - 1 : m_ppsocks[i] = m_ppsocks[j] => i = j
    /\ \A i \in m_used..m_memsize - 1 : m_ppsocks[i] = NULL /\ m_polls[i].fd = NULL

\* The index captured before the walk never runs past the shrinking array:
\* getPollErr(k) and isPollIn(k) do not check it.
IndexValid == pc = "loop" => k \in 0..m_used - 1

\* Removing by swapping while walking down neither skips a socket that had an
\* event nor handles one twice: those above k were handled once, those at or
\* below k are still where the walk will find them, events intact.
ServedOnce ==
    /\ \A s \in Socks \ due : served[s] = 0
    /\ pc = "loop" => \A s \in due :
          \/ served[s] = 1 /\ ~\E i \in 0..k : m_ppsocks[i] = s
          \/ served[s] = 0 /\ \E i \in 0..k : m_ppsocks[i] = s /\ m_polls[i].revents # "none"
    /\ pc = "run" => \A s \in due : served[s] = 1

\* What append, remove and the walk keep true of the poll set together.
PollInv == TypeOK /\ ArraysAgree /\ IndexValid /\ ServedOnce

\* The loop over Poll implements the abstract event loop.
Loop == INSTANCE EventLoop WITH
            watched <- Watched,
            due <- IF pc = "loop" THEN {s \in due : served[s] = 0} ELSE {},
            live <- m_bLive

ImplementsEventLoop == Loop!Spec
=============================================================================
