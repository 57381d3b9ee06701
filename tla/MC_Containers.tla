--------------------------- MODULE MC_Containers ---------------------------
(***************************************************************************)
(* The library's own containers: the poll set (PollSet), the sorted array  *)
(* (ArraySorted), the queue (Queue) and the two arrays of RecentlyFiles.   *)
(* None of them calls another, but for RecentlyFiles, which takes          *)
(* ArraySorted as it is shown to be here; they are checked side by side:   *)
(* `active' says which one moves, the others stay in their initial state.  *)
(***************************************************************************)
EXTENDS PollSet, FiniteSets

CONSTANTS Keys, MaxCapacity,          \* of ArraySorted, whose pieces are PIECE too
          Objects, Nodes,             \* of Queue
          Files, Times, NoFile, MaxTimes   \* of RecentlyFiles

ASSUME ContainersAssumption ==
    /\ Keys \subseteq Int /\ MaxCapacity \in Nat
    /\ NULL \notin Nodes /\ IsFiniteSet(Nodes)
    /\ Times \subseteq Nat /\ NoFile \notin Files /\ MaxTimes \in Nat

VARIABLES
    active,
    \* of ArraySorted
    m_pData, m_iSize, m_iCapacity, a_pc, op, data, sp, ep, found, read,
    \* of Queue
    m_pFront, m_pEnd, q_iSize, next, q_data, used, out, dying,
    \* of RecentlyFiles
    m_aNames, m_aTimes, torn, missed

Array == INSTANCE ArraySorted WITH pc <- a_pc
Fifos == INSTANCE Queue WITH m_iSize <- q_iSize, data <- q_data
Recent == INSTANCE RecentlyFiles

array == <<m_pData, m_iSize, m_iCapacity, a_pc, op, data, sp, ep, found, read>>
queue == <<m_pFront, m_pEnd, q_iSize, next, q_data, used, out, dying>>
recent == <<m_aNames, m_aTimes, torn, missed>>

-----------------------------------------------------------------------------
ContainersInit ==
    /\ active \in {"poll", "array", "queue", "recent"}
    /\ Init /\ Array!Init /\ Fifos!Init /\ Recent!Init

PollMoves == active = "poll" /\ Next /\ UNCHANGED <<active, array, queue, recent>>
ArrayMoves == active = "array" /\ Array!Next /\ UNCHANGED <<active, vars, queue, recent>>
QueueMoves == active = "queue" /\ Fifos!Next /\ UNCHANGED <<active, vars, array, recent>>
RecentMoves == active = "recent" /\ Recent!Next /\ UNCHANGED <<active, vars, array, queue>>

Containers ==
    /\ ContainersInit
    /\ [][PollMoves \/ ArrayMoves \/ QueueMoves \/ RecentMoves]_<<active, vars, array, queue, recent>>

-----------------------------------------------------------------------------
\* Every array and list is whole after every call: the sorted array stays sorted
\* while its binary searches run, and inside its memory, but that remove() reads the
\* one slot behind a full array; the nodes of the queue are exactly those allocated;
\* the two arrays of RecentlyFiles list the same files, but for those that a failed
\* add() has torn apart, and the oldest first.
ContainersWhole ==
    /\ Array!SortedInv
    /\ Fifos!ListWhole
    /\ Recent!SameFiles /\ Recent!OldestFirst /\ Recent!AlwaysFound

\* To its callers ArraySorted is a multiset of keys: an insert adds the key, get
\* and remove find it exactly if it is there, and no other key is touched.
ImplementsBag == Array!ImplementsBag

\* push() and pop() of Queue are those of Fifo, whatever nodes the heap hands out.
ImplementsFifo == Fifos!ImplementsFifo
=============================================================================
