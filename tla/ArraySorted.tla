---------------------------- MODULE ArraySorted ----------------------------
(***************************************************************************)
(* ArraySorted (include/dframework/util/ArraySorted.h) over ArrayBase: an  *)
(* array kept in the order of its elements' keys, with duplicates, that    *)
(* the thread list, the server sockets, the httpd's hosts, the header      *)
(* fields and the host name cache are kept in.  An element is its key.     *)
(* The two binary searches are steps of their own, one per iteration, so   *)
(* that what they compute is an invariant of the loop.  Callers hold a     *)
(* lock around every operation: nothing runs between these steps.          *)
(***************************************************************************)
EXTENDS Integers, FiniteSets

CONSTANTS
    Keys,         \* the keys, integers
    PIECE,        \* what getNewCapacity adds
    MaxCapacity   \* bound: how far the array may grow

VARIABLES
    m_pData,      \* m_pData[i], i below m_iSize
    m_iSize,
    m_iCapacity,
    pc,           \* "idle", "insertId", "index"
    op,           \* why index() runs: "get" or "remove"
    data,         \* the argument
    sp, ep,       \* the local variables of the searches
    found,        \* what the last index() returned
    read          \* the last slot that the last insert() or remove() read, or -1

vars == <<m_pData, m_iSize, m_iCapacity, pc, op, data, sp, ep, found, read>>

\* The slots in use.
Slots == 0..m_iSize - 1

Init ==
    /\ m_pData = [i \in 0..-1 |-> 0]
    /\ m_iSize = 0
    /\ m_iCapacity = 0
    /\ pc = "idle"
    /\ op = "get"
    /\ data = 0
    /\ sp = 0 /\ ep = 0
    /\ found = -1
    /\ read = -1

-----------------------------------------------------------------------------
\* capacity(): PIECE more slots when every slot is used.
Capacity == IF m_iSize < m_iCapacity THEN m_iCapacity ELSE m_iCapacity + PIECE

\* Mutant of Put: the elements behind the new one are not moved.
PutOver(iid, d) ==
    /\ m_pData' = [i \in 0..m_iSize |->
                     IF i = iid THEN d ELSE IF i < m_iSize THEN m_pData[i] ELSE d]
    /\ m_iSize' = m_iSize + 1
    /\ read' = m_iSize - 1

\* The elements from iid on move up by one and data takes the slot.
Put(iid, d) ==
    /\ m_pData' = [i \in 0..m_iSize |->
                     IF i < iid THEN m_pData[i] ELSE IF i = iid THEN d ELSE m_pData[i - 1]]
    /\ m_iSize' = m_iSize + 1
    /\ read' = m_iSize - 1

\* Where insertId() is decided without a search.
AtFront(d) == m_iSize > 0 => d <= m_pData[0]
AtBack(d) == ~AtFront(d) /\ d >= m_pData[m_iSize - 1]

\* insert(data): capacity() comes first, then insertId().
Insert(d) ==
    /\ pc = "idle"
    /\ Capacity <= MaxCapacity
    /\ m_iCapacity' = Capacity
    /\ \/ /\ AtFront(d)
          /\ Put(0, d)
          /\ UNCHANGED <<pc, data, sp, ep>>
       \/ /\ AtBack(d)
          /\ Put(m_iSize, d)
          /\ UNCHANGED <<pc, data, sp, ep>>
       \/ /\ ~AtFront(d) /\ ~AtBack(d)
          /\ pc' = "insertId" /\ data' = d
          /\ sp' = 0 /\ ep' = m_iSize
          /\ UNCHANGED <<m_pData, m_iSize, read>>
    /\ UNCHANGED <<op, found>>

\* insert(data) when capacity() finds no memory: DFW_E_NOMEM, nothing changes.
InsertNoMemory(d) ==
    /\ pc = "idle"
    /\ m_iSize = m_iCapacity
    /\ UNCHANGED vars

\* int cp = ((ep-sp)/2) + sp;
Cp == (ep - sp) \div 2 + sp

\* The loop narrows [sp, ep) at cp.
Narrow ==
    \/ data < m_pData[Cp] /\ ep' = Cp /\ UNCHANGED sp
    \/ data > m_pData[Cp] /\ sp' = Cp /\ UNCHANGED ep

\* What insertId() returns when its loop ends at this iteration.
InsertIdSlot ==
    IF Cp \in {sp, ep} THEN (IF data <= m_pData[sp] THEN sp ELSE ep) ELSE Cp

\* The search returns: its local variables are gone.
Leave == pc' = "idle" /\ data' = 0 /\ sp' = 0 /\ ep' = 0

\* One iteration of insertId(); at its end insert() puts the element.
InsertId ==
    /\ pc = "insertId"
    /\ \/ /\ Cp \notin {sp, ep} => data = m_pData[Cp]
          /\ Put(InsertIdSlot, data)
          /\ Leave
       \/ /\ Cp \notin {sp, ep}
          /\ Narrow
          /\ UNCHANGED <<pc, data, m_pData, m_iSize, read>>
    /\ UNCHANGED <<m_iCapacity, op, found>>

-----------------------------------------------------------------------------
\* remove(position) for a position in use.  The last element is just dropped.  For
\* any other, m_iSize - k pointers from k + 1 on move down by one: one too many, slot
\* m_iSize is read as well, which is behind the memory when the array is full.  What
\* is read there lands in slot m_iSize - 1, which is no longer in use.
RemoveAt(k) ==
    /\ m_pData' = [i \in 0..m_iSize - 2 |-> IF i < k THEN m_pData[i] ELSE m_pData[i + 1]]
    /\ m_iSize' = m_iSize - 1
    /\ read' = IF k = m_iSize - 1 THEN k ELSE m_iSize

\* index() returned k: get() or remove() of that position, none for -1.
Return(k) ==
    /\ found' = k
    /\ Leave
    /\ IF op' = "remove" /\ k \in Slots THEN RemoveAt(k) ELSE UNCHANGED <<m_pData, m_iSize, read>>

\* Where index() is decided without a search.
Outside(d) == m_iSize > 0 => d < m_pData[0] \/ d > m_pData[m_iSize - 1]

\* get(data) and remove(data) begin with index(data).
Index(d, o) ==
    /\ pc = "idle"
    /\ op' = o
    /\ \/ Outside(d) /\ Return(-1)
       \/ /\ ~Outside(d)
          /\ pc' = "index" /\ data' = d
          /\ sp' = 0 /\ ep' = m_iSize
          /\ UNCHANGED <<m_pData, m_iSize, found, read>>
    /\ UNCHANGED m_iCapacity

\* What index() returns when its loop ends at this iteration.
IndexSlot ==
    IF Cp \in {sp, ep}
    THEN CASE data = m_pData[sp] -> sp
           [] data # m_pData[sp] /\ data = m_pData[ep - 1] -> ep - 1
           [] OTHER -> -1
    ELSE Cp

\* One iteration of index().
IndexLoop ==
    /\ pc = "index"
    /\ UNCHANGED op
    /\ \/ /\ Cp \notin {sp, ep} => data = m_pData[Cp]
          /\ Return(IndexSlot)
       \/ /\ Cp \notin {sp, ep}
          /\ Narrow
          /\ UNCHANGED <<pc, data, m_pData, m_iSize, found, read>>
    /\ UNCHANGED m_iCapacity

\* remove(position): ServerAccept and the loops over a list remove by index.
Remove(k) ==
    /\ pc = "idle" /\ k \in Slots
    /\ RemoveAt(k)
    /\ UNCHANGED <<m_iCapacity, pc, op, data, sp, ep, found>>

\* clear() keeps the memory.
Clear ==
    /\ pc = "idle"
    /\ m_pData' = [i \in 0..-1 |-> 0]
    /\ m_iSize' = 0
    /\ read' = -1
    /\ UNCHANGED <<m_iCapacity, pc, op, data, sp, ep, found>>

Next ==
    \/ \E d \in Keys : Insert(d) \/ InsertNoMemory(d)
    \/ \E d \in Keys, o \in {"get", "remove"} : Index(d, o)
    \/ \E k \in Slots : Remove(k)
    \/ InsertId \/ IndexLoop \/ Clear

Spec == Init /\ [][Next]_vars

-----------------------------------------------------------------------------
\* Every variable keeps its type.
TypeOK ==
    /\ m_iSize \in Nat /\ m_iCapacity \in Nat
    /\ m_pData \in [Slots -> Int]
    /\ pc \in {"idle", "insertId", "index"} /\ op \in {"get", "remove"}
    /\ data \in Int
    /\ sp \in Nat /\ ep \in Nat
    /\ found \in Int /\ read \in Int

\* The array is in the order of its keys: what both searches rely on.
Sorted == \A i, j \in Slots : i <= j => m_pData[i] <= m_pData[j]

\* insert() and the loops of the searches stay inside the allocated slots; remove()
\* reads at most the one slot behind them, and that only when it takes an element
\* out of the middle of a full array.
WithinCapacity ==
    /\ m_iSize <= m_iCapacity
    /\ read >= m_iCapacity => read = m_iCapacity /\ m_iSize = m_iCapacity - 1
    /\ pc = "insertId" => m_iSize < m_iCapacity
    /\ pc # "idle" => sp \in Slots /\ ep \in 1..m_iSize /\ sp < ep

\* While a search runs, data lies between the two ends of what is left to it.
Bracket ==
    /\ pc = "insertId" => /\ m_pData[sp] < data
                          /\ data < m_pData[m_iSize - 1]
                          /\ ep < m_iSize => data < m_pData[ep]
    /\ pc = "index" => /\ m_pData[sp] <= data
                       /\ data <= m_pData[m_iSize - 1]
                       /\ ep < m_iSize => data < m_pData[ep]

\* What the searches and the inserts keep true of the array at every iteration.
SortedInv == TypeOK /\ Sorted /\ WithinCapacity /\ Bracket

\* The multiset of the keys in the array, which KeyBag keeps.
Bag == [k \in Keys |-> Cardinality({i \in Slots : m_pData[i] = k})]

Abs == INSTANCE KeyBag WITH bag <- Bag, has <- (found # -1)

\* To its callers the array is a multiset of keys: an insert adds the key, get and
\* remove find it exactly if it is there, and no other key is touched.
ImplementsBag == Abs!Spec
=============================================================================
