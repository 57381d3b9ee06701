------------------------------- MODULE Queue -------------------------------
(***************************************************************************)
(* Queue<T> (include/dframework/util/Queue.h): a list of nodes on the heap *)
(* between m_pFront and m_pEnd, and their number.  push, pop and empty     *)
(* hold the queue's lock from beginning to end (SafeLock), so each is one  *)
(* step.  A freed node may be handed out again by the next new.            *)
(***************************************************************************)
EXTENDS Integers, FiniteSets, Sequences

CONSTANTS
    Objects,      \* what the queue holds
    Nodes,        \* the nodes the heap has room for
    NULL

VARIABLES
    m_pFront, m_pEnd, m_iSize,
    next, data,   \* the fields of the nodes
    used,         \* the nodes that are allocated
    out,          \* what the last call returned: at most one object
    dying         \* the destructor runs

vars == <<m_pFront, m_pEnd, m_iSize, next, data, used, out, dying>>

Init ==
    /\ m_pFront = NULL /\ m_pEnd = NULL /\ m_iSize = 0 /\ used = {} /\ out = <<>>
    /\ next \in [Nodes -> {NULL}]
    /\ \E d \in Objects : data = [n \in Nodes |-> d]
    /\ dying = FALSE

empty == m_iSize = 0

\* The links after push() has put tmp behind m_pEnd.
Linked(tmp) ==
    IF empty \/ m_pEnd = NULL THEN [next EXCEPT ![tmp] = NULL]
    ELSE [next EXCEPT ![tmp] = NULL, ![m_pEnd] = tmp]

\* Mutant of push: the node goes in front.
pushFront(d) ==
    /\ ~dying
    /\ \E tmp \in Nodes \ used :
          /\ used' = used \union {tmp}
          /\ data' = [data EXCEPT ![tmp] = d]
          /\ next' = [next EXCEPT ![tmp] = m_pFront]
          /\ m_pFront' = tmp
          /\ m_pEnd' = IF empty THEN tmp ELSE m_pEnd
    /\ m_iSize' = m_iSize + 1
    /\ out' = <<>>
    /\ UNCHANGED dying

push(d) ==
    /\ ~dying
    /\ \E tmp \in Nodes \ used :
          /\ used' = used \union {tmp}
          /\ data' = [data EXCEPT ![tmp] = d]
          /\ next' = Linked(tmp)
          /\ m_pFront' = IF empty THEN tmp ELSE m_pFront
          /\ m_pEnd' = tmp
    /\ m_iSize' = m_iSize + 1
    /\ out' = <<>>
    /\ UNCHANGED dying

\* pop() moves m_pFront, and m_pEnd when the list has become empty.
Unlinked ==
    /\ m_pFront' = next[m_pFront]
    /\ m_pEnd' = IF next[m_pFront] = NULL THEN NULL ELSE m_pEnd

Take ==
    /\ ~empty
    /\ Unlinked
    /\ m_iSize' = m_iSize - 1
    /\ out' = <<data[m_pFront]>>
    /\ used' = used \ {m_pFront}
    /\ UNCHANGED <<next, data>>

pop == ~dying /\ Take /\ UNCHANGED dying
popEmpty == ~dying /\ empty /\ out' = <<>>
                /\ UNCHANGED <<m_pFront, m_pEnd, m_iSize, next, data, used, dying>>

\* ~Queue: while(!empty()) pop();
Destroy == ~dying /\ dying' = TRUE
               /\ UNCHANGED <<m_pFront, m_pEnd, m_iSize, next, data, used, out>>

DestroyPops == dying /\ Take /\ UNCHANGED dying
Destroyed == dying /\ empty /\ UNCHANGED vars

Next == \/ \E d \in Objects : push(d)
        \/ pop \/ popEmpty \/ Destroy \/ DestroyPops \/ Destroyed

Spec == Init /\ [][Next]_vars

-----------------------------------------------------------------------------
\* The node k links behind m_pFront.
Node == LET at[k \in 1 .. m_iSize] == IF k = 1 THEN m_pFront ELSE next[at[k - 1]] IN at

\* m_iSize nodes hang on m_pFront, all different; they are exactly the ones
\* allocated, the last is m_pEnd and has no successor.  A node is neither
\* leaked nor used after it was freed.
ListWhole ==
    /\ {Node[k] : k \in DOMAIN Node} = used /\ Cardinality(used) = m_iSize
    /\ IF empty THEN m_pFront = NULL /\ m_pEnd = NULL
       ELSE Node[m_iSize] = m_pEnd /\ next[m_pEnd] = NULL

\* push() and pop() do what Fifo says, whatever nodes the heap hands out.
Abstract == INSTANCE Fifo WITH items <- [k \in 1 .. m_iSize |-> data[Node[k]]]
ImplementsFifo == Abstract!Spec
=============================================================================
