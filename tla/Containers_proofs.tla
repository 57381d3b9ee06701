-------------------------- MODULE Containers_proofs --------------------------
(***************************************************************************)
(* Proofs about the containers of the library, for every set of keys,      *)
(* nodes, files, times and registrations and every piece size.             *)
(* ArraySorted stays sorted while its binary searches run and is a         *)
(* multiset to its callers; Queue is a FIFO whatever nodes the heap hands  *)
(* out; the two arrays of RecentlyFiles list the same files; the poll set  *)
(* serves every due registration once, as EventLoop describes.  Each has   *)
(* an inductive invariant and a lemma per operation; the theorems about    *)
(* the four side by side follow them.  At the end are the rows a monitor   *)
(* keeps: none is part of two averages.                                    *)
(***************************************************************************)
EXTENDS MC_Containers, MonHistory, FiniteSetTheorems, SequenceTheorems, TLAPS

\* Every container counts in the same way.
LEMMA ArrayCardinality == \A S : Array!Cardinality(S) = Cardinality(S)
BY DEF Array!Cardinality, Cardinality

LEMMA FifosCardinality == \A S : Fifos!Cardinality(S) = Cardinality(S)
BY DEF Fifos!Cardinality, Cardinality

-----------------------------------------------------------------------------
\* ArraySorted

\* The positions of the elements of f, an array of n elements, whose key is k.
Having(f, n, x) == {i \in 0..n - 1 : f[i] = x}

\* The array f of n elements with d put at position iid.
With(f, n, iid, d) ==
    [i \in 0..n |-> IF i < iid THEN f[i] ELSE IF i = iid THEN d ELSE f[i - 1]]

\* A key is in the array when at least one position has it.
LEMMA HavingFinite ==
    ASSUME NEW f, NEW n \in Nat, NEW x
    PROVE  IsFiniteSet(Having(f, n, x)) /\ Cardinality(Having(f, n, x)) \in Nat
           /\ (Cardinality(Having(f, n, x)) > 0 <=> \E i \in 0..n - 1 : f[i] = x)
<1> DEFINE H == Having(f, n, x)
<1>1. n - 1 \in Int /\ 0 \in Int
  OBVIOUS
<1>2. IsFiniteSet(0..n - 1)
  BY <1>1, FS_Interval
<1>3. IsFiniteSet(H)
  BY <1>2, FS_Subset DEF Having
<1>4. Cardinality(H) \in Nat /\ (Cardinality(H) = 0 <=> H = {})
  BY <1>3, FS_CardinalityType, FS_EmptySet
<1>5. H # {} <=> \E i \in 0..n - 1 : f[i] = x
  BY DEF Having
<1> HIDE DEF H
<1>6. Cardinality(H) > 0 <=> H # {}
  BY <1>4
<1> QED
  BY <1>3, <1>4, <1>5, <1>6 DEF H

\* Putting d adds one to the count of d, wherever it is put.
LEMMA WithCounts ==
    ASSUME NEW n \in Nat, NEW f \in [0..n - 1 -> Int], NEW iid \in 0..n, NEW d \in Int,
           NEW x \in Int
    PROVE  Cardinality(Having(With(f, n, iid, d), n + 1, x))
             = Cardinality(Having(f, n, x)) + IF x = d THEN 1 ELSE 0
<1> DEFINE g == With(f, n, iid, d)
           S == Having(f, n, x)
           T == Having(g, n + 1, x) \ {iid}
           shift == [i \in S |-> IF i < iid THEN i ELSE i + 1]
<1>1. \A i \in 0..n : g[i] = IF i < iid THEN f[i] ELSE IF i = iid THEN d ELSE f[i - 1]
  BY DEF With
<1>2. S = {i \in 0..n - 1 : f[i] = x} /\ Having(g, n + 1, x) = {i \in 0..n : g[i] = x}
  BY DEF Having
<1>3. shift \in [S -> T]
  <2> SUFFICES ASSUME NEW i \in S PROVE shift[i] \in T
    OBVIOUS
  <2>1. i \in 0..n - 1 /\ f[i] = x
    BY <1>2
  <2>2. shift[i] \in 0..n /\ shift[i] # iid /\ g[shift[i]] = x
    BY <1>1, <2>1
  <2> QED
    BY <1>2, <2>2
<1>4. \A a, b \in S : shift[a] = shift[b] => a = b
  <2>1. \A a \in S : a \in Int /\ shift[a] = IF a < iid THEN a ELSE a + 1
    BY <1>2
  <2> HIDE DEF shift, S
  <2> QED
    BY <2>1
<1>5. \A t \in T : \E s \in S : shift[s] = t
  <2> SUFFICES ASSUME NEW t \in T PROVE \E s \in S : shift[s] = t
    OBVIOUS
  <2>1. t \in 0..n /\ t # iid /\ g[t] = x
    BY <1>2
  <2>2. CASE t < iid
    BY <1>1, <1>2, <2>1, <2>2
  <2>3. CASE t > iid
    <3>1. t - 1 \in S /\ t - 1 >= iid
      BY <1>1, <1>2, <2>1, <2>3
    <3>2. shift[t - 1] = t
      BY <3>1, <2>1
    <3> QED
      BY <3>1, <3>2
  <2> QED
    BY <2>1, <2>2, <2>3
<1>6. shift \in Bijection(S, T)
  BY <1>3, <1>4, <1>5 DEF Bijection, Injection, Surjection, IsInjective
<1>7. IsFiniteSet(S) /\ IsFiniteSet(T) /\ Cardinality(T) = Cardinality(S)
  BY <1>6, HavingFinite, FS_Bijection DEF ExistsBijection
<1>8. Having(g, n + 1, x) = IF x = d THEN T \cup {iid} ELSE T
  <2>1. iid \in Having(g, n + 1, x) <=> x = d
    <3>1. iid \in 0..n /\ g[iid] = d
      BY <1>1
    <3> HIDE DEF g
    <3> QED
      BY <1>2, <3>1
  <2> HIDE DEF g
  <2> QED
    BY <2>1
<1>9. iid \notin T
  OBVIOUS
<1> HIDE DEF T, S, g, shift
<1>10. Cardinality(T \cup {iid}) = Cardinality(T) + 1
  BY <1>7, <1>9, FS_AddElement
<1>11. Cardinality(T) \in Nat
  BY <1>7, FS_CardinalityType
<1>12. Cardinality(Having(g, n + 1, x)) = Cardinality(S) + IF x = d THEN 1 ELSE 0
  BY <1>7, <1>8, <1>10, <1>11
<1> QED
  BY <1>12 DEF g, S

\* The array f of n + 1 elements without the one at position k.
Without(f, n, x) == [i \in 0..n - 1 |-> IF i < x THEN f[i] ELSE f[i + 1]]

\* Taking an element out takes one from the count of its key.
LEMMA WithoutCounts ==
    ASSUME NEW n \in Nat, NEW f \in [0..n -> Int], NEW x \in 0..n, NEW key \in Int
    PROVE  Cardinality(Having(f, n + 1, key))
             = Cardinality(Having(Without(f, n, x), n, key)) + IF key = f[x] THEN 1 ELSE 0
<1>1. Without(f, n, x) \in [0..n - 1 -> Int] /\ f[x] \in Int
  BY DEF Without
<1>2. With(Without(f, n, x), n, x, f[x]) = f
  BY DEF With, Without
<1>3. Cardinality(Having(With(Without(f, n, x), n, x, f[x]), n + 1, key))
        = Cardinality(Having(Without(f, n, x), n, key)) + IF key = f[x] THEN 1 ELSE 0
  <2> DEFINE h == Without(f, n, x)
             e == f[x]
  <2>1. h \in [0..n - 1 -> Int] /\ e \in Int
    BY <1>1
  <2> HIDE DEF h, e
  <2>2. Cardinality(Having(With(h, n, x, e), n + 1, key))
          = Cardinality(Having(h, n, key)) + IF key = e THEN 1 ELSE 0
    BY <2>1, WithCounts
  <2> QED
    BY <2>2 DEF h, e
<1> QED
  BY <1>2, <1>3

\* Everything in the array, and what is searched for, is a key.
KeysOnly ==
    /\ \A i \in Array!Slots : m_pData[i] \in Keys
    /\ a_pc # "idle" => data \in Keys

\* The inductive invariant.
ArrayInv == Array!SortedInv /\ KeysOnly

\* How many elements of the array have key x.
HeldKeys(x) == Cardinality(Having(m_pData, m_iSize, x))

LEMMA BagIsHeld == ASSUME Array!TypeOK PROVE Array!Bag = [x \in Keys |-> HeldKeys(x)]
BY ArrayCardinality DEF Array!Bag, HeldKeys, Having, Array!Slots

\* A key put where its neighbours allow it.
LEMMA PutKeepsOrder ==
    ASSUME Array!TypeOK, Array!Sorted, \A i \in Array!Slots : m_pData[i] \in Keys,
           NEW iid \in 0..m_iSize, NEW d \in Keys,
           iid > 0 => m_pData[iid - 1] <= d,
           iid < m_iSize => d <= m_pData[iid],
           Array!Put(iid, d)
    PROVE  /\ m_iSize' = m_iSize + 1 /\ m_iSize' \in Nat
           /\ m_pData' \in [Array!Slots' -> Int]
           /\ Array!Sorted'
           /\ \A i \in Array!Slots' : m_pData'[i] \in Keys
           /\ \A x \in Keys : HeldKeys(x)' = HeldKeys(x) + IF x = d THEN 1 ELSE 0
           /\ read' = m_iSize - 1
<1>1. /\ m_iSize \in Nat /\ m_pData \in [0..m_iSize - 1 -> Int] /\ d \in Int
      /\ m_iSize' = m_iSize + 1 /\ m_iSize' - 1 = m_iSize /\ read' = m_iSize - 1
      /\ m_pData' = With(m_pData, m_iSize, iid, d)
  BY ContainersAssumption DEF Array!TypeOK, Array!Slots, Array!Put, With
<1>2. \A i \in 0..m_iSize : m_pData'[i] =
        IF i < iid THEN m_pData[i] ELSE IF i = iid THEN d ELSE m_pData[i - 1]
  BY <1>1 DEF With
<1>3. \A i, j \in 0..m_iSize - 1 : i <= j => m_pData[i] <= m_pData[j]
  BY DEF Array!Sorted, Array!Slots
<1>4. Array!Slots' = 0..m_iSize
  BY <1>1 DEF Array!Slots
<1>5. \A i \in 0..m_iSize : m_pData'[i] \in Keys
  BY <1>1, <1>2 DEF Array!Slots
<1>6. \A i, j \in 0..m_iSize : i <= j => m_pData'[i] <= m_pData'[j]
  <2> SUFFICES ASSUME NEW i \in 0..m_iSize, NEW j \in 0..m_iSize, i <= j
               PROVE  m_pData'[i] <= m_pData'[j]
    OBVIOUS
  <2>1. i < iid => m_pData[i] <= d
    BY <1>1, <1>3
  <2>2. j > iid => d <= m_pData[j - 1]
    BY <1>1, <1>3
  <2> QED
    BY <1>1, <1>2, <1>3, <2>1, <2>2
<1>7. m_pData' \in [0..m_iSize -> Int]
  BY <1>1 DEF With
<1>8. \A x \in Keys : HeldKeys(x)' = HeldKeys(x) + IF x = d THEN 1 ELSE 0
  BY <1>1, WithCounts DEF HeldKeys
<1> QED
  BY <1>1, <1>4, <1>5, <1>6, <1>7, <1>8 DEF Array!Sorted

\* The elements behind one that is taken out move down.
LEMMA RemoveKeepsOrder ==
    ASSUME Array!TypeOK, Array!Sorted, \A i \in Array!Slots : m_pData[i] \in Keys,
           NEW x \in Array!Slots, Array!RemoveAt(x)
    PROVE  /\ m_iSize' = m_iSize - 1 /\ m_iSize' \in Nat
           /\ m_pData' \in [Array!Slots' -> Int]
           /\ Array!Sorted'
           /\ \A i \in Array!Slots' : m_pData'[i] \in Keys
           /\ \A key \in Keys : HeldKeys(key) = HeldKeys(key)' + IF key = m_pData[x] THEN 1 ELSE 0
           /\ read' \in {m_iSize - 1, m_iSize}
<1>1. /\ m_iSize \in Nat /\ m_iSize > 0 /\ m_pData \in [0..m_iSize - 1 -> Int]
      /\ read' \in {m_iSize - 1, m_iSize}
      /\ x \in 0..m_iSize - 1
      /\ m_iSize' = m_iSize - 1 /\ m_iSize' \in Nat
      /\ m_pData' = [i \in 0..m_iSize - 2 |-> IF i < x THEN m_pData[i] ELSE m_pData[i + 1]]
  BY DEF Array!TypeOK, Array!Slots, Array!RemoveAt
<1>2. Array!Slots' = 0..m_iSize - 2
  BY <1>1 DEF Array!Slots
<1>3. \A i \in 0..m_iSize - 2 :
        m_pData'[i] = IF i < x THEN m_pData[i] ELSE m_pData[i + 1]
  BY <1>1
<1>4. m_pData' \in [0..m_iSize - 2 -> Int]
  BY <1>1
<1>5. \A i, j \in 0..m_iSize - 1 : i <= j => m_pData[i] <= m_pData[j]
  BY DEF Array!Sorted, Array!Slots
<1>6. \A i, j \in 0..m_iSize - 2 : i <= j => m_pData'[i] <= m_pData'[j]
  BY <1>1, <1>3, <1>5
<1>7. \A i \in 0..m_iSize - 2 : m_pData'[i] \in Keys
  BY <1>1, <1>3 DEF Array!Slots
<1>8. m_pData' = Without(m_pData, m_iSize', x) /\ m_iSize' + 1 = m_iSize
  BY <1>1 DEF Without
<1>9. \A key \in Keys : HeldKeys(key) = HeldKeys(key)' + IF key = m_pData[x] THEN 1 ELSE 0
  <2> SUFFICES ASSUME NEW key \in Keys
               PROVE  HeldKeys(key) = HeldKeys(key)' + IF key = m_pData[x] THEN 1 ELSE 0
    OBVIOUS
  <2>1. key \in Int /\ m_iSize' \in Nat /\ x \in 0..m_iSize' /\ m_pData \in [0..m_iSize' -> Int]
    BY <1>1, ContainersAssumption
  <2>2. Cardinality(Having(m_pData, m_iSize' + 1, key))
          = Cardinality(Having(Without(m_pData, m_iSize', x), m_iSize', key))
              + IF key = m_pData[x] THEN 1 ELSE 0
    BY <2>1, WithoutCounts
  <2> QED
    BY <1>8, <2>2 DEF HeldKeys
<1> QED
  BY <1>1, <1>2, <1>4, <1>6, <1>7, <1>9 DEF Array!Sorted

\* What happens to the multiset when one key is put, or taken, or none.
LEMMA BagMore ==
    ASSUME Array!TypeOK, Array!TypeOK', NEW d \in Keys,
           \A x \in Keys : HeldKeys(x)' = HeldKeys(x) + IF x = d THEN 1 ELSE 0
    PROVE  Array!Bag' = [Array!Bag EXCEPT ![d] = @ + 1]
<1>1. Array!Bag = [x \in Keys |-> HeldKeys(x)] /\ Array!Bag' = [x \in Keys |-> HeldKeys(x)']
  BY BagIsHeld, ArrayCardinality DEF Array!Bag, HeldKeys, Having, Array!Slots
<1>2. \A x \in Keys : HeldKeys(x) \in Nat
  BY HavingFinite DEF HeldKeys, Array!TypeOK
<1> QED
  BY <1>1, <1>2

LEMMA BagLess ==
    ASSUME Array!TypeOK, Array!TypeOK', NEW d \in Keys,
           \A x \in Keys : HeldKeys(x) = HeldKeys(x)' + IF x = d THEN 1 ELSE 0
    PROVE  Array!Bag[d] > 0 /\ Array!Bag' = [Array!Bag EXCEPT ![d] = @ - 1]
<1>1. Array!Bag = [x \in Keys |-> HeldKeys(x)] /\ Array!Bag' = [x \in Keys |-> HeldKeys(x)']
  BY BagIsHeld, ArrayCardinality DEF Array!Bag, HeldKeys, Having, Array!Slots
<1>2. \A x \in Keys : HeldKeys(x)' \in Nat
  BY HavingFinite DEF HeldKeys, Array!TypeOK
<1> QED
  BY <1>1, <1>2

LEMMA BagSame ==
    ASSUME UNCHANGED <<m_pData, m_iSize>>
    PROVE  Array!Bag' = Array!Bag
BY DEF Array!Bag, Array!Slots

\* A key is in the multiset when the array has it.
LEMMA BagHas ==
    ASSUME Array!TypeOK, NEW d \in Keys
    PROVE  Array!Bag[d] > 0 <=> \E i \in Array!Slots : m_pData[i] = d
<1>1. Array!Bag[d] = HeldKeys(d)
  BY BagIsHeld
<1>2. HeldKeys(d) > 0 <=> \E i \in 0..m_iSize - 1 : m_pData[i] = d
  BY HavingFinite DEF HeldKeys, Array!TypeOK
<1> QED
  BY <1>1, <1>2 DEF Array!Slots

\* The middle of what a search has left.
LEMMA Middle ==
    ASSUME Array!TypeOK, sp < ep
    PROVE  /\ Array!Cp \in Nat /\ sp <= Array!Cp /\ Array!Cp < ep
           /\ Array!Cp \in {sp, ep} => Array!Cp = sp /\ ep = sp + 1
           /\ Array!Cp \notin {sp, ep} => sp < Array!Cp
BY DEF Array!TypeOK, Array!Cp

\* The empty array is the empty multiset.
LEMMA ArrayInit == Array!Init => ArrayInv /\ Array!Abs!Init
<1> SUFFICES ASSUME Array!Init PROVE ArrayInv /\ Array!Abs!Init
  OBVIOUS
<1>1. m_iSize = 0 /\ Array!Slots = {} /\ a_pc = "idle" /\ found = -1
  BY DEF Array!Init, Array!Slots
<1>2. ArrayInv
  BY <1>1
     DEF Array!Init, ArrayInv, Array!SortedInv, Array!TypeOK, Array!Sorted,
         Array!WithinCapacity, Array!Bracket, KeysOnly, Array!Slots
<1>3. Array!Bag = [x \in Keys |-> 0]
  <2>1. \A x \in Keys : {i \in Array!Slots : m_pData[i] = x} = {}
    BY <1>1
  <2> QED
    BY <2>1, FS_EmptySet, ArrayCardinality DEF Array!Bag
<1> QED
  BY <1>1, <1>2, <1>3 DEF Array!Abs!Init

\* insert() where no search is needed.
LEMMA InsertStep ==
    ASSUME ArrayInv, NEW d \in Keys, Array!Insert(d)
    PROVE  ArrayInv' /\ [Array!Abs!Next]_(Array!Abs!vars)
<1>1. /\ Array!TypeOK /\ Array!Sorted /\ Array!WithinCapacity /\ KeysOnly /\ a_pc = "idle"
      /\ d \in Int /\ m_iSize \in Nat /\ m_iCapacity \in Nat /\ PIECE \in Nat /\ PIECE > 0
      /\ \A i \in 0..m_iSize - 1 : m_pData[i] \in Int
  BY ContainersAssumption, PieceAssumption
     DEF ArrayInv, Array!SortedInv, Array!Insert, Array!TypeOK, Array!Slots
<1>2. m_iCapacity' = Array!Capacity /\ m_iCapacity' \in Nat /\ m_iSize < m_iCapacity'
      /\ op' = op /\ found' = found
  BY <1>1 DEF Array!Insert, Array!Capacity, Array!WithinCapacity
<1>3. ASSUME NEW iid \in {0, m_iSize}, Array!Put(iid, d), UNCHANGED <<a_pc, data, sp, ep>>,
             iid > 0 => m_pData[iid - 1] <= d,
             iid < m_iSize => d <= m_pData[iid]
      PROVE  ArrayInv' /\ [Array!Abs!Next]_(Array!Abs!vars)
  <2>0. iid \in 0..m_iSize
    BY <1>1
  <2>1. /\ m_iSize' = m_iSize + 1 /\ m_iSize' \in Nat
        /\ m_pData' \in [Array!Slots' -> Int]
        /\ Array!Sorted'
        /\ \A i \in Array!Slots' : m_pData'[i] \in Keys
        /\ \A x \in Keys : HeldKeys(x)' = HeldKeys(x) + IF x = d THEN 1 ELSE 0
        /\ read' = m_iSize - 1
    BY <1>1, <1>3, <2>0, PutKeepsOrder DEF KeysOnly
  <2>2. Array!TypeOK'
    BY <1>1, <1>2, <1>3, <2>1 DEF Array!TypeOK
  <2>3. ArrayInv'
    BY <1>1, <1>2, <1>3, <2>1, <2>2
       DEF ArrayInv, Array!SortedInv, Array!WithinCapacity, Array!Bracket, KeysOnly
  <2>4. Array!Bag' = [Array!Bag EXCEPT ![d] = @ + 1]
    BY <1>1, <2>1, <2>2, BagMore
  <2> QED
    BY <1>2, <2>3, <2>4 DEF Array!Abs!Next, Array!Abs!Insert
<1>4. CASE Array!AtFront(d) /\ Array!Put(0, d) /\ UNCHANGED <<a_pc, data, sp, ep>>
  BY <1>1, <1>3, <1>4 DEF Array!AtFront
<1>5. CASE Array!AtBack(d) /\ Array!Put(m_iSize, d) /\ UNCHANGED <<a_pc, data, sp, ep>>
  BY <1>1, <1>3, <1>5 DEF Array!AtBack
<1>6. CASE /\ ~Array!AtFront(d) /\ ~Array!AtBack(d)
           /\ a_pc' = "insertId" /\ data' = d
           /\ sp' = 0 /\ ep' = m_iSize
           /\ UNCHANGED <<m_pData, m_iSize, read>>
  <2>1. m_iSize > 0 /\ m_pData[0] < d /\ d < m_pData[m_iSize - 1]
    BY <1>1, <1>6 DEF Array!AtFront, Array!AtBack
  <2>2. Array!Slots' = Array!Slots
    BY <1>6 DEF Array!Slots
  <2>3. Array!TypeOK'
    BY <1>1, <1>2, <1>6, <2>2 DEF Array!TypeOK
  <2>4. Array!Sorted' /\ KeysOnly'
    BY <1>1, <1>6, <2>2 DEF Array!Sorted, KeysOnly
  <2>5. Array!WithinCapacity' /\ Array!Bracket'
    <3>1. read >= m_iCapacity' => read = m_iCapacity' /\ m_iSize = m_iCapacity' - 1
      BY <1>1, <1>2 DEF Array!Capacity, Array!WithinCapacity, Array!TypeOK
    <3> QED
      BY <1>1, <1>2, <1>6, <2>1, <2>2, <3>1 DEF Array!WithinCapacity, Array!Bracket, Array!Slots
  <2> QED
    BY <1>2, <1>6, <2>3, <2>4, <2>5, BagSame DEF ArrayInv, Array!SortedInv, Array!Abs!vars
<1> QED
  BY <1>4, <1>5, <1>6 DEF Array!Insert

\* An iteration that narrows the search keeps the invariant and the array.
LEMMA NarrowStep ==
    ASSUME ArrayInv, a_pc # "idle", Array!Cp \notin {sp, ep}, Array!Narrow,
           UNCHANGED <<m_pData, m_iSize, m_iCapacity, a_pc, op, data, found, read>>
    PROVE  ArrayInv' /\ UNCHANGED Array!Abs!vars
<1>1. Array!TypeOK /\ Array!Sorted /\ Array!WithinCapacity /\ Array!Bracket /\ KeysOnly /\ sp < ep
  BY DEF ArrayInv, Array!SortedInv, Array!WithinCapacity
<1>2. Array!Cp \in Nat /\ sp < Array!Cp /\ Array!Cp < ep
  BY <1>1, Middle
<1>3. Array!Slots' = Array!Slots
  BY DEF Array!Slots
<1>4. Array!TypeOK'
  BY <1>1, <1>2, <1>3 DEF Array!TypeOK, Array!Narrow
<1>5. Array!Sorted' /\ KeysOnly'
  BY <1>1, <1>3 DEF Array!Sorted, KeysOnly
<1>6. Array!WithinCapacity'
  BY <1>1, <1>2, <1>3 DEF Array!WithinCapacity, Array!Narrow, Array!TypeOK, Array!Slots
<1>7. Array!Bracket'
  BY <1>1, <1>2
     DEF Array!WithinCapacity, Array!Bracket, Array!Narrow, Array!TypeOK, Array!Slots
<1> QED
  BY <1>4, <1>5, <1>6, <1>7, BagSame DEF ArrayInv, Array!SortedInv, Array!Abs!vars

\* insert() ends its search where the order allows the key.
LEMMA InsertIdStep ==
    ASSUME ArrayInv, Array!InsertId
    PROVE  ArrayInv' /\ [Array!Abs!Next]_(Array!Abs!vars)
<1>1. /\ Array!TypeOK /\ Array!Sorted /\ Array!WithinCapacity /\ Array!Bracket /\ KeysOnly
      /\ a_pc = "insertId"
      /\ m_iSize \in Nat /\ m_iSize < m_iCapacity /\ sp \in 0..m_iSize - 1 /\ ep \in 1..m_iSize
      /\ sp < ep /\ data \in Keys /\ data \in Int
      /\ \A i \in 0..m_iSize - 1 : m_pData[i] \in Int
      /\ UNCHANGED <<m_iCapacity, op, found>>
  BY ContainersAssumption
     DEF ArrayInv, Array!SortedInv, Array!InsertId, Array!TypeOK, Array!Slots,
         Array!WithinCapacity, KeysOnly
<1>2. CASE /\ Array!Cp \notin {sp, ep} => data = m_pData[Array!Cp]
           /\ Array!Put(Array!InsertIdSlot, data)
           /\ Array!Leave
  <2> DEFINE iid == Array!InsertIdSlot
  <2>1. /\ iid \in 0..m_iSize
        /\ iid > 0 => m_pData[iid - 1] <= data
        /\ iid < m_iSize => data <= m_pData[iid]
    <3>1. CASE Array!Cp \in {sp, ep}
      <4>1. ep = sp + 1 /\ m_pData[sp] < data /\ iid = ep
        BY <1>1, <3>1, Middle DEF Array!Bracket, Array!InsertIdSlot
      <4>2. ep < m_iSize => data <= m_pData[ep]
        BY <1>1 DEF Array!Bracket
      <4> QED
        BY <1>1, <4>1, <4>2
    <3>2. CASE Array!Cp \notin {sp, ep}
      <4>1. /\ iid = Array!Cp /\ data = m_pData[Array!Cp]
            /\ Array!Cp \in Nat /\ sp < Array!Cp /\ Array!Cp < ep
        BY <1>1, <1>2, <3>2, Middle DEF Array!InsertIdSlot
      <4>2. m_pData[Array!Cp - 1] <= m_pData[Array!Cp]
        BY <1>1, <4>1 DEF Array!Sorted, Array!Slots
      <4> QED
        BY <1>1, <4>1, <4>2
    <3> QED
      BY <3>1, <3>2
  <2> HIDE DEF iid
  <2>2. /\ m_iSize' = m_iSize + 1 /\ m_iSize' \in Nat
        /\ m_pData' \in [Array!Slots' -> Int]
        /\ Array!Sorted'
        /\ \A i \in Array!Slots' : m_pData'[i] \in Keys
        /\ \A x \in Keys : HeldKeys(x)' = HeldKeys(x) + IF x = data THEN 1 ELSE 0
        /\ read' = m_iSize - 1
    BY <1>1, <1>2, <2>1, PutKeepsOrder DEF KeysOnly, iid
  <2>3. Array!TypeOK'
    BY <1>1, <1>2, <2>2 DEF Array!TypeOK, Array!Leave
  <2>4. ArrayInv'
    BY <1>1, <1>2, <2>2, <2>3
       DEF ArrayInv, Array!SortedInv, Array!WithinCapacity, Array!Bracket, KeysOnly,
           Array!Leave, Array!TypeOK
  <2>5. Array!Bag' = [Array!Bag EXCEPT ![data] = @ + 1]
    BY <1>1, <2>2, <2>3, BagMore
  <2> QED
    BY <1>1, <2>4, <2>5 DEF Array!Abs!Next, Array!Abs!Insert
<1>3. CASE /\ Array!Cp \notin {sp, ep}
           /\ Array!Narrow
           /\ UNCHANGED <<a_pc, data, m_pData, m_iSize, read>>
  BY <1>1, <1>3, NarrowStep
<1> QED
  BY <1>2, <1>3 DEF Array!InsertId

\* What get() and remove() do when index() has returned k: d was found there, or
\* it is nowhere.
LEMMA ReturnStep ==
    ASSUME ArrayInv, NEW d \in Keys, NEW x \in Int, Array!Return(x), m_iCapacity' = m_iCapacity,
           op' \in {"get", "remove"},
           \/ x = -1 /\ \A i \in Array!Slots : m_pData[i] # d
           \/ x \in Array!Slots /\ m_pData[x] = d
    PROVE  ArrayInv' /\ [Array!Abs!Next]_(Array!Abs!vars)
<1>1. /\ Array!TypeOK /\ Array!Sorted /\ Array!WithinCapacity /\ KeysOnly
      /\ found' = x /\ a_pc' = "idle"
      /\ data' = 0 /\ sp' = 0 /\ ep' = 0
  BY DEF ArrayInv, Array!SortedInv, Array!Return, Array!Leave
<1>2. Array!Bag[d] > 0 <=> x # -1
  BY <1>1, BagHas DEF Array!Slots
<1>3. ASSUME UNCHANGED <<m_pData, m_iSize, read>>
      PROVE  ArrayInv' /\ Array!Bag' = Array!Bag
  <2>1. Array!Slots' = Array!Slots
    BY <1>3 DEF Array!Slots
  <2> QED
    BY <1>1, <1>3, <2>1, BagSame
       DEF ArrayInv, Array!SortedInv, Array!TypeOK, Array!Sorted, Array!WithinCapacity,
           Array!Bracket, KeysOnly
<1>4. CASE op' = "remove" /\ x \in Array!Slots
  <2>0. Array!RemoveAt(x) /\ m_pData[x] = d
    BY <1>4 DEF Array!Return, Array!Slots
  <2>1. /\ m_iSize' = m_iSize - 1 /\ m_iSize' \in Nat
        /\ m_pData' \in [Array!Slots' -> Int]
        /\ Array!Sorted'
        /\ \A i \in Array!Slots' : m_pData'[i] \in Keys
        /\ \A key \in Keys : HeldKeys(key) = HeldKeys(key)' + IF key = m_pData[x] THEN 1 ELSE 0
        /\ read' \in {m_iSize - 1, m_iSize}
    BY <1>1, <1>4, <2>0, RemoveKeepsOrder DEF KeysOnly
  <2>2. Array!TypeOK'
    BY <1>1, <2>1 DEF Array!TypeOK
  <2>3. ArrayInv'
    BY <1>1, <2>1, <2>2
       DEF ArrayInv, Array!SortedInv, Array!WithinCapacity, Array!Bracket, KeysOnly,
           Array!TypeOK
  <2>4. Array!Bag[d] > 0 /\ Array!Bag' = [Array!Bag EXCEPT ![d] = @ - 1]
    BY <1>1, <2>0, <2>1, <2>2, BagLess
  <2>5. x # -1
    BY <1>4 DEF Array!Slots
  <2>6. Array!Abs!Take(d)
    BY <1>1, <2>4, <2>5 DEF Array!Abs!Take
  <2> QED
    BY <2>3, <2>6 DEF Array!Abs!Next
<1>5. CASE ~(op' = "remove" /\ x \in Array!Slots)
  <2>1. ArrayInv' /\ Array!Bag' = Array!Bag
    BY <1>3, <1>5 DEF Array!Return
  <2>2. CASE op' = "get"
    BY <1>1, <1>2, <2>1 DEF Array!Abs!Next, Array!Abs!Get
  <2>3. CASE op' = "remove"
    <3>1. ~(Array!Bag[d] > 0) /\ x = -1
      BY <1>2, <1>5, <2>3
    <3>2. Array!Abs!Take(d)
      BY <1>1, <2>1, <3>1 DEF Array!Abs!Take
    <3> QED
      BY <2>1, <3>2 DEF Array!Abs!Next
  <2> QED
    BY <2>1, <2>2, <2>3
<1> QED
  BY <1>4, <1>5

\* get() and remove() by key: decided at once, or a search begins.
LEMMA IndexStep ==
    ASSUME ArrayInv, NEW d \in Keys, NEW o \in {"get", "remove"}, Array!Index(d, o)
    PROVE  ArrayInv' /\ [Array!Abs!Next]_(Array!Abs!vars)
<1>1. /\ Array!TypeOK /\ Array!Sorted /\ Array!WithinCapacity /\ KeysOnly /\ a_pc = "idle"
      /\ d \in Int /\ m_iSize \in Nat /\ op' = o /\ m_iCapacity' = m_iCapacity
      /\ \A i \in 0..m_iSize - 1 : m_pData[i] \in Int
  BY ContainersAssumption
     DEF ArrayInv, Array!SortedInv, Array!Index, Array!TypeOK, Array!Slots
<1>2. CASE Array!Outside(d) /\ Array!Return(-1)
  <2>1. \A i \in Array!Slots : m_pData[i] # d
    <3>1. \A i \in Array!Slots : m_iSize > 0 /\ m_pData[0] <= m_pData[i]
                           /\ m_pData[i] <= m_pData[m_iSize - 1]
      BY <1>1 DEF Array!Sorted, Array!Slots
    <3> QED
      BY <1>1, <1>2, <3>1 DEF Array!Outside, Array!Slots
  <2> QED
    BY <1>1, <1>2, <2>1, ReturnStep
<1>3. CASE /\ ~Array!Outside(d)
           /\ a_pc' = "index" /\ data' = d
           /\ sp' = 0 /\ ep' = m_iSize
           /\ UNCHANGED <<m_pData, m_iSize, found, read>>
  <2>1. m_iSize > 0 /\ m_pData[0] <= d /\ d <= m_pData[m_iSize - 1]
    BY <1>1, <1>3 DEF Array!Outside
  <2>2. Array!Slots' = Array!Slots
    BY <1>3 DEF Array!Slots
  <2>3. Array!TypeOK'
    BY <1>1, <1>3, <2>2 DEF Array!TypeOK
  <2>4. Array!Sorted' /\ KeysOnly'
    BY <1>1, <1>3, <2>2 DEF Array!Sorted, KeysOnly
  <2>5. Array!WithinCapacity' /\ Array!Bracket'
    BY <1>1, <1>3, <2>1, <2>2 DEF Array!WithinCapacity, Array!Bracket, Array!Slots
  <2> QED
    BY <1>3, <2>3, <2>4, <2>5, BagSame DEF ArrayInv, Array!SortedInv, Array!Abs!vars
<1> QED
  BY <1>2, <1>3 DEF Array!Index

\* index() ends its search at the key, or where the key would have to be.
LEMMA IndexLoopStep ==
    ASSUME ArrayInv, Array!IndexLoop
    PROVE  ArrayInv' /\ [Array!Abs!Next]_(Array!Abs!vars)
<1>1. /\ Array!TypeOK /\ Array!Sorted /\ Array!WithinCapacity /\ Array!Bracket /\ KeysOnly
      /\ a_pc = "index"
      /\ m_iSize \in Nat /\ sp \in 0..m_iSize - 1 /\ ep \in 1..m_iSize
      /\ sp < ep /\ data \in Keys /\ data \in Int
      /\ \A i \in 0..m_iSize - 1 : m_pData[i] \in Int
      /\ op \in {"get", "remove"} /\ UNCHANGED <<m_iCapacity, op>>
  BY ContainersAssumption
     DEF ArrayInv, Array!SortedInv, Array!IndexLoop, Array!TypeOK, Array!Slots,
         Array!WithinCapacity, KeysOnly
<1>2. CASE /\ Array!Cp \notin {sp, ep} => data = m_pData[Array!Cp]
           /\ Array!Return(Array!IndexSlot)
  <2> DEFINE x == Array!IndexSlot
  <2>1. \/ x = -1 /\ \A i \in Array!Slots : m_pData[i] # data
        \/ x \in Array!Slots /\ m_pData[x] = data
    <3>1. CASE Array!Cp \in {sp, ep} /\ data = m_pData[sp]
      BY <1>1, <3>1 DEF Array!IndexSlot, Array!Slots
    <3>2. CASE Array!Cp \in {sp, ep} /\ data # m_pData[sp]
      <4>1. ep = sp + 1 /\ ep - 1 = sp
        BY <1>1, <3>2, Middle
      <4>2. x = -1
        BY <3>2, <4>1 DEF Array!IndexSlot
      <4>3. m_pData[sp] < data /\ ep < m_iSize /\ data < m_pData[ep]
        BY <1>1, <3>2, <4>1 DEF Array!Bracket
      <4>4. \A i \in Array!Slots : i <= sp \/ ep <= i
        BY <1>1, <4>1 DEF Array!Slots
      <4>5. \A i \in Array!Slots : m_pData[i] <= m_pData[sp] \/ m_pData[ep] <= m_pData[i]
        BY <1>1, <4>3, <4>4 DEF Array!Sorted, Array!Slots
      <4>6. \A i \in Array!Slots : m_pData[i] # data
        BY <1>1, <4>3, <4>5 DEF Array!Slots
      <4> QED
        BY <4>2, <4>6
    <3>3. CASE Array!Cp \notin {sp, ep}
      BY <1>1, <1>2, <3>3, Middle DEF Array!IndexSlot, Array!Slots
    <3> QED
      BY <3>1, <3>2, <3>3
  <2>2. x \in Int
    BY <1>1, <2>1 DEF Array!Slots
  <2> HIDE DEF x
  <2>3. Array!Return(x) /\ op' \in {"get", "remove"} /\ m_iCapacity' = m_iCapacity
    BY <1>1, <1>2 DEF x
  <2> QED
    BY <1>1, <2>1, <2>2, <2>3, ReturnStep
<1>3. CASE /\ Array!Cp \notin {sp, ep}
           /\ Array!Narrow
           /\ UNCHANGED <<a_pc, data, m_pData, m_iSize, found, read>>
  BY <1>1, <1>3, NarrowStep
<1> QED
  BY <1>2, <1>3 DEF Array!IndexLoop

\* remove(position)
LEMMA RemoveStep ==
    ASSUME ArrayInv, NEW x \in Array!Slots, Array!Remove(x)
    PROVE  ArrayInv' /\ [Array!Abs!Next]_(Array!Abs!vars)
<1>1. /\ Array!TypeOK /\ Array!Sorted /\ Array!WithinCapacity /\ KeysOnly /\ a_pc = "idle"
      /\ Array!RemoveAt(x) /\ m_pData[x] \in Keys
      /\ UNCHANGED <<m_iCapacity, a_pc, op, data, sp, ep, found>>
  BY DEF ArrayInv, Array!SortedInv, Array!Remove, KeysOnly
<1>2. /\ m_iSize' = m_iSize - 1 /\ m_iSize' \in Nat
      /\ m_pData' \in [Array!Slots' -> Int]
      /\ Array!Sorted'
      /\ \A i \in Array!Slots' : m_pData'[i] \in Keys
      /\ \A key \in Keys : HeldKeys(key) = HeldKeys(key)' + IF key = m_pData[x] THEN 1 ELSE 0
      /\ read' \in {m_iSize - 1, m_iSize}
  BY <1>1, RemoveKeepsOrder DEF KeysOnly
<1>3. Array!TypeOK'
  BY <1>1, <1>2 DEF Array!TypeOK
<1>4. ArrayInv'
  BY <1>1, <1>2, <1>3
     DEF ArrayInv, Array!SortedInv, Array!WithinCapacity, Array!Bracket, KeysOnly,
         Array!TypeOK
<1>5. Array!Bag[m_pData[x]] > 0 /\ Array!Bag' = [Array!Bag EXCEPT ![m_pData[x]] = @ - 1]
  BY <1>1, <1>2, <1>3, BagLess
<1>6. Array!Abs!Drop(m_pData[x])
  BY <1>1, <1>5 DEF Array!Abs!Drop
<1> QED
  BY <1>1, <1>4, <1>6 DEF Array!Abs!Next

\* clear()
LEMMA ClearStep ==
    ASSUME ArrayInv, Array!Clear
    PROVE  ArrayInv' /\ [Array!Abs!Next]_(Array!Abs!vars)
<1>1. /\ m_iSize' = 0 /\ Array!Slots' = {} /\ 0..-1 = {} /\ m_pData' = [i \in 0..-1 |-> 0]
      /\ a_pc = "idle" /\ read' = -1
      /\ UNCHANGED <<m_iCapacity, a_pc, op, data, sp, ep, found>>
  BY DEF Array!Clear, Array!Slots
<1>2. ArrayInv'
  BY <1>1
     DEF ArrayInv, Array!SortedInv, Array!TypeOK, Array!Sorted, Array!WithinCapacity,
         Array!Bracket, KeysOnly
<1>3. Array!Bag' = [x \in Keys |-> 0]
  <2>1. \A x \in Keys : {i \in Array!Slots' : m_pData'[i] = x} = {}
    BY <1>1
  <2> QED
    BY <2>1, FS_EmptySet, ArrayCardinality DEF Array!Bag
<1> QED
  BY <1>1, <1>2, <1>3 DEF Array!Abs!Next, Array!Abs!Clear

\* Every step keeps the invariant, and is one of KeyBag or leaves the multiset alone.
LEMMA ArrayStep ==
    ArrayInv /\ [Array!Next]_(Array!vars) => ArrayInv' /\ [Array!Abs!Next]_(Array!Abs!vars)
<1> SUFFICES ASSUME ArrayInv, [Array!Next]_(Array!vars)
             PROVE  ArrayInv' /\ [Array!Abs!Next]_(Array!Abs!vars)
  OBVIOUS
<1>1. CASE UNCHANGED Array!vars
  BY <1>1
     DEF Array!vars, ArrayInv, Array!SortedInv, Array!TypeOK, Array!Sorted,
         Array!WithinCapacity, Array!Bracket, KeysOnly,
              Array!Slots, Array!Bag, Array!Abs!vars
<1>2. ASSUME NEW d \in Keys, Array!Insert(d) \/ Array!InsertNoMemory(d)
      PROVE  ArrayInv' /\ [Array!Abs!Next]_(Array!Abs!vars)
  BY <1>1, <1>2, InsertStep DEF Array!InsertNoMemory
<1>3. ASSUME NEW d \in Keys, NEW o \in {"get", "remove"}, Array!Index(d, o)
      PROVE  ArrayInv' /\ [Array!Abs!Next]_(Array!Abs!vars)
  BY <1>3, IndexStep
<1>4. ASSUME NEW x \in Array!Slots, Array!Remove(x)
      PROVE  ArrayInv' /\ [Array!Abs!Next]_(Array!Abs!vars)
  BY <1>4, RemoveStep
<1> QED
  BY <1>1, <1>2, <1>3, <1>4, InsertIdStep, IndexLoopStep, ClearStep DEF Array!Next

-----------------------------------------------------------------------------
\* Queue

\* A set of natural numbers that is not empty has a least one: the segments 0..x
\* are finite sets, and these are well-founded by inclusion.
LEMMA LeastOf ==
    ASSUME NEW T, T \subseteq Nat, T # {}
    PROVE  \E x \in T : \A y \in T : x <= y
<1> DEFINE Segments == {0..x : x \in T}
<1>1. Segments \subseteq FiniteSubsetsOf(Nat)
  <2> SUFFICES ASSUME NEW x \in T PROVE 0..x \in FiniteSubsetsOf(Nat)
    OBVIOUS
  <2>1. x \in Nat /\ 0 \in Int
    OBVIOUS
  <2>2. IsFiniteSet(0..x)
    BY <2>1, FS_Interval
  <2>3. 0..x \in SUBSET Nat
    BY <2>1
  <2> QED
    BY <2>2, <2>3 DEF FiniteSubsetsOf
<1>2. Segments # {}
  OBVIOUS
<1>3. \E s \in Segments : \A r \in Segments : ~(<<r, s>> \in StrictSubsetOrdering(Nat))
  BY <1>1, <1>2, WFMin, FS_StrictSubsetOrderingWellFounded
<1>4. PICK x \in T : \A y \in T : ~(<<0..y, 0..x>> \in StrictSubsetOrdering(Nat))
  BY <1>3
<1>5. ASSUME NEW y \in T, y < x
      PROVE  FALSE
  <2>1. x \in Nat /\ y \in Nat
    OBVIOUS
  <2>2. x \in 0..x /\ x \notin 0..y /\ 0..y \subseteq 0..x
    BY <1>5, <2>1
  <2>3. <<0..y, 0..x>> \in StrictSubsetOrdering(Nat)
    BY <2>1, <2>2 DEF StrictSubsetOrdering
  <2> QED
    BY <1>4, <2>3
<1> QED
  BY <1>5

\* A set of natural numbers with a bound that is not empty has a greatest one.
LEMMA GreatestOf ==
    ASSUME NEW m \in Int, NEW T, T \subseteq 0..m, T # {}
    PROVE  \E x \in T : \A y \in T : y <= x
<1> DEFINE Mirror == {m - x : x \in T}
<1>1. Mirror \subseteq Nat /\ Mirror # {}
  <2>1. \A x \in T : m - x \in Nat
    OBVIOUS
  <2> QED
    BY <2>1
<1>2. PICK z \in Mirror : \A y \in Mirror : z <= y
  <2> HIDE DEF Mirror
  <2> QED
    BY <1>1, LeastOf
<1>3. PICK x \in T : z = m - x
  OBVIOUS
<1>4. \A y \in T : m - x <= m - y
  BY <1>2, <1>3
<1>5. \A y \in T : y <= x
  <2> SUFFICES ASSUME NEW y \in T PROVE y <= x
    OBVIOUS
  <2>1. y \in Int /\ x \in Int /\ m - x <= m - y
    BY <1>4
  <2> QED
    BY <2>1
<1> QED
  BY <1>5

\* The k-th node is the one that k - 1 links lead to from front.
Links(p, n, front, nxt) ==
    p = [i \in 1..n |-> IF i = 1 THEN front ELSE nxt[p[i - 1]]]

\* There is only one way along the links.
LEMMA LinksUnique ==
    ASSUME NEW n \in Nat, NEW front, NEW nxt, NEW p, NEW q,
           Links(p, n, front, nxt), Links(q, n, front, nxt)
    PROVE  p = q
<1> DEFINE Differ == {i \in 1..n : p[i] # q[i]}
<1>1. /\ p = [i \in 1..n |-> IF i = 1 THEN front ELSE nxt[p[i - 1]]]
      /\ q = [i \in 1..n |-> IF i = 1 THEN front ELSE nxt[q[i - 1]]]
  BY DEF Links
<1>2. /\ DOMAIN p = 1..n /\ DOMAIN q = 1..n
      /\ \A i \in 1..n : /\ p[i] = IF i = 1 THEN front ELSE nxt[p[i - 1]]
                         /\ q[i] = IF i = 1 THEN front ELSE nxt[q[i - 1]]
  <2>1. \A i \in 1..n : p[i] = [j \in 1..n |-> IF j = 1 THEN front ELSE nxt[p[j - 1]]][i]
    BY <1>1, Zenon
  <2>2. \A i \in 1..n : q[i] = [j \in 1..n |-> IF j = 1 THEN front ELSE nxt[q[j - 1]]][i]
    BY <1>1, Zenon
  <2>3. DOMAIN p = 1..n /\ DOMAIN q = 1..n
    BY <1>1, Zenon
  <2> QED
    BY <2>1, <2>2, <2>3
<1>3. Differ = {}
  <2> SUFFICES ASSUME Differ # {} PROVE FALSE
    OBVIOUS
  <2>0. Differ \subseteq Nat
    OBVIOUS
  <2>1. PICK i \in Differ : \A j \in Differ : i <= j
    BY <2>0, LeastOf
  <2>2. i \in 1..n /\ p[i] # q[i] /\ (i - 1 \in 1..n => p[i - 1] = q[i - 1])
    BY <2>1
  <2> QED
    BY <1>2, <2>2
<1>4. \A i \in 1..n : p[i] = q[i]
  BY <1>3
<1>5. p = [i \in 1..n |-> p[i]] /\ q = [i \in 1..n |-> q[i]]
  BY <1>1, <1>2
<1> QED
  BY <1>4, <1>5

\* The recursive Node of Queue is any function that follows the links.
LEMMA NodeIs ==
    ASSUME q_iSize \in Nat, NEW p, Links(p, q_iSize, m_pFront, next)
    PROVE  Fifos!Node = p
<1>1. Links(Fifos!Node, q_iSize, m_pFront, next)
  BY DEF Fifos!Node, Links
<1> QED
  BY <1>1, LinksUnique

\* The nodes from m_pFront to m_pEnd, in their order.
Way(p) ==
    /\ p \in [1..q_iSize -> used]
    /\ \A j, i \in 1..q_iSize : p[j] = p[i] => j = i
    /\ \A n \in used : \E i \in 1..q_iSize : p[i] = n
    /\ \A i \in 1..q_iSize : i > 1 => p[i] = next[p[i - 1]]
    /\ IF Fifos!empty THEN m_pFront = NULL /\ m_pEnd = NULL
       ELSE m_pFront = p[1] /\ m_pEnd = p[q_iSize] /\ next[m_pEnd] = NULL

\* Where the members of Queue point.
QTypeOK ==
    /\ q_iSize \in Nat /\ used \subseteq Nodes
    /\ next \in [Nodes -> Nodes \cup {NULL}]
    /\ q_data \in [Nodes -> Objects]

\* The inductive invariant.
QueueInv == QTypeOK /\ \E p : Way(p)

\* What the way says of the list, and of the abstract queue.
LEMMA WayIsNode ==
    ASSUME QTypeOK, NEW p, Way(p)
    PROVE  Fifos!Node = p
<1>1. /\ q_iSize \in Nat
      /\ p = [i \in 1..q_iSize |-> p[i]]
      /\ \A i \in 1..q_iSize : p[i] = IF i = 1 THEN m_pFront ELSE next[p[i - 1]]
  BY DEF QTypeOK, Way, Fifos!empty
<1>2. p = [i \in 1..q_iSize |-> IF i = 1 THEN m_pFront ELSE next[p[i - 1]]]
  BY <1>1
<1> QED
  BY <1>1, <1>2, NodeIs DEF Links

LEMMA WayIsWhole ==
    ASSUME QTypeOK, NEW p, Way(p)
    PROVE  Fifos!ListWhole
<1>1. Fifos!Node = p /\ q_iSize \in Nat /\ DOMAIN p = 1..q_iSize
  BY WayIsNode DEF QTypeOK, Way
<1>2. {p[i] : i \in DOMAIN p} = used
  BY <1>1 DEF Way
<1>3. Cardinality(used) = q_iSize
  <2>1. p \in Bijection(1..q_iSize, used)
    BY DEF Way, Bijection, Injection, Surjection, IsInjective
  <2> QED
    BY <1>1, <2>1, FS_CountingElements DEF ExistsBijection
<1>4. IF Fifos!empty THEN m_pFront = NULL /\ m_pEnd = NULL
      ELSE p[q_iSize] = m_pEnd /\ next[m_pEnd] = NULL
  BY DEF Way
<1> QED
  BY <1>1, <1>2, <1>3, <1>4, FifosCardinality DEF Fifos!ListWhole

\* A new queue has the empty way.
LEMMA QInitInv == Fifos!Init => QueueInv
<1> SUFFICES ASSUME Fifos!Init PROVE QueueInv
  OBVIOUS
<1>1. Way(<< >>)
  BY DEF Fifos!Init, Way, Fifos!empty
<1>2. QTypeOK
  BY DEF Fifos!Init, QTypeOK
<1> QED
  BY <1>1, <1>2 DEF QueueInv


\* A way with one node more at its end, and without its first node.
Longer(p, n, node) == [i \in 1..n + 1 |-> IF i = n + 1 THEN node ELSE p[i]]
Shorter(p, n) == [i \in 1..n - 1 |-> p[i + 1]]

\* push() makes the way one node longer.
LEMMA PushWay ==
    ASSUME QTypeOK, NEW n, n = q_iSize, NEW p, Way(p), NEW d \in Objects, Fifos!push(d)
    PROVE  /\ QTypeOK' /\ q_iSize' = n + 1
           /\ \E new \in Nodes : /\ Way(Longer(p, n, new))'
                                 /\ q_data'[new] = d
           /\ \A i \in 1..n : q_data'[p[i]] = q_data[p[i]]
<1>1. PICK new \in Nodes \ used :
        /\ used' = used \cup {new}
        /\ q_data' = [q_data EXCEPT ![new] = d]
        /\ next' = Fifos!Linked(new)
        /\ m_pFront' = IF Fifos!empty THEN new ELSE m_pFront
        /\ m_pEnd' = new
        /\ q_iSize' = n + 1
  BY DEF Fifos!push
<1>2. /\ n \in Nat /\ used \subseteq Nodes /\ new \in Nodes /\ NULL \notin Nodes
      /\ next \in [Nodes -> Nodes \cup {NULL}] /\ q_data \in [Nodes -> Objects]
      /\ p \in [1..n -> used]
      /\ q_iSize' \in Nat /\ ~(q_iSize' = 0)
  BY <1>1, ContainersAssumption DEF QTypeOK, Way
<1>3. /\ next' \in [Nodes -> Nodes \cup {NULL}]
      /\ next'[new] = NULL
      /\ ~Fifos!empty => next'[m_pEnd] = new
      /\ \A x \in Nodes : x # new /\ x # m_pEnd => next'[x] = next[x]
  <2>1. ~Fifos!empty => m_pEnd \in used /\ m_pEnd # NULL
    BY <1>2 DEF Way, Fifos!empty
  <2> QED
    BY <1>1, <1>2, <2>1 DEF Fifos!Linked, Way
<1>4. QTypeOK'
  BY <1>1, <1>2, <1>3 DEF QTypeOK
<1> DEFINE q == Longer(p, n, new)
<1>5. /\ q[n + 1] = new
      /\ \A i \in 1..n : q[i] = p[i] /\ q[i] \in used /\ q[i] # new
      /\ q \in [1..n + 1 -> used \cup {new}]
  BY <1>1, <1>2 DEF Longer
<1> HIDE DEF q
<1>6. /\ \A j, i \in 1..n + 1 : q[j] = q[i] => j = i
      /\ \A x \in used \cup {new} : \E i \in 1..n + 1 : q[i] = x
  <2>1. \A i \in 1..n + 1 : i \in 1..n \/ i = n + 1
    BY <1>2
  <2>2. \A i \in 1..n : i \in 1..n + 1
    BY <1>2
  <2>3. n + 1 \in 1..n + 1
    BY <1>2
  <2> QED
    BY <1>5, <2>1, <2>2, <2>3 DEF Way
<1>7. ASSUME NEW i \in 1..n + 1, i > 1
      PROVE  q[i] = next'[q[i - 1]]
  <2>1. i - 1 \in 1..n /\ q[i - 1] = p[i - 1] /\ p[i - 1] \in Nodes /\ p[i - 1] # new
        /\ n \in 1..n
    BY <1>2, <1>5, <1>7
  <2>2. CASE i = n + 1
    BY <1>2, <1>3, <1>5, <2>1, <2>2 DEF Way, Fifos!empty
  <2>3. CASE i # n + 1
    <3>1. i \in 1..n /\ q[i] = next[p[i - 1]]
      BY <1>2, <1>5, <1>7, <2>3 DEF Way
    <3>2. p[i - 1] # m_pEnd
      BY <1>2, <2>1, <3>1 DEF Way, Fifos!empty
    <3> QED
      BY <1>3, <2>1, <3>1, <3>2
  <2> QED
    BY <2>2, <2>3
<1>8. Way(q)'
  <2>1. ~(q_iSize' = 0) /\ m_pFront' = q[1] /\ m_pEnd' = q[q_iSize'] /\ next'[m_pEnd'] = NULL
    BY <1>1, <1>2, <1>3, <1>5 DEF Way, Fifos!empty
  <2>2. q_iSize' = n + 1 /\ used' = used \cup {new}
    BY <1>1
  <2>3. q \in [1..q_iSize' -> used']
    BY <1>5, <2>2
  <2>4. /\ \A j, i \in 1..q_iSize' : q[j] = q[i] => j = i
        /\ \A x \in used' : \E i \in 1..q_iSize' : q[i] = x
        /\ \A i \in 1..q_iSize' : i > 1 => q[i] = next'[q[i - 1]]
    BY <1>6, <1>7, <2>2
  <2> QED
    BY <2>1, <2>3, <2>4 DEF Way, Fifos!empty
<1>9. /\ \A i \in 1..n : q_data'[p[i]] = q_data[p[i]]
      /\ q_data'[new] = d
  BY <1>1, <1>2
<1> QED
  BY <1>1, <1>4, <1>8, <1>9 DEF q

\* pop() takes the first node from the way.
LEMMA TakeWay ==
    ASSUME QTypeOK, NEW n, n = q_iSize, NEW p, Way(p), Fifos!Take
    PROVE  /\ QTypeOK' /\ n > 0 /\ q_iSize' = n - 1
           /\ Way(Shorter(p, n))'
           /\ q_data' = q_data /\ out' = <<q_data[p[1]]>>
<1>1. /\ n \in Nat /\ n > 0 /\ ~Fifos!empty /\ q_iSize' = n - 1 /\ q_iSize' \in Nat
      /\ m_pFront = p[1] /\ m_pEnd = p[n] /\ next[m_pEnd] = NULL
      /\ m_pFront' = next[m_pFront]
      /\ m_pEnd' = IF next[m_pFront] = NULL THEN NULL ELSE m_pEnd
      /\ out' = <<q_data[p[1]]>> /\ used' = used \ {p[1]} /\ UNCHANGED <<next, q_data>>
      /\ used \subseteq Nodes /\ NULL \notin Nodes
  BY ContainersAssumption DEF QTypeOK, Way, Fifos!Take, Fifos!Unlinked, Fifos!empty
<1>2. QTypeOK'
  BY <1>1 DEF QTypeOK
<1>3. /\ p \in [1..n -> used] /\ 1 \in 1..n /\ n \in 1..n
      /\ \A j, i \in 1..n : p[j] = p[i] => j = i
      /\ \A x \in used : \E i \in 1..n : p[i] = x
      /\ \A i \in 1..n : i > 1 => p[i] = next[p[i - 1]]
  BY <1>1 DEF Way
<1> DEFINE q == Shorter(p, n)
<1>4. /\ \A i \in 1..n - 1 : i + 1 \in 1..n /\ q[i] = p[i + 1]
      /\ q \in [1..n - 1 -> used \ {p[1]}]
  BY <1>1, <1>3 DEF Shorter
<1> HIDE DEF q
<1>5. \A j, i \in 1..n - 1 : q[j] = q[i] => j = i
  BY <1>1, <1>3, <1>4
<1>6. \A x \in used \ {p[1]} : \E i \in 1..n - 1 : q[i] = x
  <2> SUFFICES ASSUME NEW x \in used, x # p[1] PROVE \E i \in 1..n - 1 : q[i] = x
    OBVIOUS
  <2>1. PICK i \in 1..n : p[i] = x
    BY <1>3
  <2>2. i - 1 \in 1..n - 1 /\ i - 1 + 1 = i
    BY <1>1, <2>1
  <2> QED
    BY <1>4, <2>1, <2>2
<1>7. \A i \in 1..n - 1 : i > 1 => q[i] = next[q[i - 1]]
  <2> SUFFICES ASSUME NEW i \in 1..n - 1, i > 1 PROVE q[i] = next[q[i - 1]]
    OBVIOUS
  <2>1. i - 1 \in 1..n - 1 /\ i + 1 \in 1..n /\ i + 1 > 1 /\ i - 1 + 1 = i /\ i + 1 - 1 = i
    BY <1>1
  <2> QED
    BY <1>3, <1>4, <2>1
<1>8. IF n - 1 = 0 THEN m_pFront' = NULL /\ m_pEnd' = NULL
      ELSE m_pFront' = q[1] /\ m_pEnd' = q[n - 1] /\ next[m_pEnd'] = NULL
  <2>1. CASE n = 1
    BY <1>1, <2>1
  <2>2. CASE n # 1
    <3>1. /\ 2 \in 1..n /\ 1 \in 1..n - 1 /\ n - 1 \in 1..n - 1
          /\ n - 1 + 1 = n /\ 1 + 1 = 2 /\ 2 - 1 = 1 /\ 2 > 1
      BY <1>1, <2>2
    <3>2. q[1] = p[2] /\ q[n - 1] = p[n] /\ p[2] = next[p[1]] /\ p[2] \in Nodes
      BY <1>1, <1>3, <1>4, <3>1
    <3> QED
      BY <1>1, <2>2, <3>2
  <2> QED
    BY <2>1, <2>2
<1>9. Way(q)'
  <2>1. q_iSize' = n - 1 /\ used' = used \ {p[1]} /\ next' = next
    BY <1>1
  <2> QED
    BY <1>4, <1>5, <1>6, <1>7, <1>8, <2>1 DEF Way, Fifos!empty
<1> QED
  BY <1>1, <1>2, <1>9 DEF q

-----------------------------------------------------------------------------
\* A function over 1..n is a list of n elements.
LEMMA ListOf ==
    ASSUME NEW S, NEW n \in Nat, NEW f \in [1..n -> S]
    PROVE  f \in Seq(S) /\ Len(f) = n
<1>1. f \in Seq(S)
  BY SeqDef
<1>2. Len(f) \in Nat /\ DOMAIN f = 1..Len(f) /\ DOMAIN f = 1..n
  BY <1>1, LenProperties
<1> QED
  BY <1>1, <1>2

\* A list with one element more at its end.
LEMMA AppendIs ==
    ASSUME NEW S, NEW n \in Nat, NEW f \in [1..n -> S], NEW d \in S,
           NEW g \in [1..n + 1 -> S], \A i \in 1..n : g[i] = f[i], g[n + 1] = d
    PROVE  g = Append(f, d)
<1>1. f \in Seq(S) /\ Len(f) = n /\ g \in Seq(S) /\ Len(g) = n + 1
  BY ListOf
<1>2. /\ Append(f, d) \in Seq(S) /\ Len(Append(f, d)) = n + 1
      /\ \A i \in 1..n : Append(f, d)[i] = f[i]
      /\ Append(f, d)[n + 1] = d
  BY <1>1, AppendProperties
<1>3. \A i \in 1..n + 1 : i \in 1..n \/ i = n + 1
  OBVIOUS
<1>4. \A i \in 1..n + 1 : g[i] = Append(f, d)[i]
  BY <1>2, <1>3
<1> QED
  BY <1>1, <1>2, <1>4, SeqEqual

\* A list without its first element.
LEMMA TailIs ==
    ASSUME NEW S, NEW n \in Nat, n > 0, NEW f \in [1..n -> S],
           NEW g \in [1..n - 1 -> S], \A i \in 1..n - 1 : g[i] = f[i + 1]
    PROVE  f # << >> /\ Head(f) = f[1] /\ g = Tail(f)
<1>1. f \in Seq(S) /\ Len(f) = n /\ g \in Seq(S) /\ Len(g) = n - 1
  BY ListOf
<1>2. f # << >>
  BY <1>1
<1>3. /\ Tail(f) \in Seq(S) /\ Len(Tail(f)) = n - 1
      /\ \A i \in 1..n - 1 : Tail(f)[i] = f[i + 1]
  BY <1>1, <1>2, HeadTailProperties
<1>4. \A i \in 1..n - 1 : g[i] = Tail(f)[i]
  BY <1>3
<1>5. g = Tail(f)
  BY <1>1, <1>3, <1>4, SeqEqual
<1>6. Head(f) = f[1]
  BY <1>1, <1>2
<1> QED
  BY <1>2, <1>5, <1>6

-----------------------------------------------------------------------------
\* What Queue shows of its list: `items' of Fifo.
QueueItems == [i \in 1..q_iSize |-> q_data[Fifos!Node[i]]]

\* The items are the objects along the way.
LEMMA WayItems ==
    ASSUME QTypeOK, NEW n, n = q_iSize, NEW p, Way(p)
    PROVE  /\ n \in Nat /\ QueueItems \in [1..n -> Objects]
           /\ \A i \in 1..n : QueueItems[i] = q_data[p[i]] /\ p[i] \in Nodes
<1>1. Fifos!Node = p /\ n \in Nat /\ p \in [1..n -> used] /\ used \subseteq Nodes
      /\ q_data \in [Nodes -> Objects]
  BY WayIsNode DEF QTypeOK, Way
<1> QED
  BY <1>1 DEF QueueItems

\* The same of the next state.
WayItemsFact ==
    \A m, q : QTypeOK /\ m = q_iSize /\ Way(q)
        => /\ m \in Nat /\ QueueItems \in [1..m -> Objects]
           /\ \A i \in 1..m : QueueItems[i] = q_data[q[i]] /\ q[i] \in Nodes

LEMMA WayItemsAlways == WayItemsFact
BY WayItems DEF WayItemsFact

LEMMA WayItemsNext ==
    ASSUME QTypeOK', NEW n, n = q_iSize', NEW p, Way(p)'
    PROVE  /\ n \in Nat /\ QueueItems' \in [1..n -> Objects]
           /\ \A i \in 1..n : QueueItems'[i] = q_data'[p[i]] /\ p[i] \in Nodes
<1>1. WayItemsFact'
  BY WayItemsAlways, PTL
<1> QED
  BY <1>1 DEF WayItemsFact

\* A new queue has no items.
LEMMA QInitAbs == Fifos!Init => QueueItems = << >> /\ out = << >>
BY DEF Fifos!Init, QueueItems

\* push() appends to the items.
LEMMA PushStep ==
    ASSUME QueueInv, NEW d \in Objects, Fifos!push(d)
    PROVE  QueueInv' /\ QueueItems' = Append(QueueItems, d) /\ out' = << >>
<1>1. QTypeOK /\ out' = << >>
  BY DEF QueueInv, Fifos!push
<1>2. PICK p : Way(p)
  BY DEF QueueInv
<1>3. PICK n : n = q_iSize
  OBVIOUS
<1>4. /\ QTypeOK' /\ q_iSize' = n + 1
      /\ \A i \in 1..n : q_data'[p[i]] = q_data[p[i]]
  BY <1>1, <1>2, <1>3, PushWay
<1>5. PICK new \in Nodes : Way(Longer(p, n, new))' /\ q_data'[new] = d
  BY <1>1, <1>2, <1>3, PushWay
<1>6. n \in Nat /\ n + 1 \in Nat /\ QueueItems \in [1..n -> Objects]
      /\ \A i \in 1..n : QueueItems[i] = q_data[p[i]]
  BY <1>1, <1>2, <1>3, WayItems
<1> DEFINE q == Longer(p, n, new)
<1>7. Way(q)' /\ q[n + 1] = new /\ \A i \in 1..n : q[i] = p[i] /\ i \in 1..n + 1
  BY <1>5, <1>6 DEF Longer
<1> HIDE DEF q
<1>8. /\ QueueItems' \in [1..n + 1 -> Objects]
      /\ \A i \in 1..n + 1 : QueueItems'[i] = q_data'[q[i]]
  BY <1>4, <1>6, <1>7, WayItemsNext
<1>9. QueueItems' = Append(QueueItems, d)
  <2>1. \A i \in 1..n : QueueItems'[i] = QueueItems[i]
    BY <1>4, <1>6, <1>7, <1>8
  <2>2. QueueItems'[n + 1] = d
    BY <1>5, <1>6, <1>7, <1>8
  <2> QED
    BY <1>6, <1>8, <2>1, <2>2, AppendIs
<1> QED
  BY <1>1, <1>4, <1>7, <1>9 DEF QueueInv

\* pop(), and the destructor, take the first item.
LEMMA TakeStep ==
    ASSUME QueueInv, Fifos!Take
    PROVE  /\ QueueInv' /\ QueueItems # << >>
           /\ out' = <<Head(QueueItems)>> /\ QueueItems' = Tail(QueueItems)
<1>1. QTypeOK
  BY DEF QueueInv
<1>2. PICK p : Way(p)
  BY DEF QueueInv
<1>3. PICK n : n = q_iSize
  OBVIOUS
<1> DEFINE q == Shorter(p, n)
<1>4. /\ QTypeOK' /\ n > 0 /\ q_iSize' = n - 1 /\ Way(q)'
      /\ q_data' = q_data /\ out' = <<q_data[p[1]]>>
  BY <1>1, <1>2, <1>3, TakeWay
<1>5. /\ n \in Nat /\ QueueItems \in [1..n -> Objects]
      /\ \A i \in 1..n : QueueItems[i] = q_data[p[i]]
      /\ \A i \in 1..n - 1 : q[i] = p[i + 1] /\ i + 1 \in 1..n
  BY <1>1, <1>2, <1>3, WayItems DEF Shorter
<1> HIDE DEF q
<1>6. /\ QueueItems' \in [1..n - 1 -> Objects]
      /\ \A i \in 1..n - 1 : QueueItems'[i] = q_data'[q[i]]
  BY <1>4, WayItemsNext
<1>7. \A i \in 1..n - 1 : QueueItems'[i] = QueueItems[i + 1]
  BY <1>4, <1>5, <1>6
<1>8. QueueItems # << >> /\ Head(QueueItems) = QueueItems[1] /\ QueueItems' = Tail(QueueItems)
  BY <1>4, <1>5, <1>6, <1>7, TailIs
<1>9. QueueItems[1] = q_data[p[1]]
  BY <1>4, <1>5
<1> QED
  BY <1>4, <1>8, <1>9 DEF QueueInv

\* Every step keeps the invariant, and is one of Fifo or leaves the items alone.
LEMMA QueueStep ==
    QueueInv /\ [Fifos!Next]_(Fifos!vars) => QueueInv' /\ [Fifos!Abstract!Next]_<<QueueItems, out>>
<1> SUFFICES ASSUME QueueInv, [Fifos!Next]_(Fifos!vars)
             PROVE  QueueInv' /\ [Fifos!Abstract!Next]_<<QueueItems, out>>
  OBVIOUS
<1>1. ASSUME NEW d \in Objects, Fifos!push(d)
      PROVE  QueueInv' /\ [Fifos!Abstract!Next]_<<QueueItems, out>>
  BY <1>1, PushStep DEF Fifos!Abstract!Next, Fifos!Abstract!Push, QueueItems
<1>2. CASE Fifos!Take
  BY <1>2, TakeStep DEF Fifos!Abstract!Next, Fifos!Abstract!Pop, QueueItems
<1>3. ASSUME UNCHANGED <<m_pFront, m_pEnd, q_iSize, next, q_data, used>>
      PROVE  QueueInv' /\ QueueItems' = QueueItems
  <2>1. QTypeOK'
    BY <1>3 DEF QueueInv, QTypeOK
  <2>2. ASSUME NEW p, Way(p) PROVE Way(p)'
    BY <1>3, <2>2 DEF Way, Fifos!empty
  <2>3. Fifos!Node' = Fifos!Node
    BY <1>3 DEF Fifos!Node
  <2> QED
    BY <1>3, <2>1, <2>2, <2>3 DEF QueueInv, QueueItems
<1>4. CASE Fifos!popEmpty
  <2>1. QueueItems = << >>
    BY <1>4 DEF Fifos!popEmpty, Fifos!empty, QueueItems
  <2> QED
    BY <1>3, <1>4, <2>1
       DEF Fifos!popEmpty, Fifos!Abstract!Next, Fifos!Abstract!PopEmpty, QueueItems
<1>5. CASE Fifos!Destroy \/ Fifos!Destroyed \/ UNCHANGED Fifos!vars
  BY <1>3, <1>5 DEF Fifos!Destroy, Fifos!Destroyed, Fifos!vars
<1> QED
  BY <1>1, <1>2, <1>4, <1>5 DEF Fifos!Next, Fifos!pop, Fifos!DestroyPops

-----------------------------------------------------------------------------
\* RecentlyFiles

\* A list with an element put at position i, and one without its i-th element.
LEMMA InsertAtIs ==
    ASSUME NEW S, NEW s \in Seq(S), NEW i \in 1..Len(s) + 1, NEW e \in S
    PROVE  /\ Recent!InsertAt(s, i, e) \in Seq(S)
           /\ Len(Recent!InsertAt(s, i, e)) = Len(s) + 1
           /\ \A j \in 1..Len(s) + 1 :
                Recent!InsertAt(s, i, e)[j] = IF j < i THEN s[j] ELSE IF j = i THEN e ELSE s[j - 1]
<1> DEFINE n == Len(s)
           a == SubSeq(s, 1, i - 1)
           b == SubSeq(s, i, n)
<1>1. n \in Nat /\ i \in Nat /\ i >= 1 /\ i <= n + 1
  OBVIOUS
<1>2. /\ a \in Seq(S) /\ Len(a) = i - 1 /\ \A j \in 1..i - 1 : a[j] = s[j]
      /\ b \in Seq(S) /\ Len(b) = n - i + 1 /\ \A j \in 1..n - i + 1 : b[j] = s[i + j - 1]
  BY <1>1
<1>3. <<e>> \in Seq(S) /\ Len(<<e>>) = 1 /\ <<e>>[1] = e
  OBVIOUS
<1>4. Recent!InsertAt(s, i, e) = (a \o <<e>>) \o b
  BY DEF Recent!InsertAt
<1> HIDE DEF a, b
<1> DEFINE c == a \o <<e>>
<1>5. /\ c \in Seq(S) /\ Len(c) = i
      /\ \A j \in 1..i : c[j] = IF j < i THEN a[j] ELSE e
  BY <1>1, <1>2, <1>3, ConcatProperties
<1> HIDE DEF c
<1> DEFINE d == c \o b
<1>6. /\ d \in Seq(S) /\ Len(d) = n + 1
      /\ \A j \in 1..n + 1 : d[j] = IF j <= i THEN c[j] ELSE b[j - i]
  <2>1. /\ d \in Seq(S) /\ Len(d) = Len(c) + Len(b)
        /\ \A j \in 1..Len(c) + Len(b) : d[j] = IF j <= Len(c) THEN c[j] ELSE b[j - Len(c)]
    BY <1>2, <1>5, ConcatProperties
  <2>2. Len(c) + Len(b) = n + 1
    BY <1>1, <1>2, <1>5
  <2> QED
    BY <1>5, <2>1, <2>2
<1> HIDE DEF d
<1>7. ASSUME NEW j \in 1..n + 1
      PROVE  d[j] = IF j < i THEN s[j] ELSE IF j = i THEN e ELSE s[j - 1]
  <2>1. CASE j < i
    BY <1>1, <1>2, <1>5, <1>6, <2>1
  <2>2. CASE j = i
    BY <1>1, <1>5, <1>6, <2>2
  <2>3. CASE j > i
    <3>1. j - i \in 1..n - i + 1 /\ i + (j - i) - 1 = j - 1
      BY <1>1, <2>3
    <3>2. j \in 1..n + 1 /\ ~(j <= i) /\ ~(j < i) /\ j # i
      BY <1>1, <2>3
    <3>3. d[j] = b[j - i]
      BY <1>6, <3>2
    <3>4. b[j - i] = s[i + (j - i) - 1]
      BY <1>2, <3>1
    <3> QED
      BY <3>1, <3>2, <3>3, <3>4
  <2> QED
    BY <1>1, <2>1, <2>2, <2>3
<1> QED
  BY <1>4, <1>6, <1>7 DEF c, d

LEMMA RemoveAtIs ==
    ASSUME NEW S, NEW s \in Seq(S), NEW i \in 1..Len(s)
    PROVE  /\ Recent!RemoveAt(s, i) \in Seq(S)
           /\ Len(Recent!RemoveAt(s, i)) = Len(s) - 1
           /\ \A j \in 1..Len(s) - 1 : Recent!RemoveAt(s, i)[j] = IF j < i THEN s[j] ELSE s[j + 1]
<1> DEFINE n == Len(s)
           a == SubSeq(s, 1, i - 1)
           b == SubSeq(s, i + 1, n)
<1>1. n \in Nat /\ i \in Nat /\ i >= 1 /\ i <= n
  OBVIOUS
<1>2. /\ a \in Seq(S) /\ Len(a) = i - 1 /\ \A j \in 1..i - 1 : a[j] = s[j]
      /\ b \in Seq(S) /\ Len(b) = n - i /\ \A j \in 1..n - i : b[j] = s[i + j]
  BY <1>1
<1>3. Recent!RemoveAt(s, i) = a \o b
  BY DEF Recent!RemoveAt
<1> HIDE DEF a, b
<1> DEFINE d == a \o b
<1>4. /\ d \in Seq(S) /\ Len(d) = n - 1
      /\ \A j \in 1..n - 1 : d[j] = IF j <= i - 1 THEN a[j] ELSE b[j - (i - 1)]
  <2>1. /\ d \in Seq(S) /\ Len(d) = Len(a) + Len(b)
        /\ \A j \in 1..Len(a) + Len(b) : d[j] = IF j <= Len(a) THEN a[j] ELSE b[j - Len(a)]
    BY <1>2, ConcatProperties
  <2>2. Len(a) + Len(b) = n - 1
    BY <1>1, <1>2
  <2> QED
    BY <1>2, <2>1, <2>2
<1> HIDE DEF d
<1>5. ASSUME NEW j \in 1..n - 1
      PROVE  d[j] = IF j < i THEN s[j] ELSE s[j + 1]
  <2>1. CASE j < i
    BY <1>1, <1>2, <1>4, <2>1
  <2>2. CASE j >= i
    <3>1. j - (i - 1) \in 1..n - i /\ i + (j - (i - 1)) = j + 1
      BY <1>1, <2>2
    <3> QED
      BY <1>1, <1>2, <1>4, <2>2, <3>1
  <2> QED
    BY <1>1, <2>1, <2>2
<1> QED
  BY <1>3, <1>4, <1>5 DEF d

-----------------------------------------------------------------------------
\* The Time objects that m_aTimes may hold, and lists of them.
TimeObjects == [file : Files, time : Times, own : BOOLEAN]

InOrder(s) == \A i, j \in 1..Len(s) : i < j => s[i].time <= s[j].time

\* e is the only object in s for its file; s has no object for f.
Only(s, e) == \E i \in 1..Len(s) : s[i] = e /\ \A j \in 1..Len(s) : s[j].file = e.file => j = i

NoneOf(s, f) == \A j \in 1..Len(s) : s[j].file # f

LEMMA ObjectFields ==
    ASSUME NEW s \in Seq(TimeObjects)
    PROVE  /\ Len(s) \in Nat /\ DOMAIN s = 1..Len(s)
           /\ \A i \in 1..Len(s) : /\ s[i] \in TimeObjects
                                   /\ s[i].file \in Files /\ s[i].time \in Nat
<1>1. Len(s) \in Nat /\ DOMAIN s = 1..Len(s) /\ \A i \in 1..Len(s) : s[i] \in TimeObjects
  OBVIOUS
<1>2. \A e \in TimeObjects : e.file \in Files /\ e.time \in Nat
  BY ContainersAssumption DEF TimeObjects
<1> QED
  BY <1>1, <1>2

LEMMA NewTime ==
    ASSUME NEW file, NEW time, NEW own, NEW new
    PROVE  [[file |-> file, time |-> time, own |-> own] EXCEPT !.time = new]
             = [file |-> file, time |-> new, own |-> own]
OBVIOUS

\* An object put where its time fits.
LEMMA InsertedObject ==
    ASSUME NEW s \in Seq(TimeObjects), NEW e \in TimeObjects, NEW r \in Recent!Inserted(s, e)
    PROVE  /\ r \in Seq(TimeObjects)
           /\ InOrder(s) => InOrder(r)
           /\ \A d : d.file # e.file /\ Only(s, d) => Only(r, d)
           /\ \A f : f # e.file /\ NoneOf(s, f) => NoneOf(r, f)
           /\ NoneOf(s, e.file) => Only(r, e)
<1> DEFINE n == Len(s)
<1>1. n \in Nat /\ \A j \in 1..n : s[j].time \in Nat
  BY ObjectFields
<1>2. PICK i \in 1..n + 1 :
        /\ r = Recent!InsertAt(s, i, e)
        /\ i > 1 => s[i - 1].time <= e.time
        /\ i <= n => e.time <= s[i].time
  BY DEF Recent!Inserted
<1>3. i \in 1..Len(s) + 1
  BY <1>2
<1>4. /\ r \in Seq(TimeObjects) /\ Len(r) = n + 1
      /\ \A j \in 1..n + 1 : r[j] = IF j < i THEN s[j] ELSE IF j = i THEN e ELSE s[j - 1]
  <2> HIDE DEF n
  <2>1. /\ Recent!InsertAt(s, i, e) \in Seq(TimeObjects)
        /\ Len(Recent!InsertAt(s, i, e)) = Len(s) + 1
        /\ \A j \in 1..Len(s) + 1 : Recent!InsertAt(s, i, e)[j] =
             IF j < i THEN s[j] ELSE IF j = i THEN e ELSE s[j - 1]
    BY <1>3, InsertAtIs
  <2> QED
    BY <1>2, <2>1 DEF n
<1>5. e.time \in Nat
  BY ContainersAssumption DEF TimeObjects
<1> HIDE DEF n
<1>6. /\ r[i] = e
      /\ \A j \in 1..n : j < i => j \in 1..n + 1 /\ r[j] = s[j]
      /\ \A j \in 1..n : ~(j < i) => j + 1 \in 1..n + 1 /\ j + 1 # i /\ r[j + 1] = s[j]
      /\ \A j \in 1..n + 1 : j < i => j \in 1..n /\ r[j] = s[j]
      /\ \A j \in 1..n + 1 : j > i => j - 1 \in 1..n /\ ~(j - 1 < i) /\ r[j] = s[j - 1]
  BY <1>1, <1>2, <1>4
<1>7. ASSUME InOrder(s) PROVE InOrder(r)
  <2>1. \A j, x \in 1..n : j < x => s[j].time <= s[x].time
    BY <1>7 DEF InOrder, n
  <2>2. \A m \in 1..n : m < i => s[m].time <= e.time
    <3> SUFFICES ASSUME NEW m \in 1..n, m < i PROVE s[m].time <= e.time
      OBVIOUS
    <3>1. i - 1 \in 1..n /\ i > 1 /\ (m = i - 1 \/ m < i - 1)
      BY <1>1, <1>2
    <3>2. s[m].time <= s[i - 1].time
      BY <1>1, <2>1, <3>1
    <3>3. s[m].time \in Nat /\ s[i - 1].time \in Nat /\ s[i - 1].time <= e.time
      BY <1>1, <1>2, <3>1
    <3> QED
      BY <1>5, <3>2, <3>3
  <2>3. \A m \in 1..n : ~(m < i) => e.time <= s[m].time
    <3> SUFFICES ASSUME NEW m \in 1..n, ~(m < i) PROVE e.time <= s[m].time
      OBVIOUS
    <3>1. i \in 1..n /\ i <= n /\ (m = i \/ i < m)
      BY <1>1, <1>2
    <3>2. s[i].time <= s[m].time
      BY <1>1, <2>1, <3>1
    <3>3. s[m].time \in Nat /\ s[i].time \in Nat /\ e.time <= s[i].time
      BY <1>1, <1>2, <3>1
    <3> QED
      BY <1>5, <3>2, <3>3
  <2> SUFFICES ASSUME NEW j \in 1..n + 1, NEW x \in 1..n + 1, j < x
               PROVE  r[j].time <= r[x].time
    BY <1>4 DEF InOrder
  <2>4. CASE j = i
    BY <1>1, <1>2, <1>6, <2>3, <2>4
  <2>5. CASE x = i
    BY <1>1, <1>2, <1>6, <2>2, <2>5
  <2>6. CASE x < i
    BY <1>1, <1>2, <1>6, <2>1, <2>6
  <2>7. CASE j < i /\ x > i
    <3>1. /\ j \in 1..n /\ r[j] = s[j] /\ s[j].time <= e.time
          /\ x - 1 \in 1..n /\ r[x] = s[x - 1] /\ e.time <= s[x - 1].time
      BY <1>6, <2>2, <2>3, <2>7
    <3> QED
      BY <1>1, <1>5, <3>1
  <2>8. CASE j > i
    <3>1. /\ j - 1 \in 1..n /\ r[j] = s[j - 1]
          /\ x - 1 \in 1..n /\ r[x] = s[x - 1] /\ j - 1 < x - 1
      BY <1>1, <1>2, <1>6, <2>8
    <3> QED
      BY <2>1, <3>1
  <2> QED
    BY <1>1, <1>2, <2>4, <2>5, <2>6, <2>7, <2>8
<1>8. ASSUME NEW d, d.file # e.file, Only(s, d) PROVE Only(r, d)
  <2>1. PICK p \in 1..n : s[p] = d /\ \A j \in 1..n : s[j].file = d.file => j = p
    BY <1>8 DEF Only, n
  <2>2. PICK q \in 1..n + 1 : /\ r[q] = d
                              /\ p < i => q = p
                              /\ ~(p < i) => q = p + 1
    <3>1. CASE p < i
      BY <1>6, <2>1, <3>1
    <3>2. CASE ~(p < i)
      BY <1>6, <2>1, <3>2
    <3> QED
      BY <3>1, <3>2
  <2>3. ASSUME NEW j \in 1..n + 1, r[j].file = d.file PROVE j = q
    <3>1. CASE j < i
      BY <1>6, <2>1, <2>2, <2>3, <3>1
    <3>2. CASE j = i
      BY <1>6, <1>8, <2>3, <3>2
    <3>3. CASE j > i
      <4>1. j - 1 \in 1..n /\ ~(j - 1 < i) /\ s[j - 1].file = d.file
        BY <1>6, <2>3, <3>3
      <4>2. j - 1 = p /\ q = p + 1
        BY <2>1, <2>2, <4>1
      <4> QED
        BY <1>1, <4>2
    <3> QED
      BY <1>1, <1>2, <3>1, <3>2, <3>3
  <2> QED
    BY <1>4, <2>2, <2>3 DEF Only
<1>9. ASSUME NEW f, f # e.file, NoneOf(s, f) PROVE NoneOf(r, f)
  <2>1. \A j \in 1..n : s[j].file # f
    BY <1>9 DEF NoneOf, n
  <2> SUFFICES ASSUME NEW j \in 1..n + 1 PROVE r[j].file # f
    BY <1>4 DEF NoneOf
  <2>2. CASE j < i
    BY <1>6, <2>1, <2>2
  <2>3. CASE j = i
    BY <1>6, <1>9, <2>3
  <2>4. CASE j > i
    BY <1>6, <2>1, <2>4
  <2> QED
    BY <1>1, <1>2, <2>2, <2>3, <2>4
<1>10. ASSUME NoneOf(s, e.file) PROVE Only(r, e)
  <2>1. \A j \in 1..n : s[j].file # e.file
    BY <1>10 DEF NoneOf, n
  <2>2. ASSUME NEW j \in 1..n + 1, r[j].file = e.file PROVE j = i
    <3>1. ~(j < i)
      BY <1>6, <2>1, <2>2
    <3>2. ~(j > i)
      BY <1>6, <2>1, <2>2
    <3> QED
      BY <1>1, <1>2, <3>1, <3>2
  <2> QED
    BY <1>2, <1>4, <1>6, <2>2 DEF Only
<1> QED
  BY <1>4, <1>7, <1>8, <1>9, <1>10

\* A list without one of its objects.
LEMMA RemovedObject ==
    ASSUME NEW s \in Seq(TimeObjects), NEW x \in 1..Len(s)
    PROVE  /\ Recent!RemoveAt(s, x) \in Seq(TimeObjects)
           /\ InOrder(s) => InOrder(Recent!RemoveAt(s, x))
           /\ \A d : d.file # s[x].file /\ Only(s, d) => Only(Recent!RemoveAt(s, x), d)
           /\ \A f : NoneOf(s, f) => NoneOf(Recent!RemoveAt(s, x), f)
           /\ Only(s, s[x]) => NoneOf(Recent!RemoveAt(s, x), s[x].file)
<1> DEFINE n == Len(s)
           r == Recent!RemoveAt(s, x)
<1>1. n \in Nat /\ x \in 1..n /\ \A j \in 1..n : s[j].time \in Nat
  BY ObjectFields
<1>2. /\ r \in Seq(TimeObjects) /\ Len(r) = n - 1
      /\ \A j \in 1..n - 1 : r[j] = IF j < x THEN s[j] ELSE s[j + 1]
  BY RemoveAtIs
<1> HIDE DEF n, r
<1>3. /\ \A j \in 1..n - 1 : j < x => j \in 1..n /\ r[j] = s[j]
      /\ \A j \in 1..n - 1 : ~(j < x) => j + 1 \in 1..n /\ j + 1 > x /\ r[j] = s[j + 1]
      /\ \A j \in 1..n : j < x => j \in 1..n - 1 /\ r[j] = s[j]
      /\ \A j \in 1..n : j > x => j - 1 \in 1..n - 1 /\ ~(j - 1 < x) /\ r[j - 1] = s[j]
  BY <1>1, <1>2
<1>4. ASSUME InOrder(s) PROVE InOrder(r)
  <2>1. \A j, m \in 1..n : j < m => s[j].time <= s[m].time
    BY <1>4 DEF InOrder, n
  <2> SUFFICES ASSUME NEW j \in 1..n - 1, NEW m \in 1..n - 1, j < m
               PROVE  r[j].time <= r[m].time
    BY <1>2 DEF InOrder
  <2>2. CASE m < x
    BY <1>1, <1>3, <2>1, <2>2
  <2>3. CASE j < x /\ ~(m < x)
    <3>1. j \in 1..n /\ m + 1 \in 1..n /\ j < m + 1 /\ r[j] = s[j] /\ r[m] = s[m + 1]
      BY <1>1, <1>3, <2>3
    <3> QED
      BY <2>1, <3>1
  <2>4. CASE ~(j < x)
    <3>1. j + 1 \in 1..n /\ m + 1 \in 1..n /\ j + 1 < m + 1 /\ r[j] = s[j + 1] /\ r[m] = s[m + 1]
      BY <1>1, <1>3, <2>4
    <3> QED
      BY <2>1, <3>1
  <2> QED
    BY <1>1, <2>2, <2>3, <2>4
<1>5. ASSUME NEW d, d.file # s[x].file, Only(s, d) PROVE Only(r, d)
  <2>1. PICK p \in 1..n : s[p] = d /\ \A j \in 1..n : s[j].file = d.file => j = p
    BY <1>5 DEF Only, n
  <2>2. p < x \/ p > x
    BY <1>1, <1>5, <2>1
  <2>3. CASE p < x
    <3>1. p \in 1..n - 1 /\ r[p] = d
      BY <1>3, <2>1, <2>3
    <3>2. ASSUME NEW j \in 1..n - 1, r[j].file = d.file PROVE j = p
      <4>1. CASE j < x
        BY <1>3, <2>1, <3>2, <4>1
      <4>2. CASE ~(j < x)
        <5>1. j + 1 \in 1..n /\ j + 1 > x /\ j + 1 = p
          BY <1>3, <2>1, <3>2, <4>2
        <5> QED
          BY <1>1, <2>3, <5>1
      <4> QED
        BY <4>1, <4>2
    <3> QED
      BY <1>2, <3>1, <3>2 DEF Only
  <2>4. CASE p > x
    <3>1. p - 1 \in 1..n - 1 /\ r[p - 1] = d
      BY <1>3, <2>1, <2>4
    <3>2. ASSUME NEW j \in 1..n - 1, r[j].file = d.file PROVE j = p - 1
      <4>1. CASE j < x
        <5>1. j \in 1..n /\ j = p
          BY <1>3, <2>1, <3>2, <4>1
        <5> QED
          BY <1>1, <2>4, <4>1, <5>1
      <4>2. CASE ~(j < x)
        <5>1. j + 1 \in 1..n /\ j + 1 = p
          BY <1>3, <2>1, <3>2, <4>2
        <5> QED
          BY <1>1, <5>1
      <4> QED
        BY <4>1, <4>2
    <3> QED
      BY <1>2, <3>1, <3>2 DEF Only
  <2> QED
    BY <2>2, <2>3, <2>4
<1>6. ASSUME NEW f, NoneOf(s, f) PROVE NoneOf(r, f)
  <2>1. \A j \in 1..n : s[j].file # f
    BY <1>6 DEF NoneOf, n
  <2> SUFFICES ASSUME NEW j \in 1..n - 1 PROVE r[j].file # f
    BY <1>2 DEF NoneOf
  <2> QED
    BY <1>3, <2>1
<1>7. ASSUME Only(s, s[x]) PROVE NoneOf(r, s[x].file)
  <2>1. PICK p \in 1..n : s[p] = s[x] /\ \A j \in 1..n : s[j].file = s[x].file => j = p
    BY <1>7 DEF Only, n
  <2>2. p = x
    BY <1>1, <2>1
  <2> SUFFICES ASSUME NEW j \in 1..n - 1, r[j].file = s[x].file PROVE FALSE
    BY <1>2 DEF NoneOf
  <2>3. CASE j < x
    BY <1>1, <1>3, <2>1, <2>2, <2>3
  <2>4. CASE ~(j < x)
    <3>1. j + 1 \in 1..n /\ j + 1 > x /\ j + 1 = p
      BY <1>3, <2>1, <2>4
    <3> QED
      BY <1>1, <2>2, <3>1
  <2> QED
    BY <2>3, <2>4
<1> QED
  BY <1>2, <1>4, <1>5, <1>6, <1>7 DEF r

\* A list whose objects for the files in gone have lost their names.
LEMMA DisownedObjects ==
    ASSUME NEW s \in Seq(TimeObjects), NEW gone
    PROVE  /\ Recent!Disowned(s, gone) \in Seq(TimeObjects)
           /\ InOrder(s) => InOrder(Recent!Disowned(s, gone))
           /\ \A d : d.file \notin gone /\ Only(s, d) => Only(Recent!Disowned(s, gone), d)
           /\ \A f : NoneOf(s, f) => NoneOf(Recent!Disowned(s, gone), f)
<1> DEFINE n == Len(s)
           r == Recent!Disowned(s, gone)
<1>1. n \in Nat /\ DOMAIN s = 1..n /\ \A i \in 1..n : s[i] \in TimeObjects
  BY ObjectFields
<1>2. r = [i \in 1..n |-> [s[i] EXCEPT !.own = s[i].own /\ s[i].file \notin gone]]
  BY <1>1 DEF Recent!Disowned
<1>3. ASSUME NEW i \in 1..n
      PROVE  /\ r[i] \in TimeObjects /\ r[i].file = s[i].file /\ r[i].time = s[i].time
             /\ s[i].file \notin gone => r[i] = s[i]
  <2>1. s[i] \in TimeObjects /\ r[i] = [s[i] EXCEPT !.own = s[i].own /\ s[i].file \notin gone]
    BY <1>1, <1>2
  <2> HIDE DEF r
  <2>2. PICK own \in BOOLEAN : own = (s[i].own /\ s[i].file \notin gone)
    OBVIOUS
  <2>3. r[i] = [s[i] EXCEPT !.own = own]
    BY <2>1, <2>2
  <2>4. r[i] \in TimeObjects /\ r[i].file = s[i].file /\ r[i].time = s[i].time
    BY <2>1, <2>3 DEF TimeObjects
  <2>5. s[i].file \notin gone => own = s[i].own
    BY <2>1, <2>2 DEF TimeObjects
  <2>6. s[i].file \notin gone => r[i] = s[i]
    BY <2>1, <2>3, <2>5 DEF TimeObjects
  <2> QED
    BY <2>4, <2>6
<1>4. r \in [1..n -> TimeObjects]
  <2>1. DOMAIN r = 1..n /\ r = [i \in 1..n |-> r[i]]
    BY <1>2
  <2> HIDE DEF r
  <2> QED
    BY <1>3, <2>1
<1>5. r \in Seq(TimeObjects) /\ Len(r) = n
  <2> HIDE DEF r, n
  <2> QED
    BY <1>1, <1>4
<1> HIDE DEF n, r
<1>6. InOrder(s) => InOrder(r)
  BY <1>3, <1>5 DEF InOrder, n
<1>7. \A d : d.file \notin gone /\ Only(s, d) => Only(r, d)
  <2> SUFFICES ASSUME NEW d, d.file \notin gone, Only(s, d) PROVE Only(r, d)
    OBVIOUS
  <2>1. PICK p \in 1..n : s[p] = d /\ \A j \in 1..n : s[j].file = d.file => j = p
    BY DEF Only, n
  <2>2. r[p] = d /\ \A j \in 1..n : r[j].file = d.file => j = p
    BY <1>3, <2>1
  <2> QED
    BY <1>5, <2>2 DEF Only
<1>8. \A f : NoneOf(s, f) => NoneOf(r, f)
  BY <1>3, <1>5 DEF NoneOf, n
<1> QED
  BY <1>5, <1>6, <1>7, <1>8 DEF r

-----------------------------------------------------------------------------
\* The inductive invariant: m_aTimes lists the objects of the files that no undo has
\* torn apart, and is in the order of all the times it holds.
RecentInv ==
    /\ Recent!Names \subseteq Files /\ m_aNames \in [Recent!Names -> Times]
    /\ m_aTimes \in Seq(TimeObjects)
    /\ InOrder(m_aTimes)
    /\ \A f \in Files \ torn :
         /\ f \in Recent!Names => Only(m_aTimes, Recent!Time(f, m_aNames[f]))
         /\ f \notin Recent!Names => NoneOf(m_aTimes, f)
    /\ Recent!AlwaysFound

\* A file that is whole is found wherever the search begins.
LEMMA FileFound ==
    ASSUME RecentInv, NEW f \in Recent!Names, NEW i \in Recent!Index(m_aNames[f])
    PROVE  /\ i # -1 /\ Recent!Find(i, f, m_aNames[f]) # -1
                => /\ Recent!Find(i, f, m_aNames[f]) + 1 \in 1..Len(m_aTimes)
                   /\ m_aTimes[Recent!Find(i, f, m_aNames[f]) + 1].file = f
           /\ f \notin torn => i # -1 /\ Recent!Find(i, f, m_aNames[f]) # -1
<1> DEFINE n == Len(m_aTimes)
           t == m_aNames[f]
           down == {x \in 0..i : Recent!Matches(x, f, t)}
           above == {x \in i + 1..n - 1 : Recent!Matches(x, f, t)}
           x == Recent!Find(i, f, t)
<1>1. n \in Nat /\ f \in Files
  BY DEF RecentInv
<1>2. i = -1 \/ i \in 0..n - 1
  BY DEF Recent!Index
<1>3. x = IF down # {} THEN CHOOSE y \in down : \A j \in down : j <= y
          ELSE IF above # {} THEN CHOOSE y \in above : \A j \in above : y <= j
          ELSE -1
  BY DEF Recent!Find
<1>4. \A y \in down \cup above : y \in 0..n - 1 /\ Recent!Matches(y, f, t)
  BY <1>1, <1>2
<1>5. f \notin torn => \E p \in 1..n : m_aTimes[p].file = f /\ m_aTimes[p].time = t
  <2> SUFFICES ASSUME f \notin torn
               PROVE  \E p \in 1..n : m_aTimes[p].file = f /\ m_aTimes[p].time = t
    OBVIOUS
  <2>1. Only(m_aTimes, Recent!Time(f, t))
    BY <1>1 DEF RecentInv
  <2>2. Recent!Time(f, t).file = f /\ Recent!Time(f, t).time = t
    BY DEF Recent!Time
  <2> QED
    BY <2>1, <2>2 DEF Only
<1>6. f \notin torn => i # -1 /\ \E y \in 0..n - 1 : Recent!Matches(y, f, t)
  <2> SUFFICES ASSUME f \notin torn PROVE i # -1 /\ \E y \in 0..n - 1 : Recent!Matches(y, f, t)
    OBVIOUS
  <2>1. PICK p \in 1..n : m_aTimes[p].file = f /\ m_aTimes[p].time = t
    BY <1>5
  <2>2. p - 1 \in 0..n - 1 /\ p - 1 + 1 = p
    BY <1>1
  <2>3. Recent!Matches(p - 1, f, t)
    BY <2>1, <2>2 DEF Recent!Matches
  <2>4. i # -1
    <3> DEFINE hits == {k1 \in 0..n - 1 : m_aTimes[k1 + 1].time = t}
    <3>1. hits # {} /\ -1 \notin hits
      <4>1. m_aTimes[p - 1 + 1].time = t
        BY <2>1, <2>2
      <4>2. p - 1 \in hits
        BY <2>2, <4>1
      <4>3. \A h \in hits : h >= 0
        BY <1>1
      <4> HIDE DEF hits
      <4> QED
        BY <4>2, <4>3
    <3>2. i \in IF hits = {} THEN {-1} ELSE hits
      BY DEF Recent!Index
    <3> HIDE DEF hits
    <3> QED
      BY <3>1, <3>2
  <2> QED
    BY <2>2, <2>3, <2>4
<1>7. f \notin torn => down \cup above # {}
  BY <1>1, <1>2, <1>6
<1>8. down # {} => x \in down
  <2>1. down \subseteq 0..n - 1
    BY <1>4
  <2>2. down # {} => \E y \in down : \A j \in down : j <= y
    <3>1. n - 1 \in Int
      BY <1>1
    <3> HIDE DEF down, n
    <3> QED
      BY <2>1, <3>1, GreatestOf
  <2> HIDE DEF down
  <2> QED
    BY <1>3, <2>2
<1>9. down = {} /\ above # {} => x \in above
  <2>1. above \subseteq Nat
    BY <1>4
  <2>2. above # {} => \E y \in above : \A j \in above : y <= j
    <3> HIDE DEF above
    <3> QED
      BY <2>1, LeastOf
  <2> HIDE DEF down, above
  <2> QED
    BY <1>3, <2>2
<1>10. down = {} /\ above = {} => x = -1
  BY <1>3
<1> HIDE DEF down, above, x
<1>11. x # -1 => x \in 0..n - 1 /\ Recent!Matches(x, f, t)
  BY <1>4, <1>8, <1>9, <1>10
<1>12. x # -1 => x + 1 \in 1..n /\ m_aTimes[x + 1].file = f
  BY <1>1, <1>11 DEF Recent!Matches
<1>13. f \notin torn => i # -1 /\ x # -1
  BY <1>4, <1>6, <1>7, <1>8, <1>9
<1> QED
  BY <1>12, <1>13 DEF x

\* Two empty arrays.
LEMMA RecentInit == Recent!Init => RecentInv
<1> SUFFICES ASSUME Recent!Init PROVE RecentInv
  OBVIOUS
<1>1. /\ m_aNames = <<>> /\ m_aTimes = <<>> /\ Recent!Names = {}
      /\ torn = {} /\ missed = NoFile /\ Len(m_aTimes) = 0
  BY DEF Recent!Init, Recent!Names
<1>2. m_aNames \in [{} -> Times] /\ m_aTimes \in Seq(TimeObjects)
  BY <1>1
<1> QED
  BY <1>1, <1>2 DEF RecentInv, InOrder, NoneOf, Recent!AlwaysFound

\* A new file is put where its time belongs.
LEMMA AddNewStep ==
    ASSUME RecentInv, NEW f \in Files, NEW t \in Times, Recent!AddNew(f, t)
    PROVE  RecentInv'
<1> DEFINE e == Recent!Time(f, t)
<1>1. /\ f \notin Recent!Names /\ missed' = NoFile /\ torn' = torn
      /\ m_aNames' = Recent!Named(Recent!Names \cup {f}, t)
      /\ m_aTimes' \in Recent!Inserted(m_aTimes, e)
      /\ m_aTimes \in Seq(TimeObjects) /\ InOrder(m_aTimes)
      /\ Recent!Names \subseteq Files /\ m_aNames \in [Recent!Names -> Times]
  BY DEF Recent!AddNew, RecentInv
<1>2. e \in TimeObjects /\ e.file = f
  BY DEF TimeObjects, Recent!Time
<1>3. /\ Recent!Names' = Recent!Names \cup {f} /\ m_aNames' \in [Recent!Names' -> Times]
      /\ m_aNames'[f] = t /\ \A g \in Recent!Names : m_aNames'[g] = m_aNames[g]
  BY <1>1 DEF Recent!Named, Recent!Names
<1>4. \A g \in Files : Recent!Time(g, m_aNames[g]).file = g
  BY DEF Recent!Time
<1> HIDE DEF e
<1>5. /\ m_aTimes' \in Seq(TimeObjects) /\ InOrder(m_aTimes')
      /\ \A d : d.file # f /\ Only(m_aTimes, d) => Only(m_aTimes', d)
      /\ \A g : g # f /\ NoneOf(m_aTimes, g) => NoneOf(m_aTimes', g)
      /\ NoneOf(m_aTimes, f) => Only(m_aTimes', e)
  BY <1>1, <1>2, InsertedObject
<1>6. ASSUME NEW g \in Files \ torn
      PROVE  /\ g \in Recent!Names' => Only(m_aTimes', Recent!Time(g, m_aNames'[g]))
             /\ g \notin Recent!Names' => NoneOf(m_aTimes', g)
  <2>1. /\ g \in Recent!Names => Only(m_aTimes, Recent!Time(g, m_aNames[g]))
        /\ g \notin Recent!Names => NoneOf(m_aTimes, g)
    BY DEF RecentInv
  <2>2. CASE g = f
    BY <1>1, <1>3, <1>5, <2>1, <2>2 DEF e
  <2>3. CASE g # f
    BY <1>3, <1>4, <1>5, <2>1, <2>3
  <2> QED
    BY <2>2, <2>3
<1> QED
  BY <1>1, <1>3, <1>5, <1>6 DEF RecentInv, Recent!AlwaysFound

\* An add() that finds no memory tears at most the new file and the one it removes.
LEMMA AddUndoneStep ==
    ASSUME RecentInv, NEW f \in Files, NEW t \in Times,
           NEW gone \in SUBSET (Recent!Names \cup {f}), Recent!AddUndone(f, t, gone)
    PROVE  RecentInv'
<1>1. /\ f \notin Recent!Names /\ missed' = NoFile
      /\ m_aNames' = Recent!Named((Recent!Names \cup {f}) \ gone, t)
      /\ m_aTimes' = Recent!Disowned(m_aTimes, gone)
      /\ torn' = IF gone = {f} THEN torn ELSE torn \cup gone \cup {f}
      /\ m_aTimes \in Seq(TimeObjects) /\ InOrder(m_aTimes)
      /\ Recent!Names \subseteq Files /\ m_aNames \in [Recent!Names -> Times]
  BY DEF Recent!AddUndone, RecentInv
<1>2. /\ Recent!Names' = (Recent!Names \cup {f}) \ gone /\ m_aNames' \in [Recent!Names' -> Times]
      /\ \A g \in Recent!Names \ gone : m_aNames'[g] = m_aNames[g]
  BY <1>1 DEF Recent!Named, Recent!Names
<1>3. /\ m_aTimes' \in Seq(TimeObjects) /\ InOrder(m_aTimes')
      /\ \A d : d.file \notin gone /\ Only(m_aTimes, d) => Only(m_aTimes', d)
      /\ \A g : NoneOf(m_aTimes, g) => NoneOf(m_aTimes', g)
  BY <1>1, DisownedObjects
<1>4. \A g \in Files : Recent!Time(g, m_aNames[g]).file = g
  BY DEF Recent!Time
<1>5. ASSUME NEW g \in Files \ torn'
      PROVE  /\ g \in Recent!Names' => Only(m_aTimes', Recent!Time(g, m_aNames'[g]))
             /\ g \notin Recent!Names' => NoneOf(m_aTimes', g)
  <2>1. /\ g \in Recent!Names => Only(m_aTimes, Recent!Time(g, m_aNames[g]))
        /\ g \notin Recent!Names => NoneOf(m_aTimes, g)
        /\ g \notin torn
    BY <1>1 DEF RecentInv
  <2>2. CASE g \in Recent!Names
    <3>1. g \notin gone /\ g # f
      BY <1>1, <1>5, <2>2
    <3> QED
      BY <1>2, <1>3, <1>4, <2>1, <2>2, <3>1
  <2>3. CASE g \notin Recent!Names
    <3>1. g \notin Recent!Names'
      BY <1>1, <1>2, <1>5, <2>3
    <3> QED
      BY <1>3, <2>1, <2>3, <3>1
  <2> QED
    BY <2>2, <2>3
<1> QED
  BY <1>1, <1>2, <1>3, <1>5 DEF RecentInv, Recent!AlwaysFound

\* A listed file is taken out and put back where its new time belongs.
LEMMA AddOldStep ==
    ASSUME RecentInv, NEW f \in Files, NEW t \in Times, Recent!AddOld(f, t)
    PROVE  RecentInv'
<1>1. /\ f \in Recent!Names /\ torn' = torn
      /\ m_aTimes \in Seq(TimeObjects) /\ InOrder(m_aTimes)
      /\ Recent!Names \subseteq Files /\ m_aNames \in [Recent!Names -> Times]
  BY DEF Recent!AddOld, RecentInv
<1>2. PICK i \in Recent!Index(m_aNames[f]) :
        LET x == Recent!Find(i, f, m_aNames[f])
            moved == m_aTimes[x + 1]
        IN IF i = -1 \/ x = -1
           THEN missed' = f /\ UNCHANGED <<m_aNames, m_aTimes>>
           ELSE /\ m_aNames' = IF moved.own THEN [m_aNames EXCEPT ![f] = t] ELSE m_aNames
                /\ m_aTimes' \in Recent!Inserted(Recent!RemoveAt(m_aTimes, x + 1),
                                                 [moved EXCEPT !.time = t])
                /\ missed' = NoFile
  BY DEF Recent!AddOld
<1>3. PICK x : x = Recent!Find(i, f, m_aNames[f])
  OBVIOUS
<1>4. CASE i = -1 \/ x = -1
  <2>1. missed' = f /\ UNCHANGED <<m_aNames, m_aTimes>> /\ f \in torn
    BY <1>1, <1>2, <1>3, <1>4, FileFound
  <2> QED
    BY <1>1, <2>1 DEF RecentInv, Recent!Names, Recent!AlwaysFound
<1>5. CASE i # -1 /\ x # -1
  <2> DEFINE moved == m_aTimes[x + 1]
             e == [moved EXCEPT !.time = t]
             r == Recent!RemoveAt(m_aTimes, x + 1)
  <2>1. /\ m_aNames' = IF moved.own THEN [m_aNames EXCEPT ![f] = t] ELSE m_aNames
        /\ m_aTimes' \in Recent!Inserted(r, e)
        /\ missed' = NoFile
    BY <1>2, <1>3, <1>5
  <2>2. x + 1 \in 1..Len(m_aTimes) /\ moved.file = f /\ moved \in TimeObjects
    BY <1>1, <1>3, <1>5, FileFound, ObjectFields
  <2>3. e \in TimeObjects /\ e.file = f /\ e.own = moved.own /\ e.time = t
    BY <2>2 DEF TimeObjects
  <2>4. /\ Recent!Names' = Recent!Names /\ m_aNames' \in [Recent!Names' -> Times]
        /\ moved.own => m_aNames'[f] = t
        /\ \A g \in Recent!Names \ {f} : m_aNames'[g] = m_aNames[g]
    BY <1>1, <2>1 DEF Recent!Names
  <2>5. /\ r \in Seq(TimeObjects) /\ InOrder(r)
        /\ \A d : d.file # f /\ Only(m_aTimes, d) => Only(r, d)
        /\ \A g : NoneOf(m_aTimes, g) => NoneOf(r, g)
        /\ Only(m_aTimes, moved) => NoneOf(r, f)
    BY <1>1, <2>2, RemovedObject
  <2> HIDE DEF moved, e, r
  <2>6. /\ m_aTimes' \in Seq(TimeObjects) /\ InOrder(m_aTimes')
        /\ \A d : d.file # f /\ Only(r, d) => Only(m_aTimes', d)
        /\ \A g : g # f /\ NoneOf(r, g) => NoneOf(m_aTimes', g)
        /\ NoneOf(r, f) => Only(m_aTimes', e)
    BY <2>1, <2>3, <2>5, InsertedObject
  <2>7. \A g \in Files : Recent!Time(g, m_aNames[g]).file = g
    BY DEF Recent!Time
  <2>8. f \notin torn => moved = Recent!Time(f, m_aNames[f]) /\ Only(m_aTimes, moved)
    <3> SUFFICES ASSUME f \notin torn
                 PROVE  moved = Recent!Time(f, m_aNames[f]) /\ Only(m_aTimes, moved)
      OBVIOUS
    <3>1. Only(m_aTimes, Recent!Time(f, m_aNames[f]))
      BY <1>1 DEF RecentInv
    <3>2. moved = Recent!Time(f, m_aNames[f])
      BY <2>2, <2>7, <3>1 DEF Only, moved
    <3> QED
      BY <3>1, <3>2
  <2>9. f \notin torn => e = Recent!Time(f, m_aNames'[f]) /\ Only(m_aTimes', e)
    <3> SUFFICES ASSUME f \notin torn PROVE e = Recent!Time(f, m_aNames'[f]) /\ Only(m_aTimes', e)
      OBVIOUS
    <3>1. moved.own = TRUE /\ moved.own
      BY <2>8 DEF Recent!Time
    <3>2. m_aNames'[f] = t
      BY <2>4, <3>1
    <3>3. e = Recent!Time(f, t)
      <4> DEFINE old == Recent!Time(f, m_aNames[f])
      <4>1. moved = old
        BY <2>8
      <4>2. e = [old EXCEPT !.time = t]
        BY <4>1 DEF e
      <4>3. [old EXCEPT !.time = t] = Recent!Time(f, t)
        BY NewTime DEF Recent!Time
      <4> QED
        BY <4>2, <4>3
    <3>4. Only(m_aTimes', e)
      BY <2>5, <2>6, <2>8
    <3> QED
      BY <3>2, <3>3, <3>4
  <2>10. ASSUME NEW g \in Files \ torn
         PROVE  /\ g \in Recent!Names' => Only(m_aTimes', Recent!Time(g, m_aNames'[g]))
                /\ g \notin Recent!Names' => NoneOf(m_aTimes', g)
    <3>1. /\ g \in Recent!Names => Only(m_aTimes, Recent!Time(g, m_aNames[g]))
          /\ g \notin Recent!Names => NoneOf(m_aTimes, g)
      BY DEF RecentInv
    <3>2. CASE g = f
      BY <1>1, <2>4, <2>9, <3>2
    <3>3. CASE g # f
      BY <2>4, <2>5, <2>6, <2>7, <3>1, <3>3
    <3> QED
      BY <3>2, <3>3
  <2> QED
    BY <1>1, <2>1, <2>4, <2>6, <2>10 DEF RecentInv, Recent!AlwaysFound
<1> QED
  BY <1>4, <1>5

\* A listed file leaves both arrays.
LEMMA RemoveFileStep ==
    ASSUME RecentInv, NEW f \in Files, Recent!RemoveFile(f)
    PROVE  RecentInv'
<1>1. /\ f \in Recent!Names /\ torn' = torn
      /\ m_aNames' = [g \in Recent!Names \ {f} |-> m_aNames[g]]
      /\ m_aTimes \in Seq(TimeObjects) /\ InOrder(m_aTimes)
      /\ Recent!Names \subseteq Files /\ m_aNames \in [Recent!Names -> Times]
  BY DEF Recent!RemoveFile, RecentInv
<1>2. PICK i \in Recent!Index(m_aNames[f]) :
        LET x == Recent!Find(i, f, m_aNames[f])
        IN IF i = -1 \/ x = -1
           THEN missed' = f /\ UNCHANGED m_aTimes
           ELSE /\ missed' = NoFile
                /\ m_aTimes' = Recent!Disowned(Recent!RemoveAt(m_aTimes, x + 1), {f})
  BY DEF Recent!RemoveFile
<1>3. PICK x : x = Recent!Find(i, f, m_aNames[f])
  OBVIOUS
<1>4. /\ Recent!Names' = Recent!Names \ {f} /\ m_aNames' \in [Recent!Names' -> Times]
      /\ \A g \in Recent!Names \ {f} : m_aNames'[g] = m_aNames[g]
  BY <1>1 DEF Recent!Names
<1>5. \A g \in Files : Recent!Time(g, m_aNames[g]).file = g
  BY DEF Recent!Time
<1>6. ASSUME NEW g \in Files \ torn
      PROVE  /\ g \in Recent!Names => Only(m_aTimes, Recent!Time(g, m_aNames[g]))
             /\ g \notin Recent!Names => NoneOf(m_aTimes, g)
  BY DEF RecentInv
<1>7. CASE i = -1 \/ x = -1
  <2>1. missed' = f /\ m_aTimes' = m_aTimes /\ f \in torn
    BY <1>1, <1>2, <1>3, <1>7, FileFound
  <2>2. ASSUME NEW g \in Files \ torn
        PROVE  /\ g \in Recent!Names' => Only(m_aTimes', Recent!Time(g, m_aNames'[g]))
               /\ g \notin Recent!Names' => NoneOf(m_aTimes', g)
    BY <1>4, <1>6, <2>1
  <2> QED
    BY <1>1, <1>4, <2>1, <2>2 DEF RecentInv, Recent!AlwaysFound
<1>8. CASE i # -1 /\ x # -1
  <2> DEFINE r == Recent!RemoveAt(m_aTimes, x + 1)
             moved == m_aTimes[x + 1]
  <2>1. missed' = NoFile /\ m_aTimes' = Recent!Disowned(r, {f})
    BY <1>2, <1>3, <1>8
  <2>2. x + 1 \in 1..Len(m_aTimes) /\ moved.file = f
    BY <1>1, <1>3, <1>8, FileFound
  <2>3. /\ r \in Seq(TimeObjects) /\ InOrder(r)
        /\ \A d : d.file # f /\ Only(m_aTimes, d) => Only(r, d)
        /\ \A g : NoneOf(m_aTimes, g) => NoneOf(r, g)
        /\ Only(m_aTimes, moved) => NoneOf(r, f)
    BY <1>1, <2>2, RemovedObject
  <2>4. f \notin torn => Only(m_aTimes, moved)
    <3> SUFFICES ASSUME f \notin torn PROVE Only(m_aTimes, moved)
      OBVIOUS
    <3>1. Only(m_aTimes, Recent!Time(f, m_aNames[f]))
      BY <1>1, <1>6
    <3>2. moved = Recent!Time(f, m_aNames[f])
      BY <1>1, <1>5, <2>2, <3>1 DEF Only
    <3> QED
      BY <3>1, <3>2
  <2> HIDE DEF r, moved
  <2>5. /\ m_aTimes' \in Seq(TimeObjects) /\ InOrder(m_aTimes')
        /\ \A d : d.file \notin {f} /\ Only(r, d) => Only(m_aTimes', d)
        /\ \A g : NoneOf(r, g) => NoneOf(m_aTimes', g)
    BY <2>1, <2>3, DisownedObjects
  <2>6. ASSUME NEW g \in Files \ torn
        PROVE  /\ g \in Recent!Names' => Only(m_aTimes', Recent!Time(g, m_aNames'[g]))
               /\ g \notin Recent!Names' => NoneOf(m_aTimes', g)
    <3>1. CASE g = f
      BY <1>4, <2>3, <2>4, <2>5, <3>1
    <3>2. CASE g # f
      BY <1>4, <1>5, <1>6, <2>3, <2>5, <3>2
    <3> QED
      BY <3>1, <3>2
  <2> QED
    BY <1>1, <1>4, <2>1, <2>5, <2>6 DEF RecentInv, Recent!AlwaysFound
<1> QED
  BY <1>7, <1>8

\* Every step keeps the invariant.
LEMMA RecentStep == RecentInv /\ [Recent!Next]_(Recent!vars) => RecentInv'
<1> SUFFICES ASSUME RecentInv, [Recent!Next]_(Recent!vars) PROVE RecentInv'
  OBVIOUS
<1>1. CASE UNCHANGED Recent!vars
  BY <1>1 DEF Recent!vars, RecentInv, Recent!Names, Recent!AlwaysFound
<1>2. ASSUME NEW f \in Files, Recent!AddNoMemory(f) PROVE RecentInv'
  BY <1>2 DEF Recent!AddNoMemory, RecentInv, Recent!Names, Recent!AlwaysFound
<1>3. CASE Recent!Next
  BY <1>2, <1>3, AddNewStep, AddOldStep, AddUndoneStep, RemoveFileStep DEF Recent!Next
<1> QED
  BY <1>1, <1>3

\* What the invariant says of the two arrays.
LEMMA RecentWhole == RecentInv => Recent!SameFiles /\ Recent!OldestFirst /\ Recent!AlwaysFound
<1> SUFFICES ASSUME RecentInv PROVE Recent!SameFiles /\ Recent!OldestFirst /\ Recent!AlwaysFound
  OBVIOUS
<1> DEFINE n == Len(m_aTimes)
<1>1. m_aTimes \in Seq(TimeObjects) /\ n \in Nat /\ DOMAIN m_aTimes = 1..n
  BY DEF RecentInv
<1>2. ASSUME NEW f \in Files \ torn, f \in Recent!Names
      PROVE  \E i \in Recent!Listed(f) : /\ Recent!Listed(f) = {i}
                                         /\ m_aTimes[i] = Recent!Time(f, m_aNames[f])
  <2>1. PICK i \in 1..n : /\ m_aTimes[i] = Recent!Time(f, m_aNames[f])
                          /\ \A j \in 1..n : m_aTimes[j].file = f => j = i
    <3>1. Recent!Time(f, m_aNames[f]).file = f
      BY DEF Recent!Time
    <3> QED
      BY <1>2, <3>1 DEF RecentInv, Only
  <2>2. m_aTimes[i].file = f
    BY <2>1 DEF Recent!Time
  <2>3. Recent!Listed(f) = {i}
    BY <1>1, <2>1, <2>2 DEF Recent!Listed
  <2> QED
    BY <2>1, <2>3
<1>3. ASSUME NEW f \in Files \ torn, f \notin Recent!Names
      PROVE  Recent!Listed(f) = {}
  BY <1>1, <1>3 DEF RecentInv, NoneOf, Recent!Listed
<1>4. Recent!OldestFirst
  BY <1>1 DEF RecentInv, InOrder, Recent!OldestFirst
<1> QED
  BY <1>2, <1>3, <1>4 DEF RecentInv, Recent!SameFiles

-----------------------------------------------------------------------------
\* PollSet

\* The walk finds an event only where poll() reported one: an event at or below
\* the index is that of a due registration.
EventsAreDue ==
    pc = "loop" => \A i \in 0..k : m_polls[i].revents # "none" => m_ppsocks[i] \in due

\* The inductive invariant.  ServedOnce needs EventsAreDue: without it a step could
\* serve a registration that was not due.
IInv == PollInv /\ EventsAreDue

USE PieceAssumption, NullAssumption DEF Events

\* The strengthened invariant holds initially.
LEMMA InitIInv == Init => IInv
  BY DEF Init, IInv, PollInv, TypeOK, ArraysAgree, IndexValid, ServedOnce,
         EventsAreDue, Blank
-----------------------------------------------------------------------------
\* remove(i) of an entry: the arrays still agree, the entries below i stay where
\* they are, and exactly the registration at i is no longer watched.
LEMMA RemoveShape ==
  ASSUME TypeOK, ArraysAgree, NEW i \in 0..m_used - 1, NEW r \in BOOLEAN, Remove(i, r)
  PROVE  /\ m_used' = m_used - 1 /\ m_memsize' = m_memsize
         /\ m_polls' \in [0..m_memsize - 1 -> [fd : Socks \cup {NULL}, revents : Events]]
         /\ m_ppsocks' \in [0..m_memsize - 1 -> Socks \cup {NULL}]
         /\ ArraysAgree'
         /\ \A j \in 0..i - 1 : m_ppsocks'[j] = m_ppsocks[j] /\ m_polls'[j] = m_polls[j]
         /\ Watched' = Watched \ {m_ppsocks[i]}
  <1> DEFINE final == m_used - 1
             moved == IF r /\ i # final THEN [m_polls[final] EXCEPT !.revents = "none"]
                      ELSE m_polls[final]
  <1>1. /\ m_used \in Nat /\ m_memsize \in Nat /\ m_used <= m_memsize
        /\ i \in 0..m_memsize - 1 /\ final \in 0..m_memsize - 1 /\ i <= final
    BY DEF TypeOK, ArraysAgree
  <1>2. /\ m_polls' = [m_polls EXCEPT ![i] = moved, ![final].fd = NULL]
        /\ m_ppsocks' = [m_ppsocks EXCEPT ![i] = m_ppsocks[final], ![final] = NULL]
        /\ m_used' = final /\ m_memsize' = m_memsize
    BY <1>1 DEF Remove, NoEntry
  <1>3. moved \in [fd : Socks \cup {NULL}, revents : Events] /\ moved.fd = m_polls[final].fd
    BY <1>1, Zenon DEF TypeOK
  <1> HIDE DEF moved
  <1> DEFINE filled == [m_polls EXCEPT ![i] = moved]
             closed == [filled[final] EXCEPT !.fd = NULL]
  <1>a. /\ filled \in [0..m_memsize - 1 -> [fd : Socks \cup {NULL}, revents : Events]]
        /\ filled[i] = moved
        /\ \A j \in 0..m_memsize - 1 : j # i => filled[j] = m_polls[j]
    BY <1>1, <1>3 DEF TypeOK
  <1>b. m_polls' = [filled EXCEPT ![final] = closed]
    BY <1>2
  <1>e. /\ m_ppsocks' = [m_ppsocks EXCEPT ![i] = m_ppsocks[final], ![final] = NULL]
    BY <1>2
  <1>f. m_used' = final /\ m_memsize' = m_memsize
    BY <1>2
  <1>c. closed \in [fd : Socks \cup {NULL}, revents : Events] /\ closed.fd = NULL
    <2>1. filled[final] \in [fd : Socks \cup {NULL}, revents : Events]
      BY <1>1, <1>a
    <2> HIDE DEF filled
    <2> QED
      BY <2>1
  <1> HIDE DEF filled, closed
  <1>4. /\ m_polls' \in [0..m_memsize - 1 -> [fd : Socks \cup {NULL}, revents : Events]]
        /\ m_ppsocks' \in [0..m_memsize - 1 -> Socks \cup {NULL}]
    BY <1>1, <1>e, <1>a, <1>b, <1>c DEF TypeOK
  <1>5. /\ \A j \in 0..m_memsize - 1 : j # i /\ j # final =>
              m_ppsocks'[j] = m_ppsocks[j] /\ m_polls'[j] = m_polls[j]
        /\ m_ppsocks'[final] = NULL /\ m_polls'[final].fd = NULL
        /\ i # final => m_ppsocks'[i] = m_ppsocks[final] /\ m_polls'[i] = moved
    BY <1>1, <1>e, <1>a, <1>b, <1>c DEF TypeOK
  <1>6. ArraysAgree'
    <2>1. \A j \in 0..final - 1 : m_ppsocks'[j] \in Socks /\ m_polls'[j].fd = m_ppsocks'[j]
      BY <1>1, <1>3, <1>5 DEF ArraysAgree
    <2>2. \A a, b \in 0..final - 1 : m_ppsocks'[a] = m_ppsocks'[b] => a = b
      BY <1>1, <1>5 DEF ArraysAgree
    <2>3. \A j \in final..m_memsize - 1 : m_ppsocks'[j] = NULL /\ m_polls'[j].fd = NULL
      BY <1>1, <1>5 DEF ArraysAgree
    <2> QED
      BY <1>1, <1>f, <2>1, <2>2, <2>3 DEF ArraysAgree
  <1>7. Watched' = Watched \ {m_ppsocks[i]}
    <2>1. Watched' = {m_ppsocks'[j] : j \in 0..final - 1}
      BY <1>f DEF Watched
    <2>2. ASSUME NEW s \in Watched' PROVE s \in Watched \ {m_ppsocks[i]}
      <3>1. PICK j \in 0..final - 1 : s = m_ppsocks'[j]
        BY <2>1
      <3>2. CASE j = i
        BY <1>1, <1>5, <3>1, <3>2 DEF ArraysAgree, Watched
      <3>3. CASE j # i
        BY <1>1, <1>5, <3>1, <3>3 DEF ArraysAgree, Watched
      <3> QED
        BY <3>2, <3>3
    <2>3. ASSUME NEW s \in Watched, s # m_ppsocks[i] PROVE s \in Watched'
      <3>1. PICK j \in 0..final : s = m_ppsocks[j]
        BY DEF Watched
      <3>2. CASE j = final
        BY <1>1, <1>5, <2>1, <2>3, <3>1, <3>2
      <3>3. CASE j # final
        BY <1>1, <1>5, <2>1, <2>3, <3>1, <3>3
      <3> QED
        BY <3>2, <3>3
    <2> QED
      BY <2>2, <2>3
  <1> QED
    BY <1>f, <1>4, <1>5, <1>6, <1>7, <1>1

\* resetRevents(i) of an entry touches that entry's events only.
LEMMA ResetShape ==
  ASSUME TypeOK, ArraysAgree, NEW i \in 0..m_used - 1, ResetRevents(i)
  PROVE  /\ m_used' = m_used /\ m_memsize' = m_memsize /\ m_ppsocks' = m_ppsocks
         /\ m_polls' \in [0..m_memsize - 1 -> [fd : Socks \cup {NULL}, revents : Events]]
         /\ ArraysAgree'
         /\ \A j \in 0..i - 1 : m_polls'[j] = m_polls[j]
  <1> DEFINE quiet == [m_polls[i] EXCEPT !.revents = "none"]
  <1>1. m_used > i /\ i \in 0..m_memsize - 1
    BY DEF TypeOK, ArraysAgree
  <1>2. m_polls' = [m_polls EXCEPT ![i] = quiet]
    BY <1>1 DEF ResetRevents
  <1>3. quiet \in [fd : Socks \cup {NULL}, revents : Events] /\ quiet.fd = m_polls[i].fd
    BY <1>1 DEF TypeOK
  <1> HIDE DEF quiet
  <1> QED
    BY <1>1, <1>2, <1>3 DEF TypeOK, ArraysAgree, ResetRevents

-----------------------------------------------------------------------------
\* The due registrations the walk has yet to serve: what the abstract loop sees.
DueLeft == IF pc = "loop" THEN {s \in due : served[s] = 0} ELSE {}

\* A step of the walk keeps the entries below the index.
KeptBelow ==
    \A j \in 0..k - 1 : m_ppsocks'[j] = m_ppsocks[j] /\ m_polls'[j] = m_polls[j]

\* The step that handles an event at k serves a registration that was due and not
\* served yet, and no other one.
LEMMA StepServes ==
  ASSUME IInv, pc = "loop", m_polls[k].revents # "none", KeptBelow, Count, Advance
  PROVE  /\ ServedOnce' /\ EventsAreDue' /\ served' \in [Socks -> Nat]
         /\ m_ppsocks[k] \in DueLeft /\ DueLeft' = DueLeft \ {m_ppsocks[k]}
  <1> DEFINE s0 == m_ppsocks[k]
  <1>1. k \in 0..m_used - 1 /\ m_used \in Nat /\ served \in [Socks -> Nat] /\ due \subseteq Socks
    BY DEF IInv, PollInv, IndexValid, TypeOK
  <1>2. s0 \in Socks /\ s0 \in due /\ \A i \in 0..k : m_ppsocks[i] = s0 => i = k
    BY <1>1 DEF IInv, PollInv, ArraysAgree, EventsAreDue
  <1>3. served[s0] = 0
    BY <1>1, <1>2 DEF IInv, PollInv, ServedOnce
  <1>4. /\ due' = due /\ k' = k - 1
        /\ (pc' = "run" /\ k = 0) \/ (pc' = "loop" /\ k # 0)
    BY DEF Advance
  <1>5. /\ served' \in [Socks -> Nat] /\ served'[s0] = 1
        /\ \A s \in Socks : s # s0 => served'[s] = served[s]
    BY <1>1, <1>2, <1>3 DEF Count
  <1>6. \A s \in Socks \ due : served'[s] = 0
    BY <1>2, <1>5 DEF IInv, PollInv, ServedOnce
  <1>7. ASSUME NEW s \in due, s # s0
        PROVE  \/ served'[s] = 1 /\ ~\E i \in 0..k : m_ppsocks[i] = s
               \/ served'[s] = 0 /\ \E i \in 0..k - 1 : m_ppsocks[i] = s /\ m_polls[i].revents # "none"
    BY <1>1, <1>5, <1>7 DEF IInv, PollInv, ServedOnce
  <1>8. ServedOnce'
    <2>1. CASE k = 0
      BY <1>1, <1>2, <1>4, <1>5, <1>6, <1>7, <2>1 DEF ServedOnce
    <2>2. CASE k # 0
      <3>1. ~\E i \in 0..k - 1 : m_ppsocks'[i] = s0
        BY <1>1, <1>2 DEF KeptBelow
      <3>2. ASSUME NEW s \in due, s # s0
            PROVE  \/ served'[s] = 1 /\ ~\E i \in 0..k - 1 : m_ppsocks'[i] = s
                   \/ served'[s] = 0 /\ \E i \in 0..k - 1 : m_ppsocks'[i] = s /\ m_polls'[i].revents # "none"
        BY <1>1, <1>7, <3>2 DEF KeptBelow
      <3> QED
        BY <1>4, <1>5, <1>6, <2>2, <3>1, <3>2 DEF ServedOnce
    <2> QED
      BY <2>1, <2>2
  <1>9. EventsAreDue'
    BY <1>1, <1>4 DEF IInv, EventsAreDue, KeptBelow
  <1>10. DueLeft' = DueLeft \ {s0}
    <2>1. CASE k = 0
      <3>1. \A s \in due : s # s0 => served[s] = 1
        BY <1>1, <1>2, <2>1 DEF IInv, PollInv, ServedOnce
      <3> QED
        BY <1>4, <2>1, <3>1 DEF DueLeft
    <2>2. CASE k # 0
      BY <1>1, <1>4, <1>5, <2>2 DEF DueLeft
    <2> QED
      BY <2>1, <2>2
  <1> QED
    BY <1>2, <1>3, <1>5, <1>8, <1>9, <1>10 DEF DueLeft

\* The step that finds no event at k leaves nothing due behind.
LEMMA StepPasses ==
  ASSUME IInv, pc = "loop", m_polls[k].revents = "none", KeptBelow,
         served' = served, Advance
  PROVE  ServedOnce' /\ EventsAreDue' /\ DueLeft' = DueLeft
  <1>1. k \in 0..m_used - 1 /\ m_used \in Nat /\ served \in [Socks -> Nat] /\ due \subseteq Socks
    BY DEF IInv, PollInv, IndexValid, TypeOK
  <1>2. /\ due' = due /\ k' = k - 1
        /\ (pc' = "run" /\ k = 0) \/ (pc' = "loop" /\ k # 0)
    BY DEF Advance
  <1>3. ASSUME NEW s \in due
        PROVE  \/ served[s] = 1 /\ ~\E i \in 0..k : m_ppsocks[i] = s
               \/ served[s] = 0 /\ \E i \in 0..k - 1 : m_ppsocks[i] = s /\ m_polls[i].revents # "none"
    BY <1>1 DEF IInv, PollInv, ServedOnce
  <1>4. \A s \in Socks \ due : served[s] = 0
    BY DEF IInv, PollInv, ServedOnce
  <1>5. ServedOnce'
    <2>1. CASE k = 0
      BY <1>2, <1>3, <1>4, <2>1 DEF ServedOnce
    <2>2. CASE k # 0
      <3>1. ASSUME NEW s \in due
            PROVE  \/ served[s] = 1 /\ ~\E i \in 0..k - 1 : m_ppsocks'[i] = s
                   \/ served[s] = 0 /\ \E i \in 0..k - 1 : m_ppsocks'[i] = s /\ m_polls'[i].revents # "none"
        BY <1>1, <1>3 DEF KeptBelow
      <3> QED
        BY <1>2, <1>4, <2>2, <3>1 DEF ServedOnce
    <2> QED
      BY <2>1, <2>2
  <1>6. EventsAreDue'
    BY <1>1, <1>2 DEF IInv, EventsAreDue, KeptBelow
  <1>7. DueLeft' = DueLeft
    <2>1. CASE k = 0
      <3>1. \A s \in due : served[s] = 1
        BY <1>3, <2>1
      <3> QED
        BY <1>2, <2>1, <3>1 DEF DueLeft
    <2>2. CASE k # 0
      BY <1>2, <2>2 DEF DueLeft
    <2> QED
      BY <2>1, <2>2
  <1> QED
    BY <1>5, <1>6, <1>7

-----------------------------------------------------------------------------
\* append(): the new registration goes behind the others, inside the arrays.
LEMMA AppendShape ==
  ASSUME TypeOK, ArraysAgree, NEW s \in Socks, AppendEntry(s)
  PROVE  TypeOK' /\ ArraysAgree' /\ Watched' = Watched \cup {s}
  <1> DEFINE room == IF NeedsRoom THEN m_memsize + PIECE ELSE m_memsize
             polls == IF NeedsRoom THEN Grown(m_polls, Blank) ELSE m_polls
             socks == IF NeedsRoom THEN Grown(m_ppsocks, NULL) ELSE m_ppsocks
             entry == [fd |-> s, revents |-> "none"]
             Entries == [fd : Socks \cup {NULL}, revents : Events]
  <1>1. /\ m_polls' = [i \in DOMAIN polls |-> IF i = m_used THEN entry ELSE polls[i]]
        /\ m_ppsocks' = [i \in DOMAIN socks |-> IF i = m_used THEN s ELSE socks[i]]
        /\ m_used' = m_used + 1 /\ m_memsize' = room
        /\ UNCHANGED <<m_bLive, pc, k, due, served>>
    BY DEF AppendEntry
  <1>2. m_used \in Nat /\ m_memsize \in Nat /\ room \in Nat /\ m_used < room /\ m_memsize <= room
        /\ m_used <= m_memsize
    BY DEF TypeOK, ArraysAgree, NeedsRoom
  <1>3. Blank \in Entries /\ Blank.fd = NULL /\ entry \in Entries /\ entry.fd = s
    BY DEF Blank
  <1>4. /\ polls \in [0..room - 1 -> Entries] /\ socks \in [0..room - 1 -> Socks \cup {NULL}]
        /\ \A i \in 0..m_memsize - 1 : polls[i] = m_polls[i] /\ socks[i] = m_ppsocks[i]
        /\ \A i \in m_memsize..room - 1 : polls[i] = Blank /\ socks[i] = NULL
    <2>1. CASE NeedsRoom
      BY <1>2, <1>3, <2>1 DEF TypeOK, Grown
    <2>2. CASE ~NeedsRoom
      BY <1>2, <2>2 DEF TypeOK
    <2> QED
      BY <2>1, <2>2
  <1> HIDE DEF room, polls, socks, entry, Blank
  <1>5. /\ m_polls' \in [0..room - 1 -> Entries] /\ m_ppsocks' \in [0..room - 1 -> Socks \cup {NULL}]
        /\ m_polls'[m_used] = entry /\ m_ppsocks'[m_used] = s
        /\ \A i \in 0..room - 1 : i # m_used => m_polls'[i] = polls[i] /\ m_ppsocks'[i] = socks[i]
    BY <1>1, <1>2, <1>3, <1>4
  <1>a. /\ m_used' = m_used + 1 /\ m_memsize' = room
        /\ UNCHANGED <<m_bLive, pc, k, due, served>>
    BY <1>1
  <1>b. /\ 0..m_used' - 1 = 0..m_used /\ m_used' <= m_memsize'
        /\ m_used'..m_memsize' - 1 = m_used + 1..room - 1
    BY <1>2, <1>a
  <1>6. TypeOK'
    BY <1>2, <1>5, <1>a DEF TypeOK
  <1>7. \A i \in 0..m_used - 1 : m_polls'[i] = m_polls[i] /\ m_ppsocks'[i] = m_ppsocks[i]
    BY <1>2, <1>4, <1>5
  <1>8. s \notin Watched
    BY DEF AppendEntry
  <1>9. ArraysAgree'
    <2>1. ASSUME NEW i \in 0..m_used
          PROVE  m_ppsocks'[i] \in Socks /\ m_polls'[i].fd = m_ppsocks'[i]
      <3>1. CASE i = m_used
        BY <1>3, <1>5, <3>1
      <3>2. CASE i # m_used
        <4>1. i \in 0..m_used - 1
          BY <1>2, <3>2
        <4>2. m_ppsocks[i] \in Socks /\ m_polls[i].fd = m_ppsocks[i]
          BY <4>1 DEF ArraysAgree
        <4> QED
          BY <1>7, <4>1, <4>2
      <3> QED
        BY <3>1, <3>2
    <2>2. ASSUME NEW i \in 0..m_used, NEW j \in 0..m_used, m_ppsocks'[i] = m_ppsocks'[j]
          PROVE  i = j
      <3>1. \A x \in 0..m_used : x = m_used \/ x \in 0..m_used - 1
        BY <1>2
      <3>2. \A x \in 0..m_used - 1 : m_ppsocks'[x] = m_ppsocks[x] /\ m_ppsocks[x] # s
        BY <1>7, <1>8 DEF Watched
      <3>3. m_ppsocks'[m_used] = s
        BY <1>5
      <3>4. CASE i = m_used \/ j = m_used
        BY <2>2, <3>1, <3>2, <3>3, <3>4
      <3>5. CASE i # m_used /\ j # m_used
        <4>1. i \in 0..m_used - 1 /\ j \in 0..m_used - 1 /\ m_ppsocks[i] = m_ppsocks[j]
          BY <2>2, <3>1, <3>2, <3>5
        <4> QED
          BY <4>1 DEF ArraysAgree
      <3> QED
        BY <3>4, <3>5
    <2>3. \A i \in m_used + 1..room - 1 : m_ppsocks'[i] = NULL /\ m_polls'[i].fd = NULL
      <3> SUFFICES ASSUME NEW i \in m_used + 1..room - 1
                   PROVE  m_ppsocks'[i] = NULL /\ m_polls'[i].fd = NULL
        OBVIOUS
      <3>0. i \in 0..room - 1 /\ i # m_used /\ i >= m_used
        BY <1>2
      <3>1. m_polls'[i] = polls[i] /\ m_ppsocks'[i] = socks[i]
        BY <1>5, <3>0
      <3>2. CASE i < m_memsize
        <4>1. i \in 0..m_memsize - 1 /\ i \in m_used..m_memsize - 1
          BY <1>2, <3>0, <3>2
        <4> QED
          BY <1>4, <3>1, <4>1 DEF ArraysAgree
      <3>3. CASE i >= m_memsize
        <4>1. i \in m_memsize..room - 1
          BY <1>2, <3>0, <3>3
        <4> QED
          BY <1>3, <1>4, <3>1, <4>1
      <3> QED
        BY <1>2, <3>2, <3>3
    <2> QED
      BY <1>b, <2>1, <2>2, <2>3 DEF ArraysAgree
  <1>10. Watched' = Watched \cup {s}
    <2>1. Watched' = {m_ppsocks'[i] : i \in 0..m_used}
      BY <1>b DEF Watched
    <2>2. Watched \subseteq Watched'
      <3>1. \A i \in 0..m_used - 1 : i \in 0..m_used /\ m_ppsocks'[i] = m_ppsocks[i]
        BY <1>2, <1>7
      <3> QED
        BY <2>1, <3>1 DEF Watched
    <2>3. s \in Watched'
      BY <1>2, <1>5, <2>1
    <2>4. ASSUME NEW x \in Watched' PROVE x \in Watched \cup {s}
      <3>1. PICK i \in 0..m_used : x = m_ppsocks'[i]
        BY <2>1
      <3>2. CASE i = m_used
        BY <1>5, <3>1, <3>2
      <3>3. CASE i # m_used
        BY <1>2, <1>7, <3>1, <3>3 DEF Watched
      <3> QED
        BY <3>2, <3>3
    <2> QED
      BY <2>2, <2>3, <2>4
  <1> QED
    BY <1>6, <1>9, <1>10

\* poll() reports an event of a watched registration, in the entry that holds it.
LEMMA PollShape ==
  ASSUME IInv, Poll
  PROVE  IInv' /\ due' \subseteq Watched /\ DueLeft' = due' /\ Watched' = Watched
  <1> DEFINE Entries == [fd : Socks \cup {NULL}, revents : Events]
  <1>1. PICK ev \in [0..m_used - 1 -> Events] :
          LET some == \E i \in 0..m_used - 1 : ev[i] # "none"
          IN  /\ m_polls' = [i \in DOMAIN m_polls |->
                               IF i < m_used THEN [m_polls[i] EXCEPT !.revents = ev[i]]
                                             ELSE m_polls[i]]
              /\ due' = {m_ppsocks[i] : i \in {j \in 0..m_used - 1 : ev[j] # "none"}}
              /\ pc' = IF some THEN "loop" ELSE "run"
              /\ k' = IF some THEN m_used - 1 ELSE -1
    BY DEF Poll
  <1>2. /\ m_used \in Nat /\ m_memsize \in Nat /\ m_used <= m_memsize /\ m_used > 0
        /\ m_polls \in [0..m_memsize - 1 -> Entries]
        /\ m_ppsocks \in [0..m_memsize - 1 -> Socks \cup {NULL}]
    BY DEF IInv, PollInv, TypeOK, ArraysAgree, Poll
  <1>3. /\ served' = [s \in Socks |-> 0]
        /\ UNCHANGED <<m_ppsocks, m_used, m_memsize, m_bLive>>
    BY DEF Poll
  <1>4. \A i \in 0..m_used - 1 : /\ [m_polls[i] EXCEPT !.revents = ev[i]] \in Entries
                                /\ [m_polls[i] EXCEPT !.revents = ev[i]].fd = m_polls[i].fd
                                /\ [m_polls[i] EXCEPT !.revents = ev[i]].revents = ev[i]
    <2> SUFFICES ASSUME NEW i \in 0..m_used - 1, NEW e \in Entries
                 PROVE  /\ [e EXCEPT !.revents = ev[i]] \in Entries
                        /\ [e EXCEPT !.revents = ev[i]].fd = e.fd
                        /\ [e EXCEPT !.revents = ev[i]].revents = ev[i]
      BY <1>2
    <2>1. ev[i] \in Events
      OBVIOUS
    <2> QED
      BY <2>1
  <1>5. /\ m_polls' \in [0..m_memsize - 1 -> Entries]
        /\ \A i \in 0..m_used - 1 : m_polls'[i].fd = m_polls[i].fd /\ m_polls'[i].revents = ev[i]
        /\ \A i \in m_used..m_memsize - 1 : m_polls'[i] = m_polls[i]
    BY <1>1, <1>2, <1>4
  <1>6. /\ due' = {m_ppsocks[i] : i \in {j \in 0..m_used - 1 : ev[j] # "none"}}
        /\ \/ pc' = "loop" /\ k' = m_used - 1
           \/ pc' = "run" /\ k' = -1 /\ \A i \in 0..m_used - 1 : ev[i] = "none"
    BY <1>1
  <1>7. due' \subseteq Watched /\ due' \subseteq Socks
    BY <1>6 DEF IInv, PollInv, ArraysAgree, Watched
  <1>8. TypeOK'
    BY <1>2, <1>3, <1>5, <1>6, <1>7 DEF IInv, PollInv, TypeOK
  <1>9. ArraysAgree'
    BY <1>2, <1>3, <1>5 DEF IInv, PollInv, ArraysAgree
  <1>10. IndexValid'
    BY <1>2, <1>3, <1>6 DEF IndexValid
  <1>11. ServedOnce'
    BY <1>2, <1>3, <1>5, <1>6, <1>7 DEF ServedOnce
  <1>12. EventsAreDue'
    BY <1>2, <1>3, <1>5, <1>6 DEF EventsAreDue
  <1>13. DueLeft' = due'
    BY <1>3, <1>6, <1>7 DEF DueLeft
  <1>14. Watched' = Watched
    BY <1>3 DEF Watched
  <1> QED
    BY <1>7, <1>8, <1>9, <1>10, <1>11, <1>12, <1>13, <1>14 DEF IInv, PollInv

-----------------------------------------------------------------------------
\* What one step does to the poll set and to what is due, as the abstract loop
\* sees it.
EventLoopStep ==
    \/ \E s \in Socks : Loop!Watch(s) \/ Loop!Serve(s)
    \/ \E ready \in SUBSET Socks : Loop!Begin(ready)
    \/ Loop!Stop \/ Loop!Abandon \/ Loop!ClearAll
    \/ UNCHANGED <<Watched, DueLeft, m_bLive>>

\* The step that handles an event at k and keeps or removes the entry: it is the
\* abstract Serve, and keeps the invariant.
LEMMA ServeStep ==
  ASSUME IInv, NEW event \in {"ready", "err"}, Visiting(event), Count, Advance,
         ResetRevents(k) \/ Remove(k, FALSE) \/ Remove(k, TRUE)
  PROVE  IInv' /\ EventLoopStep
  <1>1. /\ TypeOK /\ ArraysAgree /\ k \in 0..m_used - 1 /\ m_used \in Nat
        /\ pc = "loop" /\ m_polls[k].revents # "none" /\ m_bLive = TRUE
    BY DEF IInv, PollInv, IndexValid, Visiting, TypeOK
  <1>2. /\ due' = due /\ m_bLive' = m_bLive /\ k' = k - 1
        /\ (pc' = "run" /\ k = 0) \/ (pc' = "loop" /\ k # 0)
    BY DEF Advance
  <1>3. /\ m_memsize' = m_memsize /\ m_used' \in {m_used, m_used - 1} /\ KeptBelow /\ ArraysAgree'
        /\ m_polls' \in [0..m_memsize - 1 -> [fd : Socks \cup {NULL}, revents : Events]]
        /\ m_ppsocks' \in [0..m_memsize - 1 -> Socks \cup {NULL}]
        /\ Watched' \in {Watched, Watched \ {m_ppsocks[k]}}
    <2>1. CASE ResetRevents(k)
      <3>1. /\ m_used' = m_used /\ m_memsize' = m_memsize /\ m_ppsocks' = m_ppsocks
            /\ m_polls' \in [0..m_memsize - 1 -> [fd : Socks \cup {NULL}, revents : Events]]
            /\ ArraysAgree'
            /\ \A j \in 0..k - 1 : m_polls'[j] = m_polls[j]
        BY <1>1, <2>1, ResetShape
      <3> QED
        BY <1>1, <3>1 DEF KeptBelow, TypeOK, Watched
    <2>2. CASE \E r \in BOOLEAN : Remove(k, r)
      <3>1. PICK r \in BOOLEAN : Remove(k, r)
        BY <2>2
      <3> QED
        BY <1>1, <3>1, RemoveShape DEF KeptBelow
    <2> QED
      BY <2>1, <2>2
  <1>4. /\ ServedOnce' /\ EventsAreDue' /\ served' \in [Socks -> Nat]
        /\ m_ppsocks[k] \in DueLeft /\ DueLeft' = DueLeft \ {m_ppsocks[k]}
    BY <1>1, <1>3, StepServes
  <1>5. TypeOK'
    BY <1>1, <1>2, <1>3, <1>4 DEF TypeOK
  <1>6. IndexValid'
    <2>1. m_used' = m_used \/ m_used' = m_used - 1
      BY <1>3
    <2>2. k \in 0..m_used - 1 /\ m_used \in Nat
      BY <1>1
    <2> QED
      BY <1>2, <2>1, <2>2 DEF IndexValid
  <1>7. PICK s \in Socks : s = m_ppsocks[k]
    BY <1>1 DEF ArraysAgree
  <1>8. Loop!Serve(s)
    BY <1>1, <1>2, <1>3, <1>4, <1>7 DEF Loop!Serve, DueLeft
  <1>9. IInv'
    <2>1. ArraysAgree' /\ ServedOnce' /\ EventsAreDue'
      BY <1>3, <1>4
    <2> QED
      BY <1>5, <1>6, <2>1 DEF IInv, PollInv
  <1>10. EventLoopStep
    BY <1>8 DEF EventLoopStep
  <1> QED
    BY <1>9, <1>10

\* Every step keeps the invariant and is a step of the abstract loop, or none.
LEMMA StepCorrect == IInv /\ [Next]_vars => IInv' /\ EventLoopStep
  <1> SUFFICES ASSUME IInv, [Next]_vars PROVE IInv' /\ EventLoopStep
    OBVIOUS
  <1>0. /\ PollInv /\ TypeOK /\ ArraysAgree /\ IndexValid /\ ServedOnce /\ EventsAreDue
        /\ pc # "loop" => DueLeft = {}
    BY DEF IInv, PollInv, DueLeft
  <1>1. ASSUME NEW s \in Socks, AppendEntry(s) PROVE IInv' /\ EventLoopStep
    <2>1. TypeOK' /\ ArraysAgree' /\ Watched' = Watched \cup {s}
      BY <1>0, <1>1, AppendShape
    <2>2. pc = "run" /\ s \notin Watched /\ UNCHANGED <<m_bLive, pc, k, due, served>>
      BY <1>1 DEF AppendEntry
    <2>3. IndexValid' /\ ServedOnce' /\ EventsAreDue'
      BY <1>0, <2>2 DEF IndexValid, ServedOnce, EventsAreDue
    <2>4. DueLeft = {} /\ DueLeft' = {}
      BY <2>2 DEF DueLeft
    <2>5. Loop!Watch(s)
      BY <2>1, <2>2, <2>4 DEF Loop!Watch, DueLeft
    <2> QED
      BY <2>1, <2>3, <2>5 DEF IInv, PollInv, EventLoopStep
  <1>2. CASE UNCHANGED vars
    <2>1. IInv'
      BY <1>2, <1>0
         DEF vars, IInv, PollInv, TypeOK, ArraysAgree, IndexValid, ServedOnce, EventsAreDue
    <2>2. UNCHANGED <<Watched, DueLeft, m_bLive>>
      BY <1>2 DEF vars, Watched, DueLeft
    <2> QED
      BY <2>1, <2>2 DEF EventLoopStep
  <1>3. CASE Clear
    <2>1. /\ pc = "run" /\ m_used' = 0 /\ UNCHANGED <<m_memsize, m_bLive, pc, k, due, served>>
          /\ m_polls' = [i \in 0..m_memsize - 1 |-> Blank]
          /\ m_ppsocks' = [i \in 0..m_memsize - 1 |-> NULL]
      BY <1>0, <1>3 DEF Clear, TypeOK
    <2>2. TypeOK' /\ ArraysAgree'
      BY <1>0, <2>1 DEF TypeOK, ArraysAgree, Blank
    <2>3. IndexValid' /\ ServedOnce' /\ EventsAreDue'
      BY <1>0, <2>1 DEF IndexValid, ServedOnce, EventsAreDue
    <2>4. DueLeft = {} /\ DueLeft' = {} /\ Watched' = {}
      BY <2>1 DEF DueLeft, Watched
    <2>5. Loop!ClearAll
      BY <2>1, <2>4 DEF Loop!ClearAll, DueLeft
    <2> QED
      BY <2>2, <2>3, <2>5 DEF IInv, PollInv, EventLoopStep
  <1>4. CASE Poll
    <2>1. IInv' /\ due' \subseteq Watched /\ DueLeft' = due' /\ Watched' = Watched
      BY <1>4, PollShape
    <2>2. DueLeft = {} /\ m_bLive' = m_bLive
      BY <1>0, <1>4 DEF Poll
    <2>3. CASE due' = {}
      BY <2>1, <2>2, <2>3 DEF EventLoopStep
    <2>4. CASE due' # {}
      <3>1. Watched \subseteq Socks
        BY <1>0 DEF Watched, ArraysAgree
      <3>2. PICK ready \in SUBSET Socks : ready = due'
        BY <2>1, <3>1
      <3>3. Loop!Begin(ready)
        BY <2>1, <2>2, <2>4, <3>2 DEF Loop!Begin, DueLeft
      <3> QED
        BY <2>1, <3>3 DEF EventLoopStep
    <2> QED
      BY <2>3, <2>4
  <1>5. CASE VisitIdle
    <2>1. /\ pc = "loop" /\ k \in 0..m_used - 1 /\ m_used \in Nat /\ ~NoEntry(k)
      BY <1>0, <1>5 DEF VisitIdle, IndexValid, TypeOK, NoEntry
    <2>2. m_polls[k].revents = "none" /\ ResetRevents(k) /\ Advance /\ served' = served
      BY <1>5, <2>1 DEF VisitIdle
    <2>3. /\ m_used' = m_used /\ m_memsize' = m_memsize /\ m_ppsocks' = m_ppsocks
          /\ m_polls' \in [0..m_memsize - 1 -> [fd : Socks \cup {NULL}, revents : Events]]
          /\ ArraysAgree'
          /\ \A j \in 0..k - 1 : m_polls'[j] = m_polls[j]
      BY <1>0, <2>1, <2>2, ResetShape
    <2>4. ServedOnce' /\ EventsAreDue' /\ DueLeft' = DueLeft
      <3>1. KeptBelow
        BY <2>3 DEF KeptBelow
      <3> QED
        BY <2>1, <2>2, <3>1, StepPasses
    <2>5. /\ due' = due /\ m_bLive' = m_bLive /\ k' = k - 1
          /\ (pc' = "run" /\ k = 0) \/ (pc' = "loop" /\ k # 0)
      BY <2>2 DEF Advance
    <2>6. TypeOK' /\ IndexValid'
      BY <1>0, <2>1, <2>2, <2>3, <2>5 DEF TypeOK, IndexValid
    <2>7. Watched' = Watched
      BY <2>3 DEF Watched
    <2> QED
      BY <2>3, <2>4, <2>5, <2>6, <2>7 DEF IInv, PollInv, EventLoopStep
  <1>6. CASE VisitError
    BY <1>6, ServeStep DEF VisitError
  <1>7. CASE VisitKeeps
    BY <1>7, ServeStep DEF VisitKeeps
  <1>8. CASE VisitDrops
    BY <1>8, ServeStep DEF VisitDrops
  <1>9. CASE VisitHandsOver
    BY <1>9, ServeStep DEF VisitHandsOver
  <1>10. CASE SetStop
    <2>1. IInv'
      <3>1. TypeOK'
        BY <1>0, <1>10 DEF SetStop, TypeOK
      <3>2. ArraysAgree' /\ IndexValid' /\ ServedOnce' /\ EventsAreDue'
        BY <1>0, <1>10 DEF SetStop, ArraysAgree, IndexValid, ServedOnce, EventsAreDue
      <3> QED
        BY <3>1, <3>2 DEF IInv, PollInv
    <2>2. Loop!Stop
      BY <1>10 DEF SetStop, Loop!Stop, Watched
    <2> QED
      BY <2>1, <2>2 DEF EventLoopStep
  <1>11. CASE SeeStop
    <2>1. IInv'
      BY <1>0, <1>11 DEF SeeStop, IInv, PollInv, TypeOK, ArraysAgree, IndexValid,
                         ServedOnce, EventsAreDue
    <2>2. Loop!Abandon
      BY <1>0, <1>11 DEF SeeStop, Loop!Abandon, Watched, TypeOK
    <2> QED
      BY <2>1, <2>2 DEF EventLoopStep
  <1> QED
    BY <1>1, <1>2, <1>3, <1>4, <1>5, <1>6, <1>7, <1>8, <1>9, <1>10, <1>11
       DEF Next, AppendNoMemory, Ended

-----------------------------------------------------------------------------
\* PollInv: the arrays of the poll set agree after any sequence of append, remove
\* and clear, the index the walk captured before it began stays that of an entry,
\* and every registration that was due is served exactly once.
THEOREM PollSetCorrect == Spec => []PollInv
  <1>1. IInv => PollInv
    BY DEF IInv
  <1>2. IInv /\ [Next]_vars => IInv'
    BY StepCorrect
  <1> QED
    BY <1>1, <1>2, InitIInv, PTL DEF Spec

\* The loop over Poll is an event loop as EventLoop describes it: nothing is served
\* that was not due, and a pass that is not stopped ends with nothing left due.
THEOREM Refinement == Spec => ImplementsEventLoop
  <1>1. Init => Loop!Init
    BY DEF Init, Loop!Init, Watched
  <1>2. IInv /\ [Next]_vars => [Loop!Next]_Loop!vars
    <2>1. EventLoopStep => [Loop!Next]_Loop!vars
      BY DEF EventLoopStep, Loop!Next, Loop!vars, DueLeft
    <2> QED
      BY <2>1, StepCorrect
  <1>3. IInv /\ [Next]_vars => IInv'
    BY StepCorrect
  <1> QED
    BY <1>1, <1>2, <1>3, InitIInv, PTL DEF Spec, ImplementsEventLoop, Loop!Spec

-----------------------------------------------------------------------------
\* The containers side by side

\* No container moves another, so each runs as its own module says.
THEOREM EachAlone == Containers => Spec /\ Array!Spec /\ Fifos!Spec /\ Recent!Spec
<1> DEFINE Moves == PollMoves \/ ArrayMoves \/ QueueMoves \/ RecentMoves
           all == <<active, vars, array, queue, recent>>
<1>1. ContainersInit => Init /\ Array!Init /\ Fifos!Init /\ Recent!Init
  BY DEF ContainersInit
<1>2. [Moves]_all => [Next]_vars
  BY DEF PollMoves, ArrayMoves, QueueMoves, RecentMoves
<1>3. [Moves]_all => [Array!Next]_(Array!vars)
  BY DEF PollMoves, ArrayMoves, QueueMoves, RecentMoves, array, Array!vars
<1>4. [Moves]_all => [Fifos!Next]_(Fifos!vars)
  BY DEF PollMoves, ArrayMoves, QueueMoves, RecentMoves, queue, Fifos!vars
<1>5. [Moves]_all => [Recent!Next]_(Recent!vars)
  BY DEF PollMoves, ArrayMoves, QueueMoves, RecentMoves, recent, Recent!vars
<1> QED
  BY <1>1, <1>2, <1>3, <1>4, <1>5, PTL
     DEF Containers, Spec, Array!Spec, Fifos!Spec, Recent!Spec

\* Every array and list is whole after every call: ArraySorted is sorted at every step
\* of a binary search and reads at most one slot behind its memory, when remove()
\* takes an element out of the middle of a full array; the links of Queue lead
\* through exactly the nodes it allocated; RecentlyFiles lists a file in both of its
\* arrays, as one object, or in none, and finds it, unless the undo of an add() that
\* found no memory has torn it apart, and has the oldest first in any case.
THEOREM ContainersCorrect == Containers => []ContainersWhole
<1>1. ArrayInv => Array!SortedInv
  BY DEF ArrayInv
<1>2. QueueInv => Fifos!ListWhole
  BY WayIsWhole DEF QueueInv
<1>3. RecentInv => Recent!SameFiles /\ Recent!OldestFirst /\ Recent!AlwaysFound
  BY RecentWhole
<1>4. Array!Spec => []ArrayInv
  BY ArrayInit, ArrayStep, PTL DEF Array!Spec
<1>5. Fifos!Spec => []QueueInv
  BY QInitInv, QueueStep, PTL DEF Fifos!Spec
<1>6. Recent!Spec => []RecentInv
  BY RecentInit, RecentStep, PTL DEF Recent!Spec
<1> QED
  BY <1>1, <1>2, <1>3, <1>4, <1>5, <1>6, EachAlone, PTL DEF ContainersWhole

\* To its callers ArraySorted is a multiset: what a binary search finds or misses is
\* what a search through all elements would.
THEOREM BagImplemented == Containers => ImplementsBag
<1>1. Array!Spec => Array!Abs!Spec
  BY ArrayInit, ArrayStep, PTL DEF Array!Spec, Array!Abs!Spec
<1> QED
  BY <1>1, EachAlone, PTL DEF ImplementsBag, Array!ImplementsBag

\* To its callers Queue is a FIFO, also while its destructor empties it.
THEOREM FifoImplemented == Containers => ImplementsFifo
<1>1. Fifos!Init => Fifos!Abstract!Init
  BY QInitAbs DEF Fifos!Abstract!Init, QueueItems
<1>2. QueueInv /\ [Fifos!Next]_(Fifos!vars)
        => QueueInv' /\ [Fifos!Abstract!Next]_(Fifos!Abstract!vars)
  <2>1. <<QueueItems, out>> = Fifos!Abstract!vars /\ <<QueueItems, out>>' = Fifos!Abstract!vars'
    BY DEF QueueItems, Fifos!Abstract!vars
  <2> QED
    BY <2>1, QueueStep
<1>3. Fifos!Spec => Fifos!Abstract!Spec
  BY QInitInv, <1>1, <1>2, PTL DEF Fifos!Spec, Fifos!Abstract!Spec
<1> QED
  BY <1>3, EachAlone, PTL DEF ImplementsFifo, Fifos!ImplementsFifo

-----------------------------------------------------------------------------
\* Monitor: the sums of a device's rows

\* What an average was made of.
Average == [rows : Nat, by : Nat]

\* The types of what the averages are made from.
SumTypes ==
    /\ now \in Nat /\ past \in Nat /\ past <= now
    /\ last \in [Level -> BOOLEAN] /\ total \in [Level -> SUBSET Nat]
    /\ count \in [Level -> Nat] /\ handed \in [Level -> Nat]
    /\ divided \in [Level -> Seq(Average)] /\ cur \in Level \cup {Idle}

\* What is summed up was measured before.
Summed ==
    \A no \in Level :
        handed[no] <= past /\ IsFiniteSet(total[no]) /\ \A s \in total[no] : s <= past

\* The levels whose list is saved, or need not be saved, have dropped their sums;
\* those whose save is to come have handed over an average.
Dropped ==
    ~failed =>
        \A no \in Level : cur = Idle \/ cur <= no => \A s \in total[no] : s > handed[no]
HandedOver ==
    cur # Idle => \A no \in Level : no < cur => divided[no] # <<>>

\* Until the first average the divisor is the number of the rows.
Counted ==
    \A no \in Level : divided[no] = <<>> => count[no] = Cardinality(total[no])

\* The inductive invariant of the sums.
SumsInv == SumTypes /\ Summed /\ Dropped /\ HandedOver /\ Counted /\ FirstAverageExact

\* The levels are numbers, and Idle is the one behind the last.
LEMMA LevelIs ==
  /\ Levels \in Nat \ {0} /\ Level = 0 .. Levels - 1 /\ Idle = Levels /\ Level \subseteq Nat
  /\ 0 \in Level /\ -1 \notin Level /\ Idle \notin Level
  BY HistoryAssumption DEF Level, Idle

\* The deepest level a measurement gets to.
LEMMA DeepestIs ==
  Deepest \in Reached /\ \A no \in Reached : no <= Deepest
<1>1. 0 \in Reached /\ Reached \subseteq Level
  BY LevelIs DEF Reached
<1> DEFINE far == {Levels - no : no \in Reached}
<1>2. far \subseteq Nat /\ far # {}
  BY <1>1, LevelIs
<1>3. PICK x \in far : \A y \in far : x <= y
  BY <1>2, LeastOf
<1>4. PICK m \in Reached : x = Levels - m
  BY <1>3
<1>5. \A no \in Reached : no <= m
  <2> TAKE no \in Reached
  <2>1. Levels - m <= Levels - no
    BY <1>3, <1>4
  <2>2. no \in Nat /\ m \in Nat /\ Levels \in Nat
    BY <1>1, LevelIs
  <2> QED
    BY <2>1, <2>2
<1> QED
  BY <1>5 DEF Deepest

\* Exactly the levels before it have an average to hand over.
LEMMA HandsOverIs ==
  /\ Deepest \in Level /\ Deepest \in Nat
  /\ \A no \in Level : HandsOver(no) <=> no < Deepest
<1>1. Deepest \in Level /\ Deepest \in Nat
  BY DeepestIs, LevelIs DEF Reached
<1>2. ASSUME NEW no \in Level, no < Deepest PROVE HandsOver(no)
  <2>1. no \in Nat /\ no + 1 \in 1 .. Deepest /\ \A j \in 1 .. no : j \in 1 .. Deepest
    BY <1>1, <1>2, LevelIs
  <2>2. \A j \in 1 .. Deepest : last[j - 1] /\ now % Seconds[j] = 0
    BY DeepestIs DEF Reached
  <2>3. no \in Reached
    BY <2>1, <2>2 DEF Reached
  <2>4. last[(no + 1) - 1] /\ now % Seconds[no + 1] = 0 /\ (no + 1) - 1 = no
    BY <2>1, <2>2
  <2>5. no + 1 \in Level
    BY <1>1, <1>2, <2>1, LevelIs
  <2> QED
    BY <2>3, <2>4, <2>5 DEF HandsOver, HasNext
<1>3. ASSUME NEW no \in Level, HandsOver(no) PROVE no < Deepest
  <2>1. /\ no \in Nat /\ no + 1 \in Level /\ last[no] /\ now % Seconds[no + 1] = 0
        /\ \A j \in 1 .. no : last[j - 1] /\ now % Seconds[j] = 0
    BY <1>3, LevelIs DEF HandsOver, HasNext, Reached
  <2>2. ASSUME NEW j \in 1 .. no + 1 PROVE last[j - 1] /\ now % Seconds[j] = 0
    <3>1. CASE j = no + 1
      <4>1. j - 1 = no
        BY <2>1, <3>1
      <4> QED
        BY <2>1, <3>1, <4>1
    <3>2. CASE j # no + 1
      BY <2>1, <3>2
    <3> QED
      BY <3>1, <3>2
  <2>3. no + 1 \in Reached
    BY <2>1, <2>2 DEF Reached
  <2> QED
    BY <1>1, <2>1, <2>3, DeepestIs
<1> QED
  BY <1>1, <1>2, <1>3

\* What a measurement does to the sums.
LEMMA Measured ==
  ASSUME SumTypes, Measure
  PROVE  /\ now \in Nat /\ past < now /\ past' = now /\ now' = now /\ up' = up /\ failed' = failed
         /\ \A no \in Level :
              /\ last'[no] \in BOOLEAN
              /\ handed'[no] = IF no < Deepest THEN now ELSE handed[no]
              /\ divided'[no] =
                    IF no < Deepest
                    THEN Append(divided[no], [rows |-> Cardinality(total[no]), by |-> count[no]])
                    ELSE divided[no]
              /\ \/ total'[no] = {} /\ no + 1 = Deepest
                 \/ total'[no] = total[no] /\ count'[no] = count[no]
                 \/ /\ total'[no] = total[no] \cup {now} /\ count'[no] = count[no] + 1
                    /\ Deepest <= no
              /\ count'[no] \in {count[no], count[no] + 1}
         /\ last' \in [Level -> BOOLEAN] /\ total' \in [Level -> SUBSET Nat]
         /\ count' \in [Level -> Nat] /\ handed' \in [Level -> Nat]
         /\ DOMAIN divided' = Level
         /\ \/ cur' = Deepest
            \/ cur' = Before(Deepest) /\ \A no \in Level : no + 1 = Deepest => total'[no] = {}
<1> DEFINE sums == [no \in Level |-> total[no] \union (IF Sums(no) THEN {now} ELSE {})]
           first == ~last[Deepest]
<1>1. /\ past < now /\ past' = now /\ now' = now /\ up' = up /\ failed' = failed
      /\ last' = [no \in Level |-> last[no] \/ no \in Reached]
      /\ total' = (IF first THEN DropTotal(Deepest - 1, sums) ELSE sums)
      /\ cur' = (IF first THEN Before(Deepest) ELSE Deepest)
      /\ count' = [no \in Level |-> PlusCount(no)]
      /\ handed' = [no \in Level |-> IF HandsOver(no) THEN now ELSE handed[no]]
      /\ divided' = [no \in Level |->
                   IF HandsOver(no)
                   THEN Append(divided[no], [rows |-> Cardinality(total[no]),
                                             by |-> PlusCount(no)])
                   ELSE divided[no]]
  BY DEF Measure
<1>2. now \in Nat /\ Deepest \in Nat /\ \A no \in Level : no \in Nat /\ (HandsOver(no) <=> no < Deepest)
  BY HandsOverIs, LevelIs DEF SumTypes
<1>3. \A no \in Level : Sums(no) => Deepest <= no
  <2> SUFFICES ASSUME NEW no \in Level, Sums(no) PROVE ~HandsOver(no)
    BY <1>2
  <2> QED
    BY DEF Sums, HandsOver
<1>4. \A no \in Level : PlusCount(no) = IF Sums(no) THEN count[no] + 1 ELSE count[no]
  BY DEF PlusCount, SumTypes
<1>5. total' = [no \in Level |-> IF first /\ no + 1 = Deepest THEN {} ELSE sums[no]]
  <2>1. CASE first /\ Deepest - 1 \in Level
    <3>1. total' = [sums EXCEPT ![Deepest - 1] = {}]
      BY <1>1, <2>1 DEF DropTotal
    <3>2. \A no \in Level : no + 1 = Deepest <=> no = Deepest - 1
      BY <1>2
    <3> QED
      BY <2>1, <3>1, <3>2
  <2>2. CASE first /\ Deepest - 1 \notin Level
    <3>1. total' = sums
      BY <1>1, <2>2 DEF DropTotal
    <3>2. \A no \in Level : no + 1 # Deepest
      BY <1>2, <2>2
    <3> QED
      BY <3>1, <3>2
  <2>3. CASE ~first
    BY <1>1, <2>3
  <2> QED
    BY <2>1, <2>2, <2>3
<1> HIDE DEF first
<1>6. total' \in [Level -> SUBSET Nat] /\ count' \in [Level -> Nat] /\ handed' \in [Level -> Nat]
      /\ last' \in [Level -> BOOLEAN] /\ DOMAIN divided' = Level
  <2>1. total' \in [Level -> SUBSET Nat]
    BY <1>2, <1>5 DEF SumTypes
  <2>2. count' \in [Level -> Nat]
    BY <1>1, <1>4 DEF SumTypes
  <2>3. handed' \in [Level -> Nat]
    BY <1>1, <1>2 DEF SumTypes
  <2>4. last' \in [Level -> BOOLEAN] /\ DOMAIN divided' = Level
    BY <1>1 DEF SumTypes
  <2> QED
    BY <2>1, <2>2, <2>3, <2>4
<1>7. ASSUME NEW no \in Level
      PROVE  /\ last'[no] \in BOOLEAN
             /\ handed'[no] = IF no < Deepest THEN now ELSE handed[no]
             /\ divided'[no] =
                   IF no < Deepest
                   THEN Append(divided[no], [rows |-> Cardinality(total[no]), by |-> count[no]])
                   ELSE divided[no]
             /\ \/ total'[no] = {} /\ no + 1 = Deepest
                \/ total'[no] = total[no] /\ count'[no] = count[no]
                \/ /\ total'[no] = total[no] \cup {now} /\ count'[no] = count[no] + 1
                   /\ Deepest <= no
             /\ count'[no] \in {count[no], count[no] + 1}
  <2>1. last'[no] \in BOOLEAN
    BY <1>6
  <2>2. handed'[no] = IF no < Deepest THEN now ELSE handed[no]
    BY <1>1, <1>2
  <2>3. no < Deepest => PlusCount(no) = count[no]
    BY <1>2, <1>3, <1>4
  <2>4. divided'[no] =
                   IF no < Deepest
                   THEN Append(divided[no], [rows |-> Cardinality(total[no]), by |-> count[no]])
                   ELSE divided[no]
    BY <1>1, <1>2, <2>3
  <2>5. count'[no] = IF Sums(no) THEN count[no] + 1 ELSE count[no]
    BY <1>1, <1>4
  <2>6. total'[no] = IF first /\ no + 1 = Deepest THEN {}
                     ELSE IF Sums(no) THEN total[no] \cup {now} ELSE total[no]
    BY <1>5
  <2> QED
    BY <1>3, <2>1, <2>2, <2>4, <2>5, <2>6
<1>8. \/ cur' = Deepest
      \/ cur' = Before(Deepest) /\ \A no \in Level : no + 1 = Deepest => total'[no] = {}
  BY <1>1, <1>5
<1> QED
  BY <1>1, <1>2, <1>6, <1>7, <1>8

\* run_s_l: the sums grow by this row, and those below the deepest level are handed over.
LEMMA MeasureStep ==
  ASSUME SumsInv, Measure
  PROVE  SumsInv'
<1>1. SumTypes /\ Summed /\ Dropped /\ HandedOver /\ Counted /\ FirstAverageExact /\ cur = Idle
  BY DEF SumsInv, Measure
<1>2. /\ now \in Nat /\ past < now /\ past' = now /\ now' = now /\ up' = up /\ failed' = failed
      /\ last' \in [Level -> BOOLEAN] /\ total' \in [Level -> SUBSET Nat]
      /\ count' \in [Level -> Nat] /\ handed' \in [Level -> Nat]
      /\ DOMAIN divided' = Level
      /\ \/ cur' = Deepest
         \/ cur' = Before(Deepest) /\ \A no \in Level : no + 1 = Deepest => total'[no] = {}
  BY <1>1, Measured
<1>3. ASSUME NEW no \in Level
      PROVE  /\ handed'[no] = IF no < Deepest THEN now ELSE handed[no]
             /\ divided'[no] =
                   IF no < Deepest
                   THEN Append(divided[no], [rows |-> Cardinality(total[no]), by |-> count[no]])
                   ELSE divided[no]
             /\ \/ total'[no] = {} /\ no + 1 = Deepest
                \/ total'[no] = total[no] /\ count'[no] = count[no]
                \/ /\ total'[no] = total[no] \cup {now} /\ count'[no] = count[no] + 1
                   /\ Deepest <= no
  BY <1>1, Measured
<1>4. Deepest \in Level /\ Deepest \in Nat
  BY HandsOverIs
<1>5. ASSUME NEW no \in Level
      PROVE  /\ no \in Nat /\ handed[no] \in Nat /\ past \in Nat /\ count[no] \in Nat
             /\ Cardinality(total[no]) \in Nat /\ handed[no] <= past
  BY <1>1, LevelIs, FS_CardinalityType DEF SumTypes, Summed
<1>a. ASSUME NEW no \in Level, NEW s \in total[no] PROVE s \in Nat /\ s <= past
  <2>1. total[no] \subseteq Nat
    BY <1>1 DEF SumTypes
  <2> QED
    BY <1>1, <2>1 DEF Summed
<1>b. ASSUME NEW no \in Level PROVE IsFiniteSet(total[no])
  BY <1>1 DEF Summed
<1>c. ASSUME NEW no \in Level PROVE divided[no] \in Seq(Average)
  BY <1>1 DEF SumTypes
<1>d. ASSUME NEW no \in Level
      PROVE  \E x \in Average :
               /\ x.rows = Cardinality(total[no]) /\ x.by = count[no]
               /\ divided'[no] = IF no < Deepest THEN Append(divided[no], x) ELSE divided[no]
  <2>1. [rows |-> Cardinality(total[no]), by |-> count[no]] \in Average
    BY <1>5 DEF Average
  <2> QED
    BY <1>3, <2>1
<1>f. ASSUME NEW no \in Level
      PROVE  /\ divided'[no] \in Seq(Average)
             /\ no < Deepest => divided'[no] # <<>>
             /\ ~(no < Deepest) => divided'[no] = divided[no]
  <2>1. PICK x \in Average :
           divided'[no] = IF no < Deepest THEN Append(divided[no], x) ELSE divided[no]
    BY <1>d
  <2>2. Append(divided[no], x) \in Seq(Average) /\ Append(divided[no], x) # <<>>
    BY <1>c, AppendProperties
  <2> QED
    BY <1>c, <2>1, <2>2
<1>e. ASSUME NEW no \in Level
      PROVE  /\ handed'[no] = IF no < Deepest THEN now ELSE handed[no]
             /\ \/ total'[no] = {} /\ no + 1 = Deepest
                \/ total'[no] = total[no] /\ count'[no] = count[no]
                \/ /\ total'[no] = total[no] \cup {now} /\ count'[no] = count[no] + 1
                   /\ Deepest <= no
  BY <1>3
<1>6. cur' \in Level \cup {Idle} /\ (cur' # Idle => cur' <= Deepest)
      /\ \A no \in Level : cur' = Idle \/ cur' <= no => Deepest <= no \/ (no + 1 = Deepest /\ total'[no] = {})
  <2>1. CASE cur' = Deepest
    BY <1>4, <2>1, LevelIs
  <2>2. CASE cur' = Before(Deepest) /\ Deepest = 0 /\ \A no \in Level : no + 1 = Deepest => total'[no] = {}
    BY <1>4, <1>5, <2>2, LevelIs DEF Before
  <2>3. CASE cur' = Before(Deepest) /\ Deepest # 0 /\ \A no \in Level : no + 1 = Deepest => total'[no] = {}
    <3>1. cur' = Deepest - 1 /\ cur' \in Level /\ cur' # Idle
      BY <1>4, <2>3, LevelIs DEF Before
    <3>2. cur' <= Deepest
      BY <1>4, <3>1
    <3>3. \A no \in Level : cur' <= no => Deepest <= no \/ no + 1 = Deepest
      BY <1>4, <1>5, <3>1
    <3> QED
      BY <2>3, <3>1, <3>2, <3>3
  <2> QED
    BY <1>2, <2>1, <2>2, <2>3
<1>7. SumTypes'
  <2>1. ASSUME NEW no \in Level PROVE divided'[no] \in Seq(Average)
    BY <1>f
  <2>2. divided' \in [Level -> Seq(Average)]
    <3>1. divided' = [no \in Level |-> divided'[no]]
      BY DEF Measure
    <3> QED
      BY <2>1, <3>1
  <2> QED
    BY <1>2, <1>6, <2>2 DEF SumTypes
<1>8. Summed'
  <2> SUFFICES ASSUME NEW no \in Level
               PROVE  handed'[no] <= past' /\ IsFiniteSet(total'[no]) /\ \A s \in total'[no] : s <= past'
    BY DEF Summed
  <2>1. handed'[no] <= past'
    BY <1>2, <1>5, <1>e
  <2>2. IsFiniteSet({}) /\ IsFiniteSet(total[no] \cup {now})
    BY <1>b, FS_EmptySet, FS_AddElement
  <2>3. IsFiniteSet(total'[no])
    BY <1>b, <1>e, <2>2
  <2>4. \A s \in total'[no] : s = now \/ s \in total[no]
    BY <1>e
  <2> QED
    BY <1>2, <1>5, <1>a, <2>1, <2>3, <2>4
<1>9. Dropped'
  <2> SUFFICES ASSUME ~failed, NEW no \in Level, cur' = Idle \/ cur' <= no, NEW s \in total'[no]
               PROVE  s > handed'[no]
    BY <1>2 DEF Dropped
  <2>1. Deepest <= no
    BY <1>6
  <2>2. handed'[no] = handed[no] /\ (s \in total[no] \/ s = now)
    BY <1>4, <1>5, <1>e, <2>1
  <2>3. s \in total[no] => s > handed[no]
    BY <1>1 DEF Dropped
  <2> QED
    BY <1>2, <1>5, <1>a, <2>2, <2>3
<1>10. HandedOver'
  <2> SUFFICES ASSUME cur' # Idle, NEW no \in Level, no < cur' PROVE divided'[no] # <<>>
    BY DEF HandedOver
  <2>1. no < Deepest
    <3>1. cur' \in Nat
      BY <1>6, LevelIs
    <3> QED
      BY <1>4, <1>5, <1>6, <3>1
  <2> QED
    BY <1>f, <2>1
<1>11. Counted'
  <2> SUFFICES ASSUME NEW no \in Level, divided'[no] = <<>> PROVE count'[no] = Cardinality(total'[no])
    BY DEF Counted
  <2>1. ~(no < Deepest) /\ divided[no] = <<>>
    BY <1>f
  <2>2. count[no] = Cardinality(total[no]) /\ no + 1 # Deepest
    <3>1. count[no] = Cardinality(total[no])
      BY <1>1, <2>1 DEF Counted
    <3>2. no + 1 # Deepest
      BY <1>4, <1>5, <2>1
    <3> QED
      BY <3>1, <3>2
  <2>3. Cardinality(total[no] \cup {now}) = Cardinality(total[no]) + 1
    <3>1. now \notin total[no]
      BY <1>2, <1>5, <1>a
    <3> QED
      BY <1>b, <3>1, FS_AddElement
  <2> QED
    BY <1>e, <2>2, <2>3
<1>12. FirstAverageExact'
  <2> SUFFICES ASSUME NEW no \in Level, divided'[no] # <<>> PROVE divided'[no][1].rows = divided'[no][1].by
    BY DEF FirstAverageExact
  <2>1. PICK x \in Average : /\ x.rows = Cardinality(total[no]) /\ x.by = count[no]
                              /\ divided'[no] = IF no < Deepest THEN Append(divided[no], x)
                                                ELSE divided[no]
    BY <1>d
  <2>2. CASE divided[no] = <<>>
    <3>1. divided'[no] = Append(divided[no], x)
      BY <2>1, <2>2
    <3>2. divided'[no][1] = x
      BY <2>2, <3>1
    <3>3. count[no] = Cardinality(total[no])
      BY <1>1, <2>2 DEF Counted
    <3> QED
      BY <2>1, <3>2, <3>3
  <2>3. CASE divided[no] # <<>>
    <3>1. divided'[no][1] = divided[no][1]
      BY <1>c, <2>1, <2>3
    <3> QED
      BY <1>1, <2>3, <3>1 DEF FirstAverageExact
  <2> QED
    BY <2>2, <2>3
<1> QED
  BY <1>7, <1>8, <1>9, <1>10, <1>11, <1>12 DEF SumsInv

\* The save of a level is complete: the level before drops its sum and is next.
LEMMA RenameTempStep ==
  ASSUME SumsInv, RenameTemp
  PROVE  SumsInv'
<1>1. /\ SumTypes /\ Summed /\ Dropped /\ HandedOver /\ Counted /\ FirstAverageExact
      /\ up /\ cur \in Level /\ cur \in Nat /\ cur' = Before(cur) /\ total' = DropTotal(cur - 1, total)
      /\ UNCHANGED <<now, up, past, last, count, handed, divided, failed>>
  BY LevelIs DEF SumsInv, RenameTemp, Saving, SumTypes
<1>2. total' = [no \in Level |-> IF no + 1 = cur THEN {} ELSE total[no]]
  <2>1. \A no \in Level : no + 1 = cur <=> no = cur - 1
    BY <1>1, LevelIs
  <2> QED
    BY <1>1, <2>1 DEF DropTotal, SumTypes
<1>3. /\ cur' \in Level \cup {Idle} /\ (cur' # Idle => cur' + 1 = cur /\ cur' \in Nat)
      /\ \A no \in Level : cur' = Idle \/ cur' <= no => cur <= no \/ no + 1 = cur
  <2>1. CASE cur = 0
    BY <1>1, <2>1, LevelIs DEF Before
  <2>2. CASE cur # 0
    <3>1. cur' = cur - 1 /\ cur' \in Level /\ cur' # Idle
      BY <1>1, <2>2, LevelIs DEF Before
    <3> QED
      BY <1>1, <3>1, LevelIs
  <2> QED
    BY <2>1, <2>2
<1>4. SumTypes'
  BY <1>1, <1>2, <1>3 DEF SumTypes
<1>5. Summed'
  <2>1. IsFiniteSet({})
    BY FS_EmptySet
  <2> QED
    BY <1>1, <1>2, <2>1 DEF Summed
<1>6. Dropped'
  <2> SUFFICES ASSUME ~failed, NEW no \in Level, cur' = Idle \/ cur' <= no, NEW s \in total'[no]
               PROVE  s > handed[no]
    BY <1>1 DEF Dropped
  <2>1. cur <= no /\ s \in total[no]
    BY <1>2, <1>3
  <2> QED
    BY <1>1, <2>1 DEF Dropped
<1>7. HandedOver'
  <2> SUFFICES ASSUME cur' # Idle, NEW no \in Level, no < cur' PROVE divided[no] # <<>>
    BY <1>1 DEF HandedOver
  <2>1. no < cur /\ cur # Idle
    BY <1>1, <1>3, LevelIs
  <2> QED
    BY <1>1, <2>1 DEF HandedOver
<1>8. Counted'
  <2> SUFFICES ASSUME NEW no \in Level, divided[no] = <<>> PROVE count[no] = Cardinality(total'[no])
    BY <1>1 DEF Counted
  <2>1. no + 1 # cur
    <3>1. no + 1 = cur => no < cur /\ cur # Idle
      BY <1>1, LevelIs
    <3> QED
      BY <1>1, <3>1 DEF HandedOver
  <2> QED
    BY <1>1, <1>2, <2>1 DEF Counted
<1>9. FirstAverageExact'
  BY <1>1 DEF FirstAverageExact
<1> QED
  BY <1>4, <1>5, <1>6, <1>7, <1>8, <1>9 DEF SumsInv

\* A process that is started, or was killed, has no sums.
Fresh ==
    /\ now \in Nat /\ past = 0 /\ last = Each(FALSE) /\ total = Each({}) /\ count = Each(0)
    /\ handed = Each(0) /\ divided = Each(<<>>) /\ cur = Idle

\* Without sums all that is said of them holds.
LEMMA NoSums == Fresh => SumsInv
<1> SUFFICES ASSUME Fresh PROVE SumsInv
  OBVIOUS
<1> USE DEF Fresh
<1>1. \A no \in Level : /\ last[no] = FALSE /\ total[no] = {} /\ count[no] = 0
                        /\ handed[no] = 0 /\ divided[no] = <<>>
  BY DEF Each
<1>2. IsFiniteSet({}) /\ Cardinality({}) = 0
  BY FS_EmptySet
<1>3. SumTypes
  <2>1. \A v, S : v \in S => Each(v) \in [Level -> S]
    BY DEF Each
  <2>2. /\ FALSE \in BOOLEAN /\ {} \in SUBSET Nat /\ 0 \in Nat /\ <<>> \in Seq(Average)
    OBVIOUS
  <2>3. now \in Nat /\ past \in Nat /\ past <= now
    OBVIOUS
  <2>4. last \in [Level -> BOOLEAN] /\ total \in [Level -> SUBSET Nat]
    BY <2>1, <2>2
  <2>5. count \in [Level -> Nat] /\ handed \in [Level -> Nat] /\ divided \in [Level -> Seq(Average)]
    BY <2>1, <2>2
  <2> QED
    BY <2>2, <2>3, <2>4, <2>5 DEF SumTypes
<1>4. Summed
  <2>0. past = 0 /\ 0 <= 0
    OBVIOUS
  <2>1. \A no \in Level : handed[no] <= past
    <3> TAKE no \in Level
    <3>1. handed[no] = 0
      BY <1>1
    <3> HIDE DEF Fresh
    <3> QED
      BY <2>0, <3>1
  <2>2. \A no \in Level : IsFiniteSet(total[no]) /\ \A s \in total[no] : s <= past
    BY <1>1, <1>2
  <2> QED
    BY <2>1, <2>2 DEF Summed
<1>5. Dropped
  BY <1>1 DEF Dropped
<1>6. HandedOver
  BY DEF HandedOver
<1>7. Counted
  BY <1>1, <1>2 DEF Counted
<1>8. FirstAverageExact
  BY <1>1 DEF FirstAverageExact
<1> QED
  BY <1>3, <1>4, <1>5, <1>6, <1>7, <1>8 DEF SumsInv

\* The steps of a save, the clock and a restart change no sum.
LEMMA QuietStep ==
  ASSUME SumsInv, now' \in Nat, now <= now',
         UNCHANGED <<past, last, total, count, handed, divided, cur, failed>>
  PROVE  SumsInv'
<1>1. SumTypes'
  <2>1. past \in Nat /\ now \in Nat /\ past <= now
    BY DEF SumsInv, SumTypes
  <2>2. past <= now'
    BY <2>1
  <2> QED
    BY <2>2 DEF SumsInv, SumTypes
<1>2. Summed' /\ Dropped' /\ HandedOver' /\ Counted' /\ FirstAverageExact'
  BY DEF SumsInv, Summed, Dropped, HandedOver, Counted, FirstAverageExact
<1> QED
  BY <1>1, <1>2 DEF SumsInv

\* A save that fails leaves the sums of the levels before it.
LEMMA SaveFailsStep ==
  ASSUME SumsInv, SaveFails
  PROVE  SumsInv'
<1>1. /\ cur' = Idle /\ failed'
      /\ UNCHANGED <<now, past, last, total, count, handed, divided>>
  BY DEF SaveFails
<1>2. SumTypes'
  BY <1>1 DEF SumsInv, SumTypes
<1>3. Summed' /\ Dropped' /\ HandedOver' /\ Counted' /\ FirstAverageExact'
  BY <1>1 DEF SumsInv, Summed, Dropped, HandedOver, Counted, FirstAverageExact
<1> QED
  BY <1>2, <1>3 DEF SumsInv

\* The process starts with no sums.
LEMMA SumsInitially ==
  ASSUME HistoryInit
  PROVE  SumsInv
<1>1. Fresh
  BY HistoryAssumption DEF HistoryInit, Fresh
<1> QED
  BY <1>1, NoSums

\* Every step of the monitor keeps what is said of the sums.
LEMMA SumsStep ==
  ASSUME SumsInv, [HistoryNext]_historyvars
  PROVE  SumsInv'
<1> USE DEF mem, disk, ghost
<1>0. now \in Nat
  BY DEF SumsInv, SumTypes
<1>1. CASE Measure
  BY <1>1, MeasureStep
<1>2. CASE OpenTemp
  BY <1>0, <1>2, QuietStep DEF OpenTemp
<1>3. CASE WriteRow
  BY <1>0, <1>3, QuietStep DEF WriteRow
<1>4. CASE RemoveOld
  BY <1>0, <1>4, QuietStep DEF RemoveOld
<1>5. CASE RenameTemp
  BY <1>5, RenameTempStep
<1>6. CASE SaveFails
  BY <1>6, SaveFailsStep
<1>7. CASE Crash
  <2>1. Fresh'
    BY <1>0, <1>7 DEF Crash, Fresh
  <2> QED
    BY <2>1, NoSums, PTL
<1>8. CASE Ready
  BY <1>0, <1>8, QuietStep DEF Ready
<1>9. CASE Clock
  BY <1>0, <1>9, QuietStep DEF Clock
<1>10. CASE UNCHANGED historyvars
  BY <1>0, <1>10, QuietStep DEF historyvars
<1> QED
  BY <1>1, <1>2, <1>3, <1>4, <1>5, <1>6, <1>7, <1>8, <1>9, <1>10 DEF HistoryNext

\* run_s_l: a row is summed up into one average only, unless the save that should have
\* dropped the sum fails, and the first average is one over what was summed up.
THEOREM AveragesCorrect == HistorySpec => []AveragesExact
<1>1. SumsInv => AveragesExact
  BY DEF SumsInv, AveragesExact, CountedOnce, Dropped
<1> QED
  BY <1>1, SumsInitially, SumsStep, PTL DEF HistorySpec
=============================================================================
