-------------------------- MODULE SharedPtr_proofs --------------------------
(***************************************************************************)
(* Proofs about SharedPtr, for every set of threads, objects and places:   *)
(* the count of an object is exact in every interleaving, nothing is used  *)
(* after its delete or deleted twice, and nothing is leaked.               *)
(***************************************************************************)
EXTENDS SharedPtr, FiniteSetTheorems, TLAPS

\* The places thread t alone may change: its own variables, and the cells while it
\* is inside the container's lock.
Owns(t, p) == (p \in Locals \cup Docks /\ Home(p) = t) \/ (p \in Cells /\ lock = t)

\* Where thread t stands: the place its operation works on is its own, its
\* right-hand side is one it may name, and the pointers are as the last step left
\* them.
OpAt(t) ==
    /\ pc[t] = "idle" => dst[t] = NULL /\ src[t] = NULL
    /\ pc[t] # "idle" => dst[t] \in Locals \cup Docks /\ Home(dst[t]) = t
    /\ src[t] # NULL => Mine(t, src[t])
    /\ pc[t] \in {"inc", "dec", "delete", "clear", "steal"} => ptr[dst[t]] # NULL
    /\ pc[t] \in {"dec", "delete", "clear"} /\ src[t] # NULL => dst[t] \in Locals
    /\ pc[t] = "load" => dst[t] \in Locals /\ ptr[dst[t]] = NULL /\ src[t] # NULL
    /\ pc[t] = "steal" => dst[t] \in Docks /\ src[t] \in Cells /\ ptr[src[t]] = NULL
    /\ pc[t] = "dock" => dst[t] \in Locals /\ src[t] \in Cells /\ ptr[src[t]] # NULL
    /\ pc[t] = "inc" =>
          IF src[t] = NULL THEN dst[t] \in Locals
          ELSE src[t] \in Cells /\ (ptr[src[t]] = NULL <=> dst[t] \in Docks)

\* The temporary `dock' is empty but inside the operation that uses it.
DocksIdle == \A d \in Docks : ptr[d] # NULL => dst[Home(d)] = d

\* An object about to be counted is kept alive: it is new, and known to nobody
\* else, or the thread that counts it owns another reference meanwhile.
Supported(t) ==
    pc[t] = "inc" =>
        /\ mem[ptr[dst[t]]] = "live"
        /\ \/ /\ ref[ptr[dst[t]]] = 0
              /\ \A p \in Places : ptr[p] = ptr[dst[t]] => p = dst[t]
           \/ \E q \in Places : q # dst[t] /\ Mine(t, q) /\ ptr[q] = ptr[dst[t]]

\* An object about to be deleted is live, owned by nobody, and deleted by one thread.
Deletes(t) ==
    pc[t] = "delete" =>
        /\ mem[ptr[dst[t]]] = "live" /\ ref[ptr[dst[t]]] = 0
        /\ \A u \in Threads \ {t} : pc[u] = "delete" => ptr[dst[u]] # ptr[dst[t]]

\* Memory that was not allocated is pointed to by nobody.
NotYet == \A o \in Objects : mem[o] = "none" => \A p \in Places : ptr[p] # o

\* What a place owns is live; and its count is exact.
HeldLive == \A o \in Objects : Holders(o) # {} => mem[o] = "live"

\* A count is never negative, also of memory not yet or no longer in use.
Exact == \A o \in Objects :
            IF mem[o] = "live" THEN ref[o] = Cardinality(Holders(o)) ELSE ref[o] = 0

\* The inductive invariant.
IInv ==
    /\ TypeOK
    /\ \A t \in Threads : OpAt(t) /\ Supported(t) /\ Deletes(t)
    /\ DocksIdle /\ NotYet /\ HeldLive /\ Exact /\ NoLeak

USE PlacesAssumption DEF Places

\* The operations that have not counted their place yet, or no longer count it.
Between == {"inc", "delete", "clear"}

\* The strengthened invariant holds initially.
LEMMA InitIInv == Init => IInv
  <1> SUFFICES ASSUME Init PROVE IInv
    OBVIOUS
  <1>1. \A o \in Objects : Holders(o) = {} /\ mem[o] = "none" /\ ref[o] = 0
    BY DEF Init, Holders
  <1>2. TypeOK
    BY DEF Init, TypeOK
  <1>3. \A t \in Threads : OpAt(t) /\ Supported(t) /\ Deletes(t)
    BY DEF Init, OpAt, Supported, Deletes
  <1>4. DocksIdle /\ NotYet
    BY DEF Init, DocksIdle, NotYet
  <1> QED
    BY <1>1, <1>2, <1>3, <1>4 DEF IInv, HeldLive, Exact, NoLeak

-----------------------------------------------------------------------------
\* A place is worked on by one thread only.
LEMMA WorkedOnBy ==
  ASSUME IInv, NEW t \in Threads, dst[t] # NULL
  PROVE  dst[t] \in Locals \cup Docks /\ Home(dst[t]) = t /\ pc[t] # "idle"
  BY DEF IInv, OpAt

\* Changing the operation of one thread changes who counts for its place only.
LEMMA GotoUncounted ==
  ASSUME IInv, NEW t \in Threads, NEW l, NEW d, NEW s, Goto(t, l, d, s),
         d = NULL \/ (d \in Locals \cup Docks /\ Home(d) = t)
  PROVE  \A p \in Places : Uncounted(p)' <=> IF p = d THEN l \in Between
                                            ELSE p # dst[t] /\ Uncounted(p)
  <1>1. /\ pc'[t] = l /\ dst'[t] = d
        /\ \A u \in Threads : u # t => pc'[u] = pc[u] /\ dst'[u] = dst[u]
    BY DEF Goto, IInv, TypeOK
  <1>2. \A u \in Threads : dst[u] # NULL => dst[u] \in Locals \cup Docks /\ Home(dst[u]) = u
    BY WorkedOnBy
  <1> SUFFICES ASSUME NEW p \in Places
               PROVE  Uncounted(p)' <=> IF p = d THEN l \in Between
                                        ELSE p # dst[t] /\ Uncounted(p)
    OBVIOUS
  <1>3. CASE p = d
    BY <1>1, <1>2, <1>3 DEF Uncounted, Between
  <1>4. CASE p # d
    BY <1>1, <1>2, <1>4 DEF Uncounted
  <1> QED
    BY <1>3, <1>4

\* A place of a thread counts, unless the thread's own operation says otherwise.
LEMMA OwnCounts ==
  ASSUME IInv, NEW t \in Threads, NEW q \in Places, Owns(t, q),
         q # dst[t] \/ pc[t] \notin Between
  PROVE  ~Uncounted(q)
  BY WorkedOnBy DEF Owns, Uncounted, Between

\* A live object with an owner has a positive count; with the count 1 it has no
\* other owner.
LEMMA HeldCount ==
  ASSUME IInv, NEW o \in Objects, NEW q \in Holders(o)
  PROVE  /\ mem[o] = "live" /\ ref[o] \in Nat \ {0}
         /\ ref[o] = Cardinality(Holders(o))
         /\ ref[o] = 1 => Holders(o) = {q}
  <1>1. mem[o] = "live" /\ ref[o] = Cardinality(Holders(o)) /\ ref[o] \in Nat
    BY DEF IInv, HeldLive, Exact, TypeOK
  <1>2. IsFiniteSet(Holders(o))
    BY FS_Subset DEF Holders
  <1>3. Cardinality(Holders(o)) # 0
    BY <1>2, FS_EmptySet
  <1>4. Cardinality(Holders(o)) = 1 => \E x : Holders(o) = {x}
    BY <1>2, FS_Singleton
  <1> QED
    BY <1>1, <1>3, <1>4

\* Two threads do not work on the same place or share a place of their own.
LEMMA OwnsUnique ==
  ASSUME NEW t \in Threads, NEW u \in Threads, NEW p \in Places, Owns(t, p), Owns(u, p)
  PROVE  t = u
  BY DEF Owns

-----------------------------------------------------------------------------
\* What every step of thread t does to the others: pointers change only in its own
\* places, and take a value one of its places had or one nobody has; counts change
\* only of objects its places point to; and only "delete" ends a life.
Local(t) ==
    /\ \A p \in Places : ~Owns(t, p) => ptr'[p] = ptr[p]
    /\ \A p \in Places : \/ ptr'[p] = ptr[p] \/ ptr'[p] = NULL
                         \/ ptr'[p] \in Objects /\ mem[ptr'[p]] = "none"
                         \/ \E q \in Places : Owns(t, q) /\ ptr[q] = ptr'[p]
    /\ \A o \in Objects : ref'[o] = ref[o] \/ \E q \in Places : Owns(t, q) /\ ptr[q] = o
    /\ \A o \in Objects : mem[o] = "live" =>
          mem'[o] = "live" \/ (pc[t] = "delete" /\ ptr[dst[t]] = o)
    /\ lock' = lock

\* An object somebody is about to count is not one that somebody is about to delete.
LEMMA IncIsNotDeleted ==
  ASSUME IInv, NEW t \in Threads, NEW u \in Threads, pc[t] = "delete", pc[u] = "inc"
  PROVE  ptr[dst[u]] # ptr[dst[t]]
  <1> SUFFICES ASSUME ptr[dst[u]] = ptr[dst[t]] PROVE FALSE
    OBVIOUS
  <1> DEFINE o == ptr[dst[t]]
  <1>1. t # u /\ dst[t] # dst[u] /\ dst[t] \in Places /\ dst[u] \in Places
    BY DEF IInv, OpAt
  <1>2. o \in Objects /\ ref[o] = 0
    BY <1>1 DEF IInv, TypeOK, OpAt, Deletes
  <1>3. PICK q \in Places : q # dst[u] /\ Mine(u, q) /\ ptr[q] = o
    BY <1>1 DEF IInv, Supported
  <1>4. q \in Holders(o)
    BY <1>3, OwnCounts DEF Owns, Mine, Holders
  <1> QED
    BY <1>2, <1>4, HeldCount

\* The operations of the other threads stand where they stood.
LEMMA OthersKeep ==
  ASSUME IInv, NEW t \in Threads, NEW l, NEW d, NEW s, Goto(t, l, d, s), Local(t),
         NEW u \in Threads, u # t
  PROVE  OpAt(u)' /\ Supported(u)' /\ pc'[u] = pc[u] /\ dst'[u] = dst[u]
  <1>1. pc'[u] = pc[u] /\ dst'[u] = dst[u] /\ src'[u] = src[u]
    BY DEF Goto, IInv, TypeOK
  <1>2. \A p \in Places : Owns(u, p) => ptr'[p] = ptr[p]
    BY OwnsUnique DEF Local
  <1>3. pc[u] # "idle" => dst[u] \in Places /\ Owns(u, dst[u])
    BY DEF IInv, OpAt, Owns
  <1>4. \A p \in Places : Mine(u, p) => Owns(u, p) /\ Mine(u, p)'
    BY DEF Mine, Owns, Local
  <1>5. src[u] # NULL => src[u] \in Places /\ Owns(u, src[u]) /\ Mine(u, src[u])'
    BY <1>1, <1>4 DEF IInv, TypeOK, OpAt, Mine
  <1>6. pc[u] # "idle" => ptr'[dst[u]] = ptr[dst[u]]
    BY <1>2, <1>3
  <1>7. src[u] # NULL => ptr'[src[u]] = ptr[src[u]]
    BY <1>2, <1>5
  <1>8. OpAt(u)'
    <2>1. OpAt(u)
      BY DEF IInv
    <2>2. src'[u] # NULL => Mine(u, src[u])'
      BY <1>1, <1>5
    <2> QED
      BY <1>1, <1>6, <1>7, <2>1, <2>2 DEF OpAt, Mine
  <1>9. Supported(u)'
    <2> SUFFICES ASSUME pc[u] = "inc"
                 PROVE  /\ mem'[ptr'[dst[u]]] = "live"
                        /\ \/ /\ ref'[ptr'[dst[u]]] = 0
                              /\ \A p \in Places : ptr'[p] = ptr'[dst[u]] => p = dst[u]
                           \/ \E q \in Places : q # dst[u] /\ Mine(u, q)' /\ ptr'[q] = ptr'[dst[u]]
      BY <1>1 DEF Supported, Mine
    <2> DEFINE o == ptr[dst[u]]
    <2>1. /\ ptr'[dst[u]] = o /\ o \in Objects /\ mem[o] = "live"
          /\ dst[u] \in Places /\ Owns(u, dst[u])
      BY <1>3, <1>6 DEF IInv, TypeOK, OpAt, Supported
    <2>2. mem'[o] = "live"
      BY <2>1, IncIsNotDeleted DEF Local
    <2>3. CASE ref[o] = 0 /\ \A p \in Places : ptr[p] = o => p = dst[u]
      <3>1. \A q \in Places : Owns(t, q) => ptr[q] # o
        BY <2>1, <2>3, OwnsUnique
      <3>2. ref'[o] = 0
        BY <2>1, <2>3, <3>1 DEF Local
      <3>3. \A p \in Places : ptr'[p] = o => p = dst[u]
        BY <2>1, <2>3, <3>1 DEF Local
      <3> QED
        BY <2>1, <2>2, <3>2, <3>3
    <2>4. CASE \E q \in Places : q # dst[u] /\ Mine(u, q) /\ ptr[q] = o
      BY <1>2, <1>4, <2>1, <2>2, <2>4
    <2> QED
      BY <2>1, <2>3, <2>4 DEF IInv, Supported
  <1> QED
    BY <1>1, <1>8, <1>9

\* What is about to be deleted stays so, and is deleted once.
LEMMA DeletesKeep ==
  ASSUME IInv, NEW t \in Threads, NEW l, NEW d, NEW s, Goto(t, l, d, s), Local(t),
         \A u \in Threads \ {t} : pc[u] = "delete" =>
            /\ ref'[ptr[dst[u]]] = ref[ptr[dst[u]]] /\ mem'[ptr[dst[u]]] = mem[ptr[dst[u]]]
            /\ l = "delete" => ptr[dst[u]] # ptr'[d],
         l = "delete" => mem'[ptr'[d]] = "live" /\ ref'[ptr'[d]] = 0
  PROVE  \A u \in Threads : Deletes(u)'
  <1>1. /\ pc'[t] = l /\ dst'[t] = d
        /\ \A u \in Threads \ {t} : pc'[u] = pc[u] /\ dst'[u] = dst[u]
    BY DEF Goto, IInv, TypeOK
  <1>2. ASSUME NEW u \in Threads \ {t}, pc[u] = "delete" PROVE ptr'[dst[u]] = ptr[dst[u]]
    <2>1. dst[u] \in Places /\ Owns(u, dst[u])
      BY <1>2 DEF IInv, OpAt, Owns
    <2> QED
      BY <2>1, OwnsUnique DEF Local
  <1> SUFFICES ASSUME NEW u \in Threads, pc'[u] = "delete"
               PROVE  /\ mem'[ptr'[dst'[u]]] = "live" /\ ref'[ptr'[dst'[u]]] = 0
                      /\ \A v \in Threads \ {u} : pc'[v] = "delete" =>
                            ptr'[dst'[v]] # ptr'[dst'[u]]
    BY DEF Deletes
  <1>3. CASE u = t
    BY <1>1, <1>2, <1>3
  <1>4. CASE u # t
    <2>1. pc[u] = "delete" /\ dst'[u] = dst[u] /\ ptr'[dst[u]] = ptr[dst[u]] /\ Deletes(u)
      BY <1>1, <1>2, <1>4 DEF IInv
    <2>2. mem'[ptr[dst[u]]] = "live" /\ ref'[ptr[dst[u]]] = 0
      BY <1>4, <2>1 DEF Deletes
    <2>3. ASSUME NEW v \in Threads \ {u}, pc'[v] = "delete" PROVE ptr'[dst'[v]] # ptr[dst[u]]
      <3>1. CASE v = t
        BY <1>1, <1>4, <2>1, <2>3, <3>1
      <3>2. CASE v # t
        BY <1>1, <1>2, <2>1, <2>3, <3>2 DEF Deletes
      <3> QED
        BY <3>1, <3>2
    <2> QED
      BY <2>1, <2>2, <2>3
  <1> QED
    BY <1>3, <1>4

-----------------------------------------------------------------------------
\* A place of a thread takes an object that it will count next: new T(), the copy
\* constructors, the first steps of docking and undocking, the end of operator=.
LEMMA TakeStep ==
  ASSUME IInv, NEW t \in Threads, NEW p \in Locals \cup Docks, Home(p) = t, ptr[p] = NULL,
         NEW o \in Objects, pc[t] \in {"idle", "load"}, dst[t] \in {NULL, p},
         NEW s \in Cells \cup {NULL},
         IF s = NULL THEN p \in Locals ELSE lock = t /\ (ptr[s] = NULL <=> p \in Docks),
         ptr' = [ptr EXCEPT ![p] = o], Goto(t, "inc", p, s), ref' = ref, lock' = lock,
         \/ mem[o] = "none" /\ mem' = [mem EXCEPT ![o] = "live"]
         \/ mem' = mem /\ \E q \in Places : q # p /\ Mine(t, q) /\ ptr[q] = o
  PROVE  IInv'
  <1>1. /\ pc'[t] = "inc" /\ dst'[t] = p /\ src'[t] = s
        /\ \A u \in Threads \ {t} : pc'[u] = pc[u] /\ dst'[u] = dst[u]
        /\ ptr'[p] = o /\ \A r \in Places : r # p => ptr'[r] = ptr[r]
        /\ p \in Places /\ p # NULL
    BY DEF Goto, IInv, TypeOK
  <1>2. TypeOK'
    BY DEF Goto, IInv, TypeOK
  <1>3. /\ \A x \in Objects : mem'[x] # mem[x] => x = o /\ mem[o] = "none" /\ mem'[o] = "live"
        /\ mem'[o] = "live"
    <2>1. CASE mem[o] = "none" /\ mem' = [mem EXCEPT ![o] = "live"]
      BY <2>1 DEF IInv, TypeOK
    <2>2. CASE mem' = mem /\ \E q \in Places : q # p /\ Mine(t, q) /\ ptr[q] = o
      <3>1. PICK q \in Places : q # p /\ Mine(t, q) /\ ptr[q] = o
        BY <2>2
      <3>2. q \in Holders(o)
        <4>1. Owns(t, q) /\ q # dst[t]
          BY <3>1 DEF Mine, Owns
        <4> QED
          BY <3>1, <4>1, OwnCounts DEF Holders
      <3> QED
        BY <2>2, <3>2, HeldCount
    <2> QED
      BY <2>1, <2>2
  <1>4. Local(t)
    <2>1. \A r \in Places : ~Owns(t, r) => ptr'[r] = ptr[r]
      BY <1>1 DEF Owns
    <2>2. mem[o] = "none" \/ \E q \in Places : Owns(t, q) /\ ptr[q] = o
      BY DEF Mine, Owns
    <2> QED
      BY <1>1, <1>3, <2>1, <2>2 DEF Local
  <1>5. \A u \in Threads \ {t} : OpAt(u)' /\ Supported(u)'
    BY <1>4, OthersKeep
  <1>6. OpAt(t)'
    <2>1. s # NULL => Mine(t, s)' /\ ptr'[s] = ptr[s]
      BY <1>1 DEF Mine
    <2> QED
      BY <1>1, <2>1 DEF OpAt, Mine
  <1>7. Supported(t)'
    <2>1. CASE mem[o] = "none"
      <3>1. ref[o] = 0 /\ \A r \in Places : ptr[r] # o
        BY <2>1 DEF IInv, Exact, NotYet
      <3> QED
        BY <1>1, <1>3, <3>1 DEF Supported
    <2>2. CASE \E q \in Places : q # p /\ Mine(t, q) /\ ptr[q] = o
      <3>1. PICK q \in Places : q # p /\ Mine(t, q) /\ ptr[q] = o
        BY <2>2
      <3>2. q # dst'[t] /\ (Mine(t, q))' /\ ptr'[q] = ptr'[dst'[t]]
        BY <1>1, <3>1 DEF Mine
      <3> QED
        BY <1>1, <1>3, <3>2 DEF Supported
    <2> QED
      BY <2>1, <2>2
  <1>8. \A u \in Threads : Deletes(u)'
    <2>1. \A u \in Threads \ {t} : pc[u] = "delete" =>
             ptr[dst[u]] \in Objects /\ mem[ptr[dst[u]]] = "live"
      BY DEF IInv, TypeOK, OpAt, Deletes
    <2> QED
      BY <1>3, <1>4, <2>1, DeletesKeep
  <1>9. DocksIdle'
    <2> SUFFICES ASSUME NEW d \in Docks, ptr'[d] # NULL PROVE dst'[Home(d)] = d
      BY DEF DocksIdle
    <2> QED
      BY <1>1 DEF IInv, DocksIdle
  <1>10. \A x \in Objects : Holders(x)' = Holders(x)
    <2>1. \A r \in Places : Uncounted(r)' <=> IF r = p THEN TRUE ELSE Uncounted(r)
      <3>1. \A r \in Places : Uncounted(r)' <=> IF r = p THEN "inc" \in Between
                                               ELSE r # dst[t] /\ Uncounted(r)
        BY GotoUncounted
      <3> QED
        BY <3>1 DEF Between
    <2> QED
      BY <1>1, <2>1 DEF Holders
  <1>11. NotYet'
    BY <1>1, <1>3 DEF IInv, NotYet
  <1>12. HeldLive' /\ Exact'
    <2>1. mem[o] = "none" => ref[o] = 0 /\ Holders(o) = {}
      BY DEF IInv, Exact, NotYet, Holders
    <2> QED
      BY <1>3, <1>10, <2>1, FS_EmptySet DEF IInv, HeldLive, Exact
  <1>13. NoLeak'
    <2> SUFFICES ASSUME NEW x \in Objects, mem'[x] = "live", ref'[x] = 0
                 PROVE  \E u \in Threads : pc'[u] \in {"inc", "delete"} /\ ptr'[dst'[u]] = x
      BY DEF NoLeak
    <2>1. CASE x = o
      BY <1>1, <2>1
    <2>2. CASE x # o
      <3>1. PICK u \in Threads : pc[u] \in {"inc", "delete"} /\ ptr[dst[u]] = x
        BY <1>3, <2>2 DEF IInv, NoLeak
      <3>2. u # t /\ dst[u] \in Places /\ dst[u] # p
        BY <3>1 DEF IInv, OpAt
      <3> QED
        BY <1>1, <3>1, <3>2
    <2> QED
      BY <2>1, <2>2
  <1> QED
    BY <1>2, <1>5, <1>6, <1>7, <1>8, <1>9, <1>11, <1>12, <1>13 DEF IInv

\* A thread goes on to another step and leaves every pointer and count alone:
\* ~sp(), the beginning of operator=, and its end when the other sp is empty.
LEMMA MoveOnStep ==
  ASSUME IInv, NEW t \in Threads, NEW l \in {"idle", "dec", "load"},
         NEW d \in Places \cup {NULL}, NEW s \in Places \cup {NULL}, Goto(t, l, d, s),
         pc[t] \in {"idle", "load"}, dst[t] \in {NULL, d} \/ d = NULL,
         UNCHANGED <<mem, ref, ptr, lock>>, OpAt(t)'
  PROVE  IInv'
  <1>1. /\ pc'[t] = l /\ dst'[t] = d /\ src'[t] = s
        /\ \A u \in Threads \ {t} : pc'[u] = pc[u] /\ dst'[u] = dst[u]
    BY DEF Goto, IInv, TypeOK
  <1>2. TypeOK'
    BY DEF Goto, IInv, TypeOK
  <1>3. Local(t)
    BY DEF Local
  <1>4. \A u \in Threads \ {t} : OpAt(u)' /\ Supported(u)'
    BY <1>3, OthersKeep
  <1>5. Supported(t)'
    BY <1>1 DEF Supported
  <1>6. \A u \in Threads : Deletes(u)'
    BY <1>3, DeletesKeep
  <1>7. DocksIdle'
    <2> SUFFICES ASSUME NEW e \in Docks, ptr[e] # NULL PROVE dst'[Home(e)] = e
      BY DEF DocksIdle
    <2>1. dst[Home(e)] = e /\ Home(e) \in Threads
      BY DEF IInv, DocksIdle
    <2>2. CASE Home(e) = t
      BY <2>1, <2>2 DEF IInv, OpAt
    <2>3. CASE Home(e) # t
      BY <1>1, <2>1, <2>3
    <2> QED
      BY <2>2, <2>3
  <1>8. \A x \in Objects : Holders(x)' = Holders(x)
    <2>1. d # NULL => d \in Locals \cup Docks /\ Home(d) = t
      BY <1>1 DEF OpAt
    <2>2. \A r \in Places : Uncounted(r)' <=> IF r = d THEN l \in Between
                                             ELSE r # dst[t] /\ Uncounted(r)
      BY <2>1, GotoUncounted
    <2>3. \A r \in Places : Uncounted(r)' <=> Uncounted(r)
      <3>1. \A r \in Places : r = dst[t] \/ r = d => ~Uncounted(r)
        BY <2>1, OwnCounts, WorkedOnBy DEF Owns, Between
      <3> QED
        BY <2>2, <3>1 DEF Between
    <2> QED
      BY <2>3 DEF Holders
  <1>9. NotYet' /\ HeldLive' /\ Exact'
    BY <1>8 DEF IInv, NotYet, HeldLive, Exact
  <1>10. NoLeak'
    <2> SUFFICES ASSUME NEW x \in Objects, mem[x] = "live", ref[x] = 0
                 PROVE  \E u \in Threads : pc'[u] \in {"inc", "delete"} /\ ptr[dst'[u]] = x
      BY DEF NoLeak
    <2>1. PICK u \in Threads : pc[u] \in {"inc", "delete"} /\ ptr[dst[u]] = x
      BY DEF IInv, NoLeak
    <2> QED
      BY <1>1, <2>1
  <1> QED
    BY <1>2, <1>4, <1>5, <1>6, <1>7, <1>9, <1>10 DEF IInv

\* incRefCount(): the place counts from now on.
LEMMA IncStep ==
  ASSUME IInv, NEW t \in Threads, Inc(t)
  PROVE  IInv'
  <1>1. pc[t] = "inc" /\ OpAt(t) /\ Supported(t)
    BY DEF Inc, IInv
  <1>a. PICK p \in Locals \cup Docks : p = dst[t]
    BY <1>1 DEF OpAt
  <1>b. PICK o \in Objects : o = ptr[p]
    BY <1>1, <1>a DEF OpAt, IInv, TypeOK
  <1>2. p = dst[t] /\ o = ptr[p] /\ p \in Places /\ p # NULL /\ Home(p) = t
    BY <1>1, <1>a, <1>b DEF OpAt
  <1>3. mem[o] = "live" /\ ref \in [Objects -> Nat]
    BY <1>1, <1>2 DEF Supported, IInv, TypeOK
  <1>4. PICK l \in {"idle", "steal", "dock"}, d \in {NULL, p}, s \in Places \cup {NULL} :
          /\ Goto(t, l, d, s) /\ s = src[t]
          /\ src[t] = NULL => l = "idle" /\ d = NULL
          /\ src[t] # NULL => d = p /\ l = IF p \in Docks THEN "steal" ELSE "dock"
    <2>1. CASE src[t] = NULL
      BY <1>1, <2>1 DEF Inc
    <2>2. CASE src[t] # NULL
      BY <1>1, <1>2, <2>2 DEF Inc, IInv, TypeOK
    <2> QED
      BY <2>1, <2>2
  <1>5. /\ pc'[t] = l /\ dst'[t] = d /\ src'[t] = s
        /\ \A u \in Threads \ {t} : pc'[u] = pc[u] /\ dst'[u] = dst[u]
        /\ UNCHANGED <<mem, ptr, lock>>
    BY <1>4 DEF Goto, IInv, TypeOK, Inc
  <1>6. /\ ref' = [ref EXCEPT ![o] = @ + 1]
        /\ ref'[o] = ref[o] + 1 /\ \A x \in Objects : x # o => ref'[x] = ref[x]
    BY <1>2, <1>3 DEF Inc
  <1>7. TypeOK'
    BY <1>2, <1>4, <1>5, <1>6 DEF Goto, IInv, TypeOK
  <1>8. Local(t)
    BY <1>2, <1>5, <1>6 DEF Local, Owns
  <1>9. \A u \in Threads \ {t} : OpAt(u)' /\ Supported(u)'
    BY <1>4, <1>8, OthersKeep
  <1>10. OpAt(t)' /\ Supported(t)'
    BY <1>1, <1>2, <1>4, <1>5 DEF OpAt, Supported, Mine
  <1>11. \A u \in Threads : Deletes(u)'
    <2>1. \A u \in Threads \ {t} : pc[u] = "delete" => ptr[dst[u]] # o /\ ptr[dst[u]] \in Objects
      BY <1>1, <1>2, IncIsNotDeleted DEF IInv, OpAt, TypeOK
    <2> QED
      BY <1>4, <1>5, <1>6, <1>8, <2>1, DeletesKeep
  <1>12. DocksIdle'
    <2> SUFFICES ASSUME NEW e \in Docks, ptr[e] # NULL PROVE dst'[Home(e)] = e
      BY <1>5 DEF DocksIdle
    <2>1. dst[Home(e)] = e /\ Home(e) \in Threads
      BY DEF IInv, DocksIdle
    <2>2. CASE Home(e) = t
      BY <1>1, <1>2, <1>4, <1>5, <2>1, <2>2 DEF OpAt
    <2>3. CASE Home(e) # t
      BY <1>5, <2>1, <2>3
    <2> QED
      BY <2>2, <2>3
  <1>13. /\ Holders(o)' = Holders(o) \cup {p} /\ p \notin Holders(o)
         /\ \A x \in Objects : x # o => Holders(x)' = Holders(x)
    <2>1. \A r \in Places : Uncounted(r)' <=> IF r = d THEN l \in Between
                                             ELSE r # dst[t] /\ Uncounted(r)
      BY <1>2, <1>4, GotoUncounted
    <2>2. Uncounted(p) /\ \A r \in Places : Uncounted(r)' <=> r # p /\ Uncounted(r)
      BY <1>1, <1>2, <1>4, <2>1 DEF Between, Uncounted
    <2> QED
      BY <1>2, <1>5, <2>2 DEF Holders
  <1>14. NotYet'
    BY <1>5 DEF IInv, NotYet
  <1>15. HeldLive'
    BY <1>3, <1>5, <1>13 DEF IInv, HeldLive
  <1>16. Exact'
    <2>1. IsFiniteSet(Holders(o))
      BY FS_Subset DEF Holders
    <2>2. Cardinality(Holders(o) \cup {p}) = Cardinality(Holders(o)) + 1
      BY <1>13, <2>1, FS_AddElement
    <2> SUFFICES ASSUME NEW x \in Objects
                 PROVE  IF mem[x] = "live" THEN ref'[x] = Cardinality(Holders(x)') ELSE ref'[x] = 0
      BY <1>5 DEF Exact
    <2>3. IF mem[x] = "live" THEN ref[x] = Cardinality(Holders(x)) ELSE ref[x] = 0
      BY DEF IInv, Exact
    <2>4. CASE x = o
      BY <1>3, <1>6, <1>13, <2>2, <2>3, <2>4
    <2>5. CASE x # o
      BY <1>6, <1>13, <2>3, <2>5
    <2> QED
      BY <2>4, <2>5
  <1>17. NoLeak'
    <2> SUFFICES ASSUME NEW x \in Objects, mem[x] = "live", ref'[x] = 0
                 PROVE  \E u \in Threads : pc'[u] \in {"inc", "delete"} /\ ptr[dst'[u]] = x
      BY <1>5 DEF NoLeak
    <2>1. x # o
      BY <1>2, <1>3, <1>6
    <2>2. PICK u \in Threads : pc[u] \in {"inc", "delete"} /\ ptr[dst[u]] = x
      BY <1>6, <2>1 DEF IInv, NoLeak
    <2> QED
      BY <1>2, <1>5, <2>1, <2>2
  <1> QED
    BY <1>7, <1>9, <1>10, <1>11, <1>12, <1>14, <1>15, <1>16, <1>17 DEF IInv

\* decRefCount(): the place no longer counts; the one that reaches 0 deletes.
LEMMA DecStep ==
  ASSUME IInv, NEW t \in Threads, Dec(t)
  PROVE  IInv'
  <1>1. pc[t] = "dec" /\ OpAt(t)
    BY DEF Dec, IInv
  <1>a. PICK p \in Locals \cup Docks : p = dst[t]
    BY <1>1 DEF OpAt
  <1>b. PICK o \in Objects : o = ptr[p]
    BY <1>1, <1>a DEF OpAt, IInv, TypeOK
  <1>2. p = dst[t] /\ o = ptr[p] /\ p \in Places /\ p # NULL /\ Home(p) = t
    BY <1>1, <1>a, <1>b DEF OpAt
  <1>3. p \in Holders(o)
    BY <1>1, <1>2, OwnCounts DEF Owns, Between, Holders
  <1>4. /\ mem[o] = "live" /\ ref[o] \in Nat \ {0} /\ ref[o] = Cardinality(Holders(o))
        /\ ref \in [Objects -> Nat]
    BY <1>3, HeldCount DEF IInv, TypeOK
  <1>5. PICK l \in {"delete", "clear"} : Goto(t, l, p, src[t]) /\ (l = "delete" <=> ref[o] = 1)
    BY <1>2 DEF Dec
  <1>6. /\ pc'[t] = l /\ dst'[t] = p /\ src'[t] = src[t]
        /\ \A u \in Threads \ {t} : pc'[u] = pc[u] /\ dst'[u] = dst[u]
        /\ UNCHANGED <<mem, ptr, lock>>
    BY <1>5 DEF Goto, IInv, TypeOK, Dec
  <1>7. /\ ref' = [ref EXCEPT ![o] = @ - 1]
        /\ ref'[o] = ref[o] - 1 /\ \A x \in Objects : x # o => ref'[x] = ref[x]
    BY <1>2, <1>4 DEF Dec
  <1>8. TypeOK'
    <2>1. ref' \in [Objects -> Nat]
      BY <1>4, <1>7
    <2> QED
      BY <1>2, <1>5, <1>6, <2>1 DEF Goto, IInv, TypeOK
  <1>9. Local(t)
    BY <1>2, <1>6, <1>7 DEF Local, Owns
  <1>10. \A u \in Threads \ {t} : OpAt(u)' /\ Supported(u)'
    BY <1>5, <1>9, OthersKeep
  <1>11. OpAt(t)' /\ Supported(t)'
    BY <1>1, <1>2, <1>6 DEF OpAt, Supported, Mine
  <1>12. \A u \in Threads : Deletes(u)'
    <2>1. \A u \in Threads \ {t} : pc[u] = "delete" => ptr[dst[u]] # o /\ ptr[dst[u]] \in Objects
      BY <1>4 DEF IInv, OpAt, TypeOK, Deletes
    <2>2. l = "delete" => mem'[ptr'[p]] = "live" /\ ref'[ptr'[p]] = 0
      BY <1>2, <1>4, <1>5, <1>6, <1>7
    <2>3. \A u \in Threads \ {t} : pc[u] = "delete" =>
             /\ ref'[ptr[dst[u]]] = ref[ptr[dst[u]]] /\ mem'[ptr[dst[u]]] = mem[ptr[dst[u]]]
             /\ l = "delete" => ptr[dst[u]] # ptr'[p]
      BY <1>2, <1>6, <1>7, <2>1
    <2> QED
      BY <1>5, <1>9, <2>2, <2>3, DeletesKeep
  <1>13. DocksIdle'
    BY <1>2, <1>6 DEF IInv, DocksIdle
  <1>14. /\ Holders(o)' = Holders(o) \ {p}
         /\ \A x \in Objects : x # o => Holders(x)' = Holders(x)
    <2>1. \A r \in Places : Uncounted(r)' <=> IF r = p THEN l \in Between
                                             ELSE r # dst[t] /\ Uncounted(r)
      BY <1>2, <1>5, GotoUncounted
    <2>2. \A r \in Places : Uncounted(r)' <=> r = p \/ Uncounted(r)
      BY <1>2, <2>1 DEF Between
    <2> QED
      BY <1>2, <1>6, <2>2 DEF Holders
  <1>15. NotYet'
    BY <1>6 DEF IInv, NotYet
  <1>16. HeldLive'
    BY <1>4, <1>6, <1>14 DEF IInv, HeldLive
  <1>17. Exact'
    <2>1. IsFiniteSet(Holders(o))
      BY FS_Subset DEF Holders
    <2>2. Cardinality(Holders(o) \ {p}) = Cardinality(Holders(o)) - 1
      BY <1>3, <2>1, FS_RemoveElement
    <2> SUFFICES ASSUME NEW x \in Objects
                 PROVE  IF mem[x] = "live" THEN ref'[x] = Cardinality(Holders(x)') ELSE ref'[x] = 0
      BY <1>6 DEF Exact
    <2>3. IF mem[x] = "live" THEN ref[x] = Cardinality(Holders(x)) ELSE ref[x] = 0
      BY DEF IInv, Exact
    <2>4. CASE x = o
      BY <1>4, <1>7, <1>14, <2>2, <2>4
    <2>5. CASE x # o
      BY <1>7, <1>14, <2>3, <2>5
    <2> QED
      BY <2>4, <2>5
  <1>18. NoLeak'
    <2> SUFFICES ASSUME NEW x \in Objects, mem[x] = "live", ref'[x] = 0
                 PROVE  \E u \in Threads : pc'[u] \in {"inc", "delete"} /\ ptr[dst'[u]] = x
      BY <1>6 DEF NoLeak
    <2>1. CASE x = o
      BY <1>2, <1>4, <1>5, <1>6, <1>7, <2>1
    <2>2. CASE x # o
      <3>1. PICK u \in Threads : pc[u] \in {"inc", "delete"} /\ ptr[dst[u]] = x
        BY <1>7, <2>2 DEF IInv, NoLeak
      <3> QED
        BY <1>1, <1>6, <3>1
    <2> QED
      BY <2>1, <2>2
  <1> QED
    BY <1>8, <1>10, <1>11, <1>12, <1>13, <1>15, <1>16, <1>17, <1>18 DEF IInv

\* delete m_ptr: nobody owns the object, and nobody else is about to touch it.
LEMMA DeleteStep ==
  ASSUME IInv, NEW t \in Threads, Delete(t)
  PROVE  IInv'
  <1>1. pc[t] = "delete" /\ OpAt(t) /\ Deletes(t)
    BY DEF Delete, IInv
  <1>a. PICK p \in Locals \cup Docks : p = dst[t]
    BY <1>1 DEF OpAt
  <1>b. PICK o \in Objects : o = ptr[p]
    BY <1>1, <1>a DEF OpAt, IInv, TypeOK
  <1>2. p = dst[t] /\ o = ptr[p] /\ p \in Places /\ p # NULL /\ Home(p) = t
    BY <1>1, <1>a, <1>b DEF OpAt
  <1>3. ref[o] = 0 /\ Holders(o) = {}
    BY <1>1, <1>2, HeldCount DEF Deletes
  <1>4. Goto(t, "clear", p, src[t])
    BY <1>2 DEF Delete
  <1>5. /\ pc'[t] = "clear" /\ dst'[t] = p /\ src'[t] = src[t]
        /\ \A u \in Threads \ {t} : pc'[u] = pc[u] /\ dst'[u] = dst[u]
        /\ UNCHANGED <<ref, ptr, lock>>
    BY <1>4 DEF Goto, IInv, TypeOK, Delete
  <1>6. /\ mem' = [mem EXCEPT ![o] = "dead"]
        /\ mem'[o] = "dead" /\ \A x \in Objects : x # o => mem'[x] = mem[x]
    BY <1>2 DEF Delete, IInv, TypeOK
  <1>7. TypeOK'
    BY <1>2, <1>4, <1>5, <1>6 DEF Goto, IInv, TypeOK
  <1>8. Local(t)
    BY <1>1, <1>2, <1>5, <1>6 DEF Local, Owns
  <1>9. \A u \in Threads \ {t} : OpAt(u)' /\ Supported(u)'
    BY <1>4, <1>8, OthersKeep
  <1>10. OpAt(t)' /\ Supported(t)'
    BY <1>1, <1>2, <1>5 DEF OpAt, Supported, Mine
  <1>11. \A u \in Threads : Deletes(u)'
    <2>1. \A u \in Threads \ {t} : pc[u] = "delete" => ptr[dst[u]] # o /\ ptr[dst[u]] \in Objects
      BY <1>1, <1>2 DEF IInv, OpAt, TypeOK, Deletes
    <2> QED
      BY <1>4, <1>5, <1>6, <1>8, <2>1, DeletesKeep
  <1>12. DocksIdle'
    BY <1>2, <1>5 DEF IInv, DocksIdle
  <1>13. \A x \in Objects : Holders(x)' = Holders(x)
    <2>1. \A r \in Places : Uncounted(r)' <=> IF r = p THEN "clear" \in Between
                                             ELSE r # dst[t] /\ Uncounted(r)
      BY <1>2, <1>4, GotoUncounted
    <2>2. Uncounted(p) /\ \A r \in Places : Uncounted(r)' <=> Uncounted(r)
      BY <1>1, <1>2, <2>1 DEF Between, Uncounted
    <2> QED
      BY <1>5, <2>2 DEF Holders
  <1>14. NotYet' /\ HeldLive' /\ Exact'
    BY <1>3, <1>5, <1>6, <1>13 DEF IInv, NotYet, HeldLive, Exact
  <1>15. NoLeak'
    <2> SUFFICES ASSUME NEW x \in Objects, mem'[x] = "live", ref[x] = 0
                 PROVE  \E u \in Threads : pc'[u] \in {"inc", "delete"} /\ ptr[dst'[u]] = x
      BY <1>5 DEF NoLeak
    <2>1. x # o /\ mem[x] = "live"
      BY <1>6
    <2>2. PICK u \in Threads : pc[u] \in {"inc", "delete"} /\ ptr[dst[u]] = x
      BY <2>1 DEF IInv, NoLeak
    <2> QED
      BY <1>2, <1>5, <2>1, <2>2
  <1> QED
    BY <1>7, <1>9, <1>10, <1>11, <1>12, <1>14, <1>15 DEF IInv

\* m_ptr = NULL: the place that gave up its count forgets the object.
LEMMA ClearStep ==
  ASSUME IInv, NEW t \in Threads, Clear(t)
  PROVE  IInv'
  <1>1. pc[t] = "clear" /\ OpAt(t)
    BY DEF Clear, IInv
  <1>2. PICK p \in Locals \cup Docks : p = dst[t] /\ p \in Places /\ p # NULL /\ Home(p) = t
    BY <1>1 DEF OpAt
  <1>3. PICK l \in {"idle", "load"}, d \in {NULL, p}, s \in Places \cup {NULL} :
          /\ Goto(t, l, d, s) /\ s = src[t]
          /\ src[t] = NULL => l = "idle" /\ d = NULL
          /\ src[t] # NULL => l = "load" /\ d = p
    <2>1. CASE src[t] = NULL
      BY <1>1, <2>1 DEF Clear
    <2>2. CASE src[t] # NULL
      BY <1>1, <1>2, <2>2 DEF Clear, IInv, TypeOK
    <2> QED
      BY <2>1, <2>2
  <1>4. /\ pc'[t] = l /\ dst'[t] = d /\ src'[t] = s
        /\ \A u \in Threads \ {t} : pc'[u] = pc[u] /\ dst'[u] = dst[u]
        /\ UNCHANGED <<mem, ref, lock>>
    BY <1>3 DEF Goto, IInv, TypeOK, Clear
  <1>5. /\ ptr' = [ptr EXCEPT ![p] = NULL]
        /\ ptr'[p] = NULL /\ \A r \in Places : r # p => ptr'[r] = ptr[r]
    BY <1>2 DEF Clear, IInv, TypeOK
  <1>6. TypeOK'
    BY <1>2, <1>3, <1>4, <1>5 DEF Goto, IInv, TypeOK
  <1>7. Local(t)
    BY <1>2, <1>4, <1>5 DEF Local, Owns
  <1>8. \A u \in Threads \ {t} : OpAt(u)' /\ Supported(u)'
    BY <1>3, <1>7, OthersKeep
  <1>9. OpAt(t)' /\ Supported(t)'
    BY <1>1, <1>2, <1>3, <1>4, <1>5 DEF OpAt, Supported, Mine
  <1>10. \A u \in Threads : Deletes(u)'
    BY <1>3, <1>4, <1>7, DeletesKeep
  <1>11. DocksIdle'
    <2> SUFFICES ASSUME NEW e \in Docks, ptr'[e] # NULL PROVE dst'[Home(e)] = e
      BY DEF DocksIdle
    <2>1. e # p /\ dst[Home(e)] = e /\ Home(e) \in Threads
      BY <1>5 DEF IInv, DocksIdle
    <2> QED
      BY <1>2, <1>4, <2>1
  <1>12. \A x \in Objects : Holders(x)' = Holders(x)
    <2>1. \A r \in Places : Uncounted(r)' <=> IF r = d THEN l \in Between
                                             ELSE r # dst[t] /\ Uncounted(r)
      BY <1>2, <1>3, GotoUncounted
    <2>2. Uncounted(p) /\ \A r \in Places : r # p => (Uncounted(r)' <=> Uncounted(r))
      BY <1>1, <1>2, <1>3, <2>1 DEF Uncounted
    <2>3. NULL \notin Objects
      OBVIOUS
    <2> QED
      BY <1>5, <2>2, <2>3 DEF Holders
  <1>13. NotYet' /\ HeldLive' /\ Exact'
    BY <1>4, <1>5, <1>12 DEF IInv, NotYet, HeldLive, Exact
  <1>14. NoLeak'
    <2> SUFFICES ASSUME NEW x \in Objects, mem[x] = "live", ref[x] = 0
                 PROVE  \E u \in Threads : pc'[u] \in {"inc", "delete"} /\ ptr'[dst'[u]] = x
      BY <1>4 DEF NoLeak
    <2>1. PICK u \in Threads : pc[u] \in {"inc", "delete"} /\ ptr[dst[u]] = x
      BY DEF IInv, NoLeak
    <2>2. u # t /\ dst[u] \in Places /\ dst[u] # p
      BY <1>1, <1>2, <2>1 DEF IInv, OpAt
    <2> QED
      BY <1>4, <1>5, <2>1, <2>2
  <1> QED
    BY <1>6, <1>8, <1>9, <1>10, <1>11, <1>13, <1>14 DEF IInv

\* The count goes over from one place of a thread to another, uncounted between:
\* ___docking and ___undocking.
LEMMA HandOverStep ==
  ASSUME IInv, NEW t \in Threads, NEW a \in Places, NEW b \in Places, a # b,
         Owns(t, a), Owns(t, b), NEW o \in Objects, ptr[a] = o, ptr[b] = NULL,
         ptr' = [ptr EXCEPT ![b] = o, ![a] = NULL], UNCHANGED <<mem, ref, lock>>,
         NEW l \in {"idle", "dec"}, NEW d \in {NULL, b}, Goto(t, l, d, NULL),
         IF l = "idle" THEN d = NULL ELSE d = b /\ b \in Docks,
         b \in Docks => d = b, dst[t] \in Docks => dst[t] = a,
         pc[t] \notin Between
  PROVE  IInv'
  <1>1. /\ pc'[t] = l /\ dst'[t] = d /\ src'[t] = NULL
        /\ \A u \in Threads \ {t} : pc'[u] = pc[u] /\ dst'[u] = dst[u]
        /\ d # NULL => d = b /\ d \in Locals \cup Docks /\ Home(d) = t
    BY DEF Goto, IInv, TypeOK, Owns
  <1>2. ptr'[b] = o /\ ptr'[a] = NULL /\ \A r \in Places : r # a /\ r # b => ptr'[r] = ptr[r]
    BY DEF IInv, TypeOK
  <1>3. TypeOK'
    BY DEF Goto, IInv, TypeOK
  <1>4. Local(t)
    BY <1>2 DEF Local
  <1>5. \A u \in Threads \ {t} : OpAt(u)' /\ Supported(u)'
    BY <1>4, OthersKeep
  <1>6. OpAt(t)' /\ Supported(t)'
    BY <1>1, <1>2 DEF OpAt, Supported
  <1>7. \A u \in Threads : Deletes(u)'
    BY <1>4, DeletesKeep
  <1>8. DocksIdle'
    <2> SUFFICES ASSUME NEW e \in Docks, ptr'[e] # NULL PROVE dst'[Home(e)] = e
      BY DEF DocksIdle
    <2>1. CASE e = b
      BY <1>1, <2>1
    <2>2. CASE e # b
      <3>1. e # a /\ dst[Home(e)] = e /\ Home(e) \in Threads
        BY <1>2, <2>2 DEF IInv, DocksIdle
      <3> QED
        BY <1>1, <3>1
    <2> QED
      BY <2>1, <2>2
  <1>9. /\ Holders(o)' = (Holders(o) \ {a}) \cup {b} /\ a \in Holders(o) /\ b \notin Holders(o)
        /\ \A x \in Objects : x # o => Holders(x)' = Holders(x)
    <2>1. \A r \in Places : Uncounted(r)' <=> IF r = d THEN l \in Between
                                             ELSE r # dst[t] /\ Uncounted(r)
      BY <1>1, GotoUncounted
    <2>2. ~Uncounted(a) /\ ~Uncounted(b)
      BY OwnCounts
    <2>3. \A r \in Places : r = dst[t] => ~Uncounted(r)
      BY OwnCounts, WorkedOnBy DEF Owns
    <2>4. \A r \in Places : Uncounted(r)' <=> Uncounted(r)
      BY <1>1, <2>1, <2>2, <2>3 DEF Between
    <2> QED
      BY <1>2, <2>2, <2>4 DEF Holders
  <1>10. NotYet'
    <2>1. mem[o] # "none" /\ NULL \notin Objects
      BY DEF IInv, NotYet
    <2>2. \A r \in Places : ptr'[r] \in {ptr[r], o, NULL}
      BY <1>2
    <2> QED
      BY <2>1, <2>2 DEF IInv, NotYet
  <1>11. HeldLive'
    BY <1>9 DEF IInv, HeldLive
  <1>12. Exact'
    <2>1. Cardinality(Holders(o)') = Cardinality(Holders(o))
      <3>1. IsFiniteSet(Holders(o)) /\ IsFiniteSet(Holders(o) \ {a})
        BY FS_Subset DEF Holders
      <3>2. Cardinality(Holders(o) \ {a}) = Cardinality(Holders(o)) - 1
        BY <1>9, <3>1, FS_RemoveElement
      <3>3. Cardinality((Holders(o) \ {a}) \cup {b}) = Cardinality(Holders(o) \ {a}) + 1
        BY <1>9, <3>1, FS_AddElement
      <3>4. Cardinality(Holders(o)) \in Nat
        BY <3>1, FS_CardinalityType
      <3> QED
        BY <1>9, <3>2, <3>3, <3>4
    <2>2. \A x \in Objects : Cardinality(Holders(x)') = Cardinality(Holders(x))
      BY <1>9, <2>1
    <2> QED
      BY <2>2 DEF IInv, Exact
  <1>13. NoLeak'
    <2> SUFFICES ASSUME NEW x \in Objects, mem[x] = "live", ref[x] = 0
                 PROVE  \E u \in Threads : pc'[u] \in {"inc", "delete"} /\ ptr'[dst'[u]] = x
      BY DEF NoLeak
    <2>1. PICK u \in Threads : pc[u] \in {"inc", "delete"} /\ ptr[dst[u]] = x
      BY DEF IInv, NoLeak
    <2>2. u # t /\ dst[u] \in Places /\ Owns(u, dst[u])
      BY <2>1 DEF IInv, OpAt, Owns, Between
    <2>3. ptr'[dst[u]] = ptr[dst[u]]
      BY <2>2, OwnsUnique, <1>2
    <2> QED
      BY <1>1, <2>1, <2>2, <2>3
  <1> QED
    BY <1>3, <1>5, <1>6, <1>7, <1>8, <1>10, <1>11, <1>12, <1>13 DEF IInv

\* The container's lock is taken and given back by threads that are in no operation.
LEMMA LockStep ==
  ASSUME IInv, NEW t \in Threads, Lock(t) \/ Unlock(t)
  PROVE  IInv'
  <1>1. /\ UNCHANGED <<mem, ref, ptr, pc, dst, src>> /\ pc[t] = "idle"
        /\ (lock = NULL /\ lock' = t) \/ (lock = t /\ lock' = NULL)
    BY DEF Lock, Unlock
  <1>2. TypeOK'
    BY <1>1 DEF IInv, TypeOK
  <1>3. \A u \in Threads, q \in Places : u # t /\ Mine(u, q) => Mine(u, q)'
    BY <1>1 DEF Mine
  <1>4. \A u \in Threads : OpAt(u)' /\ Supported(u)' /\ Deletes(u)'
    <2> SUFFICES ASSUME NEW u \in Threads PROVE OpAt(u)' /\ Supported(u)' /\ Deletes(u)'
      OBVIOUS
    <2>1. OpAt(u) /\ Supported(u) /\ Deletes(u) /\ src[u] \in Places \cup {NULL}
      BY DEF IInv, TypeOK
    <2>2. Deletes(u)'
      BY <1>1, <2>1 DEF Deletes
    <2>3. CASE u = t
      BY <1>1, <2>1, <2>2, <2>3 DEF OpAt, Supported
    <2>4. CASE u # t
      <3>1. src'[u] # NULL => Mine(u, src[u])'
        BY <1>1, <1>3, <2>1, <2>4 DEF OpAt
      <3>2. OpAt(u)'
        BY <1>1, <2>1, <3>1 DEF OpAt
      <3>3. Supported(u)'
        BY <1>1, <1>3, <2>1, <2>4 DEF Supported
      <3> QED
        BY <2>2, <3>2, <3>3
    <2> QED
      BY <2>3, <2>4
  <1>5. \A x \in Objects : Holders(x)' = Holders(x)
    BY <1>1 DEF Holders, Uncounted
  <1> QED
    BY <1>1, <1>2, <1>4, <1>5 DEF IInv, DocksIdle, NotYet, HeldLive, Exact, NoLeak

-----------------------------------------------------------------------------
\* No step breaks it.
LEMMA NextIInv == IInv /\ [Next]_vars => IInv'
  <1> SUFFICES ASSUME IInv, [Next]_vars PROVE IInv'
    OBVIOUS
  <1>0. \A t \in Threads : OpAt(t) /\ pc[t] \in
           {"idle", "inc", "dec", "delete", "clear", "load", "steal", "dock"}
    BY DEF IInv, TypeOK
  <1>1. CASE UNCHANGED vars
    BY <1>1 DEF vars, IInv, TypeOK, OpAt, Supported, Deletes, Mine, DocksIdle, NotYet,
                HeldLive, Exact, NoLeak, Holders, Uncounted
  <1>2. ASSUME NEW t \in Threads, Lock(t) \/ Unlock(t) PROVE IInv'
    BY <1>2, LockStep
  <1>3. ASSUME NEW t \in Threads, NEW p \in Places, NEW o \in Objects, New(t, p, o)
        PROVE  IInv'
    <2>1. p \in Locals /\ Home(p) = t /\ dst[t] = NULL
      BY <1>0, <1>3 DEF New, Mine, OpAt
    <2> QED
      BY <1>3, <2>1, TakeStep DEF New
  <1>4. ASSUME NEW t \in Threads, NEW p \in Places, NEW q \in Places, Copy(t, p, q)
        PROVE  IInv'
    <2>1. /\ p \in Locals /\ Home(p) = t /\ dst[t] = NULL /\ q # p
          /\ ptr[q] \in Objects /\ Mine(t, q)
      BY <1>0, <1>4 DEF Copy, Mine, OpAt, IInv, TypeOK
    <2>2. PICK o \in Objects : o = ptr[q]
      BY <2>1
    <2> QED
      BY <1>4, <2>1, <2>2, TakeStep DEF Copy
  <1>5. ASSUME NEW t \in Threads, NEW p \in Places, NEW q \in Places, Assign(t, p, q)
        PROVE  IInv'
    <2>1. /\ p \in Locals /\ Home(p) = t /\ dst[t] = NULL /\ pc[t] = "idle" /\ Mine(t, q)
          /\ UNCHANGED <<mem, ref, ptr, lock>>
      BY <1>0, <1>5 DEF Assign, Mine, OpAt
    <2>2. PICK l \in {"dec", "load"} : Goto(t, l, p, q) /\ (l = "dec" <=> ptr[p] # NULL)
      BY <1>5 DEF Assign
    <2>3. OpAt(t)'
      <3>1. pc'[t] = l /\ dst'[t] = p /\ src'[t] = q
        BY <2>2 DEF Goto, IInv, TypeOK
      <3>2. Mine(t, q)'
        BY <2>1 DEF Mine
      <3> QED
        BY <2>1, <2>2, <3>1, <3>2 DEF OpAt
    <2> QED
      BY <2>1, <2>2, <2>3, MoveOnStep
  <1>6. ASSUME NEW t \in Threads, NEW p \in Places, NEW c \in Places, Docking(t, p, c)
        PROVE  IInv'
    <2>1. /\ p \in Locals /\ Home(p) = t /\ dst[t] = NULL /\ c # p
          /\ c \in Cells /\ lock = t /\ ptr[c] \in Objects /\ Mine(t, c)
      BY <1>0, <1>6 DEF Docking, Mine, OpAt, IInv, TypeOK
    <2>2. PICK o \in Objects : o = ptr[c]
      BY <2>1
    <2> QED
      BY <1>6, <2>1, <2>2, TakeStep DEF Docking
  <1>7. ASSUME NEW t \in Threads, NEW p \in Places, Drop(t, p) PROVE IInv'
    <2>1. /\ p \in Locals /\ Home(p) = t /\ dst[t] = NULL /\ pc[t] = "idle" /\ ptr[p] # NULL
          /\ UNCHANGED <<mem, ref, ptr, lock>> /\ Goto(t, "dec", p, NULL)
      BY <1>0, <1>7 DEF Drop, Mine, OpAt
    <2>2. OpAt(t)'
      BY <2>1 DEF OpAt, Goto, IInv, TypeOK
    <2> QED
      BY <2>1, <2>2, MoveOnStep
  <1>8. ASSUME NEW t \in Threads, NEW d \in Places, NEW c \in Places, NEW q \in Places,
               Undocking(t, d, c, q)
        PROVE  IInv'
    <2>1. /\ d \in Docks /\ Home(d) = t /\ dst[t] = NULL /\ q # d
          /\ c \in Cells /\ lock = t /\ ptr[c] = NULL /\ ptr[q] \in Objects /\ Mine(t, q)
      BY <1>0, <1>8 DEF Undocking, Mine, OpAt, IInv, TypeOK
    <2>2. ptr[d] = NULL
      BY <2>1 DEF IInv, DocksIdle
    <2>3. PICK o \in Objects : o = ptr[q]
      BY <2>1
    <2> QED
      BY <1>8, <2>1, <2>2, <2>3, TakeStep DEF Undocking
  <1>9. ASSUME NEW t \in Threads, Steal(t) PROVE IInv'
    <2>1. /\ dst[t] \in Docks /\ Home(dst[t]) = t /\ src[t] \in Cells /\ lock = t
          /\ ptr[src[t]] = NULL /\ ptr[dst[t]] \in Objects /\ pc[t] = "steal"
      BY <1>0, <1>9 DEF Steal, OpAt, Mine, IInv, TypeOK
    <2>2. PICK a \in Docks, b \in Cells, o \in Objects : a = dst[t] /\ b = src[t] /\ o = ptr[a]
      BY <2>1
    <2>3. Owns(t, a) /\ Owns(t, b) /\ a # b /\ b \notin Docks
      BY <2>1, <2>2 DEF Owns
    <2>4. /\ ptr' = [ptr EXCEPT ![b] = o, ![a] = NULL] /\ UNCHANGED <<mem, ref, lock>>
          /\ Goto(t, "idle", NULL, NULL)
      BY <1>9, <2>2 DEF Steal
    <2> QED
      BY <2>1, <2>2, <2>3, <2>4, HandOverStep DEF Between
  <1>10. ASSUME NEW t \in Threads, DockTakes(t) PROVE IInv'
    <2>1. /\ dst[t] \in Locals /\ src[t] \in Cells /\ lock = t
          /\ ptr[src[t]] \in Objects /\ pc[t] = "dock"
      BY <1>0, <1>10 DEF DockTakes, OpAt, Mine, IInv, TypeOK
    <2>2. PICK a \in Cells, o \in Objects : a = src[t] /\ o = ptr[a]
      BY <2>1
    <2>3. PICK b \in Docks : /\ Home(b) = t /\ ptr' = [ptr EXCEPT ![b] = o, ![a] = NULL]
                             /\ Goto(t, "dec", b, NULL) /\ UNCHANGED <<mem, ref, lock>>
      BY <1>10, <2>2 DEF DockTakes
    <2>4. Owns(t, a) /\ Owns(t, b) /\ a # b /\ dst[t] \notin Docks
      BY <2>1, <2>2, <2>3 DEF Owns
    <2>5. ptr[b] = NULL
      BY <2>1, <2>3, <2>4 DEF IInv, DocksIdle
    <2> QED
      BY <2>1, <2>2, <2>3, <2>4, <2>5, HandOverStep DEF Between
  <1>11. ASSUME NEW t \in Threads, Load(t) PROVE IInv'
    <2>1. /\ pc[t] = "load" /\ dst[t] \in Locals /\ Home(dst[t]) = t /\ ptr[dst[t]] = NULL
          /\ src[t] \in Places /\ Mine(t, src[t]) /\ UNCHANGED <<mem, ref, lock>>
      BY <1>0, <1>11 DEF Load, OpAt, IInv, TypeOK
    <2>2. PICK p \in Locals, q \in Places : p = dst[t] /\ q = src[t]
      BY <2>1
    <2>3. CASE ptr[q] = NULL
      <3>1. ptr' = ptr /\ Goto(t, "idle", NULL, NULL)
        BY <1>11, <2>1, <2>2, <2>3 DEF Load, IInv, TypeOK
      <3>2. OpAt(t)'
        BY <3>1 DEF OpAt, Goto, IInv, TypeOK
      <3> QED
        BY <2>1, <3>1, <3>2, MoveOnStep
    <2>4. CASE ptr[q] # NULL
      <3>1. PICK o \in Objects : o = ptr[q]
        BY <2>4 DEF IInv, TypeOK
      <3>2. ptr' = [ptr EXCEPT ![p] = o] /\ Goto(t, "inc", p, NULL) /\ q # p
        BY <1>11, <2>1, <2>2, <2>4, <3>1 DEF Load
      <3> QED
        BY <2>1, <2>2, <3>1, <3>2, TakeStep
    <2> QED
      BY <2>3, <2>4
  <1> QED
    BY <1>1, <1>2, <1>3, <1>4, <1>5, <1>6, <1>7, <1>8, <1>9, <1>10, <1>11,
       IncStep, DecStep, DeleteStep, ClearStep DEF Next

-----------------------------------------------------------------------------
\* RefInv: in every interleaving of the operations of sp the count of a live object
\* is the number of places that own a reference, and it is never negative.
THEOREM CountsExact == Spec => []RefInv
  <1>1. IInv => RefInv
    BY DEF IInv, RefInv, RefCountExact, Exact
  <1> QED
    BY <1>1, InitIInv, NextIInv, PTL DEF Spec

\* NoUseAfterFree: what a place owns, and what an operation is about to count, to
\* release or to delete, was not deleted.
THEOREM NothingUsedAfterFree == Spec => []NoUseAfterFree
  <1>1. IInv => NoUseAfterFree
    <2> SUFFICES ASSUME IInv, NEW t \in Threads, pc[t] \in {"inc", "dec", "delete"}
                 PROVE  mem[ptr[dst[t]]] = "live"
      BY DEF IInv, HeldLive, NoUseAfterFree
    <2>1. CASE pc[t] \in {"inc", "delete"}
      BY <2>1 DEF IInv, Supported, Deletes
    <2>2. CASE pc[t] = "dec"
      <3>1. /\ dst[t] \in Locals \cup Docks /\ Home(dst[t]) = t /\ dst[t] \in Places
            /\ ptr[dst[t]] \in Objects
        BY <2>2 DEF IInv, OpAt, TypeOK
      <3>2. dst[t] \in Holders(ptr[dst[t]])
        BY <2>2, <3>1, OwnCounts DEF Owns, Between, Holders
      <3> QED
        BY <3>1, <3>2 DEF IInv, HeldLive
    <2> QED
      BY <2>1, <2>2
  <1> QED
    BY <1>1, InitIInv, NextIInv, PTL DEF Spec

\* NoLeak: a live object nobody owns is about to be counted or about to be deleted.
THEOREM NothingLeaks == Spec => []NoLeak
  <1>1. IInv => NoLeak
    BY DEF IInv
  <1> QED
    BY <1>1, InitIInv, NextIInv, PTL DEF Spec

=============================================================================
