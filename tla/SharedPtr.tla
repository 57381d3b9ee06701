----------------------------- MODULE SharedPtr -----------------------------
(***************************************************************************)
(* Intrusive reference counting: Object::incRefCount / decRefCount and the *)
(* sp<T> that calls them (include/dframework/base/sp.h).  A place is a     *)
(* pointer variable: a local sp of a thread, the temporary `dock' inside   *)
(* sp::docking and sp::undocking, or a raw pointer cell of a container     *)
(* (Poll::m_ppsocks, ArrayBase), which owns one reference although it is   *)
(* no sp.  A count changes atomically (incRefCount and decRefCount run     *)
(* under the AutoLock of module SafeLock); everything between two such     *)
(* calls, and between the last release and the delete, interleaves.        *)
(*                                                                         *)
(* Threads follow the rule the library's containers follow: a thread       *)
(* touches its own places, and the cells only under the container's lock.  *)
(***************************************************************************)
EXTENDS Integers, FiniteSets

CONSTANTS
    Threads, Objects,
    Locals,         \* the sp variables of all threads
    Cells,          \* the raw pointer cells of one container
    Docks,          \* the temporaries `dock', one for each thread
    Home(_),        \* Home(p): the thread whose variable p \in Locals \cup Docks is
    NULL

Places == Locals \cup Cells \cup Docks

ASSUME PlacesAssumption ==
    /\ IsFiniteSet(Places)
    /\ Locals \cap Cells = {} /\ Locals \cap Docks = {} /\ Cells \cap Docks = {}
    /\ \A p \in Locals \cup Docks : Home(p) \in Threads
    /\ \A t \in Threads : \E d \in Docks : Home(d) = t
    /\ NULL \notin Objects /\ NULL \notin Places /\ NULL \notin Threads

VARIABLES
    mem,      \* mem[o]: "none" before new, "live", "dead" after delete
    ref,      \* ref[o]: ___m_ref_count
    ptr,      \* ptr[p]: the object a place points to, or NULL
    pc,       \* pc[t]: the next step of the sp operation t is in
    dst,      \* dst[t]: the place that operation works on
    src,      \* src[t]: its right-hand side, or NULL
    lock      \* the thread inside the container's AutoLock, or NULL

vars == <<mem, ref, ptr, pc, dst, src, lock>>

Init ==
    /\ mem = [o \in Objects |-> "none"]
    /\ ref = [o \in Objects |-> 0]
    /\ ptr = [p \in Places |-> NULL]
    /\ pc = [t \in Threads |-> "idle"]
    /\ dst = [t \in Threads |-> NULL]
    /\ src = [t \in Threads |-> NULL]
    /\ lock = NULL

-----------------------------------------------------------------------------
\* The places thread t may name in its own code.
Mine(t, p) == (p \in Locals /\ Home(p) = t) \/ (p \in Cells /\ lock = t)

Goto(t, l, d, s) ==
    /\ pc' = [pc EXCEPT ![t] = l]
    /\ dst' = [dst EXCEPT ![t] = d]
    /\ src' = [src EXCEPT ![t] = s]

Lock(t) ==
    /\ pc[t] = "idle" /\ lock = NULL
    /\ lock' = t
    /\ UNCHANGED <<mem, ref, ptr, pc, dst, src>>

Unlock(t) ==
    /\ pc[t] = "idle" /\ lock = t
    /\ lock' = NULL
    /\ UNCHANGED <<mem, ref, ptr, pc, dst, src>>

\* sp<T> p = new T(): the count of a new object is 0 until the sp counts itself.
New(t, p, o) ==
    /\ pc[t] = "idle" /\ p \in Locals /\ Mine(t, p) /\ ptr[p] = NULL
    /\ mem[o] = "none"
    /\ mem' = [mem EXCEPT ![o] = "live"]
    /\ ptr' = [ptr EXCEPT ![p] = o]
    /\ Goto(t, "inc", p, NULL)
    /\ UNCHANGED <<ref, lock>>

\* sp(T*), sp(const sp<T>&): m_ptr = q's pointer, counted next if not NULL.
\* q may be a cell: Poll::getObject makes an sp from the raw pointer.
Copy(t, p, q) ==
    /\ pc[t] = "idle" /\ p \in Locals /\ Mine(t, p) /\ Mine(t, q)
    /\ ptr[p] = NULL /\ ptr[q] # NULL
    /\ ptr' = [ptr EXCEPT ![p] = ptr[q]]
    /\ Goto(t, "inc", p, NULL)
    /\ UNCHANGED <<mem, ref, lock>>

\* ~sp(): only has something to do when m_ptr is set.
Drop(t, p) ==
    /\ pc[t] = "idle" /\ p \in Locals /\ Mine(t, p) /\ ptr[p] # NULL
    /\ Goto(t, "dec", p, NULL)
    /\ UNCHANGED <<mem, ref, ptr, lock>>

\* operator=: dec() comes first, then m_ptr = o.get(), then incRefCount().
Assign(t, p, q) ==
    /\ pc[t] = "idle" /\ p \in Locals /\ Mine(t, p) /\ Mine(t, q)
    /\ Goto(t, IF ptr[p] # NULL THEN "dec" ELSE "load", p, q)
    /\ UNCHANGED <<mem, ref, ptr, lock>>

\* sp::undocking(q): the temporary dock counts the object ...
Undocking(t, d, c, q) ==
    /\ pc[t] = "idle" /\ d \in Docks /\ Home(d) = t /\ c \in Cells /\ Mine(t, c)
    /\ Mine(t, q) /\ ptr[c] = NULL /\ ptr[q] # NULL
    /\ ptr' = [ptr EXCEPT ![d] = ptr[q]]
    /\ Goto(t, "inc", d, c)
    /\ UNCHANGED <<mem, ref, lock>>

\* Mutant of Steal: ___undocking does not reset m_ptr of the temporary.
StealKept(t) ==
    /\ pc[t] = "steal"
    /\ ptr' = [ptr EXCEPT ![src[t]] = ptr[dst[t]]]
    /\ Goto(t, "idle", NULL, NULL)
    /\ UNCHANGED <<mem, ref, lock>>

\* ... and gives its pointer, and with it the count, to the cell (___undocking).
Steal(t) ==
    /\ pc[t] = "steal"
    /\ ptr' = [ptr EXCEPT ![src[t]] = ptr[dst[t]], ![dst[t]] = NULL]
    /\ Goto(t, "idle", NULL, NULL)
    /\ UNCHANGED <<mem, ref, lock>>

\* Mutant of Docking: dock takes the cell and releases before newz counts.
DockingEarly(t, p, c) ==
    /\ pc[t] = "idle" /\ p \in Locals /\ Mine(t, p) /\ c \in Cells /\ Mine(t, c)
    /\ ptr[p] = NULL /\ ptr[c] # NULL
    /\ \E d \in Docks :
        /\ Home(d) = t
        /\ ptr' = [ptr EXCEPT ![d] = ptr[c], ![c] = NULL, ![p] = ptr[c]]
        /\ Goto(t, "dec", d, NULL)
    /\ UNCHANGED <<mem, ref, lock>>

\* sp::docking(c): newz counts the object before dock takes over the cell's
\* own count (___docking) and gives it up in its destructor.
Docking(t, p, c) ==
    /\ pc[t] = "idle" /\ p \in Locals /\ Mine(t, p) /\ c \in Cells /\ Mine(t, c)
    /\ ptr[p] = NULL /\ ptr[c] # NULL
    /\ ptr' = [ptr EXCEPT ![p] = ptr[c]]
    /\ Goto(t, "inc", p, c)
    /\ UNCHANGED <<mem, ref, lock>>

DockTakes(t) ==
    /\ pc[t] = "dock"
    /\ \E d \in Docks :
        /\ Home(d) = t
        /\ ptr' = [ptr EXCEPT ![d] = ptr[src[t]], ![src[t]] = NULL]
        /\ Goto(t, "dec", d, NULL)
    /\ UNCHANGED <<mem, ref, lock>>

\* incRefCount(), then what the operation does next.
Inc(t) ==
    /\ pc[t] = "inc"
    /\ ref' = [ref EXCEPT ![ptr[dst[t]]] = @ + 1]
    /\ IF src[t] = NULL
       THEN Goto(t, "idle", NULL, NULL)
       ELSE Goto(t, IF dst[t] \in Docks THEN "steal" ELSE "dock", dst[t], src[t])
    /\ UNCHANGED <<mem, ptr, lock>>

\* Mutant of Dec: the count is tested before it is decremented.
DecTestsFirst(t) ==
    LET o == ptr[dst[t]]
    IN  /\ pc[t] = "dec"
        /\ ref' = [ref EXCEPT ![o] = @ - 1]
        /\ Goto(t, IF ref[o] = 0 THEN "delete" ELSE "clear", dst[t], src[t])
        /\ UNCHANGED <<mem, ptr, lock>>

\* dec(): count = decRefCount(); if( 0 == count ) delete m_ptr; m_ptr = NULL.
Dec(t) ==
    LET o == ptr[dst[t]]
    IN  /\ pc[t] = "dec"
        /\ ref' = [ref EXCEPT ![o] = @ - 1]
        /\ Goto(t, IF ref[o] = 1 THEN "delete" ELSE "clear", dst[t], src[t])
        /\ UNCHANGED <<mem, ptr, lock>>

Delete(t) ==
    /\ pc[t] = "delete"
    /\ mem' = [mem EXCEPT ![ptr[dst[t]]] = "dead"]
    /\ Goto(t, "clear", dst[t], src[t])
    /\ UNCHANGED <<ref, ptr, lock>>

Clear(t) ==
    /\ pc[t] = "clear"
    /\ ptr' = [ptr EXCEPT ![dst[t]] = NULL]
    /\ IF src[t] = NULL THEN Goto(t, "idle", NULL, NULL)
                        ELSE Goto(t, "load", dst[t], src[t])
    /\ UNCHANGED <<mem, ref, lock>>

\* The second half of operator=: m_ptr = o.get(); if( m_ptr ) incRefCount().
\* o is read only now, so p = p leaves p empty.
Load(t) ==
    /\ pc[t] = "load"
    /\ ptr' = [ptr EXCEPT ![dst[t]] = ptr[src[t]]]
    /\ IF ptr[src[t]] = NULL THEN Goto(t, "idle", NULL, NULL)
                             ELSE Goto(t, "inc", dst[t], NULL)
    /\ UNCHANGED <<mem, ref, lock>>

Next ==
    \E t \in Threads :
        \/ Lock(t) \/ Unlock(t)
        \/ \E p \in Places : \E o \in Objects : New(t, p, o)
        \/ \E p, q \in Places : Copy(t, p, q) \/ Assign(t, p, q) \/ Docking(t, p, q)
        \/ \E p \in Places : Drop(t, p)
        \/ \E d, c, q \in Places : Undocking(t, d, c, q)
        \/ Steal(t) \/ DockTakes(t)
        \/ Inc(t) \/ Dec(t) \/ Delete(t) \/ Clear(t) \/ Load(t)

Spec == Init /\ [][Next]_vars

-----------------------------------------------------------------------------
\* The type of every variable; that a count is a natural number is what
\* DFW_ABORT(___m_ref_count<0) in incRefCount and decRefCount asserts.
TypeOK ==
    /\ mem \in [Objects -> {"none", "live", "dead"}]
    /\ ref \in [Objects -> Nat]
    /\ ptr \in [Places -> Objects \cup {NULL}]
    /\ pc \in [Threads -> {"idle", "inc", "dec", "delete", "clear", "load", "steal", "dock"}]
    /\ dst \in [Threads -> Places \cup {NULL}]
    /\ src \in [Threads -> Places \cup {NULL}]
    /\ lock \in Threads \cup {NULL}

\* A place whose operation has set the pointer but not yet counted it, or has
\* given up its count but not yet forgotten the pointer.
Uncounted(p) == \E t \in Threads : dst[t] = p /\ pc[t] \in {"inc", "delete", "clear"}

\* The places that own one count of o.
Holders(o) == {p \in Places : ptr[p] = o /\ ~Uncounted(p)}

\* The count is exact in every interleaving: it is the number of places that
\* own a reference, so no release is lost and none is made twice.
RefCountExact == \A o \in Objects : mem[o] = "live" => ref[o] = Cardinality(Holders(o))

\* An object that a place owns, or that an sp operation is about to count, to
\* release or to delete, has not been deleted: no use after free, no second
\* delete of the same object.
NoUseAfterFree ==
    /\ \A o \in Objects : Holders(o) # {} => mem[o] = "live"
    /\ \A t \in Threads :
        pc[t] \in {"inc", "dec", "delete"} => mem[ptr[dst[t]]] = "live"

\* Nothing leaks: a live object whose count is 0 is about to be counted by the
\* sp that holds it, or about to be deleted by the sp that released it.
NoLeak ==
    \A o \in Objects :
        mem[o] = "live" /\ ref[o] = 0 =>
            \E t \in Threads : pc[t] \in {"inc", "delete"} /\ ptr[dst[t]] = o

\* The references are accounted for in every state, between the steps of a dock
\* and of a dec() too.
RefInv == TypeOK /\ RefCountExact
=============================================================================
