------------------------------- MODULE KeyBag -------------------------------
(***************************************************************************)
(* What ArraySorted promises its callers: a multiset of keys with a test   *)
(* of membership.                                                          *)
(***************************************************************************)
EXTENDS Integers

CONSTANT Keys

VARIABLES
    bag,          \* bag[k]: how many elements have the key k
    has           \* whether the last get() or remove() by key found one

vars == <<bag, has>>

Init == bag = [k \in Keys |-> 0] /\ has = FALSE

Insert(k) ==
    /\ bag' = [bag EXCEPT ![k] = @ + 1]
    /\ UNCHANGED has

Get(k) ==
    /\ has' = (bag[k] > 0)
    /\ UNCHANGED bag

\* remove(data): one element with the key, if there is any.
Take(k) ==
    /\ has' = (bag[k] > 0)
    /\ bag' = IF bag[k] > 0 THEN [bag EXCEPT ![k] = @ - 1] ELSE bag

\* remove(position)
Drop(k) ==
    /\ bag[k] > 0
    /\ bag' = [bag EXCEPT ![k] = @ - 1]
    /\ UNCHANGED has

Clear ==
    /\ bag' = [k \in Keys |-> 0]
    /\ UNCHANGED has

Next == Clear \/ \E k \in Keys : Insert(k) \/ Get(k) \/ Take(k) \/ Drop(k)

Spec == Init /\ [][Next]_vars
=============================================================================
