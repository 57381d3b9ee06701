-------------------------------- MODULE Fifo --------------------------------
(***************************************************************************)
(* What Queue<T> promises its users, the worker and the senders of the     *)
(* httpd: objects come out in the order in which they went in, each once.  *)
(***************************************************************************)
EXTENDS Sequences

CONSTANT Objects

VARIABLES items, out

vars == <<items, out>>

Init == items = <<>> /\ out = <<>>

Push == \E d \in Objects : items' = Append(items, d) /\ out' = <<>>
Pop == items # <<>> /\ out' = <<Head(items)>> /\ items' = Tail(items)
PopEmpty == items = <<>> /\ out' = <<>> /\ items' = items

Next == Push \/ Pop \/ PopEmpty
Spec == Init /\ [][Next]_vars
=============================================================================
