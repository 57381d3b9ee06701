----------------------------- MODULE EventLoop -----------------------------
(***************************************************************************)
(* What a poll loop promises, whatever its arrays look like: a socket is   *)
(* watched until its own event ends it or the whole set is cleared; a pass *)
(* serves every socket that had an event when the pass began, each once,   *)
(* and ends (unless it is stopped) only when all of them were served.      *)
(***************************************************************************)
CONSTANT Socks

VARIABLES
    watched,   \* the sockets in the poll set
    due,       \* the sockets with an event that this pass has yet to serve
    live       \* FALSE once the loop was told to stop

vars == <<watched, due, live>>

Init == watched = {} /\ due = {} /\ live = TRUE

Watch(s) ==
    /\ s \notin watched /\ due = {}
    /\ watched' = watched \cup {s}
    /\ UNCHANGED <<due, live>>

Begin(ready) ==
    /\ due = {} /\ ready # {} /\ ready \subseteq watched
    /\ due' = ready
    /\ UNCHANGED <<watched, live>>

Serve(s) ==
    /\ s \in due
    /\ due' = due \ {s}
    /\ watched' \in {watched, watched \ {s}}
    /\ live /\ live' = live

Stop ==
    /\ live' = FALSE
    /\ UNCHANGED <<watched, due>>

Abandon ==
    /\ ~live /\ due' = {}
    /\ UNCHANGED <<watched, live>>

ClearAll ==
    /\ due = {} /\ due' = {}
    /\ watched' = {}
    /\ live' = live

Next ==
    \/ \E s \in Socks : Watch(s) \/ Serve(s)
    \/ \E ready \in SUBSET Socks : Begin(ready)
    \/ Stop \/ Abandon
    \/ ClearAll

Spec == Init /\ [][Next]_vars
=============================================================================
