------------------------ MODULE HttpdPipeline_proofs ------------------------
(***************************************************************************)
(* Proofs about HttpdPipeline, for any number of connections and pieces.   *)
(*                                                                         *)
(* OwnersInv and PassWithinPollSet are not inductive.  What a step needs   *)
(* besides: where each thread is tells whether it has a client; the poll   *)
(* entry of the client in the worker's hands is still there, over and      *)
(* above those its pass has yet to visit; and a connection that is not     *)
(* open has no owner at all.                                               *)
(***************************************************************************)
EXTENDS HttpdPipeline, FiniteSetTheorems, TLAPS

Labels == {"top", "visit", "parse", "route", "page", "fail", "handoff", "sent", "drain", "end"}

WorkerAt == {"parse", "route", "page", "fail", "handoff"}

\* The points of each thread's loop.
Points(x) ==
    IF x = "worker" THEN {"top", "visit", "drain", "end"} \cup WorkerAt
    ELSE IF x \in Senders THEN {"top", "visit", "sent", "end"} ELSE {"top", "end"}

\* Where a thread has a client in its hands.
Busy == WorkerAt \cup {"sent"}

\* A thread is at one of its points, and which one tells whether it has a client.
InHand ==
    /\ \A x \in Threads : pc[x] \in Points(x)
    /\ \A x \in Stages : IF pc[x] \in Busy THEN \E c \in Clients : cur[x] = {c}
                                           ELSE cur[x] = {}

\* The worker's pass has visited the entry of the client it works on.
EntryInHand ==
    \A c \in cur["worker"] : due["worker"][c] + 1 <= polled["worker"][c]

\* No byte is in a socket that its peer has not sent.
InboxSent == \A c \in Clients : inbox[c] <= asked[c]

\* Where everything is, before anything is counted.
Shape == TypeOK /\ InHand /\ EntryInHand /\ InboxSent /\ PassWithinPollSet

\* How often c is in the sequence s.
Count(s, c) == Cardinality({i \in DOMAIN s : s[i] = c})

\* The owners of c that queues q, poll sets p and threads u make.
Tally(p, q, u, c) ==
    p["worker"][c] + p["stream"][c] + p["file"][c]
      + Count(q["worker"], c) + Count(q["stream"], c) + Count(q["file"], c)
      + (IF c \in u["stream"] THEN 1 ELSE 0) + (IF c \in u["file"] THEN 1 ELSE 0)

\* The owners c may have.
Limit(c) == 1 + pages[c] + IF At("handoff", c) THEN 1 ELSE 0

\* An open connection has its owners; one that is closed, or not made yet, none.
Settled(c) ==
    IF sock[c] = "open" THEN Owners(c) \in 1 .. Limit(c) ELSE Owners(c) = 0

\* FileStatusSet for one connection, by counting.
FileSet(c) ==
    pages[c] = 0 /\ polled["file"][c] + Count(queue["file"], c) > 0 => fstatus[c] # "unset"

IInv == Shape /\ \A c \in Clients : Settled(c) /\ FileSet(c)

-----------------------------------------------------------------------------
(* How often a client is in a queue. *)

\* A queue is finite, so the count is a number; it is 0 when c is not there.
LEMMA CountIsNat ==
    ASSUME NEW S, NEW s \in Seq(S), NEW c
    PROVE  /\ Count(s, c) \in Nat
           /\ IsFiniteSet({i \in DOMAIN s : s[i] = c})
           /\ Count(s, c) > 0 <=> c \in ToSet(s)
<1> DEFINE At1 == {i \in DOMAIN s : s[i] = c}
<1>1. IsFiniteSet(At1)
  <2>1. DOMAIN s = 1 .. Len(s) /\ Len(s) \in Nat
    OBVIOUS
  <2>2. IsFiniteSet(1 .. Len(s))
    BY <2>1, FS_Interval
  <2> QED
    BY <2>1, <2>2, FS_Subset
<1>2. Cardinality(At1) \in Nat /\ (Cardinality(At1) = 0 <=> At1 = {})
  BY <1>1, FS_CardinalityType, FS_EmptySet
<1>3. At1 # {} <=> c \in ToSet(s)
  BY DEF ToSet
<1> QED
  BY <1>1, <1>2, <1>3 DEF Count

\* An empty queue has nobody.
LEMMA CountEmpty ==
    ASSUME NEW c
    PROVE  Count(<< >>, c) = 0
<1>1. {i \in DOMAIN << >> : << >>[i] = c} = {}
  OBVIOUS
<1> QED
  BY <1>1, FS_EmptySet DEF Count

\* push(): one more of the client that is pushed.
LEMMA CountAppend ==
    ASSUME NEW S, NEW s \in Seq(S), NEW d \in S, NEW c
    PROVE  Count(Append(s, d), c) = Count(s, c) + (IF c = d THEN 1 ELSE 0)
<1> DEFINE Old == {i \in DOMAIN s : s[i] = c}
           New == {i \in DOMAIN Append(s, d) : Append(s, d)[i] = c}
<1>1. IsFiniteSet(Old)
  BY CountIsNat
<1>2. Len(s) + 1 \notin Old
  OBVIOUS
<1>3. CASE c = d
  <2> DEFINE t == Append(s, d)
  <2>1. /\ DOMAIN t = DOMAIN s \cup {Len(s) + 1} /\ t[Len(s) + 1] = d
        /\ \A i \in DOMAIN s : t[i] = s[i]
    OBVIOUS
  <2> HIDE DEF t
  <2>2. {i \in DOMAIN t : t[i] = c} = Old \cup {Len(s) + 1}
    BY <1>3, <2>1
  <2>3. New = Old \cup {Len(s) + 1}
    BY <2>2 DEF t
  <2>4. Cardinality(New) = Cardinality(Old) + 1
    BY <1>1, <1>2, <2>3, FS_AddElement
  <2> QED
    BY <1>3, <2>4 DEF Count
<1>4. CASE c # d
  <2>1. New = Old
    BY <1>4
  <2>2. Cardinality(New) = Cardinality(Old)
    BY <2>1
  <2>3. Cardinality(Old) \in Nat
    BY <1>1, FS_CardinalityType
  <2>4. Count(Append(s, d), c) = Cardinality(New) /\ Count(s, c) = Cardinality(Old)
    BY DEF Count
  <2> HIDE DEF New, Old
  <2> QED
    BY <1>4, <2>2, <2>3, <2>4
<1> QED
  BY <1>3, <1>4

\* pop(): one less of the client at the head.
LEMMA CountTail ==
    ASSUME NEW S, NEW s \in Seq(S), s # << >>, NEW c
    PROVE  Count(Tail(s), c) = Count(s, c) - (IF c = Head(s) THEN 1 ELSE 0)
<1> DEFINE Old == {i \in DOMAIN s : s[i] = c}
           New == {i \in DOMAIN Tail(s) : Tail(s)[i] = c}
           Rest == Old \ {1}
<1>1. IsFiniteSet(Old) /\ Cardinality(Old) \in Nat
  BY CountIsNat, FS_CardinalityType
<1>2. Cardinality(New) = Cardinality(Rest)
  <2> DEFINE f == [i \in New |-> i + 1]
  <2>1. IsFiniteSet(New) /\ IsFiniteSet(Rest)
    <3>1. Tail(s) \in Seq(S)
      OBVIOUS
    <3>2. IsFiniteSet(New)
      BY <3>1, CountIsNat
    <3>3. IsFiniteSet(Rest)
      BY <1>1, FS_Subset
    <3> QED
      BY <3>2, <3>3
  <2>2. \A i \in New : i + 1 \in Rest
    OBVIOUS
  <2>3. \A i \in Rest : i - 1 \in New /\ i = (i - 1) + 1
    OBVIOUS
  <2>4. \A i, j \in New : i + 1 = j + 1 => i = j
    OBVIOUS
  <2> HIDE DEF New, Rest
  <2>5. f \in Bijection(New, Rest)
    <3>1. f \in [New -> Rest]
      BY <2>2
    <3>2. \A i, j \in New : f[i] = f[j] => i = j
      BY <2>4
    <3>3. \A i \in Rest : \E j \in New : f[j] = i
      BY <2>3
    <3>4. f \in Injection(New, Rest) /\ f \in Surjection(New, Rest)
      BY <3>1, <3>2, <3>3 DEF Injection, Surjection, IsInjective
    <3> QED
      BY <3>4 DEF Bijection
  <2> QED
    BY <2>1, <2>5, FS_Bijection DEF ExistsBijection
<1>3. CASE c = Head(s)
  <2>1. 1 \in Old
    BY <1>3
  <2>2. Cardinality(Rest) = Cardinality(Old) - 1
    BY <1>1, <2>1, FS_RemoveElement
  <2>3. Cardinality(New) = Cardinality(Old) - 1
    BY <1>2, <2>2
  <2> QED
    BY <1>3, <2>3 DEF Count
<1>4. CASE c # Head(s)
  <2>1. Rest = Old
    BY <1>4
  <2>2. Cardinality(New) = Cardinality(Old)
    BY <1>2, <2>1
  <2>3. Count(Tail(s), c) = Cardinality(New) /\ Count(s, c) = Cardinality(Old)
    BY DEF Count
  <2> HIDE DEF New, Old, Rest
  <2> QED
    BY <1>1, <1>4, <2>2, <2>3
<1> QED
  BY <1>3, <1>4

-----------------------------------------------------------------------------
(* How the counts follow from the queues and poll sets. *)

\* InQueue counts entries of a queue.
LEMMA InQueueIs ==
    ASSUME NEW x, NEW c
    PROVE  InQueue(x, c) = Count(queue[x], c)
BY DEF InQueue, Quantify, Count

\* Owners counts polled entries, queued entries and sending threads, before a step
\* and after it.
LEMMA OwnersTally ==
    ASSUME TypeOK, NEW c \in Clients
    PROVE  Owners(c) = Tally(polled, queue, cur, c)
<1>1. \A x \in Stages : polled[x][c] \in Nat /\ Count(queue[x], c) \in Nat
  BY CountIsNat DEF TypeOK
<1>2. \A x \in Stages : InQueue(x, c) = Count(queue[x], c)
  BY InQueueIs
<1> QED
  BY <1>1, <1>2 DEF Owners, Refs, Tally, Stages, Senders

LEMMA OwnersTallyNext ==
    ASSUME TypeOK', NEW c \in Clients
    PROVE  Owners(c)' = Tally(polled', queue', cur', c)
<1>1. \A x \in Stages : polled'[x][c] \in Nat /\ Count(queue'[x], c) \in Nat
  BY CountIsNat DEF TypeOK
<1>2. /\ InQueue("worker", c)' = Count(queue'["worker"], c)
      /\ InQueue("stream", c)' = Count(queue'["stream"], c)
      /\ InQueue("file", c)' = Count(queue'["file"], c)
  BY DEF InQueue, Quantify, Count
<1> QED
  BY <1>1, <1>2 DEF Owners, Refs, Tally, Stages, Senders

\* Every count is a number.
CountsAreNat ==
    \A x \in Stages, c \in Clients :
        /\ polled[x][c] \in Nat /\ Count(queue[x], c) \in Nat
        /\ Count(queue[x], c) > 0 <=> c \in ToSet(queue[x])

\* A client is held exactly when it has an owner.
HeldIsOwned == \A c \in Clients : Held(c) <=> Owners(c) >= 1

\* Queues are finite sequences, so the counts are numbers.
LEMMA CountsLemma == TypeOK => CountsAreNat
BY CountIsNat DEF TypeOK, CountsAreNat

\* The reference of the worker's thread is a copy of one in its poll set.
LEMMA HeldLemma == Shape => HeldIsOwned
<1> SUFFICES ASSUME Shape, NEW c \in Clients
             PROVE  Held(c) <=> Owners(c) >= 1
  BY DEF HeldIsOwned
<1>1. \A x \in Stages :
        /\ polled[x][c] \in Nat /\ Count(queue[x], c) \in Nat
        /\ Count(queue[x], c) > 0 <=> c \in ToSet(queue[x])
  BY CountsLemma DEF Shape, CountsAreNat
<1>2. c \in cur["worker"] => polled["worker"][c] > 0
  <2>1. due["worker"][c] \in Nat /\ polled["worker"][c] \in Nat
    BY DEF Shape, TypeOK, Stages
  <2> QED
    BY <2>1 DEF Shape, EntryInHand
<1>3. /\ "worker" \in Stages /\ "stream" \in Stages /\ "file" \in Stages
      /\ "worker" \notin Senders /\ "stream" \in Senders /\ "file" \in Senders
      /\ Stages = {"worker", "stream", "file"}
  BY DEF Stages, Senders
<1>4. Owners(c) >= 1 <=>
        \E x \in Stages : Count(queue[x], c) > 0 \/ polled[x][c] > 0 \/ (x \in Senders /\ c \in cur[x])
  BY <1>1, <1>3, OwnersTally DEF Shape, Tally
<1> QED
  BY <1>1, <1>2, <1>3, <1>4 DEF Held

\* The counts are numbers after a step, too.
LEMMA NextCounts == TypeOK' => CountsAreNat'
BY CountsLemma, PTL

\* Held means owned after a step, too.
LEMMA NextHeld == Shape' => HeldIsOwned'
BY HeldLemma, PTL

\* A connection with an owner is open.
LEMMA OwnedIsOpen ==
    ASSUME IInv, NEW c \in Clients, Owners(c) >= 1
    PROVE  sock[c] = "open"
BY DEF IInv, Settled

\* Owners are settled by a step that ends with letting go, and by one that leaves
\* the socket and some owner.
LEMMA Settle ==
    ASSUME IInv, Shape', NEW c \in Clients,
           Reap \/ (sock'[c] = sock[c] /\ (sock[c] = "open" => Owners(c)' >= 1)),
           sock[c] = "open" => Owners(c)' <= Limit(c)',
           sock[c] # "open" => Owners(c)' = 0
    PROVE  Settled(c)'
<1>1. Owners(c)' \in Nat /\ Limit(c)' \in Nat
  <2>1. \A x \in Stages : polled'[x][c] \in Nat /\ Count(queue'[x], c) \in Nat
    BY NextCounts DEF Shape, CountsAreNat
  <2>2. pages'[c] \in Nat
    BY DEF Shape, TypeOK
  <2> QED
    BY <2>1, <2>2, OwnersTallyNext DEF Shape, Tally, Limit, Stages, Senders
<1>2. Held(c)' <=> Owners(c)' >= 1
  BY NextHeld DEF HeldIsOwned
<1>3. CASE Reap
  <2>1. sock'[c] = IF sock[c] = "open" /\ ~Held(c)' THEN "closed" ELSE sock[c]
    BY <1>3 DEF Reap
  <2> QED
    BY <1>1, <1>2, <2>1 DEF Settled
<1>4. CASE sock'[c] = sock[c] /\ (sock[c] = "open" => Owners(c)' >= 1)
  BY <1>1, <1>4 DEF Settled
<1> QED
  BY <1>3, <1>4

\* What a step leaves alone stays settled.
LEMMA SettleSame ==
    ASSUME IInv, Shape', NEW c \in Clients,
           Reap \/ sock'[c] = sock[c],
           Owners(c)' = Owners(c), pages'[c] = pages[c], At("handoff", c)' <=> At("handoff", c)
    PROVE  Settled(c)'
<1>1. Limit(c)' = Limit(c)
  BY DEF Limit
<1>2. Settled(c)
  BY DEF IInv
<1>3. CASE sock[c] = "open"
  <2>1. Owners(c) \in 1 .. Limit(c)
    BY <1>2, <1>3 DEF Settled
  <2>2. Owners(c)' >= 1 /\ Owners(c)' <= Limit(c)'
    <3>1. pages[c] \in Nat
      BY DEF IInv, Shape, TypeOK
    <3> QED
      BY <1>1, <2>1, <3>1 DEF Limit
  <2> QED
    BY <1>3, <2>2, Settle
<1>4. CASE sock[c] # "open"
  BY <1>2, <1>4, Settle DEF Settled
<1> QED
  BY <1>3, <1>4

-----------------------------------------------------------------------------
(* The moves the actions are made of. *)

\* Push(x, c) counts one more of c in the queue of x.
LEMMA PushCounts ==
    ASSUME TypeOK, NEW x \in Stages, NEW c \in Clients, Push(x, c)
    PROVE  /\ queue' \in [Stages -> Seq(Clients)]
           /\ \A y \in Stages, d \in Clients :
                Count(queue'[y], d) = Count(queue[y], d) + (IF y = x /\ d = c THEN 1 ELSE 0)
<1>1. queue \in [Stages -> Seq(Clients)]
  BY DEF TypeOK
<1>2. queue' = [queue EXCEPT ![x] = Append(queue[x], c)]
  BY DEF Push
<1>3. queue' \in [Stages -> Seq(Clients)]
  BY <1>1, <1>2
<1>4. ASSUME NEW y \in Stages, NEW d \in Clients
      PROVE  Count(queue'[y], d) = Count(queue[y], d) + (IF y = x /\ d = c THEN 1 ELSE 0)
  <2>1. queue[y] \in Seq(Clients)
    BY <1>1
  <2>2. Count(queue[y], d) \in Nat
    BY <2>1, CountIsNat
  <2>4. CASE y = x
    <3>1. queue'[y] = Append(queue[y], c)
      BY <1>1, <1>2, <2>4
    <3>2. Count(Append(queue[y], c), d) = Count(queue[y], d) + (IF d = c THEN 1 ELSE 0)
      BY <2>1, CountAppend
    <3> QED
      BY <2>4, <3>1, <3>2
  <2>5. CASE y # x
    <3>1. queue'[y] = queue[y]
      BY <1>1, <1>2, <2>5
    <3> QED
      BY <2>2, <2>5, <3>1
  <2> QED
    BY <2>4, <2>5
<1> QED
  BY <1>3, <1>4

\* Drop(x, c) takes one entry of c, which is there, off the poll set of x.
LEMMA DropCounts ==
    ASSUME TypeOK, NEW x \in Stages, NEW c \in Clients, polled[x][c] > 0, Drop(x, c)
    PROVE  /\ polled' \in [Stages -> [Clients -> Nat]]
           /\ \A y \in Stages, d \in Clients :
                polled'[y][d] = polled[y][d] - (IF y = x /\ d = c THEN 1 ELSE 0)
<1>1. polled \in [Stages -> [Clients -> Nat]]
  BY DEF TypeOK
<1>2. polled' = [polled EXCEPT ![x] = [polled[x] EXCEPT ![c] = polled[x][c] - 1]]
  BY DEF Drop
<1>3. [polled[x] EXCEPT ![c] = polled[x][c] - 1] \in [Clients -> Nat]
  BY <1>1
<1>4. polled' \in [Stages -> [Clients -> Nat]]
  BY <1>1, <1>2, <1>3
<1>5. ASSUME NEW y \in Stages, NEW d \in Clients
      PROVE  polled'[y][d] = polled[y][d] - (IF y = x /\ d = c THEN 1 ELSE 0)
  BY <1>1, <1>2
<1> QED
  BY <1>4, <1>5

\* Visited(x, c) takes one entry of c off those the pass of x has to visit.
LEMMA VisitCounts ==
    ASSUME TypeOK, NEW x \in Stages, NEW c \in Clients, due[x][c] > 0, Visited(x, c)
    PROVE  /\ due' \in [Stages -> [Clients -> Nat]]
           /\ \A y \in Stages, d \in Clients :
                due'[y][d] = due[y][d] - (IF y = x /\ d = c THEN 1 ELSE 0)
<1>1. due \in [Stages -> [Clients -> Nat]]
  BY DEF TypeOK
<1>2. due' = [due EXCEPT ![x] = [due[x] EXCEPT ![c] = due[x][c] - 1]]
  BY DEF Visited
<1>3. [due[x] EXCEPT ![c] = due[x][c] - 1] \in [Clients -> Nat]
  BY <1>1
<1>4. due' \in [Stages -> [Clients -> Nat]]
  BY <1>1, <1>2, <1>3
<1>5. ASSUME NEW y \in Stages, NEW d \in Clients
      PROVE  due'[y][d] = due[y][d] - (IF y = x /\ d = c THEN 1 ELSE 0)
  BY <1>1, <1>2
<1> QED
  BY <1>4, <1>5

\* Goto(x, l) between two points where x has nothing in its hands, or between two
\* where it has a client.
LEMMA GotoHand ==
    ASSUME TypeOK, InHand, NEW x \in Threads, NEW l \in Points(x), Goto(x, l),
           cur' = cur, pc[x] \in Busy <=> l \in Busy
    PROVE  /\ pc' \in [Threads -> Labels]
           /\ InHand'
<1>1. pc \in [Threads -> Labels]
  BY DEF TypeOK, Labels
<1>2. l \in Labels
  BY DEF Points, WorkerAt, Labels
<1>3. pc' = [pc EXCEPT ![x] = l]
  BY DEF Goto
<1>4. \A y \in Threads : pc'[y] = IF y = x THEN l ELSE pc[y]
  BY <1>1, <1>3
<1>5. \A y \in Stages : y \in Threads
  BY DEF Threads
<1>6. \A y \in Threads : pc'[y] \in Points(y)
  BY <1>4 DEF InHand
<1>7. \A y \in Threads : pc'[y] \in Busy <=> pc[y] \in Busy
  BY <1>4
<1>8. \A y \in Stages : IF pc'[y] \in Busy THEN \E c \in Clients : cur'[y] = {c}
                                           ELSE cur'[y] = {}
  BY <1>5, <1>7 DEF InHand
<1> QED
  BY <1>1, <1>2, <1>3, <1>6, <1>8 DEF InHand

\* A thread takes client c in its hands.
LEMMA TakeHand ==
    ASSUME TypeOK, InHand, NEW x \in Stages, NEW l \in Points(x) \cap Busy,
           NEW c \in Clients, Goto(x, l), cur' = [cur EXCEPT ![x] = {c}]
    PROVE  /\ pc' \in [Threads -> Labels]
           /\ cur' \in [Stages -> SUBSET Clients]
           /\ InHand'
<1>1. /\ pc \in [Threads -> Labels]
      /\ cur \in [Stages -> SUBSET Clients]
      /\ x \in Threads
  BY DEF TypeOK, Labels, Threads
<1>2. l \in Labels
  BY DEF Points, WorkerAt, Labels
<1>3. pc' = [pc EXCEPT ![x] = l]
  BY DEF Goto
<1>4. \A y \in Threads : pc'[y] = IF y = x THEN l ELSE pc[y]
  BY <1>1, <1>3
<1>5. \A y \in Stages : cur'[y] = IF y = x THEN {c} ELSE cur[y]
  BY <1>1
<1>6. \A y \in Threads : pc'[y] \in Points(y)
  BY <1>4 DEF InHand
<1>7. \A y \in Stages : y \in Threads
  BY DEF Threads
<1>8. \A y \in Stages : IF pc'[y] \in Busy THEN \E d \in Clients : cur'[y] = {d}
                                           ELSE cur'[y] = {}
  BY <1>4, <1>5, <1>7 DEF InHand
<1> QED
  BY <1>1, <1>2, <1>3, <1>6, <1>8 DEF InHand

\* A thread lets go of its client and is back in its pass.
LEMMA FreeHand ==
    ASSUME TypeOK, InHand, NEW x \in Stages, Goto(x, "visit"), cur' = [cur EXCEPT ![x] = {}]
    PROVE  /\ pc' \in [Threads -> Labels]
           /\ cur' \in [Stages -> SUBSET Clients]
           /\ InHand'
<1>1. /\ pc \in [Threads -> Labels]
      /\ cur \in [Stages -> SUBSET Clients]
      /\ x \in Threads
  BY DEF TypeOK, Labels, Threads
<1>2. "visit" \in Points(x) /\ "visit" \notin Busy
  BY DEF Points, WorkerAt, Busy, Stages
<1>3. pc' = [pc EXCEPT ![x] = "visit"]
  BY DEF Goto
<1>4. \A y \in Threads : pc'[y] = IF y = x THEN "visit" ELSE pc[y]
  BY <1>1, <1>3
<1>5. \A y \in Stages : cur'[y] = IF y = x THEN {} ELSE cur[y]
  BY <1>1
<1>6. \A y \in Threads : pc'[y] \in Points(y)
  BY <1>2, <1>4 DEF InHand
<1>7. \A y \in Stages : y \in Threads
  BY DEF Threads
<1>8. \A y \in Stages : IF pc'[y] \in Busy THEN \E d \in Clients : cur'[y] = {d}
                                           ELSE cur'[y] = {}
  BY <1>2, <1>4, <1>5, <1>7 DEF InHand
<1> QED
  BY <1>1, <1>3, <1>6, <1>8 DEF InHand, Labels

-----------------------------------------------------------------------------
(* Steps that move no reference. *)

\* Neither the owners nor what they find change.
LEMMA QuietStep ==
    ASSUME IInv, Shape', UNCHANGED <<sock, queue, polled, cur, pages>>,
           \A c \in Clients : At("handoff", c)' <=> At("handoff", c),
           \A c \in Clients : fstatus[c] # "unset" => fstatus'[c] # "unset"
    PROVE  IInv'
<1>1. ASSUME NEW c \in Clients
      PROVE  Settled(c)' /\ FileSet(c)'
  <2>2. Owners(c)' = Owners(c)
    BY OwnersTally, OwnersTallyNext DEF IInv, Shape
  <2>3. Settled(c)'
    BY <2>2, SettleSame
  <2>4. FileSet(c)'
    BY DEF FileSet, IInv
  <2> QED
    BY <2>3, <2>4
<1> QED
  BY <1>1 DEF IInv

\* What the peers and the service do is seen by the threads later.
LEMMA OutsideStep ==
    ASSUME IInv,
           \/ \E c \in Clients : Peer(c)
           \/ Service
           \/ Stopped
    PROVE  IInv'
<1> USE DEF IInv
<1>1. ASSUME NEW c \in Clients, PeerSend(c)
      PROVE  IInv'
  <2>1. /\ inbox \in [Clients -> 0..MaxPieces] /\ asked \in [Clients -> 0..MaxPieces]
        /\ inbox' = [inbox EXCEPT ![c] = inbox[c] + 1]
        /\ asked' = [asked EXCEPT ![c] = asked[c] + 1]
        /\ inbox[c] <= asked[c] /\ asked[c] < MaxPieces /\ MaxPieces \in Nat
    BY <1>1, PieceAssumption DEF PeerSend, Shape, TypeOK, InboxSent
  <2>2. /\ inbox' \in [Clients -> 0..MaxPieces] /\ asked' \in [Clients -> 0..MaxPieces]
        /\ InboxSent'
    BY <2>1 DEF Shape, InboxSent
  <2>3. TypeOK'
    BY <1>1, <2>2 DEF PeerSend, message, Shape, TypeOK
  <2>4. Shape'
    BY <1>1, <2>2, <2>3 DEF PeerSend, Shape, InHand, EntryInHand, PassWithinPollSet
  <2> QED
    BY <1>1, <2>4, QuietStep DEF PeerSend, message, At
<1>2. ASSUME NEW c \in Clients, PeerClose(c)
      PROVE  IInv'
  <2>1. TypeOK'
    BY <1>2 DEF PeerClose, message, Shape, TypeOK
  <2>2. Shape'
    BY <1>2, <2>1 DEF PeerClose, Shape, InHand, EntryInHand, InboxSent, PassWithinPollSet
  <2> QED
    BY <1>2, <2>2, QuietStep DEF PeerClose, message, At
<1>5. ASSUME NEW c \in Clients, PeerTrickles(c)
      PROVE  IInv'
  <2>1. TypeOK'
    BY <1>5 DEF PeerTrickles, message, Shape, TypeOK
  <2>2. Shape'
    BY <1>5, <2>1 DEF PeerTrickles, Shape, InHand, EntryInHand, InboxSent, PassWithinPollSet
  <2> QED
    BY <1>5, <2>2, QuietStep DEF PeerTrickles, message, At
<1>3. ASSUME NEW x \in Threads, ServiceStops(x)
      PROVE  IInv'
  <2>1. TypeOK'
    BY <1>3 DEF ServiceStops, peers, message, Shape, TypeOK
  <2>2. Shape'
    BY <1>3, <2>1 DEF ServiceStops, peers, Shape, InHand, EntryInHand, InboxSent, PassWithinPollSet
  <2> QED
    BY <1>3, <2>2, QuietStep DEF ServiceStops, message, At
<1>4. CASE Stopped
  <2>1. Shape'
    BY <1>4 DEF Stopped, vars, peers, message, Shape, TypeOK, InHand, EntryInHand,
                InboxSent, PassWithinPollSet
  <2> QED
    BY <1>4, <2>1, QuietStep DEF Stopped, vars, message, At
<1> QED
  BY <1>1, <1>2, <1>3, <1>4, <1>5 DEF Peer, Service

\* A thread that ends drops its pass; one that polls begins a new one, of entries
\* that are there.
LEMMA LoopStep ==
    ASSUME IInv, NEW x \in Threads, Ends(x) \/ (x \in Stages /\ Polls(x))
    PROVE  IInv'
<1> USE DEF IInv
<1>1. CASE Ends(x)
  <2>1. /\ pc' \in [Threads -> Labels]
        /\ InHand'
    <3>1. "end" \in Points(x) /\ "end" \notin Busy /\ pc[x] \notin Busy
      BY <1>1 DEF Ends, Points, Busy, WorkerAt
    <3> QED
      BY <1>1, <3>1, GotoHand DEF Ends, Shape
  <2>2. /\ due' \in [Stages -> [Clients -> Nat]]
        /\ \A y \in Stages, c \in Clients : due'[y][c] <= due[y][c]
    <3>1. due \in [Stages -> [Clients -> Nat]] /\ Zero \in [Clients -> Nat]
          /\ \A c \in Clients : Zero[c] = 0
      BY DEF Shape, TypeOK, Zero
    <3>2. due' = IF x \in Stages THEN [due EXCEPT ![x] = Zero] ELSE due
      BY <1>1 DEF Ends
    <3> QED
      BY <3>1, <3>2
  <2>3. TypeOK'
    BY <1>1, <2>1, <2>2 DEF Ends, peers, message, Shape, TypeOK, Labels
  <2>4. EntryInHand' /\ PassWithinPollSet'
    <3>1. polled' = polled /\ cur' = cur
          /\ polled \in [Stages -> [Clients -> Nat]] /\ due \in [Stages -> [Clients -> Nat]]
          /\ cur \in [Stages -> SUBSET Clients] /\ "worker" \in Stages
      BY <1>1 DEF Ends, Shape, TypeOK, Stages
    <3>2. EntryInHand /\ PassWithinPollSet
      BY DEF Shape
    <3> QED
      BY <2>2, <3>1, <3>2 DEF EntryInHand, PassWithinPollSet
  <2>5. Shape'
    BY <1>1, <2>1, <2>3, <2>4 DEF Ends, peers, Shape, InboxSent
  <2>6. \A c \in Clients : At("handoff", c)' <=> At("handoff", c)
    <3>1. pc'["worker"] = pc["worker"] \/ (pc["worker"] # "handoff" /\ pc'["worker"] # "handoff")
      <4>1. /\ pc \in [Threads -> Labels]
            /\ pc[x] \in {"top", "visit", "drain"} /\ pc' = [pc EXCEPT ![x] = "end"]
            /\ "worker" \in Threads
        BY <1>1 DEF Ends, Goto, Shape, TypeOK, Labels, Threads, Stages
      <4> QED
        BY <4>1
    <3> QED
      BY <1>1, <3>1 DEF Ends, At
  <2> QED
    BY <1>1, <2>5, <2>6, QuietStep DEF Ends, message
<1>2. CASE x \in Stages /\ Polls(x)
  <2>1. /\ pc' \in [Threads -> Labels]
        /\ InHand'
    <3>1. "visit" \in Points(x) /\ "visit" \notin Busy /\ pc[x] \notin Busy
      BY <1>2 DEF Polls, Points, Busy, WorkerAt, Stages
    <3> QED
      BY <1>2, <3>1, GotoHand DEF Polls, Shape
  <2>2. PICK D \in SUBSET Clients :
          due' = [due EXCEPT ![x] = [c \in Clients |-> IF c \in D THEN polled[x][c] ELSE 0]]
    <3>1. PICK writable \in SUBSET Clients :
            due' = [due EXCEPT ![x] =
                     [c \in Clients |->
                         IF c \in writable \/ gone[c] \/ (x = "worker" /\ Waiting(c))
                         THEN polled[x][c] ELSE 0]]
      BY <1>2 DEF Polls
    <3> DEFINE E == {c \in Clients :
                       c \in writable \/ gone[c] \/ (x = "worker" /\ Waiting(c))}
    <3>2. [c \in Clients |-> IF c \in writable \/ gone[c] \/ (x = "worker" /\ Waiting(c))
                             THEN polled[x][c] ELSE 0]
            = [c \in Clients |-> IF c \in E THEN polled[x][c] ELSE 0]
      OBVIOUS
    <3>3. E \in SUBSET Clients
      OBVIOUS
    <3> HIDE DEF E
    <3> QED
      BY <3>1, <3>2, <3>3
  <2>3. /\ polled \in [Stages -> [Clients -> Nat]] /\ due \in [Stages -> [Clients -> Nat]]
        /\ cur \in [Stages -> SUBSET Clients] /\ polled' = polled /\ cur' = cur
    BY <1>2 DEF Polls, Shape, TypeOK
  <2>4. /\ due' \in [Stages -> [Clients -> Nat]]
        /\ \A y \in Stages, c \in Clients :
             due'[y][c] = IF y = x THEN IF c \in D THEN polled[x][c] ELSE 0 ELSE due[y][c]
    BY <1>2, <2>2, <2>3
  <2>5. TypeOK'
    BY <1>2, <2>1, <2>4 DEF Polls, peers, message, Shape, TypeOK, Labels
  <2>6. PassWithinPollSet'
    <3>1. ASSUME NEW y \in Stages, NEW c \in Clients
          PROVE  due'[y][c] <= polled'[y][c]
      <4>1. due[y][c] <= polled[y][c] /\ polled[y][c] \in Nat /\ polled'[y][c] = polled[y][c]
        BY <2>3 DEF Shape, PassWithinPollSet
      <4> QED
        BY <2>4, <4>1
    <3> QED
      BY <3>1 DEF PassWithinPollSet
  <2>7. EntryInHand'
    <3>1. x = "worker" => cur["worker"] = {}
      BY <1>2 DEF Polls, Shape, InHand, Busy, WorkerAt
    <3> QED
      BY <2>3, <2>4, <3>1 DEF Shape, EntryInHand, Stages
  <2>8. Shape'
    BY <1>2, <2>1, <2>5, <2>6, <2>7 DEF Polls, peers, Shape, InboxSent
  <2>9. \A c \in Clients : At("handoff", c)' <=> At("handoff", c)
    <3>1. /\ pc \in [Threads -> Labels]
          /\ pc[x] = "top" /\ pc' = [pc EXCEPT ![x] = "visit"] /\ "worker" \in Threads
      BY <1>2 DEF Polls, Goto, Shape, TypeOK, Labels, Threads, Stages
    <3>2. pc'["worker"] = pc["worker"] \/ (pc["worker"] # "handoff" /\ pc'["worker"] # "handoff")
      BY <3>1
    <3> QED
      BY <2>3, <3>2 DEF At
  <2> QED
    BY <1>2, <2>8, <2>9, QuietStep DEF Polls, message
<1> QED
  BY <1>1, <1>2

\* The worker goes on without letting go of anything: its pass is over, it has
\* parsed what is there, it has made a status page.
LEMMA WorkerQuietStep ==
    ASSUME IInv,
           \/ WorkerPassEnds
           \/ \E c \in Clients : WorkerParses(c) \/ \E page \in Pages : WorkerChecks(c, page)
    PROVE  IInv'
<1> USE DEF IInv
<1>0. /\ "worker" \in Threads /\ "worker" \in Stages /\ pc \in [Threads -> Labels]
  BY DEF Shape, TypeOK, Labels, Threads, Stages
<1>1. CASE WorkerPassEnds
  <2>1. pc["worker"] = "visit" /\ Goto("worker", "drain") /\ cur' = cur
    BY <1>1 DEF WorkerPassEnds
  <2>2. "drain" \in Points("worker") /\ "drain" \notin Busy /\ "visit" \notin Busy
    BY DEF Points, Busy, WorkerAt
  <2>3. pc' \in [Threads -> Labels] /\ InHand'
    BY <1>0, <2>1, <2>2, GotoHand DEF Shape
  <2>4. TypeOK'
    BY <1>1, <2>3 DEF WorkerPassEnds, peers, message, Shape, TypeOK, Labels
  <2>5. Shape'
    BY <1>1, <2>3, <2>4 DEF WorkerPassEnds, peers, Shape, EntryInHand, InboxSent, PassWithinPollSet
  <2>6. \A c \in Clients : At("handoff", c)' <=> At("handoff", c)
    BY <1>0, <2>1 DEF Goto, At
  <2> QED
    BY <1>1, <2>5, <2>6, QuietStep DEF WorkerPassEnds, message
<1>2. ASSUME NEW c \in Clients, WorkerParses(c)
      PROVE  IInv'
  <2>1. pc["worker"] = "parse" /\ cur' = cur
    BY <1>2 DEF WorkerParses, At
  <2>2. PICK l \in {"route", "parse"} : Goto("worker", l)
    BY <1>2 DEF WorkerParses
  <2>3. l \in Points("worker") /\ l \in Busy /\ "parse" \in Busy
    BY DEF Points, Busy, WorkerAt
  <2>4. pc' \in [Threads -> Labels] /\ InHand'
    BY <1>0, <2>1, <2>2, <2>3, GotoHand DEF Shape
  <2>5. inbox' \in [Clients -> 0..MaxPieces] /\ InboxSent'
    <3>1. /\ inbox \in [Clients -> 0..MaxPieces] /\ asked \in [Clients -> 0..MaxPieces]
          /\ inbox' = [inbox EXCEPT ![c] = 0] /\ asked' = asked /\ MaxPieces \in Nat
      BY <1>2, PieceAssumption DEF WorkerParses, Shape, TypeOK
    <3> QED
      BY <3>1 DEF Shape, InboxSent
  <2>6. got' \in [Clients -> 0..ReqLen]
    <3>1. /\ got \in [Clients -> 0..ReqLen] /\ inbox[c] \in Nat /\ ReqLen \in Nat
          /\ got' = [got EXCEPT ![c] = Min({ReqLen, got[c] + inbox[c]})]
      BY <1>2, PieceAssumption DEF WorkerParses, Shape, TypeOK
    <3>2. Min({ReqLen, got[c] + inbox[c]}) \in 0..ReqLen
      <4> DEFINE a == got[c] + inbox[c]
      <4>1. a \in Nat
        BY <3>1
      <4> HIDE DEF a
      <4>2. \E m \in {ReqLen, a} : \A n \in {ReqLen, a} : m <= n
        BY <3>1, <4>1
      <4>3. Min({ReqLen, a}) \in {ReqLen, a} /\ \A n \in {ReqLen, a} : Min({ReqLen, a}) <= n
        BY <4>2 DEF Min
      <4>4. Min({ReqLen, a}) \in 0..ReqLen
        BY <3>1, <4>1, <4>3
      <4> QED
        BY <4>4 DEF a
    <3> QED
      BY <3>1, <3>2
  <2>7. TypeOK'
    BY <1>2, <2>4, <2>5, <2>6 DEF WorkerParses, Shape, TypeOK, Labels
  <2>8. Shape'
    BY <1>2, <2>4, <2>5, <2>7 DEF WorkerParses, Shape, EntryInHand, PassWithinPollSet
  <2>9. \A d \in Clients : At("handoff", d)' <=> At("handoff", d)
    BY <1>0, <2>1, <2>2 DEF Goto, At
  <2> QED
    BY <1>2, <2>8, <2>9, QuietStep DEF WorkerParses
<1>3. ASSUME NEW c \in Clients, NEW page \in Pages, WorkerChecks(c, page)
      PROVE  IInv'
  <2>1. pc["worker"] = "route" /\ cur' = cur
    BY <1>3 DEF WorkerChecks, At
  <2>2. PICK l \in {"page", "fail"} : Goto("worker", l)
    BY <1>3 DEF WorkerChecks
  <2>3. l \in Points("worker") /\ l \in Busy /\ "route" \in Busy
    BY DEF Points, Busy, WorkerAt
  <2>4. pc' \in [Threads -> Labels] /\ InHand'
    BY <1>0, <2>1, <2>2, <2>3, GotoHand DEF Shape
  <2>5. /\ keep' \in [Clients -> BOOLEAN]
        /\ fstatus' \in [Clients -> {"unset", "start", "body", "flush"}]
        /\ \A d \in Clients : fstatus[d] # "unset" => fstatus'[d] # "unset"
    <3>1. /\ keep \in [Clients -> BOOLEAN]
          /\ fstatus \in [Clients -> {"unset", "start", "body", "flush"}]
          /\ keep' = [keep EXCEPT ![c] = IF page = "error" THEN keep[c] ELSE page # "denied"]
          /\ fstatus' = [fstatus EXCEPT ![c] = IF page = "unmodified" THEN "start" ELSE fstatus[c]]
      BY <1>3 DEF WorkerChecks, Shape, TypeOK
    <3>2. (IF page = "error" THEN keep[c] ELSE page # "denied") \in BOOLEAN
      BY <3>1
    <3> QED
      BY <3>1, <3>2
  <2>6. TypeOK'
    BY <1>3, <2>4, <2>5 DEF WorkerChecks, peers, Shape, TypeOK, Labels
  <2>7. Shape'
    BY <1>3, <2>4, <2>6 DEF WorkerChecks, peers, Shape, EntryInHand, InboxSent, PassWithinPollSet
  <2>8. \A d \in Clients : At("handoff", d)' <=> At("handoff", d)
    BY <1>0, <2>1, <2>2 DEF Goto, At
  <2> QED
    BY <1>3, <2>5, <2>7, <2>8, QuietStep DEF WorkerChecks
<1> QED
  BY <1>1, <1>2, <1>3

-----------------------------------------------------------------------------
(* Steps of the worker that move references. *)

\* pollin returns: with the entry removed, or kept.
LEMMA LetsGoShape ==
    ASSUME Shape, NEW c \in Clients, NEW removed \in BOOLEAN,
           c \in cur["worker"], pc["worker"] \in WorkerAt,
           WorkerLetsGo(c, removed), due' = due
    PROVE  /\ cur["worker"] = {c} /\ polled["worker"][c] > 0
           /\ pc' \in [Threads -> Labels] /\ pc'["worker"] = "visit"
           /\ cur' \in [Stages -> SUBSET Clients]
           /\ polled' \in [Stages -> [Clients -> Nat]]
           /\ InHand' /\ EntryInHand' /\ PassWithinPollSet'
           /\ \A x \in Senders : cur'[x] = cur[x]
           /\ \A x \in Stages, d \in Clients :
                polled'[x][d] = polled[x][d] -
                                  (IF removed /\ x = "worker" /\ d = c THEN 1 ELSE 0)
<1>1. /\ "worker" \in Stages /\ "worker" \in Threads /\ "worker" \notin Senders
      /\ \A x \in Senders : x \in Stages
      /\ pc \in [Threads -> Labels] /\ cur \in [Stages -> SUBSET Clients]
      /\ due \in [Stages -> [Clients -> Nat]] /\ polled \in [Stages -> [Clients -> Nat]]
  BY DEF Shape, TypeOK, Labels, Stages, Senders, Threads
<1>2. cur["worker"] = {c}
  BY <1>1 DEF Shape, InHand, Busy
<1>3. due["worker"][c] + 1 <= polled["worker"][c]
  BY DEF Shape, EntryInHand
<1>4. polled["worker"][c] > 0
  <2>1. due["worker"][c] \in Nat /\ polled["worker"][c] \in Nat
    BY <1>1
  <2> QED
    BY <1>3, <2>1
<1>5. /\ polled' \in [Stages -> [Clients -> Nat]]
      /\ \A x \in Stages, d \in Clients :
           polled'[x][d] = polled[x][d] - (IF removed /\ x = "worker" /\ d = c THEN 1 ELSE 0)
  <2>1. CASE removed
    <3>1. Drop("worker", c)
      BY <2>1 DEF WorkerLetsGo
    <3> QED
      BY <1>1, <1>4, <2>1, <3>1, DropCounts DEF Shape
  <2>2. CASE ~removed
    <3>1. polled' = polled
      BY <2>2 DEF WorkerLetsGo
    <3>2. \A x \in Stages, d \in Clients : polled[x][d] = polled[x][d] - 0
      BY <1>1
    <3> QED
      BY <1>1, <2>2, <3>1, <3>2
  <2> QED
    BY <2>1, <2>2
<1>6. Goto("worker", "visit") /\ cur' = [cur EXCEPT !["worker"] = {}]
  BY DEF WorkerLetsGo
<1>7. pc' \in [Threads -> Labels] /\ cur' \in [Stages -> SUBSET Clients] /\ InHand'
  BY <1>1, <1>6, FreeHand DEF Shape
<1>8. /\ pc'["worker"] = "visit" /\ cur'["worker"] = {}
      /\ \A x \in Senders : cur'[x] = cur[x]
  BY <1>1, <1>6 DEF Goto
<1>9. EntryInHand'
  BY <1>8 DEF EntryInHand
<1>10. PassWithinPollSet'
  <2>1. ASSUME NEW x \in Stages, NEW d \in Clients
        PROVE  due'[x][d] <= polled'[x][d]
    <3>1. due[x][d] <= polled[x][d] /\ due[x][d] \in Nat /\ polled[x][d] \in Nat
      BY <1>1 DEF Shape, PassWithinPollSet
    <3> QED
      BY <1>3, <1>5, <3>1
  <2> QED
    BY <2>1 DEF PassWithinPollSet
<1> QED
  BY <1>2, <1>4, <1>5, <1>7, <1>8, <1>9, <1>10

\* The request fails or is rejected, or its file is handed over: the entry of the
\* client leaves the poll set.
LEMMA WorkerDropStep ==
    ASSUME IInv, NEW c \in Clients,
           WorkerParseFails(c) \/ WorkerRejects(c) \/ WorkerHandsOff(c)
    PROVE  IInv'
<1>1. /\ c \in cur["worker"] /\ pc["worker"] \in WorkerAt
      /\ WorkerLetsGo(c, TRUE) /\ Reap
      /\ UNCHANGED <<asked, gone, got, keep, fstatus, queue, due, live, pages>>
      /\ Unread(c)
  BY DEF WorkerParseFails, WorkerRejects, WorkerHandsOff, Unread, At, WorkerAt, peers, message
<1>2. Shape
  BY DEF IInv
<1>3. /\ cur["worker"] = {c} /\ polled["worker"][c] > 0
      /\ pc' \in [Threads -> Labels] /\ pc'["worker"] = "visit"
      /\ cur' \in [Stages -> SUBSET Clients] /\ polled' \in [Stages -> [Clients -> Nat]]
      /\ InHand' /\ EntryInHand' /\ PassWithinPollSet'
      /\ \A x \in Senders : cur'[x] = cur[x]
      /\ \A x \in Stages, d \in Clients :
           polled'[x][d] = polled[x][d] - (IF x = "worker" /\ d = c THEN 1 ELSE 0)
  <2>1. \A x \in Stages, d \in Clients :
          polled'[x][d] = polled[x][d] - (IF TRUE /\ x = "worker" /\ d = c THEN 1 ELSE 0)
    BY <1>1, <1>2, LetsGoShape, Zenon
  <2> QED
    BY <1>1, <1>2, <2>1, LetsGoShape
<1>4. /\ inbox' \in [Clients -> 0..MaxPieces] /\ InboxSent'
      /\ more' \in [Clients -> BOOLEAN]
  <2>1. /\ inbox \in [Clients -> 0..MaxPieces] /\ asked \in [Clients -> 0..MaxPieces]
        /\ more \in [Clients -> BOOLEAN]
        /\ asked' = asked /\ MaxPieces \in Nat
        /\ \A d \in Clients : inbox[d] <= asked[d]
    BY <1>1, <1>2, PieceAssumption DEF Shape, TypeOK, InboxSent
  <2>2. CASE UNCHANGED <<inbox, more>>
    BY <2>1, <2>2 DEF InboxSent
  <2>3. CASE inbox' = [inbox EXCEPT ![c] = 0] /\ more' = [more EXCEPT ![c] = FALSE]
    BY <2>1, <2>3 DEF InboxSent
  <2> QED
    BY <1>1, <2>2, <2>3 DEF Unread
<1>5. sock' \in [Clients -> {"none", "open", "closed"}]
  BY <1>1, <1>2 DEF Reap, Shape, TypeOK
<1>6. TypeOK'
  BY <1>1, <1>2, <1>3, <1>4, <1>5 DEF Shape, TypeOK, Labels
<1>7. Shape'
  BY <1>3, <1>4, <1>6 DEF Shape
<1>8. ASSUME NEW d \in Clients
      PROVE  Settled(d)' /\ FileSet(d)'
  <2>1. \A x \in Stages : polled[x][d] \in Nat /\ Count(queue[x], d) \in Nat
    BY <1>2, CountsLemma DEF Shape, CountsAreNat
  <2>2. Owners(d)' = Owners(d) - (IF d = c THEN 1 ELSE 0)
    <3>1. /\ polled'["worker"][d] = polled["worker"][d] - (IF d = c THEN 1 ELSE 0)
          /\ polled'["stream"][d] = polled["stream"][d]
          /\ polled'["file"][d] = polled["file"][d]
      BY <1>3, <2>1 DEF Stages, Senders
    <3>2. queue' = queue /\ cur'["stream"] = cur["stream"] /\ cur'["file"] = cur["file"]
      BY <1>1, <1>3 DEF Senders
    <3>3. /\ Owners(d) = Tally(polled, queue, cur, d)
          /\ Owners(d)' = Tally(polled', queue', cur', d)
      BY <1>2, <1>6, OwnersTally, OwnersTallyNext DEF Shape
    <3> QED
      BY <2>1, <3>1, <3>2, <3>3 DEF Tally, Stages, Senders
  <2>3. Settled(d)'
    <3>1. CASE d = c
      <4>1. Owners(c) >= 1
        BY <1>2, <1>3, <2>1, <3>1, OwnersTally DEF Shape, Tally, Stages, Senders
      <4>2. sock[c] = "open" /\ Owners(c) \in 1 .. Limit(c)
        BY <4>1, OwnedIsOpen DEF IInv, Settled
      <4>3. Limit(c)' = 1 + pages[c] /\ Limit(c) <= 2 + pages[c]
        <5>1. pages[c] \in Nat /\ pages'[c] = pages[c] /\ pc'["worker"] # "handoff"
          BY <1>1, <1>2, <1>3 DEF Shape, TypeOK
        <5> QED
          BY <5>1 DEF Limit, At
      <4>4. Owners(c)' <= Limit(c)'
        <5>1. pages[c] \in Nat
          BY <1>2 DEF Shape, TypeOK
        <5> QED
          BY <2>2, <3>1, <4>2, <4>3, <5>1 DEF Limit
      <4> QED
        BY <1>1, <1>7, <3>1, <4>2, <4>4, Settle
    <3>2. CASE d # c
      <4>1. At("handoff", d)' <=> At("handoff", d)
        BY <1>3, <3>2 DEF At
      <4>2. Owners(d)' = Owners(d)
        BY <1>2, <2>1, <2>2, <3>2, OwnersTally DEF Shape, Tally, Stages, Senders
      <4> QED
        BY <1>1, <1>7, <4>1, <4>2, SettleSame
    <3> QED
      BY <3>1, <3>2
  <2>4. FileSet(d)'
    <3>1. polled'["file"][d] = polled["file"][d]
      BY <1>3, <2>1 DEF Stages, Senders
    <3> QED
      BY <1>1, <3>1 DEF FileSet, IInv
  <2> QED
    BY <2>3, <2>4
<1> QED
  BY <1>7, <1>8 DEF IInv

\* A status page is queued for the stream sender.  Its entry stays, and the page
\* is counted; after a file system error the entry goes instead.
LEMMA WorkerStreamsStep ==
    ASSUME IInv, NEW c \in Clients, WorkerStreams(c)
    PROVE  IInv'
<1>0. PICK removed \in BOOLEAN : removed <=> pc["worker"] = "fail"
  OBVIOUS
<1> DEFINE kept == IF removed THEN 0 ELSE 1
<1>1. /\ c \in cur["worker"] /\ pc["worker"] \in {"page", "fail"}
      /\ WorkerLetsGo(c, removed) /\ Push("stream", c) /\ Reap
      /\ UNCHANGED <<inbox, asked, more, gone, got, keep, fstatus, due, live>>
      /\ pages' = [pages EXCEPT ![c] = IF pc["worker"] = "page" THEN pages[c] + 1 ELSE pages[c]]
  BY <1>0 DEF WorkerStreams, WorkerLetsGo, At, peers, message
<1>2. Shape /\ TypeOK
  BY DEF IInv, Shape
<1>3. /\ cur["worker"] = {c} /\ polled["worker"][c] > 0
      /\ pc' \in [Threads -> Labels] /\ pc'["worker"] = "visit"
      /\ cur' \in [Stages -> SUBSET Clients] /\ polled' \in [Stages -> [Clients -> Nat]]
      /\ InHand' /\ EntryInHand' /\ PassWithinPollSet'
      /\ \A x \in Senders : cur'[x] = cur[x]
      /\ \A x \in Stages, d \in Clients :
           polled'[x][d] = polled[x][d] - (IF removed /\ x = "worker" /\ d = c THEN 1 ELSE 0)
  BY <1>1, <1>2, LetsGoShape DEF WorkerAt
<1>4. /\ queue' \in [Stages -> Seq(Clients)]
      /\ \A y \in Stages, d \in Clients :
           Count(queue'[y], d) = Count(queue[y], d) + (IF y = "stream" /\ d = c THEN 1 ELSE 0)
  BY <1>1, <1>2, PushCounts DEF Stages, Senders
<1>5. sock' \in [Clients -> {"none", "open", "closed"}]
  BY <1>1, <1>2 DEF Reap, TypeOK
<1>6. /\ pages \in [Clients -> Nat] /\ pages' \in [Clients -> Nat]
      /\ \A d \in Clients : pages'[d] = pages[d] + (IF d = c THEN kept ELSE 0)
  BY <1>0, <1>1, <1>2 DEF TypeOK
<1>7. TypeOK'
  BY <1>1, <1>2, <1>3, <1>4, <1>5, <1>6 DEF TypeOK, Labels
<1>8. Shape'
  BY <1>1, <1>2, <1>3, <1>7 DEF Shape, InboxSent
<1>9. ASSUME NEW d \in Clients
      PROVE  Settled(d)' /\ FileSet(d)'
  <2>1. \A x \in Stages : polled[x][d] \in Nat /\ Count(queue[x], d) \in Nat
    BY <1>2, CountsLemma DEF Shape, CountsAreNat
  <2>2. /\ polled'["worker"][d] = polled["worker"][d] - (IF d = c THEN 1 - kept ELSE 0)
        /\ polled'["stream"][d] = polled["stream"][d]
        /\ polled'["file"][d] = polled["file"][d]
    BY <1>3, <2>1 DEF Stages, Senders
  <2>3. /\ Count(queue'["worker"], d) = Count(queue["worker"], d)
        /\ Count(queue'["stream"], d) = Count(queue["stream"], d) + (IF d = c THEN 1 ELSE 0)
        /\ Count(queue'["file"], d) = Count(queue["file"], d)
    BY <1>4, <2>1 DEF Stages, Senders
  <2>4. Owners(d)' = Owners(d) + (IF d = c THEN kept ELSE 0)
    <3>1. cur'["stream"] = cur["stream"] /\ cur'["file"] = cur["file"]
      BY <1>3 DEF Senders
    <3>2. /\ Owners(d) = Tally(polled, queue, cur, d)
          /\ Owners(d)' = Tally(polled', queue', cur', d)
      BY <1>2, <1>7, OwnersTally, OwnersTallyNext
    <3>3. kept \in {0, 1}
      OBVIOUS
    <3> HIDE DEF kept
    <3> QED
      BY <2>1, <2>2, <2>3, <3>1, <3>2, <3>3 DEF Tally, Stages, Senders
  <2>5. Settled(d)'
    <3>1. CASE d = c
      <4>1. Owners(c) >= 1
        BY <1>2, <1>3, <2>1, <3>1, OwnersTally DEF Tally, Stages, Senders
      <4>2. sock[c] = "open" /\ Owners(c) \in 1 .. Limit(c)
        BY <4>1, OwnedIsOpen DEF IInv, Settled
      <4>3. Limit(c) = 1 + pages[c] /\ Limit(c)' = 1 + pages'[c]
        <5>1. pages[c] \in Nat /\ pages'[c] \in Nat
              /\ pc["worker"] # "handoff" /\ pc'["worker"] # "handoff"
          BY <1>1, <1>3, <1>6
        <5> QED
          BY <5>1 DEF Limit, At
      <4>4. Owners(c)' <= Limit(c)'
        <5>1. pages[c] \in Nat /\ pages'[c] = pages[c] + kept /\ Owners(c)' = Owners(c) + kept
              /\ kept \in {0, 1}
          BY <1>6, <2>4, <3>1
        <5> HIDE DEF kept
        <5> QED
          BY <4>2, <4>3, <5>1
      <4> QED
        BY <1>1, <1>8, <3>1, <4>2, <4>4, Settle
    <3>2. CASE d # c
      <4>1. At("handoff", d)' <=> At("handoff", d)
        BY <1>3, <3>2 DEF At
      <4>2. Owners(d)' = Owners(d) /\ pages'[d] = pages[d]
        BY <1>2, <1>6, <2>1, <2>4, <3>2, OwnersTally DEF Tally, Stages, Senders
      <4> QED
        BY <1>1, <1>8, <4>1, <4>2, SettleSame
    <3> QED
      BY <3>1, <3>2
  <2>6. FileSet(d)'
    <3>1. pages'[d] = 0 => pages[d] = 0
      BY <1>6
    <3> QED
      BY <1>1, <2>2, <2>3, <3>1 DEF FileSet, IInv
  <2> QED
    BY <2>5, <2>6
<1> QED
  BY <1>8, <1>9 DEF IInv

\* A file's request is queued for the file sender, before its entry is removed.
LEMMA WorkerFilesStep ==
    ASSUME IInv, NEW c \in Clients, WorkerFiles(c)
    PROVE  IInv'
<1>1. /\ c \in cur["worker"] /\ pc["worker"] = "route"
      /\ Push("file", c) /\ Goto("worker", "handoff")
      /\ fstatus' = [fstatus EXCEPT ![c] = "start"]
      /\ UNCHANGED <<inbox, asked, more, gone, sock, got, keep, polled, due, cur, live, pages>>
  BY DEF WorkerFiles, At, peers
<1>2. Shape /\ TypeOK
  BY DEF IInv, Shape
<1>3. pc' \in [Threads -> Labels] /\ InHand' /\ pc'["worker"] = "handoff" /\ cur["worker"] = {c}
  <2>1. /\ "worker" \in Threads /\ "worker" \in Stages /\ pc \in [Threads -> Labels]
        /\ "handoff" \in Points("worker") /\ "handoff" \in Busy /\ "route" \in Busy
    BY <1>2 DEF TypeOK, Labels, Threads, Stages, Points, Busy, WorkerAt
  <2> QED
    BY <1>1, <1>2, <2>1, GotoHand DEF Goto, Shape, InHand
<1>4. /\ queue' \in [Stages -> Seq(Clients)]
      /\ \A y \in Stages, d \in Clients :
           Count(queue'[y], d) = Count(queue[y], d) + (IF y = "file" /\ d = c THEN 1 ELSE 0)
  BY <1>1, <1>2, PushCounts DEF Stages, Senders
<1>5. fstatus' \in [Clients -> {"unset", "start", "body", "flush"}]
  BY <1>1, <1>2 DEF TypeOK
<1>6. TypeOK'
  BY <1>1, <1>2, <1>3, <1>4, <1>5 DEF TypeOK, Labels
<1>7. Shape'
  BY <1>1, <1>2, <1>3, <1>6 DEF Shape, InboxSent, EntryInHand, PassWithinPollSet
<1>8. ASSUME NEW d \in Clients
      PROVE  Settled(d)' /\ FileSet(d)'
  <2>1. \A x \in Stages : polled[x][d] \in Nat /\ Count(queue[x], d) \in Nat
    BY <1>2, CountsLemma DEF Shape, CountsAreNat
  <2>2. /\ Count(queue'["worker"], d) = Count(queue["worker"], d)
        /\ Count(queue'["stream"], d) = Count(queue["stream"], d)
        /\ Count(queue'["file"], d) = Count(queue["file"], d) + (IF d = c THEN 1 ELSE 0)
    BY <1>4, <2>1 DEF Stages, Senders
  <2>3. /\ Owners(d) = Tally(polled, queue, cur, d)
        /\ Owners(d)' = Tally(polled', queue', cur', d)
    BY <1>2, <1>6, OwnersTally, OwnersTallyNext
  <2>4. Owners(d)' = Owners(d) + (IF d = c THEN 1 ELSE 0)
    BY <1>1, <2>1, <2>2, <2>3 DEF Tally, Stages, Senders
  <2>5. Settled(d)'
    <3>1. CASE d = c
      <4>1. Owners(c) >= 1
        <5>1. due["worker"][c] \in Nat /\ due["worker"][c] + 1 <= polled["worker"][c]
          BY <1>1, <1>2 DEF Shape, EntryInHand, TypeOK, Stages
        <5> QED
          BY <2>1, <2>3, <3>1, <5>1 DEF Tally, Stages, Senders
      <4>2. sock[c] = "open" /\ Owners(c) \in 1 .. Limit(c)
        BY <4>1, OwnedIsOpen DEF IInv, Settled
      <4>3. Limit(c) = 1 + pages[c] /\ Limit(c)' = 2 + pages[c] /\ pages[c] \in Nat
        <5>1. pages[c] \in Nat /\ pages'[c] = pages[c]
              /\ pc["worker"] # "handoff" /\ pc'["worker"] = "handoff" /\ c \in cur'["worker"]
          BY <1>1, <1>2, <1>3 DEF TypeOK
        <5> QED
          BY <5>1 DEF Limit, At
      <4>4. Owners(c)' <= Limit(c)' /\ Owners(c)' >= 1
        BY <2>4, <3>1, <4>2, <4>3
      <4> QED
        BY <1>1, <1>7, <3>1, <4>2, <4>4, Settle
    <3>2. CASE d # c
      <4>1. At("handoff", d)' <=> At("handoff", d)
        BY <1>1, <1>3, <3>2 DEF At
      <4>2. Owners(d)' = Owners(d)
        BY <2>1, <2>3, <2>4, <3>2 DEF Tally, Stages, Senders
      <4> QED
        BY <1>1, <1>7, <4>1, <4>2, SettleSame
    <3> QED
      BY <3>1, <3>2
  <2>6. FileSet(d)'
    <3>1. CASE d = c
      <4>1. fstatus'[d] = "start"
        BY <1>1, <1>2, <3>1 DEF TypeOK
      <4> QED
        BY <4>1 DEF FileSet
    <3>2. CASE d # c
      <4>1. fstatus'[d] = fstatus[d] /\ Count(queue'["file"], d) = Count(queue["file"], d)
        BY <1>1, <1>2, <2>1, <2>2, <3>2 DEF TypeOK, Stages, Senders
      <4> QED
        BY <1>1, <4>1 DEF FileSet, IInv
    <3> QED
      BY <3>1, <3>2
  <2> QED
    BY <2>5, <2>6
<1> QED
  BY <1>7, <1>8 DEF IInv

\* A step that ends with letting go and makes no new owner.
LEMMA FewerOwners ==
    ASSUME IInv, Shape', NEW c \in Clients, Reap, Owners(c)' <= Owners(c),
           pages'[c] = pages[c], At("handoff", c)' <=> At("handoff", c)
    PROVE  Settled(c)'
<1>1. Settled(c) /\ TypeOK /\ TypeOK' /\ pages[c] \in Nat
  BY DEF IInv, Shape, TypeOK
<1>2. Limit(c)' = Limit(c) /\ Limit(c) \in Nat
  BY <1>1 DEF Limit
<1>3. Owners(c) \in Nat /\ Owners(c)' \in Nat
  <2>1. /\ \A x \in Stages : polled[x][c] \in Nat /\ Count(queue[x], c) \in Nat
        /\ \A x \in Stages : polled'[x][c] \in Nat /\ Count(queue'[x], c) \in Nat
    BY <1>1, CountsLemma, NextCounts DEF CountsAreNat
  <2> QED
    BY <1>1, <2>1, OwnersTally, OwnersTallyNext DEF Tally, Stages, Senders
<1>4. CASE sock[c] = "open"
  BY <1>1, <1>2, <1>3, <1>4, Settle DEF Settled
<1>5. CASE sock[c] # "open"
  BY <1>1, <1>3, <1>5, Settle DEF Settled
<1> QED
  BY <1>4, <1>5

\* The worker comes to an entry of its pass: one with an error event goes, any
\* other is taken in hand.
LEMMA WorkerVisitsStep ==
    ASSUME IInv, NEW c \in Clients, WorkerVisits(c)
    PROVE  IInv'
<1>1. /\ pc["worker"] = "visit" /\ due["worker"][c] > 0 /\ Visited("worker", c) /\ Reap
      /\ UNCHANGED <<inbox, asked, more, gone, got, keep, fstatus, queue, live, pages>>
  BY DEF WorkerVisits, peers, message
<1>2. Shape /\ TypeOK
  BY DEF IInv, Shape
<1>3. /\ "worker" \in Stages /\ "worker" \in Threads
      /\ pc \in [Threads -> Labels] /\ cur \in [Stages -> SUBSET Clients]
      /\ polled \in [Stages -> [Clients -> Nat]] /\ due \in [Stages -> [Clients -> Nat]]
      /\ cur["worker"] = {}
  <2>1. cur["worker"] = {}
    BY <1>1, <1>2 DEF Shape, InHand, Busy, WorkerAt, Stages
  <2> QED
    BY <1>2, <2>1 DEF TypeOK, Labels, Stages, Threads
<1>4. /\ due' \in [Stages -> [Clients -> Nat]]
      /\ \A y \in Stages, d \in Clients :
           due'[y][d] = due[y][d] - (IF y = "worker" /\ d = c THEN 1 ELSE 0)
  BY <1>1, <1>2, <1>3, VisitCounts
<1>5. due["worker"][c] <= polled["worker"][c] /\ polled["worker"][c] > 0
  <2>1. due["worker"][c] \in Nat /\ polled["worker"][c] \in Nat
    BY <1>3
  <2> QED
    BY <1>1, <1>2, <1>3, <2>1 DEF Shape, PassWithinPollSet
<1>6. sock' \in [Clients -> {"none", "open", "closed"}]
  BY <1>1, <1>2 DEF Reap, TypeOK
<1>7. CASE Drop("worker", c) /\ UNCHANGED <<pc, cur>>
  <2>1. /\ polled' \in [Stages -> [Clients -> Nat]]
        /\ \A y \in Stages, d \in Clients :
             polled'[y][d] = polled[y][d] - (IF y = "worker" /\ d = c THEN 1 ELSE 0)
    BY <1>2, <1>3, <1>5, <1>7, DropCounts
  <2>2. TypeOK'
    BY <1>1, <1>2, <1>4, <1>6, <1>7, <2>1 DEF TypeOK
  <2>3. PassWithinPollSet'
    <3>1. ASSUME NEW y \in Stages, NEW d \in Clients
          PROVE  due'[y][d] <= polled'[y][d]
      <4>1. due[y][d] <= polled[y][d] /\ due[y][d] \in Nat /\ polled[y][d] \in Nat
        BY <1>2, <1>3 DEF Shape, PassWithinPollSet
      <4> QED
        BY <1>4, <2>1, <4>1
    <3> QED
      BY <3>1 DEF PassWithinPollSet
  <2>4. Shape'
    BY <1>1, <1>2, <1>3, <1>7, <2>2, <2>3 DEF Shape, InHand, InboxSent, EntryInHand
  <2>5. ASSUME NEW d \in Clients
        PROVE  Settled(d)' /\ FileSet(d)'
    <3>1. \A x \in Stages : polled[x][d] \in Nat /\ Count(queue[x], d) \in Nat
      BY <1>2, CountsLemma DEF CountsAreNat
    <3>2. /\ polled'["worker"][d] = polled["worker"][d] - (IF d = c THEN 1 ELSE 0)
          /\ polled'["stream"][d] = polled["stream"][d]
          /\ polled'["file"][d] = polled["file"][d]
      BY <2>1, <3>1 DEF Stages, Senders
    <3>3. /\ Owners(d) = Tally(polled, queue, cur, d)
          /\ Owners(d)' = Tally(polled', queue', cur', d)
      BY <1>2, <2>2, OwnersTally, OwnersTallyNext
    <3>4. Owners(d)' <= Owners(d)
      BY <1>1, <1>7, <3>1, <3>2, <3>3 DEF Tally, Stages, Senders
    <3>5. Settled(d)'
      BY <1>1, <1>7, <2>4, <3>4, FewerOwners DEF At
    <3>6. FileSet(d)'
      BY <1>1, <3>2 DEF FileSet, IInv
    <3> QED
      BY <3>5, <3>6
  <2> QED
    BY <2>4, <2>5 DEF IInv
<1>8. CASE /\ Goto("worker", "parse") /\ cur' = [cur EXCEPT !["worker"] = {c}]
           /\ UNCHANGED polled
  <2>1. /\ pc' \in [Threads -> Labels] /\ cur' \in [Stages -> SUBSET Clients] /\ InHand'
    <3>1. "parse" \in Points("worker") \cap Busy
      BY DEF Points, Busy, WorkerAt
    <3> QED
      BY <1>2, <1>3, <1>8, <3>1, TakeHand DEF Shape
  <2>2. TypeOK'
    BY <1>1, <1>2, <1>4, <1>6, <1>8, <2>1 DEF TypeOK, Labels
  <2>3. PassWithinPollSet'
    <3>1. ASSUME NEW y \in Stages, NEW d \in Clients
          PROVE  due'[y][d] <= polled'[y][d]
      <4>1. due[y][d] <= polled[y][d] /\ due[y][d] \in Nat /\ polled[y][d] \in Nat
        BY <1>2, <1>3 DEF Shape, PassWithinPollSet
      <4> QED
        BY <1>4, <1>8, <4>1
    <3> QED
      BY <3>1 DEF PassWithinPollSet
  <2>4. EntryInHand'
    <3>1. due'["worker"][c] + 1 <= polled'["worker"][c] /\ cur'["worker"] = {c}
      BY <1>3, <1>4, <1>5, <1>8
    <3> QED
      BY <3>1 DEF EntryInHand
  <2>5. Shape'
    BY <1>1, <1>2, <2>1, <2>2, <2>3, <2>4 DEF Shape, InboxSent
  <2>6. ASSUME NEW d \in Clients
        PROVE  Settled(d)' /\ FileSet(d)'
    <3>1. \A x \in Stages : polled[x][d] \in Nat /\ Count(queue[x], d) \in Nat
      BY <1>2, CountsLemma DEF CountsAreNat
    <3>2. cur'["stream"] = cur["stream"] /\ cur'["file"] = cur["file"]
      BY <1>3, <1>8 DEF Stages, Senders
    <3>3. /\ Owners(d) = Tally(polled, queue, cur, d)
          /\ Owners(d)' = Tally(polled', queue', cur', d)
      BY <1>2, <2>2, OwnersTally, OwnersTallyNext
    <3>4. Owners(d)' = Owners(d)
      BY <1>1, <1>8, <3>2, <3>3 DEF Tally
    <3>5. ~At("handoff", d) /\ ~At("handoff", d)'
      BY <1>1, <1>3, <1>8 DEF At, Goto
    <3>6. Settled(d)'
      BY <1>1, <2>5, <3>4, <3>5, SettleSame
    <3>7. FileSet(d)'
      BY <1>1, <1>8 DEF FileSet, IInv
    <3> QED
      BY <3>6, <3>7
  <2> QED
    BY <2>5, <2>6 DEF IInv
<1> QED
  BY <1>7, <1>8 DEF WorkerVisits

\* The worker takes the first queued client into its poll set, or loses it when
\* there is no memory; with an empty queue it goes to poll again.
LEMMA WorkerDrainsStep ==
    ASSUME IInv, WorkerDrains
    PROVE  IInv'
<1> DEFINE q == queue["worker"]
<1>1. /\ pc["worker"] = "drain" /\ Reap
      /\ UNCHANGED <<inbox, asked, more, gone, got, keep, fstatus, due, cur, live, pages>>
  BY DEF WorkerDrains, peers, message
<1>2. Shape /\ TypeOK
  BY DEF IInv, Shape
<1>3. /\ "worker" \in Stages /\ "worker" \in Threads
      /\ pc \in [Threads -> Labels] /\ queue \in [Stages -> Seq(Clients)]
      /\ polled \in [Stages -> [Clients -> Nat]] /\ due \in [Stages -> [Clients -> Nat]]
  BY <1>2 DEF TypeOK, Labels, Stages, Threads
<1>4. sock' \in [Clients -> {"none", "open", "closed"}]
  BY <1>1, <1>2 DEF Reap, TypeOK
<1>5. CASE q = << >>
  <2>1. Goto("worker", "top") /\ UNCHANGED <<queue, polled>>
    BY <1>5 DEF WorkerDrains
  <2>2. pc' \in [Threads -> Labels] /\ InHand'
    <3>1. "top" \in Points("worker") /\ "top" \notin Busy /\ "drain" \notin Busy
      BY DEF Points, Busy, WorkerAt
    <3> QED
      BY <1>1, <1>2, <1>3, <2>1, <3>1, GotoHand DEF Shape
  <2>3. TypeOK'
    BY <1>1, <1>2, <1>4, <2>1, <2>2 DEF TypeOK, Labels
  <2>4. Shape'
    BY <1>1, <1>2, <2>1, <2>2, <2>3 DEF Shape, InboxSent, EntryInHand, PassWithinPollSet
  <2>5. ASSUME NEW d \in Clients
        PROVE  Settled(d)' /\ FileSet(d)'
    <3>1. Owners(d)' = Owners(d)
      BY <1>1, <1>2, <2>1, <2>3, OwnersTally, OwnersTallyNext
    <3>2. ~At("handoff", d) /\ ~At("handoff", d)'
      BY <1>1, <1>3, <2>1 DEF At, Goto
    <3>3. Settled(d)'
      BY <1>1, <2>4, <3>1, <3>2, SettleSame
    <3>4. FileSet(d)'
      BY <1>1, <2>1 DEF FileSet, IInv
    <3> QED
      BY <3>3, <3>4
  <2> QED
    BY <2>4, <2>5 DEF IInv
<1>6. CASE q # << >>
  <2>1. PICK c \in Clients : c = Head(q)
    BY <1>3, <1>6
  <2>2. PICK n \in 0 .. 1 :
          polled' = [polled EXCEPT !["worker"] =
                       [polled["worker"] EXCEPT ![c] = polled["worker"][c] + n]]
    BY <1>6, <2>1 DEF WorkerDrains
  <2>3. queue' = [queue EXCEPT !["worker"] = Tail(q)] /\ pc' = pc
    BY <1>6 DEF WorkerDrains
  <2>4. /\ polled' \in [Stages -> [Clients -> Nat]]
        /\ \A y \in Stages, d \in Clients :
             polled'[y][d] = polled[y][d] + (IF y = "worker" /\ d = c THEN n ELSE 0)
    <3>1. polled["worker"] \in [Clients -> Nat] /\ n \in Nat
      BY <1>3
    <3>2. [polled["worker"] EXCEPT ![c] = polled["worker"][c] + n] \in [Clients -> Nat]
      BY <3>1
    <3>3. polled' \in [Stages -> [Clients -> Nat]]
      BY <1>3, <2>2, <3>2
    <3>4. ASSUME NEW y \in Stages, NEW d \in Clients
          PROVE  polled'[y][d] = polled[y][d] + (IF y = "worker" /\ d = c THEN n ELSE 0)
      BY <1>3, <2>2, <3>1
    <3> QED
      BY <3>3, <3>4
  <2>5. Tail(q) \in Seq(Clients) /\ q \in Seq(Clients)
    BY <1>3, <1>6
  <2>6. queue' \in [Stages -> Seq(Clients)]
    BY <1>3, <2>3, <2>5
  <2>7. TypeOK'
    BY <1>1, <1>2, <1>4, <2>3, <2>4, <2>6 DEF TypeOK
  <2>8. PassWithinPollSet'
    <3>1. ASSUME NEW y \in Stages, NEW d \in Clients
          PROVE  due'[y][d] <= polled'[y][d]
      <4>1. due[y][d] <= polled[y][d] /\ due[y][d] \in Nat /\ polled[y][d] \in Nat
        BY <1>2, <1>3 DEF Shape, PassWithinPollSet
      <4> QED
        BY <1>1, <2>4, <4>1
    <3> QED
      BY <3>1 DEF PassWithinPollSet
  <2>9. EntryInHand'
    <3>1. cur["worker"] = {}
      BY <1>1, <1>2 DEF Shape, InHand, Busy, WorkerAt, Stages
    <3> QED
      BY <1>1, <3>1 DEF EntryInHand
  <2>10. Shape'
    BY <1>1, <1>2, <2>3, <2>7, <2>8, <2>9 DEF Shape, InHand, InboxSent
  <2>11. ASSUME NEW d \in Clients
         PROVE  Settled(d)' /\ FileSet(d)'
    <3>1. \A x \in Stages : polled[x][d] \in Nat /\ Count(queue[x], d) \in Nat
      BY <1>2, CountsLemma DEF CountsAreNat
    <3>2. /\ polled'["worker"][d] = polled["worker"][d] + (IF d = c THEN n ELSE 0)
          /\ polled'["stream"][d] = polled["stream"][d]
          /\ polled'["file"][d] = polled["file"][d]
      BY <2>4, <3>1 DEF Stages, Senders
    <3>3. /\ Count(queue'["worker"], d) = Count(queue["worker"], d) - (IF d = c THEN 1 ELSE 0)
          /\ queue'["stream"] = queue["stream"] /\ queue'["file"] = queue["file"]
      <4>1. Count(Tail(q), d) = Count(q, d) - (IF d = Head(q) THEN 1 ELSE 0)
        BY <1>6, <2>5, CountTail
      <4>2. queue'["worker"] = Tail(q)
        BY <1>3, <2>3
      <4>3. queue'["stream"] = queue["stream"] /\ queue'["file"] = queue["file"]
        BY <1>3, <2>3 DEF Stages, Senders
      <4> QED
        BY <2>1, <4>1, <4>2, <4>3
    <3>4. /\ Owners(d) = Tally(polled, queue, cur, d)
          /\ Owners(d)' = Tally(polled', queue', cur', d)
      BY <1>2, <2>7, OwnersTally, OwnersTallyNext
    <3>5. Owners(d)' <= Owners(d)
      BY <1>1, <3>1, <3>2, <3>3, <3>4 DEF Tally, Stages, Senders
    <3>6. Settled(d)'
      BY <1>1, <2>3, <2>10, <3>5, FewerOwners DEF At
    <3>7. FileSet(d)'
      BY <1>1, <3>2, <3>3 DEF FileSet, IInv
    <3> QED
      BY <3>6, <3>7
  <2> QED
    BY <2>10, <2>11 DEF IInv
<1> QED
  BY <1>5, <1>6

-----------------------------------------------------------------------------
(* The acceptor. *)

\* A new connection has the worker's queue as its only owner; one whose option
\* cannot be set has none.
LEMMA AcceptStep ==
    ASSUME IInv, NEW c \in Clients, Accept(c)
    PROVE  IInv'
<1>1. /\ sock[c] = "none"
      /\ UNCHANGED <<inbox, asked, more, gone, got, keep, fstatus, polled, due, pc, cur, live, pages>>
  BY DEF Accept, peers, message
<1>2. Shape /\ TypeOK
  BY DEF IInv, Shape
<1>3. PICK s \in {"open", "closed"} :
        /\ sock' = [sock EXCEPT ![c] = s]
        /\ s = "open" => Push("worker", c)
        /\ s # "open" => queue' = queue
  BY DEF Accept
<1>4. /\ sock \in [Clients -> {"none", "open", "closed"}]
      /\ sock' \in [Clients -> {"none", "open", "closed"}]
      /\ \A d \in Clients : sock'[d] = IF d = c THEN s ELSE sock[d]
  BY <1>2, <1>3 DEF TypeOK
<1> DEFINE arrives(d) == IF s = "open" /\ d = c THEN 1 ELSE 0
<1>5. /\ queue' \in [Stages -> Seq(Clients)]
      /\ \A d \in Clients :
           /\ Count(queue'["worker"], d) = Count(queue["worker"], d) + arrives(d)
           /\ Count(queue'["stream"], d) = Count(queue["stream"], d)
           /\ Count(queue'["file"], d) = Count(queue["file"], d)
  <2>1. CASE s = "open"
    <3>1. /\ queue' \in [Stages -> Seq(Clients)]
          /\ \A y \in Stages, d \in Clients :
               Count(queue'[y], d) = Count(queue[y], d) + (IF y = "worker" /\ d = c THEN 1 ELSE 0)
      <4>1. Push("worker", c) /\ "worker" \in Stages
        BY <1>3, <2>1 DEF Stages
      <4> QED
        BY <1>2, <4>1, PushCounts
    <3>2. \A y \in Stages, d \in Clients : Count(queue[y], d) \in Nat
      BY <1>2, CountsLemma DEF CountsAreNat
    <3> QED
      BY <2>1, <3>1, <3>2 DEF Stages, Senders
  <2>2. CASE s # "open"
    <3>1. \A y \in Stages, d \in Clients : Count(queue[y], d) \in Nat
      BY <1>2, CountsLemma DEF CountsAreNat
    <3> QED
      BY <1>2, <1>3, <2>2, <3>1 DEF TypeOK, Stages
  <2> QED
    BY <2>1, <2>2
<1>6. TypeOK'
  BY <1>1, <1>2, <1>4, <1>5 DEF TypeOK
<1>7. Shape'
  BY <1>1, <1>2, <1>6 DEF Shape, InHand, InboxSent, EntryInHand, PassWithinPollSet
<1>8. ASSUME NEW d \in Clients
      PROVE  Settled(d)' /\ FileSet(d)'
  <2>1. \A x \in Stages : polled[x][d] \in Nat /\ Count(queue[x], d) \in Nat
    BY <1>2, CountsLemma DEF CountsAreNat
  <2>2. /\ Owners(d) = Tally(polled, queue, cur, d)
        /\ Owners(d)' = Tally(polled', queue', cur', d)
    BY <1>2, <1>6, OwnersTally, OwnersTallyNext
  <2>3. Owners(d)' = Owners(d) + arrives(d)
    <3>1. arrives(d) \in Nat
      OBVIOUS
    <3>2. /\ Count(queue'["worker"], d) = Count(queue["worker"], d) + arrives(d)
          /\ Count(queue'["stream"], d) = Count(queue["stream"], d)
          /\ Count(queue'["file"], d) = Count(queue["file"], d)
      BY <1>5
    <3> HIDE DEF arrives
    <3> QED
      BY <1>1, <2>1, <2>2, <3>1, <3>2 DEF Tally, Stages, Senders
  <2>4. Settled(d)'
    <3>1. CASE d = c
      <4>1. Owners(c) = 0
        BY <1>1 DEF IInv, Settled
      <4>2. Limit(c)' >= 1 /\ Limit(c)' \in Nat
        BY <1>6 DEF Limit, TypeOK
      <4>3. sock'[c] = s /\ Owners(c)' = IF s = "open" THEN 1 ELSE 0
        BY <1>4, <2>3, <3>1, <4>1
      <4> QED
        BY <3>1, <4>2, <4>3 DEF Settled
    <3>2. CASE d # c
      <4>1. Owners(d)' = Owners(d)
        BY <2>1, <2>2, <2>3, <3>2 DEF Tally, Stages, Senders
      <4> QED
        BY <1>1, <1>4, <1>7, <3>2, <4>1, SettleSame DEF At
    <3> QED
      BY <3>1, <3>2
  <2>5. FileSet(d)'
    BY <1>1, <1>5 DEF FileSet, IInv
  <2> QED
    BY <2>4, <2>5
<1> QED
  BY <1>7, <1>8 DEF IInv

-----------------------------------------------------------------------------
(* The senders. *)

\* What serving an entry may do to the response.
LEMMA ServeMessage ==
    ASSUME TypeOK, NEW x \in Senders, NEW c \in Clients
    PROVE  /\ MaySetKeep(x, c) => keep' \in [Clients -> BOOLEAN]
           /\ Advances(x, c) =>
                /\ fstatus' \in [Clients -> {"unset", "start", "body", "flush"}]
                /\ \A d \in Clients : fstatus[d] # "unset" => fstatus'[d] # "unset"
<1>1. keep \in [Clients -> BOOLEAN] /\ fstatus \in [Clients -> {"unset", "start", "body", "flush"}]
  BY DEF TypeOK
<1>2. ASSUME MaySetKeep(x, c)
      PROVE  keep' \in [Clients -> BOOLEAN]
  BY <1>1, <1>2 DEF MaySetKeep
<1>3. ASSUME Advances(x, c)
      PROVE  /\ fstatus' \in [Clients -> {"unset", "start", "body", "flush"}]
             /\ \A d \in Clients : fstatus[d] # "unset" => fstatus'[d] # "unset"
  <2>1. \/ fstatus' = fstatus
        \/ fstatus' = [fstatus EXCEPT ![c] = "body"]
        \/ fstatus' = [fstatus EXCEPT ![c] = "flush"]
    BY <1>1, <1>3 DEF Advances
  <2> QED
    BY <1>1, <2>1
<1> QED
  BY <1>2, <1>3

\* A sender comes to an entry of its pass, which its poll set has.
LEMMA ServeShape ==
    ASSUME Shape, NEW x \in Senders, NEW c \in Clients, Serves(x, c)
    PROVE  /\ x \in Stages /\ x \in Threads /\ x # "worker" /\ pc[x] = "visit" /\ cur[x] = {}
           /\ due[x][c] > 0 /\ polled[x][c] > 0
           /\ due' \in [Stages -> [Clients -> Nat]]
           /\ \A y \in Stages, d \in Clients :
                due'[y][d] = due[y][d] - (IF y = x /\ d = c THEN 1 ELSE 0)
<1>1. x \in Stages /\ x \in Threads /\ x # "worker"
  BY DEF Stages, Threads, Senders
<1>2. pc[x] = "visit" /\ due[x][c] > 0 /\ Visited(x, c)
  BY DEF Serves
<1>3. cur[x] = {}
  BY <1>1, <1>2 DEF Shape, InHand, Busy, WorkerAt
<1>4. polled[x][c] > 0
  <2>1. due[x][c] \in Nat /\ polled[x][c] \in Nat /\ due[x][c] <= polled[x][c]
    BY <1>1 DEF Shape, TypeOK, PassWithinPollSet
  <2> QED
    BY <1>2, <2>1
<1> QED
  BY <1>1, <1>2, <1>3, <1>4, VisitCounts DEF Shape

\* The pass goes on to one entry less, of a poll set that has lost at most that one.
LEMMA ServePass ==
    ASSUME Shape, NEW x \in Stages, x # "worker", NEW c \in Clients, NEW n \in 0 .. 1,
           \A y \in Stages, d \in Clients :
             due'[y][d] = due[y][d] - (IF y = x /\ d = c THEN 1 ELSE 0),
           \A y \in Stages, d \in Clients :
             polled'[y][d] = polled[y][d] - (IF y = x /\ d = c THEN n ELSE 0),
           cur'["worker"] = cur["worker"]
    PROVE  PassWithinPollSet' /\ EntryInHand'
<1>1. due \in [Stages -> [Clients -> Nat]] /\ polled \in [Stages -> [Clients -> Nat]]
  BY DEF Shape, TypeOK
<1>2. PassWithinPollSet'
  <2>1. ASSUME NEW y \in Stages, NEW d \in Clients
        PROVE  due'[y][d] <= polled'[y][d]
    <3>1. due[y][d] <= polled[y][d] /\ due[y][d] \in Nat /\ polled[y][d] \in Nat
      BY <1>1 DEF Shape, PassWithinPollSet
    <3> QED
      BY <3>1
  <2> QED
    BY <2>1 DEF PassWithinPollSet
<1>3. EntryInHand'
  <2>1. ASSUME NEW d \in cur["worker"]
        PROVE  due'["worker"][d] + 1 <= polled'["worker"][d]
    <3>1. d \in Clients /\ "worker" \in Stages
      BY DEF Shape, TypeOK, Stages
    <3>2. due["worker"][d] + 1 <= polled["worker"][d]
      BY DEF Shape, EntryInHand
    <3>3. due["worker"][d] \in Nat /\ polled["worker"][d] \in Nat
      BY <1>1, <3>1
    <3> QED
      BY <3>1, <3>2, <3>3
  <2> QED
    BY <2>1 DEF EntryInHand
<1> QED
  BY <1>2, <1>3

\* DFW_E_AGAIN: the entry stays.
LEMMA SenderWaitsStep ==
    ASSUME IInv, NEW x \in Senders, NEW c \in Clients, SenderWaits(x, c)
    PROVE  IInv'
<1>1. /\ Serves(x, c) /\ MaySetKeep(x, c)
      /\ UNCHANGED <<inbox, asked, more, gone, sock, got, fstatus, queue, polled, pc, cur, live, pages>>
  BY DEF SenderWaits, peers
<1>2. Shape /\ TypeOK
  BY DEF IInv, Shape
<1>3. /\ x \in Stages /\ x # "worker"
      /\ due' \in [Stages -> [Clients -> Nat]]
      /\ \A y \in Stages, d \in Clients :
           due'[y][d] = due[y][d] - (IF y = x /\ d = c THEN 1 ELSE 0)
  BY <1>1, <1>2, ServeShape
<1>4. PassWithinPollSet' /\ EntryInHand'
  <2>1. \A y \in Stages, d \in Clients :
          polled'[y][d] = polled[y][d] - (IF y = x /\ d = c THEN 0 ELSE 0)
    BY <1>1, <1>2 DEF TypeOK
  <2> QED
    BY <1>1, <1>2, <1>3, <2>1, ServePass
<1>5. keep' \in [Clients -> BOOLEAN]
  BY <1>1, <1>2, ServeMessage
<1>6. TypeOK'
  BY <1>1, <1>2, <1>3, <1>5 DEF TypeOK
<1>7. Shape'
  BY <1>1, <1>2, <1>4, <1>6 DEF Shape, InHand, InboxSent
<1> QED
  BY <1>1, <1>7, QuietStep DEF At

\* An error, a failed send, or a step of the file sender: the entry goes.
LEMMA SenderDropsStep ==
    ASSUME IInv, NEW x \in Senders, NEW c \in Clients, SenderDrops(x, c)
    PROVE  IInv'
<1>1. /\ Serves(x, c) /\ Drop(x, c) /\ MaySetKeep(x, c) /\ Advances(x, c) /\ Reap
      /\ UNCHANGED <<inbox, asked, more, gone, got, queue, pc, cur, live, pages>>
  BY DEF SenderDrops, peers
<1>2. Shape /\ TypeOK
  BY DEF IInv, Shape
<1>3. /\ x \in Stages /\ x # "worker" /\ polled[x][c] > 0
      /\ due' \in [Stages -> [Clients -> Nat]]
      /\ \A y \in Stages, d \in Clients :
           due'[y][d] = due[y][d] - (IF y = x /\ d = c THEN 1 ELSE 0)
  BY <1>1, <1>2, ServeShape
<1>4. /\ polled' \in [Stages -> [Clients -> Nat]]
      /\ \A y \in Stages, d \in Clients :
           polled'[y][d] = polled[y][d] - (IF y = x /\ d = c THEN 1 ELSE 0)
  BY <1>1, <1>2, <1>3, DropCounts
<1>5. PassWithinPollSet' /\ EntryInHand'
  <2>1. 1 \in 0 .. 1 /\ cur'["worker"] = cur["worker"]
    BY <1>1
  <2> QED
    BY <1>2, <1>3, <1>4, <2>1, ServePass
<1>6. /\ keep' \in [Clients -> BOOLEAN]
      /\ fstatus' \in [Clients -> {"unset", "start", "body", "flush"}]
      /\ \A d \in Clients : fstatus[d] # "unset" => fstatus'[d] # "unset"
  BY <1>1, <1>2, ServeMessage
<1>7. sock' \in [Clients -> {"none", "open", "closed"}]
  BY <1>1, <1>2 DEF Reap, TypeOK
<1>8. TypeOK'
  BY <1>1, <1>2, <1>3, <1>4, <1>6, <1>7 DEF TypeOK
<1>9. Shape'
  BY <1>1, <1>2, <1>5, <1>8 DEF Shape, InHand, InboxSent
<1>10. ASSUME NEW d \in Clients
       PROVE  Settled(d)' /\ FileSet(d)'
  <2>1. \A y \in Stages : polled[y][d] \in Nat /\ Count(queue[y], d) \in Nat
    BY <1>2, CountsLemma DEF CountsAreNat
  <2>2. /\ polled'["worker"][d] <= polled["worker"][d] /\ polled'["worker"][d] \in Nat
        /\ polled'["stream"][d] <= polled["stream"][d] /\ polled'["stream"][d] \in Nat
        /\ polled'["file"][d] <= polled["file"][d] /\ polled'["file"][d] \in Nat
    BY <1>4, <2>1 DEF Stages, Senders
  <2>3. /\ Owners(d) = Tally(polled, queue, cur, d)
        /\ Owners(d)' = Tally(polled', queue', cur', d)
    BY <1>2, <1>8, OwnersTally, OwnersTallyNext
  <2>4. Owners(d)' <= Owners(d)
    BY <1>1, <2>1, <2>2, <2>3 DEF Tally, Stages, Senders
  <2>5. Settled(d)'
    BY <1>1, <1>9, <2>4, FewerOwners DEF At
  <2>6. FileSet(d)'
    <3>1. /\ polled'["file"][d] + Count(queue'["file"], d) > 0
               => polled["file"][d] + Count(queue["file"], d) > 0
          /\ pages'[d] = pages[d]
          /\ fstatus[d] # "unset" => fstatus'[d] # "unset"
      BY <1>1, <1>6, <2>1, <2>2 DEF Stages, Senders
    <3>2. FileSet(d)
      BY DEF IInv
    <3> QED
      BY <3>1, <3>2 DEF FileSet
  <2> QED
    BY <2>5, <2>6
<1> QED
  BY <1>9, <1>10 DEF IInv

\* Everything is sent: the thread keeps the client that leaves its poll set.
LEMMA SenderCompletesStep ==
    ASSUME IInv, NEW x \in Senders, NEW c \in Clients, SenderCompletes(x, c)
    PROVE  IInv'
<1>1. /\ Serves(x, c) /\ Drop(x, c) /\ Goto(x, "sent") /\ cur' = [cur EXCEPT ![x] = {c}]
      /\ UNCHANGED <<inbox, asked, more, gone, sock, got, keep, fstatus, queue, live, pages>>
  BY DEF SenderCompletes, peers, message
<1>2. Shape /\ TypeOK
  BY DEF IInv, Shape
<1>3. /\ x \in Stages /\ x \in Threads /\ x # "worker" /\ cur[x] = {} /\ polled[x][c] > 0
      /\ due' \in [Stages -> [Clients -> Nat]]
      /\ \A y \in Stages, d \in Clients :
           due'[y][d] = due[y][d] - (IF y = x /\ d = c THEN 1 ELSE 0)
  BY <1>1, <1>2, ServeShape
<1>4. /\ polled' \in [Stages -> [Clients -> Nat]]
      /\ \A y \in Stages, d \in Clients :
           polled'[y][d] = polled[y][d] - (IF y = x /\ d = c THEN 1 ELSE 0)
  BY <1>1, <1>2, <1>3, DropCounts
<1>5. /\ pc' \in [Threads -> Labels] /\ cur' \in [Stages -> SUBSET Clients] /\ InHand'
  <2>1. "sent" \in Points(x) \cap Busy
    BY <1>3 DEF Points, Busy
  <2> QED
    BY <1>1, <1>2, <1>3, <2>1, TakeHand DEF Shape
<1>6. /\ \A y \in Stages : cur'[y] = IF y = x THEN {c} ELSE cur[y]
      /\ pc'["worker"] = pc["worker"] /\ cur'["worker"] = cur["worker"]
  <2>1. /\ cur \in [Stages -> SUBSET Clients] /\ pc \in [Threads -> Labels]
        /\ "worker" \in Threads /\ "worker" \in Stages
    BY <1>2 DEF TypeOK, Labels, Threads, Stages
  <2> QED
    BY <1>1, <1>3, <2>1 DEF Goto
<1>7. PassWithinPollSet' /\ EntryInHand'
  <2>1. 1 \in 0 .. 1
    OBVIOUS
  <2> QED
    BY <1>2, <1>3, <1>4, <1>6, <2>1, ServePass
<1>8. TypeOK'
  BY <1>1, <1>2, <1>3, <1>4, <1>5 DEF TypeOK, Labels
<1>9. Shape'
  BY <1>1, <1>2, <1>5, <1>7, <1>8 DEF Shape, InboxSent
<1>10. ASSUME NEW d \in Clients
       PROVE  Settled(d)' /\ FileSet(d)'
  <2>1. \A y \in Stages : polled[y][d] \in Nat /\ Count(queue[y], d) \in Nat
    BY <1>2, CountsLemma DEF CountsAreNat
  <2>2. \A y \in Stages :
          polled'[y][d] = polled[y][d] - (IF y = x /\ d = c THEN 1 ELSE 0)
    BY <1>4
  <2>3. /\ Owners(d) = Tally(polled, queue, cur, d)
        /\ Owners(d)' = Tally(polled', queue', cur', d)
    BY <1>2, <1>8, OwnersTally, OwnersTallyNext
  <2>4. Owners(d)' = Owners(d)
    <3>1. CASE x = "stream"
      <4>1. /\ polled'["worker"][d] = polled["worker"][d]
            /\ polled'["stream"][d] = polled["stream"][d] - (IF d = c THEN 1 ELSE 0)
            /\ polled'["file"][d] = polled["file"][d]
        BY <2>1, <2>2, <3>1 DEF Stages, Senders
      <4>2. cur["stream"] = {} /\ cur'["stream"] = {c} /\ cur'["file"] = cur["file"]
        BY <1>3, <1>6, <3>1 DEF Stages, Senders
      <4>3. queue' = queue
        BY <1>1
      <4>4. /\ d \in cur'["stream"] <=> d = c
            /\ ~ d \in cur["stream"]
            /\ d \in cur'["file"] <=> d \in cur["file"]
        BY <4>2
      <4>5. Tally(polled', queue', cur', d) = Tally(polled, queue, cur, d)
        <5>1. \A y \in Stages : polled[y][d] \in Nat /\ Count(queue[y], d) \in Nat
          BY <2>1
        <5>2. CASE d = c
          BY <4>1, <4>3, <4>4, <5>1, <5>2 DEF Tally, Stages, Senders
        <5>3. CASE d # c
          BY <4>1, <4>3, <4>4, <5>1, <5>3 DEF Tally, Stages, Senders
        <5> QED
          BY <5>2, <5>3
      <4> QED
        BY <2>3, <4>5
    <3>2. CASE x = "file"
      <4>1. /\ polled'["worker"][d] = polled["worker"][d]
            /\ polled'["stream"][d] = polled["stream"][d]
            /\ polled'["file"][d] = polled["file"][d] - (IF d = c THEN 1 ELSE 0)
        BY <2>1, <2>2, <3>2 DEF Stages, Senders
      <4>2. cur["file"] = {} /\ cur'["file"] = {c} /\ cur'["stream"] = cur["stream"]
        BY <1>3, <1>6, <3>2 DEF Stages, Senders
      <4> QED
        BY <1>1, <2>1, <2>3, <4>1, <4>2 DEF Tally, Stages, Senders
    <3> QED
      BY <3>1, <3>2 DEF Senders
  <2>5. Settled(d)'
    BY <1>1, <1>6, <1>9, <2>4, SettleSame DEF At
  <2>6. FileSet(d)'
    <3>1. polled'["file"][d] <= polled["file"][d]
      BY <2>1, <2>2 DEF Stages, Senders
    <3>2. polled'["file"][d] \in Nat /\ polled["file"][d] \in Nat /\ Count(queue["file"], d) \in Nat
      BY <1>4, <2>1 DEF Stages, Senders
    <3>3. /\ polled'["file"][d] + Count(queue'["file"], d) > 0
               => polled["file"][d] + Count(queue["file"], d) > 0
          /\ pages'[d] = pages[d] /\ fstatus'[d] = fstatus[d]
      BY <1>1, <3>1, <3>2
    <3>4. FileSet(d)
      BY DEF IInv
    <3> QED
      BY <3>3, <3>4 DEF FileSet
  <2> QED
    BY <2>5, <2>6
<1> QED
  BY <1>9, <1>10 DEF IInv

\* A client that has had no status page and is in the hands of a sender is not with
\* the file sender as well: it would have an owner too many.
LEMMA InOnePlace ==
    ASSUME IInv, NEW x \in Senders, NEW c \in Clients, c \in cur[x], pages[c] = 0
    PROVE  polled["file"][c] + Count(queue["file"], c) = 0
<1>1. Shape /\ TypeOK
  BY DEF IInv, Shape
<1>2. \A y \in Stages : polled[y][c] \in Nat /\ Count(queue[y], c) \in Nat
  BY <1>1, CountsLemma DEF CountsAreNat
<1>3. Owners(c) = Tally(polled, queue, cur, c)
  BY <1>1, OwnersTally
<1>4. Owners(c) >= 1 + polled["worker"][c] + polled["file"][c] + Count(queue["file"], c)
  <2>1. CASE x = "stream"
    BY <1>2, <1>3, <2>1 DEF Tally, Stages, Senders
  <2>2. CASE x = "file"
    BY <1>2, <1>3, <2>2 DEF Tally, Stages, Senders
  <2> QED
    BY <2>1, <2>2 DEF Senders
<1>5. /\ polled["worker"][c] \in Nat /\ polled["file"][c] \in Nat
      /\ Count(queue["file"], c) \in Nat
  BY <1>2 DEF Stages, Senders
<1>6. Owners(c) \in 1 .. Limit(c)
  BY <1>2, <1>3, <1>4, <1>5, OwnedIsOpen DEF IInv, Settled, Tally, Stages, Senders
<1>7. CASE At("handoff", c)
  <2>1. polled["worker"][c] >= 1
    <3>1. c \in cur["worker"] /\ due["worker"][c] \in Nat
      BY <1>1, <1>7 DEF At, TypeOK, Stages
    <3> QED
      BY <1>1, <1>5, <3>1 DEF Shape, EntryInHand
  <2>2. Limit(c) = 2
    BY <1>7 DEF Limit
  <2> QED
    BY <1>4, <1>5, <1>6, <2>1, <2>2
<1>8. CASE ~At("handoff", c)
  <2>1. Limit(c) = 1
    BY <1>8 DEF Limit
  <2> QED
    BY <1>4, <1>5, <1>6, <2>1
<1> QED
  BY <1>7, <1>8

\* A kept-alive client goes back to the worker with a new response; any other is
\* let go.
LEMMA SenderGivesBackStep ==
    ASSUME IInv, NEW x \in Senders, NEW c \in Clients, SenderGivesBack(x, c)
    PROVE  IInv'
<1>1. /\ pc[x] = "sent" /\ c \in cur[x] /\ cur' = [cur EXCEPT ![x] = {}]
      /\ Goto(x, "visit") /\ Reap
      /\ UNCHANGED <<inbox, asked, more, gone, polled, due, live, pages>>
  BY DEF SenderGivesBack, peers
<1>2. PICK back \in BOOLEAN :
        /\ back => Ready(c) /\ Push("worker", c)
        /\ ~back => UNCHANGED <<got, keep, fstatus, queue>>
  BY DEF SenderGivesBack, message
<1>3. Shape /\ TypeOK
  BY DEF IInv, Shape
<1>4. /\ x \in Stages /\ x \in Threads /\ x # "worker" /\ cur[x] = {c}
      /\ "worker" \in Stages /\ "worker" \in Threads
      /\ cur \in [Stages -> SUBSET Clients] /\ pc \in [Threads -> Labels]
  <2>1. x \in Stages /\ x \in Threads /\ x # "worker"
    BY DEF Stages, Threads, Senders
  <2>2. cur[x] = {c}
    BY <1>1, <1>3, <2>1 DEF Shape, InHand, Busy
  <2> QED
    BY <1>3, <2>1, <2>2 DEF TypeOK, Labels, Stages, Threads
<1>5. pc' \in [Threads -> Labels] /\ cur' \in [Stages -> SUBSET Clients] /\ InHand'
  BY <1>1, <1>3, <1>4, FreeHand DEF Shape
<1>6. /\ \A y \in Stages : cur'[y] = IF y = x THEN {} ELSE cur[y]
      /\ cur'["worker"] = cur["worker"] /\ pc'["worker"] = pc["worker"]
  BY <1>1, <1>4 DEF Goto
<1>7. /\ queue' \in [Stages -> Seq(Clients)]
      /\ \A d \in Clients :
           /\ Count(queue'["worker"], d) <= Count(queue["worker"], d) + (IF d = c THEN 1 ELSE 0)
           /\ Count(queue'["worker"], d) \in Nat
           /\ Count(queue'["stream"], d) = Count(queue["stream"], d)
           /\ Count(queue'["file"], d) = Count(queue["file"], d)
  <2>1. \A y \in Stages, d \in Clients : Count(queue[y], d) \in Nat
    BY <1>3, CountsLemma DEF CountsAreNat
  <2>2. CASE back
    <3>1. Push("worker", c)
      BY <1>2, <2>2
    <3>2. /\ queue' \in [Stages -> Seq(Clients)]
          /\ \A y \in Stages, d \in Clients :
               Count(queue'[y], d) = Count(queue[y], d) + (IF y = "worker" /\ d = c THEN 1 ELSE 0)
      BY <1>3, <1>4, <3>1, PushCounts
    <3> QED
      BY <2>1, <3>2 DEF Stages, Senders
  <2>3. CASE ~back
    <3>1. queue' = queue /\ queue' \in [Stages -> Seq(Clients)]
      BY <1>2, <1>3, <2>3 DEF TypeOK
    <3>2. \A d \in Clients : Count(queue["worker"], d) \in Nat
      BY <1>4, <2>1
    <3> QED
      BY <3>1, <3>2
  <2> QED
    BY <2>2, <2>3
<1>8. /\ got' \in [Clients -> 0..ReqLen] /\ keep' \in [Clients -> BOOLEAN]
      /\ fstatus' \in [Clients -> {"unset", "start", "body", "flush"}]
      /\ \A d \in Clients : d # c => fstatus'[d] = fstatus[d]
  <2>1. /\ got \in [Clients -> 0..ReqLen] /\ keep \in [Clients -> BOOLEAN]
        /\ fstatus \in [Clients -> {"unset", "start", "body", "flush"}] /\ 0 \in 0..ReqLen
    BY <1>3, PieceAssumption DEF TypeOK
  <2>2. CASE back
    <3>1. Ready(c)
      BY <1>2, <2>2
    <3> QED
      BY <2>1, <3>1 DEF Ready
  <2>3. CASE ~back
    BY <1>2, <2>1, <2>3
  <2> QED
    BY <2>2, <2>3
<1>9. sock' \in [Clients -> {"none", "open", "closed"}]
  BY <1>1, <1>3 DEF Reap, TypeOK
<1>10. TypeOK'
  BY <1>1, <1>3, <1>5, <1>7, <1>8, <1>9 DEF TypeOK, Labels
<1>11. Shape'
  BY <1>1, <1>3, <1>5, <1>6, <1>10 DEF Shape, InboxSent, EntryInHand, PassWithinPollSet
<1>12. ASSUME NEW d \in Clients
       PROVE  Settled(d)' /\ FileSet(d)'
  <2>1. \A y \in Stages : polled[y][d] \in Nat /\ Count(queue[y], d) \in Nat
    BY <1>3, CountsLemma DEF CountsAreNat
  <2>2. /\ Owners(d) = Tally(polled, queue, cur, d)
        /\ Owners(d)' = Tally(polled', queue', cur', d)
    BY <1>3, <1>10, OwnersTally, OwnersTallyNext
  <2>3. Owners(d)' <= Owners(d)
    <3>1. /\ Count(queue'["worker"], d) <= Count(queue["worker"], d) + (IF d = c THEN 1 ELSE 0)
          /\ Count(queue'["worker"], d) \in Nat
          /\ Count(queue'["stream"], d) = Count(queue["stream"], d)
          /\ Count(queue'["file"], d) = Count(queue["file"], d)
      BY <1>7
    <3>2. CASE x = "stream"
      <4>1. cur["stream"] = {c} /\ cur'["stream"] = {} /\ cur'["file"] = cur["file"]
        BY <1>4, <1>6, <3>2 DEF Stages, Senders
      <4> QED
        BY <1>1, <2>1, <2>2, <3>1, <4>1 DEF Tally, Stages, Senders
    <3>3. CASE x = "file"
      <4>1. cur["file"] = {c} /\ cur'["file"] = {} /\ cur'["stream"] = cur["stream"]
        BY <1>4, <1>6, <3>3 DEF Stages, Senders
      <4> QED
        BY <1>1, <2>1, <2>2, <3>1, <4>1 DEF Tally, Stages, Senders
    <3> QED
      BY <3>2, <3>3 DEF Senders
  <2>4. Settled(d)'
    BY <1>1, <1>6, <1>11, <2>3, FewerOwners DEF At
  <2>5. FileSet(d)'
    <3>1. Count(queue'["file"], d) = Count(queue["file"], d) /\ polled' = polled /\ pages' = pages
      BY <1>1, <1>7
    <3>2. CASE d = c
      <4>1. pages[c] = 0 => polled["file"][c] + Count(queue["file"], c) = 0
        BY <1>1, InOnePlace
      <4> QED
        BY <3>1, <3>2, <4>1 DEF FileSet
    <3>3. CASE d # c
      BY <1>8, <3>1, <3>3 DEF FileSet, IInv
    <3> QED
      BY <3>2, <3>3
  <2> QED
    BY <2>4, <2>5
<1> QED
  BY <1>11, <1>12 DEF IInv

\* queueClient: the queue moves into the poll set as a whole, but for the clients
\* that are lost.
LEMMA SenderDrainsStep ==
    ASSUME IInv, NEW x \in Senders, SenderDrains(x)
    PROVE  IInv'
<1>1. /\ pc[x] = "visit" /\ Goto(x, "top") /\ Reap
      /\ due' = [due EXCEPT ![x] = Zero] /\ queue' = [queue EXCEPT ![x] = << >>]
      /\ UNCHANGED <<inbox, asked, more, gone, got, keep, fstatus, cur, live, pages>>
  BY DEF SenderDrains, peers, message
<1>2. Shape /\ TypeOK
  BY DEF IInv, Shape
<1>3. /\ x \in Stages /\ x \in Threads /\ x # "worker"
      /\ "worker" \in Stages /\ "worker" \in Threads
      /\ polled \in [Stages -> [Clients -> Nat]] /\ due \in [Stages -> [Clients -> Nat]]
      /\ queue \in [Stages -> Seq(Clients)] /\ pc \in [Threads -> Labels]
      /\ cur \in [Stages -> SUBSET Clients]
  BY <1>2 DEF TypeOK, Labels, Stages, Threads, Senders
<1>4. \A y \in Stages, d \in Clients : Count(queue[y], d) \in Nat
  BY <1>2, CountsLemma DEF CountsAreNat
<1>5. PICK lost \in SUBSET ToSet(queue[x]) :
        polled' = [polled EXCEPT ![x] =
                     [d \in Clients |-> IF d \in lost THEN polled[x][d]
                                        ELSE polled[x][d] + Count(queue[x], d)]]
  <2>1. PICK lost \in SUBSET ToSet(queue[x]) :
          polled' = [polled EXCEPT ![x] =
                       [d \in Clients |-> IF d \in lost THEN polled[x][d]
                                          ELSE polled[x][d] + InQueue(x, d)]]
    BY DEF SenderDrains
  <2>2. [d \in Clients |-> IF d \in lost THEN polled[x][d] ELSE polled[x][d] + InQueue(x, d)]
          = [d \in Clients |-> IF d \in lost THEN polled[x][d]
                               ELSE polled[x][d] + Count(queue[x], d)]
    BY InQueueIs
  <2> QED
    BY <2>1, <2>2
<1>6. /\ polled' \in [Stages -> [Clients -> Nat]]
      /\ \A y \in Stages, d \in Clients :
           /\ polled[y][d] <= polled'[y][d]
           /\ y # x => polled'[y][d] = polled[y][d]
           /\ y = x => polled'[y][d] <= polled[y][d] + Count(queue[y], d)
  <2> DEFINE f == [d \in Clients |-> IF d \in lost THEN polled[x][d]
                                     ELSE polled[x][d] + Count(queue[x], d)]
  <2>1. /\ f \in [Clients -> Nat]
        /\ \A d \in Clients : polled[x][d] <= f[d] /\ f[d] <= polled[x][d] + Count(queue[x], d)
    BY <1>3, <1>4
  <2>2. polled' = [polled EXCEPT ![x] = f]
    BY <1>5
  <2> HIDE DEF f
  <2>3. \A y \in Stages, d \in Clients : polled[y][d] <= polled[y][d]
    BY <1>3
  <2> QED
    BY <1>3, <2>1, <2>2, <2>3
<1>7. /\ due' \in [Stages -> [Clients -> Nat]]
      /\ \A y \in Stages, d \in Clients : due'[y][d] <= due[y][d]
  <2>1. Zero \in [Clients -> Nat] /\ \A d \in Clients : Zero[d] = 0
    BY DEF Zero
  <2> QED
    BY <1>1, <1>3, <2>1
<1>8. /\ queue' \in [Stages -> Seq(Clients)]
      /\ \A d \in Clients : Count(queue'[x], d) = 0
      /\ \A y \in Stages : y # x => queue'[y] = queue[y]
  <2>1. << >> \in Seq(Clients)
    OBVIOUS
  <2>2. queue'[x] = << >>
    BY <1>1, <1>3
  <2> QED
    BY <1>1, <1>3, <2>1, <2>2, CountEmpty
<1>9. pc' \in [Threads -> Labels] /\ InHand'
  <2>1. "top" \in Points(x) /\ "top" \notin Busy /\ "visit" \notin Busy
    BY <1>3 DEF Points, Busy, WorkerAt
  <2> QED
    BY <1>1, <1>2, <1>3, <2>1, GotoHand DEF Shape
<1>10. pc'["worker"] = pc["worker"]
  BY <1>1, <1>3 DEF Goto
<1>11. PassWithinPollSet'
  <2>1. ASSUME NEW y \in Stages, NEW d \in Clients
        PROVE  due'[y][d] <= polled'[y][d]
    <3>1. /\ due[y][d] <= polled[y][d] /\ polled[y][d] \in Nat /\ due[y][d] \in Nat
          /\ due'[y][d] \in Nat /\ polled'[y][d] \in Nat
      BY <1>2, <1>3, <1>6, <1>7 DEF Shape, PassWithinPollSet
    <3>2. due'[y][d] <= due[y][d] /\ polled[y][d] <= polled'[y][d]
      BY <1>6, <1>7
    <3> QED
      BY <3>1, <3>2
  <2> QED
    BY <2>1 DEF PassWithinPollSet
<1>12. EntryInHand'
  <2>1. due'["worker"] = due["worker"]
    BY <1>1, <1>3
  <2>2. \A d \in cur["worker"] : d \in Clients /\ polled'["worker"][d] = polled["worker"][d]
    BY <1>3, <1>6
  <2> QED
    BY <1>1, <1>2, <2>1, <2>2 DEF Shape, EntryInHand
<1>13. sock' \in [Clients -> {"none", "open", "closed"}]
  BY <1>1, <1>2 DEF Reap, TypeOK
<1>14. TypeOK'
  BY <1>1, <1>2, <1>6, <1>7, <1>8, <1>9, <1>13 DEF TypeOK, Labels
<1>15. Shape'
  BY <1>1, <1>2, <1>9, <1>11, <1>12, <1>14 DEF Shape, InboxSent
<1>16. ASSUME NEW d \in Clients
       PROVE  Settled(d)' /\ FileSet(d)'
  <2>1. \A y \in Stages : polled[y][d] \in Nat /\ Count(queue[y], d) \in Nat
    BY <1>3, <1>4
  <2>2. \A y \in Stages :
          /\ polled'[y][d] \in Nat /\ Count(queue'[y], d) \in Nat
          /\ polled'[y][d] + Count(queue'[y], d) <= polled[y][d] + Count(queue[y], d)
    <3>1. ASSUME NEW y \in Stages
          PROVE  /\ polled'[y][d] \in Nat /\ Count(queue'[y], d) \in Nat
                 /\ polled'[y][d] + Count(queue'[y], d) <= polled[y][d] + Count(queue[y], d)
      <4>1. polled[y][d] \in Nat /\ Count(queue[y], d) \in Nat /\ polled'[y][d] \in Nat
        BY <1>6, <2>1
      <4>2. CASE y = x
        <5>1. polled'[y][d] <= polled[y][d] + Count(queue[y], d) /\ Count(queue'[y], d) = 0
          BY <1>6, <1>8, <4>2
        <5> QED
          BY <4>1, <5>1
      <4>3. CASE y # x
        <5>1. polled'[y][d] = polled[y][d] /\ queue'[y] = queue[y]
          BY <1>6, <1>8, <4>3
        <5> QED
          BY <4>1, <5>1
      <4> QED
        BY <4>2, <4>3
    <3> QED
      BY <3>1
  <2>3. /\ Owners(d) = Tally(polled, queue, cur, d)
        /\ Owners(d)' = Tally(polled', queue', cur', d)
    BY <1>2, <1>14, OwnersTally, OwnersTallyNext
  <2>4. Owners(d)' <= Owners(d)
    <3> DEFINE held(p, q, y) == p[y][d] + Count(q[y], d)
    <3>1. \A y \in Stages : /\ held(polled, queue, y) \in Nat /\ held(polled', queue', y) \in Nat
                            /\ held(polled', queue', y) <= held(polled, queue, y)
      BY <2>1, <2>2
    <3>2. "worker" \in Stages /\ "stream" \in Stages /\ "file" \in Stages
      BY DEF Stages, Senders
    <3> DEFINE senders == (IF d \in cur["stream"] THEN 1 ELSE 0)
                            + (IF d \in cur["file"] THEN 1 ELSE 0)
    <3>3. Owners(d) = held(polled, queue, "worker") + held(polled, queue, "stream")
                        + held(polled, queue, "file") + senders
      <4>1. /\ polled["worker"][d] \in Nat /\ Count(queue["worker"], d) \in Nat
            /\ polled["stream"][d] \in Nat /\ Count(queue["stream"], d) \in Nat
            /\ polled["file"][d] \in Nat /\ Count(queue["file"], d) \in Nat
        BY <2>1, <3>2
      <4> QED
        BY <2>3, <4>1 DEF Tally
    <3>5. Owners(d)' = held(polled', queue', "worker") + held(polled', queue', "stream")
                         + held(polled', queue', "file") + senders
      <4>1. /\ polled'["worker"][d] \in Nat /\ Count(queue'["worker"], d) \in Nat
            /\ polled'["stream"][d] \in Nat /\ Count(queue'["stream"], d) \in Nat
            /\ polled'["file"][d] \in Nat /\ Count(queue'["file"], d) \in Nat
        BY <2>2, <3>2
      <4>2. Owners(d)' = Tally(polled', queue', cur, d)
        BY <1>1, <2>3
      <4>3. Tally(polled', queue', cur, d)
              = held(polled', queue', "worker") + held(polled', queue', "stream")
                  + held(polled', queue', "file") + senders
        BY <4>1 DEF Tally
      <4> HIDE DEF held, senders
      <4> QED
        BY <4>2, <4>3
    <3>4. senders \in Nat
      OBVIOUS
    <3> HIDE DEF held, senders
    <3> QED
      BY <3>1, <3>2, <3>3, <3>4, <3>5
  <2>5. Settled(d)'
    BY <1>1, <1>10, <1>15, <2>4, FewerOwners DEF At
  <2>6. FileSet(d)'
    <3>1. /\ polled'["file"][d] + Count(queue'["file"], d) > 0
               => polled["file"][d] + Count(queue["file"], d) > 0
          /\ pages'[d] = pages[d] /\ fstatus'[d] = fstatus[d]
      <4>1. "file" \in Stages /\ "file" \in Senders
        BY DEF Stages, Senders
      <4>2. pages'[d] = pages[d] /\ fstatus'[d] = fstatus[d]
        BY <1>1
      <4> QED
        BY <2>1, <2>2, <4>1, <4>2
    <3>2. FileSet(d)
      BY DEF IInv
    <3> QED
      BY <3>1, <3>2 DEF FileSet
  <2> QED
    BY <2>5, <2>6
<1> QED
  BY <1>15, <1>16 DEF IInv

-----------------------------------------------------------------------------
\* At the start nothing is queued, polled or in hand.
LEMMA InitIInv == Init => IInv
<1> SUFFICES ASSUME Init PROVE IInv
  OBVIOUS
<1>1. TypeOK
  <2>1. << >> \in Seq(Clients) /\ 0 \in 0..MaxPieces /\ 0 \in 0..ReqLen
    BY PieceAssumption
  <2> QED
    BY <2>1 DEF Init, TypeOK, Zero, False, Unset
<1>2. InHand
  BY DEF Init, InHand, Points, Busy, WorkerAt, Threads
<1>3. EntryInHand /\ InboxSent /\ PassWithinPollSet
  BY DEF Init, EntryInHand, InboxSent, PassWithinPollSet, Stages, Zero
<1>4. ASSUME NEW c \in Clients
      PROVE  Settled(c) /\ FileSet(c)
  <2>1. \A x \in Stages : polled[x][c] = 0 /\ Count(queue[x], c) = 0 /\ cur[x] = {}
    BY CountEmpty DEF Init, Zero
  <2>2. Owners(c) = 0
    BY <1>1, <2>1, OwnersTally DEF Tally, Stages, Senders
  <2>3. sock[c] = "none"
    BY DEF Init
  <2> QED
    BY <2>1, <2>2, <2>3 DEF Settled, FileSet, Stages, Senders
<1> QED
  BY <1>1, <1>2, <1>3, <1>4 DEF IInv, Shape

\* Every step keeps the invariant.
LEMMA NextIInv == IInv /\ [Next]_vars => IInv'
<1> SUFFICES ASSUME IInv, [Next]_vars PROVE IInv'
  OBVIOUS
<1>1. CASE \E c \in Clients : Peer(c)
  BY <1>1, OutsideStep
<1>2. CASE Acceptor
  <2>1. CASE Ends("accept")
    BY <2>1, LoopStep DEF Threads
  <2>2. ASSUME NEW c \in Clients, Accept(c)
        PROVE  IInv'
    BY <2>2, AcceptStep
  <2> QED
    BY <1>2, <2>1, <2>2 DEF Acceptor
<1>3. CASE Worker
  <2>1. CASE Ends("worker") \/ Polls("worker")
    BY <2>1, LoopStep DEF Threads, Stages
  <2>2. CASE WorkerPassEnds
    BY <2>2, WorkerQuietStep
  <2>3. CASE WorkerDrains
    BY <2>3, WorkerDrainsStep
  <2>4. ASSUME NEW c \in Clients,
               WorkerParses(c) \/ \E page \in Pages : WorkerChecks(c, page)
        PROVE  IInv'
    BY <2>4, WorkerQuietStep
  <2>5. ASSUME NEW c \in Clients, WorkerVisits(c)
        PROVE  IInv'
    BY <2>5, WorkerVisitsStep
  <2>6. ASSUME NEW c \in Clients, WorkerParseFails(c) \/ WorkerRejects(c) \/ WorkerHandsOff(c)
        PROVE  IInv'
    BY <2>6, WorkerDropStep
  <2>7. ASSUME NEW c \in Clients, WorkerStreams(c)
        PROVE  IInv'
    BY <2>7, WorkerStreamsStep
  <2>8. ASSUME NEW c \in Clients, WorkerFiles(c)
        PROVE  IInv'
    BY <2>8, WorkerFilesStep
  <2> QED
    BY <1>3, <2>1, <2>2, <2>3, <2>4, <2>5, <2>6, <2>7, <2>8 DEF Worker
<1>4. ASSUME NEW x \in Senders, Sender(x)
      PROVE  IInv'
  <2>1. CASE Ends(x) \/ Polls(x)
    BY <2>1, LoopStep DEF Threads, Stages
  <2>2. CASE SenderDrains(x)
    BY <2>2, SenderDrainsStep
  <2>3. ASSUME NEW c \in Clients, SenderDrops(x, c)
        PROVE  IInv'
    BY <2>3, SenderDropsStep
  <2>4. ASSUME NEW c \in Clients, SenderWaits(x, c)
        PROVE  IInv'
    BY <2>4, SenderWaitsStep
  <2>5. ASSUME NEW c \in Clients, SenderCompletes(x, c)
        PROVE  IInv'
    BY <2>5, SenderCompletesStep
  <2>6. ASSUME NEW c \in Clients, SenderGivesBack(x, c)
        PROVE  IInv'
    BY <2>6, SenderGivesBackStep
  <2> QED
    BY <1>4, <2>1, <2>2, <2>3, <2>4, <2>5, <2>6 DEF Sender
<1>5. CASE Service \/ Stopped
  BY <1>5, OutsideStep
<1>6. CASE UNCHANGED vars
  <2>1. Shape'
    BY <1>6 DEF vars, peers, message, IInv, Shape, TypeOK, InHand, EntryInHand, InboxSent,
                PassWithinPollSet
  <2> QED
    BY <1>6, <2>1, QuietStep DEF vars, message, At
<1> QED
  BY <1>1, <1>2, <1>3, <1>4, <1>5, <1>6 DEF Next

\* What the invariant says is what the runs check.
LEMMA IInvSuffices == IInv => OwnersInv /\ PassWithinPollSet
<1> SUFFICES ASSUME IInv PROVE OwnersInv /\ PassWithinPollSet
  OBVIOUS
<1>1. TypeOK /\ PassWithinPollSet
  BY DEF IInv, Shape
<1>2. OwnersAccounted
  <2>1. ASSUME NEW c \in Clients, sock[c] = "open"
        PROVE  Owners(c) \in 1 .. 1 + pages[c] + IF At("handoff", c) THEN 1 ELSE 0
    BY <2>1 DEF IInv, Settled, Limit
  <2> QED
    BY <2>1 DEF OwnersAccounted
<1>3. FileStatusSet
  <2>1. ASSUME NEW c \in Clients, pages[c] = 0,
               polled["file"][c] > 0 \/ c \in ToSet(queue["file"])
        PROVE  fstatus[c] # "unset"
    <3>1. /\ polled["file"][c] \in Nat /\ Count(queue["file"], c) \in Nat
          /\ Count(queue["file"], c) > 0 <=> c \in ToSet(queue["file"])
      BY <1>1, CountsLemma DEF CountsAreNat, Stages, Senders
    <3>2. polled["file"][c] + Count(queue["file"], c) > 0
      BY <2>1, <3>1
    <3> QED
      BY <2>1, <3>2 DEF IInv, FileSet
  <2> QED
    BY <2>1 DEF FileStatusSet
<1> QED
  BY <1>1, <1>2, <1>3 DEF OwnersInv

-----------------------------------------------------------------------------
\* HttpdWorker, HttpdSendStream and HttpdSendLocalFile account for every connection
\* between them: an open one has its owner, and never more than its status pages
\* and one hand-over explain, and the file sender finds a response that is set.
THEOREM OwnersCorrect == Spec => []OwnersInv
<1>1. Init => IInv
  BY InitIInv
<1>2. IInv /\ [Next]_vars => IInv'
  BY NextIInv
<1>3. IInv => OwnersInv
  BY IInvSuffices
<1> QED
  BY <1>1, <1>2, <1>3, PTL DEF Spec

\* No pass of HttpdWorker::readPackets or of a sender goes on to an entry that has
\* left the poll set: pollin and its caller never remove the same entry twice.
THEOREM PassesStayWithin == Spec => []PassWithinPollSet
<1>1. Init => IInv
  BY InitIInv
<1>2. IInv /\ [Next]_vars => IInv'
  BY NextIInv
<1>3. IInv => PassWithinPollSet
  BY IInvSuffices
<1> QED
  BY <1>1, <1>2, <1>3, PTL DEF Spec
=============================================================================
