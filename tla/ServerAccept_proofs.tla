------------------------ MODULE ServerAccept_proofs ------------------------
(***************************************************************************)
(* Proofs about ServerAccept, for any sequence of hosts and any bounds.    *)
(*                                                                         *)
(* What the two properties say of "run" and "done" is carried through the  *)
(* phases between: while the sockets are replaced, a port is polled, being *)
(* repaired, still to be replaced, or lost; while stop() counts down over  *)
(* a list that the accept thread reorders, an open socket is repaired,     *)
(* lost, in hand, or not above the index.                                  *)
(***************************************************************************)
EXTENDS ServerAccept, SequenceTheorems, TLAPS

Replacing == {"host", "assign", "append", "appended"}

EntryType == [sock : Ports, fd : Numbers \cup {0}, event : {"ok", "err"}]

\* Who holds a lock is where the code takes it.
Locks ==
    /\ (thisLock = "app") <=> ppc \in {"clear", "appended"}
    /\ (pollLock = "accept") <=> apc \in {"poll", "check", "visit", "repair"}

\* The loop of accept_poll stays inside m_poll; a socket in repair is off it.
Indexes ==
    /\ apc \in {"check", "visit"} => k <= Len(polls)
    /\ apc = "visit" => k > 0
    /\ (ssock # None) <=> apc = "repair"
    /\ apc = "repair" => ssock \notin Polled /\ k > 0 /\ k <= Len(polls) + 1

\* The hosts that are still to be replaced are on neither list.
Todo ==
    /\ ppc \in {"close", "assign", "append", "appended"} => cur # None
    /\ ppc \notin Replacing => todo = <<>>
    /\ ppc \in {"assign", "append", "appended"} => todo # <<>> /\ cur = Head(todo)
    /\ IsInjective(todo)
    /\ Range(todo) \cap Polled = {} /\ ssock \notin Range(todo)
    /\ (fresh # 0) <=> ppc = "assign"
    /\ ppc \in Replacing => replaced > 0
    /\ ppc = "clear" => replaced < MaxReplaced

Control == Locks /\ Indexes /\ Todo

\* The socket in hand has its new descriptor, which nobody else names.
InHand ==
    ppc = "assign" =>
        /\ fds[fresh] = IF port[cur] THEN cur ELSE AnyPort
        /\ \A q \in Ports \ {cur} : handle[q] # fresh
        /\ handle[cur] # fresh /\ handle[cur] # 0 => fds[handle[cur]] \in {None, Own(cur)}

\* As long as no number that a socket names was given out, no two name the same.
Apart ==
    ~clash =>
        /\ \A p, q \in Ports : handle[p] = handle[q] /\ handle[p] # 0 => p = q
        /\ file # 0 => fds[file] = File /\ \A p \in Ports : handle[p] # file
        /\ InHand

\* Before a replacement no socket names a closed descriptor.
Unreplaced ==
    replaced = 0 => ~clash /\ \A p \in Ports : handle[p] # 0 => fds[handle[p]] = Own(p)

Descriptors ==
    /\ ClashAfterReplacement /\ NamedByItsPort /\ HandlesOwn /\ Apart /\ Unreplaced
    /\ \A p \in Ports : port[p] => start[p]

\* m_poll has the descriptor of each of its sockets, until stop() closes them.
Entries ==
    ppc \notin Stopping =>
        /\ \A i \in DOMAIN polls : polls[i].fd = handle[polls[i].sock] /\ polls[i].fd # 0
        /\ ssock # None => handle[ssock] # 0
        /\ ppc \in {"append", "appended"} => handle[cur] # 0

\* A port that was not lost is accounted for.
Served ==
    \A p \in Ports \ lost : (p \in Polled \/ ssock = p \/ p \in Range(todo)) /\ port[p]

\* While no number was mixed up, the two lists differ by the socket in hand.
Lists ==
    ~clash /\ ppc \notin Stopping =>
        /\ sorted
        /\ \A p \in Ports : listed[p] = IF p \in Polled \/ (ppc = "appended" /\ cur = p) THEN 1 ELSE 0

\* p is among the first m sockets of m_poll.
Below(s, p, m) == \E j \in 1 .. Len(s) : j <= m /\ s[j].sock = p

Answered(p) == handle[p] = 0 \/ p \in reopened \cup lost

\* While stop() counts down: it has still to meet every socket that is open.
Closing ==
    /\ ppc \in {"get", "close"} => \A p \in Ports :
          \/ Answered(p)
          \/ ppc = "close" /\ p = cur
          \/ Below(polls, p, IF ppc = "close" THEN pk - 1 ELSE pk)
    /\ ppc \in {"join", "done"} => \A p \in Ports : Answered(p)

IInv == TypeOK /\ Control /\ Descriptors /\ Entries /\ Served /\ Lists /\ Closing

-----------------------------------------------------------------------------
(* Lists of sockets. *)

Socks(s) == {s[i].sock : i \in DOMAIN s}
Different(s) == \A i, j \in DOMAIN s : s[i].sock = s[j].sock => i = j
Cut(s, i) == [j \in 1 .. Len(s) - 1 |-> IF j = i THEN s[Len(s)] ELSE s[j]]

LEMMA SameEnd == ASSUME NEW a \in Nat, NEW b \in Nat, 1 .. a = 1 .. b  PROVE a = b
<1>1. CASE a < b
  <2>1. b \in 1 .. b /\ b \notin 1 .. a
    BY <1>1
  <2> QED
    BY <2>1
<1>2. CASE b < a
  <2>1. a \in 1 .. a /\ a \notin 1 .. b
    BY <1>2
  <2> QED
    BY <2>1
<1> QED
  BY <1>1, <1>2

LEMMA CutIsSeq ==
    ASSUME NEW S, NEW s \in Seq(S), NEW i \in 1 .. Len(s)
    PROVE  /\ Cut(s, i) \in Seq(S)
           /\ Len(Cut(s, i)) = Len(s) - 1 /\ Len(s) - 1 \in Nat /\ Len(s) \in Nat
           /\ DOMAIN s = 1 .. Len(s) /\ DOMAIN Cut(s, i) = 1 .. Len(s) - 1
           /\ \A j \in 1 .. Len(s) - 1 :
                 Cut(s, i)[j] = IF j = i THEN s[Len(s)] ELSE s[j]
<1>1. Len(s) \in Nat /\ Len(s) - 1 \in Nat /\ DOMAIN s = 1 .. Len(s)
  OBVIOUS
<1>2. Cut(s, i) \in [1 .. Len(s) - 1 -> S]
  BY <1>1 DEF Cut
<1>3. Cut(s, i) \in Seq(S)
  BY <1>1, <1>2, SeqDef
<1>4. Len(Cut(s, i)) = Len(s) - 1
  <2>1. DOMAIN Cut(s, i) = 1 .. Len(s) - 1
    BY <1>2
  <2>2. DOMAIN Cut(s, i) = 1 .. Len(Cut(s, i)) /\ Len(Cut(s, i)) \in Nat
    BY <1>3, LenProperties
  <2> QED
    BY <1>1, <2>1, <2>2, SameEnd
<1> QED
  BY <1>1, <1>3, <1>4 DEF Cut

\* Poll::remove(i) takes the i-th socket out; no other moves to a higher place.
LEMMA CutKeeps ==
    ASSUME NEW S, NEW s \in Seq(S), Different(s), NEW i \in 1 .. Len(s)
    PROVE  /\ Different(Cut(s, i))
           /\ Socks(Cut(s, i)) = Socks(s) \ {s[i].sock}
           /\ \A j \in 1 .. Len(s) - 1 : \E a \in 1 .. Len(s) : a # i /\ Cut(s, i)[j] = s[a]
           /\ \A p, m : Below(s, p, m) /\ m \in Int /\ p # s[i].sock => Below(Cut(s, i), p, m)
<1> DEFINE t == Cut(s, i)
           n == Len(s)
<1>1. /\ n \in Nat /\ i \in 1 .. n /\ DOMAIN s = 1 .. n
      /\ \A a, b \in 1 .. n : s[a].sock = s[b].sock => a = b
  BY DEF Different
<1>2. /\ Len(t) = n - 1 /\ n - 1 \in Nat /\ DOMAIN t = 1 .. n - 1
      /\ \A j \in 1 .. n - 1 : t[j] = IF j = i THEN s[n] ELSE s[j]
  BY CutIsSeq
<1> HIDE DEF t, n
<1>3. Socks(s) = {s[j].sock : j \in 1 .. n} /\ Socks(t) = {t[j].sock : j \in 1 .. n - 1}
  BY <1>1, <1>2 DEF Socks
<1>4. Different(t)
  <2>1. ASSUME NEW a \in 1 .. n - 1, NEW b \in 1 .. n - 1, t[a].sock = t[b].sock  PROVE a = b
    BY <1>1, <1>2, <2>1
  <2> QED
    BY <1>2, <2>1 DEF Different
<1>5. ASSUME NEW j \in 1 .. n - 1  PROVE \E a \in 1 .. n : a # i /\ t[j] = s[a]
  <2>1. CASE j = i
    BY <1>1, <1>2, <2>1
  <2>2. CASE j # i
    <3>1. j \in 1 .. n /\ t[j] = s[j]
      BY <1>1, <1>2, <2>2
    <3> QED
      BY <2>2, <3>1
  <2> QED
    BY <2>1, <2>2
<1>6. ASSUME NEW j \in 1 .. n, j # i  PROVE \E a \in 1 .. n - 1 : a <= j /\ t[a] = s[j]
  <2>1. CASE j = n
    <3>1. i \in 1 .. n - 1 /\ t[i] = s[n] /\ i <= j
      BY <1>1, <1>2, <1>6, <2>1
    <3> QED
      BY <2>1, <3>1
  <2>2. CASE j # n
    <3>1. j \in 1 .. n - 1 /\ t[j] = s[j] /\ j <= j
      BY <1>1, <1>2, <1>6, <2>2
    <3> QED
      BY <3>1
  <2> QED
    BY <2>1, <2>2
<1>7. Socks(t) = Socks(s) \ {s[i].sock}
  <2>1. ASSUME NEW x \in Socks(t)  PROVE x \in Socks(s) \ {s[i].sock}
    <3>1. PICK j \in 1 .. n - 1 : x = t[j].sock
      BY <1>3
    <3>2. PICK a \in 1 .. n : a # i /\ t[j] = s[a]
      BY <1>5
    <3> QED
      BY <1>1, <1>3, <3>1, <3>2
  <2>2. ASSUME NEW x \in Socks(s) \ {s[i].sock}  PROVE x \in Socks(t)
    <3>1. PICK j \in 1 .. n : x = s[j].sock /\ j # i
      BY <1>3, <2>2
    <3>2. PICK a \in 1 .. n - 1 : t[a] = s[j]
      BY <1>6, <3>1
    <3> QED
      BY <1>3, <3>1, <3>2
  <2> QED
    BY <2>1, <2>2
<1>8. ASSUME NEW p, NEW m \in Int, Below(s, p, m), p # s[i].sock  PROVE Below(t, p, m)
  <2>1. PICK j \in 1 .. n : j <= m /\ s[j].sock = p
    BY <1>8 DEF Below, n
  <2>2. PICK a \in 1 .. n - 1 : a <= j /\ t[a] = s[j]
    BY <1>6, <1>8, <2>1
  <2>3. a <= m
    BY <1>1, <2>1, <2>2
  <2> QED
    BY <1>2, <2>1, <2>2, <2>3 DEF Below
<1> QED
  BY <1>4, <1>5, <1>7, <1>8 DEF t, n

LEMMA AppendKeeps ==
    ASSUME NEW S, NEW s \in Seq(S), Different(s), NEW e \in S, e.sock \notin Socks(s)
    PROVE  /\ Append(s, e) \in Seq(S) /\ Len(Append(s, e)) = Len(s) + 1 /\ Len(s) \in Nat
           /\ Different(Append(s, e))
           /\ Socks(Append(s, e)) = Socks(s) \cup {e.sock}
           /\ DOMAIN Append(s, e) = 1 .. Len(s) + 1 /\ DOMAIN s = 1 .. Len(s)
           /\ \A j \in 1 .. Len(s) + 1 : Append(s, e)[j] = IF j \in 1 .. Len(s) THEN s[j] ELSE e
           /\ \A p, m : Below(s, p, m) => Below(Append(s, e), p, m)
<1> DEFINE t == Append(s, e)
           n == Len(s)
<1>1. /\ t \in Seq(S) /\ Len(t) = n + 1 /\ n \in Nat
      /\ \A j \in 1 .. n : t[j] = s[j]
      /\ t[n + 1] = e
      /\ DOMAIN s = 1 .. n /\ DOMAIN t = 1 .. n + 1
  OBVIOUS
<1> HIDE DEF t
<1>2. \A j \in 1 .. n : s[j].sock # e.sock /\ j \in 1 .. n + 1
  BY <1>1 DEF Socks
<1>3. n + 1 \in 1 .. n + 1 /\ \A j \in 1 .. n + 1 : j \in 1 .. n \/ j = n + 1
  BY <1>1
<1>4. Different(t)
  BY <1>1, <1>2, <1>3 DEF Different
<1>5. Socks(t) = Socks(s) \cup {e.sock}
  <2>1. Socks(s) = {s[j].sock : j \in 1 .. n} /\ Socks(t) = {t[j].sock : j \in 1 .. n + 1}
    BY <1>1 DEF Socks
  <2>2. ASSUME NEW x \in Socks(t)  PROVE x \in Socks(s) \cup {e.sock}
    BY <1>1, <1>3, <2>1
  <2>3. ASSUME NEW x \in Socks(s) \cup {e.sock}  PROVE x \in Socks(t)
    BY <1>1, <1>2, <1>3, <2>1
  <2> QED
    BY <2>2, <2>3
<1>6. ASSUME NEW p, NEW m, Below(s, p, m)  PROVE Below(t, p, m)
  <2>1. PICK j \in 1 .. n : j <= m /\ s[j].sock = p
    BY <1>6 DEF Below
  <2> QED
    BY <1>1, <1>2, <2>1 DEF Below
<1>7. \A j \in 1 .. n + 1 : t[j] = IF j \in 1 .. n THEN s[j] ELSE e
  BY <1>1, <1>3
<1> QED
  BY <1>1, <1>4, <1>5, <1>6, <1>7 DEF t, n

\* The first of different hosts is none of the others.
LEMMA TailKeeps ==
    ASSUME NEW S, NEW s \in Seq(S), IsInjective(s), s # <<>>
    PROVE  /\ Tail(s) \in Seq(S) /\ IsInjective(Tail(s)) /\ Head(s) \in S
           /\ Range(s) = Range(Tail(s)) \cup {Head(s)} /\ Head(s) \notin Range(Tail(s))
<1> DEFINE t == Tail(s)
           n == Len(s)
<1>1. /\ t \in Seq(S) /\ Len(t) = n - 1 /\ n \in Nat /\ n > 0
      /\ DOMAIN s = 1 .. n /\ DOMAIN t = 1 .. n - 1
      /\ \A j \in 1 .. n - 1 : t[j] = s[j + 1]
      /\ Head(s) = s[1] /\ s[1] \in S
  OBVIOUS
<1> HIDE DEF t, n
<1>2. \A a, b \in 1 .. n : s[a] = s[b] => a = b
  BY <1>1 DEF IsInjective
<1>3. /\ \A j \in 1 .. n - 1 : j + 1 \in 1 .. n /\ j + 1 # 1
      /\ \A j \in 1 .. n : j = 1 \/ (j - 1 \in 1 .. n - 1 /\ (j - 1) + 1 = j)
      /\ \A a, b \in 1 .. n - 1 : a + 1 = b + 1 => a = b
      /\ 1 \in 1 .. n
  BY <1>1
<1>4. IsInjective(t)
  <2>1. ASSUME NEW a \in 1 .. n - 1, NEW b \in 1 .. n - 1, t[a] = t[b]  PROVE a = b
    BY <1>1, <1>2, <1>3, <2>1
  <2> QED
    BY <1>1, <2>1 DEF IsInjective
<1>5. Range(s) = {s[j] : j \in 1 .. n} /\ Range(t) = {t[j] : j \in 1 .. n - 1}
  BY <1>1 DEF Range
<1>6. Head(s) \notin Range(t)
  BY <1>1, <1>2, <1>3, <1>5
<1>7. ASSUME NEW x \in Range(s)  PROVE x \in Range(t) \cup {Head(s)}
  <2>1. PICK j \in 1 .. n : x = s[j]
    BY <1>5
  <2>2. CASE j = 1
    BY <1>1, <2>1, <2>2
  <2>3. CASE j # 1
    <3>1. j - 1 \in 1 .. n - 1 /\ t[j - 1] = s[j]
      BY <1>1, <1>3, <2>3
    <3> QED
      BY <1>5, <2>1, <3>1
  <2> QED
    BY <2>2, <2>3
<1>8. ASSUME NEW x \in Range(t) \cup {Head(s)}  PROVE x \in Range(s)
  BY <1>1, <1>3, <1>5
<1> QED
  BY <1>1, <1>4, <1>6, <1>7, <1>8 DEF t

-----------------------------------------------------------------------------
(* What the parts of the invariant say when a step leaves most alone. *)

LEMMA Names ==
    /\ None \notin Ports /\ None # "app" /\ None # "accept"
    /\ AnyPort \notin Ports /\ AnyPort # None
    /\ File \notin Ports /\ File # None /\ File # AnyPort
  BY NoneAssumption

LEMMA Amounts ==
    /\ Hosts \in Seq(Ports) /\ IsInjective(Hosts) /\ Range(Hosts) = Ports
    /\ Len(Hosts) \in Nat /\ DOMAIN Hosts = 1 .. Len(Hosts)
    /\ Numbers = 1 .. Len(Hosts) + 2 /\ 0 \notin Numbers
    /\ MaxReplaced \in Nat /\ MaxFiles \in Nat
<1>1. Hosts \in Seq(Ports)
  BY HostsAssumption
<1>2. Len(Hosts) \in Nat /\ DOMAIN Hosts = 1 .. Len(Hosts)
  BY <1>1
<1> QED
  BY <1>1, <1>2, HostsAssumption DEF Ports, Numbers

LEMMA PollsTyped ==
    ASSUME TypeOK
    PROVE  /\ polls \in Seq(EntryType) /\ Different(polls) /\ Socks(polls) = Polled
           /\ Len(polls) \in Nat /\ DOMAIN polls = 1 .. Len(polls)
           /\ Polled \subseteq Ports
           /\ \A i \in DOMAIN polls : polls[i] \in EntryType /\ polls[i].sock \in Polled
           /\ \A p \in Polled : \E i \in DOMAIN polls : polls[i].sock = p
<1>1. polls \in Seq(EntryType) /\ Different(polls)
  BY DEF TypeOK, EntryType, Different
<1>2. Len(polls) \in Nat /\ DOMAIN polls = 1 .. Len(polls)
  BY <1>1
<1>3. \A i \in DOMAIN polls : polls[i] \in EntryType
  BY <1>1, <1>2
<1>4. \A i \in DOMAIN polls : polls[i].sock \in Ports
  BY <1>3 DEF EntryType
<1> QED
  BY <1>1, <1>2, <1>3, <1>4 DEF Socks, Polled

\* The descriptors depend on the tables and on the socket in hand.
LEMMA DescriptorsSame ==
    ASSUME Descriptors, UNCHANGED table, replaced' \in Nat, replaced' >= replaced,
           replaced \in Nat,
           \/ ppc # "assign" /\ ppc' # "assign"
           \/ UNCHANGED <<ppc, cur, fresh>>
    PROVE  Descriptors'
<1> USE DEF table
<1>1. ClashAfterReplacement' /\ NamedByItsPort' /\ HandlesOwn'
  BY DEF Descriptors, ClashAfterReplacement, NamedByItsPort, HandlesOwn, Own
<1>2. Apart'
  BY DEF Descriptors, Apart, InHand, Own
<1>3. Unreplaced'
  BY DEF Descriptors, Unreplaced, Own
<1> QED
  BY <1>1, <1>2, <1>3 DEF Descriptors

\* A list of the same sockets, with the same descriptors.
LEMMA SameEntries ==
    ASSUME TypeOK, polls' \in Seq(EntryType), DOMAIN polls' = DOMAIN polls,
           \A i \in DOMAIN polls : polls'[i].sock = polls[i].sock /\ polls'[i].fd = polls[i].fd
    PROVE  /\ Polled' = Polled /\ Len(polls') = Len(polls) /\ Different(polls)'
           /\ \A p, m : Below(polls, p, m) => Below(polls', p, m)
<1>1. /\ Len(polls) \in Nat /\ DOMAIN polls = 1 .. Len(polls)
      /\ Len(polls') \in Nat /\ DOMAIN polls' = 1 .. Len(polls')
      /\ Different(polls)
  BY PollsTyped
<1>2. Len(polls') = Len(polls)
  BY <1>1, SameEnd
<1>3. Polled' = Polled
  BY DEF Polled
<1>4. Different(polls)'
  BY <1>1 DEF Different
<1>5. \A p, m : Below(polls, p, m) => Below(polls', p, m)
  BY <1>1, <1>2 DEF Below
<1> QED
  BY <1>2, <1>3, <1>4, <1>5

-----------------------------------------------------------------------------
(* The accept thread. *)

\* The steps of a pass that leave every socket alone.
LEMMA AcceptMoves ==
    ASSUME IInv, polls' \in Seq(EntryType), DOMAIN polls' = DOMAIN polls,
           \A i \in DOMAIN polls : polls'[i].sock = polls[i].sock /\ polls'[i].fd = polls[i].fd,
           UNCHANGED <<table, listed, sorted, history, thisLock, isstop, pvars>>,
           ssock = None, ssock' = None,
           k' \in Nat, apc' \in {"check", "visit"} => k' <= Len(polls), apc' = "visit" => k' > 0,
           apc' \in {"top", "lock", "poll", "check", "visit", "end"},
           pollLock' \in {None, "accept"},
           (pollLock' = "accept") <=> apc' \in {"poll", "check", "visit"}
    PROVE  IInv'
<1> USE DEF history, pvars
<1>0. TypeOK /\ Control /\ Descriptors /\ Entries /\ Served /\ Lists /\ Closing
  BY DEF IInv
<1>1. /\ Polled' = Polled /\ Len(polls') = Len(polls) /\ Different(polls)'
      /\ \A p, m : Below(polls, p, m) => Below(polls', p, m)
  BY <1>0, SameEntries
<1>2. TypeOK'
  <2>1. \A i, j \in DOMAIN polls' : polls'[i].sock = polls'[j].sock => i = j
    BY <1>1 DEF Different
  <2>2. polls' \in Seq([sock : Ports, fd : Numbers \cup {0}, event : {"ok", "err"}])
    BY DEF EntryType
  <2> QED
    BY <1>0, <2>1, <2>2 DEF TypeOK, table
<1>3. Control'
  BY <1>0, <1>1 DEF Control, Locks, Indexes, Todo
<1>4. Descriptors'
  BY <1>0, DescriptorsSame DEF TypeOK
<1>5. Entries'
  <2>1. UNCHANGED <<handle, ppc, cur>>
    BY DEF table
  <2> QED
    BY <1>0, <2>1 DEF Entries
<1>6. Served' /\ Lists'
  BY <1>0, <1>1 DEF Served, Lists, table
<1>7. Closing'
  BY <1>0, <1>1 DEF Closing, Answered, table
<1> QED
  BY <1>2, <1>3, <1>4, <1>5, <1>6, <1>7 DEF IInv

\* What the next poll() finds, and what it reports.
LEMMA EventsOnly ==
    ASSUME TypeOK, NEW e, e = [i \in DOMAIN polls |-> e[i]],
           \A i \in DOMAIN polls :
              e[i] \in EntryType /\ e[i].sock = polls[i].sock /\ e[i].fd = polls[i].fd
    PROVE  e \in Seq(EntryType) /\ DOMAIN e = DOMAIN polls
<1>1. Len(polls) \in Nat /\ DOMAIN polls = 1 .. Len(polls)
  BY PollsTyped
<1>2. e \in [1 .. Len(polls) -> EntryType]
  BY <1>1
<1> QED
  BY <1>1, <1>2, SeqDef

LEMMA UnlockMeans ==
    ASSUME TypeOK, Unlock
    PROVE  /\ polls' \in Seq(EntryType) /\ DOMAIN polls' = DOMAIN polls
           /\ \A i \in DOMAIN polls : polls'[i].sock = polls[i].sock /\ polls'[i].fd = polls[i].fd
<1>1. /\ polls' = [i \in DOMAIN polls |-> Entry(polls[i].sock, polls[i].fd)]
      /\ \A i \in DOMAIN polls : polls[i] \in EntryType
  BY PollsTyped DEF Unlock
<1>2. \A i \in DOMAIN polls : polls[i].sock \in Ports /\ polls[i].fd \in Numbers \cup {0}
  BY <1>1 DEF EntryType
<1>3. \A i \in DOMAIN polls :
        polls'[i] \in EntryType /\ polls'[i].sock = polls[i].sock /\ polls'[i].fd = polls[i].fd
  BY <1>1, <1>2 DEF Entry, EntryType
<1> QED
  BY <1>1, <1>3, EventsOnly

LEMMA PollMeans ==
    ASSUME TypeOK, Poll
    PROVE  /\ polls' \in Seq(EntryType) /\ DOMAIN polls' = DOMAIN polls
           /\ \A i \in DOMAIN polls : polls'[i].sock = polls[i].sock /\ polls'[i].fd = polls[i].fd
<1>1. PICK errs \in SUBSET DOMAIN polls :
        polls' = [i \in DOMAIN polls |->
                    [polls[i] EXCEPT !.event = IF i \in errs THEN "err" ELSE "ok"]]
  BY DEF Poll
<1>2. \A i \in DOMAIN polls : polls[i] \in EntryType
  BY PollsTyped
<1>3. \A i \in DOMAIN polls :
        polls'[i] \in EntryType /\ polls'[i].sock = polls[i].sock /\ polls'[i].fd = polls[i].fd
  BY <1>1, <1>2 DEF EntryType
<1> QED
  BY <1>1, <1>3, EventsOnly

LEMMA PassSteps ==
    ASSUME IInv, RunTop \/ LockPoll \/ PollNothing \/ Poll \/ Check \/ Accept
    PROVE  IInv'
<1>1. /\ k \in Nat /\ Len(polls) \in Nat /\ polls \in Seq(EntryType)
      /\ apc \in {"check", "visit"} => k <= Len(polls)
      /\ apc = "visit" => k > 0
      /\ pollLock \in {None, "accept"} /\ None # "accept"
      /\ (pollLock = "accept") <=> (apc \in {"poll", "check", "visit", "repair"})
      /\ apc # "repair" => ssock = None
      /\ TypeOK
  BY PollsTyped, Names DEF IInv, Control, Locks, Indexes, TypeOK
<1>2. CASE RunTop
  BY <1>1, <1>2, AcceptMoves DEF RunTop, lists, locks
<1>3. CASE LockPoll
  BY <1>1, <1>3, AcceptMoves DEF LockPoll, lists
<1>4. CASE PollNothing
  <2>1. UNCHANGED <<table, listed, sorted, history, thisLock, isstop, pvars, ssock>>
    BY <1>4 DEF PollNothing
  <2>2. apc = "poll" /\ Unlock
    BY <1>4 DEF PollNothing
  <2> QED
    BY <1>1, <2>1, <2>2, UnlockMeans, AcceptMoves DEF Unlock
<1>5. CASE Poll
  <2>1. /\ apc = "poll" /\ apc' = "check" /\ k' = Len(polls)
        /\ UNCHANGED <<table, listed, sorted, history, thisLock, pollLock, isstop, ssock, pvars>>
    BY <1>5 DEF Poll, locks
  <2> QED
    BY <1>1, <1>5, <2>1, PollMeans, AcceptMoves
<1>6. CASE Check
  <2>1. CASE Unlock
    BY <1>1, <1>6, <2>1, UnlockMeans, AcceptMoves DEF Check, Unlock
  <2>2. CASE k # 0 /\ apc' = "visit" /\ UNCHANGED <<pollLock, k, polls>>
    BY <1>1, <1>6, <2>2, AcceptMoves DEF Check
  <2> QED
    BY <1>6, <2>1, <2>2 DEF Check
<1>7. CASE Accept
  <2>1. /\ apc = "visit" /\ apc' = "check" /\ k' = k - 1 /\ ssock' = None
        /\ UNCHANGED <<table, lists, history, locks, isstop, pvars>>
    BY <1>7 DEF Accept, Visited
  <2>2. k' \in Nat /\ k' <= Len(polls)
    BY <1>1, <2>1
  <2> QED
    BY <1>1, <2>1, <2>2, AcceptMoves DEF lists, locks
<1> QED
  BY <1>2, <1>3, <1>4, <1>5, <1>6, <1>7

\* The number for a new socket: of all that name one, only the socket's own did.
LEMMA DescriptorsCreated ==
    ASSUME TypeOK, Descriptors, NEW p \in Ports, Created(p),
           UNCHANGED <<start, file, replaced, ppc, cur, fresh>>,
           ppc = "assign" => cur \in Ports /\ cur # p /\ fresh # 0
    PROVE  Descriptors'
<1> DEFINE h == handle[p]
<1>1. PICK n \in Numbers :
        /\ Lowest(Closed(fds, h), n)
        /\ fds' = [Closed(fds, h) EXCEPT ![n] = Own(p)]
        /\ handle' = [handle EXCEPT ![p] = n]
        /\ port' = [port EXCEPT ![p] = start[p]]
        /\ clash' = Clashes(n, p)
  BY DEF Created
<1>2. /\ fds \in [Numbers -> Ports \cup {None, AnyPort, File}]
      /\ handle \in [Ports -> Numbers \cup {0}]
      /\ port \in [Ports -> BOOLEAN] /\ start \in [Ports -> BOOLEAN]
      /\ file \in Numbers \cup {0} /\ fresh \in Numbers \cup {0} /\ 0 \notin Numbers
      /\ clash \in BOOLEAN
  BY Amounts DEF TypeOK
<1>3. /\ Closed(fds, h)[n] = None /\ h \in Numbers \cup {0}
      /\ \A m \in Numbers : Closed(fds, h)[m] = IF m = h THEN None ELSE fds[m]
      /\ Closed(fds, h) \in [Numbers -> Ports \cup {None, AnyPort, File}]
  BY <1>1, <1>2 DEF Lowest, Closed
<1>4. /\ \A m \in Numbers :
            fds'[m] = IF m = n THEN Own(p) ELSE IF m = h THEN None ELSE fds[m]
      /\ \A q \in Ports : handle'[q] = IF q = p THEN n ELSE handle[q]
      /\ \A q \in Ports : port'[q] = IF q = p THEN start[p] ELSE port[q]
      /\ n = h \/ fds[n] = None
  BY <1>1, <1>2, <1>3
<1>5. /\ \A q \in Ports : Own(q)' = Own(q) /\ Own(q) \in {q, AnyPort}
      /\ ~clash' => ~clash /\ \A q \in Ports \ {p} : handle[q] # n
      /\ clash' => clash \/ \E q \in Ports \ {p} : handle[q] = n
  BY <1>1 DEF Own, Clashes
<1> HIDE DEF h
<1>6. h = handle[p]
  BY DEF h
<1>7. NamedByItsPort'
  <2> SUFFICES ASSUME NEW m \in Numbers, fds'[m] \in Ports
               PROVE  handle'[fds'[m]] = m \/ (ppc = "assign" /\ cur = fds'[m] /\ fresh = m)
    BY DEF NamedByItsPort
  <2>1. CASE m = n
    BY <1>4, <1>5, <2>1, Names
  <2>2. CASE m # n
    <3>1. m # h /\ fds'[m] = fds[m]
      BY <1>4, <2>2, Names
    <3>2. handle[fds[m]] = m \/ (ppc = "assign" /\ cur = fds[m] /\ fresh = m)
      BY <3>1 DEF Descriptors, NamedByItsPort
    <3> QED
      BY <1>4, <1>6, <3>1, <3>2
  <2> QED
    BY <2>1, <2>2
<1>8. HandlesOwn'
  BY <1>2, <1>4, <1>5, <1>6 DEF Descriptors, HandlesOwn
<1>9. Unreplaced'
  <2> SUFFICES ASSUME replaced = 0
               PROVE  ~clash' /\ \A q \in Ports : handle'[q] # 0 => fds'[handle'[q]] = Own(q)
    BY <1>5 DEF Unreplaced
  <2>1. ~clash /\ \A q \in Ports : handle[q] # 0 => fds[handle[q]] = Own(q)
    BY DEF Descriptors, Unreplaced
  <2>2. \A q \in Ports \ {p} : handle[q] = h => h = 0
    BY <1>6, <2>1 DEF Descriptors, Apart
  <2>3. \A q \in Ports \ {p} : handle[q] # n
    BY <1>2, <1>4, <1>5, <2>1, <2>2, Names
  <2> QED
    BY <1>2, <1>4, <1>5, <2>1, <2>2, <2>3
<1>10. ClashAfterReplacement'
  <2>1. replaced \in Nat
    BY Amounts DEF TypeOK
  <2> QED
    BY <1>9, <2>1 DEF Unreplaced, ClashAfterReplacement
<1>11. ASSUME ~clash'
       PROVE  /\ \A q, r \in Ports : handle'[q] = handle'[r] /\ handle'[q] # 0 => q = r
              /\ file # 0 => fds'[file] = File /\ \A q \in Ports : handle'[q] # file
  <2>1. /\ \A q, r \in Ports : handle[q] = handle[r] /\ handle[q] # 0 => q = r
        /\ file # 0 => fds[file] = File /\ \A q \in Ports : handle[q] # file
    BY <1>5, <1>11 DEF Descriptors, Apart
  <2>2. \A q, r \in Ports : handle'[q] = handle'[r] /\ handle'[q] # 0 => q = r
    BY <1>4, <1>5, <1>11, <2>1
  <2>3. ASSUME file # 0  PROVE file # n /\ file # h
    BY <1>4, <1>6, <2>1, <2>3, Names
  <2> QED
    BY <1>2, <1>4, <2>1, <2>2, <2>3
<1>12. ASSUME ~clash', ppc = "assign"
       PROVE  /\ fds'[fresh] = IF port'[cur] THEN cur ELSE AnyPort
              /\ \A q \in Ports \ {cur} : handle'[q] # fresh
              /\ handle'[cur] # fresh /\ handle'[cur] # 0 => fds'[handle'[cur]] \in {None, Own(cur)}
  <2>1. /\ fds[fresh] = IF port[cur] THEN cur ELSE AnyPort
        /\ \A q \in Ports \ {cur} : handle[q] # fresh
        /\ handle[cur] # fresh /\ handle[cur] # 0 => fds[handle[cur]] \in {None, Own(cur)}
        /\ cur \in Ports /\ cur # p /\ fresh \in Numbers
    BY <1>2, <1>5, <1>12 DEF Descriptors, Apart, InHand
  <2>2. fresh # h
    BY <1>6, <2>1
  <2>3. fresh # n
    BY <1>4, <2>1, <2>2, Names
  <2>4. fds'[fresh] = fds[fresh] /\ port'[cur] = port[cur] /\ handle'[cur] = handle[cur]
    BY <1>4, <2>1, <2>2, <2>3
  <2>5. handle[cur] # n /\ handle[cur] \in Numbers \cup {0}
    BY <1>2, <1>5, <1>12, <2>1
  <2>6. handle[cur] # 0 => fds'[handle[cur]] \in {None, fds[handle[cur]]}
    BY <1>4, <2>5
  <2>7. \A q \in Ports \ {cur} : handle'[q] # fresh
    BY <1>4, <2>1, <2>3
  <2>8. handle[cur] # fresh /\ handle[cur] # 0 => fds'[handle[cur]] \in {None, Own(cur)}
    BY <2>1, <2>6
  <2> QED
    BY <2>1, <2>4, <2>7, <2>8
<1>13. Apart'
  BY <1>5, <1>11, <1>12 DEF Apart, InHand
<1>14. \A q \in Ports : port'[q] => start[q]
  BY <1>4 DEF Descriptors
<1> QED
  BY <1>7, <1>8, <1>9, <1>10, <1>13, <1>14 DEF Descriptors

\* What a socket names is closed, and it names nothing.
LEMMA DescriptorsClosed ==
    ASSUME TypeOK, Descriptors, NEW p \in Ports,
           fds' = Closed(fds, handle[p]), handle' = [handle EXCEPT ![p] = 0],
           port' = port \/ port' = [port EXCEPT ![p] = FALSE],
           UNCHANGED <<start, file, clash, replaced>>,
           \/ ppc # "assign" /\ ppc' # "assign"
           \/ UNCHANGED <<ppc, cur, fresh>> /\ (ppc = "assign" => cur \in Ports /\ cur # p /\ fresh # 0)
    PROVE  Descriptors'
<1> DEFINE h == handle[p]
<1>2. /\ fds \in [Numbers -> Ports \cup {None, AnyPort, File}]
      /\ handle \in [Ports -> Numbers \cup {0}]
      /\ port \in [Ports -> BOOLEAN] /\ start \in [Ports -> BOOLEAN]
      /\ file \in Numbers \cup {0} /\ fresh \in Numbers \cup {0} /\ 0 \notin Numbers
      /\ clash \in BOOLEAN
  BY Amounts DEF TypeOK
<1>4. /\ \A m \in Numbers : fds'[m] = IF m = h THEN None ELSE fds[m]
      /\ \A q \in Ports : handle'[q] = IF q = p THEN 0 ELSE handle[q]
      /\ \A q \in Ports : port'[q] = port[q] \/ (q = p /\ ~port'[q])
      /\ \A q \in Ports : q # p => port'[q] = port[q]
      /\ \A q \in Ports : Own(q)' = Own(q)
  BY <1>2 DEF Closed, Own
<1> HIDE DEF h
<1>6. h = handle[p]
  BY DEF h
<1>7. NamedByItsPort'
  <2> SUFFICES ASSUME NEW m \in Numbers, fds'[m] \in Ports
               PROVE  handle'[fds'[m]] = m \/ (ppc' = "assign" /\ cur' = fds'[m] /\ fresh' = m)
    BY DEF NamedByItsPort
  <2>1. m # h /\ fds'[m] = fds[m]
    BY <1>4, Names
  <2>2. handle[fds[m]] = m \/ (ppc = "assign" /\ cur = fds[m] /\ fresh = m)
    BY <2>1 DEF Descriptors, NamedByItsPort
  <2>3. handle[fds[m]] = m => fds[m] # p
    BY <1>6, <2>1
  <2> QED
    BY <1>4, <2>1, <2>2, <2>3
<1>8. HandlesOwn'
  <2> SUFFICES ASSUME ~clash, NEW q \in Ports, handle'[q] # 0, ~(ppc' = "assign" /\ cur' = q)
               PROVE  fds'[handle'[q]] \in {None, Own(q)}
    BY <1>4 DEF HandlesOwn
  <2>1. q # p /\ handle'[q] = handle[q] /\ handle[q] \in Numbers
    BY <1>2, <1>4
  <2>2. fds[handle[q]] \in {None, Own(q)}
    BY <2>1 DEF Descriptors, HandlesOwn
  <2> QED
    BY <1>4, <2>1, <2>2
<1>9. Unreplaced'
  <2> SUFFICES ASSUME replaced = 0
               PROVE  ~clash /\ \A q \in Ports : handle'[q] # 0 => fds'[handle'[q]] = Own(q)
    BY <1>4 DEF Unreplaced
  <2>1. ~clash /\ \A q \in Ports : handle[q] # 0 => fds[handle[q]] = Own(q)
    BY DEF Descriptors, Unreplaced
  <2>2. \A q \in Ports \ {p} : handle[q] = h => h = 0
    BY <1>6, <2>1 DEF Descriptors, Apart
  <2> QED
    BY <1>2, <1>4, <2>1, <2>2
<1>10. ClashAfterReplacement'
  BY DEF Descriptors, ClashAfterReplacement
<1>11. ASSUME ~clash
       PROVE  /\ \A q, r \in Ports : handle'[q] = handle'[r] /\ handle'[q] # 0 => q = r
              /\ file # 0 => fds'[file] = File /\ \A q \in Ports : handle'[q] # file
  <2>1. /\ \A q, r \in Ports : handle[q] = handle[r] /\ handle[q] # 0 => q = r
        /\ file # 0 => fds[file] = File /\ \A q \in Ports : handle[q] # file
    BY <1>11 DEF Descriptors, Apart
  <2>2. \A q, r \in Ports : handle'[q] = handle'[r] /\ handle'[q] # 0 => q = r
    BY <1>4, <2>1
  <2>3. file # 0 => file # h
    BY <1>6, <2>1
  <2> QED
    BY <1>2, <1>4, <2>1, <2>2, <2>3
<1>12. ASSUME ~clash, ppc' = "assign"
       PROVE  InHand'
  <2>1. /\ ppc = "assign" /\ UNCHANGED <<ppc, cur, fresh>>
        /\ fds[fresh] = IF port[cur] THEN cur ELSE AnyPort
        /\ \A q \in Ports \ {cur} : handle[q] # fresh
        /\ handle[cur] # fresh /\ handle[cur] # 0 => fds[handle[cur]] \in {None, Own(cur)}
        /\ cur \in Ports /\ cur # p /\ fresh \in Numbers
    BY <1>2, <1>12 DEF Descriptors, Apart, InHand
  <2>2. fresh # h
    BY <1>6, <2>1
  <2>3. fds'[fresh] = fds[fresh] /\ port'[cur] = port[cur] /\ handle'[cur] = handle[cur]
    BY <1>4, <2>1, <2>2
  <2>4. handle[cur] \in Numbers \cup {0}
    BY <1>2, <2>1
  <2>5. handle[cur] # 0 => fds'[handle[cur]] \in {None, fds[handle[cur]]}
    BY <1>4, <2>4
  <2>6. \A q \in Ports \ {cur} : handle'[q] # fresh
    BY <1>2, <1>4, <2>1
  <2>7. handle[cur] # fresh /\ handle[cur] # 0 => fds'[handle[cur]] \in {None, Own(cur)}
    BY <2>1, <2>5
  <2>8. Own(cur)' = Own(cur)
    BY <1>4, <2>1
  <2> QED
    BY <2>1, <2>3, <2>6, <2>7, <2>8 DEF InHand
<1>13. Apart'
  <2>1. InHand' \/ ppc' = "assign"
    BY DEF InHand
  <2> QED
    BY <1>11, <1>12, <2>1 DEF Apart
<1>14. \A q \in Ports : port'[q] => start[q]
  BY <1>4 DEF Descriptors
<1> QED
  BY <1>7, <1>8, <1>9, <1>10, <1>13, <1>14 DEF Descriptors

\* Off m_poll, and off m_aSockList, where no other socket has the same number.
LEMMA TakenOffMeans ==
    ASSUME IInv, apc = "visit", NEW p, p = polls[k].sock, TakenOff(p)
    PROVE  /\ p \in Polled /\ p \in Ports /\ k \in Nat /\ k > 0 /\ k <= Len(polls) /\ Len(polls) \in Nat
           /\ polls' \in Seq(EntryType) /\ Different(polls') /\ Socks(polls') = Polled \ {p}
           /\ Len(polls') = Len(polls) - 1
           /\ \A i \in DOMAIN polls' : \E j \in DOMAIN polls : polls'[i] = polls[j] /\ polls[j].sock # p
           /\ \A q, m : Below(polls, q, m) /\ m \in Int /\ q # p => Below(polls', q, m)
           /\ listed' \in [Ports -> 0..2] /\ sorted' \in BOOLEAN
           /\ ~clash /\ ppc \notin Stopping =>
                /\ sorted'
                /\ \A q \in Ports : listed'[q] =
                      IF q \in Polled \ {p} \/ (ppc = "appended" /\ cur = q) THEN 1 ELSE 0
<1>0. TypeOK /\ Locks /\ Indexes /\ Todo /\ Descriptors /\ Entries /\ Lists
  BY DEF IInv, Control
<1>1. /\ polls \in Seq(EntryType) /\ Different(polls) /\ Socks(polls) = Polled
      /\ Len(polls) \in Nat /\ DOMAIN polls = 1 .. Len(polls) /\ Polled \subseteq Ports
      /\ \A i \in DOMAIN polls : polls[i] \in EntryType /\ polls[i].sock \in Polled
  BY <1>0, PollsTyped
<1>2. k \in Nat /\ k > 0 /\ k <= Len(polls) /\ k \in 1 .. Len(polls)
  BY <1>0, <1>1 DEF TypeOK, Indexes
<1>3. p \in Polled /\ p \in Ports
  BY <1>1, <1>2
<1>4. polls' = Cut(polls, k)
  BY DEF TakenOff, Without, Cut
<1>5. /\ polls' \in Seq(EntryType) /\ Different(polls') /\ Socks(polls') = Polled \ {p}
      /\ Len(polls') = Len(polls) - 1
      /\ \A q, m : Below(polls, q, m) /\ m \in Int /\ q # p => Below(polls', q, m)
      /\ DOMAIN polls' = 1 .. Len(polls) - 1
      /\ \A i \in 1 .. Len(polls) - 1 : \E a \in 1 .. Len(polls) : a # k /\ polls'[i] = polls[a]
  <2>1. /\ Cut(polls, k) \in Seq(EntryType) /\ Len(Cut(polls, k)) = Len(polls) - 1
        /\ DOMAIN Cut(polls, k) = 1 .. Len(polls) - 1
    BY <1>1, <1>2, CutIsSeq
  <2>2. /\ Different(Cut(polls, k)) /\ Socks(Cut(polls, k)) = Socks(polls) \ {polls[k].sock}
        /\ \A j \in 1 .. Len(polls) - 1 : \E a \in 1 .. Len(polls) : a # k /\ Cut(polls, k)[j] = polls[a]
        /\ \A q, m : Below(polls, q, m) /\ m \in Int /\ q # polls[k].sock => Below(Cut(polls, k), q, m)
    BY <1>1, <1>2, CutKeeps
  <2> QED
    BY <1>1, <1>4, <2>1, <2>2
<1>6. \A i \in DOMAIN polls' : \E j \in DOMAIN polls : polls'[i] = polls[j] /\ polls[j].sock # p
  BY <1>1, <1>2, <1>5 DEF Different
<1>7. listed \in [Ports -> 0..2] /\ sorted \in BOOLEAN
  BY <1>0 DEF TypeOK
<1>8. listed' \in [Ports -> 0..2] /\ sorted' \in BOOLEAN
  <2>1. CASE ppc \in Stopping
    BY <1>7, <2>1 DEF TakenOff
  <2>2. CASE ppc \notin Stopping
    <3>1. listed' \in Unlisted(p) /\ sorted' = (sorted /\ listed'[p] = 0)
      BY <2>2 DEF TakenOff
    <3>2. listed' = listed \/ \E x \in Found(p) \X (0..2) : listed' = [listed EXCEPT ![x[1]] = x[2]]
      BY <3>1 DEF Unlisted
    <3>3. Found(p) \subseteq Ports
      BY DEF Found
    <3> QED
      BY <1>7, <3>1, <3>2, <3>3
  <2> QED
    BY <2>1, <2>2
<1>9. ASSUME ~clash, ppc \notin Stopping
      PROVE  /\ sorted'
             /\ \A q \in Ports : listed'[q] =
                   IF q \in Polled \ {p} \/ (ppc = "appended" /\ cur = q) THEN 1 ELSE 0
  <2>1. listed' \in Unlisted(p) /\ sorted' = (sorted /\ listed'[p] = 0)
    BY <1>9 DEF TakenOff
  <2>2. /\ sorted
        /\ \A q \in Ports : listed[q] = IF q \in Polled \/ (ppc = "appended" /\ cur = q) THEN 1 ELSE 0
        /\ handle[p] # 0
        /\ \A q, r \in Ports : handle[q] = handle[r] /\ handle[q] # 0 => q = r
    BY <1>0, <1>1, <1>2, <1>9 DEF Lists, Entries, Descriptors, Apart
  <2>3. Found(p) = {p} /\ listed[p] = 1
    BY <1>3, <2>2 DEF Found
  <2>4. listed' = [listed EXCEPT ![p] = 0]
    <3>1. PICK x \in Found(p) \X (0..2) : Less(listed[x[1]], x[2]) /\ listed' = [listed EXCEPT ![x[1]] = x[2]]
      BY <2>1, <2>2, <2>3 DEF Unlisted
    <3>2. x[1] = p /\ x[2] \in 0..2
      BY <2>3, <3>1
    <3>3. x[2] = 0
      BY <2>3, <3>1, <3>2 DEF Less
    <3> QED
      BY <3>1, <3>2, <3>3
  <2>5. ~(ppc = "appended" /\ cur = p)
    <3>1. ppc = "appended" => cur \in Range(todo)
      <4>1. ppc = "appended" => todo # <<>> /\ cur = Head(todo) /\ IsInjective(todo) /\ todo \in Seq(Ports)
        BY <1>0 DEF Todo, TypeOK
      <4> QED
        BY <4>1, TailKeeps
    <3> QED
      BY <1>0, <1>3, <3>1 DEF Todo
  <2> QED
    BY <1>3, <1>7, <2>1, <2>2, <2>4, <2>5
<1> QED
  BY <1>1, <1>2, <1>3, <1>5, <1>6, <1>8, <1>9

\* The socket in hand is the first that is still to be replaced.
LEMMA CurIsNext ==
    ASSUME TypeOK, Todo, ppc \in {"assign", "append", "appended"}
    PROVE  /\ cur \in Ports /\ cur \in Range(todo) /\ cur \notin Polled /\ cur # ssock
           /\ Range(todo) = Range(Tail(todo)) \cup {cur} /\ cur \notin Range(Tail(todo))
           /\ Tail(todo) \in Seq(Ports) /\ IsInjective(Tail(todo)) /\ cur # None
<1>1. todo \in Seq(Ports) /\ IsInjective(todo) /\ todo # <<>> /\ cur = Head(todo)
  BY DEF TypeOK, Todo
<1>2. /\ Tail(todo) \in Seq(Ports) /\ IsInjective(Tail(todo)) /\ Head(todo) \in Ports
      /\ Range(todo) = Range(Tail(todo)) \cup {Head(todo)} /\ Head(todo) \notin Range(Tail(todo))
  BY <1>1, TailKeeps
<1> QED
  BY <1>1, <1>2, Names DEF Todo

\* A socket with an error is off both lists; its port is in hand, or lost.
LEMMA RepairSteps == ASSUME IInv, Repair \/ RepairFails  PROVE IInv'
<1> DEFINE p == polls[k].sock
<1>0. TypeOK /\ Locks /\ Indexes /\ Todo /\ Descriptors /\ Entries /\ Served /\ Lists /\ Closing
  BY DEF IInv, Control
<1>1. /\ apc = "visit" /\ TakenOff(p)
      /\ UNCHANGED <<start, file, files, replaced, thisLock, pollLock, isstop,
                     ppc, pk, cur, fresh, todo>>
  BY DEF Repair, RepairFails, locks, pvars
<1>2. \/ /\ Created(p) /\ ssock' = p /\ apc' = "repair" /\ UNCHANGED <<k, lost>>
         /\ reopened' = IF ppc \in Stopping THEN reopened \cup {p} ELSE reopened
      \/ /\ fds' = Closed(fds, handle[p]) /\ handle' = [handle EXCEPT ![p] = 0]
         /\ port' = [port EXCEPT ![p] = FALSE] /\ UNCHANGED <<clash, reopened>>
         /\ lost' = lost \cup {p} /\ ssock' = None /\ apc' = "check" /\ k' = k - 1
  BY DEF Repair, RepairFails, Visited
<1>3. /\ p \in Polled /\ p \in Ports /\ k \in Nat /\ k > 0 /\ k <= Len(polls) /\ Len(polls) \in Nat
      /\ polls' \in Seq(EntryType) /\ Different(polls') /\ Socks(polls') = Polled \ {p}
      /\ Len(polls') = Len(polls) - 1
      /\ \A i \in DOMAIN polls' : \E j \in DOMAIN polls : polls'[i] = polls[j] /\ polls[j].sock # p
      /\ \A q, m : Below(polls, q, m) /\ m \in Int /\ q # p => Below(polls', q, m)
      /\ listed' \in [Ports -> 0..2] /\ sorted' \in BOOLEAN
      /\ ~clash /\ ppc \notin Stopping =>
           /\ sorted'
           /\ \A q \in Ports : listed'[q] =
                 IF q \in Polled \ {p} \/ (ppc = "appended" /\ cur = q) THEN 1 ELSE 0
  BY <1>1, TakenOffMeans
<1> HIDE DEF p
<1>4. Polled' = Polled \ {p}
  BY <1>3 DEF Socks, Polled
<1>5. /\ p \notin Range(todo)
      /\ ppc \in {"assign", "append", "appended"} => cur \in Ports /\ cur # p
  BY <1>0, <1>3, CurIsNext DEF Todo
<1>6. ssock = None
  BY <1>0, <1>1 DEF Indexes
<1>7. /\ fds \in [Numbers -> Ports \cup {None, AnyPort, File}]
      /\ handle \in [Ports -> Numbers \cup {0}]
      /\ port \in [Ports -> BOOLEAN] /\ start \in [Ports -> BOOLEAN]
      /\ clash \in BOOLEAN /\ 0 \notin Numbers /\ pk \in Int
  BY <1>0, Amounts DEF TypeOK
<1>8. /\ fds' \in [Numbers -> Ports \cup {None, AnyPort, File}]
      /\ handle' \in [Ports -> Numbers \cup {0}]
      /\ port' \in [Ports -> BOOLEAN] /\ clash' \in BOOLEAN
      /\ clash => clash'
      /\ \A q \in Ports \ {p} : handle'[q] = handle[q] /\ port'[q] = port[q]
      /\ ssock' # None => handle'[p] # 0
      /\ ssock' # None => port'[p] = start[p]
  <2>1. CASE Created(p)
    <3>1. PICK n \in Numbers :
            /\ fds' = [Closed(fds, handle[p]) EXCEPT ![n] = Own(p)]
            /\ handle' = [handle EXCEPT ![p] = n] /\ port' = [port EXCEPT ![p] = start[p]]
            /\ clash' = Clashes(n, p)
      BY <2>1 DEF Created
    <3>2. Own(p) \in Ports \cup {None, AnyPort, File}
      BY <1>3 DEF Own
    <3>3. Closed(fds, handle[p]) \in [Numbers -> Ports \cup {None, AnyPort, File}]
      BY <1>3, <1>7 DEF Closed
    <3> QED
      BY <1>3, <1>7, <3>1, <3>2, <3>3 DEF Clashes
  <2>2. CASE ssock' = None
    <3>1. /\ fds' = Closed(fds, handle[p]) /\ handle' = [handle EXCEPT ![p] = 0]
          /\ port' = [port EXCEPT ![p] = FALSE] /\ UNCHANGED clash
      BY <1>2, <1>3, <2>2, Names
    <3> QED
      BY <1>3, <1>7, <2>2, <3>1 DEF Closed
  <2> QED
    BY <1>2, <2>1, <2>2
<1>9. TypeOK'
  <2>1. \A i, j \in DOMAIN polls' : polls'[i].sock = polls'[j].sock => i = j
    BY <1>3 DEF Different
  <2>2. polls' \in Seq([sock : Ports, fd : Numbers \cup {0}, event : {"ok", "err"}])
    BY <1>3 DEF EntryType
  <2>3. /\ k' \in Nat /\ ssock' \in Ports \cup {None} /\ lost' \subseteq Ports
        /\ reopened' \subseteq Ports /\ apc' \in {"repair", "check"}
    BY <1>0, <1>2, <1>3 DEF TypeOK
  <2> QED
    BY <1>0, <1>1, <1>3, <1>8, <2>1, <2>2, <2>3 DEF TypeOK
<1>10. Control'
  <2>1. Locks'
    BY <1>0, <1>1, <1>2 DEF Locks
  <2>2. Indexes'
    BY <1>2, <1>3, <1>4, Names DEF Indexes
  <2>3. Todo'
    BY <1>0, <1>1, <1>2, <1>4, <1>5, <1>6 DEF Todo
  <2> QED
    BY <2>1, <2>2, <2>3 DEF Control
<1>11. Descriptors'
  <2>1. ppc = "assign" => cur \in Ports /\ cur # p /\ fresh # 0
    BY <1>0, <1>5 DEF Todo
  <2> QED
    BY <1>0, <1>1, <1>2, <1>3, <2>1, DescriptorsCreated, DescriptorsClosed
<1>12. Entries'
  <2> SUFFICES ASSUME ppc \notin Stopping  PROVE Entries'
    BY <1>1 DEF Entries
  <2>1. /\ \A i \in DOMAIN polls : polls[i].fd = handle[polls[i].sock] /\ polls[i].fd # 0
        /\ \A i \in DOMAIN polls : polls[i].sock \in Ports
        /\ ppc \in {"append", "appended"} => handle[cur] # 0
    BY <1>0, PollsTyped DEF Entries
  <2>2. \A i \in DOMAIN polls' : polls'[i].fd = handle'[polls'[i].sock] /\ polls'[i].fd # 0
    BY <1>3, <1>8, <2>1
  <2>3. ppc \in {"append", "appended"} => handle'[cur] # 0
    BY <1>5, <1>8, <2>1
  <2>4. ssock' # None => handle'[ssock'] # 0
    BY <1>2, <1>8
  <2> QED
    BY <1>1, <2>2, <2>3, <2>4 DEF Entries
<1>13. Served'
  <2>1. \A q \in Ports \ lost : (q \in Polled \/ q \in Range(todo)) /\ port[q] /\ start[q]
    BY <1>0, <1>6, Names DEF Served, Descriptors
  <2>2. \A q \in Ports \ lost' : q # p \/ ssock' = p
    BY <1>2
  <2>3. lost \subseteq lost'
    BY <1>2
  <2>4. ssock' = p => ssock' # None
    BY <1>3, Names
  <2> QED
    BY <1>1, <1>4, <1>8, <2>1, <2>2, <2>3, <2>4 DEF Served
<1>14. Lists'
  BY <1>1, <1>3, <1>4, <1>7, <1>8 DEF Lists
<1>15. Closing'
  <2> SUFFICES ASSUME ppc \in Stopping  PROVE Closing'
    BY <1>1 DEF Closing, Stopping
  <2>1. /\ lost \cup reopened \subseteq lost' \cup reopened'
        /\ p \in lost' \cup reopened'
    BY <1>2
  <2>2. ASSUME NEW q \in Ports, q = p \/ Answered(q)  PROVE Answered(q)'
    <3>1. CASE q = p
      BY <2>1, <3>1 DEF Answered
    <3>2. CASE q # p
      <4>1. handle'[q] = handle[q]
        BY <1>8, <3>2
      <4> QED
        BY <2>1, <2>2, <3>2, <4>1 DEF Answered
    <3> QED
      BY <3>1, <3>2
  <2> QED
    BY <1>0, <1>1, <1>3, <1>7, <2>1, <2>2 DEF Closing, Stopping, Answered
<1> QED
  BY <1>9, <1>10, <1>11, <1>12, <1>13, <1>14, <1>15 DEF IInv

\* The repaired socket gets onto both lists, or its port is lost.
LEMMA RelistStep == ASSUME IInv, Relist  PROVE IInv'
<1>0. TypeOK /\ Locks /\ Indexes /\ Todo /\ Descriptors /\ Entries /\ Served /\ Lists /\ Closing
  BY DEF IInv, Control
<1>1. /\ apc = "repair" /\ apc' = "check" /\ k' = k - 1 /\ ssock' = None
      /\ UNCHANGED <<sorted, reopened, replaced, thisLock, pollLock, isstop, ppc, pk, cur,
                     fresh, todo>>
      /\ UNCHANGED table
  BY DEF Relist, Visited, locks, pvars
<1>2. \/ /\ polls' = Append(polls, Entry(ssock, handle[ssock])) /\ UNCHANGED lost
         /\ listed' = IF ppc \in Stopping THEN listed ELSE Listed(ssock)
      \/ lost' = lost \cup {ssock} /\ UNCHANGED <<polls, listed>>
  BY DEF Relist
<1>3. /\ ssock \in Ports /\ ssock \notin Polled /\ ssock \notin Range(todo) /\ k \in Nat /\ k > 0
      /\ ssock # None
  BY <1>0, <1>1, Names DEF TypeOK, Indexes, Todo
<1>4. /\ polls \in Seq(EntryType) /\ Different(polls) /\ Socks(polls) = Polled
      /\ Len(polls) \in Nat /\ DOMAIN polls = 1 .. Len(polls)
  BY <1>0, PollsTyped
<1>5. /\ listed \in [Ports -> 0..2] /\ handle \in [Ports -> Numbers \cup {0}] /\ pk \in Int
  BY <1>0 DEF TypeOK
<1>6. ppc \in {"assign", "append", "appended"} => cur # ssock
  BY <1>0, CurIsNext
<1>7. /\ Entry(ssock, handle[ssock]) \in EntryType
      /\ Entry(ssock, handle[ssock]).sock = ssock /\ Entry(ssock, handle[ssock]).fd = handle[ssock]
  BY <1>3, <1>5 DEF Entry, EntryType
<1>8. /\ polls' \in Seq(EntryType) /\ Different(polls') /\ Len(polls) <= Len(polls')
      /\ Polled \subseteq Polled' /\ Polled' \subseteq Polled \cup {ssock}
      /\ ssock \in Polled' \/ ssock \in lost'
      /\ \A i \in DOMAIN polls' : \/ i \in DOMAIN polls /\ polls'[i] = polls[i]
                                  \/ polls'[i] = Entry(ssock, handle[ssock])
      /\ \A p, m : Below(polls, p, m) => Below(polls', p, m)
      /\ lost \subseteq lost' /\ lost' \subseteq Ports
  <2>1. CASE polls' = polls /\ lost' = lost \cup {ssock}
    <3>1. Polled' = Polled /\ lost' \subseteq Ports
      BY <1>0, <1>3, <2>1 DEF Polled, TypeOK
    <3> QED
      BY <1>4, <2>1, <3>1
  <2>2. CASE polls' = Append(polls, Entry(ssock, handle[ssock])) /\ UNCHANGED lost
    <3>1. /\ polls' \in Seq(EntryType) /\ Len(polls') = Len(polls) + 1 /\ Different(polls')
          /\ Socks(polls') = Socks(polls) \cup {ssock}
          /\ DOMAIN polls' = 1 .. Len(polls) + 1
          /\ \A j \in 1 .. Len(polls) + 1 :
                polls'[j] = IF j \in 1 .. Len(polls) THEN polls[j] ELSE Entry(ssock, handle[ssock])
          /\ \A p, m : Below(polls, p, m) => Below(polls', p, m)
      BY <1>3, <1>4, <1>7, <2>2, AppendKeeps
    <3>2. Socks(polls') = Polled'
      BY DEF Socks, Polled
    <3> QED
      BY <1>0, <1>4, <2>2, <3>1, <3>2 DEF TypeOK
  <2> QED
    BY <1>2, <2>1, <2>2
<1>9. /\ listed' \in [Ports -> 0..2]
      /\ ~clash /\ ppc \notin Stopping =>
           \A q \in Ports : listed'[q] =
              IF q \in Polled' \/ (ppc = "appended" /\ cur = q) THEN 1 ELSE 0
  <2>1. ~clash /\ ppc \notin Stopping =>
           \A q \in Ports : listed[q] =
              IF q \in Polled \/ (ppc = "appended" /\ cur = q) THEN 1 ELSE 0
    BY <1>0 DEF Lists
  <2>2. CASE UNCHANGED <<polls, listed>>
    BY <1>5, <2>1, <2>2 DEF Polled
  <2>3. CASE ppc \in Stopping /\ listed' = listed
    BY <1>5, <2>3
  <2>4. CASE /\ ppc \notin Stopping /\ listed' = Listed(ssock)
             /\ polls' = Append(polls, Entry(ssock, handle[ssock]))
    <3>1. /\ \A q \in Ports \ {ssock} : listed'[q] = listed[q]
          /\ listed'[ssock] = IF listed[ssock] = 2 THEN 2 ELSE listed[ssock] + 1
          /\ listed' \in [Ports -> 0..2]
      BY <1>3, <1>5, <2>4 DEF Listed
    <3>2. Polled' = Polled \cup {ssock}
      <4>1. Socks(polls') = Socks(polls) \cup {ssock}
        BY <1>3, <1>4, <1>7, <2>4, AppendKeeps
      <4> QED
        BY <1>4, <4>1 DEF Socks, Polled
    <3> QED
      BY <1>3, <1>6, <2>1, <3>1, <3>2
  <2> QED
    BY <1>2, <2>2, <2>3, <2>4
<1>10. Range(todo) \subseteq Ports /\ None \notin Range(todo)
  BY <1>0, Names DEF TypeOK, Range
<1>11. TypeOK'
  <2>1. \A i, j \in DOMAIN polls' : polls'[i].sock = polls'[j].sock => i = j
    BY <1>8 DEF Different
  <2>2. polls' \in Seq([sock : Ports, fd : Numbers \cup {0}, event : {"ok", "err"}])
    BY <1>8 DEF EntryType
  <2> QED
    BY <1>0, <1>1, <1>3, <1>8, <1>9, <2>1, <2>2 DEF TypeOK, table
<1>12. Control'
  <2>1. Locks'
    BY <1>0, <1>1 DEF Locks
  <2>2. k' <= Len(polls')
    <3>1. Len(polls') \in Nat
      BY <1>8
    <3> QED
      BY <1>0, <1>1, <1>3, <1>4, <1>8, <3>1 DEF Indexes
  <2>3. Indexes'
    BY <1>1, <2>2 DEF Indexes
  <2>4. Todo'
    BY <1>0, <1>1, <1>3, <1>8, <1>10 DEF Todo
  <2> QED
    BY <2>1, <2>3, <2>4 DEF Control
<1>13. Descriptors'
  BY <1>0, <1>1, DescriptorsSame DEF TypeOK
<1>14. Entries'
  <2> SUFFICES ASSUME ppc \notin Stopping  PROVE Entries'
    BY <1>1 DEF Entries
  <2>1. /\ \A i \in DOMAIN polls : polls[i].fd = handle[polls[i].sock] /\ polls[i].fd # 0
        /\ ppc \in {"append", "appended"} => handle[cur] # 0
        /\ handle[ssock] # 0
    BY <1>0, <1>3 DEF Entries
  <2>2. \A i \in DOMAIN polls' : polls'[i].fd = handle[polls'[i].sock] /\ polls'[i].fd # 0
    BY <1>7, <1>8, <2>1
  <2> QED
    BY <1>1, <2>1, <2>2 DEF Entries, table
<1>15. Served'
  BY <1>0, <1>1, <1>8 DEF Served, table
<1>16. Lists'
  BY <1>0, <1>1, <1>9 DEF Lists, table
<1>17. Closing'
  <2>1. \A q \in Ports : Answered(q) => Answered(q)'
    BY <1>1, <1>8 DEF Answered, table
  <2> QED
    BY <1>0, <1>1, <1>8, <2>1 DEF Closing
<1> QED
  BY <1>11, <1>12, <1>13, <1>14, <1>15, <1>16, <1>17 DEF IInv

-----------------------------------------------------------------------------
(* The rest of the process. *)

\* A step that touches descriptors, and no socket, only.
LEMMA TablesOnly ==
    ASSUME IInv, Descriptors',
           UNCHANGED <<handle, port, start, lists, history, locks, isstop, avars, pvars>>,
           fds' \in [Numbers -> Ports \cup {None, AnyPort, File}],
           file' \in Numbers \cup {0}, files' \in 0..MaxFiles, clash' \in BOOLEAN, clash => clash'
    PROVE  IInv'
<1> USE DEF lists, history, locks, avars, pvars
<1>0. TypeOK /\ Control /\ Entries /\ Served /\ Lists /\ Closing
  BY DEF IInv
<1>1. TypeOK'
  BY <1>0 DEF TypeOK
<1>2. Control'
  BY <1>0 DEF Control, Locks, Indexes, Todo, Polled
<1>3. Entries' /\ Served'
  BY <1>0 DEF Entries, Served, Polled
<1>4. Lists'
  BY <1>0 DEF Lists, Polled, TypeOK
<1>5. Closing'
  BY <1>0 DEF Closing, Answered
<1> QED
  BY <1>1, <1>2, <1>3, <1>4, <1>5 DEF IInv

\* A number that is given to a file, and its end.
LEMMA FileSteps == ASSUME IInv, FileOpens \/ FileCloses  PROVE IInv'
<1>0. TypeOK /\ Todo /\ Descriptors
  BY DEF IInv, Control
<1>1. /\ fds \in [Numbers -> Ports \cup {None, AnyPort, File}]
      /\ handle \in [Ports -> Numbers \cup {0}]
      /\ file \in Numbers \cup {0} /\ fresh \in Numbers \cup {0} /\ 0 \notin Numbers
      /\ clash \in BOOLEAN /\ files \in 0..MaxFiles /\ MaxFiles \in Nat /\ replaced \in Nat
  BY <1>0, Amounts DEF TypeOK
<1>2. UNCHANGED <<handle, port, start, lists, history, locks, isstop, avars, pvars>>
  BY DEF FileOpens, FileCloses
<1>3. /\ \A q \in Ports : Own(q)' = Own(q) /\ Own(q) \in {q, AnyPort}
      /\ UNCHANGED <<handle, port, start, replaced, ppc, cur, fresh>>
  BY <1>2 DEF Own, history, pvars
<1>4. ppc = "assign" => cur \in Ports /\ fresh \in Numbers
  BY <1>0, <1>1, CurIsNext DEF Todo
<1>5. CASE FileOpens
  <2>1. PICK n \in Numbers :
          fds[n] = None /\ file' = n /\ fds' = [fds EXCEPT ![n] = File] /\ clash' = Clashes(n, None)
    BY <1>5 DEF FileOpens, Lowest
  <2>2. files < MaxFiles /\ files' = files + 1
    BY <1>5 DEF FileOpens
  <2>3. /\ \A m \in Numbers : fds'[m] = IF m = n THEN File ELSE fds[m]
        /\ fds' \in [Numbers -> Ports \cup {None, AnyPort, File}]
        /\ ~clash' => ~clash /\ \A q \in Ports : handle[q] # n
        /\ clash' => clash \/ \E q \in Ports : handle[q] = n
        /\ clash' \in BOOLEAN
    BY <1>1, <2>1, Names DEF Clashes
  <2>4. NamedByItsPort'
    BY <1>0, <1>3, <2>1, <2>3, Names DEF Descriptors, NamedByItsPort
  <2>5. HandlesOwn'
    BY <1>0, <1>1, <1>3, <2>1, <2>3 DEF Descriptors, HandlesOwn
  <2>6. Unreplaced'
    <3> SUFFICES ASSUME replaced = 0  PROVE Unreplaced'
      BY <1>3 DEF Unreplaced
    <3>1. ~clash /\ \A q \in Ports : handle[q] # 0 => fds[handle[q]] = Own(q)
      BY <1>0 DEF Descriptors, Unreplaced
    <3>2. \A q \in Ports : handle[q] # n
      BY <1>1, <1>3, <2>1, <3>1, Names
    <3>3. ~clash' /\ \A q \in Ports : handle'[q] # 0 => fds'[handle'[q]] = Own(q)'
      BY <1>1, <1>3, <2>3, <3>1, <3>2
    <3> QED
      BY <3>3 DEF Unreplaced
  <2>7. ClashAfterReplacement'
    BY <1>1, <1>3, <2>6 DEF Unreplaced, ClashAfterReplacement
  <2>8. ASSUME ~clash', ppc = "assign"  PROVE InHand'
    <3>1. /\ fds[fresh] = IF port[cur] THEN cur ELSE AnyPort
          /\ \A q \in Ports \ {cur} : handle[q] # fresh
          /\ handle[cur] # fresh /\ handle[cur] # 0 => fds[handle[cur]] \in {None, Own(cur)}
      BY <1>0, <2>3, <2>8 DEF Descriptors, Apart, InHand
    <3>2. fds'[fresh] = fds[fresh]
      BY <1>4, <2>1, <2>3, <2>8, <3>1, Names
    <3>3. handle[cur] # 0 => fds'[handle[cur]] = fds[handle[cur]]
      BY <1>1, <1>4, <2>3, <2>8
    <3>4. handle[cur] # fresh /\ handle[cur] # 0 => fds'[handle[cur]] \in {None, Own(cur)}
      BY <3>1, <3>3
    <3>5. Own(cur)' = Own(cur)
      BY <1>3 DEF Own
    <3> QED
      BY <1>3, <3>1, <3>2, <3>4, <3>5 DEF InHand
  <2>9. ASSUME ~clash'
        PROVE  /\ \A q, r \in Ports : handle[q] = handle[r] /\ handle[q] # 0 => q = r
               /\ fds'[file'] = File /\ \A q \in Ports : handle[q] # file'
    BY <1>0, <2>1, <2>3, <2>9 DEF Descriptors, Apart
  <2>10. InHand' \/ ppc = "assign"
    BY <1>3 DEF InHand
  <2>11. Apart'
    BY <1>3, <2>8, <2>9, <2>10 DEF Apart
  <2>12. Descriptors'
    BY <1>0, <1>3, <2>4, <2>5, <2>6, <2>7, <2>11 DEF Descriptors
  <2> QED
    BY <1>1, <1>2, <2>1, <2>2, <2>3, <2>12, TablesOnly
<1>6. CASE FileCloses
  <2>1. /\ file # 0 /\ file' = 0 /\ UNCHANGED <<files, clash>>
        /\ \A m \in Numbers : fds'[m] = IF m = file THEN None ELSE fds[m]
        /\ fds' \in [Numbers -> Ports \cup {None, AnyPort, File}]
    BY <1>1, <1>6 DEF FileCloses, Closed
  <2>4. NamedByItsPort'
    BY <1>0, <1>3, <2>1, Names DEF Descriptors, NamedByItsPort
  <2>5. HandlesOwn'
    BY <1>0, <1>1, <1>3, <2>1 DEF Descriptors, HandlesOwn
  <2>6. Unreplaced'
    <3> SUFFICES ASSUME replaced = 0  PROVE Unreplaced'
      BY <1>3 DEF Unreplaced
    <3>1. ~clash /\ \A q \in Ports : handle[q] # 0 => fds[handle[q]] = Own(q)
      BY <1>0 DEF Descriptors, Unreplaced
    <3>2. \A q \in Ports : handle[q] # file
      BY <1>0, <2>1, <3>1 DEF Descriptors, Apart
    <3>3. ~clash' /\ \A q \in Ports : handle'[q] # 0 => fds'[handle'[q]] = Own(q)'
      BY <1>1, <1>3, <2>1, <3>1, <3>2
    <3> QED
      BY <3>3 DEF Unreplaced
  <2>7. ClashAfterReplacement'
    BY <1>0, <1>3, <2>1 DEF Descriptors, ClashAfterReplacement
  <2>8. ASSUME ~clash, ppc = "assign"  PROVE InHand'
    <3>1. /\ fds[fresh] = IF port[cur] THEN cur ELSE AnyPort
          /\ \A q \in Ports \ {cur} : handle[q] # fresh
          /\ handle[cur] # fresh /\ handle[cur] # 0 => fds[handle[cur]] \in {None, Own(cur)}
          /\ fds[file] = File
      BY <1>0, <2>1, <2>8 DEF Descriptors, Apart, InHand
    <3>2. fds'[fresh] = fds[fresh]
      BY <1>4, <2>1, <2>8, <3>1, Names
    <3>3. handle[cur] # 0 => fds'[handle[cur]] \in {None, fds[handle[cur]]}
      BY <1>1, <1>4, <2>1, <2>8
    <3>4. handle[cur] # fresh /\ handle[cur] # 0 => fds'[handle[cur]] \in {None, Own(cur)}
      BY <3>1, <3>3
    <3>5. Own(cur)' = Own(cur)
      BY <1>3 DEF Own
    <3> QED
      BY <1>3, <3>1, <3>2, <3>4, <3>5 DEF InHand
  <2>9. ~clash => \A q, r \in Ports : handle[q] = handle[r] /\ handle[q] # 0 => q = r
    BY <1>0 DEF Descriptors, Apart
  <2>10. InHand' \/ ppc = "assign"
    BY <1>3 DEF InHand
  <2>11. Apart'
    BY <1>3, <2>1, <2>8, <2>9, <2>10 DEF Apart
  <2>12. Descriptors'
    BY <1>0, <1>3, <2>4, <2>5, <2>6, <2>7, <2>11 DEF Descriptors
  <2> QED
    BY <1>1, <1>2, <2>1, <2>12, TablesOnly
<1> QED
  BY <1>5, <1>6

-----------------------------------------------------------------------------
(* The application: stop(). *)

\* stop() has every socket still before it.
LEMMA StopBeginStep == ASSUME IInv, StopBegin  PROVE IInv'
<1>0. TypeOK /\ Locks /\ Indexes /\ Todo /\ Descriptors /\ Served
  BY DEF IInv, Control
<1>1. /\ ppc = "run" /\ pollLock = None /\ ppc' = "get" /\ pk' = Len(polls)
      /\ UNCHANGED <<table, lists, history, locks, isstop, avars, cur, fresh, todo>>
  BY DEF StopBegin
<1>2. /\ Len(polls) \in Nat /\ DOMAIN polls = 1 .. Len(polls)
      /\ \A p \in Polled : \E i \in DOMAIN polls : polls[i].sock = p
  BY <1>0, PollsTyped
<1>3. TypeOK'
  BY <1>0, <1>1, <1>2 DEF TypeOK, table, lists, history, locks, avars
<1>4. Control'
  BY <1>0, <1>1 DEF Control, Locks, Indexes, Todo, Polled, Replacing, table, lists, history, locks, avars
<1>5. Descriptors'
  BY <1>0, <1>1, DescriptorsSame DEF TypeOK, history
<1>6. Entries' /\ Lists'
  BY <1>1 DEF Entries, Lists, Stopping
<1>7. Served'
  BY <1>0, <1>1 DEF Served, Polled, table, lists, history, avars
<1>8. Closing'
  <2>1. ASSUME NEW p \in Ports  PROVE p \in lost \/ Below(polls, p, Len(polls))
    <3>1. ssock = None /\ todo = <<>>
      BY <1>0, <1>1, Names DEF Locks, Indexes, Todo, Replacing
    <3>2. p \in lost \/ p \in Polled
      BY <1>0, <3>1, Names DEF Served, Range
    <3> QED
      BY <1>2, <3>2 DEF Below
  <2> QED
    BY <1>1, <2>1 DEF Closing, Answered, lists, history
<1> QED
  BY <1>3, <1>4, <1>5, <1>6, <1>7, <1>8 DEF IInv

LEMMA StopGetStep == ASSUME IInv, StopGet  PROVE IInv'
<1>0. TypeOK /\ Locks /\ Indexes /\ Todo /\ Descriptors /\ Served /\ Closing
  BY DEF IInv, Control
<1>1. /\ ppc = "get" /\ pk > 0
      /\ \/ pk > Len(polls) /\ pk' = pk - 1 /\ UNCHANGED <<ppc, cur>>
         \/ pk <= Len(polls) /\ cur' = polls[pk].sock /\ ppc' = "close" /\ UNCHANGED pk
      /\ UNCHANGED <<table, lists, history, locks, isstop, avars, fresh, todo>>
  <2>1. Len(polls) \in Nat /\ pk \in Int
    BY <1>0, PollsTyped DEF TypeOK
  <2> QED
    BY <2>1 DEF StopGet
<1>2. /\ Len(polls) \in Nat /\ DOMAIN polls = 1 .. Len(polls) /\ pk \in Int
      /\ \A i \in DOMAIN polls : polls[i].sock \in Ports
  BY <1>0, PollsTyped DEF TypeOK
<1>3. ppc' = "close" => cur' \in Ports /\ cur' = polls[pk].sock /\ UNCHANGED pk
  BY <1>1, <1>2
<1>4. ppc' \in {"get", "close"}
  BY <1>1
<1>5. TypeOK'
  <2>1. cur' \in Ports \cup {None} /\ pk' \in Int
    BY <1>0, <1>1, <1>2 DEF TypeOK
  <2> QED
    BY <1>0, <1>1, <1>4, <2>1 DEF TypeOK, table, lists, history, locks, avars
<1>6. Control'
  BY <1>0, <1>1, <1>3, <1>4, Names DEF Control, Locks, Indexes, Todo, Polled, Replacing, table,
        lists, history, locks, avars
<1>7. Descriptors'
  BY <1>0, <1>1, <1>4, DescriptorsSame DEF TypeOK, history
<1>8. Entries' /\ Lists'
  BY <1>4 DEF Entries, Lists, Stopping
<1>9. Served'
  BY <1>0, <1>1 DEF Served, Polled, table, lists, history, avars
<1>10. Closing'
  <2>1. ASSUME NEW p \in Ports
        PROVE  \/ Answered(p)
               \/ ppc' = "close" /\ p = cur'
               \/ Below(polls, p, IF ppc' = "close" THEN pk' - 1 ELSE pk')
    <3>1. Answered(p) \/ Below(polls, p, pk)
      BY <1>0, <1>1 DEF Closing
    <3> SUFFICES ASSUME Below(polls, p, pk)
                 PROVE  \/ ppc' = "close" /\ p = cur'
                        \/ Below(polls, p, IF ppc' = "close" THEN pk' - 1 ELSE pk')
      BY <3>1
    <3>2. PICK j \in 1 .. Len(polls) : j <= pk /\ polls[j].sock = p
      BY DEF Below
    <3>3. CASE ppc' = "close"
      <4>1. CASE j = pk
        BY <1>3, <3>2, <3>3, <4>1
      <4>2. CASE j # pk
        <5>1. j <= pk' - 1
          BY <1>2, <1>3, <3>2, <3>3, <4>2
        <5> QED
          BY <3>2, <3>3, <5>1 DEF Below
      <4> QED
        BY <4>1, <4>2
    <3>4. CASE ppc' # "close"
      <4>1. j <= pk'
        BY <1>1, <1>2, <3>2, <3>4
      <4> QED
        BY <3>2, <3>4, <4>1 DEF Below
    <3> QED
      BY <3>3, <3>4
  <2> QED
    BY <1>1, <1>4, <2>1 DEF Closing, Answered, lists, history, table
<1> QED
  BY <1>5, <1>6, <1>7, <1>8, <1>9, <1>10 DEF IInv

LEMMA StopCloseStep == ASSUME IInv, StopClose  PROVE IInv'
<1>0. TypeOK /\ Locks /\ Indexes /\ Todo /\ Descriptors /\ Served /\ Closing
  BY DEF IInv, Control
<1>1. /\ ppc = "close" /\ ppc' = "get" /\ pk' = pk - 1 /\ cur' = None
      /\ fds' = Closed(fds, handle[cur]) /\ handle' = [handle EXCEPT ![cur] = 0]
      /\ reopened' = reopened \ {cur}
      /\ UNCHANGED <<port, start, file, files, clash, lists, lost, replaced, locks, isstop, avars,
                     fresh, todo>>
  BY DEF StopClose
<1>2. cur \in Ports /\ pk \in Int
  BY <1>0, <1>1, Names DEF Todo, TypeOK
<1>3. /\ fds \in [Numbers -> Ports \cup {None, AnyPort, File}]
      /\ handle \in [Ports -> Numbers \cup {0}]
  BY <1>0 DEF TypeOK
<1>4. \A q \in Ports : handle'[q] = IF q = cur THEN 0 ELSE handle[q]
  BY <1>1, <1>3
<1>5. TypeOK'
  <2>1. fds' \in [Numbers -> Ports \cup {None, AnyPort, File}] /\ handle' \in [Ports -> Numbers \cup {0}]
    BY <1>1, <1>2, <1>3 DEF Closed
  <2>2. pk' \in Int /\ reopened' \subseteq Ports
    BY <1>0, <1>1, <1>2 DEF TypeOK
  <2> QED
    BY <1>0, <1>1, <2>1, <2>2 DEF TypeOK, lists, locks, avars
<1>6. Control'
  BY <1>0, <1>1 DEF Control, Locks, Indexes, Todo, Polled, Replacing, lists, locks, avars
<1>7. Descriptors'
  BY <1>0, <1>1, <1>2, DescriptorsClosed
<1>8. Entries' /\ Lists'
  BY <1>1 DEF Entries, Lists, Stopping
<1>9. Served'
  BY <1>0, <1>1 DEF Served, Polled, lists, avars
<1>10. Closing'
  <2>1. \A p \in Ports : Answered(p) \/ p = cur \/ Below(polls, p, pk - 1)
    BY <1>0, <1>1 DEF Closing
  <2>2. \A p \in Ports : handle'[p] = 0 \/ p \in reopened' \cup lost \/ Below(polls, p, pk - 1)
    BY <1>1, <1>4, <2>1 DEF Answered
  <2> QED
    BY <1>1, <2>2 DEF Closing, Answered, lists
<1> QED
  BY <1>5, <1>6, <1>7, <1>8, <1>9, <1>10 DEF IInv

\* No socket is left to close: every one that is open is a repaired or a lost one.
LEMMA StopFlagStep == ASSUME IInv, StopFlag \/ Join  PROVE IInv'
<1>0. TypeOK /\ Locks /\ Indexes /\ Todo /\ Descriptors /\ Served /\ Closing
  BY DEF IInv, Control
<1>1. /\ \/ ppc = "get" /\ pk <= 0 /\ ppc' = "join" /\ pk' = 0 /\ isstop' = TRUE
         \/ ppc = "join" /\ ppc' = "done" /\ UNCHANGED <<pk, isstop>>
      /\ UNCHANGED <<table, lists, history, locks, avars, cur, fresh, todo>>
  BY DEF StopFlag, Join
<1>2. ppc \in {"get", "join"} /\ ppc' \in {"join", "done"}
  BY <1>1
<1>3. TypeOK'
  <2>1. pk' \in Int
    BY <1>0, <1>1 DEF TypeOK
  <2>2. isstop' \in BOOLEAN
    <3>1. isstop \in BOOLEAN
      BY <1>0 DEF TypeOK
    <3> QED
      BY <1>1, <3>1
  <2> QED
    BY <1>0, <1>1, <1>2, <2>1, <2>2 DEF TypeOK, table, lists, history, locks, avars
<1>4. Control'
  BY <1>0, <1>1, <1>2 DEF Control, Locks, Indexes, Todo, Polled, Replacing, table, lists, history,
        locks, avars
<1>5. Descriptors'
  BY <1>0, <1>1, <1>2, DescriptorsSame DEF TypeOK, history
<1>6. Entries' /\ Lists'
  BY <1>2 DEF Entries, Lists, Stopping
<1>7. Served'
  BY <1>0, <1>1 DEF Served, Polled, table, lists, history, avars
<1>8. Closing'
  <2>1. pk \in Int /\ Len(polls) \in Nat
    BY <1>0, PollsTyped DEF TypeOK
  <2>2. ASSUME NEW p \in Ports  PROVE Answered(p)
    <3>1. CASE ppc = "join"
      BY <1>0, <3>1 DEF Closing
    <3>2. CASE ppc = "get" /\ pk <= 0
      <4>1. Answered(p) \/ Below(polls, p, pk)
        BY <1>0, <3>2 DEF Closing
      <4>2. ~Below(polls, p, pk)
        BY <2>1, <3>2 DEF Below
      <4> QED
        BY <4>1, <4>2
    <3> QED
      BY <1>1, <3>1, <3>2
  <2> QED
    BY <1>1, <1>2, <2>2 DEF Closing, Answered, table, history
<1> QED
  BY <1>3, <1>4, <1>5, <1>6, <1>7, <1>8 DEF IInv

-----------------------------------------------------------------------------
(* The application: the sockets are replaced. *)

LEMMA NotStopping == ASSUME ppc' \notin Stopping  PROVE Closing'
  BY DEF Stopping, Closing

\* clearServerSockets() takes its first lock; the replacement ends before a host.
LEMMA ReplaceSteps == ASSUME IInv, ClearThis \/ HostsEnd \/ AppendRefused  PROVE IInv'
<1>0. TypeOK /\ Locks /\ Indexes /\ Todo /\ Descriptors /\ Entries /\ Served /\ Lists
  BY DEF IInv, Control
<1>1. /\ \/ /\ ppc = "run" /\ thisLock = None /\ thisLock' = "app" /\ ppc' = "clear"
            /\ UNCHANGED <<todo, lost, cur>> /\ replaced < MaxReplaced
         \/ /\ ppc = "host" /\ ppc' = "run" /\ UNCHANGED <<thisLock, cur>>
            /\ todo' = <<>> /\ lost' = lost \cup Range(todo)
         \/ /\ ppc = "append" /\ ppc' = "run" /\ thisLock = None /\ UNCHANGED thisLock
            /\ todo' = <<>> /\ lost' = lost \cup Range(todo) /\ cur' = None
      /\ UNCHANGED <<table, lists, reopened, replaced, pollLock, isstop, avars, pk, fresh>>
  BY DEF ClearThis, HostsEnd, AppendRefused, history, locks
<1>2. /\ ppc \in {"run", "host", "append"} /\ ppc' \in {"run", "clear"}
      /\ todo = <<>> \/ todo' = <<>>
      /\ Range(todo') \subseteq Range(todo)
      /\ todo' \in Seq(Ports) /\ IsInjective(todo')
      /\ Range(todo) \subseteq Ports /\ lost' \subseteq Ports
      /\ \A p \in Ports : p \in lost' \/ (p \notin lost /\ (p \in Range(todo) => p \in Range(todo')))
  <2>1. todo \in Seq(Ports) /\ Range(todo) \subseteq Ports /\ lost \subseteq Ports
    BY <1>0 DEF TypeOK, Range
  <2>2. Range(<<>>) = {} /\ IsInjective(<<>>) /\ <<>> \in Seq(Ports)
    BY DEF Range, IsInjective
  <2> QED
    BY <1>0, <1>1, <2>1, <2>2 DEF Todo, Replacing
<1>3. TypeOK'
  <2>1. thisLock' \in {None, "app"} /\ cur' \in Ports \cup {None}
    BY <1>0, <1>1 DEF TypeOK
  <2> QED
    BY <1>0, <1>1, <1>2, <2>1 DEF TypeOK, table, lists, avars
<1>4. Control'
  <2>1. Locks' /\ Indexes'
    BY <1>0, <1>1, Names DEF Locks, Indexes, Polled, lists, avars
  <2>2. todo' = <<>>
    BY <1>0, <1>1 DEF Todo, Replacing
  <2>3. Todo'
    BY <1>0, <1>1, <1>2, <2>2 DEF Todo, Replacing, Polled, lists, avars
  <2> QED
    BY <2>1, <2>3 DEF Control
<1>5. Descriptors'
  BY <1>0, <1>1, <1>2, DescriptorsSame DEF TypeOK
<1>6. Entries'
  BY <1>0, <1>1, <1>2 DEF Entries, Stopping, table, lists, avars
<1>7. Served'
  BY <1>0, <1>1, <1>2 DEF Served, Polled, table, lists, avars
<1>8. Lists'
  BY <1>0, <1>1, <1>2 DEF Lists, Stopping, Polled, table, lists
<1>9. Closing'
  BY <1>2, NotStopping DEF Stopping
<1> QED
  BY <1>3, <1>4, <1>5, <1>6, <1>7, <1>8, <1>9 DEF IInv

\* Every socket is closed and off both lists; no pass is under way.
LEMMA ClearStep == ASSUME IInv, Clear  PROVE IInv'
<1>0. TypeOK /\ Locks /\ Indexes /\ Todo /\ Descriptors /\ Entries /\ Served /\ Lists
  BY DEF IInv, Control
<1>1. /\ ppc = "clear" /\ pollLock = None /\ ppc' = "host" /\ thisLock' = None
      /\ fds' = [n \in Numbers |->
                   IF \E i \in DOMAIN polls : polls[i].fd = n THEN None ELSE fds[n]]
      /\ polls' = <<>> /\ listed' = [p \in Ports |-> 0] /\ sorted' = TRUE
      /\ replaced' = replaced + 1 /\ todo' = Hosts
      /\ UNCHANGED <<handle, port, start, file, files, clash, lost, reopened, pollLock, isstop,
                     avars, pk, cur, fresh>>
  BY DEF Clear
<1> USE DEF avars
<1>2. /\ replaced < MaxReplaced /\ replaced \in Nat /\ MaxReplaced \in Nat
      /\ ssock = None /\ apc \notin {"poll", "check", "visit", "repair"}
  BY <1>0, <1>1, Names, Amounts DEF Locks, Indexes, Todo, TypeOK
<1>3. /\ polls' \in Seq(EntryType) /\ DOMAIN polls' = {} /\ Len(polls') = 0 /\ Polled' = {}
      /\ Hosts \in Seq(Ports) /\ IsInjective(Hosts) /\ Range(Hosts) = Ports
  BY <1>1, Amounts DEF Polled
<1>4. /\ fds \in [Numbers -> Ports \cup {None, AnyPort, File}]
      /\ handle \in [Ports -> Numbers \cup {0}]
      /\ file \in Numbers \cup {0} /\ clash \in BOOLEAN
      /\ \A n \in Numbers :
            fds'[n] = IF \E i \in DOMAIN polls : polls[i].fd = n THEN None ELSE fds[n]
      /\ fds' \in [Numbers -> Ports \cup {None, AnyPort, File}]
  BY <1>0, <1>1 DEF TypeOK
<1>5. TypeOK'
  <2>1. polls' \in Seq([sock : Ports, fd : Numbers \cup {0}, event : {"ok", "err"}])
    BY <1>3 DEF EntryType
  <2>2. listed' \in [Ports -> 0..2] /\ replaced' \in 0..MaxReplaced
    BY <1>1, <1>2
  <2> QED
    BY <1>0, <1>1, <1>3, <1>4, <2>1, <2>2 DEF TypeOK
<1>6. Control'
  <2>1. Locks' /\ Indexes'
    BY <1>0, <1>1, <1>2, Names DEF Locks, Indexes
  <2>2. Todo'
    BY <1>0, <1>1, <1>2, <1>3, Names DEF Todo, Replacing
  <2> QED
    BY <2>1, <2>2 DEF Control
<1>7. Descriptors'
  <2>1. \A q \in Ports : Own(q)' = Own(q)
    BY <1>1 DEF Own
  <2>2. NamedByItsPort'
    BY <1>0, <1>1, <1>4, Names DEF Descriptors, NamedByItsPort
  <2>3. HandlesOwn'
    BY <1>0, <1>1, <1>4, <2>1 DEF Descriptors, HandlesOwn
  <2>4. ~clash /\ file # 0 => fds'[file] = File
    <3> SUFFICES ASSUME ~clash, file # 0  PROVE fds'[file] = File
      OBVIOUS
    <3>1. fds[file] = File /\ \A q \in Ports : handle[q] # file
      BY <1>0 DEF Descriptors, Apart
    <3>2. \A i \in DOMAIN polls : polls[i].fd = handle[polls[i].sock] /\ polls[i].sock \in Ports
      BY <1>0, <1>1, PollsTyped DEF Entries, Stopping
    <3> QED
      BY <1>4, <3>1, <3>2
  <2>5. Apart'
    BY <1>0, <1>1, <2>4 DEF Descriptors, Apart, InHand
  <2>6. Unreplaced' /\ ClashAfterReplacement'
    <3>1. replaced' > 0 /\ replaced' # 0
      BY <1>1, <1>2
    <3> QED
      BY <3>1 DEF Unreplaced, ClashAfterReplacement
  <2> QED
    BY <1>0, <1>1, <2>2, <2>3, <2>5, <2>6 DEF Descriptors
<1>8. Entries' /\ Lists'
  BY <1>1, <1>2, <1>3 DEF Entries, Lists
<1>9. Served'
  BY <1>0, <1>1, <1>3 DEF Served
<1>10. Closing'
  BY <1>1, NotStopping DEF Stopping
<1> QED
  BY <1>5, <1>6, <1>7, <1>8, <1>9, <1>10 DEF IInv

\* A new descriptor, which the kernel gives out.
LEMMA HostStep == ASSUME IInv, Host  PROVE IInv'
<1>0. TypeOK /\ Locks /\ Indexes /\ Todo /\ Descriptors /\ Entries /\ Served /\ Lists
  BY DEF IInv, Control
<1>1. /\ ppc = "host" /\ todo # <<>> /\ ppc' = "assign" /\ cur' = Head(todo)
      /\ UNCHANGED <<handle, port, start, file, files, lists, history, locks, isstop, avars, pk, todo>>
  BY DEF Host
<1> DEFINE own == IF port[cur'] THEN cur' ELSE AnyPort
<1>2. PICK n \in Numbers :
        fds[n] = None /\ fds' = [fds EXCEPT ![n] = own] /\ fresh' = n /\ clash' = Clashes(n, cur')
  BY DEF Host, Lowest
<1>3. cur' \in Ports
  BY <1>0, <1>1, TailKeeps DEF Todo, TypeOK
<1>4. /\ fds \in [Numbers -> Ports \cup {None, AnyPort, File}]
      /\ handle \in [Ports -> Numbers \cup {0}]
      /\ file \in Numbers \cup {0} /\ clash \in BOOLEAN /\ 0 \notin Numbers
      /\ \A m \in Numbers : fds'[m] = IF m = n THEN own ELSE fds[m]
      /\ own \in {cur', AnyPort}
      /\ fds' \in [Numbers -> Ports \cup {None, AnyPort, File}]
      /\ ~clash' => ~clash /\ \A q \in Ports \ {cur'} : handle[q] # n
      /\ clash' \in BOOLEAN
  BY <1>0, <1>2, <1>3, Amounts DEF TypeOK, Clashes
<1>5. own = IF port'[cur'] THEN cur' ELSE AnyPort
  BY <1>1
<1> HIDE DEF own
<1>6. TypeOK'
  BY <1>0, <1>1, <1>2, <1>3, <1>4 DEF TypeOK, lists, history, locks, avars
<1>7. Control'
  <2>1. Locks' /\ Indexes'
    BY <1>0, <1>1 DEF Locks, Indexes, Polled, lists, locks, avars
  <2>2. Todo'
    BY <1>0, <1>1, <1>2, <1>3, <1>4, Names DEF Todo, Replacing, Polled, lists, avars, history
  <2> QED
    BY <2>1, <2>2 DEF Control
<1>8. Descriptors'
  <2>1. \A q \in Ports : Own(q)' = Own(q)
    BY <1>1 DEF Own
  <2>2. NamedByItsPort'
    <3> SUFFICES ASSUME NEW m \in Numbers, fds'[m] \in Ports
                 PROVE  handle[fds'[m]] = m \/ (cur' = fds'[m] /\ fresh' = m)
      BY <1>1 DEF NamedByItsPort
    <3>1. CASE m = n
      BY <1>2, <1>4, <3>1, Names
    <3>2. CASE m # n
      BY <1>0, <1>1, <1>4, <3>2 DEF Descriptors, NamedByItsPort
    <3> QED
      BY <3>1, <3>2
  <2>3. HandlesOwn'
    <3> SUFFICES ASSUME ~clash', NEW q \in Ports, handle[q] # 0, q # cur'
                 PROVE  fds'[handle[q]] \in {None, Own(q)}
      BY <1>1, <2>1 DEF HandlesOwn
    <3>1. fds[handle[q]] \in {None, Own(q)}
      BY <1>0, <1>1, <1>4 DEF Descriptors, HandlesOwn
    <3>2. handle[q] # n /\ handle[q] \in Numbers
      BY <1>4
    <3> QED
      BY <1>4, <3>1, <3>2
  <2>4. ASSUME ~clash'  PROVE Apart'
    <3>1. /\ \A q, r \in Ports : handle[q] = handle[r] /\ handle[q] # 0 => q = r
          /\ file # 0 => fds[file] = File /\ \A q \in Ports : handle[q] # file
      BY <1>0, <1>4, <2>4 DEF Descriptors, Apart
    <3>2. file # 0 => fds'[file] = File
      BY <1>2, <1>4, <3>1, Names
    <3>3. handle[cur'] # n /\ handle[cur'] # 0 => fds'[handle[cur']] \in {None, Own(cur')}
      <4> SUFFICES ASSUME handle[cur'] # n, handle[cur'] # 0
                   PROVE  fds'[handle[cur']] \in {None, Own(cur')}
        OBVIOUS
      <4>1. fds[handle[cur']] \in {None, Own(cur')}
        BY <1>0, <1>1, <1>3, <1>4, <2>4 DEF Descriptors, HandlesOwn
      <4>2. handle[cur'] \in Numbers
        BY <1>3, <1>4
      <4> QED
        BY <1>4, <4>1, <4>2
    <3>4. InHand'
      <4>1. fds'[fresh'] = IF port'[cur'] THEN cur' ELSE AnyPort
        BY <1>2, <1>4, <1>5
      <4>2. \A q \in Ports \ {cur'} : handle'[q] # fresh'
        BY <1>1, <1>2, <1>4, <2>4
      <4>3. Own(cur)' = IF start[cur'] THEN cur' ELSE AnyPort
        BY <1>1 DEF Own
      <4>4. handle'[cur'] # fresh' /\ handle'[cur'] # 0 => fds'[handle'[cur']] \in {None, Own(cur)'}
        BY <1>1, <1>2, <3>3, <4>3 DEF Own
      <4> QED
        BY <4>1, <4>2, <4>4 DEF InHand
    <3> QED
      BY <1>1, <3>1, <3>2, <3>4 DEF Apart
  <2>5. Unreplaced' /\ ClashAfterReplacement'
    <3>1. replaced > 0 /\ replaced # 0 /\ replaced' = replaced
      BY <1>0, <1>1 DEF Todo, Replacing, history
    <3> QED
      BY <3>1 DEF Unreplaced, ClashAfterReplacement
  <2>6. Apart' \/ ~clash'
    BY DEF Apart
  <2> QED
    BY <1>0, <1>1, <2>2, <2>3, <2>4, <2>5, <2>6 DEF Descriptors
<1>9. Entries'
  BY <1>0, <1>1 DEF Entries, Stopping, lists, avars
<1>10. Served'
  BY <1>0, <1>1 DEF Served, Polled, lists, avars, history
<1>11. Lists'
  BY <1>0, <1>1, <1>4 DEF Lists, Stopping, Polled, lists
<1>12. Closing'
  BY <1>1, NotStopping DEF Stopping
<1> QED
  BY <1>6, <1>7, <1>8, <1>9, <1>10, <1>11, <1>12 DEF IInv

\* The new socket is in its place; the destructor of the old one closed what that named.
LEMMA AssignStep == ASSUME IInv, Assign  PROVE IInv'
<1>0. TypeOK /\ Locks /\ Indexes /\ Todo /\ Descriptors /\ Entries /\ Served /\ Lists
  BY DEF IInv, Control
<1>1. /\ ppc = "assign" /\ ppc' = "append" /\ fresh' = 0
      /\ fds' = Closed(fds, handle[cur]) /\ handle' = [handle EXCEPT ![cur] = fresh]
      /\ start' = [start EXCEPT ![cur] = port[cur]]
      /\ UNCHANGED <<port, file, files, clash, lists, history, locks, isstop, avars, pk, cur, todo>>
  BY DEF Assign
<1>2. /\ cur \in Ports /\ cur \notin Polled /\ cur # ssock /\ cur # None
      /\ fresh \in Numbers /\ fresh # 0
  BY <1>0, <1>1, CurIsNext DEF Todo, TypeOK
<1> DEFINE h == handle[cur]
<1>3. /\ fds \in [Numbers -> Ports \cup {None, AnyPort, File}]
      /\ handle \in [Ports -> Numbers \cup {0}]
      /\ port \in [Ports -> BOOLEAN] /\ start \in [Ports -> BOOLEAN]
      /\ file \in Numbers \cup {0} /\ clash \in BOOLEAN /\ 0 \notin Numbers
  BY <1>0, Amounts DEF TypeOK
<1>4. /\ \A m \in Numbers : fds'[m] = IF m = h THEN None ELSE fds[m]
      /\ \A q \in Ports : handle'[q] = IF q = cur THEN fresh ELSE handle[q]
      /\ \A q \in Ports : start'[q] = IF q = cur THEN port[cur] ELSE start[q]
      /\ fds' \in [Numbers -> Ports \cup {None, AnyPort, File}]
      /\ handle' \in [Ports -> Numbers \cup {0}] /\ start' \in [Ports -> BOOLEAN]
      /\ h \in Numbers \cup {0}
  BY <1>1, <1>2, <1>3 DEF Closed
<1>5. TypeOK'
  BY <1>0, <1>1, <1>4 DEF TypeOK, lists, history, locks, avars
<1>6. Control'
  <2>1. Locks' /\ Indexes'
    BY <1>0, <1>1 DEF Locks, Indexes, Polled, lists, locks, avars
  <2>2. Todo'
    BY <1>0, <1>1 DEF Todo, Replacing, Polled, lists, avars, history
  <2> QED
    BY <2>1, <2>2 DEF Control
<1> HIDE DEF h
<1>7. h = handle[cur]
  BY DEF h
<1>8. Descriptors'
  <2>1. /\ \A q \in Ports \ {cur} : Own(q)' = Own(q)
        /\ Own(cur)' = IF port[cur] THEN cur ELSE AnyPort
    <3>1. \A q \in Ports : Own(q)' = IF start'[q] THEN q ELSE AnyPort
      BY DEF Own
    <3>2. Own(cur)' = IF start'[cur'] THEN cur' ELSE AnyPort
      BY DEF Own
    <3> QED
      BY <1>1, <1>2, <1>4, <3>1, <3>2 DEF Own
  <2>2. NamedByItsPort'
    <3> SUFFICES ASSUME NEW m \in Numbers, fds'[m] \in Ports  PROVE handle'[fds'[m]] = m
      BY DEF NamedByItsPort
    <3>1. m # h /\ fds'[m] = fds[m]
      BY <1>4, Names
    <3>2. handle[fds[m]] = m \/ (cur = fds[m] /\ fresh = m)
      BY <1>0, <3>1 DEF Descriptors, NamedByItsPort
    <3> QED
      BY <1>4, <1>7, <3>1, <3>2
  <2>3. ASSUME ~clash
        PROVE  /\ \A q, r \in Ports : handle[q] = handle[r] /\ handle[q] # 0 => q = r
               /\ file # 0 => fds[file] = File /\ \A q \in Ports : handle[q] # file
               /\ fds[fresh] = IF port[cur] THEN cur ELSE AnyPort
               /\ \A q \in Ports \ {cur} : handle[q] # fresh
    BY <1>0, <1>1, <2>3 DEF Descriptors, Apart, InHand
  <2>4. HandlesOwn'
    <3> SUFFICES ASSUME ~clash, NEW q \in Ports, handle'[q] # 0
                 PROVE  fds'[handle'[q]] \in {None, IF start'[q] THEN q ELSE AnyPort}
      BY <1>1 DEF HandlesOwn, Own
    <3>1. CASE q = cur
      BY <1>2, <1>4, <2>3, <3>1
    <3>2. CASE q # cur
      <4>1. fds[handle[q]] \in {None, IF start[q] THEN q ELSE AnyPort} /\ handle[q] \in Numbers
        BY <1>0, <1>1, <1>3, <1>4, <3>2 DEF Descriptors, HandlesOwn, Own
      <4> QED
        BY <1>4, <3>2, <4>1
    <3> QED
      BY <3>1, <3>2
  <2>5. Apart'
    <3> SUFFICES ASSUME ~clash
                 PROVE  /\ \A q, r \in Ports : handle'[q] = handle'[r] /\ handle'[q] # 0 => q = r
                        /\ file # 0 => fds'[file] = File /\ \A q \in Ports : handle'[q] # file
      BY <1>1 DEF Apart, InHand
    <3>1. \A q, r \in Ports : handle'[q] = handle'[r] /\ handle'[q] # 0 => q = r
      BY <1>4, <2>3
    <3>2. file # 0 => file # h /\ file # fresh
      BY <1>2, <1>7, <2>3, Names
    <3> QED
      BY <1>3, <1>4, <2>3, <3>1, <3>2
  <2>6. Unreplaced' /\ ClashAfterReplacement'
    <3>1. replaced > 0 /\ replaced # 0 /\ replaced' = replaced
      BY <1>0, <1>1 DEF Todo, Replacing, history
    <3> QED
      BY <3>1 DEF Unreplaced, ClashAfterReplacement
  <2>7. \A q \in Ports : port[q] => start'[q]
    BY <1>0, <1>4 DEF Descriptors
  <2> QED
    BY <1>1, <2>2, <2>4, <2>5, <2>6, <2>7 DEF Descriptors
<1>9. Entries'
  <2>1. /\ \A i \in DOMAIN polls : polls[i].fd = handle[polls[i].sock] /\ polls[i].fd # 0
        /\ \A i \in DOMAIN polls : polls[i].sock \in Ports /\ polls[i].sock # cur
        /\ ssock # None => handle[ssock] # 0
    BY <1>0, <1>1, <1>2, PollsTyped DEF Entries, Stopping
  <2>2. \A i \in DOMAIN polls : polls[i].fd = handle'[polls[i].sock]
    BY <1>4, <2>1
  <2>3. ssock # None => handle'[ssock] # 0
    <3>1. ssock \in Ports \cup {None}
      BY <1>0 DEF TypeOK
    <3> QED
      BY <1>2, <1>4, <2>1, <3>1
  <2>4. handle'[cur] # 0
    BY <1>2, <1>4
  <2> QED
    BY <1>1, <2>1, <2>2, <2>3, <2>4 DEF Entries, lists, avars
<1>10. Served'
  BY <1>0, <1>1 DEF Served, Polled, lists, avars, history
<1>11. Lists'
  BY <1>0, <1>1 DEF Lists, Stopping, Polled, lists
<1>12. Closing'
  BY <1>1, NotStopping DEF Stopping
<1> QED
  BY <1>5, <1>6, <1>8, <1>9, <1>10, <1>11, <1>12 DEF IInv

\* appendServerSocket(): no socket on m_aSockList has the same number.
LEMMA AppendThisStep == ASSUME IInv, AppendThis  PROVE IInv'
<1>0. TypeOK /\ Locks /\ Indexes /\ Todo /\ Descriptors /\ Entries /\ Served /\ Lists
  BY DEF IInv, Control
<1>1. /\ ppc = "append" /\ thisLock' = "app" /\ ppc' = "appended" /\ listed' = Listed(cur)
      /\ UNCHANGED <<table, polls, sorted, history, pollLock, isstop, avars, pk, cur, fresh, todo>>
  BY DEF AppendThis
<1>2. cur \in Ports /\ cur \notin Polled
  BY <1>0, <1>1, CurIsNext
<1>3. /\ listed \in [Ports -> 0..2]
      /\ \A q \in Ports : listed'[q] =
            IF q = cur THEN (IF listed[cur] = 2 THEN 2 ELSE listed[cur] + 1) ELSE listed[q]
      /\ listed' \in [Ports -> 0..2]
  BY <1>0, <1>1, <1>2 DEF Listed, TypeOK
<1>4. TypeOK'
  BY <1>0, <1>1, <1>3 DEF TypeOK, table, history, avars
<1>5. Control'
  <2>1. Locks' /\ Indexes'
    BY <1>0, <1>1 DEF Locks, Indexes, Polled, avars
  <2>2. Todo'
    BY <1>0, <1>1 DEF Todo, Replacing, Polled, avars, history
  <2> QED
    BY <2>1, <2>2 DEF Control
<1>6. Descriptors'
  BY <1>0, <1>1, DescriptorsSame DEF TypeOK, history
<1>7. Entries'
  BY <1>0, <1>1 DEF Entries, Stopping, table, avars
<1>8. Served'
  BY <1>0, <1>1 DEF Served, Polled, table, avars, history
<1>9. Lists'
  BY <1>0, <1>1, <1>2, <1>3 DEF Lists, Stopping, Polled, table
<1>10. Closing'
  BY <1>1, NotStopping DEF Stopping
<1> QED
  BY <1>4, <1>5, <1>6, <1>7, <1>8, <1>9, <1>10 DEF IInv

\* The socket that is on m_aSockList gets onto m_poll, and its port is served.
LEMMA AppendPollStep == ASSUME IInv, AppendPoll  PROVE IInv'
<1>0. TypeOK /\ Locks /\ Indexes /\ Todo /\ Descriptors /\ Entries /\ Served /\ Lists
  BY DEF IInv, Control
<1>1. /\ ppc = "appended" /\ pollLock = None /\ thisLock' = None /\ ppc' = "host" /\ cur' = None
      /\ polls' = Append(polls, Entry(cur, handle[cur])) /\ todo' = Tail(todo)
      /\ lost' = IF port[cur] THEN lost \ {cur} ELSE lost
      /\ UNCHANGED <<table, listed, sorted, reopened, replaced, pollLock, isstop, avars, pk, fresh>>
  BY DEF AppendPoll
<1>2. /\ cur \in Ports /\ cur \in Range(todo) /\ cur \notin Polled /\ cur # ssock
      /\ Range(todo) = Range(Tail(todo)) \cup {cur} /\ cur \notin Range(Tail(todo))
      /\ Tail(todo) \in Seq(Ports) /\ IsInjective(Tail(todo))
  BY <1>0, <1>1, CurIsNext
<1>3. /\ Entry(cur, handle[cur]) \in EntryType
      /\ Entry(cur, handle[cur]).sock = cur /\ Entry(cur, handle[cur]).fd = handle[cur]
      /\ handle[cur] # 0
  BY <1>0, <1>1, <1>2 DEF TypeOK, Entry, EntryType, Entries, Stopping
<1>4. /\ polls' \in Seq(EntryType) /\ Len(polls') = Len(polls) + 1 /\ Different(polls')
      /\ Polled' = Polled \cup {cur}
      /\ \A i \in DOMAIN polls' : \/ i \in DOMAIN polls /\ polls'[i] = polls[i]
                                  \/ polls'[i] = Entry(cur, handle[cur])
  <2>1. polls \in Seq(EntryType) /\ Different(polls) /\ Socks(polls) = Polled
    BY <1>0, PollsTyped
  <2>2. /\ polls' \in Seq(EntryType) /\ Len(polls') = Len(polls) + 1 /\ Different(polls')
        /\ Socks(polls') = Socks(polls) \cup {cur}
        /\ DOMAIN polls' = 1 .. Len(polls) + 1 /\ DOMAIN polls = 1 .. Len(polls)
        /\ \A j \in 1 .. Len(polls) + 1 :
              polls'[j] = IF j \in 1 .. Len(polls) THEN polls[j] ELSE Entry(cur, handle[cur])
    BY <1>1, <1>2, <1>3, <2>1, AppendKeeps
  <2>3. Socks(polls') = Polled'
    BY DEF Socks, Polled
  <2> QED
    BY <2>1, <2>2, <2>3
<1>5. /\ apc \notin {"poll", "check", "visit", "repair"} /\ ssock = None
      /\ lost' \subseteq Ports /\ port[cur] => cur \notin lost'
  <2>1. lost \subseteq Ports
    BY <1>0 DEF TypeOK
  <2> QED
    BY <1>0, <1>1, <2>1, Names DEF Locks, Indexes
<1>6. TypeOK'
  <2>1. \A i, j \in DOMAIN polls' : polls'[i].sock = polls'[j].sock => i = j
    BY <1>4 DEF Different
  <2>2. polls' \in Seq([sock : Ports, fd : Numbers \cup {0}, event : {"ok", "err"}])
    BY <1>4 DEF EntryType
  <2> QED
    BY <1>0, <1>1, <1>2, <1>5, <2>1, <2>2 DEF TypeOK, table, avars
<1>7. Control'
  <2>1. Locks' /\ Indexes'
    BY <1>0, <1>1, <1>5, Names DEF Locks, Indexes, avars
  <2>2. Todo'
    BY <1>0, <1>1, <1>2, <1>4 DEF Todo, Replacing, avars
  <2> QED
    BY <2>1, <2>2 DEF Control
<1>8. Descriptors'
  BY <1>0, <1>1, DescriptorsSame DEF TypeOK
<1>9. Entries'
  <2>1. \A i \in DOMAIN polls : polls[i].fd = handle[polls[i].sock] /\ polls[i].fd # 0
    BY <1>0, <1>1 DEF Entries, Stopping
  <2>2. \A i \in DOMAIN polls' : polls'[i].fd = handle[polls'[i].sock] /\ polls'[i].fd # 0
    BY <1>3, <1>4, <2>1
  <2> QED
    BY <1>1, <1>5, <2>2 DEF Entries, table, avars
<1>10. Served'
  <2>1. \A p \in Ports \ lost : (p \in Polled \/ p \in Range(todo)) /\ port[p]
    BY <1>0, <1>5, Names DEF Served
  <2>2. \A p \in Ports \ lost' : p \notin lost \/ (p = cur /\ port[cur])
    BY <1>1
  <2> QED
    BY <1>1, <1>2, <1>4, <2>1, <2>2 DEF Served, table
<1>11. Lists'
  BY <1>0, <1>1, <1>2, <1>4 DEF Lists, Stopping, table
<1>12. Closing'
  BY <1>1, NotStopping DEF Stopping
<1> QED
  BY <1>6, <1>7, <1>8, <1>9, <1>10, <1>11, <1>12 DEF IInv

\* ... or off m_aSockList again; the hosts that are left are lost.
LEMMA AppendFailsStep == ASSUME IInv, AppendFails  PROVE IInv'
<1>0. TypeOK /\ Locks /\ Indexes /\ Todo /\ Descriptors /\ Entries /\ Served /\ Lists
  BY DEF IInv, Control
<1>1. /\ ppc = "appended" /\ listed' \in Unlisted(cur) /\ thisLock' = None /\ ppc' = "run"
      /\ cur' = None /\ lost' = lost \cup Range(todo) /\ todo' = <<>>
      /\ UNCHANGED <<table, polls, sorted, reopened, replaced, pollLock, isstop, avars, pk, fresh>>
  BY DEF AppendFails
<1>2. cur \in Ports /\ cur \notin Polled
  BY <1>0, <1>1, CurIsNext
<1>3. /\ Range(<<>>) = {} /\ IsInjective(<<>>) /\ <<>> \in Seq(Ports)
      /\ Range(todo) \subseteq Ports /\ lost' \subseteq Ports
  <2>1. todo \in Seq(Ports) /\ lost \subseteq Ports
    BY <1>0 DEF TypeOK
  <2>2. Range(todo) \subseteq Ports
    BY <2>1 DEF Range
  <2> QED
    BY <1>1, <2>1, <2>2 DEF Range, IsInjective
<1>4. listed \in [Ports -> 0..2]
  BY <1>0 DEF TypeOK
<1>5. listed' \in [Ports -> 0..2]
  <2>1. listed' = listed \/ \E x \in Found(cur) \X (0..2) : listed' = [listed EXCEPT ![x[1]] = x[2]]
    BY <1>1 DEF Unlisted
  <2>2. Found(cur) \subseteq Ports
    BY DEF Found
  <2> QED
    BY <1>4, <2>1, <2>2
<1>6. ASSUME ~clash
      PROVE  sorted /\ \A q \in Ports : listed'[q] = IF q \in Polled THEN 1 ELSE 0
  <2>1. /\ sorted
        /\ \A q \in Ports : listed[q] = IF q \in Polled \/ cur = q THEN 1 ELSE 0
        /\ handle[cur] # 0
        /\ \A q, r \in Ports : handle[q] = handle[r] /\ handle[q] # 0 => q = r
    BY <1>0, <1>1, <1>6 DEF Lists, Entries, Stopping, Descriptors, Apart
  <2>2. Found(cur) = {cur} /\ listed[cur] = 1
    BY <1>2, <2>1 DEF Found
  <2>3. PICK x \in Found(cur) \X (0..2) : Less(listed[x[1]], x[2]) /\ listed' = [listed EXCEPT ![x[1]] = x[2]]
    BY <1>1, <2>1, <2>2 DEF Unlisted
  <2>4. x[1] = cur /\ x[2] \in 0..2
    BY <2>2, <2>3
  <2>5. x[2] = 0
    BY <2>2, <2>3, <2>4 DEF Less
  <2>6. listed' = [listed EXCEPT ![cur] = 0]
    BY <2>3, <2>4, <2>5
  <2> QED
    BY <1>2, <1>4, <2>1, <2>6
<1>7. TypeOK'
  BY <1>0, <1>1, <1>3, <1>5 DEF TypeOK, table, avars
<1>8. Control'
  <2>1. Locks' /\ Indexes'
    BY <1>0, <1>1, Names DEF Locks, Indexes, Polled, avars
  <2>2. Todo'
    BY <1>0, <1>1, <1>3 DEF Todo, Replacing, Polled, avars
  <2> QED
    BY <2>1, <2>2 DEF Control
<1>9. Descriptors'
  BY <1>0, <1>1, DescriptorsSame DEF TypeOK
<1>10. Entries'
  BY <1>0, <1>1 DEF Entries, Stopping, table, avars
<1>11. Served'
  BY <1>0, <1>1 DEF Served, Polled, table, avars
<1>12. Lists'
  BY <1>1, <1>6 DEF Lists, Polled, table
<1>13. Closing'
  BY <1>1, NotStopping DEF Stopping
<1> QED
  BY <1>7, <1>8, <1>9, <1>10, <1>11, <1>12, <1>13 DEF IInv

-----------------------------------------------------------------------------
(* The invariant. *)

LEMMA InitIInv == Init => IInv
<1> SUFFICES ASSUME Init  PROVE IInv
  OBVIOUS
<1>1. /\ Hosts \in Seq(Ports) /\ IsInjective(Hosts) /\ Range(Hosts) = Ports
      /\ Len(Hosts) \in Nat /\ DOMAIN Hosts = 1 .. Len(Hosts)
      /\ Numbers = 1 .. Len(Hosts) + 2 /\ 0 \notin Numbers
      /\ MaxReplaced \in Nat /\ MaxFiles \in Nat
  BY Amounts
<1>2. /\ \A n \in 1 .. Len(Hosts) : Hosts[n] \in Ports /\ n \in Numbers
      /\ \A p \in Ports : \E n \in 1 .. Len(Hosts) : Hosts[n] = p
      /\ \A m, n \in 1 .. Len(Hosts) : Hosts[m] = Hosts[n] => m = n
  BY <1>1 DEF Range, IsInjective
<1>3. /\ \A p \in Ports : handle[p] \in 1 .. Len(Hosts) /\ Hosts[handle[p]] = p
      /\ handle \in [Ports -> Numbers \cup {0}]
  <2>1. handle = [p \in Ports |-> CHOOSE n \in 1 .. Len(Hosts) : Hosts[n] = p]
    BY <1>1 DEF Init
  <2>2. ASSUME NEW p \in Ports  PROVE handle[p] \in 1 .. Len(Hosts) /\ Hosts[handle[p]] = p
    BY <1>2, <2>1
  <2>3. \A p \in Ports : handle[p] \in Numbers \cup {0}
    BY <1>2, <2>2
  <2> QED
    BY <2>1, <2>2, <2>3
<1>4. /\ fds \in [Numbers -> Ports \cup {None, AnyPort, File}]
      /\ \A n \in 1 .. Len(Hosts) : fds[n] = Hosts[n]
      /\ \A n \in Numbers : n \notin 1 .. Len(Hosts) => fds[n] = None
  BY <1>1, <1>2 DEF Init
<1>5. /\ polls = [n \in 1 .. Len(Hosts) |-> Entry(Hosts[n], n)]
      /\ polls \in Seq(EntryType) /\ DOMAIN polls = 1 .. Len(Hosts)
      /\ \A n \in 1 .. Len(Hosts) : polls[n].sock = Hosts[n] /\ polls[n].fd = n
  <2>1. polls = [n \in 1 .. Len(Hosts) |-> Entry(Hosts[n], n)]
    BY <1>1 DEF Init
  <2>2. \A n \in 1 .. Len(Hosts) :
          Entry(Hosts[n], n) \in EntryType /\ Entry(Hosts[n], n).sock = Hosts[n] /\ Entry(Hosts[n], n).fd = n
    BY <1>2 DEF Entry, EntryType
  <2>3. polls \in [1 .. Len(Hosts) -> EntryType]
    BY <2>1, <2>2
  <2> QED
    BY <1>1, <2>1, <2>2, <2>3, SeqDef
<1>6. Polled = Ports
  BY <1>2, <1>5 DEF Polled
<1>7. /\ port = [p \in Ports |-> TRUE] /\ start = [p \in Ports |-> TRUE]
      /\ file = 0 /\ files = 0 /\ clash = FALSE
      /\ listed = [p \in Ports |-> 1] /\ sorted = TRUE
      /\ thisLock = None /\ pollLock = None /\ isstop = FALSE
      /\ apc = "top" /\ k = 0 /\ ssock = None
      /\ ppc = "run" /\ pk = 0 /\ cur = None /\ fresh = 0 /\ todo = <<>>
      /\ lost = {} /\ reopened = {} /\ replaced = 0
  BY DEF Init
<1>8. Range(todo) = {} /\ IsInjective(todo) /\ todo \in Seq(Ports)
  BY <1>7 DEF Range, IsInjective
<1>9. TypeOK
  <2>1. \A i, j \in DOMAIN polls : polls[i].sock = polls[j].sock => i = j
    BY <1>2, <1>5
  <2>2. polls \in Seq([sock : Ports, fd : Numbers \cup {0}, event : {"ok", "err"}])
    BY <1>5 DEF EntryType
  <2>3. 0 \in 0 .. MaxFiles /\ 0 \in 0 .. MaxReplaced
    BY <1>1
  <2>4. port \in [Ports -> BOOLEAN] /\ start \in [Ports -> BOOLEAN] /\ listed \in [Ports -> 0..2]
    BY <1>7
  <2>5. /\ file \in Numbers \cup {0} /\ files \in 0..MaxFiles /\ fresh \in Numbers \cup {0}
        /\ lost \subseteq Ports /\ reopened \subseteq Ports /\ replaced \in 0..MaxReplaced
        /\ k \in Nat /\ pk \in Int
    BY <1>7, <2>3
  <2>6. /\ sorted \in BOOLEAN /\ isstop \in BOOLEAN /\ clash \in BOOLEAN
        /\ thisLock \in {None, "app"} /\ pollLock \in {None, "accept"}
        /\ ssock \in Ports \cup {None} /\ cur \in Ports \cup {None}
        /\ apc = "top" /\ ppc = "run"
    BY <1>7
  <2> QED
    BY <1>3, <1>4, <1>8, <2>1, <2>2, <2>4, <2>5, <2>6 DEF TypeOK
<1>10. Control
  <2>1. Locks /\ Indexes
    BY <1>7, Names DEF Locks, Indexes
  <2>2. Todo
    BY <1>7, <1>8 DEF Todo, Replacing
  <2> QED
    BY <2>1, <2>2 DEF Control
<1>11. Descriptors
  <2>1. \A p \in Ports : Own(p) = p /\ fds[handle[p]] = p
    BY <1>3, <1>4, <1>7 DEF Own
  <2>2. NamedByItsPort
    <3> SUFFICES ASSUME NEW n \in Numbers, fds[n] \in Ports  PROVE handle[fds[n]] = n
      BY DEF NamedByItsPort
    <3>1. n \in 1 .. Len(Hosts) /\ fds[n] = Hosts[n]
      BY <1>4, Names
    <3> QED
      BY <1>2, <1>3, <3>1
  <2>3. HandlesOwn /\ Unreplaced /\ ClashAfterReplacement
    BY <1>7, <2>1 DEF HandlesOwn, Unreplaced, ClashAfterReplacement
  <2>4. Apart
    BY <1>7, <2>1 DEF Apart, InHand
  <2> QED
    BY <1>7, <2>2, <2>3, <2>4 DEF Descriptors
<1>12. Entries
  <2>1. \A i \in DOMAIN polls : polls[i].fd = handle[polls[i].sock] /\ polls[i].fd # 0
    BY <1>2, <1>3, <1>5
  <2> QED
    BY <1>7, <2>1 DEF Entries
<1>13. Served /\ Lists /\ Closing
  BY <1>6, <1>7 DEF Served, Lists, Closing
<1> QED
  BY <1>9, <1>10, <1>11, <1>12, <1>13 DEF IInv

LEMMA NextIInv == IInv /\ [Next]_vars => IInv'
<1> SUFFICES ASSUME IInv, [Next]_vars  PROVE IInv'
  OBVIOUS
<1>1. CASE AcceptThread
  BY <1>1, PassSteps, RepairSteps, RelistStep DEF AcceptThread
<1>2. CASE Stop
  BY <1>2, StopBeginStep, StopGetStep, StopCloseStep, StopFlagStep DEF Stop
<1>3. CASE Replace
  BY <1>3, ReplaceSteps, ClearStep, HostStep, AssignStep, AppendThisStep, AppendPollStep,
     AppendFailsStep DEF Replace
<1>4. CASE FileOpens \/ FileCloses
  BY <1>4, FileSteps
<1>5. CASE UNCHANGED vars
  <2>1. UNCHANGED <<handle, port, start, lists, history, locks, isstop, avars, pvars,
                    fds, file, files, clash, table>>
    BY <1>5 DEF vars, table
  <2>2. Descriptors'
    BY <2>1, DescriptorsSame DEF IInv, TypeOK, history, pvars
  <2>3. /\ fds' \in [Numbers -> Ports \cup {None, AnyPort, File}]
        /\ file' \in Numbers \cup {0} /\ files' \in 0..MaxFiles /\ clash' \in BOOLEAN
        /\ clash => clash'
    BY <2>1 DEF IInv, TypeOK
  <2> QED
    BY <2>1, <2>2, <2>3, TablesOnly
<1> QED
  BY <1>1, <1>2, <1>3, <1>4, <1>5 DEF Next, Done

THEOREM Invariant == Spec => []IInv
  BY InitIInv, NextIInv, PTL DEF Spec

-----------------------------------------------------------------------------
(* What it means. *)

LEMMA ServedMeans == IInv => ListsAgree /\ PortsServed
<1> SUFFICES ASSUME IInv, ppc = "run"  PROVE ListsAgree /\ PortsServed
  BY DEF ListsAgree, PortsServed
<1>0. TypeOK /\ Todo /\ Descriptors /\ Entries /\ Served /\ Lists
  BY DEF IInv, Control
<1>1. ListsAgree
  BY <1>0 DEF Lists, ListsAgree, Stopping
<1>2. ASSUME NEW p \in Ports \ lost
      PROVE  /\ ssock = p \/ \E i \in DOMAIN polls : polls[i].sock = p /\ polls[i].fd = handle[p]
             /\ handle[p] # 0
             /\ ~clash => fds[handle[p]] = p \/ (replaced > 0 /\ fds[handle[p]] = None)
  <2>1. (p \in Polled \/ ssock = p) /\ port[p] /\ start[p]
    <3>1. Range(todo) = {}
      BY <1>0 DEF Todo, Replacing, Range
    <3> QED
      BY <1>0, <3>1 DEF Served, Descriptors
  <2>2. \A i \in DOMAIN polls : polls[i].fd = handle[polls[i].sock] /\ polls[i].fd # 0
    BY <1>0 DEF Entries, Stopping
  <2>3. p \in Polled => \E i \in DOMAIN polls : polls[i].sock = p /\ polls[i].fd = handle[p]
    BY <1>0, <2>2, PollsTyped
  <2>4. handle[p] # 0
    BY <1>0, <2>1, <2>2, <2>3, Names DEF Entries, Stopping
  <2>5. ~clash => fds[handle[p]] = p \/ (replaced > 0 /\ fds[handle[p]] = None)
    <3>1. ~clash => fds[handle[p]] \in {None, p}
      BY <1>0, <2>1, <2>4 DEF Descriptors, HandlesOwn, Own
    <3>2. replaced = 0 => fds[handle[p]] = p
      BY <1>0, <2>1, <2>4 DEF Descriptors, Unreplaced, Own
    <3>3. replaced \in Nat
      BY <1>0, Amounts DEF TypeOK
    <3> QED
      BY <3>1, <3>2, <3>3
  <2> QED
    BY <2>1, <2>3, <2>4, <2>5
<1>3. PortsServed
  BY <1>2 DEF PortsServed
<1> QED
  BY <1>1, <1>3

LEMMA AccountedMeans == IInv => SocketsAccounted
  BY ServedMeans DEF IInv, Descriptors, SocketsAccounted

\* Every listening socket is named by its port's ServerSocket, no close() hits a
\* descriptor of somebody else and the two lists agree unless a number that a socket
\* still named was given out, which takes a replacement; and until stop() every port
\* is polled, being repaired, or lost.
THEOREM SocketsCorrect == Spec => []SocketsAccounted
  BY Invariant, AccountedMeans, PTL

LEMMA ClosingMeans == IInv => StopCloses
<1> SUFFICES ASSUME IInv, ppc = "done", NEW n \in Numbers, fds[n] \in Ports
             PROVE  fds[n] \in reopened \cup lost
  BY DEF StopCloses
<1>1. handle[fds[n]] = n /\ 0 \notin Numbers
  BY Amounts DEF IInv, Descriptors, NamedByItsPort
<1>2. Answered(fds[n])
  BY DEF IInv, Closing
<1> QED
  BY <1>1, <1>2 DEF Answered

\* stop() leaves no server socket open that was neither repaired meanwhile nor lost,
\* although the accept thread reorders m_poll while stop() counts down over it, and
\* whatever numbers were mixed up before.
THEOREM StopCorrect == Spec => []StopCloses
  BY Invariant, ClosingMeans, PTL
=============================================================================
