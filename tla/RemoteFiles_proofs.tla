------------------------- MODULE RemoteFiles_proofs -------------------------
(***************************************************************************)
(* Proofs about what stands between a file on a web server and its reader, *)
(* for every size of the file, every set of hosts and paths, every number  *)
(* of retries, of clients, of HostLookups, of connections and of origins.  *)
(* The parts of MC_RemoteFiles each get an inductive invariant:            *)
(* FsInv for HttpFs, QInv for HttpClient and HInv for HostCache; their     *)
(* conjunction is one of MC_RemoteFiles.  The last part is about OriginFs. *)
(***************************************************************************)
EXTENDS MC_RemoteFiles, OriginFs, FiniteSetTheorems, SequenceTheorems, TLAPS

-----------------------------------------------------------------------------
(* HttpFs *)

\* Where a status line is in w, the whole answer from offset o on follows it.
Whole(w, o) ==
    \A j \in 1..Len(w) : w[j] < 0 =>
        /\ j + 1 + (Size - o) <= Len(w)
        /\ \A i \in 1..Size - o : w[j + 1 + i] = o + i

\* s are bytes of the file from offset o on, as far as the file goes.
Bytes(s, o) == \A i \in 1..Len(s) : i <= Size - o => s[i] = o + i

\* v is what is left of w after its first n members.
IsRest(v, w, n) ==
    /\ v \in Seq(Int) /\ w \in Seq(Int) /\ n \in 0..Len(w)
    /\ Len(v) = Len(w) - n
    /\ \A i \in 1..Len(v) : v[i] = w[n + i]

\* A list has a length.
LEMMA LenIs == ASSUME NEW w \in Seq(Int) PROVE Len(w) \in Nat /\ DOMAIN w = 1..Len(w)
<1> QED
  OBVIOUS

\* What SubSeq leaves of a list is a rest of it.
LEMMA RestIs ==
    ASSUME NEW w \in Seq(Int), NEW n \in Nat, n <= Len(w)
    PROVE  IsRest(SubSeq(w, n + 1, Len(w)), w, n)
<1>1. /\ SubSeq(w, n + 1, Len(w)) \in Seq(Int)
      /\ Len(SubSeq(w, n + 1, Len(w))) = Len(w) - n
      /\ \A i \in 1..Len(w) - n : SubSeq(w, n + 1, Len(w))[i] = w[n + i]
  OBVIOUS
<1>2. n \in 0..Len(w)
  OBVIOUS
<1> QED
  BY <1>1, <1>2 DEF IsRest

\* A rest of a list of whole answers holds whole answers, and a piece before the first.
LEMMA RestWhole ==
    ASSUME NEW v, NEW w, NEW n, IsRest(v, w, n), NEW o \in 0..Size, Whole(w, o)
    PROVE  Whole(v, o)
<1>1. Len(w) \in Nat /\ Len(v) \in Nat /\ Size \in Nat /\ n \in 0..Len(w) /\ Len(v) = Len(w) - n
  BY RemoteAssumption, LenIs DEF IsRest
<1> SUFFICES ASSUME NEW j \in 1..Len(v), v[j] < 0
             PROVE  /\ j + 1 + (Size - o) <= Len(v)
                    /\ \A i \in 1..Size - o : v[j + 1 + i] = o + i
  BY DEF Whole
<1>2. n + j \in 1..Len(w) /\ w[n + j] < 0
  <2>1. n + j \in 1..Len(w)
    BY <1>1
  <2>2. v[j] = w[n + j]
    BY DEF IsRest
  <2> QED
    BY <2>1, <2>2
<1>3. /\ n + j + 1 + (Size - o) <= Len(w)
      /\ \A i \in 1..Size - o : w[n + j + 1 + i] = o + i
  BY <1>2 DEF Whole
<1>4. ASSUME NEW i \in 1..Size - o PROVE v[j + 1 + i] = o + i
  <2>1. j + 1 + i \in 1..Len(v) /\ n + (j + 1 + i) = n + j + 1 + i
    BY <1>1, <1>3
  <2>2. v[j + 1 + i] = w[n + (j + 1 + i)]
    BY <2>1 DEF IsRest
  <2> QED
    BY <1>3, <2>1, <2>2
<1>5. j + 1 + (Size - o) <= Len(v)
  BY <1>1, <1>3
<1> QED
  BY <1>4, <1>5

\* A rest of the bytes from o on are the bytes from further on.
LEMMA RestBytes ==
    ASSUME NEW v, NEW w, NEW n, IsRest(v, w, n), NEW o \in Nat, Bytes(w, o)
    PROVE  Bytes(v, o + n)
<1>1. Len(w) \in Nat /\ Len(v) \in Nat /\ Size \in Nat /\ n \in 0..Len(w) /\ Len(v) = Len(w) - n
  BY RemoteAssumption, LenIs DEF IsRest
<1> SUFFICES ASSUME NEW i \in 1..Len(v), i <= Size - (o + n)
             PROVE  v[i] = o + n + i
  BY DEF Bytes
<1>2. n + i \in 1..Len(w) /\ n + i <= Size - o
  BY <1>1
<1>3. v[i] = w[n + i]
  BY DEF IsRest
<1>4. w[n + i] = o + (n + i)
  BY <1>2 DEF Bytes
<1> QED
  BY <1>1, <1>3, <1>4

\* What two lists make together.
LEMMA JoinIs ==
    ASSUME NEW a \in Seq(Int), NEW b \in Seq(Int), NEW n \in Nat, n = Len(a)
    PROVE  /\ a \o b \in Seq(Int) /\ Len(a \o b) = n + Len(b)
           /\ \A i \in 1..n : (a \o b)[i] = a[i]
           /\ \A i \in 1..Len(b) : (a \o b)[n + i] = b[i]
<1>1. /\ a \o b \in Seq(Int) /\ Len(a \o b) = Len(a) + Len(b)
      /\ \A i \in 1..Len(a) + Len(b) : (a \o b)[i] = IF i <= Len(a) THEN a[i] ELSE b[i - Len(a)]
  BY ConcatProperties
<1>2. Len(a) \in Nat /\ Len(b) \in Nat
  BY LenIs
<1>3. \A i \in 1..Len(a) : i \in 1..Len(a) + Len(b) /\ i <= Len(a)
  BY <1>2
<1>4. \A i \in 1..Len(b) :
        Len(a) + i \in 1..Len(a) + Len(b) /\ ~(Len(a) + i <= Len(a)) /\ Len(a) + i - Len(a) = i
  BY <1>2
<1> QED
  BY <1>1, <1>3, <1>4

\* An answer.
LEMMA AnswerIs ==
    ASSUME NEW o \in 0..Size
    PROVE  /\ Fs!Answer(o) \in Seq(Int) /\ Len(Fs!Answer(o)) = 2 + (Size - o)
           /\ Fs!Answer(o)[1] < 0 /\ Fs!Answer(o)[2] = 0
           /\ \A i \in 1..Size - o : Fs!Answer(o)[2 + i] = o + i
<1> DEFINE h == <<-1 - o, 0>>
           b == [i \in 1..Size - o |-> o + i]
<1>1. o \in Nat /\ Size - o \in Nat
  BY RemoteAssumption
<1>2. h \in Seq(Int) /\ Len(h) = 2 /\ h[1] = -1 - o /\ h[2] = 0
  BY <1>1
<1>3. b \in Seq(Int) /\ Len(b) = Size - o /\ \A i \in 1..Size - o : b[i] = o + i
  BY <1>1
<1>4. Fs!Answer(o) = h \o b
  BY DEF Fs!Answer, Fs!StatusLine, Fs!HeaderEnd
<1> HIDE DEF h, b
<1>5. /\ h \o b \in Seq(Int) /\ Len(h \o b) = 2 + Len(b)
      /\ \A i \in 1..2 : (h \o b)[i] = h[i]
      /\ \A i \in 1..Len(b) : (h \o b)[2 + i] = b[i]
  <2>1. h \in Seq(Int) /\ b \in Seq(Int) /\ 2 \in Nat /\ 2 = Len(h)
    BY <1>2, <1>3
  <2> QED
    BY <2>1, JoinIs, Zenon
<1>6. (h \o b)[1] < 0 /\ (h \o b)[2] = 0
  BY <1>1, <1>2, <1>5
<1> QED
  BY <1>3, <1>4, <1>5, <1>6

\* One more answer, to the same offset, behind whole answers.
LEMMA AnswerWhole ==
    ASSUME NEW w \in Seq(Int), NEW o \in 0..Size, Whole(w, o)
    PROVE  w \o Fs!Answer(o) \in Seq(Int) /\ Whole(w \o Fs!Answer(o), o)
<1> DEFINE a == Fs!Answer(o)
           v == w \o a
           n == Len(w)
           m == Size - o
<1>1. /\ a \in Seq(Int) /\ Len(a) = 2 + m /\ a[2] = 0
      /\ \A i \in 1..m : a[2 + i] = o + i
  BY AnswerIs
<1>2. n \in Nat /\ m \in Nat /\ o \in Nat
  BY RemoteAssumption, LenIs
<1> HIDE DEF a
<1>3. /\ v \in Seq(Int) /\ Len(v) = n + Len(a)
      /\ \A i \in 1..n : v[i] = w[i]
      /\ \A i \in 1..Len(a) : v[n + i] = a[i]
  <2> HIDE DEF m
  <2> QED
    BY <1>1, JoinIs
<1>w. /\ \A j \in 1..n : w[j] < 0 => /\ j + 1 + m <= n
                                     /\ \A i \in 1..m : w[j + 1 + i] = o + i
  BY DEF Whole
<1> HIDE DEF v, n, m
<1>4. ASSUME NEW j \in 1..n + 2 + m, v[j] < 0
      PROVE  /\ j + 1 + m <= n + 2 + m
             /\ \A i \in 1..m : v[j + 1 + i] = o + i
  <2>1. CASE j <= n
    <3>1. j \in 1..n /\ w[j] < 0
      BY <1>2, <1>3, <1>4, <2>1
    <3>2. j + 1 + m <= n /\ \A i \in 1..m : w[j + 1 + i] = o + i
      BY <3>1, <1>w
    <3>3. \A i \in 1..m : j + 1 + i \in 1..n
      BY <1>2, <3>1, <3>2
    <3>4. \A i \in 1..m : v[j + 1 + i] = o + i
      BY <1>3, <3>2, <3>3
    <3> QED
      BY <1>2, <3>2, <3>4
  <2>2. CASE j > n
    <3>1. PICK d \in 1..2 + m : j = n + d
      <4>1. j - n \in 1..2 + m /\ j = n + (j - n)
        BY <1>2, <2>2
      <4> QED
        BY <4>1
    <3>2. v[j] = a[d]
      BY <1>1, <1>3, <3>1
    <3>3. d = 1
      <4>1. d = 1 \/ d = 2 \/ d \in 3..2 + m
        BY <1>2, <3>1
      <4>2. ASSUME d \in 3..2 + m PROVE FALSE
        <5>0. d - 2 \in 1..m /\ 2 + (d - 2) = d
          BY <1>2, <4>2
        <5>1. a[d] = o + (d - 2)
          BY <1>1, <5>0
        <5> QED
          BY <1>2, <1>4, <3>2, <5>0, <5>1
      <4> QED
        BY <1>1, <1>4, <3>2, <4>1, <4>2
    <3>4. ASSUME NEW i \in 1..m PROVE v[j + 1 + i] = o + i
      <4>1. 2 + i \in 1..2 + m /\ j + 1 + i = n + (2 + i)
        BY <1>2, <3>1, <3>3
      <4>2. v[n + (2 + i)] = a[2 + i]
        BY <1>1, <1>3, <4>1
      <4> QED
        BY <1>1, <4>1, <4>2
    <3>5. j + 1 + m <= n + 2 + m
      BY <1>2, <3>1, <3>3
    <3> QED
      BY <3>4, <3>5
  <2> QED
    BY <1>2, <2>1, <2>2
<1>5. Len(v) = n + 2 + m
  BY <1>1, <1>2, <1>3
<1>6. \A j \in 1..Len(v) : v[j] < 0 => /\ j + 1 + m <= Len(v)
                                       /\ \A i \in 1..m : v[j + 1 + i] = o + i
  BY <1>4, <1>5
<1> QED
  BY <1>3, <1>6 DEF Whole, v, a, m

\* A rest of the reader's buffer, with the connection behind it, is a rest of both.
LEMMA ServedByReader ==
    ASSUME NEW r \in Seq(Int), NEW w \in Seq(Int), NEW r1, NEW n, IsRest(r1, r, n)
    PROVE  IsRest(r1 \o w, r \o w, n)
<1>1. PICK p \in Nat : p = Len(r)
  BY LenIs
<1>2. PICK q \in Nat : q = Len(w)
  BY LenIs
<1>3. r1 \in Seq(Int) /\ n \in 0..p
  BY <1>1 DEF IsRest
<1>4. PICK d \in Nat : d = Len(r1)
  BY <1>3, LenIs
<1>5. d = p - n /\ \A i \in 1..d : r1[i] = r[n + i]
  BY <1>1, <1>4 DEF IsRest
<1>6. /\ r \o w \in Seq(Int) /\ Len(r \o w) = p + q
      /\ \A i \in 1..p : (r \o w)[i] = r[i]
      /\ \A i \in 1..q : (r \o w)[p + i] = w[i]
  BY <1>1, <1>2, JoinIs
<1>7. /\ r1 \o w \in Seq(Int) /\ Len(r1 \o w) = d + q
      /\ \A i \in 1..d : (r1 \o w)[i] = r1[i]
      /\ \A i \in 1..q : (r1 \o w)[d + i] = w[i]
  BY <1>2, <1>3, <1>4, JoinIs
<1>8. ASSUME NEW i \in 1..d + q PROVE (r1 \o w)[i] = (r \o w)[n + i]
  <2>1. CASE i <= d
    <3>1. i \in 1..d /\ n + i \in 1..p
      BY <1>3, <1>5, <2>1
    <3> QED
      BY <1>5, <1>6, <1>7, <3>1
  <2>2. CASE i > d
    <3>1. PICK e \in 1..q : i = d + e
      <4>1. i - d \in 1..q /\ i = d + (i - d)
        BY <2>2
      <4> QED
        BY <4>1
    <3>2. n + i = p + e
      BY <1>3, <1>5, <3>1
    <3> QED
      BY <1>6, <1>7, <3>1, <3>2
  <2>3. i <= d \/ i > d
    OBVIOUS
  <2> QED
    BY <2>1, <2>2, <2>3, Zenon
<1>9. Len(r1 \o w) = Len(r \o w) - n /\ n \in 0..Len(r \o w)
  <2>1. d + q = p + q - n /\ n \in 0..p + q
    BY <1>3, <1>5
  <2> QED
    BY <1>6, <1>7, <2>1
<1> QED
  BY <1>6, <1>7, <1>8, <1>9 DEF IsRest

\* When the reader's buffer is used up, a rest of the connection is a rest of both.
LEMMA ServedByWire ==
    ASSUME NEW r \in Seq(Int), NEW w \in Seq(Int), NEW w1, NEW d, IsRest(w1, w, d)
    PROVE  IsRest(w1, r \o w, Len(r) + d)
<1>1. PICK p \in Nat : p = Len(r)
  BY LenIs
<1>2. PICK q \in Nat : q = Len(w)
  BY LenIs
<1>3. w1 \in Seq(Int) /\ d \in 0..q /\ Len(w1) = q - d /\ \A i \in 1..Len(w1) : w1[i] = w[d + i]
  BY <1>2 DEF IsRest
<1>4. /\ r \o w \in Seq(Int) /\ Len(r \o w) = p + q
      /\ \A i \in 1..p : (r \o w)[i] = r[i]
      /\ \A i \in 1..q : (r \o w)[p + i] = w[i]
  BY <1>1, <1>2, JoinIs
<1>5. ASSUME NEW i \in 1..q - d PROVE w1[i] = (r \o w)[p + d + i]
  <2>1. d + i \in 1..q /\ p + (d + i) = p + d + i
    BY <1>3
  <2>2. (r \o w)[p + (d + i)] = w[d + i]
    BY <1>4, <2>1
  <2>3. w1[i] = w[d + i]
    BY <1>3
  <2> QED
    BY <2>1, <2>2, <2>3
<1>6. p + d \in 0..p + q /\ q - d = p + q - (p + d)
  BY <1>3
<1>7. \A i \in 1..Len(w1) : w1[i] = (r \o w)[p + d + i]
  BY <1>3, <1>5
<1>8. Len(w1) = Len(r \o w) - (p + d) /\ p + d \in 0..Len(r \o w)
  BY <1>3, <1>4, <1>6
<1>9. IsRest(w1, r \o w, p + d)
  BY <1>3, <1>4, <1>7, <1>8 DEF IsRest
<1> QED
  BY <1>1, <1>9

\* The first members of a list.
LEMMA FirstAre ==
    ASSUME NEW s \in Seq(Int), NEW n \in 0..Len(s)
    PROVE  /\ SubSeq(s, 1, n) \in Seq(Int) /\ Len(SubSeq(s, 1, n)) = n
           /\ \A i \in 1..n : SubSeq(s, 1, n)[i] = s[i]
<1> QED
  OBVIOUS

\* An empty connection carries whole answers and right bytes.
LEMMA NothingOnTheWire ==
    ASSUME NEW o
    PROVE  << >> \in Seq(Int) /\ << >> \o << >> = << >> /\ Whole(<< >>, o) /\ Bytes(<< >>, o)
<1>1. << >> \in Seq(Int) /\ Len(<< >>) = 0
  OBVIOUS
<1>2. << >> \o << >> = << >>
  BY <1>1, ConcatEmptySeq
<1> QED
  BY <1>1, <1>2 DEF Whole, Bytes

\* What the reader holds alone is right when it is with the connection.
LEMMA ReaderBytes ==
    ASSUME NEW r \in Seq(Int), NEW w \in Seq(Int), NEW o \in Nat, Bytes(r \o w, o)
    PROVE  r \o << >> = r /\ Bytes(r, o)
<1>1. PICK p \in Nat : p = Len(r)
  BY LenIs
<1>2. PICK q \in Nat : q = Len(w)
  BY LenIs
<1>3. Len(r \o w) = p + q /\ \A i \in 1..p : (r \o w)[i] = r[i]
  BY <1>1, <1>2, JoinIs
<1>4. ASSUME NEW i \in 1..p, i <= Size - o PROVE r[i] = o + i
  <2>1. i \in 1..p + q
    OBVIOUS
  <2> QED
    BY <1>3, <1>4, <2>1 DEF Bytes
<1>5. r \o << >> = r
  BY ConcatEmptySeq
<1> QED
  BY <1>1, <1>4, <1>5 DEF Bytes

\* Every variable keeps its type.
FsTypeOK ==
    /\ m_http \in BOOLEAN /\ stale \in BOOLEAN
    /\ conn \in {"none", "open", "dead"}
    /\ f_wire \in Seq(Int) /\ reader \in Seq(Int)
    /\ m_offset \in 0..Size /\ m_step \in 0..2 /\ m_size \in {0, Size}
    /\ f_pc \in {"idle", "open", "size", "request", "head", "read", "null"}
    /\ offset \in 0..Size /\ size \in Nat
    /\ ret \in {"none", "ok", "error"}

\* What is on the connection.  Before the first byte of an answer is taken, only
\* whole answers are; afterwards, the bytes that follow those taken.
OnTheWire ==
    /\ m_step # 2 => Whole(f_wire, m_offset)
    /\ m_step = 2 \/ f_pc = "read" => Bytes(reader \o f_wire, m_offset)

\* Where a read is tells what it may rely on.
ReadAt ==
    /\ f_pc \notin {"idle", "null"} => got = << >> /\ ret = "none" /\ (f_pc # "open" => m_http)
    /\ f_pc \in {"open", "size"} => size > 0
    /\ f_pc \in {"request", "head", "read"} => size > 0 /\ offset + size <= Size
    /\ f_pc \in {"size", "request"} => m_offset = offset \/ (f_wire = << >> /\ m_step = 1)
    /\ f_pc \in {"head", "read"} => m_offset = offset
    /\ f_pc \in {"request", "head"} => m_step # 2

\* What a failed open leaves out.
Opened ==
    ~stale =>
        /\ m_http => m_size = Size
        /\ m_step = 2 \/ f_pc \in {"head", "read"} => conn # "none"

\* The inductive invariant of HttpFs.
FsInv == FsTypeOK /\ OnTheWire /\ ReadAt /\ Opened /\ ReadRight

USE DEF Fs!fsvars, Fs!callvars

\* The sizes are what RemoteAssumption says.
LEMMA SizeIs == Size \in Nat /\ Size > 0 /\ (\A s \in ReadSizes : s \in Nat /\ s > 0)
<1> QED
  BY RemoteAssumption

\* A caller's buffer that is empty is right.
LEMMA NothingGot ==
    ASSUME got = << >>, ret = "none" \/ ret = "error", f_pc # "null" PROVE ReadRight
<1>1. Len(<< >>) = 0 /\ << >> = [i \in 1..0 |-> offset + i]
  OBVIOUS
<1> QED
  BY <1>1 DEF ReadRight, Fs!ReadRight, Fs!OkIsWhole, Fs!NullAfterFailedOpen

\* The invariant holds before the first call.
LEMMA FsInit == Fs!Init => FsInv
<1> SUFFICES ASSUME Fs!Init PROVE FsInv
  OBVIOUS
<1>1. Size \in Nat
  BY SizeIs
<1>2. FsTypeOK
  <2>1. << >> \in Seq(Int) /\ 0 \in 0..Size /\ 0 \in 0..2 /\ 0 \in Nat /\ 0 \in {0, Size}
    BY <1>1
  <2> QED
    BY <2>1 DEF Fs!Init, FsTypeOK
<1>3. OnTheWire
  BY NothingOnTheWire DEF Fs!Init, OnTheWire
<1>4. ReadRight
  BY NothingGot DEF Fs!Init
<1> QED
  BY <1>2, <1>3, <1>4 DEF Fs!Init, FsInv, ReadAt, Opened

\* What an open leaves behind, whether it works or not.
LEMMA FsOpens ==
    ASSUME FsInv, Fs!OpenOk \/ Fs!OpenFails
    PROVE  /\ m_http' /\ stale' \in BOOLEAN /\ conn' \in {"none", "open"}
           /\ f_wire' = << >> /\ reader' = << >>
           /\ m_offset' \in 0..Size /\ m_step' \in 0..2 /\ m_size' \in {0, Size}
           /\ Whole(f_wire', m_offset') /\ Bytes(reader' \o f_wire', m_offset')
           /\ ~stale' => m_size' = Size /\ m_step' = 1
<1>1. /\ m_http' /\ stale' \in BOOLEAN /\ conn' \in {"none", "open"}
      /\ f_wire' = << >> /\ reader' = << >>
      /\ ~stale' => m_size' = Size /\ m_step' = 1
  BY DEF Fs!OpenOk, Fs!OpenFails
<1>2. 0 \in 0..Size /\ Size \in {0, Size} /\ 1 \in 0..2
  BY SizeIs
<1>3. m_offset' \in 0..Size /\ m_step' \in 0..2 /\ m_size' \in {0, Size}
  BY <1>2 DEF Fs!OpenOk, Fs!OpenFails, FsInv, FsTypeOK
<1>4. Whole(<< >>, m_offset') /\ Bytes(<< >> \o << >>, m_offset')
  BY NothingOnTheWire
<1> QED
  BY <1>1, <1>3, <1>4

\* HttpFs::open, with or without success.
LEMMA FsOpen == FsInv /\ Fs!Open => FsInv'
<1> SUFFICES ASSUME FsInv, Fs!Open PROVE FsInv'
  OBVIOUS
<1>1. /\ m_http' /\ stale' \in BOOLEAN /\ conn' \in {"none", "open"}
      /\ f_wire' = << >> /\ reader' = << >>
      /\ m_offset' \in 0..Size /\ m_step' \in 0..2 /\ m_size' \in {0, Size}
      /\ Whole(f_wire', m_offset') /\ Bytes(reader' \o f_wire', m_offset')
      /\ ~stale' => m_size' = Size /\ m_step' = 1
  BY FsOpens DEF Fs!Open
<1>2. f_pc' = "idle" /\ offset' = 0 /\ size' = 0 /\ got' = << >> /\ ret' = "none"
  BY DEF Fs!Open, Fs!Forget
<1>3. FsTypeOK'
  <2>1. << >> \in Seq(Int) /\ 0 \in 0..Size /\ 0 \in Nat
    BY SizeIs
  <2> QED
    BY <1>1, <1>2, <2>1 DEF FsTypeOK
<1>4. OnTheWire' /\ ReadAt' /\ Opened'
  BY <1>1, <1>2 DEF OnTheWire, ReadAt, Opened
<1>5. ReadRight'
  <2>1. Len(<< >>) = 0 /\ << >> = [i \in 1..0 |-> 0 + i]
    OBVIOUS
  <2> QED
    BY <1>2, <2>1 DEF ReadRight, Fs!ReadRight, Fs!OkIsWhole, Fs!NullAfterFailedOpen
<1> QED
  BY <1>3, <1>4, <1>5 DEF FsInv

\* The connection ends; what the reader holds stays right.
LEMMA FsPeerCloses == FsInv /\ Fs!PeerCloses => FsInv'
<1> SUFFICES ASSUME FsInv, Fs!PeerCloses PROVE FsInv'
  OBVIOUS
<1>1. /\ conn = "open" /\ conn' = "dead" /\ f_wire' \in {f_wire, << >>}
      /\ UNCHANGED <<m_http, reader, m_offset, m_step, m_size, f_pc, offset, size, got, ret, stale>>
  BY DEF Fs!PeerCloses
<1>2. FsTypeOK
  BY DEF FsInv
<1>3. FsTypeOK'
  <2>1. f_wire' \in Seq(Int)
    BY <1>1, <1>2, NothingOnTheWire DEF FsTypeOK
  <2> QED
    BY <1>1, <1>2, <2>1 DEF FsTypeOK
<1>4. OnTheWire'
  <2>1. CASE f_wire' = f_wire
    BY <1>1, <2>1 DEF FsInv, OnTheWire
  <2>2. CASE f_wire' = << >>
    <3>1. Whole(<< >>, m_offset')
      BY NothingOnTheWire
    <3>2. m_offset \in Nat
      BY <1>2, SizeIs DEF FsTypeOK
    <3>3. m_step = 2 \/ f_pc = "read" => Bytes(reader \o << >>, m_offset)
      BY <1>2, <3>2, ReaderBytes DEF FsInv, OnTheWire, FsTypeOK
    <3> QED
      BY <1>1, <2>2, <3>1, <3>3 DEF OnTheWire
  <2> QED
    BY <1>1, <2>1, <2>2
<1>5. ReadAt' /\ Opened'
  BY <1>1 DEF FsInv, ReadAt, Opened
<1>6. ReadRight'
  BY <1>1 DEF FsInv, ReadRight, Fs!ReadRight, Fs!OkIsWhole, Fs!NullAfterFailedOpen
<1> QED
  BY <1>3, <1>4, <1>5, <1>6 DEF FsInv

\* HttpFs::close.
LEMMA FsClose == FsInv /\ Fs!Close => FsInv'
<1> SUFFICES ASSUME FsInv, Fs!Close PROVE FsInv'
  OBVIOUS
<1>1. /\ m_http' = FALSE /\ conn' = "none" /\ f_wire' = << >> /\ reader' = << >> /\ m_step' = 0
      /\ offset' = 0 /\ size' = 0 /\ got' = << >> /\ ret' = "none"
      /\ UNCHANGED <<m_offset, m_size, f_pc, stale>> /\ f_pc = "idle"
  BY DEF Fs!Close, Fs!Forget
<1>2. << >> \in Seq(Int) /\ 0 \in 0..Size /\ 0 \in Nat /\ 0 \in 0..2
  BY SizeIs
<1>3. FsTypeOK'
  BY <1>1, <1>2 DEF FsInv, FsTypeOK
<1>4. OnTheWire'
  BY <1>1, NothingOnTheWire DEF OnTheWire
<1>5. ReadAt' /\ Opened'
  BY <1>1 DEF ReadAt, Opened
<1>6. ReadRight'
  <2>1. Len(<< >>) = 0 /\ << >> = [i \in 1..0 |-> 0 + i]
    OBVIOUS
  <2> QED
    BY <1>1, <2>1 DEF ReadRight, Fs!ReadRight, Fs!OkIsWhole, Fs!NullAfterFailedOpen
<1> QED
  BY <1>3, <1>4, <1>5, <1>6 DEF FsInv

\* HttpFs::read begins.
LEMMA FsRead ==
    ASSUME FsInv, NEW o \in 0..Size, NEW s \in ReadSizes, Fs!Read(o, s)
    PROVE  FsInv'
<1>1. /\ f_pc = "idle" /\ offset' = o /\ size' = s /\ got' = << >> /\ ret' = "none"
      /\ f_pc' = IF Fs!GoesOn(o) THEN "size" ELSE "open"
      /\ UNCHANGED <<m_http, conn, f_wire, reader, m_offset, m_step, m_size, stale>>
  BY DEF Fs!Read
<1>2. f_pc' \in {"size", "open"} /\ (f_pc' = "size" => m_http /\ m_offset = o)
  BY <1>1 DEF Fs!GoesOn
<1>3. s \in Nat /\ s > 0
  BY SizeIs
<1>4. FsTypeOK'
  BY <1>1, <1>2, <1>3 DEF FsInv, FsTypeOK
<1>5. OnTheWire'
  BY <1>1, <1>2 DEF FsInv, OnTheWire
<1>6. ReadAt'
  BY <1>1, <1>2, <1>3 DEF FsInv, ReadAt
<1>7. Opened'
  BY <1>1, <1>2 DEF FsInv, Opened
<1>8. ReadRight'
  <2>1. Len(<< >>) = 0 /\ << >> = [i \in 1..0 |-> o + i]
    OBVIOUS
  <2> QED
    BY <1>1, <1>2, <2>1 DEF ReadRight, Fs!ReadRight, Fs!OkIsWhole, Fs!NullAfterFailedOpen
<1> QED
  BY <1>4, <1>5, <1>6, <1>7, <1>8 DEF FsInv

\* The open that a read at another place makes.
LEMMA FsReopen == FsInv /\ Fs!Reopen => FsInv'
<1> SUFFICES ASSUME FsInv, Fs!Reopen PROVE FsInv'
  OBVIOUS
<1>1. /\ m_http' /\ stale' \in BOOLEAN /\ conn' \in {"none", "open"}
      /\ f_wire' = << >> /\ reader' = << >>
      /\ m_offset' \in 0..Size /\ m_step' \in 0..2 /\ m_size' \in {0, Size}
      /\ Whole(f_wire', m_offset') /\ Bytes(reader' \o f_wire', m_offset')
      /\ ~stale' => m_size' = Size /\ m_step' = 1
  BY FsOpens DEF Fs!Reopen
<1>2. /\ f_pc = "open" /\ UNCHANGED <<offset, size, got>>
      /\ \/ f_pc' = "size" /\ m_step' = 1 /\ ret' = ret
         \/ f_pc' = "idle" /\ ret' = "error"
  BY DEF Fs!Reopen, Fs!OpenOk, Fs!Return
<1>3. got = << >> /\ ret = "none" /\ size > 0
  BY <1>2 DEF FsInv, ReadAt
<1>4. FsTypeOK'
  <2>1. << >> \in Seq(Int)
    OBVIOUS
  <2> QED
    BY <1>1, <1>2, <1>3, <2>1 DEF FsInv, FsTypeOK
<1>5. OnTheWire'
  BY <1>1, <1>2 DEF OnTheWire
<1>6. ReadAt'
  BY <1>1, <1>2, <1>3 DEF ReadAt
<1>7. Opened'
  BY <1>1, <1>2 DEF Opened
<1>8. ReadRight'
  <2>1. Len(<< >>) = 0 /\ << >> = [i \in 1..0 |-> offset' + i]
    OBVIOUS
  <2> QED
    BY <1>2, <1>3, <2>1 DEF ReadRight, Fs!ReadRight, Fs!OkIsWhole, Fs!NullAfterFailedOpen
<1> QED
  BY <1>4, <1>5, <1>6, <1>7, <1>8 DEF FsInv

\* The read is cut at the end of the file, or over.
LEMMA FsSizeTest == FsInv /\ Fs!SizeTest => FsInv'
<1> SUFFICES ASSUME FsInv, Fs!SizeTest PROVE FsInv'
  OBVIOUS
<1>1. /\ f_pc = "size"
      /\ UNCHANGED <<m_http, conn, f_wire, reader, m_offset, m_step, m_size, offset, got, stale>>
  BY DEF Fs!SizeTest
<1>2. /\ FsTypeOK /\ got = << >> /\ ret = "none" /\ m_http /\ size > 0
      /\ m_offset = offset \/ (f_wire = << >> /\ m_step = 1)
  BY <1>1 DEF FsInv, ReadAt
<1>3. offset \in Nat /\ offset <= Size /\ size \in Nat /\ Size \in Nat /\ m_size \in {0, Size}
  BY <1>2, SizeIs DEF FsTypeOK
<1>4. CASE offset >= m_size /\ f_pc' = "idle" /\ ret' = "ok" /\ size' = size
  <2>1. FsTypeOK'
    BY <1>1, <1>2, <1>4 DEF FsTypeOK
  <2>2. OnTheWire' /\ ReadAt' /\ Opened'
    BY <1>1, <1>4 DEF FsInv, OnTheWire, ReadAt, Opened
  <2>3. ReadRight'
    <3>1. Len(<< >>) = 0 /\ << >> = [i \in 1..0 |-> offset + i]
      OBVIOUS
    <3>2. ~stale => m_size = Size
      BY <1>2 DEF FsInv, Opened
    <3>3. ~stale => 0 = IF offset + size > Size THEN Size - offset ELSE size
      BY <1>2, <1>3, <1>4, <3>2
    <3> QED
      BY <1>1, <1>2, <1>4, <3>1, <3>3
        DEF ReadRight, Fs!ReadRight, Fs!OkIsWhole, Fs!NullAfterFailedOpen
  <2> QED
    BY <2>1, <2>2, <2>3 DEF FsInv
<1>5. CASE /\ offset < m_size /\ size' = Fs!Nsize /\ ret' = ret
           /\ f_pc' = IF m_step = 2 THEN "read" ELSE "request"
  <2>1. size' \in Nat /\ size' > 0 /\ offset + size' <= Size
    BY <1>2, <1>3, <1>5 DEF Fs!Nsize
  <2>2. f_pc' \in {"read", "request"} /\ (f_pc' = "read" <=> m_step = 2)
    BY <1>5
  <2>3. FsTypeOK'
    BY <1>1, <1>2, <1>5, <2>1, <2>2 DEF FsTypeOK
  <2>4. OnTheWire' /\ Opened'
    BY <1>1, <2>2 DEF FsInv, OnTheWire, Opened
  <2>5. ReadAt'
    BY <1>1, <1>2, <1>5, <2>1, <2>2 DEF ReadAt
  <2>6. ReadRight'
    <3>1. Len(<< >>) = 0 /\ << >> = [i \in 1..0 |-> offset + i]
      OBVIOUS
    <3> QED
      BY <1>1, <1>2, <1>5, <2>2, <3>1
        DEF ReadRight, Fs!ReadRight, Fs!OkIsWhole, Fs!NullAfterFailedOpen
  <2> QED
    BY <2>3, <2>4, <2>5, <2>6 DEF FsInv
<1> QED
  BY <1>4, <1>5 DEF Fs!SizeTest, Fs!Return

\* A request: the answer is the one to the offset of the read.
LEMMA FsRequest == FsInv /\ Fs!Request => FsInv'
<1> SUFFICES ASSUME FsInv, Fs!Request PROVE FsInv'
  OBVIOUS
<1>1. /\ f_pc = "request" /\ f_pc' = "head" /\ m_offset' = offset /\ conn' = "open"
      /\ f_wire' = f_wire \o Fs!Answer(offset) /\ reader' = << >>
      /\ UNCHANGED <<m_http, m_step, m_size, offset, size, got, ret, stale>>
  BY DEF Fs!Request
<1>2. /\ FsTypeOK /\ got = << >> /\ ret = "none" /\ m_http /\ size > 0 /\ offset + size <= Size
      /\ m_offset = offset \/ f_wire = << >>
      /\ m_step # 2
  BY <1>1 DEF FsInv, ReadAt
<1>3. f_wire \in Seq(Int) /\ offset \in 0..Size /\ Whole(f_wire, offset)
  BY <1>2, NothingOnTheWire DEF FsInv, FsTypeOK, OnTheWire
<1>4. f_wire' \in Seq(Int) /\ Whole(f_wire', offset)
  BY <1>1, <1>3, AnswerWhole
<1>5. FsTypeOK'
  <2>1. << >> \in Seq(Int)
    OBVIOUS
  <2> QED
    BY <1>1, <1>2, <1>4, <2>1 DEF FsTypeOK
<1>6. OnTheWire'
  BY <1>1, <1>2, <1>4 DEF OnTheWire
<1>7. ReadAt'
  BY <1>1, <1>2 DEF ReadAt
<1>8. Opened'
  BY <1>1 DEF FsInv, Opened
<1>9. ReadRight'
  BY <1>1 DEF FsInv, ReadRight, Fs!ReadRight, Fs!OkIsWhole, Fs!NullAfterFailedOpen
<1> QED
  BY <1>5, <1>6, <1>7, <1>8, <1>9 DEF FsInv

\* A request that cannot be sent.
LEMMA FsRequestFails == FsInv /\ Fs!RequestFails => FsInv'
<1> SUFFICES ASSUME FsInv, Fs!RequestFails PROVE FsInv'
  OBVIOUS
<1>1. /\ f_pc = "request" /\ f_pc' = "idle" /\ m_offset' = offset /\ ret' = "error"
      /\ conn' \in {conn, IF conn = "none" THEN "dead" ELSE conn} /\ reader' = << >>
      /\ UNCHANGED <<m_http, f_wire, m_step, m_size, offset, size, got, stale>>
  BY DEF Fs!RequestFails, Fs!Return
<1>2. /\ FsTypeOK /\ got = << >>
      /\ m_offset = offset \/ f_wire = << >>
      /\ m_step # 2
  BY <1>1 DEF FsInv, ReadAt
<1>3. Whole(f_wire, offset)
  BY <1>2, NothingOnTheWire DEF FsInv, OnTheWire
<1>4. FsTypeOK'
  <2>1. << >> \in Seq(Int) /\ conn' \in {"none", "open", "dead"}
    BY <1>1, <1>2 DEF FsTypeOK
  <2> QED
    BY <1>1, <1>2, <2>1 DEF FsTypeOK
<1>5. OnTheWire'
  BY <1>1, <1>2, <1>3 DEF OnTheWire
<1>6. ReadAt'
  BY <1>1 DEF ReadAt
<1>7. Opened'
  BY <1>1, <1>2 DEF FsInv, Opened
<1>8. ReadRight'
  BY <1>1 DEF FsInv, ReadRight, Fs!ReadRight, Fs!OkIsWhole, Fs!NullAfterFailedOpen
<1> QED
  BY <1>4, <1>5, <1>6, <1>7, <1>8 DEF FsInv

\* The status line is gone with its end: what follows are the bytes from m_offset on.
LEMMA FsHeadRead == ASSUME FsInv, NEW n \in Nat, Fs!HeadRead(n) PROVE FsInv'
<1>1. /\ f_pc = "head" /\ f_pc' = "read" /\ Len(f_wire) >= 2 + n /\ f_wire[1] < 0
      /\ reader' = SubSeq(f_wire, 3, 2 + n) /\ f_wire' = SubSeq(f_wire, 3 + n, Len(f_wire))
      /\ UNCHANGED <<m_http, conn, m_offset, m_step, m_size, offset, size, got, ret, stale>>
  BY DEF Fs!HeadRead, Fs!IsStatusLine
<1>2. /\ FsTypeOK /\ got = << >> /\ ret = "none" /\ m_http /\ size > 0 /\ offset + size <= Size
      /\ m_offset = offset /\ m_step # 2
  BY <1>1 DEF FsInv, ReadAt
<1>3. f_wire \in Seq(Int) /\ offset \in Nat /\ offset \in 0..Size /\ Whole(f_wire, offset)
  BY <1>2, SizeIs DEF FsInv, FsTypeOK, OnTheWire
<1>4. PICK m \in Nat : m = Len(f_wire)
  BY <1>3, LenIs
<1>5. f_wire' \in Seq(Int) /\ Len(f_wire') = m - (2 + n)
      /\ (\A i \in 1..m - (2 + n) : f_wire'[i] = f_wire[2 + n + i])
      /\ Whole(f_wire', offset)
  <2>1. 2 + n \in Nat /\ 2 + n <= Len(f_wire) /\ 2 + n + 1 = 3 + n
    BY <1>1, <1>4
  <2>2. IsRest(SubSeq(f_wire, 2 + n + 1, Len(f_wire)), f_wire, 2 + n)
    BY <1>3, <2>1, RestIs
  <2>3. IsRest(f_wire', f_wire, 2 + n)
    BY <1>1, <2>1, <2>2
  <2> QED
    BY <1>3, <1>4, <2>3, RestWhole DEF IsRest
<1>6. /\ reader' \in Seq(Int) /\ Len(reader') = n
      /\ \A i \in 1..n : reader'[i] = f_wire[2 + i]
  <2>1. \A i \in 3..2 + n : f_wire[i] \in Int
    <3>1. \A i \in 1..m : f_wire[i] \in Int
      BY <1>3, <1>4
    <3> QED
      BY <1>1, <1>4, <3>1
  <2>2. /\ reader' \in Seq(Int) /\ Len(reader') = IF 3 <= 2 + n THEN 2 + n - 3 + 1 ELSE 0
        /\ \A i \in 1..2 + n - 3 + 1 : reader'[i] = f_wire[3 + i - 1]
    BY <1>1, <2>1, SubSeqProperties
  <2>3. \A i \in 1..n : i \in 1..2 + n - 3 + 1 /\ 3 + i - 1 = 2 + i
    OBVIOUS
  <2>4. Len(reader') = n
    BY <2>2
  <2> QED
    BY <2>2, <2>3, <2>4
<1>7. /\ Len(reader' \o f_wire') = n + (m - (2 + n))
      /\ \A i \in 1..n : (reader' \o f_wire')[i] = reader'[i]
      /\ \A i \in 1..m - (2 + n) : (reader' \o f_wire')[n + i] = f_wire'[i]
  <2>1. reader' \in Seq(Int) /\ f_wire' \in Seq(Int) /\ n = Len(reader')
    BY <1>5, <1>6
  <2>2. /\ Len(reader' \o f_wire') = n + Len(f_wire')
        /\ \A i \in 1..n : (reader' \o f_wire')[i] = reader'[i]
        /\ \A i \in 1..Len(f_wire') : (reader' \o f_wire')[n + i] = f_wire'[i]
    BY <2>1, JoinIs
  <2> QED
    BY <1>5, <2>2
<1>8. \A i \in 1..Size - offset : f_wire[2 + i] = offset + i
  <2>1. 1 \in 1..m
    BY <1>1, <1>4
  <2>2. \A i \in 1..Size - offset : f_wire[1 + 1 + i] = offset + i
    BY <1>1, <1>3, <1>4, <2>1 DEF Whole
  <2>3. \A i \in 1..Size - offset : 1 + 1 + i = 2 + i
    BY SizeIs
  <2> QED
    BY <2>2, <2>3
<1>9. ASSUME NEW i \in 1..n + (m - (2 + n)) PROVE (reader' \o f_wire')[i] = f_wire[2 + i]
  <2>1. CASE i <= n
    <3>1. i \in 1..n
      BY <2>1
    <3>2. (reader' \o f_wire')[i] = reader'[i]
      BY <1>7, <3>1
    <3>3. reader'[i] = f_wire[2 + i]
      BY <1>6, <3>1
    <3> QED
      BY <3>2, <3>3
  <2>2. CASE i > n
    <3>1. PICK e \in 1..m - (2 + n) : i = n + e
      <4>1. i - n \in 1..m - (2 + n) /\ i = n + (i - n)
        BY <1>1, <1>4, <2>2
      <4> QED
        BY <4>1
    <3>2. (reader' \o f_wire')[n + e] = f_wire'[e]
      BY <1>7
    <3>3. f_wire'[e] = f_wire[2 + n + e]
      BY <1>5
    <3>4. 2 + n + e = 2 + i
      BY <1>4, <3>1
    <3> QED
      BY <3>1, <3>2, <3>3, <3>4
  <2>3. i <= n \/ i > n
    OBVIOUS
  <2> QED
    BY <2>1, <2>2, <2>3, Zenon
<1>10. Bytes(reader' \o f_wire', offset)
  <2>1. ASSUME NEW i \in 1..n + (m - (2 + n)), i <= Size - offset
        PROVE  (reader' \o f_wire')[i] = offset + i
    <3>1. i \in 1..Size - offset
      BY <1>3, <2>1, SizeIs
    <3> QED
      BY <1>8, <1>9, <3>1
  <2> QED
    BY <1>7, <2>1 DEF Bytes
<1>11. FsTypeOK'
  BY <1>1, <1>2, <1>5, <1>6 DEF FsTypeOK
<1>12. OnTheWire'
  BY <1>1, <1>2, <1>5, <1>10 DEF OnTheWire
<1>13. ReadAt' /\ Opened'
  BY <1>1, <1>2 DEF FsInv, ReadAt, Opened
<1>14. ReadRight'
  BY <1>1 DEF FsInv, ReadRight, Fs!ReadRight, Fs!OkIsWhole, Fs!NullAfterFailedOpen
<1> QED
  BY <1>11, <1>12, <1>13, <1>14 DEF FsInv

\* A header that does not come, or is none.
LEMMA FsHeadFails == ASSUME FsInv, NEW n \in Nat, Fs!HeadFails(n) PROVE FsInv'
<1>1. /\ f_pc = "head" /\ f_pc' = "idle" /\ ret' = "error" /\ n <= Len(f_wire)
      /\ f_wire' = SubSeq(f_wire, n + 1, Len(f_wire))
      /\ UNCHANGED <<m_http, conn, reader, m_offset, m_step, m_size, offset, size, got, stale>>
  BY DEF Fs!HeadFails, Fs!Return
<1>2. FsTypeOK /\ got = << >> /\ m_step # 2
  BY <1>1 DEF FsInv, ReadAt
<1>3. f_wire \in Seq(Int) /\ m_offset \in 0..Size /\ Whole(f_wire, m_offset)
  BY <1>2 DEF FsInv, FsTypeOK, OnTheWire
<1>4. IsRest(f_wire', f_wire, n)
  BY <1>1, <1>3, RestIs
<1>5. f_wire' \in Seq(Int) /\ Whole(f_wire', m_offset)
  BY <1>3, <1>4, RestWhole DEF IsRest
<1>6. FsTypeOK'
  BY <1>1, <1>2, <1>5 DEF FsTypeOK
<1>7. OnTheWire' /\ ReadAt' /\ Opened'
  BY <1>1, <1>2, <1>5 DEF FsInv, OnTheWire, ReadAt, Opened
<1>8. ReadRight'
  BY <1>1 DEF FsInv, ReadRight, Fs!ReadRight, Fs!OkIsWhole, Fs!NullAfterFailedOpen
<1> QED
  BY <1>6, <1>7, <1>8 DEF FsInv

\* A bad status, and a read without a connection.
LEMMA FsEnds == FsInv /\ (Fs!BadStatus \/ Fs!PullNull) => FsInv'
<1> SUFFICES ASSUME FsInv, Fs!BadStatus \/ Fs!PullNull PROVE FsInv'
  OBVIOUS
<1>1. /\ f_pc = "read"
      /\ UNCHANGED <<m_http, conn, f_wire, reader, m_offset, m_step, m_size, offset, size, got, stale>>
      /\ \/ f_pc' = "idle" /\ ret' = "error"
         \/ f_pc' = "null" /\ conn = "none" /\ ret' = ret
  BY DEF Fs!BadStatus, Fs!PullNull, Fs!Return
<1>2. FsTypeOK /\ ret = "none"
  BY <1>1 DEF FsInv, ReadAt
<1>3. conn = "none" => stale
  BY <1>1 DEF FsInv, Opened
<1>4. FsTypeOK'
  BY <1>1, <1>2 DEF FsTypeOK
<1>5. OnTheWire' /\ ReadAt' /\ Opened'
  BY <1>1 DEF FsInv, OnTheWire, ReadAt, Opened
<1>6. ReadRight'
  BY <1>1, <1>2, <1>3 DEF FsInv, ReadRight, Fs!ReadRight, Fs!OkIsWhole, Fs!NullAfterFailedOpen
<1> QED
  BY <1>4, <1>5, <1>6 DEF FsInv

\* m_http->read() takes the first n bytes of what reader and connection hold.
LEMMA FsPull == ASSUME FsInv, NEW n \in 0..size, Fs!Pull(n) PROVE FsInv'
<1>1. /\ f_pc = "read" /\ f_pc' = "idle" /\ conn # "none" /\ n <= Len(reader \o f_wire)
      /\ got' = SubSeq(reader \o f_wire, 1, n)
      /\ m_step' = 2 /\ m_offset' = m_offset + n
      /\ ret' = IF n = size THEN "ok" ELSE "error"
      /\ UNCHANGED <<m_http, conn, m_size, offset, size, stale>>
  BY DEF Fs!Pull, Fs!Return
<1>2. /\ reader' = SubSeq(reader, n + 1, Len(reader))
      /\ f_wire' = IF n <= Len(reader) THEN f_wire
                   ELSE SubSeq(f_wire, n - Len(reader) + 1, Len(f_wire))
  BY DEF Fs!Pull
<1>3. /\ FsTypeOK /\ size > 0 /\ offset + size <= Size /\ m_offset = offset
      /\ Bytes(reader \o f_wire, offset)
  BY <1>1 DEF FsInv, ReadAt, OnTheWire
<1>4. /\ reader \in Seq(Int) /\ f_wire \in Seq(Int) /\ offset \in Nat /\ size \in Nat
      /\ Size \in Nat /\ n \in Nat /\ n <= size
  BY <1>3, SizeIs DEF FsTypeOK
<1>5. IsRest(reader' \o f_wire', reader \o f_wire, n) /\ reader' \in Seq(Int) /\ f_wire' \in Seq(Int)
  <2>1. PICK p \in Nat : p = Len(reader)
    BY <1>4, LenIs
  <2>2. PICK q \in Nat : q = Len(f_wire)
    BY <1>4, LenIs
  <2>3. Len(reader \o f_wire) = p + q
    BY <1>4, <2>1, <2>2, JoinIs
  <2>4. CASE n <= p
    <3>1. IsRest(reader', reader, n) /\ f_wire' = f_wire
      BY <1>2, <1>4, <2>1, <2>4, RestIs
    <3> QED
      <4>1. IsRest(reader' \o f_wire, reader \o f_wire, n)
        BY <1>4, <3>1, ServedByReader
      <4>2. reader' \in Seq(Int)
        BY <3>1 DEF IsRest
      <4> QED
        BY <1>4, <3>1, <4>1, <4>2
  <2>5. CASE n > p
    <3>1. reader' = << >>
      BY <1>2, <1>4, <2>1, <2>5, SubSeqEmpty
    <3>2. PICK d \in Nat : n = p + d /\ d <= q
      <4>1. n - p \in Nat /\ n = p + (n - p) /\ n - p <= q
        BY <1>1, <1>4, <2>3, <2>5
      <4> QED
        BY <4>1
    <3>3. f_wire' = SubSeq(f_wire, d + 1, Len(f_wire))
      <4>1. ~(n <= p) /\ n - p + 1 = d + 1
        BY <1>4, <2>5, <3>2
      <4> QED
        BY <1>2, <2>1, <4>1
    <3>4. IsRest(f_wire', f_wire, d)
      BY <1>4, <2>2, <3>2, <3>3, RestIs
    <3>5. IsRest(f_wire', reader \o f_wire, n) /\ f_wire' \in Seq(Int)
      <4>1. IsRest(f_wire', reader \o f_wire, Len(reader) + d)
        BY <1>4, <3>4, ServedByWire
      <4>2. f_wire' \in Seq(Int)
        BY <3>4 DEF IsRest
      <4> QED
        BY <2>1, <3>2, <4>1, <4>2
    <3>6. << >> \o f_wire' = f_wire' /\ << >> \in Seq(Int)
      BY <3>5, ConcatEmptySeq
    <3> QED
      BY <3>1, <3>5, <3>6
  <2>6. n <= p \/ n > p
    BY <1>4
  <2> QED
    BY <2>4, <2>5, <2>6
<1>6. Bytes(reader' \o f_wire', offset + n)
  BY <1>3, <1>4, <1>5, RestBytes
<1>7. offset + n \in 0..Size
  BY <1>3, <1>4
<1>8. FsTypeOK'
  BY <1>1, <1>3, <1>5, <1>7 DEF FsTypeOK
<1>9. OnTheWire'
  BY <1>1, <1>3, <1>6 DEF OnTheWire
<1>10. ReadAt' /\ Opened'
  BY <1>1 DEF FsInv, ReadAt, Opened
<1>11. ReadRight'
  <2>1. PICK m \in Nat : m = Len(reader \o f_wire)
    BY <1>4, JoinIs, LenIs
  <2>2. /\ got' \in Seq(Int) /\ Len(got') = n
        /\ \A i \in 1..n : got'[i] = (reader \o f_wire)[i]
    <3>1. reader \o f_wire \in Seq(Int) /\ n \in 0..Len(reader \o f_wire)
      BY <1>1, <1>4, <2>1, JoinIs
    <3> QED
      BY <1>1, <3>1, FirstAre
  <2>3. ASSUME NEW i \in 1..n PROVE got'[i] = offset + i
    <3>1. i \in 1..m /\ i <= Size - offset
      BY <1>1, <1>3, <1>4, <2>1
    <3>2. (reader \o f_wire)[i] = offset + i
      BY <1>3, <2>1, <3>1 DEF Bytes
    <3> QED
      BY <2>2, <3>2
  <2>4. got' = [i \in 1..n |-> offset + i]
    BY <2>2, <2>3
  <2>5. n = size => Len(got') = IF offset + size > Size THEN Size - offset ELSE size
    BY <1>3, <1>4, <2>2
  <2> QED
    BY <1>1, <2>2, <2>4, <2>5 DEF ReadRight, Fs!ReadRight, Fs!OkIsWhole, Fs!NullAfterFailedOpen
<1> QED
  BY <1>8, <1>9, <1>10, <1>11 DEF FsInv

\* No step of HttpFs, of its server or of its caller breaks it.
LEMMA FsNext == FsInv /\ [Fs!Next]_(Fs!vars) => FsInv'
<1> SUFFICES ASSUME FsInv, [Fs!Next]_(Fs!vars) PROVE FsInv'
  BY Zenon
<1>1. CASE UNCHANGED Fs!vars
  <2>1. UNCHANGED <<m_http, conn, f_wire, reader, m_offset, m_step, m_size, f_pc, offset, size,
                    got, ret, stale>>
    BY <1>1 DEF Fs!vars
  <2>2. FsTypeOK'
    BY <2>1 DEF FsInv, FsTypeOK
  <2>3. OnTheWire'
    BY <2>1 DEF FsInv, OnTheWire
  <2>4. ReadAt' /\ Opened'
    BY <2>1 DEF FsInv, ReadAt, Opened
  <2>5. ReadRight'
    BY <2>1 DEF FsInv, ReadRight, Fs!ReadRight, Fs!OkIsWhole, Fs!NullAfterFailedOpen
  <2> QED
    BY <2>2, <2>3, <2>4, <2>5 DEF FsInv
<1>2. CASE Fs!Crashed
  BY <1>1, <1>2 DEF Fs!Crashed
<1>3. ASSUME NEW n \in 0..Size, Fs!HeadRead(n) PROVE FsInv'
  BY <1>3, SizeIs, FsHeadRead
<1>4. ASSUME NEW n \in 0..MaxBytes, Fs!HeadFails(n) PROVE FsInv'
  BY <1>4, FsHeadFails, RemoteAssumption
<1>5. CASE Fs!HttpFsStep
  BY <1>3, <1>4, <1>5, FsReopen, FsSizeTest, FsRequest, FsRequestFails, FsEnds, FsPull
    DEF Fs!HttpFsStep
<1> QED
  BY <1>1, <1>2, <1>5, FsPeerCloses, FsOpen, FsClose, FsRead DEF Fs!Next
-----------------------------------------------------------------------------
(* HttpClient *)

\* An answer, or the rest of one, to a request.
Asked(p, u) == [part |-> p, uri |-> u]

\* Every variable keeps its type.
QTypeOK ==
    /\ q_pc \in {"idle", "connect", "request", "read", "status", "body", "next"}
    /\ m_socket \in [open : BOOLEAN, host : Hosts \cup {Nothing}, alive : BOOLEAN]
    /\ m_socket.open \/ q_pc \notin {"idle", "connect"} => m_sLastUri \in Query!Uris
    /\ q_pc # "idle" => round \in Query!Uris
    /\ status \in Query!Answers \cup {Query!NoAnswer}
    /\ left \in BOOLEAN

\* An open socket leads to the host of m_sLastUri, or to the one a redirection has
\* connected to, and so does a round that has its connection.
ConnectedTo ==
    /\ m_socket.open => m_socket.host \in {m_sLastUri.host, moved}
    /\ q_pc \in {"request", "read", "status", "body", "next"} => m_socket.host \in {round.host, moved}

\* Unless a query gave up, the connection is empty between the answers, and holds
\* no more than the answer, or its rest, to the request of this round.
OneAnswer ==
    ~left =>
        /\ q_pc \in {"idle", "connect", "request", "next"} => wire = << >>
        /\ q_pc = "read" => wire \in {<< >>, <<Asked("head", round)>>}
        /\ q_pc \in {"status", "body"} => wire \in {<< >>, <<Asked("rest", round)>>}

\* The inductive invariant of HttpClient.
QInv == QTypeOK /\ ConnectedTo /\ OneAnswer

\* The property of the runs follows.
LEMMA QInvMine == QInv => AnswerIsMine
<1> SUFFICES ASSUME QInv PROVE AnswerIsMine
  OBVIOUS
<1>1. Query!RightHost
  BY DEF QInv, ConnectedTo, Query!RightHost
<1>2. Query!InStep
  <2>1. SUFFICES ASSUME q_pc \in {"read", "status", "body"}, wire # << >>, ~left
                 PROVE  wire = <<[part |-> IF q_pc = "read" THEN "head" ELSE "rest", uri |-> round]>>
    BY Zenon DEF Query!InStep
  <2> QED
    BY <2>1 DEF QInv, OneAnswer, Asked
<1> QED
  BY <1>1, <1>2 DEF AnswerIsMine

\* The invariant holds before the first query.
LEMMA QInit == Query!Init => QInv
<1> SUFFICES ASSUME Query!Init PROVE QInv
  OBVIOUS
<1>1. /\ m_socket = [open |-> FALSE, host |-> Nothing, alive |-> FALSE]
      /\ q_pc = "idle" /\ status = Query!NoAnswer /\ wire = << >> /\ left = FALSE
  BY DEF Query!Init, Query!Closed
<1> QED
  BY <1>1 DEF QInv, QTypeOK, ConnectedTo, OneAnswer

\* A query that returns: it leaves an empty connection, or says that it gave up.
LEMMA QReturns ==
    ASSUME QInv, NEW l \in BOOLEAN, Query!Return(l),
           m_socket' \in [open : BOOLEAN, host : Hosts \cup {Nothing}, alive : BOOLEAN],
           m_socket'.open => m_sLastUri' \in Query!Uris /\ m_socket'.host \in {m_sLastUri'.host, moved'},
           l \/ wire' = << >>
    PROVE  QInv'
<1>1. q_pc' = "idle" /\ left' = l /\ status' = Query!NoAnswer
  BY DEF Query!Return
<1> QED
  BY <1>1 DEF QInv, QTypeOK, ConnectedTo, OneAnswer

\* The query gives up and leaves the socket alone.
LEMMA QGivesUp ==
    ASSUME QInv, Query!Return(TRUE), UNCHANGED <<m_socket, m_sLastUri, moved>>
    PROVE  QInv'
<1>1. /\ m_socket' \in [open : BOOLEAN, host : Hosts \cup {Nothing}, alive : BOOLEAN]
      /\ m_socket'.open => m_sLastUri' \in Query!Uris /\ m_socket'.host \in {m_sLastUri'.host, moved'}
  BY DEF QInv, QTypeOK, ConnectedTo
<1> QED
  BY <1>1, QReturns

\* The connection ends, with or without what is on it.
LEMMA QPeerCloses == QInv /\ Query!PeerCloses => QInv'
<1> SUFFICES ASSUME QInv, Query!PeerCloses PROVE QInv'
  OBVIOUS
<1>1. /\ m_socket' = [m_socket EXCEPT !.alive = FALSE] /\ wire' \in {wire, << >>}
      /\ UNCHANGED <<m_sLastUri, round, q_pc, status, moved, left>>
  BY DEF Query!PeerCloses
<1>2. /\ m_socket' \in [open : BOOLEAN, host : Hosts \cup {Nothing}, alive : BOOLEAN]
      /\ m_socket'.open = m_socket.open /\ m_socket'.host = m_socket.host
  BY <1>1 DEF QInv, QTypeOK
<1>3. QTypeOK' /\ ConnectedTo'
  BY <1>1, <1>2 DEF QInv, QTypeOK, ConnectedTo
<1>4. OneAnswer'
  BY <1>1 DEF QInv, OneAnswer
<1> QED
  BY <1>3, <1>4 DEF QInv

\* A query begins.
LEMMA QQuery == ASSUME QInv, NEW u \in Query!Uris, NEW b \in BOOLEAN, Query!Query(u, b) PROVE QInv'
<1>1. /\ q_pc = "idle" /\ q_pc' = "connect" /\ round' = u
      /\ UNCHANGED <<m_socket, m_sLastUri, status, wire, moved, left>>
  BY DEF Query!Query
<1> QED
  BY <1>1 DEF QInv, QTypeOK, ConnectedTo, OneAnswer

\* connect(): the socket is kept for the same URI, or made for this one.
LEMMA QConnect == ASSUME QInv, NEW ok \in BOOLEAN, Query!Connect(ok) PROVE QInv'
<1>1. q_pc = "connect" /\ round \in Query!Uris
  BY DEF Query!Connect, QInv, QTypeOK
<1>2. CASE /\ m_socket.open /\ m_sLastUri = round /\ q_pc' = "request"
           /\ UNCHANGED <<m_socket, m_sLastUri, wire, moved, left, round, status>>
  BY <1>1, <1>2 DEF QInv, QTypeOK, ConnectedTo, OneAnswer
<1>3. CASE /\ m_sLastUri' = round /\ moved' = Nothing /\ Query!ConnectReal(round.host, ok)
           /\ IF ok THEN q_pc' = "request" /\ left' = FALSE /\ UNCHANGED <<round, status>>
                    ELSE Query!Return(FALSE)
  <2>1. round.host \in Hosts
    BY <1>1 DEF Query!Uris
  <2>2. /\ m_socket' \in [open : BOOLEAN, host : Hosts \cup {Nothing}, alive : BOOLEAN]
        /\ m_socket'.host = round.host /\ wire' = << >>
    BY <1>3, <2>1 DEF Query!ConnectReal
  <2>3. CASE ok
    <3>1. q_pc' = "request" /\ left' = FALSE /\ UNCHANGED <<round, status>>
      BY <1>3, <2>3
    <3> QED
      BY <1>1, <1>3, <2>2, <3>1 DEF QInv, QTypeOK, ConnectedTo, OneAnswer
  <2>4. CASE ~ok
    <3>1. Query!Return(FALSE)
      BY <1>3, <2>4
    <3>2. m_socket'.open => m_sLastUri' \in Query!Uris /\ m_socket'.host \in {m_sLastUri'.host, moved'}
      BY <1>1, <1>3, <2>2
    <3> QED
      BY <2>2, <3>1, <3>2, QReturns
  <2> QED
    BY <2>3, <2>4
<1> QED
  BY <1>2, <1>3 DEF Query!Connect, Query!Reuse, Query!qvars

\* The request goes out, to a peer that works or not.
LEMMA QRequest == QInv /\ (Query!Request \/ Query!RequestLost) => QInv'
<1> SUFFICES ASSUME QInv, Query!Request \/ Query!RequestLost PROVE QInv'
  OBVIOUS
<1>1. /\ q_pc = "request" /\ q_pc' = "read" /\ UNCHANGED <<m_socket, m_sLastUri, round, status, moved, left>>
      /\ wire' = Append(wire, Asked("head", round)) \/ wire' = wire
  BY DEF Query!Request, Query!RequestLost, Asked
<1>2. QTypeOK' /\ ConnectedTo'
  BY <1>1 DEF QInv, QTypeOK, ConnectedTo
<1>3. OneAnswer'
  <2>1. SUFFICES ASSUME ~left PROVE wire' \in {<< >>, <<Asked("head", round)>>}
    BY <1>1 DEF OneAnswer
  <2>2. wire = << >>
    BY <1>1, <2>1 DEF QInv, OneAnswer
  <2> QED
    BY <1>1, <2>2
<1> QED
  BY <1>2, <1>3 DEF QInv

\* A broken pipe: connect() and again, or the end.
LEMMA QRequestPipe == QInv /\ Query!RequestPipe => QInv'
<1> SUFFICES ASSUME QInv, Query!RequestPipe PROVE QInv'
  OBVIOUS
<1>1. /\ q_pc = "request" /\ UNCHANGED <<m_socket, m_sLastUri, wire, moved>>
      /\ \/ Query!Return(TRUE)
         \/ q_pc' = "connect" /\ UNCHANGED <<round, status, left>>
  BY DEF Query!RequestPipe
<1>2. CASE q_pc' = "connect" /\ UNCHANGED <<round, status, left>>
  BY <1>1, <1>2 DEF QInv, QTypeOK, ConnectedTo, OneAnswer
<1> QED
  BY <1>1, <1>2, QGivesUp

\* The errors after which the query returns.
LEMMA QErrors == QInv /\ (Query!RequestError \/ Query!ReadGarbage \/ Query!BodyError \/ Query!HostUnknown) => QInv'
<1> QED
  BY QGivesUp DEF Query!RequestError, Query!ReadGarbage, Query!BodyError, Query!HostUnknown

\* The head of the answer; its rest stays on the connection.
LEMMA QReadHead == ASSUME QInv, NEW a \in Query!Answers, Query!ReadHead(a) PROVE QInv'
<1>1. /\ q_pc = "read" /\ q_pc' = "status" /\ wire # << >> /\ status' = a
      /\ wire' = [wire EXCEPT ![1].part = "rest"]
      /\ UNCHANGED <<m_socket, m_sLastUri, round, moved, left>>
  BY DEF Query!ReadHead
<1>2. QTypeOK' /\ ConnectedTo'
  BY <1>1 DEF QInv, QTypeOK, ConnectedTo
<1>3. OneAnswer'
  <2>1. SUFFICES ASSUME ~left PROVE wire' \in {<< >>, <<Asked("rest", round)>>}
    BY <1>1 DEF OneAnswer
  <2>2. wire = <<Asked("head", round)>>
    BY <1>1, <2>1 DEF QInv, OneAnswer
  <2>3. wire' = <<Asked("rest", round)>>
    BY <1>1, <2>2 DEF Asked
  <2> QED
    BY <2>3
<1> QED
  BY <1>2, <1>3 DEF QInv

\* The status is looked at.
LEMMA QStatus == QInv /\ Query!Status => QInv'
<1> SUFFICES ASSUME QInv, Query!Status PROVE QInv'
  OBVIOUS
<1>1. /\ q_pc = "status" /\ UNCHANGED <<m_socket, m_sLastUri, wire, moved>>
      /\ \/ Query!Return(TRUE)
         \/ q_pc' = "body" /\ UNCHANGED <<round, status, left>>
  BY DEF Query!Status
<1>2. CASE q_pc' = "body" /\ UNCHANGED <<round, status, left>>
  BY <1>1, <1>2 DEF QInv, QTypeOK, ConnectedTo, OneAnswer
<1> QED
  BY <1>1, <1>2, QGivesUp

\* The rest of the answer is taken: nothing is left on the connection.
LEMMA QBodyRead == QInv /\ Query!BodyRead => QInv'
<1> SUFFICES ASSUME QInv, Query!BodyRead PROVE QInv'
  OBVIOUS
<1>1. /\ q_pc = "body" /\ wire # << >> /\ wire' = Tail(wire) /\ UNCHANGED <<m_socket, m_sLastUri, moved>>
      /\ \/ Query!Return(left) \/ Query!Return(TRUE)
         \/ q_pc' = "next" /\ UNCHANGED <<round, status, left>>
  BY DEF Query!BodyRead
<1>2. left \/ wire' = << >>
  <2>1. SUFFICES ASSUME ~left PROVE Tail(wire) = << >>
    BY <1>1
  <2>2. wire = <<Asked("rest", round)>>
    BY <1>1, <2>1 DEF QInv, OneAnswer
  <2> QED
    BY <2>2
<1>3. CASE Query!Return(left)
  <2>1. /\ m_socket' \in [open : BOOLEAN, host : Hosts \cup {Nothing}, alive : BOOLEAN]
        /\ m_socket'.open => m_sLastUri' \in Query!Uris /\ m_socket'.host \in {m_sLastUri'.host, moved'}
        /\ left \in BOOLEAN
    BY <1>1 DEF QInv, QTypeOK, ConnectedTo
  <2> QED
    BY <1>2, <1>3, <2>1, QReturns
<1>4. CASE q_pc' = "next" /\ UNCHANGED <<round, status, left>>
  BY <1>1, <1>2, <1>4 DEF QInv, QTypeOK, ConnectedTo, OneAnswer
<1> QED
  BY <1>1, <1>3, <1>4, QGivesUp

\* A URI that parseUri fills in keeps its host.
LEMMA FullIs == ASSUME NEW u \in Query!Uris PROVE Query!Full(u) \in Query!Uris /\ Query!Full(u).host = u.host
<1> QED
  BY DEF Query!Uris, Query!Full

\* Again with credentials, on the same connection.
LEMMA QAuth == ASSUME QInv, NEW known \in BOOLEAN, Query!Auth(known) PROVE QInv'
<1>1. /\ q_pc = "next" /\ UNCHANGED <<m_socket, m_sLastUri, wire, moved>>
      /\ \/ Query!Return(TRUE)
         \/ round' = Query!Full(round) /\ q_pc' = "request" /\ status' = Query!NoAnswer /\ left' = left
  BY DEF Query!Auth
<1>2. CASE round' = Query!Full(round) /\ q_pc' = "request" /\ status' = Query!NoAnswer /\ left' = left
  <2>1. round' \in Query!Uris /\ round'.host = round.host
    BY <1>1, <1>2, FullIs DEF QInv, QTypeOK
  <2> QED
    BY <1>1, <1>2, <2>1 DEF QInv, QTypeOK, ConnectedTo, OneAnswer
<1> QED
  BY <1>1, <1>2, QGivesUp

\* A redirection leads to a URI, or nowhere.
LEMMA TargetIs ==
    ASSUME NEW l \in {u \in Query!Uris : ~u.full} \cup Paths \cup {Relative, Nothing}, round \in Query!Uris
    PROVE  Query!Target(l) = Nothing \/ Query!Target(l) \in Query!Uris
<1>1. CASE l \in Paths
  <2>1. [round EXCEPT !.path = l] \in Query!Uris
    BY <1>1 DEF Query!Uris
  <2> QED
    BY <1>1, <2>1, FullIs DEF Query!Target
<1>2. CASE l \notin Paths /\ l \in {Relative, Nothing}
  BY <1>2 DEF Query!Target
<1>3. CASE l \notin Paths /\ l \notin {Relative, Nothing}
  <2>1. l \in Query!Uris
    BY <1>3
  <2>2. [round EXCEPT !.path = l.path] \in Query!Uris
    BY <2>1 DEF Query!Uris
  <2> QED
    BY <1>3, <2>1, <2>2, FullIs DEF Query!Target
<1> QED
  BY <1>1, <1>2, <1>3

\* A redirection, on the same connection or on a new one.
LEMMA QRedirect == ASSUME QInv, NEW ok \in BOOLEAN, Query!Redirect(ok) PROVE QInv'
<1>1. q_pc = "next" /\ status.kind = "3xx" /\ m_sLastUri' = m_sLastUri /\ round \in Query!Uris
  BY DEF Query!Redirect, QInv, QTypeOK
<1>2. PICK t : t = Query!Target(status.loc)
  OBVIOUS
<1>3. t = Nothing \/ t \in Query!Uris
  <2>1. status.loc \in {u \in Query!Uris : ~u.full} \cup Paths \cup {Relative, Nothing}
    BY <1>1 DEF QInv, QTypeOK, Query!Answers, Query!NoAnswer
  <2> QED
    BY <1>1, <1>2, <2>1, TargetIs
<1>4. CASE Query!Return(TRUE) /\ UNCHANGED <<m_socket, moved>>
  BY <1>1, <1>4, QGivesUp
<1>5. CASE /\ t # Nothing /\ t.host = round.host
           /\ round' = t /\ q_pc' = "request" /\ status' = Query!NoAnswer
           /\ UNCHANGED <<m_socket, wire, moved, left>>
  BY <1>1, <1>3, <1>5 DEF QInv, QTypeOK, ConnectedTo, OneAnswer
<1>6. CASE /\ t # Nothing /\ Query!ConnectReal(t.host, ok) /\ moved' = t.host
           /\ \/ /\ round' = t /\ q_pc' = "request" /\ status' = Query!NoAnswer /\ left' = FALSE
              \/ Query!Return(FALSE)
  <2>1. t.host \in Hosts
    BY <1>3, <1>6 DEF Query!Uris
  <2>2. /\ m_socket' \in [open : BOOLEAN, host : Hosts \cup {Nothing}, alive : BOOLEAN]
        /\ m_socket'.host = t.host /\ wire' = << >>
    BY <1>6, <2>1 DEF Query!ConnectReal
  <2>3. m_sLastUri' \in Query!Uris
    BY <1>1 DEF QInv, QTypeOK
  <2>4. CASE round' = t /\ q_pc' = "request" /\ status' = Query!NoAnswer /\ left' = FALSE
    BY <1>3, <1>6, <2>2, <2>3, <2>4 DEF QInv, QTypeOK, ConnectedTo, OneAnswer
  <2>5. CASE Query!Return(FALSE)
    BY <1>6, <2>2, <2>3, <2>5, QReturns
  <2> QED
    BY <1>6, <2>4, <2>5
<1> QED
  BY <1>2, <1>4, <1>5, <1>6 DEF Query!Redirect

\* No step of the query, of its caller or of the network breaks it.
LEMMA QNext == QInv /\ [Query!Next]_(Query!vars) => QInv'
<1> SUFFICES ASSUME QInv, [Query!Next]_(Query!vars) PROVE QInv'
  OBVIOUS
<1>1. CASE UNCHANGED Query!vars
  <2>1. UNCHANGED <<m_socket, m_sLastUri, round, q_pc, status, wire, moved, left>>
    BY <1>1 DEF Query!vars
  <2> QED
    BY <2>1 DEF QInv, QTypeOK, ConnectedTo, OneAnswer
<1>2. CASE Query!Client
  BY <1>2, QConnect, QAuth, QRedirect, QRequest, QRequestPipe, QErrors, QStatus, QBodyRead,
     QReadHead DEF Query!Client
<1> QED
  BY <1>1, <1>2, QPeerCloses, QQuery DEF Query!Next

-----------------------------------------------------------------------------
(* HostCache *)

\* The place of a host among the entries S.
Place(S, h) == Cardinality({g \in S : g < h})

\* Every variable keeps its type.
HTypeOK ==
    /\ cache \in [Names!HostNames -> {"none", "fresh", "old"}]
    /\ lk \in [Names!Lookups -> {"none", "sleep", "loop", "get", "ended"}]
    /\ k \in [Names!Lookups -> Nat]
    /\ target = [t \in Names!Lookups |-> target[t]]
    /\ begun \in [Names!Lookups -> SUBSET Names!HostNames]
    /\ seen = [t \in Names!Lookups |-> seen[t]]

\* HostLookups are started one after the other.
Started == \E n \in Nat : \A t \in Names!Lookups : lk[t] # "none" <=> t <= n

\* What a pass has still to look up is in the cache, not before the index; and
\* behind it, but for the host that is looked up, while one is.
Ahead(t) ==
    lk[t] \in {"loop", "get"} =>
        \A h \in begun[t] \ seen[t] :
            /\ h \in Names!Cached /\ Place(Names!Cached, h) >= k[t]
            /\ lk[t] = "get" /\ h # target[t] => Place(Names!Cached, h) > k[t]

\* The inductive invariant of HostCache.
HInv == HTypeOK /\ Started /\ \A t \in Names!Lookups : Ahead(t)

\* The instance counts as FiniteSets does.
LEMMA SameCount == \A S : Names!Cardinality(S) = Cardinality(S)
<1> QED
  BY DEF Names!Cardinality, Cardinality

\* Sets of hosts are finite.
LEMMA HostsFinite ==
    ASSUME NEW S, S \subseteq Names!HostNames
    PROVE  IsFiniteSet(S) /\ Cardinality(S) \in Nat
<1>1. IsFiniteSet(1..H)
  BY FS_Interval, RemoteAssumption
<1> QED
  BY <1>1, FS_Subset, FS_CardinalityType DEF Names!HostNames

\* Entries that come move a host back, never forward.
LEMMA PlaceGrows ==
    ASSUME NEW S, NEW T, S \subseteq T, T \subseteq Names!HostNames, NEW h
    PROVE  Place(S, h) \in Nat /\ Place(T, h) \in Nat /\ Place(S, h) <= Place(T, h)
<1>1. /\ {g \in S : g < h} \subseteq {g \in T : g < h}
      /\ {g \in S : g < h} \subseteq Names!HostNames /\ {g \in T : g < h} \subseteq Names!HostNames
  OBVIOUS
<1> QED
  BY <1>1, HostsFinite, FS_Subset DEF Place

\* An entry's place is below their number.
LEMMA PlaceInside ==
    ASSUME NEW S, S \subseteq Names!HostNames, NEW h \in S
    PROVE  Place(S, h) < Cardinality(S)
<1>1. {g \in S : g < h} \subseteq S /\ {g \in S : g < h} # S
  BY RemoteAssumption DEF Names!HostNames
<1> QED
  BY <1>1, HostsFinite, FS_Subset DEF Place

\* Two hosts have different places.
LEMMA PlacesDiffer ==
    ASSUME NEW S, S \subseteq Names!HostNames, NEW g \in S, NEW h \in S, Place(S, g) = Place(S, h)
    PROVE  g = h
<1>1. ASSUME NEW a \in S, NEW b \in S, a < b PROVE Place(S, a) < Place(S, b)
  <2>1. a \in Nat /\ b \in Nat /\ \A x \in S : x \in Nat
    BY RemoteAssumption DEF Names!HostNames
  <2>2. /\ {x \in S : x < a} \subseteq {x \in S : x < b}
        /\ a \in {x \in S : x < b} /\ a \notin {x \in S : x < a}
    <3>1. ~(a < a) /\ \A x \in S : x < a => x < b
      BY <1>1, <2>1
    <3> QED
      BY <1>1, <3>1
  <2>3. {x \in S : x < b} \subseteq Names!HostNames
    OBVIOUS
  <2> QED
    BY <2>2, <2>3, HostsFinite, FS_Subset DEF Place
<1>2. g \in Nat /\ h \in Nat /\ Place(S, g) \in Nat
  <2>1. g \in Nat /\ h \in Nat
    BY RemoteAssumption DEF Names!HostNames
  <2>2. Place(S, g) \in Nat
    BY PlaceGrows
  <2> QED
    BY <2>1, <2>2
<1>3. ~(g < h) /\ ~(h < g)
  BY <1>1, <1>2
<1> QED
  BY <1>2, <1>3

\* The invariant holds before the first HostLookup.
LEMMA HInit == Names!Init => HInv
<1> SUFFICES ASSUME Names!Init PROVE HInv
  OBVIOUS
<1>1. HTypeOK
  BY DEF Names!Init, HTypeOK
<1>2. \A t \in Names!Lookups : lk[t] = "none" /\ t > 0 /\ t \in Nat
  BY RemoteAssumption DEF Names!Init, Names!Lookups
<1>3. Started
  <2>1. \A t \in Names!Lookups : lk[t] # "none" <=> t <= 0
    BY <1>2
  <2> QED
    BY <2>1 DEF Started
<1>4. \A t \in Names!Lookups : Ahead(t)
  BY <1>2 DEF Ahead
<1> QED
  BY <1>1, <1>3, <1>4 DEF HInv

\* A step that adds entries, or replaces some, disturbs no pass.
LEMMA HAdds ==
    ASSUME HInv, UNCHANGED <<lk, k, target, begun, seen>>,
           cache' \in [Names!HostNames -> {"none", "fresh", "old"}],
           Names!Cached \subseteq Names!Cached'
    PROVE  HInv'
<1>1. HTypeOK' /\ Started'
  BY DEF HInv, HTypeOK, Started
<1>2. ASSUME NEW t \in Names!Lookups PROVE Ahead(t)'
  <2>1. SUFFICES ASSUME lk[t] \in {"loop", "get"}, NEW h \in begun[t] \ seen[t]
                 PROVE  /\ h \in Names!Cached' /\ Place(Names!Cached', h) >= k[t]
                        /\ lk[t] = "get" /\ h # target[t] => Place(Names!Cached', h) > k[t]
    BY DEF Ahead
  <2>2. /\ h \in Names!Cached /\ Place(Names!Cached, h) >= k[t]
        /\ lk[t] = "get" /\ h # target[t] => Place(Names!Cached, h) > k[t]
    BY <2>1 DEF HInv, Ahead
  <2>3. Names!Cached' \subseteq Names!HostNames
    BY DEF Names!Cached
  <2>4. /\ Place(Names!Cached, h) \in Nat /\ Place(Names!Cached', h) \in Nat
        /\ Place(Names!Cached, h) <= Place(Names!Cached', h)
    BY <2>3, PlaceGrows
  <2>5. k[t] \in Nat
    BY DEF HInv, HTypeOK
  <2> QED
    BY <2>2, <2>4, <2>5
<1> QED
  BY <1>1, <1>2 DEF HInv

\* m_Cache.append() takes no entry away.
LEMMA HAppend ==
    ASSUME HTypeOK, NEW h, Names!Append(h) \/ UNCHANGED cache
    PROVE  /\ cache' \in [Names!HostNames -> {"none", "fresh", "old"}]
           /\ Names!Cached \subseteq Names!Cached'
<1>1. /\ cache' \in [Names!HostNames -> {"none", "fresh", "old"}]
      /\ \A g \in Names!HostNames : cache'[g] = "fresh" \/ cache'[g] = cache[g]
  BY DEF HTypeOK, Names!Append
<1> QED
  BY <1>1 DEF Names!Cached

\* The steps of clients and of the manager, but for Start.
LEMMA HOthers ==
    ASSUME HInv, NEW c, NEW h, NEW b,
           \/ Names!Expire(h) \/ Names!Search(c, h, b) \/ Names!ClientStep(c)
           \/ Names!Stop \/ Names!Join \/ Names!Joined
    PROVE  HInv'
<1>1. UNCHANGED <<lk, k, target, begun, seen>>
  BY DEF Names!Expire, Names!Search, Names!ClientStep, Names!Resolve, Names!ClientAppend,
         Names!ResolveFails, Names!Stop, Names!Join, Names!Joined, Names!thread
<1>2. HTypeOK
  BY DEF HInv
<1>3. CASE Names!Expire(h)
  <2>1. /\ cache' \in [Names!HostNames -> {"none", "fresh", "old"}]
        /\ \A g \in Names!HostNames : cache'[g] = cache[g] \/ (cache'[g] = "old" /\ cache[g] = "fresh")
    BY <1>2, <1>3 DEF HTypeOK, Names!Expire
  <2>2. Names!Cached \subseteq Names!Cached'
    BY <2>1 DEF Names!Cached
  <2> QED
    BY <1>1, <2>1, <2>2, HAdds
<1>4. CASE ~Names!Expire(h)
  <2>1. (\E g : Names!Append(g)) \/ UNCHANGED cache
    BY <1>4 DEF Names!Search, Names!ClientStep, Names!Resolve, Names!ClientAppend,
                Names!ResolveFails, Names!Stop, Names!Join, Names!Joined
  <2> QED
    BY <1>1, <1>2, <2>1, HAppend, HAdds
<1> QED
  BY <1>3, <1>4

\* A pass begins: all that is cached is ahead.
LEMMA HWake == ASSUME HInv, NEW t \in Names!Lookups, Names!Wake(t) PROVE HInv'
<1>1. /\ lk[t] = "sleep" /\ lk' = [lk EXCEPT ![t] = "loop"] /\ k' = [k EXCEPT ![t] = 0]
      /\ begun' = [begun EXCEPT ![t] = Names!Cached] /\ seen' = [seen EXCEPT ![t] = {}]
      /\ UNCHANGED <<cache, target>>
  BY DEF Names!Wake
<1>2. HTypeOK
  BY DEF HInv
<1>3. HTypeOK'
  BY <1>1, <1>2 DEF HTypeOK, Names!Cached
<1>4. Started'
  BY <1>1, <1>2 DEF HInv, Started, HTypeOK
<1>5. ASSUME NEW r \in Names!Lookups PROVE Ahead(r)'
  <2>1. CASE r # t
    BY <1>1, <1>2, <2>1 DEF HInv, Ahead, HTypeOK, Names!Cached
  <2>2. CASE r = t
    <3>1. lk'[t] = "loop" /\ k'[t] = 0 /\ begun'[t] = Names!Cached /\ Names!Cached' = Names!Cached
      BY <1>1, <1>2 DEF HTypeOK, Names!Cached
    <3>2. ASSUME NEW h PROVE Place(Names!Cached, h) >= 0
      <4>1. Names!Cached \subseteq Names!HostNames
        BY DEF Names!Cached
      <4> QED
        BY <4>1, PlaceGrows
    <3> QED
      BY <2>2, <3>1, <3>2 DEF Ahead
  <2> QED
    BY <2>1, <2>2
<1> QED
  BY <1>3, <1>4, <1>5 DEF HInv

\* The host at the index is looked up: whatever else is ahead is behind it.
LEMMA HVisit == ASSUME HInv, NEW t \in Names!Lookups, Names!Visit(t) PROVE HInv'
<1>1. /\ lk[t] = "loop" /\ lk' = [lk EXCEPT ![t] = "get"]
      /\ target' = [target EXCEPT ![t] = CHOOSE h \in Names!CachedAt(k[t]) : TRUE]
      /\ UNCHANGED <<cache, k, begun, seen>>
  BY DEF Names!Visit
<1>2. HTypeOK
  BY DEF HInv
<1>3. HTypeOK'
  <2>1. PICK v : target' = [target EXCEPT ![t] = v]
    BY <1>1
  <2>2. target' = [r \in Names!Lookups |-> target'[r]]
    BY <1>2, <2>1 DEF HTypeOK
  <2> QED
    BY <1>1, <1>2, <2>2 DEF HTypeOK
<1>4. Started'
  BY <1>1, <1>2 DEF HInv, Started, HTypeOK
<1>5. Names!Cached \subseteq Names!HostNames /\ Names!Cached' = Names!Cached
  BY <1>1 DEF Names!Cached
<1>6. ASSUME NEW r \in Names!Lookups PROVE Ahead(r)'
  <2>1. CASE r # t
    BY <1>1, <1>2, <1>5, <2>1 DEF HInv, Ahead, HTypeOK
  <2>2. CASE r = t
    <3>1. lk'[t] = "get" /\ target'[t] = CHOOSE h \in Names!CachedAt(k[t]) : TRUE
      BY <1>1, <1>2 DEF HTypeOK
    <3>2. SUFFICES ASSUME NEW h \in begun[t] \ seen[t]
                   PROVE  /\ h \in Names!Cached /\ Place(Names!Cached, h) >= k[t]
                          /\ h # target'[t] => Place(Names!Cached, h) > k[t]
      BY <1>1, <1>5, <2>2, <3>1 DEF Ahead
    <3>3. h \in Names!Cached /\ Place(Names!Cached, h) >= k[t]
      BY <1>1 DEF HInv, Ahead
    <3>4. Place(Names!Cached, h) \in Nat /\ k[t] \in Nat
      BY <1>2, <1>5, PlaceGrows DEF HTypeOK
    <3>5. Place(Names!Cached, h) = k[t] => h = target'[t]
      <4>1. SUFFICES ASSUME Place(Names!Cached, h) = k[t] PROVE h = target'[t]
        OBVIOUS
      <4>2. Names!CachedAt(k[t]) = {g \in Names!Cached : Place(Names!Cached, g) = k[t]}
        BY SameCount DEF Names!CachedAt, Place
      <4>3. target'[t] \in Names!CachedAt(k[t])
        BY <3>1, <3>3, <4>1, <4>2
      <4> QED
        BY <1>5, <3>3, <4>1, <4>2, <4>3, PlacesDiffer
    <3> QED
      BY <3>3, <3>4, <3>5
  <2> QED
    BY <2>1, <2>2
<1> QED
  BY <1>3, <1>4, <1>6 DEF HInv

\* The index goes on behind the host that was looked up.
LEMMA HRefresh == ASSUME HInv, NEW t \in Names!Lookups, Names!Refresh(t) PROVE HInv'
<1>1. /\ lk[t] = "get" /\ lk' = [lk EXCEPT ![t] = "loop"]
      /\ seen' = [seen EXCEPT ![t] = @ \cup {target[t]}]
      /\ k' = [k EXCEPT ![t] = @ + 1] /\ target' = [target EXCEPT ![t] = 0]
      /\ begun' = begun
  BY DEF Names!Refresh, Names!LoopOn
<1>2. HTypeOK
  BY DEF HInv
<1>3. /\ cache' \in [Names!HostNames -> {"none", "fresh", "old"}]
      /\ Names!Cached \subseteq Names!Cached'
  <2>1. Names!Append(target[t]) \/ UNCHANGED cache
    BY DEF Names!Refresh
  <2> QED
    BY <1>2, <2>1, HAppend
<1>4. HTypeOK'
  <2>1. PICK v : seen' = [seen EXCEPT ![t] = v]
    BY <1>1
  <2>2. seen' = [r \in Names!Lookups |-> seen'[r]] /\ target' = [r \in Names!Lookups |-> target'[r]]
    BY <1>1, <1>2, <2>1 DEF HTypeOK
  <2>3. k' \in [Names!Lookups -> Nat] /\ lk' \in [Names!Lookups -> {"none", "sleep", "loop", "get", "ended"}]
    BY <1>1, <1>2 DEF HTypeOK
  <2> QED
    BY <1>1, <1>2, <1>3, <2>2, <2>3 DEF HTypeOK
<1>5. Started'
  BY <1>1, <1>2 DEF HInv, Started, HTypeOK
<1>6. ASSUME NEW r \in Names!Lookups PROVE Ahead(r)'
  <2>1. SUFFICES ASSUME lk'[r] \in {"loop", "get"}, NEW h \in begun[r] \ seen'[r]
                 PROVE  /\ h \in Names!Cached' /\ Place(Names!Cached', h) >= k'[r]
                        /\ lk'[r] = "get" /\ h # target'[r] => Place(Names!Cached', h) > k'[r]
    BY <1>1 DEF Ahead
  <2>2. /\ Place(Names!Cached, h) \in Nat /\ Place(Names!Cached', h) \in Nat
        /\ Place(Names!Cached, h) <= Place(Names!Cached', h)
    <3>1. Names!Cached' \subseteq Names!HostNames
      BY DEF Names!Cached
    <3> QED
      BY <1>3, <3>1, PlaceGrows
  <2>3. k[r] \in Nat
    BY <1>2 DEF HTypeOK
  <2>4. CASE r # t
    <3>1. lk'[r] = lk[r] /\ seen'[r] = seen[r] /\ k'[r] = k[r] /\ target'[r] = target[r]
      BY <1>1, <1>2, <2>4 DEF HTypeOK
    <3>2. /\ h \in Names!Cached /\ Place(Names!Cached, h) >= k[r]
          /\ lk[r] = "get" /\ h # target[r] => Place(Names!Cached, h) > k[r]
      BY <2>1, <3>1 DEF HInv, Ahead
    <3> QED
      BY <1>3, <2>2, <2>3, <3>1, <3>2
  <2>5. CASE r = t
    <3>1. lk'[t] = "loop" /\ seen'[t] = seen[t] \cup {target[t]} /\ k'[t] = k[t] + 1
      BY <1>1, <1>2 DEF HTypeOK
    <3>2. h \in begun[t] \ seen[t] /\ h # target[t]
      BY <2>1, <2>5, <3>1
    <3>3. h \in Names!Cached /\ Place(Names!Cached, h) > k[t]
      BY <1>1, <3>2 DEF HInv, Ahead
    <3> QED
      BY <1>3, <2>2, <2>3, <2>5, <3>1, <3>3
  <2> QED
    BY <2>4, <2>5
<1> QED
  BY <1>4, <1>5, <1>6 DEF HInv

\* The for loop ends, or is left.
LEMMA HPassOver ==
    ASSUME HInv, NEW t \in Names!Lookups, Names!PassEnds(t) \/ Names!RunReturns(t)
    PROVE  HInv'
<1>1. /\ lk[t] = "loop"
      /\ lk' = [lk EXCEPT ![t] = "sleep"] \/ lk' = [lk EXCEPT ![t] = "ended"]
      /\ k' = [k EXCEPT ![t] = 0] /\ begun' = [begun EXCEPT ![t] = {}]
      /\ seen' = [seen EXCEPT ![t] = {}]
      /\ UNCHANGED <<cache, target>>
  BY DEF Names!PassEnds, Names!RunReturns, Names!PassOver
<1>2. HTypeOK
  BY DEF HInv
<1>3. HTypeOK'
  BY <1>1, <1>2 DEF HTypeOK
<1>4. Started'
  BY <1>1, <1>2 DEF HInv, Started, HTypeOK
<1>5. ASSUME NEW r \in Names!Lookups PROVE Ahead(r)'
  <2>1. CASE r # t
    BY <1>1, <1>2, <2>1 DEF HInv, Ahead, HTypeOK, Names!Cached
  <2>2. CASE r = t
    BY <1>1, <1>2, <2>2 DEF HTypeOK, Ahead
  <2> QED
    BY <2>1, <2>2
<1> QED
  BY <1>3, <1>4, <1>5 DEF HInv

\* The HostLookup that start() makes is the first that was never started.
LEMMA HStartsNew ==
    ASSUME HInv, NEW runs \in BOOLEAN, Names!Start(runs)
    PROVE  \E t \in Names!Lookups :
              /\ lk[t] = "none" /\ \A r \in Names!Lookups : lk[r] # "none" <=> r < t
              /\ lk' = [lk EXCEPT ![t] = IF runs THEN "sleep" ELSE "ended"]
              /\ UNCHANGED <<cache, k, target, begun, seen>>
<1> DEFINE S == {x \in Names!Lookups : lk[x] # "none"}
<1>1. PICK n \in Nat : \A r \in Names!Lookups : lk[r] # "none" <=> r <= n
  BY DEF HInv, Started
<1>2. PICK m \in Nat : m = Names!Cardinality(S)
  <2>1. IsFiniteSet(1..MaxLookups) /\ S \subseteq 1..MaxLookups
    BY FS_Interval, RemoteAssumption DEF Names!Lookups
  <2>2. Cardinality(S) \in Nat
    BY <2>1, FS_Subset, FS_CardinalityType
  <2> QED
    BY <2>2, SameCount
<1>3. m + 1 \in Names!Lookups
  BY <1>2 DEF Names!Start
<1>4. m = IF n <= MaxLookups THEN n ELSE MaxLookups
  <2>1. CASE n <= MaxLookups
    <3>1. S = 1..n
      BY <1>1, <2>1, RemoteAssumption DEF Names!Lookups
    <3>2. Cardinality(1..n) = n
      BY FS_Interval
    <3> QED
      BY <1>2, <2>1, <3>1, <3>2, SameCount
  <2>2. CASE n > MaxLookups
    <3>1. S = 1..MaxLookups
      BY <1>1, <2>2, RemoteAssumption DEF Names!Lookups
    <3>2. Cardinality(1..MaxLookups) = MaxLookups
      BY FS_Interval, RemoteAssumption
    <3>3. MaxLookups \in Nat /\ ~(n <= MaxLookups)
      BY <2>2, RemoteAssumption
    <3>4. m = Cardinality(1..MaxLookups)
      BY <1>2, <3>1, SameCount
    <3> QED
      BY <3>2, <3>3, <3>4
  <2> QED
    BY <2>1, <2>2, RemoteAssumption
<1>5. m = n
  BY <1>3, <1>4, RemoteAssumption DEF Names!Lookups
<1>6. lk[m + 1] = "none" /\ \A r \in Names!Lookups : lk[r] # "none" <=> r < m + 1
  BY <1>1, <1>3, <1>5, RemoteAssumption DEF Names!Lookups
<1>7. /\ lk' = [lk EXCEPT ![m + 1] = IF runs THEN "sleep" ELSE "ended"]
      /\ UNCHANGED <<cache, k, target, begun, seen>>
  BY <1>2 DEF Names!Start
<1> QED
  BY <1>3, <1>6, <1>7

\* start() makes a HostLookup that is not in a pass.
LEMMA HStart == ASSUME HInv, NEW runs \in BOOLEAN, Names!Start(runs) PROVE HInv'
<1>1. PICK t \in Names!Lookups :
        /\ lk[t] = "none" /\ \A r \in Names!Lookups : lk[r] # "none" <=> r < t
        /\ lk' = [lk EXCEPT ![t] = IF runs THEN "sleep" ELSE "ended"]
        /\ UNCHANGED <<cache, k, target, begun, seen>>
  BY HStartsNew
<1>2. HTypeOK
  BY DEF HInv
<1>3. HTypeOK'
  BY <1>1, <1>2 DEF HTypeOK
<1>4. Started'
  <2>1. ASSUME NEW r \in Names!Lookups PROVE lk'[r] # "none" <=> r <= t
    <3>1. r \in Nat /\ t \in Nat
      BY RemoteAssumption DEF Names!Lookups
    <3> QED
      BY <1>1, <1>2, <3>1 DEF HTypeOK
  <2>2. t \in Nat
    BY RemoteAssumption DEF Names!Lookups
  <2> QED
    BY <2>1, <2>2 DEF Started
<1>5. ASSUME NEW r \in Names!Lookups PROVE Ahead(r)'
  <2>1. CASE r # t
    BY <1>1, <1>2, <2>1 DEF HInv, Ahead, HTypeOK, Names!Cached
  <2>2. CASE r = t
    BY <1>1, <1>2, <2>2 DEF HTypeOK, Ahead
  <2> QED
    BY <2>1, <2>2
<1> QED
  BY <1>3, <1>4, <1>5 DEF HInv

\* No step of a client, of a HostLookup or of the manager breaks it.
LEMMA HNext == HInv /\ [Names!Next]_(Names!vars) => HInv'
<1> SUFFICES ASSUME HInv, [Names!Next]_(Names!vars) PROVE HInv'
  OBVIOUS
<1>1. CASE UNCHANGED Names!vars
  <2>1. UNCHANGED <<cache, lk, k, target, begun, seen>>
    BY <1>1 DEF Names!vars, Names!thread
  <2>2. HTypeOK'
    BY <2>1 DEF HInv, HTypeOK
  <2>3. Started' /\ \A t \in Names!Lookups : Ahead(t)'
    BY <2>1 DEF HInv, Started, Ahead, Names!Cached
  <2> QED
    BY <2>2, <2>3 DEF HInv
<1>2. ASSUME NEW t \in Names!Lookups, Names!LookupStep(t) PROVE HInv'
  BY <1>2, HWake, HVisit, HRefresh, HPassOver DEF Names!LookupStep
<1>3. CASE Names!Stop \/ Names!Join \/ Names!Joined
  <2>1. UNCHANGED <<cache, lk, k, target, begun, seen>>
    BY <1>3 DEF Names!Stop, Names!Join, Names!Joined, Names!thread
  <2>2. cache' \in [Names!HostNames -> {"none", "fresh", "old"}] /\ Names!Cached \subseteq Names!Cached'
    BY <2>1 DEF HInv, HTypeOK, Names!Cached
  <2> QED
    BY <2>1, <2>2, HAdds
<1> QED
  BY <1>1, <1>2, <1>3, HOthers, HStart DEF Names!Next, Names!Lookups

\* The action that PassCoversCache forbids: a pass that ends before it is through.
PassLeavesOut == \E t \in Names!Lookups : lk[t] = "loop" /\ lk'[t] = "sleep" /\ ~(begun[t] \subseteq seen[t])

\* When the index is behind the last entry, nothing is ahead of it.
LEMMA HCovers == HInv /\ [Names!Next]_(Names!vars) => ~PassLeavesOut
<1> SUFFICES ASSUME HInv, [Names!Next]_(Names!vars), NEW t \in Names!Lookups,
                    lk[t] = "loop", lk'[t] = "sleep"
             PROVE  begun[t] \subseteq seen[t]
  BY DEF PassLeavesOut
<1>1. HTypeOK
  BY DEF HInv
<1>2. ASSUME lk' = lk PROVE FALSE
  BY <1>2
<1>3. CASE Names!PassEnds(t)
  <2>1. SUFFICES ASSUME NEW h \in begun[t] \ seen[t] PROVE FALSE
    OBVIOUS
  <2>2. k[t] >= Cardinality(Names!Cached) /\ k[t] \in Nat
    BY <1>1, <1>3, SameCount DEF Names!PassEnds, HTypeOK
  <2>3. h \in Names!Cached /\ Place(Names!Cached, h) >= k[t]
    BY <2>1 DEF HInv, Ahead
  <2>4. Names!Cached \subseteq Names!HostNames
    BY DEF Names!Cached
  <2>5. Place(Names!Cached, h) < Cardinality(Names!Cached) /\ Place(Names!Cached, h) \in Nat
        /\ Cardinality(Names!Cached) \in Nat
    BY <2>3, <2>4, PlaceInside, PlaceGrows, HostsFinite
  <2> QED
    BY <2>2, <2>3, <2>5
<1>4. ASSUME NEW r \in Names!Lookups, Names!LookupStep(r) PROVE Names!PassEnds(t)
  <2>1. r = t
    BY <1>1, <1>4 DEF Names!LookupStep, Names!Wake, Names!Visit, Names!Refresh, Names!PassEnds,
                      Names!RunReturns, HTypeOK
  <2> QED
    BY <1>1, <1>4, <2>1 DEF Names!LookupStep, Names!Wake, Names!Visit, Names!Refresh,
                            Names!RunReturns, HTypeOK
<1>5. ASSUME NEW runs \in BOOLEAN, Names!Start(runs) PROVE FALSE
  <2>1. PICK r \in Names!Lookups :
          lk[r] = "none" /\ lk' = [lk EXCEPT ![r] = IF runs THEN "sleep" ELSE "ended"]
    BY <1>5, HStartsNew
  <2> QED
    BY <1>1, <2>1 DEF HTypeOK
<1>6. ASSUME NEW c, NEW h, NEW b,
             \/ Names!Expire(h) \/ Names!Search(c, h, b) \/ Names!ClientStep(c)
             \/ Names!Stop \/ Names!Join \/ Names!Joined
      PROVE  FALSE
  BY <1>2, <1>6 DEF Names!Expire, Names!Search, Names!ClientStep, Names!Resolve, Names!ClientAppend,
         Names!ResolveFails, Names!Stop, Names!Join, Names!Joined, Names!thread
<1>7. CASE UNCHANGED Names!vars
  BY <1>2, <1>7 DEF Names!vars, Names!thread
<1> QED
  BY <1>3, <1>4, <1>5, <1>6, <1>7 DEF Names!Next

-----------------------------------------------------------------------------
(* The three side by side. *)

\* The inductive invariant of MC_RemoteFiles.
RemoteInv == QInv /\ FsInv /\ HInv

\* A step of one part is a step of it, and none of the others.
LEMMA RemoteSteps ==
    [RemoteNext]_remote => [Query!Next]_(Query!vars) /\ [Fs!Next]_(Fs!vars) /\ [Names!Next]_(Names!vars)
<1> SUFFICES ASSUME [RemoteNext]_remote
             PROVE  [Query!Next]_(Query!vars) /\ [Fs!Next]_(Fs!vars) /\ [Names!Next]_(Names!vars)
  OBVIOUS
<1>1. UNCHANGED query => UNCHANGED Query!vars
  BY DEF query, Query!vars, Query!qvars
<1>2. UNCHANGED fs => UNCHANGED Fs!vars
  BY DEF fs, Fs!vars
<1>3. UNCHANGED names => UNCHANGED Names!vars
  BY DEF names, Names!vars, Names!client, Names!thread, Names!manager
<1>4. CASE UNCHANGED remote
  BY <1>1, <1>2, <1>3, <1>4 DEF remote
<1> QED
  BY <1>1, <1>2, <1>3, <1>4 DEF RemoteNext, QueryMoves, FsMoves, NamesMove

\* The three invariants hold initially,
LEMMA RemoteInvInit == RemoteInit => RemoteInv
<1> QED
  BY QInit, FsInit, HInit DEF RemoteInit, RemoteInv

\* and no step breaks them.
LEMMA RemoteInvNext == RemoteInv /\ [RemoteNext]_remote => RemoteInv'
<1> QED
  BY RemoteSteps, QNext, FsNext, HNext DEF RemoteInv

\* HttpConnection sends a request to the host of its round, and takes the answer to
\* it, through any number of queries, redirections, retries and broken pipes.
THEOREM AnswersAreMine == RemoteFiles => []AnswerIsMine
<1>1. RemoteInv => AnswerIsMine
  BY QInvMine DEF RemoteInv
<1> QED
  BY <1>1, RemoteInvInit, RemoteInvNext, PTL DEF RemoteFiles

\* HttpFs::read gives the bytes of the file at its offset, all of them when it
\* succeeds, whatever was read, and came late, before.
THEOREM ReadsAreRight == RemoteFiles => []ReadRight
<1>1. RemoteInv => ReadRight
  BY DEF RemoteInv, FsInv
<1> QED
  BY <1>1, RemoteInvInit, RemoteInvNext, PTL DEF RemoteFiles

\* A pass of HostLookup::run leaves out no host that was cached when it began.
THEOREM PassesCoverCache == RemoteFiles => PassCoversCache
<1>1. RemoteInv /\ [RemoteNext]_remote =>
        [\A t \in Names!Lookups : lk[t] = "loop" /\ lk'[t] = "sleep" => begun[t] \subseteq seen[t]]_(Names!vars)
  BY RemoteSteps, HCovers DEF RemoteInv, PassLeavesOut
<1> QED
  BY <1>1, RemoteInvInit, RemoteInvNext, PTL DEF RemoteFiles, PassCoversCache, Names!PassCoversCache

-----------------------------------------------------------------------------
(* OriginFs *)

\* The history is right: an origin that was up since the loop began is up now.
SteadyUp == \A c \in Clients : \A i \in steady[c] : up[i]

\* The inductive invariant: LoopInv needs SteadyUp, because a failed try says that
\* the origin is down now.
FailoverInv == TypeOK /\ LoopInv /\ SteadyUp

USE NAssumption DEF Origins, None, Ops

\* The strengthened invariant holds initially.
LEMMA FailoverInit == Init => FailoverInv
  BY DEF Init, FailoverInv, TypeOK, LoopInv, SteadyUp

\* The loop has tried nothing when it begins behind m_current.
LEMMA NothingTried ==
  ASSUME TypeOK, NEW c \in Clients, NEW op \in Ops, Begin(c, op)
  PROVE  Tried(c)' = {}
  BY DEF TypeOK, Begin, Tried

\* An iteration that goes on adds the origin it tried, and no other one.
LEMMA OneMoreTried ==
  ASSUME TypeOK, LoopInv, NEW c \in Clients, pc[c] # "idle",
         ~LastTried(c, Wrapped(cur[c])), start' = start,
         cur' = [cur EXCEPT ![c] = Wrapped(cur[c]) + 1]
  PROVE  /\ Tried(c)' \subseteq Tried(c) \cup {Wrapped(cur[c])}
         /\ Wrapped(cur[c])' \notin Tried(c)'
  <1>1. cur'[c] = Wrapped(cur[c]) + 1 /\ start'[c] = start[c]
    BY DEF TypeOK
  <1>2. cur[c] \in 0..N + 1 /\ start[c] \in 0..N
    BY DEF TypeOK
  <1>3. (N > 0 => start[c] \in 0..N - 1) /\ (N = 0 => start[c] = 0)
    BY DEF LoopInv
  <1> QED
    BY <1>1, <1>2, <1>3 DEF Tried, Wrapped, LastTried

\* When the last origin has been tried, every origin but it had been tried before.
LEMMA AllTried ==
  ASSUME TypeOK, LoopInv, NEW c \in Clients, pc[c] # "idle",
         LastTried(c, Wrapped(cur[c]))
  PROVE  Origins \subseteq Tried(c) \cup {Wrapped(cur[c])}
  <1>1. cur[c] \in 0..N + 1 /\ start[c] \in 0..N
    BY DEF TypeOK
  <1>2. (N > 0 => start[c] \in 0..N - 1) /\ (N = 0 => start[c] = 0)
    BY DEF LoopInv
  <1> QED
    BY <1>1, <1>2 DEF Tried, Wrapped, LastTried

\* No step of a connection or of an origin breaks it.
LEMMA FailoverNext == FailoverInv /\ [Next]_vars => FailoverInv'
  <1> SUFFICES ASSUME FailoverInv, [Next]_vars PROVE FailoverInv'
    OBVIOUS
  <1>0. TypeOK /\ LoopInv /\ SteadyUp
    BY DEF FailoverInv
  <1>1. ASSUME NEW i \in Origins, Flip(i) PROVE FailoverInv'
    <2>1. TypeOK'
      BY <1>0, <1>1 DEF Flip, local, TypeOK
    <2>2. LoopInv'
      BY <1>0, <1>1 DEF Flip, local, TypeOK, LoopInv, Tried, Wrapped
    <2>3. SteadyUp'
      BY <1>0, <1>1 DEF Flip, TypeOK, SteadyUp
    <2> QED
      BY <2>1, <2>2, <2>3 DEF FailoverInv
  <1>2. ASSUME NEW c \in Clients, Ready(c) \/ NotReady(c) \/ UseOpened(c)
        PROVE  FailoverInv'
    <2>1. TypeOK'
      BY <1>0, <1>2 DEF Ready, NotReady, UseOpened, TypeOK
    <2>2. UNCHANGED <<up, pc, start, cur, steady>>
      BY <1>2 DEF Ready, NotReady, UseOpened
    <2> QED
      BY <1>0, <2>1, <2>2 DEF FailoverInv, LoopInv, SteadyUp, Tried, Wrapped
  <1>3. ASSUME NEW c \in Clients, NEW op \in Ops, Begin(c, op) PROVE FailoverInv'
    <2>1. TypeOK'
      BY <1>0, <1>3 DEF Begin, TypeOK
    <2>2. LoopInv'
      <3>1. SUFFICES ASSUME NEW d \in Clients, pc'[d] # "idle"
                     PROVE  /\ steady'[d] \cap Tried(d)' = {}
                            /\ Wrapped(cur[d])' \notin Tried(d)'
                            /\ N > 0 => start'[d] \in Origins
                            /\ N = 0 => start'[d] = 0
        BY DEF LoopInv
      <3>2. CASE d = c
        <4>1. Tried(c)' = {}
          BY <1>0, <1>3, NothingTried
        <4>2. start'[c] = m_current
          BY <1>0, <1>3 DEF TypeOK, Begin
        <4> QED
          BY <1>0, <3>2, <4>1, <4>2 DEF TypeOK
      <3>3. CASE d # c
        <4>1. /\ pc'[d] = pc[d] /\ start'[d] = start[d] /\ cur'[d] = cur[d]
              /\ steady'[d] = steady[d]
          BY <1>0, <1>3, <3>3 DEF Begin, TypeOK
        <4> QED
          BY <1>0, <3>1, <4>1 DEF LoopInv, Tried, Wrapped
      <3> QED
        BY <3>2, <3>3
    <2>3. SteadyUp'
      BY <1>0, <1>3 DEF Begin, TypeOK, SteadyUp
    <2> QED
      BY <2>1, <2>2, <2>3 DEF FailoverInv
  <1>4. ASSUME NEW c \in Clients, Step(c) PROVE FailoverInv'
    <2> DEFINE here == Wrapped(cur[c])
    <2>1. cur[c] \in 0..N + 1 /\ start[c] \in 0..N /\ here \in 0..N
      BY <1>0 DEF TypeOK, Wrapped
    <2>2. TypeOK'
      <3>1. CASE Found(c)
        BY <1>0, <2>1, <3>1 DEF Found, Return, Serves, TypeOK
      <3>2. CASE Missed(c)
        <4>1. CASE LastTried(c, here)
          <5>1. Return(c, "error") /\ UNCHANGED <<m_current, up, m_bInit, m_fs>>
            BY <3>2, <4>1 DEF Missed
          <5> QED
            BY <1>0, <5>1 DEF Return, TypeOK
        <4>2. CASE ~LastTried(c, here)
          <5>1. /\ cur' = [cur EXCEPT ![c] = here + 1]
                /\ UNCHANGED <<m_current, up, m_bInit, m_fs, pc, start, result, steady>>
            BY <3>2, <4>2 DEF Missed
          <5>2. here + 1 \in 0..N + 1
            BY <2>1
          <5>3. cur' \in [Clients -> 0..N + 1]
            BY <1>0, <5>1, <5>2 DEF TypeOK
          <5> QED
            BY <1>0, <5>1, <5>3 DEF TypeOK
        <4> QED
          BY <4>1, <4>2
      <3> QED
        BY <1>4, <3>1, <3>2 DEF Step
    <2>3. /\ up' = up
          /\ \A d \in Clients \ {c} :
                /\ pc'[d] = pc[d] /\ start'[d] = start[d]
                /\ cur'[d] = cur[d] /\ steady'[d] = steady[d]
      BY <1>0, <1>4 DEF Step, Found, Missed, Return, TypeOK
    <2>4. \/ pc'[c] = "idle" /\ steady'[c] = {}
          \/ /\ pc[c] # "idle" /\ ~Serves(here) /\ ~LastTried(c, here)
             /\ cur' = [cur EXCEPT ![c] = here + 1]
             /\ UNCHANGED <<pc, start, steady>>
      BY <1>0, <1>4 DEF Step, Found, Missed, Return, TypeOK
    <2>5. steady'[c] = {} \/ steady'[c] = steady[c]
      BY <2>4
    <2>6. SteadyUp'
      BY <1>0, <2>3, <2>5 DEF SteadyUp
    <2>7. LoopInv'
      <3>1. SUFFICES ASSUME NEW d \in Clients, pc'[d] # "idle"
                     PROVE  /\ steady'[d] \cap Tried(d)' = {}
                            /\ Wrapped(cur[d])' \notin Tried(d)'
                            /\ N > 0 => start'[d] \in Origins
                            /\ N = 0 => start'[d] = 0
        BY DEF LoopInv
      <3>2. CASE d = c
        <4>1. /\ pc[c] # "idle" /\ ~Serves(here) /\ ~LastTried(c, here)
              /\ cur' = [cur EXCEPT ![c] = here + 1]
              /\ UNCHANGED <<pc, start, steady>>
          BY <2>4, <3>1, <3>2
        <4>2. /\ Tried(c)' \subseteq Tried(c) \cup {here}
              /\ Wrapped(cur[c])' \notin Tried(c)'
          BY <1>0, <4>1, OneMoreTried
        <4>3. here \notin steady[c]
          BY <1>0, <4>1 DEF TypeOK, SteadyUp, Serves
        <4>4. steady[c] \cap Tried(c) = {}
          BY <1>0, <4>1 DEF LoopInv
        <4> QED
          BY <1>0, <3>2, <4>1, <4>2, <4>3, <4>4 DEF LoopInv
      <3>3. CASE d # c
        BY <1>0, <2>3, <3>1, <3>3 DEF LoopInv, Tried, Wrapped
      <3> QED
        BY <3>2, <3>3
    <2> QED
      BY <2>2, <2>6, <2>7 DEF FailoverInv
  <1>5. CASE UNCHANGED vars
    BY <1>0, <1>5 DEF vars, FailoverInv, TypeOK, LoopInv, SteadyUp, Tried, Wrapped
  <1> QED
    BY <1>1, <1>2, <1>3, <1>4, <1>5 DEF Next

\* The shared index m_current and the local index of every loop stay inside the
\* list of origins, whatever connections do to m_current without a lock.
THEOREM FailoverTypes == Spec => []TypeOK
  <1>1. FailoverInv => TypeOK
    BY DEF FailoverInv
  <1> QED
    BY <1>1, FailoverInit, FailoverNext, PTL DEF Spec

\* The failover loop of getattr, readdir and open has tried exactly the origins
\* from start + 1 to cur - 1, and each of them was unreachable meanwhile.
THEOREM LoopCorrect == Spec => []LoopInv
  <1>1. FailoverInv => LoopInv
    BY DEF FailoverInv
  <1> QED
    BY <1>1, FailoverInit, FailoverNext, PTL DEF Spec

\* getattr, readdir and open report an error only when no origin could serve the
\* path throughout the operation.
THEOREM FailsOnlyIfNoneServes == Spec => NoFalseFailure
  <1> DEFINE A(c) == pc[c] # "idle" /\ pc'[c] = "idle" /\ result'[c] = "error"
  <1>1. ASSUME FailoverInv, [Next]_vars
        PROVE  [\A c \in Clients : A(c) => steady[c] = {}]_vars
    <2>1. SUFFICES ASSUME Next, NEW c \in Clients, A(c) PROVE steady[c] = {}
      BY <1>1
    <2>2. TypeOK /\ LoopInv /\ SteadyUp
      BY <1>1 DEF FailoverInv
    <2>3. /\ ~Serves(Wrapped(cur[c])) /\ LastTried(c, Wrapped(cur[c]))
      BY <2>1, <2>2 DEF Next, Flip, local, Ready, NotReady, UseOpened, Begin, Step,
                        Found, Missed, Return, TypeOK
    <2>4. Origins \subseteq Tried(c) \cup {Wrapped(cur[c])}
      BY <2>1, <2>2, <2>3, AllTried
    <2>5. Wrapped(cur[c]) \notin steady[c] /\ steady[c] \subseteq Origins
      BY <2>2, <2>3 DEF TypeOK, SteadyUp, Serves
    <2>6. steady[c] \cap Tried(c) = {}
      BY <2>1, <2>2 DEF LoopInv
    <2> QED
      BY <2>4, <2>5, <2>6
  <1> QED
    BY <1>1, FailoverInit, FailoverNext, PTL DEF Spec, NoFalseFailure
=============================================================================
