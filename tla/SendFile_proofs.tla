--------------------------- MODULE SendFile_proofs ---------------------------
(***************************************************************************)
(* Proofs about SendFile, for every file size, every number in a Range     *)
(* header, every width of the integers, and every cut of reads and sends.  *)
(*                                                                         *)
(* What is checked speaks of the body alone.  A step keeps it because of   *)
(* what the fields of sendLocalFile say of each other: m_iFileSended is    *)
(* the length of the body, m_buffer holds the positions that follow it,    *)
(* m_iFileOffset is where the next read goes on, and all of that ends      *)
(* within m_iFileSendLength.                                               *)
(***************************************************************************)
EXTENDS SendFile, SequenceTheorems, TLAPS

\* The fields agree on how far the file has been read and sent.
Books ==
    /\ body = Positions(first, sent)
    /\ buf = Positions(first + sent, Len(buf))
    /\ offset = first + sent + Len(buf)
    /\ sent + Len(buf) <= flen

\* What m_iFileStatus says of the header and the body.
Stage ==
    pc = "file" /\ fstatus # 0 =>
        /\ fstatus \in {2, 3} => left = 0
        /\ req.method = "HEAD" => sent = 0 /\ buf = << >>
        /\ fstatus = 3 /\ req.method # "HEAD" => sent = flen

\* m_iFileSize is a size of a file.
SizeFits == size < Word

IInv == TypeOK /\ SizeFits /\ RangeWithinFile /\ Books /\ Stage

-----------------------------------------------------------------------------
(* The operators of the model. *)

\* Arithmetic modulo Word leaves a number of the type alone, and makes one of every
\* other.
LEMMA Wraps ==
    ASSUME Word > 0, NEW n \in Int
    PROVE  U(n) \in Nat /\ U(n) < Word /\ (n \in 0 .. Word - 1 => U(n) = n)
<1>1. Word \in Nat
  BY SendFileAssumption
<1>2. n % Word \in 0 .. Word - 1
  BY <1>1
<1>3. n \in 0 .. Word - 1 => n % Word = n
  BY <1>1
<1> QED
  BY <1>1, <1>2, <1>3 DEF U

\* n positions from a first one on.
LEMMA PositionsAre ==
    ASSUME NEW from \in Nat, NEW n \in Nat
    PROVE  /\ Positions(from, n) \in Seq(Nat) /\ Len(Positions(from, n)) = n
           /\ DOMAIN Positions(from, n) = 1 .. n
           /\ \A i \in 1 .. n : Positions(from, n)[i] = from + i - 1
BY DEF Positions

\* None are none.
LEMMA NoPositions ==
    ASSUME NEW from \in Nat
    PROVE  Positions(from, 0) = << >> /\ Len(<< >>) = 0
BY DEF Positions

\* Two runs of positions, one after the other, are one run.
LEMMA PositionsJoin ==
    ASSUME NEW from \in Nat, NEW m \in Nat, NEW n \in Nat
    PROVE  Positions(from, m) \o Positions(from + m, n) = Positions(from, m + n)
<1> DEFINE s == Positions(from, m)
           t == Positions(from + m, n)
           u == Positions(from, m + n)
<1>1. from + m \in Nat /\ m + n \in Nat
  OBVIOUS
<1>2. /\ s \in Seq(Nat) /\ Len(s) = m /\ \A i \in 1 .. m : s[i] = from + i - 1
      /\ t \in Seq(Nat) /\ Len(t) = n /\ \A i \in 1 .. n : t[i] = from + m + i - 1
      /\ u \in Seq(Nat) /\ Len(u) = m + n /\ \A i \in 1 .. m + n : u[i] = from + i - 1
  BY <1>1, PositionsAre
<1> DEFINE w == s \o t
<1> HIDE DEF s, t, u
<1>3. /\ w \in Seq(Nat) /\ Len(w) = m + n
      /\ \A i \in 1 .. m + n : w[i] = IF i <= m THEN s[i] ELSE t[i - m]
  BY <1>2, ConcatProperties, Zenon
<1> HIDE DEF w
<1>4. ASSUME NEW i \in 1 .. m + n
      PROVE  w[i] = u[i]
  <2>1. CASE i <= m
    BY <1>2, <1>3, <2>1
  <2>2. CASE ~(i <= m)
    <3>1. w[i] = t[i - m] /\ i - m \in 1 .. n
      BY <1>3, <2>2
    <3> QED
      BY <1>2, <3>1
  <2> QED
    BY <2>1, <2>2
<1>5. w = u
  BY <1>2, <1>3, <1>4, SeqEqual
<1> QED
  BY <1>5 DEF s, t, u, w

\* A run of positions cut in two is two runs.
LEMMA PositionsCut ==
    ASSUME NEW from \in Nat, NEW n \in Nat, NEW k \in 0 .. n
    PROVE  /\ SubSeq(Positions(from, n), 1, k) = Positions(from, k)
           /\ SubSeq(Positions(from, n), k + 1, n) = Positions(from + k, n - k)
<1> DEFINE s == Positions(from, n)
           t == Positions(from, k)
           u == Positions(from + k, n - k)
<1>1. k \in Nat /\ n - k \in Nat /\ from + k \in Nat
  OBVIOUS
<1>2. /\ s \in Seq(Nat) /\ Len(s) = n /\ \A i \in 1 .. n : s[i] = from + i - 1
      /\ t \in Seq(Nat) /\ Len(t) = k /\ \A i \in 1 .. k : t[i] = from + i - 1
      /\ u \in Seq(Nat) /\ Len(u) = n - k /\ \A i \in 1 .. n - k : u[i] = from + k + i - 1
  BY <1>1, PositionsAre
<1> HIDE DEF s, t, u
<1>3. SubSeq(s, 1, k) = t
  <2>1. SubSeq(s, 1, k) \in Seq(Nat) /\ Len(SubSeq(s, 1, k)) = k
    BY <1>2
  <2>2. \A i \in 1 .. k : SubSeq(s, 1, k)[i] = t[i]
    BY <1>2
  <2> QED
    BY <1>2, <2>1, <2>2
<1>4. SubSeq(s, k + 1, n) = u
  <2>1. SubSeq(s, k + 1, n) \in Seq(Nat) /\ Len(SubSeq(s, k + 1, n)) = n - k
    BY <1>1, <1>2
  <2>2. ASSUME NEW i \in 1 .. n - k
        PROVE  SubSeq(s, k + 1, n)[i] = u[i]
    <3>1. SubSeq(s, k + 1, n)[i] = s[k + i] /\ k + i \in 1 .. n
      BY <1>1, <1>2
    <3> QED
      BY <1>1, <1>2, <3>1
  <2> QED
    BY <1>2, <2>1, <2>2
<1> QED
  BY <1>3, <1>4 DEF s, t, u

\* The least of three numbers is one of them and not above any.
LEMMA MinOfThree ==
    ASSUME NEW a \in Int, NEW b \in Int, NEW c \in Int
    PROVE  /\ Min({a, b, c}) \in Int
           /\ Min({a, b, c}) <= a /\ Min({a, b, c}) <= b /\ Min({a, b, c}) <= c
<1>1. \E m \in {a, b, c} : \A n \in {a, b, c} : m <= n
  OBVIOUS
<1>2. Min({a, b, c}) \in {a, b, c} /\ \A n \in {a, b, c} : Min({a, b, c}) <= n
  BY <1>1 DEF Min
<1> QED
  BY <1>2

\* SendBody(data, k): the body grows by the positions that follow it, the rest of
\* data waits in the buffer.
LEMMA SendBodyKeepsOrder ==
    ASSUME first \in Nat, sent \in Nat, flen \in Nat, outq \in BOOLEAN,
           body = Positions(first, sent),
           NEW n \in Nat, NEW k \in 0 .. n, sent + n <= flen,
           SendBody(Positions(first + sent, n), k)
    PROVE  /\ sent' \in Nat /\ body' \in Seq(Nat) /\ buf' \in Seq(Nat)
           /\ outq' \in BOOLEAN
           /\ Len(buf') = n - k /\ sent' = sent + k /\ sent' <= flen
           /\ body' = Positions(first, sent')
           /\ buf' = Positions(first + sent', Len(buf'))
           /\ fstatus' \in {2, 3} /\ (fstatus' = 3 => sent' = flen)
<1> DEFINE data == Positions(first + sent, n)
<1>1. /\ first + sent \in Nat /\ k \in Nat /\ n - k \in Nat /\ sent + k \in Nat
      /\ first + sent + k = first + (sent + k) /\ sent + k <= flen
  OBVIOUS
<1>2. Len(data) = n
  BY <1>1, PositionsAre
<1>3. /\ SubSeq(data, 1, k) = Positions(first + sent, k)
      /\ SubSeq(data, k + 1, n) = Positions(first + sent + k, n - k)
  <2> DEFINE from == first + sent
  <2>1. from \in Nat
    BY <1>1
  <2> HIDE DEF from
  <2>2. /\ SubSeq(Positions(from, n), 1, k) = Positions(from, k)
        /\ SubSeq(Positions(from, n), k + 1, n) = Positions(from + k, n - k)
    BY <2>1, PositionsCut
  <2> QED
    BY <2>2 DEF from
<1>4. /\ sent' = sent + k /\ outq' = (outq \/ k > 0)
      /\ body' = body \o SubSeq(data, 1, k) /\ buf' = SubSeq(data, k + 1, n)
      /\ fstatus' = IF sent' < flen THEN 2 ELSE 3
  BY <1>2 DEF SendBody, SendSocket
<1>5. body' = Positions(first, sent + k)
  <2>0. first \in Nat /\ sent \in Nat /\ k \in Nat
    OBVIOUS
  <2>1. Positions(first, sent) \o Positions(first + sent, k) = Positions(first, sent + k)
    BY <2>0, PositionsJoin, Zenon
  <2> QED
    BY <1>3, <1>4, <2>1
<1>6. buf' = Positions(first + (sent + k), n - k)
  BY <1>1, <1>3, <1>4
<1>7. first + (sent + k) \in Nat
  BY <1>1
<1>8. Len(buf') = n - k /\ buf' \in Seq(Nat) /\ body' \in Seq(Nat)
  BY <1>1, <1>5, <1>6, <1>7, PositionsAre
<1>9. buf' = Positions(first + sent', Len(buf'))
  BY <1>4, <1>6, <1>8
<1>10. fstatus' \in {2, 3} /\ (fstatus' = 3 => sent' = flen)
  BY <1>1, <1>4
<1> QED
  BY <1>1, <1>4, <1>5, <1>8, <1>9, <1>10

-----------------------------------------------------------------------------
(* The range. *)

\* The range that sendLocalFile_ready accepts for a file it may not resize is not
\* empty and ends within the file; no computation wraps on the way there.
LEMMA RangeSound ==
    ASSUME TypeOK, SizeFits, ~resize, RangeAccepted(req.range)
    PROVE  LET start == RangeStart(size, req.range)
               end == RangeEnd(size, req.range)
           IN  /\ FreshSize(req.range) = size
               /\ U(end - start + 1) > 0 /\ start + U(end - start + 1) <= size
<1> DEFINE r == req.range
           start == RangeStart(size, r)
           end == RangeEnd(size, r)
<1>1. /\ size \in Nat /\ size < Word /\ Word \in Nat /\ Word > 0
      /\ r.form \in {"none", "suffix", "parts", "bad", "from", "span"}
      /\ r.a \in 0 .. Word - 1 /\ r.b \in 0 .. Word - 1
  <2>1. size \in Nat /\ size < Word /\ Word \in Nat
    BY SendFileAssumption DEF TypeOK, SizeFits
  <2>2. Word > 0
    BY <2>1
  <2>3. Numbers \subseteq 0 .. Word - 1 /\ 0 \in 0 .. Word - 1
    BY <2>1, <2>2, SendFileAssumption
  <2>4. r \in Ranges
    BY DEF TypeOK, Requests, NoRequest, Ranges
  <2> HIDE DEF r
  <2>5. /\ r.form \in {"none", "suffix", "parts", "bad", "from", "span"}
        /\ r.a \in Numbers \cup {0} /\ r.b \in Numbers \cup {0}
    BY <2>4 DEF Ranges
  <2> QED
    BY <2>1, <2>2, <2>3, <2>5
<1>2. r.form \notin {"parts", "bad"} /\ start <= end /\ start < FreshSize(r)
  BY DEF RangeAccepted
<1>3. FreshSize(r) = size
  BY DEF FreshSize
<1> HIDE DEF r
<1>4. start \in Nat /\ start < size
  BY <1>1, <1>2, <1>3 DEF RangeStart
<1>5. size - 1 \in 0 .. Word - 1 /\ U(size - 1) = size - 1
  <2>1. size - 1 \in 0 .. Word - 1
    BY <1>1, <1>4
  <2> QED
    BY <1>1, <2>1, Wraps
<1>6. end \in Nat /\ end <= size - 1
  BY <1>1, <1>5 DEF RangeEnd
<1> HIDE DEF start, end
<1>7. end - start + 1 \in 0 .. Word - 1 /\ end - start + 1 > 0
  BY <1>1, <1>2, <1>4, <1>6
<1>8. U(end - start + 1) = end - start + 1
  BY <1>1, <1>7, Wraps
<1>9. U(end - start + 1) > 0 /\ start + U(end - start + 1) <= size
  BY <1>1, <1>4, <1>6, <1>7, <1>8
<1> QED
  BY <1>3, <1>9 DEF start, end, r

-----------------------------------------------------------------------------
(* The invariant. *)

\* A file's size is a number below Word.
LEMMA DiskFits ==
    ASSUME TypeOK
    PROVE  disk \in Nat /\ disk < Word /\ Word > 0
<1>1. disk \in 0 .. Word - 1 /\ Word \in Nat
  BY SendFileAssumption DEF TypeOK
<1> QED
  BY <1>1

\* At the start nothing has been announced, read or sent.
LEMMA InitIInv == Init => IInv
<1> SUFFICES ASSUME Init PROVE IInv
  OBVIOUS
<1>1. TypeOK
  <2>1. /\ 0 \in 0 .. HeaderLen /\ 0 \in 0 .. MaxReq /\ 0 \in 0 .. 3 /\ << >> \in Seq(Nat)
    BY SendFileAssumption
  <2>2. /\ disk \in Sizes /\ resize \in BOOLEAN /\ stop \in BOOLEAN
        /\ nreq \in 0 .. MaxReq /\ req \in Requests \cup {NoRequest}
        /\ pc \in {"parse", "route", "status", "file", "end"}
    BY <2>1 DEF Init
  <2>3. /\ keep \in BOOLEAN /\ page \in {"ok", "error"}
        /\ left \in 0 .. HeaderLen /\ outq \in BOOLEAN
        /\ result \in {"none", "ok", "error"}
    BY <2>1 DEF Init
  <2>4. /\ size \in Nat /\ fstatus \in 0 .. 3 /\ flen \in Nat /\ offset \in Nat
        /\ sent \in Nat /\ first \in Nat
    BY <2>1 DEF Init
  <2>5. buf \in Seq(Nat) /\ body \in Seq(Nat)
    BY <2>1 DEF Init
  <2> QED
    BY <2>2, <2>3, <2>4, <2>5 DEF TypeOK
<1>2. SizeFits
  BY <1>1, DiskFits DEF Init, SizeFits
<1>3. Books
  <2>1. Positions(0, 0) = << >> /\ Len(<< >>) = 0
    BY NoPositions
  <2> QED
    BY <2>1 DEF Init, Books
<1> QED
  BY <1>1, <1>2, <1>3 DEF Init, IInv, RangeWithinFile, Stage

\* A step that leaves the fields of the file alone: somebody else's, or one that
\* leaves sendLocalFile.
LEMMA OtherStep ==
    ASSUME IInv, TypeOK', UNCHANGED <<file, resize>>,
           pc' # "file" \/ UNCHANGED <<pc, left, req>>
    PROVE  IInv'
<1>1. SizeFits' /\ Books'
  BY DEF IInv, SizeFits, Books, file
<1>2. RangeWithinFile' /\ Stage'
  BY DEF IInv, RangeWithinFile, Stage, file
<1> QED
  BY <1>1, <1>2 DEF IInv

\* The steps that are not sendLocalFile's.
LEMMA NotFileStep ==
    ASSUME IInv,
           \/ Stop \/ DiskChanges \/ PeerAcks \/ GivesUp \/ SendStatus \/ Ended
           \/ \E r \in Requests : Parse(r)
           \/ \E p \in {"ok", "error"}, alive \in BOOLEAN : RoutePage(p, alive)
    PROVE  IInv'
<1>0. TypeOK
  BY DEF IInv
<1>1. CASE Stop
  <2>1. TypeOK'
    BY <1>0, <1>1 DEF Stop, TypeOK, file
  <2> QED
    BY <1>1, <2>1, OtherStep DEF Stop
<1>2. CASE DiskChanges
  <2>1. TypeOK'
    BY <1>0, <1>2 DEF DiskChanges, TypeOK, file
  <2> QED
    BY <1>2, <2>1, OtherStep DEF DiskChanges
<1>3. CASE PeerAcks
  <2>1. TypeOK'
    BY <1>0, <1>3, Zenon DEF PeerAcks, TypeOK, file, link
  <2> QED
    BY <1>3, <2>1, OtherStep DEF PeerAcks, link
<1>4. CASE GivesUp
  <2>1. TypeOK'
    BY <1>0, <1>4 DEF GivesUp, Fails, TypeOK, file, link
  <2> QED
    BY <1>4, <2>1, OtherStep DEF GivesUp, Fails, link
<1>5. CASE SendStatus
  <2>1. PICK n \in 0 .. left : left' = left - n /\ outq' = (outq \/ n > 0)
    BY <1>5 DEF SendStatus, SendStream, SendSocket
  <2>2. left' \in 0 .. HeaderLen /\ outq' \in BOOLEAN
    BY <1>0, <2>1, SendFileAssumption DEF TypeOK
  <2>3. pc' \in {"parse", "status", "end"} /\ result' \in {"none", "ok", "error"}
    BY <1>0, <1>5 DEF SendStatus, Responds, Fails, TypeOK
  <2>4. TypeOK'
    BY <1>0, <1>5, <2>2, <2>3 DEF SendStatus, TypeOK, file, link
  <2> QED
    BY <1>5, <2>3, <2>4, OtherStep DEF SendStatus, link
<1>6. CASE Ended
  <2>1. TypeOK'
    BY <1>0, <1>6 DEF Ended, vars, TypeOK, file, link
  <2> QED
    BY <1>6, <2>1, OtherStep DEF Ended, vars, link
<1>7. ASSUME NEW r \in Requests, Parse(r)
      PROVE  IInv'
  <2>1. nreq' \in 0 .. MaxReq
    BY <1>0, <1>7, SendFileAssumption DEF Parse, TypeOK
  <2>2. TypeOK'
    BY <1>0, <1>7, <2>1 DEF Parse, TypeOK, file, link
  <2> QED
    BY <1>7, <2>2, OtherStep DEF Parse, link
<1>8. ASSUME NEW p \in {"ok", "error"}, NEW alive \in BOOLEAN, RoutePage(p, alive)
      PROVE  IInv'
  <2>1. left' \in 0 .. HeaderLen
    BY <1>8, SendFileAssumption DEF RoutePage
  <2>2. keep' \in BOOLEAN /\ page' \in {"ok", "error"} /\ pc' = "status"
    BY <1>8 DEF RoutePage
  <2>3. TypeOK'
    BY <1>0, <1>8, <2>1, <2>2 DEF RoutePage, TypeOK, file, link
  <2> QED
    BY <1>8, <2>3, OtherStep DEF RoutePage, link
<1> QED
  BY <1>1, <1>2, <1>3, <1>4, <1>5, <1>6, <1>7, <1>8

\* A regular file is found: its size is taken, nothing is announced yet.
LEMMA RouteFileStep ==
    ASSUME IInv, RouteFile
    PROVE  IInv'
<1>1. TypeOK' /\ SizeFits'
  BY DiskFits DEF IInv, RouteFile, TypeOK, SizeFits, link
<1>2. Books'
  BY DEF IInv, RouteFile, Books
<1>3. RangeWithinFile' /\ Stage'
  BY DEF RouteFile, RangeWithinFile, Stage
<1> QED
  BY <1>1, <1>2, <1>3 DEF IInv

\* sendLocalFile_ready refuses the range, or announces one and starts afresh.
LEMMA FileReadyStep ==
    ASSUME IInv, FileReady
    PROVE  IInv'
<1>0. TypeOK
  BY DEF IInv
<1>1. CASE ~RangeAccepted(req.range)
  <2>1. /\ pc' = "end" /\ result' = "error"
        /\ UNCHANGED <<link, nreq, req, page, keep, left, outq, file>>
    BY <1>1 DEF FileReady, Fails
  <2>2. TypeOK'
    BY <1>0, <2>1 DEF TypeOK, file, link
  <2> QED
    BY <2>1, <2>2, OtherStep DEF link
<1>2. CASE RangeAccepted(req.range)
  <2> DEFINE start == RangeStart(size, req.range)
             end == RangeEnd(size, req.range)
  <2>1. /\ size' = FreshSize(req.range) /\ keep' = req.alive
        /\ flen' = U(end - start + 1)
        /\ first' = start /\ offset' = start
        /\ sent' = 0 /\ buf' = << >> /\ body' = << >>
        /\ pc' = pc /\ result' = result
        /\ UNCHANGED <<link, nreq, req, page>>
    BY <1>2 DEF FileReady
  <2>2. PICK n \in 0 .. HeaderLen :
          /\ left' = HeaderLen - n /\ outq' = (outq \/ n > 0)
          /\ fstatus' = IF n = HeaderLen THEN 2 ELSE 1
    BY <1>2 DEF FileReady, SendSocket
  <2>3. left' \in 0 .. HeaderLen /\ fstatus' \in {1, 2} /\ (fstatus' = 2 => left' = 0)
    BY <2>2, SendFileAssumption
  <2>4. /\ size \in Nat /\ size < Word /\ disk \in Nat /\ disk < Word /\ Word > 0
        /\ size' \in Nat /\ size' < Word
    BY <1>0, <2>1, DiskFits DEF IInv, TypeOK, SizeFits, FreshSize
  <2>5. start \in Nat /\ flen' \in Nat
    <3>1. req.range \in Ranges
      BY <1>0 DEF TypeOK, Requests, NoRequest, Ranges
    <3> DEFINE r == req.range
    <3> HIDE DEF r
    <3>2. r.a \in Nat /\ r.b \in Nat
      <4>1. r.a \in Numbers \cup {0} /\ r.b \in Numbers \cup {0}
        BY <3>1 DEF Ranges, r
      <4>2. \A x \in Numbers \cup {0} : x \in Nat
        BY SendFileAssumption
      <4> QED
        BY <4>1, <4>2
    <3>3. RangeStart(size, r) \in Nat
      BY <2>4, <3>2 DEF RangeStart
    <3>4. RangeEnd(size, r) \in Nat
      BY <2>4, <3>2, Wraps DEF RangeEnd
    <3>5. U(RangeEnd(size, r) - RangeStart(size, r) + 1) \in Nat
      BY <2>4, <3>3, <3>4, Wraps
    <3> QED
      BY <2>1, <3>3, <3>5 DEF r
  <2>6. keep' \in BOOLEAN
    <3>1. req.alive \in BOOLEAN
      <4>1. CASE req \in Requests
        BY <4>1 DEF Requests
      <4>2. CASE req = NoRequest
        BY <4>2 DEF NoRequest
      <4> QED
        BY <1>0, <4>1, <4>2 DEF TypeOK
    <3> QED
      BY <2>1, <3>1
  <2>7. TypeOK'
    BY <1>0, <2>1, <2>2, <2>3, <2>4, <2>5, <2>6 DEF TypeOK, link
  <2>8. SizeFits'
    BY <2>4, SendFileAssumption DEF SizeFits
  <2>9. RangeWithinFile'
    <3>1. CASE ~resize
      <4>1. FreshSize(req.range) = size /\ flen' > 0 /\ start + flen' <= size
        BY <1>0, <1>2, <2>1, <3>1, RangeSound DEF IInv
      <4> QED
        BY <2>1, <4>1 DEF RangeWithinFile
    <3>2. CASE resize
      BY <2>1, <3>2 DEF RangeWithinFile, link
    <3> QED
      BY <3>1, <3>2
  <2>10. Books'
    <3>1. Positions(start, 0) = << >> /\ Len(<< >>) = 0
      BY <2>5, NoPositions
    <3>2. start + 0 = start /\ start + 0 + 0 = start /\ 0 + 0 <= flen'
      BY <2>5
    <3> QED
      BY <2>1, <3>1, <3>2 DEF Books
  <2>11. Stage'
    BY <2>1, <2>3 DEF Stage
  <2> QED
    BY <2>7, <2>8, <2>9, <2>10, <2>11 DEF IInv
<1> QED
  BY <1>1, <1>2

\* The rest of the header goes out; a HEAD request has no body to send.
LEMMA FileHeaderStep ==
    ASSUME IInv, FileHeader \/ FileHead
    PROVE  IInv'
<1>0. TypeOK
  BY DEF IInv
<1>1. CASE FileHeader
  <2>1. /\ fstatus = 1
        /\ UNCHANGED <<link, nreq, req, pc, keep, page, size, flen, offset, sent, buf,
                       first, body, result>>
    BY <1>1 DEF FileHeader
  <2>2. PICK n \in 0 .. left : left' = left - n /\ outq' = (outq \/ n > 0)
    BY <1>1 DEF FileHeader, SendStream, SendSocket
  <2>3. fstatus' = IF left' = 0 THEN 2 ELSE 1
    BY <1>1 DEF FileHeader
  <2>4. left' \in 0 .. HeaderLen /\ outq' \in BOOLEAN
    BY <1>0, <2>2, SendFileAssumption DEF TypeOK
  <2>5. fstatus' \in {1, 2} /\ (fstatus' = 2 => left' = 0)
    BY <2>3
  <2>6. TypeOK'
    BY <1>0, <2>1, <2>4, <2>5 DEF TypeOK, link
  <2>7. SizeFits' /\ RangeWithinFile' /\ Books'
    BY <2>1 DEF IInv, SizeFits, RangeWithinFile, Books, link
  <2>8. Stage'
    BY <2>1, <2>5 DEF IInv, Stage
  <2> QED
    BY <2>6, <2>7, <2>8 DEF IInv
<1>2. CASE FileHead
  <2>1. /\ fstatus = 2 /\ fstatus' = 3 /\ req.method = "HEAD"
        /\ UNCHANGED <<link, nreq, req, pc, keep, page, left, outq,
                       size, flen, offset, sent, buf, first, body, result>>
    BY <1>2 DEF FileHead
  <2>2. TypeOK'
    BY <1>0, <2>1 DEF TypeOK, link
  <2>3. SizeFits' /\ RangeWithinFile' /\ Books'
    BY <2>1 DEF IInv, SizeFits, RangeWithinFile, Books, link
  <2>4. Stage'
    BY <2>1 DEF IInv, Stage
  <2> QED
    BY <2>2, <2>3, <2>4 DEF IInv
<1> QED
  BY <1>1, <1>2

\* What SendBody does to the fields keeps the invariant, whether its data was read
\* just now or is the leftover of an earlier send.
LEMMA BodyStep ==
    ASSUME IInv, pc = "file", fstatus = 2, req.method # "HEAD",
           NEW n \in Nat, NEW k \in 0 .. n, sent + n <= flen,
           offset' = first + sent + n,
           SendBody(Positions(first + sent, n), k),
           UNCHANGED <<link, nreq, req, pc, keep, page, left, size, flen, first, result>>
    PROVE  IInv'
<1>0. TypeOK /\ Books /\ SizeFits /\ RangeWithinFile /\ Stage
  BY DEF IInv
<1>1. /\ sent' \in Nat /\ body' \in Seq(Nat) /\ buf' \in Seq(Nat)
      /\ outq' \in BOOLEAN
      /\ Len(buf') = n - k /\ sent' = sent + k /\ sent' <= flen
      /\ body' = Positions(first, sent')
      /\ buf' = Positions(first + sent', Len(buf'))
      /\ fstatus' \in {2, 3} /\ (fstatus' = 3 => sent' = flen)
  <2>1. /\ first \in Nat /\ sent \in Nat /\ flen \in Nat /\ outq \in BOOLEAN
        /\ body = Positions(first, sent)
    BY <1>0 DEF TypeOK, Books
  <2> QED
    BY <2>1, SendBodyKeepsOrder
<1>2. /\ first \in Nat /\ sent \in Nat /\ flen \in Nat /\ k \in Nat
      /\ offset' = first + sent' + Len(buf') /\ offset' \in Nat
      /\ sent' + Len(buf') <= flen
  BY <1>0, <1>1 DEF TypeOK
<1>3. TypeOK'
  BY <1>0, <1>1, <1>2 DEF TypeOK, link
<1>4. Books'
  BY <1>1, <1>2 DEF Books
<1>5. SizeFits' /\ RangeWithinFile' /\ Stage'
  BY <1>0, <1>1 DEF SizeFits, RangeWithinFile, Stage, link
<1> QED
  BY <1>3, <1>4, <1>5 DEF IInv

\* A read goes on where the last one ended, within the range; a leftover goes out
\* before the next read.
LEMMA FileBodyStep ==
    ASSUME IInv, FileRead \/ FileResend
    PROVE  IInv'
<1>0. TypeOK /\ Books
  BY DEF IInv
<1>1. /\ first \in Nat /\ sent \in Nat /\ flen \in Nat /\ offset \in Nat /\ disk \in Nat
      /\ buf \in Seq(Nat) /\ Len(buf) \in Nat /\ MaxBuffer \in Nat
  BY <1>0, DiskFits, SendFileAssumption DEF TypeOK
<1>2. CASE FileRead
  <2> DEFINE avail == Min({MaxBuffer, flen - sent, disk - offset})
  <2>1. /\ pc = "file" /\ fstatus = 2 /\ req.method # "HEAD" /\ buf = << >>
        /\ UNCHANGED <<link, nreq, req, keep, page, left>>
    BY <1>2 DEF FileRead
  <2>2. avail \in Int /\ avail <= flen - sent
    <3>1. /\ MaxBuffer \in Int /\ flen - sent \in Int /\ disk - offset \in Int
      BY <1>1
    <3>2. PICK a \in Int, b \in Int, c \in Int :
            a = MaxBuffer /\ b = flen - sent /\ c = disk - offset
      BY <3>1, Zenon
    <3>3. Min({a, b, c}) \in Int /\ Min({a, b, c}) <= b
      BY MinOfThree
    <3>4. avail = Min({a, b, c})
      BY <3>2, Zenon
    <3> HIDE DEF avail
    <3> QED
      BY <3>2, <3>3, <3>4
  <2>3. CASE avail <= 0
    <3>1. pc' = "end" /\ result' = "error" /\ UNCHANGED <<outq, file>>
      BY <1>2, <2>3 DEF FileRead, Fails
    <3>2. TypeOK'
      BY <1>0, <2>1, <3>1 DEF TypeOK, file, link
    <3> QED
      BY <2>1, <3>1, <3>2, OtherStep DEF link
  <2>4. CASE ~(avail <= 0)
    <3>1. PICK n \in 1 .. avail :
            /\ offset' = offset + n
            /\ \E k \in 0 .. n : SendBody(Positions(offset, n), k)
      BY <1>2, <2>4 DEF FileRead
    <3>2. UNCHANGED <<pc, size, flen, first, result>>
      BY <1>2, <2>4 DEF FileRead
    <3> HIDE DEF avail
    <3>3. n \in Nat /\ sent + n <= flen
      BY <1>1, <2>2, <3>1
    <3>4. offset = first + sent
      BY <1>0, <1>1, <2>1 DEF Books
    <3>5. PICK k \in 0 .. n : SendBody(Positions(first + sent, n), k)
      BY <3>1, <3>4
    <3> QED
      BY <2>1, <3>1, <3>2, <3>3, <3>4, <3>5, BodyStep
  <2> QED
    BY <2>3, <2>4
<1>3. CASE FileResend
  <2>1. /\ pc = "file" /\ fstatus = 2 /\ req.method # "HEAD"
        /\ UNCHANGED <<link, nreq, req, pc, keep, page, left, size, flen, offset, first, result>>
    BY <1>3 DEF FileResend
  <2>2. PICK k \in 0 .. Len(buf) : SendBody(buf, k)
    BY <1>3 DEF FileResend
  <2>3. PICK n \in Nat : n = Len(buf)
    BY <1>1
  <2>4. SendBody(Positions(first + sent, n), k) /\ k \in 0 .. n
    <3>1. buf = Positions(first + sent, n)
      BY <1>0, <2>3 DEF Books
    <3> QED
      BY <2>2, <2>3, <3>1
  <2>5. sent + n <= flen /\ offset' = first + sent + n
    BY <1>0, <2>1, <2>3 DEF Books
  <2> QED
    BY <2>1, <2>4, <2>5, BodyStep
<1> QED
  BY <1>2, <1>3

\* Everything is acknowledged: the request is done.
LEMMA FileFlushStep ==
    ASSUME IInv, FileFlush
    PROVE  IInv'
<1>1. /\ pc' \in {"parse", "end"} /\ result' = "ok"
      /\ UNCHANGED <<link, nreq, req, keep, page, left, outq, file>>
  BY DEF FileFlush, Responds
<1>2. TypeOK'
  BY <1>1 DEF IInv, TypeOK, file, link
<1> QED
  BY <1>1, <1>2, OtherStep DEF link

\* Every step keeps the invariant.
LEMMA NextIInv == IInv /\ [Next]_vars => IInv'
<1> SUFFICES ASSUME IInv, [Next]_vars PROVE IInv'
  OBVIOUS
<1>1. CASE Stop \/ DiskChanges \/ PeerAcks \/ Ended
  BY <1>1, NotFileStep
<1>2. CASE HttpdThread
  <2>1. CASE \/ GivesUp \/ SendStatus
             \/ \E r \in Requests : Parse(r)
             \/ \E p \in {"ok", "error"}, alive \in BOOLEAN : RoutePage(p, alive)
    BY <2>1, NotFileStep
  <2>2. CASE RouteFile
    BY <2>2, RouteFileStep
  <2>3. CASE SendFileSteps
    BY <2>3, FileReadyStep, FileHeaderStep, FileBodyStep, FileFlushStep DEF SendFileSteps
  <2> QED
    BY <1>2, <2>1, <2>2, <2>3 DEF HttpdThread
<1>3. CASE UNCHANGED vars
  <2>1. TypeOK'
    BY <1>3 DEF vars, IInv, TypeOK, file, link
  <2> QED
    BY <1>3, <2>1, OtherStep DEF vars, link
<1> QED
  BY <1>1, <1>2, <1>3 DEF Next

\* The body's length is what m_iFileSended says.
LEMMA BodyLength ==
    ASSUME IInv
    PROVE  Len(body) = sent /\ sent \in Nat /\ flen \in Nat /\ sent <= flen
<1>1. first \in Nat /\ sent \in Nat /\ flen \in Nat /\ Len(buf) \in Nat
  BY DEF IInv, TypeOK
<1>2. body = Positions(first, sent) /\ sent + Len(buf) <= flen
  BY DEF IInv, Books
<1>3. Len(body) = sent
  BY <1>1, <1>2, PositionsAre
<1> QED
  BY <1>1, <1>2, <1>3

-----------------------------------------------------------------------------
\* The range sendLocalFile_ready announces of a file it may not resize is not empty
\* and lies within the file, for every size and every number in the Range header.
THEOREM RangeCorrect == Spec => []RangeInv
<1>1. Init => IInv
  BY InitIInv
<1>2. IInv /\ [Next]_vars => IInv'
  BY NextIInv
<1>3. IInv => RangeInv
  BY DEF IInv, RangeInv
<1> QED
  BY <1>1, <1>2, <1>3, PTL DEF Spec

\* sendLocalFile sends the announced range: no byte is lost, repeated, out of place
\* or beyond it, however the reads and the sends are cut.
THEOREM BodyCorrect == Spec => []BodyIsRange
<1>1. Init => IInv
  BY InitIInv
<1>2. IInv /\ [Next]_vars => IInv'
  BY NextIInv
<1>3. IInv => BodyIsRange
  <2> SUFFICES ASSUME IInv PROVE BodyIsRange
    OBVIOUS
  <2>1. Len(body) = sent /\ sent <= flen
    BY BodyLength
  <2>2. body = Positions(first, sent)
    BY DEF IInv, Books
  <2> QED
    BY <2>1, <2>2 DEF BodyIsRange
<1> QED
  BY <1>1, <1>2, <1>3, PTL DEF Spec

\* A file response ends well only when its header and all of its Content-Length are
\* sent and acknowledged.
THEOREM CompleteBeforeOk == Spec => FileComplete
<1> DEFINE Complete ==
      pc = "file" /\ result' = "ok" /\ pc' # "file" =>
        /\ left = 0 /\ ~outq
        /\ Len(body) = IF req.method = "HEAD" THEN 0 ELSE flen
<1>1. Init => IInv
  BY InitIInv
<1>2. IInv /\ [Next]_vars => IInv'
  BY NextIInv
<1>3. IInv /\ [Next]_vars => [Complete]_vars
  <2> SUFFICES ASSUME IInv, Next, pc = "file", result' = "ok", pc' # "file"
               PROVE  /\ left = 0 /\ ~outq
                      /\ Len(body) = IF req.method = "HEAD" THEN 0 ELSE flen
    OBVIOUS
  <2>1. FileFlush
    BY DEF Next, HttpdThread, SendFileSteps, Stop, DiskChanges, PeerAcks, GivesUp, Fails,
           Parse, RoutePage, RouteFile, SendStatus, FileReady, FileHeader, FileHead,
           FileRead, FileResend, Ended, vars
  <2>2. fstatus = 3 /\ ~outq
    BY <2>1 DEF FileFlush
  <2>3. /\ left = 0
        /\ req.method = "HEAD" => sent = 0
        /\ req.method # "HEAD" => sent = flen
    BY <2>2 DEF IInv, Stage
  <2> QED
    BY <2>2, <2>3, BodyLength
<1> QED
  BY <1>1, <1>2, <1>3, PTL DEF Spec, FileComplete
=============================================================================
