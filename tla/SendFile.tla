------------------------------ MODULE SendFile ------------------------------
(***************************************************************************)
(* One connection in SERVER_TYPE_THREAD: HttpdThread::run_2 parses a       *)
(* request, routes it and sends either a status page or a file, over a     *)
(* non-blocking socket that takes a part of what is offered, from a file   *)
(* another process may shorten or extend, while HttpdService::stop may ask *)
(* the thread to end.  HttpdClient::sendLocalFile is the state machine     *)
(* m_iFileStatus = 0 (choose the range, send the header), 1 (rest of the   *)
(* header), 2 (body, with m_buffer for what a send left over), 3 (wait for *)
(* the kernel's send queue to empty).                                      *)
(*                                                                         *)
(* A byte of the file is its position; uint64_t arithmetic is modulo Word. *)
(***************************************************************************)
EXTENDS Integers, Sequences, SequencesExt, FiniteSetsExt

CONSTANTS
    Sizes,       \* sizes the file may have
    Numbers,     \* numbers a Range header may carry
    Word,        \* 2^64
    MaxBuffer,   \* MAX_BUFFER: bytes read from the file at a time
    HeaderLen,   \* bytes of a response header or status page
    MaxReq       \* bound: requests on the connection

ASSUME SendFileAssumption ==
    /\ Word \in Nat /\ Sizes \subseteq 0 .. Word - 1 /\ Numbers \subseteq 0 .. Word - 1
    /\ MaxBuffer \in Nat \ {0} /\ HeaderLen \in Nat \ {0} /\ MaxReq \in Nat

Ranges ==
    [form : {"none", "suffix", "parts", "bad"}, a : {0}, b : {0}]
      \cup [form : {"from"}, a : Numbers, b : {0}]
      \cup [form : {"span"}, a : Numbers, b : Numbers]

Requests == [method : {"GET", "HEAD"}, range : Ranges, alive : BOOLEAN]

VARIABLES
    disk,     \* the file's size on disk
    resize,   \* m_bEnableResizeableFile
    stop,     \* m_bStop of the client and m_bStopped of the thread
    nreq,     \* requests parsed so far
    req,      \* m_req
    pc,       \* "parse", "route", "status", "file" or "end" (socket closed)
    keep,     \* m_resp->m_bKeepAlive
    page,     \* the status page being sent: "ok" or "error", as its retval
    left,     \* m_sStream.length() - m_iStreamSended
    outq,     \* the kernel still has unacknowledged output (SIOCOUTQ > 0)
    size,     \* m_iFileSize
    fstatus,  \* m_iFileStatus
    flen,     \* m_iFileSendLength
    offset,   \* m_iFileOffset
    sent,     \* m_iFileSended
    buf,      \* the first m_iBufferLen bytes of m_buffer
    first,    \* history: the range's first position
    body,     \* history: the bytes of the body given to the socket
    result    \* history: how the last response ended: "none", "ok" or "error"

link == <<disk, resize, stop>>
file == <<size, fstatus, flen, offset, sent, buf, first, body>>
vars == <<link, nreq, req, pc, keep, page, left, outq, file, result>>

NoRequest == [method |-> "GET", range |-> [form |-> "none", a |-> 0, b |-> 0], alive |-> FALSE]

Init ==
    /\ disk \in Sizes /\ resize \in BOOLEAN /\ stop = FALSE
    /\ nreq = 0 /\ req = NoRequest
    /\ pc = "parse" /\ keep = FALSE /\ page = "ok" /\ left = 0 /\ outq = FALSE
    /\ size = 0 /\ fstatus = 0 /\ flen = 0 /\ offset = 0 /\ sent = 0 /\ buf = << >>
    /\ first = 0 /\ body = << >> /\ result = "none"

-----------------------------------------------------------------------------
U(n) == n % Word

\* Mutant of RangeEnd: the end is not cut to the file.
RangeEndUncut(fsize, r) ==
    IF r.form # "span" THEN U(fsize - 1) ELSE r.b

\* iEnd of sendLocalFile_ready; a resizable file keeps the end it was asked for.
RangeEnd(fsize, r) ==
    IF r.form # "span" \/ (fsize <= r.b /\ ~resize) THEN U(fsize - 1) ELSE r.b

\* iStart: for "bytes=-n" sStart is always empty, and iStart the file size.
RangeStart(fsize, r) ==
    CASE r.form = "none" -> 0
      [] r.form = "suffix" -> fsize
      [] OTHER -> r.a

\* For a resizable file a range end beyond m_iFileSize makes the code look at
\* the file again.
FreshSize(r) == IF r.form = "span" /\ resize /\ size <= r.b THEN disk ELSE size

\* "bytes=0-0,-1" and what is no range are refused, as are iEnd < iStart and
\* iFileSize <= iStart.
RangeAccepted(r) ==
    /\ r.form \notin {"parts", "bad"}
    /\ RangeStart(size, r) <= RangeEnd(size, r)
    /\ RangeStart(size, r) < FreshSize(r)

-----------------------------------------------------------------------------
Fails ==
    /\ pc' = "end" /\ result' = "error"

\* request() is done: ready() for the next one, or the thread exits and closes.
Responds ==
    /\ result' = "ok"
    /\ pc' = IF keep THEN "parse" ELSE "end"

\* Socket::send: the kernel takes k bytes of what is offered, perhaps none.
SendSocket(k) == outq' = (outq \/ k > 0)

\* sendStream gives the socket k of the left bytes; k = 0 is E_TIMEOUT or a hard
\* error, a hard error after a part was taken counts as the part.
SendStream(k) ==
    /\ left' = left - k
    /\ SendSocket(k)

-----------------------------------------------------------------------------
Stop ==
    /\ ~stop /\ stop' = TRUE
    /\ UNCHANGED <<disk, resize, nreq, req, pc, keep, page, left, outq, file, result>>

\* External: another process changes the file; the peer acknowledges.
DiskChanges ==
    /\ pc \in {"route", "file"}
    /\ disk' \in Sizes \ {disk}
    /\ UNCHANGED <<resize, stop, nreq, req, pc, keep, page, left, outq, file, result>>

PeerAcks ==
    /\ outq /\ outq' = FALSE
    /\ UNCHANGED <<link, nreq, req, pc, keep, page, left, file, result>>

-----------------------------------------------------------------------------
\* Mutant of GivesUp: the wait for the send queue ignores m_bStop and the time.
GivesUpUnlessFlushing ==
    /\ pc # "end" /\ ~(pc = "file" /\ fstatus = 3)
    /\ Fails
    /\ UNCHANGED <<link, nreq, req, keep, page, left, outq, file>>

\* Every loop of the thread tests m_bStop first; parseRequest, sendResponse and
\* sendResponseStatus also give up after a time, and all of them on an error.
GivesUp ==
    /\ pc # "end"
    /\ Fails
    /\ UNCHANGED <<link, nreq, req, keep, page, left, outq, file>>

Parse(r) ==
    /\ pc = "parse" /\ ~stop /\ nreq < MaxReq
    /\ nreq' = nreq + 1
    /\ req' = r
    /\ keep' = FALSE
    /\ pc' = "route"
    /\ UNCHANGED <<link, page, left, outq, file, result>>

\* se_checkLocalFile made a status page, or failed and leaves an empty one:
\* makeStream and sendResponseStatus.
RoutePage(p, alive) ==
    /\ pc = "route"
    /\ page' = p
    /\ keep' = (p = "ok" /\ alive)
    /\ left' = HeaderLen
    /\ pc' = "status"
    /\ UNCHANGED <<link, nreq, req, outq, file, result>>

SendStatus ==
    /\ pc = "status" /\ ~stop
    /\ \E k \in 0 .. left : SendStream(k)
    /\ IF left' > 0 THEN UNCHANGED <<pc, result>>
       ELSE IF page = "ok" THEN Responds ELSE Fails
    /\ UNCHANGED <<link, nreq, req, keep, page, file>>

\* se_checkLocalFile: a regular file.
RouteFile ==
    /\ pc = "route"
    /\ size' = disk
    /\ fstatus' = 0
    /\ pc' = "file"
    /\ UNCHANGED <<link, nreq, req, keep, page, left, outq,
                   flen, offset, sent, buf, first, body, result>>

\* m_iFileStatus 0: sendLocalFile_ready.
FileReady ==
    LET start == RangeStart(size, req.range)
        end == RangeEnd(size, req.range)
    IN  /\ pc = "file" /\ fstatus = 0 /\ ~stop
        /\ IF ~RangeAccepted(req.range)
           THEN Fails /\ UNCHANGED <<keep, left, outq, file>>
           ELSE /\ size' = FreshSize(req.range)
                /\ keep' = req.alive
                /\ flen' = U(end - start + 1)
                /\ first' = start /\ offset' = start
                /\ sent' = 0 /\ buf' = << >> /\ body' = << >>
                /\ \E k \in 0 .. HeaderLen :
                    /\ left' = HeaderLen - k
                    /\ SendSocket(k)
                    /\ fstatus' = IF k = HeaderLen THEN 2 ELSE 1
                /\ UNCHANGED <<pc, result>>
        /\ UNCHANGED <<link, nreq, req, page>>

\* m_iFileStatus 1: the rest of the header.
FileHeader ==
    /\ pc = "file" /\ fstatus = 1 /\ ~stop
    /\ \E k \in 0 .. left : SendStream(k)
    /\ fstatus' = IF left' = 0 THEN 2 ELSE 1
    /\ UNCHANGED <<link, nreq, req, pc, keep, page, size, flen, offset, sent, buf,
                   first, body, result>>

\* m_iFileStatus 2 of a HEAD request.
FileHead ==
    /\ pc = "file" /\ fstatus = 2 /\ ~stop /\ req.method = "HEAD"
    /\ fstatus' = 3
    /\ UNCHANGED <<link, nreq, req, pc, keep, page, left, outq,
                   size, flen, offset, sent, buf, first, body, result>>

Positions(from, n) == [i \in 1 .. n |-> from + i - 1]

\* The first k bytes of data go out, the rest is kept in m_buffer.
SendBody(data, k) ==
    /\ SendSocket(k)
    /\ sent' = sent + k
    /\ body' = body \o SubSeq(data, 1, k)
    /\ buf' = SubSeq(data, k + 1, Len(data))
    /\ fstatus' = IF sent' < flen THEN 2 ELSE 3

\* Mutant of FileRead: the leftover of a send is thrown away.
FileReadForgets ==
    /\ pc = "file" /\ fstatus = 2 /\ ~stop /\ req.method # "HEAD"
    /\ LET avail == Min({MaxBuffer, flen - sent, disk - offset})
       IN  IF avail <= 0
           THEN Fails /\ UNCHANGED <<outq, file>>
           ELSE /\ \E n \in 1 .. avail :
                    /\ offset' = offset + n
                    /\ \E k \in 0 .. n : SendBody(Positions(offset, n), k)
                /\ UNCHANGED <<pc, size, flen, first, result>>
    /\ UNCHANGED <<link, nreq, req, keep, page, left>>

\* m_iFileStatus 2 with an empty m_buffer: read, possibly less than asked for,
\* let the modules see it, and send.  Nothing read is an error.
FileRead ==
    /\ pc = "file" /\ fstatus = 2 /\ ~stop /\ req.method # "HEAD" /\ buf = << >>
    /\ LET avail == Min({MaxBuffer, flen - sent, disk - offset})
       IN  IF avail <= 0
           THEN Fails /\ UNCHANGED <<outq, file>>
           ELSE /\ \E n \in 1 .. avail :
                    /\ offset' = offset + n
                    /\ \E k \in 0 .. n : SendBody(Positions(offset, n), k)
                /\ UNCHANGED <<pc, size, flen, first, result>>
    /\ UNCHANGED <<link, nreq, req, keep, page, left>>

\* m_iFileStatus 2 with a leftover in m_buffer: send that.
FileResend ==
    /\ pc = "file" /\ fstatus = 2 /\ ~stop /\ req.method # "HEAD" /\ buf # << >>
    /\ \E k \in 0 .. Len(buf) : SendBody(buf, k)
    /\ UNCHANGED <<link, nreq, req, pc, keep, page, left, size, flen, offset, first, result>>

\* Mutant of FileFlush: the send queue is not waited for.
FileFlushAtOnce ==
    /\ pc = "file" /\ fstatus = 3 /\ ~stop
    /\ Responds
    /\ UNCHANGED <<link, nreq, req, keep, page, left, outq, file>>

\* m_iFileStatus 3: done when the kernel's send queue is empty.
FileFlush ==
    /\ pc = "file" /\ fstatus = 3 /\ ~stop /\ ~outq
    /\ Responds
    /\ UNCHANGED <<link, nreq, req, keep, page, left, outq, file>>

Ended == pc = "end" /\ UNCHANGED vars

SendFileSteps == FileReady \/ FileHeader \/ FileHead \/ FileRead \/ FileResend \/ FileFlush

HttpdThread ==
    \/ GivesUp
    \/ \E r \in Requests : Parse(r)
    \/ \E p \in {"ok", "error"}, alive \in BOOLEAN : RoutePage(p, alive)
    \/ RouteFile \/ SendStatus \/ SendFileSteps

Next == Stop \/ DiskChanges \/ PeerAcks \/ HttpdThread \/ Ended

\* The thread runs, and gives up at the latest when its timeout has passed.
Spec == Init /\ [][Next]_vars /\ WF_vars(HttpdThread)

-----------------------------------------------------------------------------
\* Types of the variables.
TypeOK ==
    /\ disk \in Sizes /\ resize \in BOOLEAN /\ stop \in BOOLEAN
    /\ nreq \in 0 .. MaxReq /\ req \in Requests \cup {NoRequest}
    /\ pc \in {"parse", "route", "status", "file", "end"}
    /\ keep \in BOOLEAN /\ page \in {"ok", "error"}
    /\ left \in 0 .. HeaderLen /\ outq \in BOOLEAN
    /\ size \in Nat /\ fstatus \in 0 .. 3 /\ flen \in Nat /\ offset \in Nat /\ sent \in Nat
    /\ buf \in Seq(Nat) /\ first \in Nat /\ body \in Seq(Nat)
    /\ result \in {"none", "ok", "error"}

\* The announced range of a file that is not resizable is not empty and lies
\* within the size the header was made from, whatever the Range header says and
\* for an empty file too, where iFileSize - 1 wraps.
RangeWithinFile ==
    pc = "file" /\ fstatus # 0 /\ ~resize => flen > 0 /\ first + flen <= size

\* However sends and reads are cut, the body is a prefix of the announced range:
\* no byte is lost, repeated or out of place, and none is beyond the range.
BodyIsRange ==
    /\ body = Positions(first, Len(body))
    /\ fstatus # 0 => Len(body) <= flen

\* A file response ends well only when the header and all Content-Length bytes
\* (none for HEAD) have been sent and acknowledged: the close that follows, with
\* SO_LINGER 0, discards nothing.
FileComplete ==
    [][pc = "file" /\ result' = "ok" /\ pc' # "file" =>
        /\ left = 0 /\ ~outq
        /\ Len(body) = IF req.method = "HEAD" THEN 0 ELSE flen]_vars

\* HttpdThread::stop ends the connection in every state, so that the join in
\* HttpdService::stop returns, also when the peer acknowledges nothing.
StopEndsConnection == stop ~> pc = "end"

\* The range a connection serves is sound in every state.
RangeInv == TypeOK /\ RangeWithinFile
=============================================================================
