------------------------------- MODULE HttpFs -------------------------------
(***************************************************************************)
(* Reading a file of a web server through HttpFs (lib/io/HttpFs.cpp): the  *)
(* first read at an offset asks for "bytes=offset-" and leaves the answer  *)
(* open; a read that goes on where the last one ended takes its bytes from *)
(* there, any other one opens the file again.  Answers may come late, in   *)
(* pieces or not at all, and the caller may try the same or another offset *)
(* after a failed read.                                                    *)
(*                                                                         *)
(* HttpQuery, HttpConnection and IHttpReader are those of HttpClient and   *)
(* HttpReader.  The file's byte at offset i is i + 1; the server sends a   *)
(* Content-Length and honours the Range header.                            *)
(***************************************************************************)
EXTENDS Integers, SequencesExt

CONSTANTS
    Size,        \* the size of the file
    ReadSizes,   \* what callers ask for
    MaxWire      \* bound: symbols on the connection

VARIABLES
    m_http,      \* there is a query object
    conn,        \* its connection: "none", "open", "dead"
    wire,        \* what the server sent and nobody read
    reader,      \* m_sReaderBuffer of the last round
    m_offset, m_step, m_size,
    pc,          \* "idle", "open", "size", "request", "head", "read", "null"
    offset, size,
    got,         \* what the caller's buffer holds
    ret,         \* what read() returned: "none", "ok", "error"
    stale        \* history: the last open_l() failed

fsvars == <<m_offset, m_step, m_size>>
callvars == <<offset, size, got, ret>>
vars == <<m_http, conn, wire, reader, fsvars, pc, callvars, stale>>

\* A header is a status line, which carries the offset, and its end.
HeaderEnd == 0
StatusLine(o) == -1 - o
Answer(o) == <<StatusLine(o), HeaderEnd>> \o [i \in 1..Size - o |-> o + i]
IsStatusLine(t) == t < 0

Init ==
    /\ m_http = FALSE /\ conn = "none" /\ wire = <<>> /\ reader = <<>>
    /\ m_offset = 0 /\ m_step = 0 /\ m_size = 0
    /\ pc = "idle" /\ offset = 0 /\ size = 0 /\ got = <<>> /\ ret = "none"
    /\ stale = FALSE

Return(r) == pc' = "idle" /\ ret' = r

\* What the last read gave is forgotten.
Forget == offset' = 0 /\ size' = 0 /\ got' = <<>> /\ ret' = "none"

-----------------------------------------------------------------------------
\* The connection ends, with or without what is on it.
PeerCloses ==
    /\ conn = "open" /\ conn' = "dead"
    /\ wire' \in {wire, <<>>}
    /\ UNCHANGED <<m_http, reader, fsvars, pc, callvars, stale>>

-----------------------------------------------------------------------------
\* open_l(): a new query object, getattr_l(), and status 200.  A HEAD request
\* leaves the connection for the reads, a GET request does not.
OpenOk ==
    /\ m_http' = TRUE /\ conn' \in {"open", "none"} /\ wire' = <<>> /\ reader' = <<>>
    /\ m_offset' = 0 /\ m_step' = 1 /\ m_size' = Size
    /\ stale' = FALSE

\* open_l() fails after the old query object is gone: close() leaves a query
\* object without a connection, and where the reads were.
OpenFails ==
    /\ m_http' = TRUE /\ conn' = "none" /\ wire' = <<>> /\ reader' = <<>>
    /\ UNCHANGED fsvars
    /\ stale' = TRUE

\* HttpFs::open.
Open ==
    /\ pc = "idle" /\ (OpenOk \/ OpenFails) /\ Forget
    /\ UNCHANGED pc

\* HttpFs::close.
Close ==
    /\ pc = "idle"
    /\ m_http' = FALSE /\ conn' = "none" /\ wire' = <<>> /\ reader' = <<>>
    /\ m_step' = 0 /\ Forget
    /\ UNCHANGED <<m_offset, m_size, pc, stale>>

\* Mutant of GoesOn: a read behind the answer's place goes on as well.
GoesOnBefore(o) == m_http /\ o <= m_offset

\* The test of HttpFs::read.
GoesOn(o) == m_http /\ m_offset = o

\* HttpFs::read.
Read(o, s) ==
    /\ pc = "idle"
    /\ offset' = o /\ size' = s /\ got' = <<>> /\ ret' = "none"
    /\ pc' = IF GoesOn(o) THEN "size" ELSE "open"
    /\ UNCHANGED <<m_http, conn, wire, reader, fsvars, stale>>

Reopen ==
    /\ pc = "open"
    /\ \/ OpenOk /\ pc' = "size" /\ UNCHANGED ret
       \/ OpenFails /\ Return("error")
    /\ UNCHANGED <<offset, size, got>>

\* nsize of HttpFs::read.
Nsize == IF offset + size > m_size THEN size - ((offset + size) - m_size) ELSE size

\* The size test of HttpFs::read, and the choice request_l() starts with.
SizeTest ==
    /\ pc = "size"
    /\ \/ offset >= m_size /\ Return("ok") /\ UNCHANGED size
       \/ /\ offset < m_size
          /\ size' = Nsize
          /\ pc' = IF m_step = 2 THEN "read" ELSE "request"
          /\ UNCHANGED ret
    /\ UNCHANGED <<m_http, conn, wire, reader, fsvars, offset, got, stale>>

\* request_l(): m_http->request() with a Range header, on the connection that
\* is there or on a new one.
Request ==
    /\ pc = "request" /\ conn # "dead"
    /\ Len(wire) + Len(Answer(offset)) <= MaxWire
    /\ m_offset' = offset
    /\ conn' = "open" /\ wire' = wire \o Answer(offset) /\ reader' = <<>>
    /\ pc' = "head"
    /\ UNCHANGED <<m_http, m_step, m_size, callvars, stale>>

\* The request cannot be sent: no connection, or one that ended.
RequestFails ==
    /\ pc = "request"
    /\ m_offset' = offset
    /\ conn' \in {conn, IF conn = "none" THEN "dead" ELSE conn} /\ reader' = <<>>
    /\ Return("error")
    /\ UNCHANGED <<m_http, wire, m_step, m_size, offset, size, got, stale>>

\* readStatusAndHeader() succeeds: the header comes first; n more symbols
\* came with it.
HeadRead(n) ==
    /\ pc = "head" /\ Len(wire) >= 2 + n
    /\ IsStatusLine(wire[1]) /\ wire[2] = HeaderEnd
    /\ reader' = SubSeq(wire, 3, 2 + n)
    /\ wire' = SubSeq(wire, 3 + n, Len(wire))
    /\ pc' = "read"
    /\ UNCHANGED <<m_http, conn, fsvars, callvars, stale>>

\* Mutant of HeadFails: the request is sent again, without end.
HeadFailsAgain(n) ==
    /\ pc = "head" /\ n <= Len(wire)
    /\ wire' = SubSeq(wire, n + 1, Len(wire))
    /\ pc' = "request"
    /\ UNCHANGED <<m_http, conn, reader, fsvars, callvars, stale>>

\* It fails, by a timeout or on something that is no header: what was read of
\* it is lost, and the connection stays.
HeadFails(n) ==
    /\ pc = "head" /\ n <= Len(wire)
    /\ wire' = SubSeq(wire, n + 1, Len(wire))
    /\ Return("error")
    /\ UNCHANGED <<m_http, conn, reader, fsvars, offset, size, got, stale>>

\* Another status than 200 and 206.
BadStatus ==
    /\ pc = "read" /\ m_step # 2 /\ got = <<>>
    /\ Return("error")
    /\ UNCHANGED <<m_http, conn, wire, reader, fsvars, offset, size, got, stale>>

\* m_http->read(): n bytes, from the reader's buffer and then from the
\* connection; fewer than were asked for only when the wait fails.
Pull(n) ==
    /\ pc = "read" /\ conn # "none" /\ n <= Len(reader \o wire)
    /\ got' = SubSeq(reader \o wire, 1, n)
    /\ reader' = SubSeq(reader, n + 1, Len(reader))
    /\ wire' = IF n <= Len(reader) THEN wire ELSE SubSeq(wire, n - Len(reader) + 1, Len(wire))
    /\ m_step' = 2 /\ m_offset' = m_offset + n
    /\ Return(IF n = size THEN "ok" ELSE "error")
    /\ UNCHANGED <<m_http, conn, m_size, offset, size, stale>>

\* m_http->read() without a connection: m_conn is used unchecked.
PullNull ==
    /\ pc = "read" /\ conn = "none"
    /\ pc' = "null"
    /\ UNCHANGED <<m_http, conn, wire, reader, fsvars, callvars, stale>>

Crashed == pc = "null" /\ UNCHANGED vars

HttpFsStep ==
    \/ Reopen \/ SizeTest \/ Request \/ RequestFails \/ BadStatus \/ PullNull
    \/ \E n \in 0..Size : HeadRead(n)
    \/ \E n \in 0..MaxWire : HeadFails(n)
    \/ \E n \in 0..size : Pull(n)

Next ==
    \/ PeerCloses \/ Open \/ Close \/ Crashed
    \/ \E o \in 0..Size, s \in ReadSizes : Read(o, s)
    \/ HttpFsStep

Spec == Init /\ [][Next]_vars /\ WF_vars(HttpFsStep)

-----------------------------------------------------------------------------
\* The bytes a read gives are the file's bytes at its offset, also those of a
\* read that fails half way, and whatever came late before them.
ReadRight == got = [i \in 1..Len(got) |-> offset + i]

\* A read that succeeds gave all that was asked for, up to the end of the
\* file, unless the last open failed.
OkIsWhole ==
    ret = "ok" /\ ~stale =>
        Len(got) = IF offset + size > Size THEN Size - offset ELSE size

\* The connection is missing under a read only after a failed open.
NullAfterFailedOpen == pc = "null" => stale

\* Every read returns.
ReadReturns == pc \notin {"idle", "null"} ~> pc \in {"idle", "null"}
=============================================================================
