--------------------------- MODULE RequestParser ---------------------------
(***************************************************************************)
(* A request read by the httpd: HttpdClient::parseRequest around           *)
(* HttpRequest::parseRequest, parseRequestReady and parseRequestHeaders    *)
(* (lib/httpd/HttpdClient.cpp, HttpRequest.cpp).  The client sends         *)
(* well-formed text, cut into pieces anywhere, possibly with the beginning *)
(* of another request behind it, and may fall silent or close.             *)
(*                                                                         *)
(* A request is the sequence of the lengths of its lines; a character is   *)
(* the number of its line and its place in it.  What the words of a line   *)
(* mean is left out.                                                       *)
(***************************************************************************)
EXTENDS Integers, SequencesExt

CONSTANTS
    Requests,     \* what the client may send: lengths of lines, 0 is blank
    MaxPacket     \* MAX_READ_PACKET

VARIABLES
    request,      \* what the client sends
    sent,         \* characters it has sent
    pos,          \* characters recv() has taken
    open,         \* the client has not closed
    m_bStop,
    m_sBuffer,
    m_cstatus,    \* "ready", "header", "body"
    lines,        \* the lines taken from m_sBuffer, in order
    pc,           \* "read", "parse", "done"
    result

vars == <<request, sent, pos, open, m_bStop, m_sBuffer, m_cstatus, lines, pc, result>>
peervars == <<request, sent, open, m_bStop>>

CR == <<"cr">>
LF == <<"lf">>
LineText(r, i) == [j \in 1..r[i] |-> <<"char", i, j>>]
Text(r) == FlattenSeq([i \in DOMAIN r |-> LineText(r, i) \o <<CR, LF>>])

Init ==
    /\ request \in Requests /\ sent = 0 /\ pos = 0 /\ open = TRUE
    /\ m_bStop = FALSE /\ m_sBuffer = <<>> /\ m_cstatus = "ready"
    /\ lines = <<>> /\ pc = "read" /\ result = "none"

-----------------------------------------------------------------------------
\* The client, and stop() by another thread.
Send(n) ==
    /\ open /\ n \in 1..Len(Text(request)) - sent
    /\ sent' = sent + n
    /\ UNCHANGED <<request, pos, open, m_bStop, m_sBuffer, m_cstatus, lines, pc, result>>

Close ==
    /\ open /\ open' = FALSE
    /\ UNCHANGED <<request, sent, pos, m_bStop, m_sBuffer, m_cstatus, lines, pc, result>>

Stop ==
    /\ ~m_bStop /\ m_bStop' = TRUE
    /\ UNCHANGED <<request, sent, pos, open, m_sBuffer, m_cstatus, lines, pc, result>>

-----------------------------------------------------------------------------
Done(r) == pc' = "done" /\ result' = r

\* The room of the buffer.
Room == MaxPacket - Len(m_sBuffer)

\* The loop of HttpdClient::parseRequest ends before it reads: it is stopped,
\* the buffer is full, or the client was silent for MAX_TIMEOUT.
GiveUp ==
    /\ pc = "read"
    /\ \/ m_bStop /\ Done("stopped")
       \/ Room = 0 /\ Done("full")
       \/ sent = pos /\ open /\ Done("timeout")
    /\ UNCHANGED <<peervars, pos, m_sBuffer, m_cstatus, lines>>

Taken == IF Room < sent - pos THEN Room ELSE sent - pos

\* recv() brings what has come, up to the room, and m_req->parseRequest
\* appends it.
Recv ==
    /\ pc = "read" /\ Room > 0 /\ sent > pos
    /\ pos' = pos + Taken
    /\ m_sBuffer' = m_sBuffer \o SubSeq(Text(request), pos + 1, pos')
    /\ pc' = "parse"
    /\ UNCHANGED <<peervars, m_cstatus, lines, result>>

Disconnected ==
    /\ pc = "read" /\ Room > 0 /\ sent = pos /\ ~open
    /\ Done("disconnect")
    /\ UNCHANGED <<peervars, pos, m_sBuffer, m_cstatus, lines>>

-----------------------------------------------------------------------------
\* strstr(m_sBuffer, "\r\n").
HasLine == \E i \in 1..Len(m_sBuffer) - 1 : m_sBuffer[i] = CR /\ m_sBuffer[i + 1] = LF
LineEnd == CHOOSE i \in 1..Len(m_sBuffer) - 1 :
              /\ m_sBuffer[i] = CR /\ m_sBuffer[i + 1] = LF
              /\ \A j \in 1..i - 1 : ~(m_sBuffer[j] = CR /\ m_sBuffer[j + 1] = LF)
Line == SubSeq(m_sBuffer, 1, LineEnd - 1)

\* m_sBuffer.shift().
Shifted == SubSeq(m_sBuffer, LineEnd + 2, Len(m_sBuffer))

\* parseRequestReady.
RequestLine ==
    /\ pc = "parse" /\ m_cstatus = "ready" /\ HasLine
    /\ lines' = Append(lines, Line)
    /\ m_sBuffer' = Shifted
    /\ m_cstatus' = "header"
    /\ UNCHANGED <<peervars, pos, pc, result>>

\* parseRequestHeaders on a field.
Field ==
    /\ pc = "parse" /\ m_cstatus = "header" /\ HasLine /\ Line # <<>>
    /\ lines' = Append(lines, Line)
    /\ m_sBuffer' = Shifted
    /\ UNCHANGED <<peervars, pos, m_cstatus, pc, result>>

\* Mutant of BlankLine: the LF of the blank line stays.
BlankLineShort ==
    /\ pc = "parse" /\ m_cstatus = "header" /\ HasLine /\ Line = <<>>
    /\ m_sBuffer' = SubSeq(m_sBuffer, LineEnd + 1, Len(m_sBuffer))
    /\ m_cstatus' = "body"
    /\ Done("ok")
    /\ UNCHANGED <<peervars, pos, lines>>

\* parseRequestHeaders on the blank line.
BlankLine ==
    /\ pc = "parse" /\ m_cstatus = "header" /\ HasLine /\ Line = <<>>
    /\ m_sBuffer' = Shifted
    /\ m_cstatus' = "body"
    /\ Done("ok")
    /\ UNCHANGED <<peervars, pos, lines>>

\* No whole line: DFW_E_AGAIN, read on.
Again ==
    /\ pc = "parse" /\ m_cstatus # "body" /\ ~HasLine /\ m_sBuffer # <<>>
    /\ pc' = "read"
    /\ UNCHANGED <<peervars, pos, m_sBuffer, m_cstatus, lines, result>>

\* parseRequestHeaders on an empty buffer: toChars() answers NULL, and
\* strstr() gets it.
NullBuffer ==
    /\ pc = "parse" /\ m_cstatus = "header" /\ m_sBuffer = <<>>
    /\ Done("null")
    /\ UNCHANGED <<peervars, pos, m_sBuffer, m_cstatus, lines>>

Terminated == pc = "done" /\ UNCHANGED vars

Reader == GiveUp \/ Recv \/ Disconnected \/ RequestLine \/ Field \/ BlankLine
              \/ Again \/ NullBuffer

Next == \/ \E n \in 1..Len(Text(request)) : Send(n)
        \/ Close \/ Stop \/ Reader \/ Terminated

Spec == Init /\ [][Next]_vars

-----------------------------------------------------------------------------
\* The number of lines before the blank one.
HeadLines == CHOOSE n \in 1..Len(request) - 1 :
                request[n + 1] = 0 /\ \A i \in 1..n : request[i] # 0

\* However the text is cut, a request that is accepted has exactly the lines
\* the client sent, and the text behind its blank line is still in the buffer.
ParsedIsSent ==
    result = "ok" =>
        /\ lines = [i \in 1..HeadLines |-> LineText(request, i)]
        /\ LET rest == FlattenSeq([i \in 1..Len(request) - HeadLines - 1 |->
                              LineText(request, i + HeadLines + 1) \o <<CR, LF>>])
           IN IsPrefix(m_sBuffer, rest)

\* A request is never refused for its length while its lines fit into the
\* buffer: what was parsed makes room.
RefusedIfLong ==
    result = "full" => \E i \in 1..HeadLines + 1 : request[i] + 2 > MaxPacket

\* strstr() gets a null pointer only when a read ended exactly behind a line
\* that is not the last one of the head.
NullOnlyAtLineEnd ==
    result = "null" => /\ Len(lines) <= HeadLines
                       /\ pos = Len(FlattenSeq(lines)) + 2 * Len(lines)
=============================================================================
