----------------------------- MODULE HttpReader -----------------------------
(***************************************************************************)
(* One answer read by the HTTP client (lib/http/HttpConnection.cpp,        *)
(* HttpRound.cpp, IHttpReader.cpp) over Socket::recv: the status line and  *)
(* the header, then the body, pushed to the listener in blocks             *)
(* (readBlocks) or pulled by the caller (read, as HttpFs does).  The       *)
(* server sends a well-formed answer in pieces of any size and may stall,  *)
(* close or reset the connection at any byte.                              *)
(*                                                                         *)
(* A header line is one symbol followed by CR and LF; the bytes of the     *)
(* body are their positions.  recv() is one step: it takes what has come,  *)
(* up to the room the caller gives it.                                     *)
(***************************************************************************)
EXTENDS Integers, SequencesExt

CONSTANTS
    Lengths,      \* values of Content-Length
    BlockSizes,   \* values of getBlockSize()
    PullSizes,    \* what a caller of read() asks for
    HeadMax,      \* room of readLine(): 51200
    RecvMax,      \* room of readBlocks(): DFW_HTTPSOCKET_MAX_SIZE
    Word          \* 2^w of size_t

VARIABLES
    sent,                   \* bytes of the answer the server has sent
    pos,                    \* bytes recv() has taken
    peer,                   \* "open", "closed", "reset"
    m_uContentLength,
    m_iBlockSize,
    mode,                   \* "push" or "pull"
    pc,                     \* "status", "header", "blocks", "ready", "pull", "done"
    buf,                    \* the local buffer of readLine()
    m_sRecvBuffer,
    m_sReaderBuffer,
    m_uRecvContentLength,
    want,                   \* b_size of read()
    blocks,                 \* what onResponse() or the caller got, in order
    spill,                  \* history: body bytes that came with the header
    result                  \* what the last call returned

netvars == <<sent, peer>>
callvars == <<m_uContentLength, m_iBlockSize, mode>>
linevars == <<buf, m_sRecvBuffer>>
bodyvars == <<m_sReaderBuffer, m_uRecvContentLength, want, blocks, spill>>
vars == <<netvars, pos, callvars, pc, linevars, bodyvars, result>>

\* The symbols of the header: a status line, a field, CR and LF.
STATUS == -1
FIELD == -2
CR == -3
LF == -4
Header == <<STATUS, CR, LF, FIELD, CR, LF, CR, LF>>
Answer == Header \o [i \in 1..m_uContentLength |-> i]
Body == SubSeq(Answer, Len(Header) + 1, Len(Answer))

\* HttpConnection::query, and request followed by read.
Init ==
    /\ sent = 0 /\ pos = 0 /\ peer = "open"
    /\ m_uContentLength \in Lengths /\ m_iBlockSize \in BlockSizes
    /\ mode \in {"push", "pull"}
    /\ pc = "status"
    /\ buf = <<>> /\ m_sRecvBuffer = <<>>
    /\ m_sReaderBuffer = <<>> /\ m_uRecvContentLength = 0
    /\ want = 0 /\ blocks = <<>> /\ spill = 0
    /\ result = "none"

-----------------------------------------------------------------------------
\* The server.
Send(n) ==
    /\ peer = "open" /\ n \in 1..Len(Answer) - sent
    /\ sent' = sent + n
    /\ UNCHANGED <<peer, pos, callvars, pc, linevars, bodyvars, result>>

Close ==
    /\ peer = "open" /\ peer' = "closed"
    /\ UNCHANGED <<sent, pos, callvars, pc, linevars, bodyvars, result>>

\* A reset also loses what was not yet read.
Reset ==
    /\ peer = "open" /\ peer' = "reset" /\ sent' = pos
    /\ UNCHANGED <<pos, callvars, pc, linevars, bodyvars, result>>

-----------------------------------------------------------------------------
\* recv_raw() with room for cap bytes: what it takes, and how it ends.
Taken(cap) == IF cap < sent - pos THEN cap ELSE sent - pos
Bytes(cap) == SubSeq(Answer, pos + 1, pos + Taken(cap))
RecvStatus(cap) ==
    CASE Taken(cap) = cap -> "full"
      [] Taken(cap) < cap /\ peer = "open" -> "again"
      [] Taken(cap) < cap /\ peer = "closed" -> "disconnect"
      [] Taken(cap) < cap /\ peer = "reset" -> "reset"

\* wait_recv() returns without an error: there is something to read.
Readable == sent > pos \/ peer # "open"

Done(r) == pc' = "done" /\ result' = r

\* strstr(s, "\r\n").
HasLine(s) == \E i \in 1..Len(s) - 1 : s[i] = CR /\ s[i + 1] = LF
LineEnd(s) == CHOOSE i \in 1..Len(s) - 1 : /\ s[i] = CR /\ s[i + 1] = LF
                                           /\ \A j \in 1..i - 1 : ~(s[j] = CR /\ s[j + 1] = LF)

\* wait_recv() fails: nothing came in time, or the socket was stopped.
WaitFails(r) ==
    /\ pc \in {"status", "header", "blocks", "pull"}
    /\ pc \in {"status", "header"} => ~HasLine(m_sRecvBuffer)
    /\ r = "timeout" => ~Readable
    /\ IF pc = "pull" THEN pc' = "ready" /\ result' = r /\ want' = 0 ELSE Done(r) /\ UNCHANGED want
    /\ UNCHANGED <<netvars, pos, callvars, linevars, m_sReaderBuffer, m_uRecvContentLength, blocks, spill>>

-----------------------------------------------------------------------------
\* HttpConnection::readLine when the round's buffer holds no line.
LineRecv ==
    /\ pc \in {"status", "header"} /\ ~HasLine(m_sRecvBuffer) /\ Readable
    /\ LET cap == HeadMax - Len(buf)
           new == buf \o Bytes(cap)
           st == RecvStatus(cap)
       IN /\ pos' = pos + Taken(cap)
          /\ \/ st # "again" /\ Done(st) /\ UNCHANGED linevars
             \/ st = "again" /\ HasLine(new)
                /\ m_sRecvBuffer' = m_sRecvBuffer \o new /\ buf' = <<>>
                /\ UNCHANGED <<pc, result>>
             \/ st = "again" /\ ~HasLine(new)
                /\ buf' = new /\ UNCHANGED <<m_sRecvBuffer, pc, result>>
    /\ UNCHANGED <<netvars, callvars, bodyvars>>

\* HttpRound::readLine: the line the round's buffer starts with.
Line == SubSeq(m_sRecvBuffer, 1, LineEnd(m_sRecvBuffer) - 1)

Rest == SubSeq(m_sRecvBuffer, LineEnd(m_sRecvBuffer) + 2, Len(m_sRecvBuffer))

\* parseStatusLine.
StatusLine ==
    /\ pc = "status" /\ HasLine(m_sRecvBuffer)
    /\ m_sRecvBuffer' = Rest
    /\ IF Line = <<STATUS>> THEN pc' = "header" /\ UNCHANGED result ELSE Done("status")
    /\ UNCHANGED <<netvars, pos, callvars, buf, bodyvars>>

\* readResponseHeader: a field.
HeaderField ==
    /\ pc = "header" /\ HasLine(m_sRecvBuffer) /\ Line # <<>>
    /\ m_sRecvBuffer' = Rest
    /\ UNCHANGED <<netvars, pos, callvars, pc, buf, bodyvars, result>>

-----------------------------------------------------------------------------
\* procBlocks(): the blocks that buffer and size complete, and what is kept.
\* s_size is unsigned: it wraps when more than a block is kept already.
ProcBlocks(rb, d, ended) ==
    LET s     == (m_iBlockSize - Len(rb)) % Word
        b     == SubSeq(d, s + 1, Len(d))
        full  == Len(b) \div m_iBlockSize
        fits  == s <= Len(d)
        out   == IF fits THEN <<rb \o SubSeq(d, 1, s)>> \o
                    [i \in 1..full |-> SubSeq(b, (i - 1) * m_iBlockSize + 1, i * m_iBlockSize)]
                 ELSE <<>>
        begun == IF fits THEN <<>> ELSE rb
        more  == IF fits THEN SubSeq(b, full * m_iBlockSize + 1, Len(b)) ELSE d
    IN IF ended THEN [out |-> Append(out, begun), rest |-> <<>>]
                ELSE [out |-> out, rest |-> begun \o more]

\* Mutant of Complete: one byte too early.
CompleteEarly(n) == n + 1 >= m_uContentLength

\* readLastBlocks(): all of the body is here.
Complete(n) == n = m_uContentLength

\* procBlocks() on d when n bytes are counted with it, then readLastBlocks().
Push(rb, d, n) ==
    LET first == IF d = <<>> THEN [out |-> <<>>, rest |-> rb] ELSE ProcBlocks(rb, d, FALSE)
        last == IF Complete(n) THEN ProcBlocks(first.rest, <<>>, TRUE)
                               ELSE [out |-> <<>>, rest |-> first.rest]
        out == first.out \o last.out
    IN /\ m_uRecvContentLength' = n
       /\ \/ /\ blocks' = blocks \o out
             /\ m_sReaderBuffer' = last.rest
             /\ IF Complete(n) THEN Done("ok") ELSE pc' = "blocks" /\ UNCHANGED result
          \/ \E i \in 1..Len(out) :     \* onResponse() refuses a block
                /\ blocks' = blocks \o SubSeq(out, 1, i)
                /\ m_sReaderBuffer' = <<>>
                /\ Done("refused")

\* The end of the header, and response() on a body to push: reset(), then
\* the readLastBlocks() that readBlocks() starts with.
HeaderEndPush ==
    /\ pc = "header" /\ HasLine(m_sRecvBuffer) /\ Line = <<>> /\ mode = "push"
    /\ spill' = Len(Rest)
    /\ IF m_uContentLength = 0
       THEN Done("ok") /\ m_sRecvBuffer' = Rest
            /\ UNCHANGED <<m_uRecvContentLength, m_sReaderBuffer, blocks>>
       ELSE m_sRecvBuffer' = <<>> /\ Push(Rest, <<>>, Len(Rest))
    /\ UNCHANGED <<netvars, pos, callvars, buf, want>>

\* request() returns at the end of the header; the caller will call read().
HeaderEndPull ==
    /\ pc = "header" /\ HasLine(m_sRecvBuffer) /\ Line = <<>> /\ mode = "pull"
    /\ spill' = Len(Rest) /\ m_sRecvBuffer' = Rest
    /\ pc' = "ready"
    /\ UNCHANGED <<netvars, pos, callvars, buf, m_sReaderBuffer, m_uRecvContentLength, want, blocks, result>>

\* The loop of readBlocks().
BlocksRecv ==
    /\ pc = "blocks" /\ Readable
    /\ LET st == RecvStatus(RecvMax)
           d == Bytes(RecvMax)
       IN /\ pos' = pos + Taken(RecvMax)
          /\ \/ st # "reset" /\ d # <<>>
                /\ Push(m_sReaderBuffer, d, m_uRecvContentLength + Len(d))
             \/ st = "disconnect" /\ d = <<>> /\ Done(st)
                /\ UNCHANGED <<m_sReaderBuffer, m_uRecvContentLength, blocks>>
             \/ st = "reset" /\ Done(st)
                /\ UNCHANGED <<m_sReaderBuffer, m_uRecvContentLength, blocks>>
    /\ UNCHANGED <<netvars, callvars, linevars, want, spill>>

-----------------------------------------------------------------------------
\* reset() before a read(): the first one takes what came with the header.
First == m_uRecvContentLength = 0
Kept == IF First THEN m_sRecvBuffer ELSE m_sReaderBuffer
Counted == IF First THEN Len(m_sRecvBuffer) ELSE m_uRecvContentLength

\* read(out, b, s): first what is kept.
ReadStart(s) ==
    /\ pc = "ready" /\ m_uContentLength > 0
    /\ m_uRecvContentLength' = Counted
    /\ m_sRecvBuffer' = IF First THEN <<>> ELSE m_sRecvBuffer
    /\ LET n == IF s < Len(Kept) THEN s ELSE Len(Kept)
           got == SubSeq(Kept, 1, n)
       IN /\ blocks' = IF got = <<>> THEN blocks ELSE Append(blocks, got)
          /\ m_sReaderBuffer' = SubSeq(Kept, n + 1, Len(Kept))
          /\ IF n = s \/ (got # <<>> /\ Complete(Counted))
             THEN pc' = "ready" /\ result' = "ok" /\ want' = 0
             ELSE pc' = "pull" /\ result' = "none" /\ want' = s - n
    /\ UNCHANGED <<netvars, pos, callvars, buf, spill>>

\* The loop of read(): it ends when all that was asked for is there.
ReadRecv ==
    /\ pc = "pull" /\ Readable
    /\ LET d == Bytes(want)
       IN /\ pos' = pos + Len(d)
          /\ m_uRecvContentLength' = m_uRecvContentLength + Len(d)
          /\ blocks' = IF d = <<>> THEN blocks ELSE Append(blocks, d)
          /\ IF d # <<>> /\ Len(d) < want
             THEN want' = want - Len(d) /\ UNCHANGED <<pc, result>>
             ELSE want' = 0 /\ pc' = "ready"
                  /\ result' = IF d = <<>> THEN RecvStatus(want) ELSE "ok"
    /\ UNCHANGED <<netvars, callvars, linevars, m_sReaderBuffer, spill>>

\* The caller is done.
Finish ==
    /\ pc = "ready" /\ Done(result)
    /\ UNCHANGED <<netvars, pos, callvars, linevars, bodyvars>>

Terminated == pc = "done" /\ UNCHANGED vars

Client ==
    \/ \E r \in {"timeout", "stopped"} : WaitFails(r)
    \/ LineRecv \/ StatusLine \/ HeaderField \/ HeaderEndPush \/ HeaderEndPull
    \/ BlocksRecv \/ ReadRecv

Next ==
    \/ \E n \in 1..Len(Answer) : Send(n)
    \/ Close \/ Reset
    \/ Client
    \/ \E s \in PullSizes : ReadStart(s)
    \/ Finish \/ Terminated

Spec == Init /\ [][Next]_vars

-----------------------------------------------------------------------------
Got == FlattenSeq(blocks)
\* What the listener or the caller got is the beginning of the body, however
\* the answer was cut into pieces and whatever read() was called with after a
\* failed one.
GotIsPrefix == IsPrefix(Got, Body)

\* No byte is lost or counted twice between recv(), the buffers and the
\* listener: IHttpReader's counter is what came of the body.
Accounted ==
    pc \in {"blocks", "pull", "ready"} =>
        LET early == IF mode = "pull" /\ m_uRecvContentLength = 0 THEN m_sRecvBuffer ELSE <<>>
        IN /\ pos = Len(Header) + m_uRecvContentLength + Len(early)
           /\ Len(Got) + Len(m_sReaderBuffer) = m_uRecvContentLength

\* response() reports success only for a body that was handed over whole.
SuccessIsWhole == mode = "push" /\ result = "ok" => Got = Body

\* Blocks have the size the caller chose and only the last may be shorter,
\* unless more than a block came with the header.
BlockBound ==
    mode = "push" /\ spill <= m_iBlockSize =>
        /\ \A i \in 1..Len(blocks) : Len(blocks[i]) <= m_iBlockSize
        /\ \A i \in 1..Len(blocks) - 1 : Len(blocks[i]) = m_iBlockSize
        /\ Len(m_sReaderBuffer) <= m_iBlockSize
=============================================================================
