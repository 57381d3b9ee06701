---------------------------- MODULE HttpChunked ----------------------------
(***************************************************************************)
(* A chunked body read by the HTTP client and pushed to the listener in    *)
(* blocks: HttpChunked::readBlocks, parseChunkedBlocks, procChunkedBlocks  *)
(* (lib/http/HttpChunked.cpp).  The server sends a well-formed body, cut   *)
(* into pieces anywhere, and may stall, close or reset the connection.     *)
(*                                                                         *)
(* A chunk is the symbol of its size, CR, LF, its data and CR, LF; a byte  *)
(* of the data is its chunk and its place in it.  The buffer on the stack  *)
(* has no terminating zero, so strstr() and strtol() may run into what an  *)
(* earlier read left behind the received bytes: where that can matter      *)
(* every outcome is possible.                                              *)
(***************************************************************************)
EXTENDS Integers, SequencesExt

CONSTANTS
    Bodies,       \* bodies the server may send: sequences of chunk sizes
    BlockSizes,   \* values of getBlockSize()
    Spills,       \* how many bytes of the body come with the header
    RoomMax,      \* DFW_HTTPSOCKET_MAX_SIZE
    Burst         \* the most that is in the socket's buffer at one time

VARIABLES
    body,         \* the sizes of the chunks
    m_iBlockSize,
    sent,         \* bytes the server has sent
    pos,          \* bytes recv() has taken
    peer,         \* "open", "closed", "reset"
    pc,           \* "parse", "block", "recv", "done"
    first,        \* still in the loop over m_sReaderBuffer
    buffer,       \* the received bytes not yet parsed
    o_size,       \* bytes parsed since the last read
    size,         \* the room of the next read
    status,       \* how the last recv() ended
    data,         \* the rest of the chunk procChunkedBlocks() works on
    m_sChunkedBuffer,
    blocks,       \* what onResponse() got, in order
    result

netvars == <<sent, peer>>
vars == <<body, m_iBlockSize, netvars, pos, pc, first, buffer, o_size, size,
          status, data, m_sChunkedBuffer, blocks, result>>

\* The text of a body.
CR == <<"cr">>
LF == <<"lf">>
Size(n) == <<"size", n>>
Data(b, i) == [j \in 1..b[i] |-> <<"data", i, j>>]
Chunk(b, i) == <<Size(b[i]), CR, LF>> \o Data(b, i) \o <<CR, LF>>
Text(b) == FlattenSeq([i \in 1..Len(b) |-> Chunk(b, i)])
              \o <<Size(0), CR, LF, CR, LF>>
Stream == Text(body)
Body == FlattenSeq([i \in 1..Len(body) |-> Data(body, i)])

\* How many bytes of data the chunks before the i-th have.
Before(b, i) == Len(FlattenSeq([k \in 1..i - 1 |-> Data(b, k)]))

\* readBlocks() is called, with what came with the header in m_sReaderBuffer.
Init ==
    /\ body \in Bodies /\ m_iBlockSize \in BlockSizes
    /\ \E s \in Spills : /\ s <= Len(Text(body))
                         /\ sent = s /\ pos = s
                         /\ buffer = SubSeq(Text(body), 1, s)
                         /\ first = (s > 0)
                         /\ pc = IF s > 0 THEN "parse" ELSE "recv"
    /\ peer = "open" /\ o_size = 0 /\ size = RoomMax /\ status = "full"
    /\ data = <<>> /\ m_sChunkedBuffer = <<>> /\ blocks = <<>>
    /\ result = "none"

-----------------------------------------------------------------------------
\* The server.
Send(n) ==
    /\ peer = "open" /\ n \in 1..Len(Stream) - sent
    /\ sent + n - pos <= Burst
    /\ sent' = sent + n
    /\ UNCHANGED <<body, m_iBlockSize, peer, pos, pc, first, buffer, o_size,
                   size, status, data, m_sChunkedBuffer, blocks, result>>

Close ==
    /\ peer = "open" /\ peer' = "closed"
    /\ UNCHANGED <<body, m_iBlockSize, sent, pos, pc, first, buffer, o_size,
                   size, status, data, m_sChunkedBuffer, blocks, result>>

Reset ==
    /\ peer = "open" /\ peer' = "reset" /\ sent' = pos
    /\ UNCHANGED <<body, m_iBlockSize, pos, pc, first, buffer, o_size,
                   size, status, data, m_sChunkedBuffer, blocks, result>>

-----------------------------------------------------------------------------
Done(r) == pc' = "done" /\ result' = r

Taken(cap) == IF cap < sent - pos THEN cap ELSE sent - pos
Readable == sent > pos \/ peer # "open"
RecvStatus(cap) ==
    CASE Taken(cap) >= cap -> "full"
      [] Taken(cap) < cap /\ peer = "open" -> "again"
      [] Taken(cap) < cap /\ peer = "closed" -> "disconnect"
      [] Taken(cap) < cap /\ peer = "reset" -> "reset"

WaitFails(r) ==
    /\ pc = "recv" /\ (r = "timeout" => ~Readable)
    /\ Done(r)
    /\ UNCHANGED <<body, m_iBlockSize, netvars, pos, first, buffer, o_size,
                   size, status, data, m_sChunkedBuffer, blocks>>

Recv ==
    /\ pc = "recv" /\ Readable
    /\ status' = IF size = 0 THEN "full" ELSE RecvStatus(size)
    /\ pos' = pos + Taken(size)
    /\ IF status' = "reset"
       THEN Done("reset") /\ UNCHANGED <<buffer, size>>
       ELSE /\ buffer' = buffer \o SubSeq(Stream, pos + 1, pos')
            /\ size' = size - Taken(size)
            /\ pc' = "parse" /\ UNCHANGED result
    /\ o_size' = 0
    /\ UNCHANGED <<body, m_iBlockSize, netvars, first, data, m_sChunkedBuffer,
                   blocks>>

-----------------------------------------------------------------------------
\* strstr(buf, "\r\n") among the received bytes.
HasLine == \E i \in 1..Len(buffer) - 1 : buffer[i] = CR /\ buffer[i + 1] = LF
LineEnd == CHOOSE i \in 1..Len(buffer) - 1 :
              /\ buffer[i] = CR /\ buffer[i + 1] = LF
              /\ \A j \in 1..i - 1 : ~(buffer[j] = CR /\ buffer[j + 1] = LF)
Val == buffer[1][2]
SaveLen == (LineEnd + 1) + Val + 2

\* A chunk is there with everything that belongs to it.
Complete == HasLine /\ Val # 0 /\ SaveLen <= Len(buffer)

\* The next iteration finds a whole chunk: its data goes to procChunkedBlocks.
ParseChunk ==
    /\ pc = "parse" /\ Complete
    /\ data' = SubSeq(buffer, LineEnd + 2, LineEnd + 1 + Val)
    /\ buffer' = SubSeq(buffer, SaveLen + 1, Len(buffer))
    /\ o_size' = o_size + SaveLen
    /\ pc' = "block"
    /\ UNCHANGED <<body, m_iBlockSize, netvars, pos, first, size, status,
                   m_sChunkedBuffer, blocks, result>>

\* Mutant of ParseLast: what is left of the last block is dropped.
ParseLastDrop ==
    /\ pc = "parse" /\ buffer # <<>> /\ Val = 0
    /\ blocks' = Append(blocks, <<>>) /\ m_sChunkedBuffer' = <<>>
    /\ Done("end")
    /\ UNCHANGED <<body, m_iBlockSize, netvars, pos, first, buffer, o_size,
                   size, status, data>>

\* The size 0: procChunkedBlocks(NULL, 0, true) hands over what is left of a
\* block and then nothing, the sign of the end.  It is taken as soon as the
\* first byte is there, if CR and LF happen to follow it in the buffer.
ParseLast ==
    /\ pc = "parse" /\ buffer # <<>> /\ Val = 0
    /\ blocks' = blocks \o <<m_sChunkedBuffer, <<>>>> /\ m_sChunkedBuffer' = <<>>
    /\ Done("end")
    /\ UNCHANGED <<body, m_iBlockSize, netvars, pos, first, buffer, o_size,
                   size, status, data>>

\* A part of a size line, and behind it no CR LF for longer than a size line
\* may be: the answer is refused.
ParseRefuses ==
    /\ pc = "parse" /\ buffer # <<>> /\ ~HasLine /\ Val # 0
    /\ Done("chunked")
    /\ UNCHANGED <<body, m_iBlockSize, netvars, pos, first, buffer, o_size,
                   size, status, data, m_sChunkedBuffer, blocks>>

\* The room of the next read: in the loop over m_sReaderBuffer it is what the
\* kept bytes leave, afterwards it is taken from what was parsed.
NextRoom == RoomMax - (IF first THEN Len(buffer) ELSE o_size)

\* No whole chunk is left: the rest is moved to the front of the buffer.
ParseEnds ==
    /\ pc = "parse" /\ ~Complete
    /\ buffer # <<>> => (HasLine => Val # 0)
    /\ size' = NextRoom /\ first' = FALSE
    /\ IF status = "disconnect" THEN Done(status) ELSE pc' = "recv" /\ UNCHANGED result
    /\ UNCHANGED <<body, m_iBlockSize, netvars, pos, buffer, o_size, status,
                   data, m_sChunkedBuffer, blocks>>

-----------------------------------------------------------------------------
Missing == m_iBlockSize - Len(m_sChunkedBuffer)

\* procChunkedBlocks(): a block is complete and onResponse() gets it, or
\* refuses it.
Block ==
    /\ pc = "block" /\ Missing <= Len(data)
    /\ blocks' = Append(blocks, m_sChunkedBuffer \o SubSeq(data, 1, Missing))
    /\ m_sChunkedBuffer' = <<>>
    /\ data' = SubSeq(data, Missing + 1, Len(data))
    /\ \/ UNCHANGED <<pc, result>>
       \/ Done("refused")
    /\ UNCHANGED <<body, m_iBlockSize, netvars, pos, first, buffer, o_size,
                   size, status>>

\* The rest is kept for the next block.
Keep ==
    /\ pc = "block" /\ Missing > Len(data)
    /\ m_sChunkedBuffer' = m_sChunkedBuffer \o data
    /\ data' = <<>> /\ pc' = "parse"
    /\ UNCHANGED <<body, m_iBlockSize, netvars, pos, first, buffer, o_size,
                   size, status, blocks, result>>

Terminated == pc = "done" /\ UNCHANGED vars

Client == \/ \E r \in {"timeout", "stopped"} : WaitFails(r)
          \/ Recv \/ ParseChunk \/ ParseLast \/ ParseRefuses \/ ParseEnds
          \/ Block \/ Keep

Next == \/ \E n \in 1..Burst : Send(n)
        \/ Close \/ Reset \/ Client \/ Terminated

Spec == Init /\ [][Next]_vars

-----------------------------------------------------------------------------
Got == FlattenSeq(blocks)

\* What onResponse() got is the beginning of the body, and with what is kept
\* for the next block and the chunk at hand it is everything that was parsed:
\* no byte is lost, repeated or taken for data that is not, however chunks,
\* their size lines and the reads are cut.
Accounted ==
    LET all == Got \o m_sChunkedBuffer \o data
    IN /\ IsPrefix(all, Body)
       /\ pc = "parse" =>
            \E i \in 1..Len(body) + 1 :
                /\ Len(all) = Before(body, i)
                /\ pos - Len(buffer) = Before(body, i) + 5 * (i - 1)

\* readBlocks() reports the end only when the listener has the whole body,
\* and then its last call is the empty one.
EndIsWhole ==
    result = "end" => Got = Body /\ blocks # <<>> /\ Last(blocks) = <<>>

\* Every block but the last has the size the query asked for.
BlocksFull ==
    \A i \in DOMAIN blocks :
        Len(blocks[i]) = m_iBlockSize \/ (result = "end" /\ i >= Len(blocks) - 1)

\* Inside the size line: the size, or the size and CR, but not yet LF.
InSizeLine(n) == n > 0 /\ \/ Stream[n][1] = "size"
                          \/ n > 1 /\ Stream[n] = CR /\ Stream[n - 1][1] = "size"

\* A well-formed body is refused only when a read has ended inside the line
\* with the size of a chunk.
NoFalseRefusal == result = "chunked" => InSizeLine(pos)

\* What the next read brings fits behind the bytes that are kept, which are
\* never more than one incomplete chunk.
WithinBuffer == pc = "recv" => Len(buffer) + Taken(size) <= RoomMax
=============================================================================
