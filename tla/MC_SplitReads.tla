---------------------------- MODULE MC_SplitReads ----------------------------
(***************************************************************************)
(* Everything the library reads from a socket arrives cut anywhere: the    *)
(* request (RequestParser), an answer with a Content-Length (HttpReader),  *)
(* a chunked one (HttpChunked) and the XML of a listing (XmlParser).  The  *)
(* four are checked side by side: `active' says which one moves, the other *)
(* three stay in an initial state.                                         *)
(***************************************************************************)
EXTENDS Integers, Sequences

CONSTANTS Lengths, BlockSizes, PullSizes, HeadMax, RecvMax, Word,
          Bodies, Spills, RoomMax, Burst,
          Requests, MaxPacket,
          Documents, MaxBlock

ASSUME ReadersAssumption ==
    /\ Lengths \subseteq Nat /\ PullSizes \subseteq Nat \ {0} /\ BlockSizes \subseteq Nat \ {0}
    /\ HeadMax \in Nat \ {0} /\ RecvMax \in Nat \ {0} /\ Word \in Nat
    /\ \A l \in Lengths, b \in BlockSizes : Word > l + b + HeadMax
    /\ MaxPacket \in Nat \ {0} /\ MaxBlock \in Nat \ {0}

\* The shortest text of a piece: <?n?>, <n>, <n/>, </n>, <!---->, <!n>, t.
MinLength == [decl |-> 5, tag |-> 3, self |-> 4, close |-> 4, comment |-> 7,
              none |-> 4, text |-> 1]

ASSUME DocumentsAssumption ==
    \A d \in Documents : \A i \in DOMAIN d :
        d[i].kind \in DOMAIN MinLength /\ d[i].len \in Nat /\ d[i].len >= MinLength[d[i].kind]

\* HttpChunked::readBlocks takes the room of the next read from what it has just
\* parsed, not from what it keeps: only a socket that never holds more than the
\* buffer less one incomplete chunk (n bytes and 5 around them, the last one has
\* none) keeps it inside.
ASSUME ChunkedAssumption ==
    /\ \A b \in Bodies : b \in Seq(Nat \ {0})
    /\ \A b \in Bodies : \A i \in DOMAIN b : Burst + b[i] + 5 - 1 <= RoomMax
    /\ \A s \in Spills : s \in 0..Burst
    /\ Burst \in Nat /\ RoomMax \in Nat /\ Burst + 5 - 1 <= RoomMax

\* A request has a first line and, behind the fields, a blank one.
ASSUME RequestsAssumption ==
    \A r \in Requests :
        /\ r \in Seq(Nat)
        /\ \E n \in 1..Len(r) - 1 : r[n + 1] = 0 /\ \A i \in 1..n : r[i] # 0

VARIABLES
    active,
    \* of HttpReader
    sent, pos, peer, m_uContentLength, m_iBlockSize, mode, pc, buf, m_sRecvBuffer,
    m_sReaderBuffer, m_uRecvContentLength, want, blocks, spill, result,
    \* of HttpChunked
    body, c_blockSize, c_sent, c_pos, c_peer, c_pc, first, buffer, o_size, size, status,
    data, m_sChunkedBuffer, c_blocks, c_result,
    \* of RequestParser
    request, r_sent, r_pos, open, m_bStop, m_sBuffer, m_cstatus, lines, r_pc, r_result,
    \* of XmlParser
    doc, chunked, block, given, x_buffer, nodes, m_OpenList, x_pc, ends, listing, x_result

Answer == INSTANCE HttpReader
Chunked == INSTANCE HttpChunked WITH
    m_iBlockSize <- c_blockSize, sent <- c_sent, pos <- c_pos, peer <- c_peer,
    pc <- c_pc, blocks <- c_blocks, result <- c_result
Request == INSTANCE RequestParser WITH
    sent <- r_sent, pos <- r_pos, pc <- r_pc, result <- r_result
Listing == INSTANCE XmlParser WITH
    m_sBuffer <- x_buffer, pc <- x_pc, result <- x_result

answer == <<sent, pos, peer, m_uContentLength, m_iBlockSize, mode, pc, buf,
            m_sRecvBuffer, m_sReaderBuffer, m_uRecvContentLength, want, blocks,
            spill, result>>
chunks == <<body, c_blockSize, c_sent, c_pos, c_peer, c_pc, first, buffer, o_size,
            size, status, data, m_sChunkedBuffer, c_blocks, c_result>>
lists == <<doc, chunked, block, given, x_buffer, nodes, m_OpenList, x_pc, ends,
           listing, x_result>>
requests == <<request, r_sent, r_pos, open, m_bStop, m_sBuffer, m_cstatus, lines, r_pc,
              r_result>>
vars == <<active, answer, chunks, requests, lists>>

-----------------------------------------------------------------------------
(* The instances.                                                          *)

\* Bodies of no, one and several chunks, shorter and longer than a block.
MCBodies == {<<>>, <<1>>, <<2, 1>>, <<3, 3, 1>>}

\* Requests without and with fields, one with a second request behind it, and
\* one with a line that does not fit.
MCRequests == {<<1, 0>>, <<3, 2, 0>>, <<2, 1, 3, 0>>, <<2, 1, 0, 1, 0>>, <<1, 6, 0>>}

\* A listing of two entries with a declaration, one with a comment and an empty
\* tag, tags that are not closed or closed in the wrong order, a close tag
\* without its tag, and a document type.
P(kind, name, len) == [kind |-> kind, name |-> name, len |-> len]
O(name) == P("tag", name, 4)
C(name) == P("close", name, 5)
T(len) == P("text", "", len)
Entry(len) == <<O("response"), O("href"), T(len), C("href"), C("response")>>
MCDocuments == {
    <<P("decl", "xml", 6), O("multistatus")>> \o Entry(3) \o Entry(1) \o <<C("multistatus")>>,
    <<O("multistatus"), P("comment", "", 8), O("response"), P("self", "prop", 4), O("href"), T(2),
      P("self", "b", 5), T(1), C("href"), C("response"), C("multistatus")>>,
    <<O("multistatus"), O("response"), O("href"), T(2), C("response")>> \o Entry(1),
    <<O("response"), O("href"), T(1), O("b"), T(2), C("href"), C("b"), C("response")>>,
    <<C("href")>> \o Entry(2),
    <<P("none", "DOCTYPE", 5)>> \o Entry(1)}

-----------------------------------------------------------------------------
\* A reader that does not move has its smallest input.
Init ==
    /\ active \in {"answer", "chunked", "request", "listing"}
    /\ Answer!Init
    /\ active # "answer" => m_uContentLength = 0 /\ m_iBlockSize = 1 /\ mode = "push"
    /\ Chunked!Init
    /\ active # "chunked" => body = <<>> /\ c_blockSize = 1 /\ c_sent = 0
    /\ Request!Init
    /\ active # "request" => request = <<1, 0>>
    /\ Listing!Init
    /\ active # "listing" => doc[1].kind = "none" /\ ~chunked /\ block = 1

AnswerMoves == active = "answer" /\ Answer!Next
                   /\ UNCHANGED <<active, chunks, requests, lists>>
ChunkedMoves == active = "chunked" /\ Chunked!Next
                    /\ UNCHANGED <<active, answer, requests, lists>>
RequestMoves == active = "request" /\ Request!Next
                    /\ UNCHANGED <<active, answer, chunks, lists>>
ListingMoves == active = "listing" /\ Listing!Next
                    /\ UNCHANGED <<active, answer, chunks, requests>>

Next == AnswerMoves \/ ChunkedMoves \/ RequestMoves \/ ListingMoves

Spec == Init /\ [][Next]_vars

-----------------------------------------------------------------------------
\* However the text is cut, the httpd accepts exactly the lines the client sent,
\* keeps what follows the blank line, and refuses no request whose lines fit.
RequestAsSent == Request!ParsedIsSent /\ Request!RefusedIfLong /\ Request!NullOnlyAtLineEnd

\* The listener of a query gets the body from its beginning on, byte by byte,
\* in blocks of the size it chose; no byte is lost or counted twice, and IHttpReader
\* calls only a whole body a success.
AnswerHandedOver ==
    Answer!GotIsPrefix /\ Answer!Accounted /\ Answer!SuccessIsWhole /\ Answer!BlockBound

\* The same for HttpChunked, however chunks, size lines and reads are cut: every
\* block but the last is full, a well-formed body is refused only at a cut in a
\* size line, and a read never runs over the end of the buffer.
ChunkedHandedOver ==
    /\ Chunked!Accounted /\ Chunked!EndIsWhole /\ Chunked!BlocksFull
    /\ Chunked!NoFalseRefusal /\ Chunked!WithinBuffer

\* The tree and the listing made of a document do not depend on the blocks in
\* which it is given to parseBuffer, and no character is lost between them; the
\* open nodes are a path, and a document is refused only at a cut.
ListingAsSent ==
    /\ Listing!NothingLost /\ Listing!TreeRight /\ Listing!ListingRight
    /\ Listing!OpenPath /\ Listing!RefusedAtCut
=============================================================================
