----------------------------- MODULE XmlParser -----------------------------
(***************************************************************************)
(* A WebDAV listing: HttpPropfind (lib/http/HttpPropfind.cpp) gives the    *)
(* body of the answer to XmlParser::parseBuffer (lib/xml/XmlParser.cpp)    *)
(* block by block, as IHttpReader and HttpChunked hand it over, and walks  *)
(* the tree when it is told that the body is complete.                     *)
(*                                                                         *)
(* A document is a sequence of pieces of markup.  A character is the       *)
(* number of its piece and its place in it; a piece is long enough for     *)
(* the places at which the regular expressions decide.  Attributes are     *)
(* part of their tag, whose end parseUnknownAttributes looks for.          *)
(***************************************************************************)
EXTENDS Integers, FiniteSets, SequencesExt

CONSTANTS
    Documents,    \* sequences of pieces: kind, name, length
    MaxBlock      \* the largest block size tried

VARIABLES
    doc,          \* the document the server sends
    chunked,      \* HttpChunked reads it, not IHttpReader
    block,        \* getBlockSize()
    given,        \* characters given to parseBuffer
    m_sBuffer,    \* the text not parsed yet
    nodes,        \* the nodes, in the order of append(): piece, text, parent
    m_OpenList,   \* the open nodes, the root first
    pc,           \* "read", "parse", "done"
    ends,         \* how often onResponse was told the body is complete
    listing,      \* what onPropfind was given
    result        \* "none", "ok", "error"

vars == <<doc, chunked, block, given, m_sBuffer, nodes, m_OpenList, pc, ends, listing, result>>
body == <<doc, chunked, block>>

TextOf(d) == FlattenSeq([i \in DOMAIN d |-> [j \in 1 .. d[i].len |-> <<i, j>>]])

Init ==
    /\ doc \in Documents /\ chunked \in BOOLEAN /\ block \in 1 .. MaxBlock
    /\ given = 0 /\ m_sBuffer = <<>> /\ nodes = <<>> /\ m_OpenList = <<>>
    /\ pc = "read" /\ ends = 0 /\ listing = <<>> /\ result = "none"

-----------------------------------------------------------------------------
\* procBlocks hands over a full block.
Block ==
    /\ pc = "read" /\ given + block <= Len(TextOf(doc))
    /\ given' = given + block
    /\ m_sBuffer' = m_sBuffer \o SubSeq(TextOf(doc), given + 1, given')
    /\ pc' = "parse"
    /\ UNCHANGED <<body, nodes, m_OpenList, ends, listing, result>>

\* The body has ended with less than a block in hand.
LastBlock ==
    /\ pc = "read" /\ given < Len(TextOf(doc)) /\ given + block > Len(TextOf(doc))
    /\ given' = Len(TextOf(doc))
    /\ m_sBuffer' = m_sBuffer \o SubSeq(TextOf(doc), given + 1, given')
    /\ pc' = "parse"
    /\ UNCHANGED <<body, nodes, m_OpenList, ends, listing, result>>

-----------------------------------------------------------------------------
\* The walk over the finished tree.  Only tags have children.
Name(k) == doc[nodes[k].piece].name
Kind(k) == doc[nodes[k].piece].kind
IsTag(k) == Kind(k) \in {"tag", "self"}

\* Xml::text(): the text below a node.
Text(n) ==
    LET below[k \in 0 .. Len(nodes)] == k > 0 /\ (nodes[k].parent = n \/ below[nodes[k].parent])
    IN FlattenSeq([k \in DOMAIN nodes |->
           IF below[k] /\ Kind(k) = "text" THEN nodes[k].text ELSE <<>>])

\* propfindResponse: the text of the last D:href, as the name of the entry.
EntryName(n) ==
    LET hrefs == {k \in DOMAIN nodes : nodes[k].parent = n /\ IsTag(k) /\ Name(k) = "href"}
    IN IF hrefs = {} THEN <<>> ELSE Text(CHOOSE k \in hrefs : \A j \in hrefs : j <= k)

\* propfindComplete: every D:response at the root or inside D:multistatus.
Entries ==
    LET top[k \in 0 .. Len(nodes)] ==
            k = 0 \/ (IsTag(k) /\ Name(k) = "multistatus" /\ top[nodes[k].parent])
        responses == SelectSeq([k \in DOMAIN nodes |-> k], LAMBDA k :
            IsTag(k) /\ Name(k) = "response" /\ top[nodes[k].parent])
    IN [e \in DOMAIN responses |-> EntryName(responses[e])]

Complete(times) == ends' = ends + times /\ listing' = IF times > 0 THEN Entries ELSE listing

\* onResponse without text means the end of the body.  IHttpReader makes its
\* last call with what is left in its buffer, so only an empty buffer ends the
\* body; HttpChunked makes that call and one more.
Calls == (IF Len(TextOf(doc)) % block = 0 THEN 1 ELSE 0) + (IF chunked THEN 1 ELSE 0)

End ==
    /\ pc = "read" /\ given = Len(TextOf(doc))
    /\ Complete(Calls)
    /\ pc' = "done" /\ result' = "ok"
    /\ UNCHANGED <<body, given, m_sBuffer, nodes, m_OpenList>>

-----------------------------------------------------------------------------
\* The piece the buffer begins with, and how much of it is there.
First == doc[m_sBuffer[1][1]]
Have == Len(SelectSeq(m_sBuffer, LAMBDA c : c[1] = m_sBuffer[1][1]))

\* m_sBuffer.shift(outsize).
Shift(n) == m_sBuffer' = SubSeq(m_sBuffer, n + 1, Len(m_sBuffer))

\* getParentNode.
Parent == IF m_OpenList = <<>> THEN 0 ELSE Last(m_OpenList)

\* setClosedNode.
Closed(name) ==
    LET same == {k \in DOMAIN m_OpenList : Name(m_OpenList[k]) = name}
        find == CHOOSE k \in same : \A j \in same : j <= k
    IN IF same = {} THEN m_OpenList ELSE SubSeq(m_OpenList, 1, find - 1)

\* parseBuffer shifts the buffer and Xml::append hangs the node into the tree.
Found(n) ==
    /\ nodes' = Append(nodes, [piece |-> m_sBuffer[1][1], text |-> SubSeq(m_sBuffer, 1, n),
                               parent |-> Parent])
    /\ Shift(n)
    /\ UNCHANGED <<body, given, pc, ends, listing, result>>

\* parseDeclaration, parseCommentTag: only a whole piece matches.
Special ==
    /\ pc = "parse" /\ m_sBuffer # <<>>
    /\ First.kind \in {"decl", "comment"} /\ Have = First.len
    /\ Found(First.len) /\ UNCHANGED m_OpenList

\* parseTag on a whole tag.
OpenTag ==
    /\ pc = "parse" /\ m_sBuffer # <<>>
    /\ First.kind \in {"tag", "self"} /\ Have = First.len
    /\ Found(First.len)
    /\ m_OpenList' = IF First.kind = "tag" THEN Append(m_OpenList, Len(nodes) + 1) ELSE m_OpenList

\* parseCloseTag on a whole tag.
CloseTag ==
    /\ pc = "parse" /\ m_sBuffer # <<>>
    /\ First.kind = "close" /\ Have = First.len
    /\ Found(First.len)
    /\ m_OpenList' = Closed(First.name)

\* Mutant of ParseText: text is parsed only when the next piece has begun, and
\* what has come of it is dropped before that.
TextDropped ==
    /\ pc = "parse" /\ m_sBuffer # <<>> /\ First.kind = "text"
    /\ IF Have < First.len THEN Shift(Have) /\ UNCHANGED <<body, given, pc, ends, listing, result, nodes>>
       ELSE Found(Have)
    /\ UNCHANGED m_OpenList

\* parseText: up to the next '<', or all there is.
ParseText ==
    /\ pc = "parse" /\ m_sBuffer # <<>> /\ First.kind = "text"
    /\ Found(Have) /\ UNCHANGED m_OpenList

\* The expressions of parseTag and parseCloseTag match.
NameBegun == \/ First.kind \in {"tag", "self"} /\ Have >= 2
             \/ First.kind = "close" /\ Have >= 3

\* parseBuffer returns and onResponse goes on: the buffer is empty, or a tag
\* has no end yet (NEED_BUFFER).
NeedBuffer ==
    /\ pc = "parse"
    /\ \/ m_sBuffer = <<>>
       \/ m_sBuffer # <<>> /\ NameBegun /\ Have < First.len
    /\ pc' = "read"
    /\ UNCHANGED <<body, given, m_sBuffer, nodes, m_OpenList, ends, listing, result>>

\* ESYNTAX, because no expression matches what has come of the piece, or
\* ERROR, because parseNoneTag makes no node (it also matches a comment that
\* is cut behind a '>').  onResponse returns an error and the query fails.
Unmatched ==
    \/ First.kind = "none"
    \/ First.kind \in {"decl", "comment"} /\ Have < First.len
    \/ First.kind \in {"tag", "self", "close"} /\ ~NameBegun

Refuse ==
    /\ pc = "parse" /\ m_sBuffer # <<>> /\ Unmatched
    /\ pc' = "done" /\ result' = "error"
    /\ UNCHANGED <<body, given, m_sBuffer, nodes, m_OpenList, ends, listing>>

Terminated == pc = "done" /\ UNCHANGED vars

Parse == Special \/ OpenTag \/ CloseTag \/ ParseText \/ NeedBuffer \/ Refuse
Next == Block \/ LastBlock \/ End \/ Parse \/ Terminated

Spec == Init /\ [][Next]_vars

-----------------------------------------------------------------------------
\* The tree of a well nested document, from the text alone: a piece is as deep
\* as tags are open before it, and its parent is the last tag one level up.
Depth(i) == Cardinality({j \in 1 .. i - 1 : doc[j].kind = "tag"})
                - Cardinality({j \in 1 .. i - 1 : doc[j].kind = "close"})
ParentOf(i) ==
    LET above == {j \in 1 .. i - 1 : doc[j].kind = "tag" /\ Depth(j) = Depth(i) - 1}
    IN IF above = {} THEN 0 ELSE CHOOSE j \in above : \A k \in above : k <= j
Nested == /\ \A i \in DOMAIN doc : Depth(i) >= 0
          /\ \A i \in DOMAIN doc : doc[i].kind = "close" =>
                ParentOf(i) # 0 /\ doc[ParentOf(i)].name = doc[i].name

Inside(i, j) == /\ j < i /\ doc[j].kind = "tag"
                /\ \A k \in j + 1 .. i - 1 : ~(doc[k].kind = "close" /\ ParentOf(k) = j)

\* The names a listing has: the text inside the last href of each response.
Tag(i, name) == doc[i].kind \in {"tag", "self"} /\ doc[i].name = name
Responses == {r \in DOMAIN doc : /\ Tag(r, "response")
                                 /\ \A j \in DOMAIN doc : Inside(r, j) => Tag(j, "multistatus")}
NameOf(r) ==
    LET hrefs == {h \in DOMAIN doc : Tag(h, "href") /\ ParentOf(h) = r}
    IN SelectSeq(TextOf(doc), LAMBDA c :
          \E h \in hrefs : /\ \A k \in hrefs : k <= h
                           /\ Inside(c[1], h) /\ doc[c[1]].kind = "text")
Names == LET all == SetToSortSeq(Responses, <) IN [e \in DOMAIN all |-> NameOf(all[e])]

\* However the body is cut, no character is lost or repeated: those in the
\* nodes, in their order, and those in the buffer are the ones given.
NothingLost ==
    FlattenSeq([k \in DOMAIN nodes |-> nodes[k].text]) \o m_sBuffer
        = SubSeq(TextOf(doc), 1, given)

\* However the body is cut, and whatever setClosedNode finds, the nodes of a
\* well nested document have the parents they have in the document.
TreeRight ==
    Nested => \A k \in DOMAIN nodes :
        ParentOf(nodes[k].piece) = IF nodes[k].parent = 0 THEN 0 ELSE nodes[nodes[k].parent].piece

\* Also when tags are closed in the wrong order or not at all, the open nodes
\* are a path down from the root.
OpenPath ==
    \A k \in DOMAIN m_OpenList :
        /\ Kind(m_OpenList[k]) = "tag"
        /\ nodes[m_OpenList[k]].parent = IF k = 1 THEN 0 ELSE m_OpenList[k - 1]

\* A document that holds no "<!...>" is refused only when a block ends inside
\* a declaration or a comment, or before the name of a tag.
RefusedAtCut ==
    result = "error" =>
        \/ \E i \in DOMAIN doc : doc[i].kind = "none"
        \/ LET c == TextOf(doc)[given]  p == doc[c[1]]
           IN /\ c[2] < p.len
              /\ \/ p.kind \in {"decl", "comment"}
                 \/ p.kind \in {"tag", "self"} /\ c[2] = 1
                 \/ p.kind = "close" /\ c[2] <= 2

\* What onPropfind is told are the names in the document.
ListingRight == ends > 0 /\ Nested => listing = Names
=============================================================================
