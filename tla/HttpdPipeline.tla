--------------------------- MODULE HttpdPipeline ---------------------------
(***************************************************************************)
(* The httpd service in SERVER_TYPE_POLL: HttpdAcceptor hands a connection *)
(* to HttpdWorker, which reads and routes requests; HttpdSendStream sends  *)
(* status pages, HttpdSendLocalFile sends files; both give a kept-alive    *)
(* client back to the worker.  Each of the three stages is a thread with a *)
(* queue others push to and a poll set of its own; HttpdService::stop      *)
(* tells the threads to end and joins them one by one.                     *)
(*                                                                         *)
(* A poll set is a bag: how many entries each client has (PollSet shows    *)
(* that the walk over the arrays serves each entry once).  A client's      *)
(* socket is closed by ~HttpdClient, when the last queue, poll set or      *)
(* thread lets go of it (SharedPtr).  A request arrives in ReqLen pieces,   *)
(* and in as many header lines more as its peer likes.                     *)
(***************************************************************************)
EXTENDS Integers, Sequences, SequencesExt, FiniteSetsExt

CONSTANTS
    Clients,      \* the connections
    ReqLen,       \* pieces that make up one request
    MaxPieces,    \* bound: pieces one peer sends, further header lines not counted
    Answers,      \* bound: what the service's files lead to
    MayStop       \* bound: FALSE for a service that nobody stops

ASSUME PieceAssumption == ReqLen \in Nat \ {0} /\ MaxPieces \in Nat /\ MayStop \in BOOLEAN

Pages == {"moved", "unmodified", "denied", "error"}
ASSUME AnswerAssumption == Answers \subseteq Pages \cup {"file"}

Senders == {"stream", "file"}
Stages == {"worker"} \cup Senders
Threads == Stages \cup {"accept"}

VARIABLES
    inbox,    \* inbox[c]: pieces waiting in c's socket
    asked,    \* asked[c]: pieces c's peer has sent so far
    more,     \* more[c]: header lines that complete nothing wait in c's socket
    gone,     \* gone[c]: the peer has closed the connection
    sock,     \* sock[c]: "none", "open" or "closed"
    got,      \* got[c]: pieces m_req has parsed; ReqLen is HTTPD_CSTATUS_BODY
    keep,     \* keep[c]: m_resp->m_bKeepAlive
    fstatus,  \* fstatus[c]: m_resp->m_iFileStatus: "start" (0, 1), "body" (2),
              \* "flush" (3), or the uninitialised field of a new HttpResponse
    queue,    \* queue[x]: m_queue of stage x
    polled,   \* polled[x][c]: entries of c in m_poll of stage x
    due,      \* due[x][c]: entries of c the pass of x has yet to visit
    pc,       \* pc[x]: where thread x is
    cur,      \* cur[x]: the client stage x is working on, {} for none
    live,     \* live[x]: m_bLive
    pages     \* pages[c]: status pages (301, 304, 403, 404) routed for c

peers == <<inbox, asked, more, gone>>
message == <<got, keep, fstatus>>
vars == <<peers, sock, message, queue, polled, due, pc, cur, live, pages>>

Zero == [c \in Clients |-> 0]
False == [c \in Clients |-> FALSE]
Unset == [c \in Clients |-> "unset"]

Init ==
    /\ inbox = Zero /\ asked = Zero /\ more = False /\ gone = False
    /\ sock = [c \in Clients |-> "none"]
    /\ got = Zero /\ keep = False /\ fstatus = Unset
    /\ queue = [x \in Stages |-> << >>]
    /\ polled = [x \in Stages |-> Zero]
    /\ due = [x \in Stages |-> Zero]
    /\ pc = [x \in Threads |-> "top"]
    /\ cur = [x \in Stages |-> {}]
    /\ live = [x \in Threads |-> TRUE]
    /\ pages = Zero

-----------------------------------------------------------------------------
InQueue(x, c) == Quantify(DOMAIN queue[x], LAMBDA i : queue[x][i] = c)

\* Some queue, poll set or running thread has a reference to c.
Held(c) ==
    \E x \in Stages : c \in ToSet(queue[x]) \/ polled[x][c] > 0 \/ c \in cur[x]

\* ~HttpdClient closes the socket of every client that lost its last reference.
Reap == sock' = [c \in Clients |->
                    IF sock[c] = "open" /\ ~Held(c)' THEN "closed" ELSE sock[c]]

At(l, c) == pc["worker"] = l /\ c \in cur["worker"]
Waiting(c) == inbox[c] > 0 \/ more[c]

Drop(x, c) == polled' = [polled EXCEPT ![x][c] = @ - 1]
Visited(x, c) == due' = [due EXCEPT ![x][c] = @ - 1]
Goto(x, l) == pc' = [pc EXCEPT ![x] = l]
Push(x, c) == queue' = [queue EXCEPT ![x] = Append(@, c)]

\* client->ready(): a new HttpRequest and a new HttpResponse.
Ready(c) ==
    /\ got' = [got EXCEPT ![c] = 0]
    /\ keep' = [keep EXCEPT ![c] = FALSE]
    /\ fstatus' = [fstatus EXCEPT ![c] = "unset"]

-----------------------------------------------------------------------------
\* HttpdAcceptor::onAccept: a socket option that cannot be set drops the
\* connection; otherwise worker->appendSocket queues a new HttpdClient.
Accept(c) ==
    /\ pc["accept"] = "top" /\ sock[c] = "none"
    /\ \/ sock' = [sock EXCEPT ![c] = "open"] /\ Push("worker", c)
       \/ sock' = [sock EXCEPT ![c] = "closed"] /\ UNCHANGED queue
    /\ UNCHANGED <<peers, message, polled, due, pc, cur, live, pages>>

\* External: the peer sends one more piece, or closes.
PeerSend(c) ==
    /\ sock[c] = "open" /\ ~gone[c] /\ asked[c] < MaxPieces
    /\ asked' = [asked EXCEPT ![c] = @ + 1]
    /\ inbox' = [inbox EXCEPT ![c] = @ + 1]
    /\ UNCHANGED <<more, gone, sock, message, queue, polled, due, pc, cur, live, pages>>

\* ... or, while the worker reads its request, header lines more:
\* HttpRequest::parseRequest takes any number of them.
PeerTrickles(c) ==
    /\ At("parse", c) /\ sock[c] = "open" /\ ~gone[c] /\ ~more[c]
    /\ more' = [more EXCEPT ![c] = TRUE]
    /\ UNCHANGED <<inbox, asked, gone, sock, message, queue, polled, due, pc, cur, live, pages>>

PeerClose(c) ==
    /\ sock[c] = "open" /\ ~gone[c]
    /\ gone' = [gone EXCEPT ![c] = TRUE]
    /\ UNCHANGED <<inbox, asked, more, sock, message, queue, polled, due, pc, cur, live, pages>>

-----------------------------------------------------------------------------
\* A thread sees stop() at the top of its loop; the worker also before every
\* poll entry and every queued client.
Ends(x) ==
    /\ ~live[x]
    /\ pc[x] \in IF x = "worker" THEN {"top", "visit", "drain"} ELSE {"top"}
    /\ Goto(x, "end")
    /\ due' = IF x \in Stages THEN [due EXCEPT ![x] = Zero] ELSE due
    /\ UNCHANGED <<peers, sock, message, queue, polled, cur, live, pages>>

\* poll(): the worker's entries are ready when input, or the peer's end of file,
\* is there; a sender's when the socket takes output or the peer is gone.
Polls(x) ==
    /\ pc[x] = "top" /\ live[x]
    /\ \E writable \in SUBSET Clients :
        /\ x = "worker" => writable = {}
        /\ due' = [due EXCEPT ![x] =
                    [c \in Clients |->
                        IF c \in writable \/ gone[c] \/ (x = "worker" /\ Waiting(c))
                        THEN polled[x][c] ELSE 0]]
    /\ Goto(x, "visit")
    /\ UNCHANGED <<peers, sock, message, queue, polled, cur, live, pages>>

\* The worker's pass is over.
WorkerPassEnds ==
    /\ pc["worker"] = "visit" /\ live["worker"] /\ due["worker"] = Zero
    /\ Goto("worker", "drain")
    /\ UNCHANGED <<peers, sock, message, queue, polled, due, cur, live, pages>>

\* A sender's pass is over, or cut short by stop(): HttpdSender::queueClient,
\* under the sender's lock, moves all queued clients into the poll set; one that
\* Poll::append finds no memory for is lost.
SenderDrains(x) ==
    /\ pc[x] = "visit" /\ (due[x] = Zero \/ ~live[x])
    /\ due' = [due EXCEPT ![x] = Zero]
    /\ \E lost \in SUBSET ToSet(queue[x]) :
        polled' = [polled EXCEPT ![x] =
                    [c \in Clients |-> IF c \in lost THEN @[c] ELSE @[c] + InQueue(x, c)]]
    /\ queue' = [queue EXCEPT ![x] = << >>]
    /\ Goto(x, "top")
    /\ UNCHANGED <<peers, message, cur, live, pages>>
    /\ Reap

\* HttpdWorker::run: one by one, until the queue is found empty.
WorkerDrains ==
    LET q == queue["worker"]
    IN  /\ pc["worker"] = "drain" /\ live["worker"]
        /\ IF q = << >>
           THEN Goto("worker", "top") /\ UNCHANGED <<queue, polled>>
           ELSE /\ queue' = [queue EXCEPT !["worker"] = Tail(q)]
                /\ \E n \in 0 .. 1 : polled' = [polled EXCEPT !["worker"][Head(q)] = @ + n]
                /\ UNCHANGED pc
        /\ UNCHANGED <<peers, message, due, cur, live, pages>>
        /\ Reap

-----------------------------------------------------------------------------
\* readPackets: an entry with an error event is removed, any other is read.
WorkerVisits(c) ==
    /\ pc["worker"] = "visit" /\ live["worker"] /\ due["worker"][c] > 0
    /\ Visited("worker", c)
    /\ \/ /\ gone[c] /\ Drop("worker", c)
          /\ UNCHANGED <<pc, cur>>
       \/ /\ Goto("worker", "parse")
          /\ cur' = [cur EXCEPT !["worker"] = {c}]
          /\ UNCHANGED polled
    /\ UNCHANGED <<peers, message, queue, live, pages>>
    /\ Reap

\* Mutant of WorkerLetsGo: pollin removes the entry and so does its caller.
WorkerLetsGoTwice(c, removed) ==
    /\ IF removed
       THEN polled' = [polled EXCEPT !["worker"][c] = @ - 2]
       ELSE UNCHANGED polled
    /\ cur' = [cur EXCEPT !["worker"] = {}]
    /\ Goto("worker", "visit")

\* pollin returns; the entry was removed or stays.
WorkerLetsGo(c, removed) ==
    /\ IF removed THEN Drop("worker", c) ELSE UNCHANGED polled
    /\ cur' = [cur EXCEPT !["worker"] = {}]
    /\ Goto("worker", "visit")

\* parseRequest: everything in the socket is taken, and the timeout starts
\* again.  The loop ends when m_req is in HTTPD_CSTATUS_BODY, where an earlier
\* request may have left it; what was sent after the request stays in m_req and
\* is lost with it.  Further header lines alone complete nothing; the worker's
\* m_bLive is not looked at.
WorkerParses(c) ==
    /\ At("parse", c) /\ Waiting(c)
    /\ inbox' = [inbox EXCEPT ![c] = 0] /\ more' = [more EXCEPT ![c] = FALSE]
    /\ got' = [got EXCEPT ![c] = Min({ReqLen, @ + inbox[c]})]
    /\ Goto("worker", IF got'[c] = ReqLen THEN "route" ELSE "parse")
    /\ UNCHANGED <<asked, gone, sock, keep, fstatus, queue, polled, due, cur, live, pages>>

\* The read loop fails with what came unread, or taken.
Unread(c) ==
    \/ UNCHANGED <<inbox, more>>
    \/ inbox' = [inbox EXCEPT ![c] = 0] /\ more' = [more EXCEPT ![c] = FALSE]

\* Mutant of WorkerParseFails: the read loop has no timeout of its own.
WorkerParseWaits(c) ==
    /\ At("parse", c) /\ gone[c]
    /\ Unread(c)
    /\ WorkerLetsGo(c, TRUE)
    /\ UNCHANGED <<asked, gone, message, queue, due, live, pages>>
    /\ Reap

\* Mutant of WorkerParseFails: the error is not reported, the entry stays.
WorkerParseKeeps(c) ==
    /\ At("parse", c)
    /\ Unread(c)
    /\ WorkerLetsGo(c, FALSE)
    /\ UNCHANGED <<asked, gone, message, queue, due, live, pages>>
    /\ Reap

\* A malformed or too long request, the end of the connection, MAX_TIMEOUT
\* without a byte.
WorkerParseFails(c) ==
    /\ At("parse", c)
    /\ Unread(c)
    /\ WorkerLetsGo(c, TRUE)
    /\ UNCHANGED <<asked, gone, message, queue, due, live, pages>>
    /\ Reap

\* No such host, a module's error: nothing is sent, the entry is removed.
WorkerRejects(c) ==
    /\ At("route", c)
    /\ WorkerLetsGo(c, TRUE)
    /\ UNCHANGED <<peers, message, queue, due, live, pages>>
    /\ Reap

\* se_checkLocalFile makes a status page: 301 and 304 keep the connection, 403
\* and 404 do not, 304 comes after the file's fields were set, and a file system
\* error leaves the HttpResponse as it is.
WorkerChecks(c, page) ==
    /\ At("route", c)
    /\ keep' = [keep EXCEPT ![c] = IF page = "error" THEN @ ELSE page # "denied"]
    /\ fstatus' = [fstatus EXCEPT ![c] = IF page = "unmodified" THEN "start" ELSE @]
    /\ Goto("worker", IF page = "error" THEN "fail" ELSE "page")
    /\ UNCHANGED <<peers, sock, got, queue, polled, due, cur, live, pages>>

\* stream->appendClient, then pollin returns se_checkLocalFile's retval: its
\* value is DFW_OK for a status page, which the caller takes for "no error", so
\* the entry stays; for a file system error the entry is removed.
WorkerStreams(c) ==
    /\ At("page", c) \/ At("fail", c)
    /\ Push("stream", c)
    /\ WorkerLetsGo(c, pc["worker"] = "fail")
    /\ pages' = [pages EXCEPT ![c] = IF pc["worker"] = "page" THEN @ + 1 ELSE @]
    /\ UNCHANGED <<peers, message, due, live>>
    /\ Reap

\* A regular file: localfile->appendClient first ...
WorkerFiles(c) ==
    /\ At("route", c) /\ "file" \in Answers
    /\ fstatus' = [fstatus EXCEPT ![c] = "start"]
    /\ Push("file", c)
    /\ Goto("worker", "handoff")
    /\ UNCHANGED <<peers, sock, got, keep, polled, due, cur, live, pages>>

\* Mutant of WorkerHandsOff: the entry is not removed.
WorkerHandsOffKeeps(c) ==
    /\ At("handoff", c)
    /\ WorkerLetsGo(c, FALSE)
    /\ UNCHANGED <<peers, message, queue, due, live, pages>>
    /\ Reap

\* ... then m_poll->remove(pos).
WorkerHandsOff(c) ==
    /\ At("handoff", c)
    /\ WorkerLetsGo(c, TRUE)
    /\ UNCHANGED <<peers, message, queue, due, live, pages>>
    /\ Reap

-----------------------------------------------------------------------------
Serves(x, c) == pc[x] = "visit" /\ live[x] /\ due[x][c] > 0 /\ Visited(x, c)

\* sendLocalFile_ready copies the request's keep-alive into the response.
MaySetKeep(x, c) ==
    \/ UNCHANGED keep
    \/ /\ x = "file" /\ fstatus[c] \in {"unset", "start"}
       /\ \E alive \in BOOLEAN : keep' = [keep EXCEPT ![c] = alive]

\* Where one call of sendLocalFile may leave m_iFileStatus: the header is out,
\* the body is out.  What an uninitialised one leads to is not known.
Advances(x, c) ==
    \/ UNCHANGED fstatus
    \/ /\ x = "file" /\ fstatus[c] \in {"start", "body"}
       /\ fstatus' = [fstatus EXCEPT ![c] = IF @ = "start" THEN "body" ELSE "flush"]

\* An error event or a failed send removes the entry; HttpdSendLocalFile also
\* takes DFW_T_CONTINUE, which sendLocalFile returns after the header and after
\* every piece of the body, for an error.
SenderDrops(x, c) ==
    /\ Serves(x, c)
    /\ Drop(x, c)
    /\ MaySetKeep(x, c)
    /\ Advances(x, c)
    /\ UNCHANGED <<peers, got, queue, pc, cur, live, pages>>
    /\ Reap

\* DFW_E_AGAIN: part of the data went out, the entry stays.  A peer that is gone
\* makes the send fail instead.
SenderWaits(x, c) ==
    /\ Serves(x, c) /\ ~gone[c]
    /\ MaySetKeep(x, c)
    /\ UNCHANGED <<peers, sock, got, fstatus, queue, polled, pc, cur, live, pages>>

\* Everything is sent: the entry leaves the poll set.  sendLocalFile is complete
\* only in m_iFileStatus 3, two entries of the client after the first.
SenderCompletes(x, c) ==
    /\ Serves(x, c)
    /\ x = "file" => fstatus[c] \in {"unset", "flush"}
    /\ Drop(x, c)
    /\ Goto(x, "sent")
    /\ cur' = [cur EXCEPT ![x] = {c}]
    /\ UNCHANGED <<peers, sock, message, queue, live, pages>>

\* if( client->isKeepAlive() ) worker->appendClient(client), else let it go.
SenderGivesBack(x, c) ==
    /\ pc[x] = "sent" /\ c \in cur[x]
    /\ IF keep[c] THEN Ready(c) /\ Push("worker", c) ELSE UNCHANGED <<message, queue>>
    /\ cur' = [cur EXCEPT ![x] = {}]
    /\ Goto(x, "visit")
    /\ UNCHANGED <<peers, polled, due, live, pages>>
    /\ Reap

-----------------------------------------------------------------------------
\* HttpdService::stop walks the ThreadManager's list: stop() and join() of one
\* thread before the next.  The list's order is that of the thread handles.
ServiceStops(x) ==
    /\ MayStop /\ live[x]
    /\ \A y \in Threads : live[y] \/ pc[y] = "end"
    /\ live' = [live EXCEPT ![x] = FALSE]
    /\ UNCHANGED <<peers, sock, message, queue, polled, due, pc, cur, pages>>

\* The service has stopped and nobody can connect any more.
Stopped == (\A x \in Threads : pc[x] = "end") /\ UNCHANGED vars

Peer(c) == PeerSend(c) \/ PeerTrickles(c) \/ PeerClose(c)

Acceptor == Ends("accept") \/ \E c \in Clients : Accept(c)

Worker ==
    \/ Ends("worker") \/ Polls("worker") \/ WorkerPassEnds \/ WorkerDrains
    \/ \E c \in Clients :
        \/ WorkerVisits(c) \/ WorkerParses(c) \/ WorkerParseFails(c) \/ WorkerRejects(c)
        \/ \E page \in Answers \cap Pages : WorkerChecks(c, page)
        \/ WorkerStreams(c) \/ WorkerFiles(c) \/ WorkerHandsOff(c)

Sender(x) ==
    \/ Ends(x) \/ Polls(x) \/ SenderDrains(x)
    \/ \E c \in Clients :
        \/ SenderDrops(x, c) \/ SenderWaits(x, c)
        \/ SenderCompletes(x, c) \/ SenderGivesBack(x, c)

Service == \E x \in Threads : ServiceStops(x)

Next ==
    \/ \E c \in Clients : Peer(c)
    \/ Acceptor \/ Worker \/ (\E x \in Senders : Sender(x)) \/ Service
    \/ Stopped

\* The operating system runs every thread; poll() and parseRequest return, at the
\* latest after their timeouts.  Peers and the operator promise nothing.
Fairness ==
    /\ WF_vars(Ends("accept")) /\ WF_vars(Worker)
    /\ \A x \in Senders : WF_vars(Sender(x))

Spec == Init /\ [][Next]_vars /\ Fairness

-----------------------------------------------------------------------------
\* Types of the variables.
TypeOK ==
    /\ inbox \in [Clients -> 0..MaxPieces] /\ asked \in [Clients -> 0..MaxPieces]
    /\ more \in [Clients -> BOOLEAN]
    /\ gone \in [Clients -> BOOLEAN] /\ sock \in [Clients -> {"none", "open", "closed"}]
    /\ got \in [Clients -> 0..ReqLen]
    /\ keep \in [Clients -> BOOLEAN] /\ fstatus \in [Clients -> {"unset", "start", "body", "flush"}]
    /\ queue \in [Stages -> Seq(Clients)]
    /\ polled \in [Stages -> [Clients -> Nat]] /\ due \in [Stages -> [Clients -> Nat]]
    /\ pc \in [Threads -> {"top", "visit", "parse", "route", "page", "fail",
                           "handoff", "sent", "drain", "end"}]
    /\ cur \in [Stages -> SUBSET Clients]
    /\ live \in [Threads -> BOOLEAN] /\ pages \in [Clients -> Nat]

\* How many references stage x has to c: its queue's and its poll set's, and that
\* of a sender's thread.  The worker's thread has a copy of a poll entry's only.
Refs(x, c) ==
    polled[x][c] + InQueue(x, c) + (IF x \in Senders /\ c \in cur[x] THEN 1 ELSE 0)

\* How many queues, poll sets and sending threads have c.
Owners(c) == Refs("worker", c) + Refs("stream", c) + Refs("file", c)

\* A connection that is open has one owner, two while the worker hands it to
\* the file sender; only a status page, whose DFW_OK retval lets the worker's
\* entry stay, adds one.
OwnersAccounted ==
    \A c \in Clients : sock[c] = "open" =>
        Owners(c) \in 1 .. 1 + pages[c] + IF At("handoff", c) THEN 1 ELSE 0

\* The file sender never reads an uninitialised m_iFileStatus of a connection
\* that has had no status page: no other stage can replace its HttpResponse.
FileStatusSet ==
    \A c \in Clients :
        pages[c] = 0 /\ (polled["file"][c] > 0 \/ c \in ToSet(queue["file"]))
            => fstatus[c] # "unset"

\* A pass never goes on to an entry that has left the poll set: what pollin, an
\* error event or a sender removes is removed once.
PassWithinPollSet ==
    \A x \in Stages, c \in Clients : due[x][c] <= polled[x][c]

\* For ever, a peer sends header lines of the request the worker is reading.
HeldByPeer == \E c \in Clients : []<><<PeerTrickles(c)>>_vars

\* stop() of a thread is followed by its end, so HttpdService::stop returns: a
\* worker held by a silent peer is released by parseRequest's MAX_TIMEOUT, one
\* held by a peer that goes on sending header lines only when it stops.
ShutdownCompletes == (\A x \in Threads : ~live[x] ~> pc[x] = "end") \/ HeldByPeer

AllLive == \A x \in Threads : live[x]

\* A connection whose peer has gone is closed, however many stages have it,
\* unless the service is stopped first or another peer holds the worker.
DisconnectCleansUp ==
    (\A c \in Clients : gone[c] ~> (sock[c] = "closed" \/ ~AllLive)) \/ HeldByPeer

\* What a peer sends is read, or its connection is closed, unless a sender is
\* still busy with it: only a peer that sends header lines for ever holds the
\* worker for ever.
InputIsRead ==
    \/ \A c \in Clients : Waiting(c) ~>
           (~Waiting(c) \/ sock[c] = "closed" \/ ~AllLive
              \/ \E x \in Senders : polled[x][c] > 0)
    \/ HeldByPeer

\* Every client has its owners, and every stage finds it in a state of its own.
OwnersInv == TypeOK /\ OwnersAccounted /\ FileStatusSet
=============================================================================
