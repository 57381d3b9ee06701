----------------------------- MODULE HttpClient -----------------------------
(***************************************************************************)
(* One HttpQuery and its HttpConnection (lib/http): queries that follow    *)
(* each other on a connection that is kept, with redirections to the same  *)
(* and to other hosts, authentication and the retry of a broken pipe.      *)
(* Bytes are those of HttpReader; here an answer is a head and a rest.     *)
(*                                                                         *)
(* connect() keeps an open socket when m_sLastUri is the URI of the round; *)
(* isConnect() only says that there is a handle.  A redirection to another *)
(* host reconnects the socket but leaves m_sLastUri alone.                 *)
(***************************************************************************)
EXTENDS Integers, Sequences, FiniteSets

CONSTANTS
    Hosts,
    Paths,
    MaxRetry,     \* getMaxRetryRequestCount()
    MaxWire,      \* bound: answers on the wire
    Relative,     \* a location that is neither "/..." nor "http://..."
    None

\* A URI; "full" has the port and the path that HttpRound::parseUri adds.
Uris == [host : Hosts, path : Paths, full : BOOLEAN]
Full(u) == [u EXCEPT !.full = TRUE]

VARIABLES
    m_socket,       \* [open, host, alive]: a handle, its peer, and whether it works
    m_sLastUri,
    round,          \* m_sUri of the last round
    retry_count, retry_auth,
    m_bOnlyHead,
    pc,             \* "idle", "connect", "request", "read", "status", "body", "next"
    status,         \* "none", or the answer that was read
    wire,           \* answers, and rests of answers, sent and not read
    moved,          \* history: the host a redirection connected to, or None
    left            \* history: a query ended before its answer was read

qvars == <<retry_count, retry_auth, m_bOnlyHead>>
vars == <<m_socket, m_sLastUri, round, qvars, pc, status, wire, moved, left>>

\* The answers a server gives.
Answers == [kind : {"200", "401"}, loc : {None}]
             \cup [kind : {"3xx"}, loc : {u \in Uris : ~u.full} \cup Paths \cup {Relative, None}]
NoAnswer == [kind |-> "none", loc |-> None]

Closed == [open |-> FALSE, host |-> None, alive |-> FALSE]

Init ==
    /\ m_socket = Closed /\ m_sLastUri = None
    /\ round = None /\ retry_count = 0 /\ retry_auth = 0 /\ m_bOnlyHead = FALSE
    /\ pc = "idle" /\ status = NoAnswer /\ wire = <<>>
    /\ moved = None /\ left = FALSE

\* The query returns, with an error or not; l is what becomes of "left".
Return(l) ==
    /\ left' = l
    /\ pc' = "idle"
    /\ round' = None /\ retry_count' = 0 /\ retry_auth' = 0 /\ m_bOnlyHead' = FALSE
    /\ status' = NoAnswer

-----------------------------------------------------------------------------
\* The network: a connection that works may end, with or without what is on it.
PeerCloses ==
    /\ m_socket.alive
    /\ m_socket' = [m_socket EXCEPT !.alive = FALSE]
    /\ wire' \in {wire, <<>>}
    /\ UNCHANGED <<m_sLastUri, round, qvars, pc, status, moved, left>>

-----------------------------------------------------------------------------
\* HttpQuery::query: createRound(uri), then HttpConnection::query.  With an
\* unknown host it returns and nothing has changed.
Query(u, onlyHead) ==
    /\ pc = "idle"
    /\ pc' = "connect" /\ round' = u /\ m_bOnlyHead' = onlyHead
    /\ UNCHANGED <<m_socket, m_sLastUri, retry_count, retry_auth, status, wire, moved, left>>

\* connect_real(): every address of the host is tried; open() closes the old
\* handle, and a failed connect leaves a handle without a peer.
ConnectReal(host, ok) ==
    /\ m_socket' = [open |-> TRUE, host |-> host, alive |-> ok]
    /\ wire' = <<>>

\* Mutant of Reuse: the hosts are not compared.
ReuseAny == m_socket.open

\* The test of connect().
Reuse == m_socket.open /\ m_sLastUri = round

\* connect(), from query() and after a broken pipe.
Connect(ok) ==
    /\ pc = "connect"
    /\ \/ /\ Reuse
          /\ pc' = "request"
          /\ UNCHANGED <<m_socket, m_sLastUri, wire, moved, left, round, qvars, status>>
       \/ /\ ~Reuse
          /\ m_sLastUri' = round /\ moved' = None
          /\ ConnectReal(round.host, ok)
          /\ IF ok THEN pc' = "request" /\ left' = FALSE /\ UNCHANGED <<round, qvars, status>>
                   ELSE Return(FALSE)

\* request_raw() until the request is out; the server's answer follows.
Request ==
    /\ pc = "request" /\ m_socket.alive /\ Len(wire) < MaxWire
    /\ retry_count' = retry_count + 1
    /\ wire' = Append(wire, [part |-> "head", uri |-> round])
    /\ pc' = "read"
    /\ UNCHANGED <<m_socket, m_sLastUri, round, retry_auth, m_bOnlyHead, status, moved, left>>

\* The request goes out although the peer is gone: nothing will answer it.
RequestLost ==
    /\ pc = "request" /\ m_socket.open /\ ~m_socket.alive
    /\ retry_count' = retry_count + 1
    /\ pc' = "read"
    /\ UNCHANGED <<m_socket, m_sLastUri, round, retry_auth, m_bOnlyHead, status, wire, moved, left>>

\* send_wait() reports DFW_E_PIPE: connect() and again.
RequestPipe ==
    /\ pc = "request" /\ ~m_socket.alive
    /\ IF retry_count + 1 > MaxRetry
       THEN Return(TRUE)
       ELSE /\ retry_count' = retry_count + 1 /\ pc' = "connect"
            /\ UNCHANGED <<round, retry_auth, m_bOnlyHead, status, left>>
    /\ UNCHANGED <<m_socket, m_sLastUri, wire, moved>>

\* Any other error of request_raw(): the connection is left as it is.
RequestError ==
    /\ pc \in {"request", "read"}
    /\ Return(TRUE)
    /\ UNCHANGED <<m_socket, m_sLastUri, wire, moved>>

\* readStatusAndHeader(): what comes first on the connection.
ReadHead(a) ==
    /\ pc = "read" /\ wire # <<>> /\ Head(wire).part = "head"
    /\ status' = a
    /\ wire' = [wire EXCEPT ![1].part = "rest"]
    /\ pc' = "status"
    /\ UNCHANGED <<m_socket, m_sLastUri, round, qvars, moved, left>>

\* The rest of an earlier answer is no status line; what was read of it is lost.
ReadGarbage ==
    /\ pc = "read" /\ wire # <<>> /\ Head(wire).part = "rest"
    /\ wire' \in {wire, Tail(wire)}
    /\ Return(TRUE)
    /\ UNCHANGED <<m_socket, m_sLastUri, moved>>

\* The switch of request_real(): only 3xx and 401 go on, and only when the
\* caller wants more than the head.
Status ==
    /\ pc = "status"
    /\ IF m_bOnlyHead
       THEN Return(TRUE)
       ELSE pc' = "body" /\ UNCHANGED <<round, qvars, status, left>>
    /\ UNCHANGED <<m_socket, m_sLastUri, wire, moved>>

\* response(): the rest of the answer, for the listener or to be dropped.
BodyRead ==
    /\ pc = "body" /\ wire # <<>>
    /\ wire' = Tail(wire)
    /\ \/ status.kind = "200" /\ Return(left)
       \/ /\ status.kind # "200"
          /\ IF retry_count > MaxRetry
             THEN Return(TRUE)
             ELSE pc' = "next" /\ UNCHANGED <<round, qvars, status, left>>
    /\ UNCHANGED <<m_socket, m_sLastUri, moved>>

\* response() fails: part of the rest may be left.
BodyError ==
    /\ pc = "body"
    /\ wire' \in IF wire = <<>> THEN {wire} ELSE {wire, Tail(wire)}
    /\ Return(TRUE)
    /\ UNCHANGED <<m_socket, m_sLastUri, moved>>

\* 401: one more try, with the credentials that the listener or the first
\* URI has.
Auth(known) ==
    /\ pc = "next" /\ status.kind = "401"
    /\ IF retry_auth > 0 \/ ~known
       THEN Return(TRUE)
       ELSE /\ round' = Full(round) /\ retry_auth' = retry_auth + 1
            /\ pc' = "request" /\ status' = NoAnswer
            /\ UNCHANGED <<retry_count, m_bOnlyHead, left>>
    /\ UNCHANGED <<m_socket, m_sLastUri, wire, moved>>

\* HttpLocation::parse: the URI to go on with, or None.  A location that is
\* neither "/..." nor "http://..." gives a URI without a host, which
\* createRound refuses.
Target(l) ==
    CASE l \in Paths -> Full([round EXCEPT !.path = l])
      [] l \in {Relative, None} -> None
      [] OTHER -> IF l.host = round.host THEN Full([round EXCEPT !.path = l.path]) ELSE l

\* 3xx: a new round, on a new connection when the host is another one.
Redirect(ok) ==
    /\ pc = "next" /\ status.kind = "3xx"
    /\ LET t == Target(status.loc)
       IN \/ /\ t = None
             /\ Return(TRUE) /\ UNCHANGED <<m_socket, wire, moved>>
          \/ /\ t # None /\ t.host = round.host
             /\ round' = t /\ pc' = "request" /\ status' = NoAnswer
             /\ UNCHANGED <<m_socket, wire, moved, left, qvars>>
          \/ /\ t # None /\ t.host # round.host
             /\ ConnectReal(t.host, ok) /\ moved' = t.host
             /\ IF ok THEN /\ round' = t /\ pc' = "request" /\ status' = NoAnswer
                           /\ left' = FALSE /\ UNCHANGED <<qvars>>
                      ELSE Return(FALSE)
    /\ UNCHANGED m_sLastUri

\* createRound() fails: the host of the new URI is not known.
HostUnknown ==
    /\ pc = "next"
    /\ Return(TRUE)
    /\ UNCHANGED <<m_socket, m_sLastUri, wire, moved>>

Client ==
    \/ \E b \in BOOLEAN : Connect(b) \/ Auth(b) \/ Redirect(b)
    \/ Request \/ RequestLost \/ RequestPipe \/ RequestError \/ ReadGarbage \/ Status
    \/ BodyRead \/ BodyError \/ HostUnknown
    \/ \E a \in Answers : ReadHead(a)

Next ==
    \/ PeerCloses
    \/ \E u \in Uris, h \in BOOLEAN : Query(u, h)
    \/ Client

Spec == Init /\ [][Next]_vars /\ WF_vars(Client)
-----------------------------------------------------------------------------
\* A request goes to the host of its round, through redirections, retries
\* and kept connections; only a host that an earlier redirection connected
\* to may be there instead.
RightHost == pc = "request" => m_socket.host \in {round.host, moved}

\* The answer a round takes is the one to the request it sent, however many
\* redirections came before it: a kept connection is out of step only after
\* a query that failed or wanted only the head.
InStep ==
    pc \in {"read", "status", "body"} /\ wire # <<>> /\ ~left =>
        wire = <<[part |-> IF pc = "read" THEN "head" ELSE "rest", uri |-> round]>>

\* Every query returns, however long the chain of redirections.
QueryReturns == pc # "idle" ~> pc = "idle"
=============================================================================
