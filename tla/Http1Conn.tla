------------------------------ MODULE Http1Conn -------------------------------
(* One intercepted HTTP/1.1 connection: the request loop of serveHTTP1       *)
(* (internal/proxy/mitm.go) between a client, Pipeline.Run and the goroutine *)
(* of http.Transport that reads the request body.                            *)
(*                                                                           *)
(* The client writes heads and pieces of bodies and does not pipeline.  A    *)
(* response ends by its length or with the connection.                       *)
EXTENDS Naturals, Sequences

CONSTANTS Requests, \* bound: requests a client sends on the connection
          BodyMax   \* bound: pieces of a request body

VARIABLES limit,  \* maxUpstreamRequestBodyBytes, 0 for none
          client, \* "ready", "waiting" for a response, reading it "untilClose", "gone"
          owed,   \* pieces of its last request that the client has still to send
          wire,   \* what the client wrote and nobody has read
          sent,   \* number of requests sent
          last,   \* the last one
          srv,    \* where serveHTTP1 is
          cur,    \* req: the request it serves
          local,  \* a rule has answered cur, without the upstream
          unread, \* pieces of cur's body still to be read
          pump,   \* a transport goroutine reads cur's body
          full,   \* the response has a non-empty body
          back    \* responses written and not yet received: do they have a body

peer == <<limit, client, owed, sent, last>>
vars == <<peer, wire, srv, cur, local, unread, pump, full, back>>

Request == [len : 0..BodyMax, close : BOOLEAN]
NoRequest == [len |-> 0, close |-> FALSE]

HeadItem(r) == [kind |-> "head", req |-> r]
Piece == [kind |-> "piece", req |-> NoRequest]
AtFront(kind) == wire # << >> /\ wire[1].kind = kind

Init == /\ limit \in {0, 1}
        /\ client = "ready" /\ owed = 0 /\ wire = << >> /\ sent = 0 /\ last = NoRequest
        /\ srv = "read" /\ cur = NoRequest /\ local = FALSE /\ unread = 0
        /\ pump = FALSE /\ full = FALSE /\ back = << >>
-------------------------------------------------------------------------------
(* The client: one request at a time, the whole of it even when the response *)
(* comes early, and a response without a length is complete at the close.    *)

SendHead == /\ client = "ready" /\ owed = 0 /\ sent < Requests
            /\ ~last.close /\ srv # "closed"
            /\ \E n \in 0..BodyMax, c \in BOOLEAN :
                 /\ last' = [len |-> n, close |-> c]
                 /\ owed' = n
            /\ wire' = Append(wire, HeadItem(last'))
            /\ sent' = sent + 1
            /\ client' = "waiting"
            /\ UNCHANGED <<limit, srv, cur, local, unread, pump, full, back>>

SendPiece == /\ client # "gone" /\ owed > 0 /\ srv # "closed"
             /\ owed' = owed - 1
             /\ wire' = Append(wire, Piece)
             /\ UNCHANGED <<limit, client, sent, last, srv, cur, local, unread, pump, full, back>>

Receive == /\ client = "waiting" /\ back # << >>
           /\ client' = IF back[1] THEN "untilClose" ELSE "ready"
           /\ back' = Tail(back)
           /\ UNCHANGED <<limit, owed, wire, sent, last, srv, cur, local, unread, pump, full>>

\* The end of the connection completes a response, or ends the wait for one.
SeeClose == /\ client # "gone" /\ srv = "closed" /\ back = << >>
            /\ client' = "gone"
            /\ UNCHANGED <<limit, owed, wire, sent, last, srv, cur, local, unread, pump, full, back>>

Leave == /\ client # "gone"
         /\ client' = "gone"
         /\ UNCHANGED <<limit, owed, wire, sent, last, srv, cur, local, unread, pump, full, back>>

NoMorePieces == client = "gone" /\ wire = << >>
-------------------------------------------------------------------------------
Goto(from, to) == srv = from /\ srv' = to

\* Mutant: the terminator of the body is counted as a piece.
WithTerminator(r) == r.len + 1

\* The pieces that belong to the body of the request just read.
BodyOf(r) == r.len

\* http.ReadRequest takes whatever comes next for a head.  A piece does not
\* parse as one, and the connection is closed; so it is at the end of input.
ReadRequest == /\ Goto("read", "run")
               /\ AtFront("head")
               /\ cur' = wire[1].req
               /\ local' = FALSE
               /\ unread' = BodyOf(cur')
               /\ wire' = Tail(wire)
               /\ UNCHANGED <<peer, pump, full, back>>

ReadGarbage == /\ Goto("read", "closed")
               /\ AtFront("piece")
               /\ UNCHANGED <<peer, wire, cur, local, unread, pump, full, back>>

ReadEOF == /\ Goto("read", "closed")
           /\ NoMorePieces
           /\ UNCHANGED <<peer, wire, cur, local, unread, pump, full, back>>

\* Pipeline.Run answers by a redirect, map or map_local rule, without the body.
AnswerLocally == /\ Goto("run", "reply")
                 /\ local' = TRUE
                 /\ full' \in BOOLEAN
                 /\ UNCHANGED <<peer, wire, cur, unread, pump, back>>

\* Run returns an error: a bare 500 with a length, and the connection is closed.
RunError == /\ \/ srv = "run"
               \/ srv = "buffer" /\ unread > 0 /\ NoMorePieces
            /\ srv' = "closed"
            /\ back' = Append(back, FALSE)
            /\ UNCHANGED <<peer, wire, cur, local, unread, pump, full>>

\* roundtrip: with a limit the body is read first, else the transport reads it.
Forward == /\ Goto("run", IF limit > 0 THEN "buffer" ELSE "exchange")
           /\ pump' = (limit = 0 /\ unread > 0)
           /\ UNCHANGED <<peer, wire, cur, local, unread, full, back>>

TakePiece == /\ unread > 0 /\ AtFront("piece")
             /\ unread' = unread - 1
             /\ wire' = Tail(wire)

\* readRequestBody: ReadAll up to the limit, and Close drains what is beyond it.
Buffer == /\ srv = "buffer"
          /\ TakePiece
          /\ UNCHANGED <<peer, srv, cur, local, pump, full, back>>

\* The whole body is in: too large for the limit, or sent on from memory.  Too
\* large with "Connection: close", Close does not drain the rest.
Buffered == /\ \/ unread = 0 /\ Goto("buffer", "exchange") /\ UNCHANGED full
               \/ /\ unread = 0 \/ (cur.close /\ unread < cur.len)
                  /\ Goto("buffer", "reply")
                  /\ full' = FALSE
            /\ UNCHANGED <<peer, wire, cur, local, unread, pump, back>>

\* The transport's goroutine reads on, even after RoundTrip has returned: its
\* Close of the body drains it.
Pump == /\ pump
        /\ TakePiece
        /\ pump' = (unread' > 0)
        /\ UNCHANGED <<peer, srv, cur, local, full, back>>

\* With "Connection: close" that Close does not drain.
PumpStops == /\ pump /\ cur.close /\ srv # "exchange"
             /\ pump' = FALSE
             /\ UNCHANGED <<peer, wire, srv, cur, local, unread, full, back>>

\* A body that breaks off fails the exchange, or the response being copied.
PumpFails == /\ pump /\ NoMorePieces
             /\ pump' = FALSE
             /\ srv' = CASE srv = "exchange" -> "reply"
                         [] srv = "stream" -> "closed"
                         [] OTHER -> srv
             /\ full' = (full /\ srv # "exchange")
             /\ UNCHANGED <<peer, wire, cur, local, unread, back>>

\* RoundTrip fails (dial, TLS, header timeout, cancelled): an empty 502.
UpstreamFails == /\ Goto("exchange", "reply")
                 /\ full' = FALSE
                 /\ UNCHANGED <<peer, wire, cur, local, unread, pump, back>>

\* The upstream answers, at the end of the request body or before it.
UpstreamAnswers == /\ \/ Goto("exchange", "reply") /\ full' = FALSE
                      \/ Goto("exchange", "stream") /\ full' = TRUE
                   /\ UNCHANGED <<peer, wire, cur, local, unread, pump, back>>

\* resp.Write copies the upstream's body until it ends, or until it breaks off or
\* cannot be written: then the loop returns.
UpstreamEnds == /\ Goto("stream", "reply")
                /\ UNCHANGED <<peer, wire, cur, local, unread, pump, full, back>>

StreamBreaks == /\ Goto("stream", "closed")
                /\ UNCHANGED <<peer, wire, cur, local, unread, pump, full, back>>

\* So it does when the client is gone, or a map_local file cannot be read on.
WriteFails == /\ Goto("reply", "closed")
              /\ client = "gone" \/ (local /\ full)
              /\ UNCHANGED <<peer, wire, cur, local, unread, pump, full, back>>

\* The loop returns, closing the connection, only if the request asks for it.
AfterReply(r) == IF r.close THEN "closed" ELSE "read"

\* writeHTTP1Response: ContentLength is left zero, so a non-empty body goes out
\* without a length, marked "Connection: close".
WriteReply == /\ Goto("reply", AfterReply(cur))
              /\ back' = Append(back, full)
              /\ UNCHANGED <<peer, wire, cur, local, unread, pump, full>>

Client == SendHead \/ SendPiece \/ Receive \/ SeeClose
Server == \/ ReadRequest \/ ReadGarbage \/ ReadEOF
          \/ AnswerLocally \/ RunError \/ Forward \/ Buffer \/ Buffered
          \/ WriteFails \/ WriteReply
Upstream == UpstreamAnswers \/ UpstreamEnds \/ StreamBreaks

Next == Client \/ Leave \/ Server \/ Pump \/ PumpStops \/ PumpFails \/ UpstreamFails \/ Upstream

Spec == Init /\ [][Next]_vars

\* The client keeps the protocol, the goroutines of the proxy run, and the dial,
\* TLS and header timeouts of the transport end an exchange without an answer.
Fairness == /\ WF_vars(Client) /\ WF_vars(Server)
            /\ WF_vars(Pump \/ PumpFails) /\ WF_vars(UpstreamFails)

\* Besides, the upstream ends the responses it has begun, which no timeout does.
LiveUpstreamSpec == Spec /\ Fairness /\ WF_vars(Upstream)
-------------------------------------------------------------------------------
TypeOK == /\ client \in {"ready", "waiting", "untilClose", "gone"}
          /\ owed \in 0..BodyMax /\ unread \in 0..BodyMax
          /\ wire \in Seq([kind : {"head", "piece"}, req : Request])
          /\ last \in Request /\ cur \in Request
          /\ srv \in {"read", "run", "buffer", "exchange", "stream", "reply", "closed"}
          /\ limit \in Nat /\ local \in BOOLEAN
          /\ pump \in BOOLEAN /\ full \in BOOLEAN
          /\ back \in Seq(BOOLEAN)
          /\ sent \in 0..Requests

\* What stands where a head should be is never anything but the body that the
\* answer to the request before left unread.  A limit leaves nothing there, be
\* the body within it or not: then a rule has answered.
OnlyLeftoversMisread == srv = "read" /\ AtFront("piece") => unread > 0 /\ (limit > 0 => local)

\* "serves HTTP/1.1 requests over the hijacked TLS connection in a loop": each
\* request gets a response, complete and within its connection or at its end.
EveryAnswerCompletes == client \in {"waiting", "untilClose"} ~> client \in {"ready", "gone"}
===============================================================================
