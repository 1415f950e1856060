------------------------------ MODULE Connection -------------------------------
(* One connection of a client: Server.ServeHTTP with handleCONNECT             *)
(* (internal/proxy/proxy.go) and mitmHandler (internal/proxy/mitm.go).  A plain *)
(* request goes to a Handler; a CONNECT is hijacked, confirmed, handshaken, and *)
(* served by the loop of Http1Conn or, over HTTP/2, again by a Handler.         *)
(*                                                                             *)
(* main always has a CA and a pipeline; the tunnel without them is RawTunnel.   *)
(* LeafCert returns (LeafCerts!EveryCallReturns), with a certificate or not.    *)
EXTENDS Naturals, Sequences

CONSTANTS Requests,  \* bound: requests of a client of Http1Conn
          BodyMax,   \* bound: pieces of a request body
          AnswerMax, \* bound: units of an answer's body
          Limits,    \* values of maxUpstreamRequestBodyBytes, in pieces
          DumpMax    \* maxBodyBytes of -dump-traffic, in units

ASSUME BoundAssumption == {Requests, BodyMax, AnswerMax, DumpMax} \subseteq Nat
ASSUME LimitAssumption == Limits \subseteq Nat

VARIABLES phase, \* where the connection is
          here,  \* the client has not closed it (in "http1", client says so)
          kind, limit, steady, req,              \* of Handler
          client, owed, wire, sent, last, srv,   \* of Http1Conn
          cur, local, unread, pump, full, back

session == <<phase, here>>
flow == <<kind, req>>
config == <<limit, steady>>
http1 == <<client, owed, wire, sent, last, srv, cur, local, unread, pump, full, back>>
vars == <<session, config, flow, http1>>

Loop == INSTANCE Http1Conn
Flow == INSTANCE Handler

Init == /\ phase = "request" /\ here = TRUE
        /\ limit \in Limits /\ steady \in BOOLEAN
        /\ kind = "h2" /\ req = Flow!Fresh
        /\ client = "gone" /\ srv = "closed"
        /\ owed = 0 /\ wire = << >> /\ sent = 0 /\ last = Loop!NoRequest
        /\ cur = Loop!NoRequest /\ local = FALSE /\ unread = 0
        /\ pump = FALSE /\ full = FALSE /\ back = << >>

Goto(from, to) == phase = from /\ phase' = to
-------------------------------------------------------------------------------
\* ServeHTTP, on the first request.
Plain == /\ Goto("request", "plain") /\ here
         /\ kind' = "forward"
         /\ UNCHANGED <<here, config, req, http1>>

\* handleCONNECT: Hijack, and a goroutine for mitmHandler.
Hijack == Goto("request", "confirm") /\ here /\ UNCHANGED <<here, config, flow, http1>>

\* The client closes, or resets its only stream (Flow!Reset).
Leave == /\ here /\ phase # "http1"
         /\ here' = FALSE
         /\ req' = IF Flow!Ended THEN req ELSE [req EXCEPT !.left = TRUE]
         /\ UNCHANGED <<phase, kind, config, http1>>

\* The 200 of mitmHandler; a write to a client that has left may fail.
Confirm == Goto("confirm", "handshake") /\ UNCHANGED <<here, config, flow, http1>>

ConfirmFails == /\ Goto("confirm", "closed") /\ ~here
                /\ UNCHANGED <<here, config, flow, http1>>

\* The client leaves, offers no protocol of ours, or does not trust the
\* certificate; LeafCert fails.
HandshakeFails == /\ Goto("handshake", "closed")
                  /\ UNCHANGED <<here, config, flow, http1>>

\* GetCertificate and ALPN, by the client's choice.  There is no deadline: the
\* handshake waits for a client that is silent.
HandshakeHttp2 == /\ Goto("handshake", "h2") /\ here
                  /\ UNCHANGED <<here, config, flow, http1>>

HandshakeHttp1 == /\ Goto("handshake", "http1") /\ here
                  /\ client' = "ready" /\ srv' = "read"
                  /\ UNCHANGED <<here, config, flow, owed, wire, sent, last, cur, local,
                                 unread, pump, full, back>>

OpenStream == /\ phase \in {"plain", "h2"} /\ here
              /\ Flow!Open
              /\ UNCHANGED <<session, http1>>

FlowStep == Flow!Step /\ UNCHANGED <<session, http1>>

LoopStep == /\ phase \in {"http1", "closed"}
            /\ Loop!Next
            /\ UNCHANGED <<session, steady, flow>>

\* ServeConn or serveHTTP1 returns, and mitmHandler closes the connection;
\* handlers of HTTP/2 may still run.
Return == /\ \/ Goto("h2", "closed") /\ ~here
             \/ Goto("http1", "closed") /\ srv = "closed"
          /\ UNCHANGED <<here, config, flow, http1>>

Next == \/ Plain \/ Hijack \/ Leave \/ Confirm \/ ConfirmFails
        \/ HandshakeFails \/ HandshakeHttp2 \/ HandshakeHttp1
        \/ OpenStream \/ FlowStep \/ LoopStep \/ Return

Spec == Init /\ [][Next]_vars

\* mitmHandler's goroutine runs, and a read of a closed connection fails.  An
\* upstream may stall, as Handler has it; a steady one ends its answers.
Fairness == /\ WF_vars(Confirm \/ ConfirmFails) /\ WF_vars(Return)
            /\ WF_vars(~here /\ HandshakeFails)
            /\ Flow!Fairness
            /\ Loop!Fairness /\ WF_http1(steady /\ Loop!Upstream)

FairSpec == Spec /\ Fairness
-------------------------------------------------------------------------------
TypeOK == /\ phase \in {"request", "plain", "confirm", "handshake", "h2", "http1", "closed"}
          /\ here \in BOOLEAN
          /\ Flow!TypeOK /\ Loop!TypeOK

\* Request bodies go upstream as they were sent, and where the loop of HTTP/1.1
\* looks for a head there is none or what an answer has left unread.
BodyIntact == Flow!BodyIntact /\ Loop!OnlyLeftoversMisread

\* Answers and dumps, as Handler states them.
WholeIsWhole == Flow!WholeIsWhole
DumpedOnce == Flow!DumpedOnce

\* Whatever its client does, no connection and no goroutine that serves it is
\* left when the client has left, at whatever point of the CONNECT, the
\* handshake or a request; but the loop of HTTP/1.1 needs an upstream that ends
\* its answer, and a handler what HandlerEnds says.
ConnectionEnds ==
  /\ ~here ~> phase \in {"request", "plain", "closed"}
  /\ phase = "http1" /\ srv = "closed" ~> phase = "closed"
  /\ steady /\ client = "gone" ~> srv = "closed" /\ ~pump
  /\ Flow!HandlerEnds

\* A steady upstream given, a request that a Handler takes is answered, and one
\* that asks the loop of HTTP/1.1 to close is answered and the connection closed.
RequestsEnd == /\ Flow!RequestAnswered
               /\ steady /\ last.close ~> client = "gone"
===============================================================================
