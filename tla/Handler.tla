-------------------------------- MODULE Handler --------------------------------
(* One request and the goroutine that net/http or http2.Server runs for it: a  *)
(* plain request (handleForward, WriteResponse) or a stream of an intercepted  *)
(* HTTP/2 connection (the handler of serveH2).  Pipeline.Run is reduced to the *)
(* points at which it reads or writes; beside it run the transport's goroutine *)
(* that sends the request body, and the tee of -dump-traffic.                  *)
(*                                                                             *)
(* The client reads what it is sent.  Bodies stay below the 256 KB that        *)
(* net/http drains.                                                            *)
EXTENDS Naturals, Sequences

CONSTANTS BodyMax,   \* bound: pieces of a request body
          AnswerMax, \* bound: units of an answer's body
          Limits,    \* values of maxUpstreamRequestBodyBytes, in pieces
          DumpMax    \* maxBodyBytes of -dump-traffic, in units; 0 without it

VARIABLES kind,   \* "h2" or "forward"
          limit,  \* maxUpstreamRequestBodyBytes, 0 for none
          steady, \* the upstream goes on reading, answering and ending
          req     \* the request and its handler

vars == <<kind, limit, steady, req>>

\* at: where the handler is.  Of the request's body, len pieces in all, sent are
\* written, taken are read, and up are those the upstream got; an eager client
\* does not wait for an answer before it sends the rest; noticed: a read has
\* shown that it left.  pump: the transport's goroutine is at work, on a
\* connection with the upstream that is up while link.  Of the answer's body,
\* total units in all, got are read and copied to the client, and snip are in
\* the dump's snippet; log: the snippets logged; seen: what the client sees.
Fresh == [at |-> "none", len |-> 0, eager |-> TRUE, sent |-> 0, taken |-> 0, up |-> {},
          pump |-> FALSE, left |-> FALSE, noticed |-> FALSE, link |-> FALSE, local |-> FALSE,
          total |-> 0, declared |-> TRUE, broken |-> FALSE, got |-> 0,
          snip |-> 0, logged |-> FALSE, log |-> <<>>, seen |-> "nothing"]

Init == /\ kind \in {"h2", "forward"} /\ limit \in Limits /\ steady \in BOOLEAN
        /\ req = Fresh

At(where) == req.at = where
Become(r) == req' = r /\ UNCHANGED <<kind, limit, steady>>
-------------------------------------------------------------------------------
(* The client                                                                  *)

Open == /\ At("none")
        /\ \E n \in 0..BodyMax, e \in BOOLEAN :
             Become([Fresh EXCEPT !.at = "run", !.len = n, !.eager = e])

Ended == req.at \in {"none", "done"}
Resulted == req.at \in {"reply", "copy", "close", "done"}
HeadSeen == Resulted /\ ~At("reply")

SendPiece == /\ ~Ended /\ ~req.left /\ req.sent < req.len
             /\ req.eager \/ HeadSeen
             /\ Become([req EXCEPT !.sent = @ + 1])

\* RST_STREAM, or the end of the connection.
Reset == /\ ~Ended /\ ~req.left
         /\ Become([req EXCEPT !.left = TRUE])
-------------------------------------------------------------------------------
(* Pipeline.Run                                                                *)

\* Mutant: the context is that of the connection, which nobody cancels.
NotCancelled(r) == FALSE

\* r.Context(): http2.Server cancels it at once, net/http when it reads the
\* connection, which it does while the body is read, and beyond its end.
Cancelled(r) == r.left /\ (kind = "h2" \/ r.taken = r.len \/ r.noticed)

\* A result without an upstream: its body is in memory, and has a length, or in
\* the file of a map_local rule, and has none.
Local(r, n, d) == [r EXCEPT !.at = "reply", !.local = TRUE, !.link = FALSE,
                            !.total = n, !.declared = d]
Reply(r, n) == Local(r, n, TRUE)

\* Run returns an error: an empty 500, in HTTP/2 once the body is drained.
Fail(r) == [Reply(r, 0) EXCEPT !.at = IF kind = "h2" THEN "drain" ELSE "reply"]

\* A rule answers, or a plain request has no absolute URL.
AnswerLocally == /\ At("run")
                 /\ \E n \in 0..AnswerMax, d \in BOOLEAN : Become(Local(req, n, d))

RunError == At("run") /\ Become(Fail(req))

\* roundtrip: with a limit, readRequestBody first.
Forward == /\ At("run")
           /\ Become(IF limit > 0 THEN [req EXCEPT !.at = "buffer"]
                     ELSE [req EXCEPT !.at = "exchange", !.link = TRUE, !.pump = req.len > 0])

\* Mutant: no room for the byte that shows that a body is too large.
LimitReaderShort(r) == r.taken < limit

\* io.LimitReader(body, maxBytes+1)
LimitReader(r) == r.taken < limit + 1

Buffer == /\ At("buffer") /\ req.taken < req.sent /\ LimitReader(req)
          /\ Become([req EXCEPT !.taken = @ + 1])

\* Mutant: io.ReadFull in place of io.ReadAll.
BufferedFull == At("buffer") /\ ~LimitReader(req) /\ Become(Reply(req, 0))

\* The reader is at its end: the body is too large, or sent on from memory.
Buffered == /\ At("buffer")
            /\ req.taken = req.len \/ ~LimitReader(req)
            /\ Become(IF req.taken > limit THEN Reply(req, 0)
                      ELSE [req EXCEPT !.at = "exchange", !.link = TRUE, !.up = 1..req.taken])

\* The client has left, and all it sent is read.
AtBreak == req.left /\ req.taken = req.sent /\ req.taken < req.len

BufferFails == /\ At("buffer") /\ AtBreak /\ LimitReader(req)
               /\ Become([Fail(req) EXCEPT !.noticed = TRUE])

\* The transport's goroutine sends the body on as the client sends it, also
\* when the upstream has already answered.
Pump == /\ req.pump /\ req.link /\ req.taken < req.sent
        /\ Become([req EXCEPT !.taken = @ + 1, !.up = @ \cup {req.taken + 1},
                              !.pump = req.taken + 1 < req.len])

PumpBreaks == /\ req.pump /\ req.link /\ AtBreak
              /\ Become([req EXCEPT !.pump = FALSE, !.link = FALSE, !.noticed = TRUE])

\* Its connection, or the body, is closed under it; or another reads the end.
PumpAborts == /\ req.pump
              /\ ~req.link \/ req.taken = req.len
              /\ Become([req EXCEPT !.pump = FALSE])

\* RoundTrip fails: an empty 502.
UpstreamFails == At("exchange") /\ Become(Reply(req, 0))

\* It does when the context is cancelled, and at the header timeout, which
\* runs from the end of the request.
MustFail == (Cancelled(req) \/ ~req.pump) /\ UpstreamFails

\* The upstream answers, with or without a length; a body_replace rule may
\* want the whole of it.
UpstreamAnswers ==
  /\ At("exchange") /\ req.link
  /\ \E n \in 0..AnswerMax, d \in BOOLEAN, to \in {"reply", "replace"} :
       Become([req EXCEPT !.at = to, !.total = n, !.declared = d])

Replaced == /\ At("replace") /\ req.link
            /\ Become(Reply(req, req.total))

\* Mutant: what could be read of the body is used.
ReplacedInPart == At("replace") /\ Become([Reply(req, req.total) EXCEPT !.broken = TRUE])

ReplaceFails == At("replace") /\ Become([Fail(req) EXCEPT !.broken = TRUE])
-------------------------------------------------------------------------------
(* The handler, with the result of Run                                         *)

\* HTTP/2, after an error: io.Copy(io.Discard, r.Body)
Drain == /\ At("drain") /\ req.taken < req.sent
         /\ Become([req EXCEPT !.taken = @ + 1])

Drained == /\ At("drain")
           /\ req.taken = req.len \/ AtBreak
           /\ Become([req EXCEPT !.at = "reply"])

\* net/http reads what is left of the body before it writes the head.
DrainAtHead == /\ At("reply") /\ kind = "forward" /\ req.taken < req.sent
               /\ Become([req EXCEPT !.taken = @ + 1])

WriteHead == /\ At("reply")
             /\ kind = "h2" \/ req.taken = req.len \/ AtBreak
             /\ Become([req EXCEPT !.at = "copy", !.noticed = req.left])

\* Mutant: the snippet takes the whole of a read that begins below the limit.
WholeRead(k, n) == IF k >= DumpMax THEN k ELSE k + n

\* snippetLimitWriter.Write of n units with k in the buffer.
SnippetAfter(k, n) == IF k >= DumpMax THEN k
                      ELSE IF n > DumpMax - k THEN DumpMax ELSE k + n

logSnippet(r) == IF r.logged THEN r
                 ELSE [r EXCEPT !.logged = TRUE,
                                !.log = IF r.snip = 0 THEN @ ELSE Append(@, r.snip)]

\* io.Copy, one read and one write; both may fail, and nobody looks.
Readable == req.local \/ req.link

Copy == /\ At("copy") /\ Readable
        /\ \E n \in 1..(req.total - req.got) :
             Become([req EXCEPT !.got = @ + n, !.snip = SnippetAfter(@, n)])

CopyEnds == /\ At("copy") /\ Readable /\ req.got = req.total
            /\ Become([logSnippet(req) EXCEPT !.at = "close", !.link = FALSE])

\* What is in memory can be read to its end; of a file that may fail, too.
CopyBreaks == /\ At("copy")
              /\ req.declared => ~req.local /\ req.got < req.total
              /\ Become([req EXCEPT !.at = "close", !.link = FALSE, !.broken = TRUE])

WriteFails == /\ At("copy") /\ req.left
              /\ Become([req EXCEPT !.at = "close", !.link = FALSE])

\* result.Body.Close(), and the handler returns.  An answer without a length
\* gets its regular end; one that is too short for its length does not.
Close ==
  /\ At("close")
  /\ Become([logSnippet(req) EXCEPT
       !.at = "done",
       !.seen = IF req.declared /\ req.got < req.total THEN "broken" ELSE "whole"])
-------------------------------------------------------------------------------
Upstream == UpstreamAnswers \/ Replaced \/ Pump \/ PumpBreaks

\* What no peer can keep the proxy from doing.
Proxy == \/ AnswerLocally \/ RunError \/ Forward
         \/ Buffer \/ Buffered \/ BufferFails
         \/ Drain \/ Drained \/ DrainAtHead \/ WriteHead
         \/ WriteFails \/ Close

Step == \/ SendPiece \/ Reset \/ Proxy \/ Upstream \/ UpstreamFails \/ PumpAborts
        \/ ReplaceFails \/ Copy \/ CopyEnds \/ CopyBreaks

Next == Open \/ Step

Spec == Init /\ [][Next]_vars

\* A read of the upstream's body fails when the context is cancelled or the
\* connection is gone; of the proxy's own it goes on or fails.
MustBreak == /\ ~req.local /\ (Cancelled(req) \/ ~req.link)
             /\ ReplaceFails \/ CopyBreaks
CopyOn == (req.local \/ steady) /\ (Copy \/ CopyEnds)

\* The client sends what it has begun, goroutines run, timeouts and cancelled
\* contexts take effect; only a steady upstream goes on.
Fairness == /\ WF_vars(SendPiece) /\ WF_vars(Proxy) /\ WF_vars(PumpAborts)
            /\ WF_vars(MustFail) /\ WF_vars(MustBreak)
            /\ WF_vars(CopyOn) /\ WF_vars(steady /\ Upstream)

FairSpec == Spec /\ Fairness
-------------------------------------------------------------------------------
TypeOK == /\ kind \in {"h2", "forward"} /\ limit \in Limits /\ steady \in BOOLEAN
          /\ req.at \in {"none", "run", "buffer", "exchange", "replace", "drain",
                         "reply", "copy", "close", "done"}
          /\ req.len \in 0..BodyMax /\ req.sent \in 0..req.len /\ req.taken \in 0..req.sent
          /\ req.up \subseteq 1..req.taken
          /\ req.total \in 0..AnswerMax /\ req.got \in 0..req.total
          /\ req.snip \in 0..DumpMax
          /\ req.seen \in {"nothing", "whole", "broken"}

\* The upstream gets the request body as it was sent, up to some point: all of
\* it when there is a limit, and then no more than that.  Only when it answers a
\* plain request before its end does net/http read away parts of the rest.
BodyIntact == /\ limit > 0 => req.up = {} \/ (req.up = 1..req.len /\ req.len <= limit)
              /\ (\E n \in 0..req.taken : req.up = 1..n) \/ (kind = "forward" /\ Resulted)

\* What a client takes for a whole answer is one, and nothing of a body that
\* broke off before a rule could read it: unless an answer without a length, the
\* upstream's or the file of a map_local rule, broke off while it was copied.
\* (As long as no rule sets a length or deletes it.)
WholeIsWhole == req.seen = "whole" /\ ~req.left =>
                  \/ req.got = req.total /\ (req.broken => req.total = 0)
                  \/ req.broken /\ ~req.declared

\* The dump of a body is logged once, and is as much of what went to the client
\* as the limit allows.
DumpedOnce == At("done") => req.log = IF req.got = 0 \/ DumpMax = 0 THEN <<>>
                                      ELSE <<IF req.got < DumpMax THEN req.got ELSE DumpMax>>

\* When the client resets the stream or leaves, handler and body reader end, even
\* when the upstream stalls; unless it is a plain request without a body limit
\* whose body the upstream does not read.
HandlerEnds ==
  req.left /\ (kind = "h2" \/ limit > 0 \/ steady \/ req.taken = req.len)
    ~> At("done") /\ ~req.pump

\* Under a steady upstream a request is answered, if its client sends the body
\* without waiting; in HTTP/2, once Run has a result, in any case.
RequestAnswered ==
  steady /\ ((At("run") /\ req.eager) \/ (At("reply") /\ kind = "h2")) ~> At("done")
===============================================================================
