--------------------------- MODULE Connection_proofs ---------------------------
(* What clients and the log see of an answer, and what the upstream gets of a   *)
(* request, for bodies, limits and numbers of requests of any size: proofs      *)
(* about the handlers of a connection (Handler, as Flow) and about its loop of  *)
(* HTTP/1.1 (Http1Conn, as Loop).                                               *)
EXTENDS Connection, TLAPS

Fields == {"at", "len", "eager", "sent", "taken", "up", "pump", "left", "noticed", "link", "local",
           "total", "declared", "broken", "got", "snip", "logged", "log", "seen"}

\* Of the request's types, those that the answer rests on.
Types == DOMAIN req = Fields /\ req.got \in Nat /\ req.total \in Nat

Capped(n) == IF n < DumpMax THEN n ELSE DumpMax

\* What the log has to say of a body of which n units went to the client.
DumpOf(n) == IF n = 0 \/ DumpMax = 0 THEN <<>> ELSE <<Capped(n)>>

\* The snippet keeps up with what is copied; it is logged when the body ends or
\* is closed, and by then nothing more is copied.
DumpInv == /\ req.snip = Capped(req.got)
           /\ req.at \notin {"copy", "close", "done"} => req.got = 0
           /\ req.at \notin {"close", "done"} => ~req.logged
           /\ req.log = IF req.logged THEN DumpOf(req.got) ELSE <<>>
           /\ req.at = "done" => req.logged

\* What broke off before the copy was replaced by an empty body of the proxy's
\* own; what breaks off in the copy is short, unless it has no length.
AnswerInv == /\ req.got <= req.total
             /\ req.at \in {"none", "run", "buffer", "exchange", "replace"} => ~req.broken
             /\ req.at \in {"drain", "reply", "copy"} /\ req.broken => req.total = 0 /\ req.local
             /\ req.at = "close" =>
                  /\ req.broken => req.total = 0 \/ ~req.declared \/ req.got < req.total
                  /\ ~req.left => req.got = req.total \/ req.broken
             /\ req.at # "done" => req.seen = "nothing"
             /\ req.at = "done" => Flow!WholeIsWhole

IInv == Types /\ DumpInv /\ AnswerInv

\* The limits on answers and dumps are numbers.
LEMMA Bounds == AnswerMax \in Nat /\ DumpMax \in Nat
BY BoundAssumption

\* No request has been made.
LEMMA InitInv == Init => IInv
BY BoundAssumption DEF Init, Flow!Fresh, IInv, Types, Fields, DumpInv, AnswerInv, Capped, DumpOf

\* Steps that touch nothing of the answer.
LEMMA SameAnswer ==
  ASSUME IInv, DOMAIN req' = Fields,
         /\ req'.at = req.at /\ req'.left = req.left /\ req'.total = req.total
         /\ req'.declared = req.declared /\ req'.broken = req.broken /\ req'.local = req.local
         /\ req'.got = req.got /\ req'.snip = req.snip /\ req'.logged = req.logged
         /\ req'.log = req.log /\ req'.seen = req.seen
  PROVE  IInv'
BY DEF IInv, Types, DumpInv, AnswerInv, Capped, DumpOf, Flow!WholeIsWhole

\* The request body on its way, whoever reads it.
LEMMA BodyStep ==
  ASSUME IInv,
         \/ Flow!SendPiece \/ Flow!Pump \/ Flow!PumpBreaks \/ Flow!PumpAborts
         \/ Flow!Buffer \/ Flow!Drain \/ Flow!DrainAtHead
  PROVE  IInv'
<1> USE DEF Flow!Become, Flow!At, Fields
<1>1. DOMAIN req = Fields
  BY DEF IInv, Types
<1>2. CASE Flow!SendPiece
  BY <1>1, <1>2, SameAnswer DEF Flow!SendPiece
<1>3. CASE Flow!Pump
  BY <1>1, <1>3, SameAnswer DEF Flow!Pump
<1>4. CASE Flow!PumpBreaks
  BY <1>1, <1>4, SameAnswer DEF Flow!PumpBreaks
<1>5. CASE Flow!PumpAborts
  BY <1>1, <1>5, SameAnswer DEF Flow!PumpAborts
<1>6. CASE Flow!Buffer
  BY <1>1, <1>6, SameAnswer DEF Flow!Buffer
<1>7. CASE Flow!Drain \/ Flow!DrainAtHead
  BY <1>1, <1>7, SameAnswer DEF Flow!Drain, Flow!DrainAtHead
<1> QED BY <1>2, <1>3, <1>4, <1>5, <1>6, <1>7

\* A client that leaves before its handler is done sees nothing of it.
LEMMA LeaveStep ==
  ASSUME IInv, Leave \/ Flow!Reset
  PROVE  IInv'
<1>1. \/ UNCHANGED req
      \/ req.at # "done" /\ req' = [req EXCEPT !.left = TRUE]
  BY DEF Leave, Flow!Reset, Flow!Ended, Flow!Become
<1>2. CASE UNCHANGED req
  BY <1>2 DEF IInv, Types, DumpInv, AnswerInv, Capped, DumpOf, Flow!WholeIsWhole
<1>3. CASE req.at # "done" /\ req' = [req EXCEPT !.left = TRUE]
  BY <1>3 DEF IInv, Types, Fields, DumpInv, AnswerInv, Capped, DumpOf, Flow!WholeIsWhole
<1> QED BY <1>1, <1>2, <1>3

\* A step of Run leads on in Run, or to a result that broke off only if it is
\* empty and the proxy's own.
LEMMA RunTo ==
  ASSUME IInv, req.at \in {"run", "buffer", "exchange", "replace"},
         DOMAIN req' = Fields, req'.total \in Nat,
         /\ req'.got = req.got /\ req'.snip = req.snip /\ req'.logged = req.logged
         /\ req'.log = req.log /\ req'.seen = req.seen,
         \/ req'.at \in {"buffer", "exchange", "replace"} /\ req'.broken = req.broken
         \/ /\ req'.at \in {"drain", "reply"}
            /\ req'.broken = req.broken \/ (req'.total = 0 /\ req'.local)
  PROVE  IInv'
<1>1. req.got = 0 /\ ~req.logged /\ ~req.broken /\ req.seen = "nothing"
  BY DEF IInv, DumpInv, AnswerInv
<1>2. Types' /\ AnswerInv'
  BY <1>1 DEF IInv, Types, AnswerInv
<1>3. DumpInv'
  BY <1>1 DEF IInv, DumpInv, Capped, DumpOf
<1> QED BY <1>2, <1>3 DEF IInv

\* Pipeline.Run, up to its result.
LEMMA RunStep ==
  ASSUME IInv,
         \/ Flow!AnswerLocally \/ Flow!RunError \/ Flow!Forward \/ Flow!Buffered
         \/ Flow!BufferFails \/ Flow!UpstreamFails \/ Flow!UpstreamAnswers
         \/ Flow!Replaced \/ Flow!ReplaceFails
  PROVE  IInv'
<1> USE BoundAssumption DEF Flow!Become, Flow!At, Flow!Local, Flow!Reply, Flow!Fail, Fields
<1>0. DOMAIN req = Fields /\ req.total \in Nat
  BY DEF IInv, Types
<1>1. CASE Flow!AnswerLocally
  <2>1. PICK n \in 0..AnswerMax, d \in BOOLEAN : req' = Flow!Local(req, n, d)
    BY <1>1 DEF Flow!AnswerLocally
  <2>2. n \in Nat
    BY Bounds
  <2> QED BY <1>0, <1>1, <2>1, <2>2, RunTo DEF Flow!AnswerLocally
<1>2. CASE Flow!RunError
  BY <1>0, <1>2, RunTo DEF Flow!RunError
<1>3. CASE Flow!Forward
  BY <1>0, <1>3, RunTo DEF Flow!Forward
<1>4. CASE Flow!Buffered
  BY <1>0, <1>4, RunTo DEF Flow!Buffered
<1>5. CASE Flow!BufferFails
  BY <1>0, <1>5, RunTo DEF Flow!BufferFails
<1>6. CASE Flow!UpstreamFails
  BY <1>0, <1>6, RunTo DEF Flow!UpstreamFails
<1>7. CASE Flow!UpstreamAnswers
  <2>1. PICK n \in 0..AnswerMax, d \in BOOLEAN, to \in {"reply", "replace"} :
          req' = [req EXCEPT !.at = to, !.total = n, !.declared = d]
    BY <1>7 DEF Flow!UpstreamAnswers
  <2>2. n \in Nat
    BY Bounds
  <2> QED BY <1>0, <1>7, <2>1, <2>2, RunTo DEF Flow!UpstreamAnswers
<1>8. CASE Flow!Replaced
  BY <1>0, <1>8, RunTo DEF Flow!Replaced
<1>9. CASE Flow!ReplaceFails
  BY <1>0, <1>9, RunTo DEF Flow!ReplaceFails
<1> QED BY <1>1, <1>2, <1>3, <1>4, <1>5, <1>6, <1>7, <1>8, <1>9

\* The snippet after a read is that of all that was read.
LEMMA SnippetCapped ==
  ASSUME NEW k \in Nat, NEW n \in Nat
  PROVE  Flow!SnippetAfter(Capped(k), n) = Capped(k + n)
BY BoundAssumption DEF Flow!SnippetAfter, Capped

\* Logging once more changes nothing; the first time it logs the dump.
LEMMA LoggedOnce ==
  ASSUME IInv
  PROVE  LET r == Flow!logSnippet(req)
         IN  /\ DOMAIN r = Fields /\ r.logged /\ r.log = DumpOf(req.got)
             /\ \A f \in Fields \ {"logged", "log"} : r[f] = req[f]
<1>1. req.got \in Nat /\ DOMAIN req = Fields
  BY DEF IInv, Types
<1>2. CASE req.logged
  BY <1>1, <1>2 DEF IInv, DumpInv, Flow!logSnippet
<1>3. CASE ~req.logged
  <2>1. req.log = <<>> /\ req.snip = Capped(req.got)
    BY <1>3 DEF IInv, DumpInv
  <2>2. (IF req.snip = 0 THEN req.log ELSE Append(req.log, req.snip)) = DumpOf(req.got)
    BY <1>1, <2>1, BoundAssumption DEF DumpOf, Capped
  <2> QED BY <1>1, <1>3, <2>2 DEF Fields, Flow!logSnippet
<1> QED BY <1>2, <1>3

\* The handler, with the result of Run: io.Copy and Close.
LEMMA ReplyStep ==
  ASSUME IInv,
         \/ Flow!Drained \/ Flow!WriteHead \/ Flow!Copy \/ Flow!CopyEnds \/ Flow!CopyBreaks
         \/ Flow!WriteFails \/ Flow!Close
  PROVE  IInv'
<1> USE BoundAssumption DEF IInv, Types, Fields, DumpInv, AnswerInv, Flow!WholeIsWhole,
        Flow!Become, Flow!At
<1>1. CASE Flow!Drained
  BY <1>1 DEF Flow!Drained
<1>2. CASE Flow!WriteHead
  BY <1>2 DEF Flow!WriteHead
<1>3. CASE Flow!Copy
  <2>1. PICK n \in 1..(req.total - req.got) :
          req' = [req EXCEPT !.got = @ + n, !.snip = Flow!SnippetAfter(@, n)]
    BY <1>3 DEF Flow!Copy
  <2>2. n \in Nat /\ req.got + n \in Nat /\ req.got + n <= req.total
    OBVIOUS
  <2>3. Flow!SnippetAfter(req.snip, n) = Capped(req.got + n)
    BY <2>2, SnippetCapped
  <2>4. /\ req'.got = req.got + n /\ req'.snip = Capped(req.got + n)
        /\ \A f \in Fields \ {"got", "snip"} : req'[f] = req[f]
    BY <2>1, <2>3
  <2>5. DOMAIN req' = Fields
    BY <2>1
  <2> QED BY <1>3, <2>2, <2>4, <2>5 DEF Flow!Copy
<1>4. CASE Flow!CopyEnds
  BY <1>4, LoggedOnce DEF Flow!CopyEnds
<1>5. CASE Flow!CopyBreaks
  BY <1>5 DEF Flow!CopyBreaks
<1>6. CASE Flow!WriteFails
  BY <1>6 DEF Flow!WriteFails
<1>7. CASE Flow!Close
  BY <1>7, LoggedOnce DEF Flow!Close
<1> QED BY <1>1, <1>2, <1>3, <1>4, <1>5, <1>6, <1>7

\* A request begins with nothing copied and nothing dumped.
LEMMA OpenInv == ASSUME IInv, Flow!Open PROVE IInv'
BY BoundAssumption DEF Flow!Open, Flow!Fresh, Flow!Become, Flow!At, IInv, Types, Fields,
   DumpInv, AnswerInv, Capped, DumpOf

\* Every other step of a connection leaves the handler's request alone.
LEMMA SessionStep ==
  ASSUME Next, ~Leave, ~OpenStream, ~FlowStep
  PROVE  UNCHANGED req
BY DEF Next, Plain, Hijack, Confirm, ConfirmFails, HandshakeFails, HandshakeHttp2, HandshakeHttp1,
   LoopStep, Return, flow

\* The answers and dumps of a flow are in step throughout.
THEOREM Invariance == Spec => []IInv
<1>1. IInv /\ [Next]_vars => IInv'
  <2> SUFFICES ASSUME IInv, [Next]_vars PROVE IInv'
    OBVIOUS
  <2>1. CASE Leave
    BY <2>1, LeaveStep
  <2>2. CASE OpenStream
    BY <2>2, OpenInv DEF OpenStream
  <2>3. CASE FlowStep
    BY <2>3, BodyStep, LeaveStep, RunStep, ReplyStep
       DEF FlowStep, Flow!Step, Flow!Proxy, Flow!Upstream
  <2>4. CASE UNCHANGED req
    BY <2>4 DEF IInv, Types, DumpInv, AnswerInv, Capped, DumpOf, Flow!WholeIsWhole
  <2> QED BY <2>1, <2>2, <2>3, <2>4, SessionStep DEF vars, flow
<1> QED BY <1>1, InitInv, PTL DEF Spec

\* What a client that stays takes for a whole answer is one, whatever the
\* upstream does and whatever can be read of a file: WriteResponse and serveH2
\* need not look at io.Copy's error, except where the answer has no length, as
\* that of a map_local file never has.
THEOREM WholeIsWholeHolds == Spec => []WholeIsWhole
<1>1. IInv => WholeIsWhole
  BY DEF IInv, AnswerInv, WholeIsWhole, Flow!WholeIsWhole
<1> QED BY <1>1, Invariance, PTL

\* dumpBodyReadCloser logs a body once, cut at the limit, however its reads fall
\* and wherever the copy ends.
THEOREM DumpedOnceHolds == Spec => []DumpedOnce
<1>1. IInv => DumpedOnce
  BY DEF IInv, DumpInv, DumpOf, Capped, DumpedOnce, Flow!DumpedOnce, Flow!At
<1> QED BY <1>1, Invariance, PTL
-------------------------------------------------------------------------------
(* The request body: the handler's, and the one on the wire of HTTP/1.1.       *)

FlowTypes ==
  /\ DOMAIN req = Fields
  /\ kind \in {"h2", "forward"} /\ limit \in Limits /\ steady \in BOOLEAN
  /\ req.at \in {"none", "run", "buffer", "exchange", "replace", "drain",
                 "reply", "copy", "close", "done"}
  /\ req.len \in 0..BodyMax /\ req.sent \in 0..req.len /\ req.taken \in 0..req.sent
  /\ req.up \subseteq 1..req.taken
  /\ req.total \in 0..AnswerMax
  /\ req.seen \in {"nothing", "whole", "broken"}

\* Only the transport's goroutine and readRequestBody send on what they read.
\* Others read when the connection with the upstream is gone, or, in net/http,
\* when there is a result.
UpInv ==
  /\ req.at \in {"none", "run"} => req.taken = 0
  /\ req.at \in {"none", "run", "buffer"} => req.up = {} /\ ~req.pump
  /\ req.at = "drain" => ~req.link
  /\ limit > 0 => ~req.pump /\ (req.up = {} \/ (req.up = 1..req.len /\ req.len <= limit))
  /\ ~(kind = "forward" /\ Flow!Resulted) =>
       /\ \E k \in 0..req.taken : req.up = 1..k
       /\ req.pump /\ req.link => req.up = 1..req.taken

FlowInv == FlowTypes /\ UpInv

\* All limits are numbers.
LEMMA LimitNat == Limits \subseteq Nat /\ BodyMax \in Nat /\ AnswerMax \in Nat /\ DumpMax \in Nat
BY BoundAssumption, LimitAssumption

\* No request has been made.
LEMMA FlowInvInit == Init => FlowInv
<1> SUFFICES ASSUME Init PROVE FlowInv
  OBVIOUS
<1>1. FlowTypes
  BY LimitNat DEF Init, Flow!Fresh, FlowTypes, Fields
<1>2. req.up = {} /\ req.taken = 0 /\ ~req.pump /\ req.at = "none" /\ {} = 1..0
  BY DEF Init, Flow!Fresh
<1>3. UpInv
  BY <1>2 DEF UpInv, Flow!Resulted
<1> QED BY <1>1, <1>3 DEF FlowInv

\* Steps that read nothing of the body and send nothing of it on.
LEMMA SameBody ==
  ASSUME FlowInv, DOMAIN req' = Fields,
         UNCHANGED <<kind, limit, steady>>,
         req'.at \in {"run", "buffer", "exchange", "replace", "drain",
                      "reply", "copy", "close", "done"},
         req'.at = "run" => req.at = "run", req'.at = "buffer" => req.at \in {"run", "buffer"},
         req.at # "none", req'.at # "drain" \/ ~req'.link,
         req'.len = req.len, req'.sent \in req.sent..req.len, req'.taken = req.taken,
         req'.up = req.up, req'.total \in 0..AnswerMax,
         req'.seen \in {"nothing", "whole", "broken"},
         req'.pump => req.pump,
         req'.link => req.link,
         Flow!Resulted => Flow!Resulted'
  PROVE  FlowInv'
<1>1. FlowTypes'
  BY LimitNat DEF FlowInv, FlowTypes
<1>2. UpInv'
  BY DEF FlowInv, FlowTypes, UpInv
<1> QED BY <1>1, <1>2 DEF FlowInv

\* The readers of the body.
LEMMA ReadStep ==
  ASSUME FlowInv,
         \/ Flow!Pump \/ Flow!Buffer \/ Flow!Drain \/ Flow!DrainAtHead
  PROVE  FlowInv'
<1> USE DEF Flow!Become, Flow!At
<1> DEFINE t == req.taken + 1
<1>0. /\ DOMAIN req = Fields /\ req.taken \in Nat /\ req.sent \in Nat /\ req.taken < req.sent
      /\ req.len \in Nat
      /\ UNCHANGED <<kind, limit, steady>>
  BY LimitNat DEF FlowInv, FlowTypes, Flow!Pump, Flow!Buffer, Flow!Drain, Flow!DrainAtHead
<1>1. CASE Flow!Pump
  <2>1. /\ DOMAIN req' = Fields /\ req'.taken = t /\ req'.up = req.up \cup {t}
        /\ \A f \in Fields \ {"taken", "up", "pump"} : req'[f] = req[f]
        /\ req.pump /\ req.link
    BY <1>0, <1>1 DEF Flow!Pump, Fields
  <2>2. limit = 0 /\ limit' = 0
    BY <1>0, <2>1, LimitNat DEF FlowInv, FlowTypes, UpInv
  <2>3. FlowTypes'
    BY <1>0, <2>1 DEF FlowInv, FlowTypes, Fields
  <2>4. req'.at = req.at /\ req'.len = req.len /\ req'.link = req.link
    BY <2>1 DEF Fields
  <2>5. req.at \notin {"none", "run", "buffer", "drain"}
    BY <2>1 DEF FlowInv, UpInv
  <2>6. 1..t = 1..req.taken \cup {t}
    BY <1>0
  <2>7. ~(kind = "forward" /\ Flow!Resulted)' => req'.up = 1..t
    BY <1>0, <2>1, <2>4, <2>6 DEF FlowInv, UpInv, Flow!Resulted
  <2>8. UpInv'
    BY <1>0, <2>1, <2>2, <2>4, <2>5, <2>7 DEF UpInv
  <2> QED BY <2>3, <2>8 DEF FlowInv
<1>2. CASE Flow!Buffer \/ Flow!Drain \/ Flow!DrainAtHead
  <2>1. /\ DOMAIN req' = Fields /\ req'.taken = t
        /\ \A f \in Fields \ {"taken"} : req'[f] = req[f]
    BY <1>0, <1>2 DEF Flow!Buffer, Flow!Drain, Flow!DrainAtHead, Fields
  <2>2. FlowTypes'
    BY <1>0, <2>1 DEF FlowInv, FlowTypes, Fields
  <2>3. /\ req'.at = req.at /\ req'.len = req.len /\ req'.link = req.link /\ req'.up = req.up
        /\ req'.pump = req.pump
    BY <2>1 DEF Fields
  <2>4. req.at \notin {"none", "run"}
    BY <1>2 DEF Flow!Buffer, Flow!Drain, Flow!DrainAtHead
  <2>5. \/ kind = "forward" /\ Flow!Resulted
        \/ ~(req.pump /\ req.link)
    BY <1>2 DEF FlowInv, UpInv, Flow!Resulted, Flow!Buffer, Flow!Drain, Flow!DrainAtHead
  <2>6. 0..req.taken \subseteq 0..t
    BY <1>0
  <2>7. UpInv'
    BY <1>0, <2>1, <2>3, <2>4, <2>5, <2>6 DEF FlowInv, UpInv, Flow!Resulted
  <2> QED BY <2>2, <2>7 DEF FlowInv
<1> QED BY <1>1, <1>2

\* Open, and the steps of Run that send the body or start the one that does.
LEMMA SendStep ==
  ASSUME FlowInv, Flow!Open \/ Flow!Forward \/ Flow!Buffered
  PROVE  FlowInv'
<1> USE DEF Flow!Become, Flow!At
<1>0. DOMAIN req = Fields /\ UNCHANGED <<kind, limit, steady>> /\ limit \in Nat
  BY LimitNat DEF FlowInv, FlowTypes, Flow!Open, Flow!Forward, Flow!Buffered
<1>1. CASE Flow!Open
  <2>1. PICK n \in 0..BodyMax, e \in BOOLEAN :
          req' = [Flow!Fresh EXCEPT !.at = "run", !.len = n, !.eager = e]
    BY <1>1 DEF Flow!Open
  <2>2. FlowTypes'
    BY <1>0, <2>1, LimitNat DEF FlowInv, FlowTypes, Fields, Flow!Fresh
  <2>3. UpInv'
    <3>1. req'.up = {} /\ req'.taken = 0 /\ ~req'.pump /\ req'.at = "run" /\ {} = 1..0 /\ 0 \in 0..0
      BY <2>1 DEF Flow!Fresh
    <3> QED BY <3>1 DEF UpInv, Flow!Resulted
  <2> QED BY <2>2, <2>3 DEF FlowInv
<1>2. CASE Flow!Forward /\ limit > 0
  <2>1. req' = [req EXCEPT !.at = "buffer"] /\ req.at = "run"
    BY <1>2 DEF Flow!Forward
  <2> QED BY <1>0, <2>1, SameBody DEF FlowInv, FlowTypes, Fields, Flow!Resulted
<1>3. CASE Flow!Forward /\ limit = 0
  <2>1. /\ req' = [req EXCEPT !.at = "exchange", !.link = TRUE, !.pump = req.len > 0]
        /\ req.at = "run" /\ req.up = {} /\ req.taken = 0
    BY <1>3 DEF Flow!Forward, FlowInv, UpInv
  <2>2. FlowTypes'
    BY <1>0, <2>1 DEF FlowInv, FlowTypes, Fields
  <2>3. UpInv'
    <3>1. req'.up = {} /\ req'.taken = 0 /\ req'.at = "exchange" /\ {} = 1..0 /\ 0 \in 0..0
      BY <1>0, <2>1 DEF Fields
    <3> QED BY <1>0, <1>3, <3>1 DEF UpInv, Flow!Resulted
  <2> QED BY <2>2, <2>3 DEF FlowInv
<1>4. CASE Flow!Buffered /\ req.taken > limit
  <2>1. req' = Flow!Reply(req, 0) /\ req.at = "buffer"
    BY <1>4 DEF Flow!Buffered
  <2> QED BY <1>0, <2>1, SameBody, LimitNat DEF FlowInv, FlowTypes, Fields, Flow!Resulted, Flow!Local, Flow!Reply
<1>5. CASE Flow!Buffered /\ ~(req.taken > limit)
  <2>1. /\ req' = [req EXCEPT !.at = "exchange", !.link = TRUE, !.up = 1..req.taken]
        /\ req.at = "buffer" /\ ~req.pump
    BY <1>5 DEF Flow!Buffered, FlowInv, UpInv
  <2>2. req.taken \in Nat /\ req.len \in Nat /\ req.taken <= req.len
    BY LimitNat DEF FlowInv, FlowTypes
  <2>3. req.taken = req.len /\ req.len <= limit
    BY <1>0, <1>5, <2>2 DEF Flow!Buffered, Flow!LimitReader
  <2>4. FlowTypes'
    BY <1>0, <2>1, <2>2 DEF FlowInv, FlowTypes, Fields
  <2>5. /\ req'.up = 1..req.taken /\ req'.taken = req.taken /\ req'.at = "exchange" /\ ~req'.pump
        /\ req'.len = req.len
    BY <1>0, <2>1 DEF Fields
  <2>6. UpInv'
    BY <1>0, <2>2, <2>3, <2>5 DEF UpInv, Flow!Resulted
  <2> QED BY <2>4, <2>6 DEF FlowInv
<1> QED BY <1>0, <1>1, <1>2, <1>3, <1>4, <1>5

\* The other steps of a handler.
LEMMA OtherStep ==
  ASSUME FlowInv, Flow!Step,
         ~Flow!Pump, ~Flow!Buffer, ~Flow!Drain, ~Flow!DrainAtHead, ~Flow!Forward, ~Flow!Buffered
  PROVE  FlowInv'
<1> USE DEF Flow!Become, Flow!At, Fields
<1>0. /\ DOMAIN req = Fields /\ req.total \in 0..AnswerMax /\ 0 \in 0..AnswerMax
      /\ req.len \in Nat /\ req.sent \in Nat /\ req.sent <= req.len /\ req.sent \in req.sent..req.len
      /\ req.seen \in {"nothing", "whole", "broken"}
      /\ req.at \in {"none", "run", "buffer", "exchange", "replace", "drain",
                     "reply", "copy", "close", "done"}
      /\ req.at = "drain" => ~req.link
      /\ req.pump => req.at \notin {"none", "run", "buffer"}
  BY LimitNat DEF FlowInv, FlowTypes, UpInv
<1>1. CASE Flow!SendPiece
  BY <1>0, <1>1, SameBody DEF Flow!SendPiece, Flow!Ended, Flow!Resulted
<1>2. CASE Flow!Reset
  BY <1>0, <1>2, SameBody DEF Flow!Reset, Flow!Ended, Flow!Resulted
<1>3. CASE Flow!PumpBreaks
  BY <1>0, <1>3, SameBody DEF Flow!PumpBreaks, Flow!Resulted
<1>4. CASE Flow!PumpAborts
  BY <1>0, <1>4, SameBody DEF Flow!PumpAborts, Flow!Resulted
<1>5. CASE Flow!AnswerLocally
  BY <1>0, <1>5, SameBody DEF Flow!AnswerLocally, Flow!Local, Flow!Reply, Flow!Resulted
<1>6. CASE Flow!Replaced
  BY <1>0, <1>6, SameBody DEF Flow!Replaced, Flow!Local, Flow!Reply, Flow!Resulted
<1>7. CASE Flow!UpstreamFails
  BY <1>0, <1>7, SameBody DEF Flow!UpstreamFails, Flow!Local, Flow!Reply, Flow!Resulted
<1>8. CASE Flow!RunError
  BY <1>0, <1>8, SameBody DEF Flow!RunError, Flow!Fail, Flow!Local, Flow!Reply, Flow!Resulted
<1>9. CASE Flow!BufferFails
  BY <1>0, <1>9, SameBody DEF Flow!BufferFails, Flow!Fail, Flow!Local, Flow!Reply, Flow!Resulted
<1>10. CASE Flow!ReplaceFails
  BY <1>0, <1>10, SameBody DEF Flow!ReplaceFails, Flow!Fail, Flow!Local, Flow!Reply, Flow!Resulted
<1>11. CASE Flow!UpstreamAnswers
  <2>1. PICK n \in 0..AnswerMax, d \in BOOLEAN, to \in {"reply", "replace"} :
          req' = [req EXCEPT !.at = to, !.total = n, !.declared = d]
    BY <1>11 DEF Flow!UpstreamAnswers
  <2> QED BY <1>0, <1>11, <2>1, SameBody DEF Flow!UpstreamAnswers, Flow!Resulted
<1>12. CASE Flow!Drained
  BY <1>0, <1>12, SameBody DEF Flow!Drained, Flow!Resulted
<1>13. CASE Flow!WriteHead
  BY <1>0, <1>13, SameBody DEF Flow!WriteHead, Flow!Resulted
<1>14. CASE Flow!CopyEnds
  BY <1>0, <1>14, SameBody DEF Flow!CopyEnds, Flow!logSnippet, Flow!Resulted
<1>15. CASE Flow!Close
  BY <1>0, <1>15, SameBody DEF Flow!Close, Flow!logSnippet, Flow!Resulted
<1>16. CASE Flow!CopyBreaks
  BY <1>0, <1>16, SameBody DEF Flow!CopyBreaks, Flow!Resulted
<1>17. CASE Flow!WriteFails
  BY <1>0, <1>17, SameBody DEF Flow!WriteFails, Flow!Resulted
<1>18. CASE Flow!Copy
  BY <1>0, <1>18, SameBody DEF Flow!Copy, Flow!Resulted
<1> QED BY <1>1, <1>2, <1>3, <1>4, <1>5, <1>6, <1>7, <1>8, <1>9, <1>10,
        <1>11, <1>12, <1>13, <1>14, <1>15, <1>16, <1>17, <1>18
     DEF Flow!Step, Flow!Proxy, Flow!Upstream
-------------------------------------------------------------------------------
(* The wire of HTTP/1.1                                                        *)

Serving == srv \in {"run", "buffer", "exchange", "stream", "reply"}

\* Of the request being served, or of the last one, the rest of the body is on
\* the wire or still to be sent: as many pieces as are unread.
Between == /\ \A n \in 1..Len(wire) : wire[n] = Loop!Piece
           /\ Len(wire) + owed = unread
           /\ Serving => client \in {"waiting", "gone"}
           /\ Serving \/ client \in {"ready", "untilClose"} => back = << >>

\* A head that nobody has read stands behind what the last answer has left.
Asked == /\ unread < Len(wire) /\ wire[unread + 1] = Loop!HeadItem(last)
         /\ \A n \in 1..Len(wire) : n # unread + 1 => wire[n] = Loop!Piece
         /\ Len(wire) + owed = unread + 1 + last.len
         /\ ~Serving /\ client \in {"waiting", "gone"} /\ back = << >>

\* With a limit, the body is read to its end before an answer that keeps the
\* connection, unless a rule gives it.
LimitKept == limit > 0 /\ ~local /\ unread > 0 =>
               srv \in {"run", "buffer", "closed"} \/ (srv = "reply" /\ cur.close)

LoopInv == /\ Loop!TypeOK
           /\ Between \/ Asked
           /\ LimitKept
           /\ Len(back) <= 1
           /\ pump => unread > 0 /\ srv \notin {"run", "buffer"}

\* Until the handshake there is no HTTP/1.1.
Unused == /\ client = "gone" /\ srv = "closed" /\ wire = << >> /\ owed = 0 /\ sent = 0
          /\ back = << >> /\ unread = 0

WireInv == /\ LoopInv
           /\ phase \in {"request", "plain", "confirm", "handshake", "h2", "http1", "closed"}
           /\ here \in BOOLEAN
           /\ phase \notin {"http1", "closed"} => Unused

\* There is no HTTP/1.1 before the handshake.
LEMMA WireInvInit == Init => WireInv
<1> SUFFICES ASSUME Init PROVE WireInv
  OBVIOUS
<1> USE DEF Init
<1>1. Loop!NoRequest \in Loop!Request /\ 0 \in 0..BodyMax /\ 0 \in 0..Requests
  BY BoundAssumption DEF Loop!NoRequest, Loop!Request
<1>2. Len(wire) = 0 /\ Len(back) = 0 /\ ~Serving
  BY DEF Serving
<1>3. Loop!TypeOK
  <2>1. limit \in Nat
    BY LimitAssumption
  <2>2. wire \in Seq([kind : {"head", "piece"}, req : Loop!Request]) /\ back \in Seq(BOOLEAN)
    OBVIOUS
  <2> QED BY <1>1, <2>1, <2>2 DEF Loop!TypeOK
<1>4. Between
  BY <1>2 DEF Between
<1> QED BY <1>2, <1>3, <1>4 DEF WireInv, LoopInv, LimitKept, Unused

Item == [kind : {"head", "piece"}, req : Loop!Request]

\* Whoever reads a piece of the body takes it off the wire, in front of a head.
LEMMA TakePieceStep ==
  ASSUME LoopInv, Loop!TakePiece, UNCHANGED <<limit, client, owed, sent, last, srv, cur, local, back>>
  PROVE  /\ unread' \in 0..BodyMax /\ wire' \in Seq(Item) /\ unread' = unread - 1
         /\ Between' \/ Asked'
         /\ LimitKept'
<1>1. /\ wire \in Seq(Item) /\ wire # << >> /\ wire' = Tail(wire) /\ unread > 0
      /\ unread' = unread - 1 /\ unread \in 0..BodyMax /\ owed \in Nat /\ last.len \in Nat
  BY LimitNat DEF LoopInv, Loop!TypeOK, Loop!TakePiece, Loop!AtFront, Item, Loop!Request
<1>2. /\ Len(wire') = Len(wire) - 1 /\ wire' \in Seq(Item) /\ Len(wire) \in Nat
      /\ \A n \in 1..Len(wire') : wire'[n] = wire[n + 1] /\ n + 1 \in 1..Len(wire)
  BY <1>1
<1>3. ASSUME Between PROVE Between'
  <2>1. \A n \in 1..Len(wire') : wire'[n] = Loop!Piece
    BY <1>2, <1>3 DEF Between
  <2>2. Len(wire') + owed' = unread'
    BY <1>1, <1>2, <1>3, LimitNat DEF Between
  <2>3. \A n \in 1..Len(wire') : wire'[n] = Loop!Piece'
    BY <2>1 DEF Loop!Piece, Loop!NoRequest
  <2>4. UNCHANGED <<Serving, client, back>>
    BY DEF Serving
  <2> QED BY <1>3, <2>2, <2>3, <2>4 DEF Between
<1>4. ASSUME Asked PROVE Asked'
  <2>0. unread \in Nat /\ unread < Len(wire) /\ unread' < Len(wire')
    BY <1>1, <1>2, <1>4, LimitNat DEF Asked
  <2>1. \A n \in 1..Len(wire') : n # unread' + 1 => wire'[n] = Loop!Piece
    BY <1>1, <1>2, <1>4, <2>0 DEF Asked
  <2>2. unread' + 1 \in 1..Len(wire') /\ wire'[unread' + 1] = Loop!HeadItem(last)
    BY <1>1, <1>2, <1>4, <2>0 DEF Asked
  <2>3. Len(wire') + owed' = unread' + 1 + last'.len
    BY <1>1, <1>2, <1>4, <2>0 DEF Asked
  <2>4. UNCHANGED <<Serving, client, back, Loop!Piece, Loop!HeadItem(last)>>
    BY DEF Serving, Loop!Piece, Loop!HeadItem, Loop!NoRequest
  <2> QED BY <1>4, <2>0, <2>1, <2>2, <2>3, <2>4 DEF Asked
<1>5. LimitKept'
  BY <1>1, LimitNat DEF LoopInv, LimitKept
<1> QED BY <1>1, <1>2, <1>3, <1>4, <1>5, LimitNat DEF LoopInv

\* The goroutines of jeltz that read take off the wire what is theirs.
LEMMA ReaderStep ==
  ASSUME LoopInv, Loop!Buffer \/ Loop!Pump
  PROVE  LoopInv'
<1>1. Loop!TakePiece /\ UNCHANGED <<limit, client, owed, sent, last, srv, cur, local, back, full>>
  BY DEF Loop!Buffer, Loop!Pump, Loop!peer
<1>2. /\ unread' \in 0..BodyMax /\ wire' \in Seq(Item) /\ unread' = unread - 1
      /\ Between' \/ Asked'
      /\ LimitKept'
  BY <1>1, TakePieceStep
<1>3. pump' \in BOOLEAN /\ (pump' => unread' > 0 /\ srv' \notin {"run", "buffer"})
  <2>1. CASE Loop!Pump
    <3>1. pump' = (unread' > 0) /\ pump
      BY <2>1 DEF Loop!Pump
    <3>2. pump' \in BOOLEAN /\ (pump' => unread' > 0)
      <4>1. CASE unread' > 0
        <5>1. pump' = TRUE
          BY <3>1, <4>1
        <5> QED BY <4>1, <5>1
      <4>2. CASE ~(unread' > 0)
        <5>1. pump' = FALSE
          <6>1. (unread' > 0) = FALSE
            BY <1>2, <4>2, LimitNat
          <6> QED BY <3>1, <6>1, Zenon
        <5> QED BY <5>1
      <4> QED BY <4>1, <4>2
    <3> QED BY <1>1, <3>1, <3>2 DEF LoopInv
  <2>2. CASE Loop!Buffer
    \* Nobody but the loop reads the body that it buffers.
    BY <1>1, <2>2 DEF Loop!Buffer, LoopInv, Loop!TypeOK
  <2> QED BY <2>1, <2>2
<1> QED BY <1>1, <1>2, <1>3 DEF LoopInv, Loop!TypeOK, Item

\* The loop between two reads: it goes on with the request, or is done with it.
LEMMA LoopOn ==
  ASSUME LoopInv, UNCHANGED <<limit, client, owed, sent, last, wire, cur, unread>>,
         Serving' => Serving,
         srv' \in {"read", "run", "buffer", "exchange", "stream", "reply", "closed"},
         local' \in BOOLEAN, full' \in BOOLEAN, pump' \in BOOLEAN,
         pump' => unread > 0 /\ srv' \notin {"run", "buffer"},
         \/ back' = back
         \/ Serving /\ ~Serving' /\ \E b \in BOOLEAN : back' = Append(back, b),
         LimitKept'
  PROVE  LoopInv'
<1>1. back \in Seq(BOOLEAN) /\ Len(back) <= 1 /\ (Serving => back = << >>)
  BY DEF LoopInv, Loop!TypeOK, Between, Asked
<1>2. back' \in Seq(BOOLEAN) /\ Len(back') <= 1
  BY <1>1
<1>3. Loop!TypeOK'
  BY <1>2 DEF LoopInv, Loop!TypeOK, Loop!Request
<1>4. ASSUME Between PROVE Between'
  <2>1. \A n \in 1..Len(wire') : wire'[n] = Loop!Piece'
    BY <1>4 DEF Between, Loop!Piece, Loop!NoRequest
  <2>2. Serving' \/ client' \in {"ready", "untilClose"} => back' = << >>
    BY <1>1, <1>4 DEF Between
  <2> QED BY <1>4, <2>1, <2>2 DEF Between
<1>5. ASSUME Asked PROVE Asked'
  <2>1. UNCHANGED <<Loop!Piece, Loop!HeadItem(last)>>
    BY DEF Loop!Piece, Loop!HeadItem, Loop!NoRequest
  <2> QED BY <1>5, <2>1 DEF Asked
<1> QED BY <1>2, <1>3, <1>4, <1>5 DEF LoopInv

\* The loop and the transport keep the wire's invariant.
LEMMA ServeStep ==
  ASSUME LoopInv,
         \/ Loop!ReadGarbage \/ Loop!ReadEOF \/ Loop!AnswerLocally \/ Loop!RunError \/ Loop!Forward
         \/ Loop!Buffered \/ Loop!WriteFails \/ Loop!WriteReply
         \/ Loop!PumpStops \/ Loop!PumpFails \/ Loop!UpstreamFails \/ Loop!Upstream
  PROVE  LoopInv'
<1> USE DEF Loop!Goto, Loop!peer, Serving
<1>0. /\ local \in BOOLEAN /\ full \in BOOLEAN /\ pump \in BOOLEAN /\ limit \in Nat /\ unread \in Nat
      /\ srv \in {"read", "run", "buffer", "exchange", "stream", "reply", "closed"}
      /\ pump => unread > 0 /\ srv \notin {"run", "buffer"}
      /\ LimitKept
  BY LimitNat DEF LoopInv, Loop!TypeOK
<1>1. CASE Loop!ReadGarbage \/ Loop!ReadEOF
  BY <1>0, <1>1, LoopOn DEF Loop!ReadGarbage, Loop!ReadEOF, LimitKept
<1>2. CASE Loop!AnswerLocally
  BY <1>0, <1>2, LoopOn DEF Loop!AnswerLocally, LimitKept
<1>3. CASE Loop!RunError
  BY <1>0, <1>3, LoopOn DEF Loop!RunError, LimitKept
<1>4. CASE Loop!Forward
  <2>1. pump' \in BOOLEAN /\ (pump' => limit = 0 /\ unread > 0)
    BY <1>4 DEF Loop!Forward
  <2> QED BY <1>0, <1>4, <2>1, LoopOn DEF Loop!Forward, LimitKept
<1>5. CASE Loop!Buffered
  <2>1. /\ srv = "buffer" /\ srv' \in {"exchange", "reply"} /\ full' \in BOOLEAN
        /\ unread = 0 \/ (srv' = "reply" /\ cur.close)
        /\ UNCHANGED <<limit, client, owed, sent, last, wire, cur, local, unread, pump, back>>
    BY <1>0, <1>5 DEF Loop!Buffered
  <2>2. LimitKept'
    BY <2>1 DEF LimitKept
  <2> QED BY <1>0, <2>1, <2>2, LoopOn
<1>6. CASE Loop!WriteFails
  BY <1>0, <1>6, LoopOn DEF Loop!WriteFails, LimitKept
<1>7. CASE Loop!WriteReply
  BY <1>0, <1>7, LoopOn DEF Loop!WriteReply, Loop!AfterReply, LimitKept
<1>8. CASE Loop!PumpStops
  BY <1>0, <1>8, LoopOn DEF Loop!PumpStops, LimitKept
<1>9. CASE Loop!PumpFails
  <2>1. /\ pump' = FALSE /\ full' = (full /\ srv # "exchange")
        /\ UNCHANGED <<limit, client, owed, sent, last, wire, cur, local, unread, back>>
        /\ \/ srv' = srv
           \/ srv = "exchange" /\ srv' = "reply"
           \/ srv = "stream" /\ srv' = "closed"
    BY <1>9 DEF Loop!PumpFails
  <2>2. full' \in BOOLEAN
    BY <1>0, <2>1, Zenon
  <2>3. LimitKept'
    BY <1>0, <2>1 DEF LimitKept
  <2> QED BY <1>0, <2>1, <2>2, <2>3, LoopOn
<1>10. CASE Loop!UpstreamFails
  BY <1>0, <1>10, LoopOn DEF Loop!UpstreamFails, LimitKept
<1>11. CASE Loop!Upstream
  <2>1. CASE Loop!UpstreamAnswers
    BY <1>0, <2>1, LoopOn DEF Loop!UpstreamAnswers, LimitKept
  <2>2. CASE Loop!UpstreamEnds \/ Loop!StreamBreaks
    BY <1>0, <2>2, LoopOn DEF Loop!UpstreamEnds, Loop!StreamBreaks, LimitKept
  <2> QED BY <1>11, <2>1, <2>2 DEF Loop!Upstream
<1> QED BY <1>1, <1>2, <1>3, <1>4, <1>5, <1>6, <1>7, <1>8, <1>9, <1>10, <1>11

\* The loop takes the head that was asked for: of its predecessor nothing is left.
LEMMA HeadStep ==
  ASSUME LoopInv, Loop!ReadRequest
  PROVE  LoopInv'
<1> USE DEF Loop!Goto, Loop!peer, Serving
<1>1. /\ wire \in Seq(Item) /\ wire # << >> /\ wire[1].kind = "head" /\ wire' = Tail(wire)
      /\ last \in Loop!Request /\ unread \in Nat /\ owed \in Nat
  BY LimitNat DEF Loop!ReadRequest, Loop!AtFront, LoopInv, Loop!TypeOK, Item
<1>2. /\ Len(wire') = Len(wire) - 1 /\ wire' \in Seq(Item) /\ Len(wire) \in Nat /\ Len(wire) > 0
      /\ \A n \in 1..Len(wire') : wire'[n] = wire[n + 1] /\ n + 1 \in 1..Len(wire)
  BY <1>1
<1>3. wire[1] # Loop!Piece
  BY <1>1 DEF Loop!Piece
<1>4. Asked /\ unread = 0
  BY <1>1, <1>2, <1>3 DEF LoopInv, Between, Asked
<1>5. wire[1] = Loop!HeadItem(last)
  BY <1>4 DEF Asked
<1>6. cur' = last /\ unread' = last.len
  BY <1>1, <1>5 DEF Loop!ReadRequest, Loop!BodyOf, Loop!HeadItem
<1>7. Between'
  <2>1. \A n \in 1..Len(wire') : wire'[n] = Loop!Piece
    BY <1>2, <1>4 DEF Asked
  <2>2. \A n \in 1..Len(wire') : wire'[n] = Loop!Piece'
    BY <2>1 DEF Loop!Piece, Loop!NoRequest
  <2>3. Len(wire') + owed' = unread'
    BY <1>1, <1>2, <1>4, <1>6 DEF Asked, Loop!ReadRequest, Loop!Request
  <2> QED BY <1>4, <2>2, <2>3 DEF Asked, Between, Loop!ReadRequest
<1>8. Loop!TypeOK'
  BY <1>1, <1>2, <1>6 DEF LoopInv, Loop!TypeOK, Loop!ReadRequest, Loop!Request, Item
<1>9. ~pump /\ pump' = pump /\ srv' = "run" /\ back' = back
  BY <1>1, <1>4 DEF LoopInv, Loop!ReadRequest
<1> QED BY <1>7, <1>8, <1>9 DEF LoopInv, LimitKept

\* The client: it sends a head only when it has an answer and owes no piece.
LEMMA ClientStep ==
  ASSUME LoopInv, Loop!Client \/ Loop!Leave
  PROVE  LoopInv'
<1> USE DEF Loop!peer
<1>1. /\ wire \in Seq(Item) /\ last \in Loop!Request /\ unread \in Nat /\ owed \in 0..BodyMax
      /\ back \in Seq(BOOLEAN) /\ Len(back) <= 1 /\ Len(wire) \in Nat /\ last.len \in Nat
  BY LimitNat DEF LoopInv, Loop!TypeOK, Item, Loop!Request
<1>2. CASE Loop!SendHead
  <2>1. PICK n \in 0..BodyMax, c \in BOOLEAN :
          last' = [len |-> n, close |-> c] /\ owed' = n
    BY <1>2 DEF Loop!SendHead
  <2>2. last' \in Loop!Request /\ last'.len = n /\ n \in Nat
    BY <2>1, LimitNat DEF Loop!Request
  <2>3. Loop!HeadItem(last)' \in Item
    BY <2>2 DEF Loop!HeadItem, Item
  <2>4. wire' = Append(wire, Loop!HeadItem(last)')
    BY <1>2 DEF Loop!SendHead, Loop!HeadItem
  <2>5. /\ wire' \in Seq(Item) /\ Len(wire') = Len(wire) + 1
        /\ wire'[Len(wire) + 1] = Loop!HeadItem(last)'
        /\ \A m \in 1..Len(wire) : wire'[m] = wire[m]
    BY <1>1, <2>3, <2>4
  <2>6. Between /\ ~Serving /\ back = << >> /\ Len(wire) = unread
    BY <1>1, <1>2 DEF LoopInv, Between, Asked, Loop!SendHead
  <2>7. \A m \in 1..Len(wire') : m # unread + 1 => wire'[m] = Loop!Piece'
    BY <1>1, <2>5, <2>6 DEF Between, Loop!Piece, Loop!NoRequest
  <2>8. Asked'
    <3>1. /\ client' = "waiting" /\ back' = << >> /\ unread' = unread /\ ~Serving'
      BY <1>2, <2>6 DEF Serving, Loop!SendHead
    <3>2. owed = 0 /\ unread' < Len(wire') /\ Len(wire') + owed' = unread' + 1 + last'.len
      BY <1>1, <1>2, <2>1, <2>2, <2>5, <2>6, <3>1 DEF Loop!SendHead
    <3> QED BY <2>5, <2>6, <2>7, <3>1, <3>2 DEF Asked
  <2>9. Loop!TypeOK'
    <3>1. sent' \in 0..Requests
      BY <1>2, BoundAssumption DEF LoopInv, Loop!TypeOK, Loop!SendHead
    <3>2. owed' \in 0..BodyMax
      BY <2>1
    <3> QED BY <1>2, <2>2, <2>5, <3>1, <3>2 DEF LoopInv, Loop!TypeOK, Loop!SendHead, Item, Loop!Request
  <2> QED BY <1>2, <2>8, <2>9 DEF LoopInv, LimitKept, Loop!SendHead
<1>3. CASE Loop!SendPiece
  <2>1. Loop!Piece \in Item
    BY LimitNat DEF Loop!Piece, Loop!NoRequest, Item, Loop!Request
  <2>2. wire' = Append(wire, Loop!Piece) /\ owed' = owed - 1 /\ owed > 0
    BY <1>3 DEF Loop!SendPiece
  <2>3. /\ wire' \in Seq(Item) /\ Len(wire') = Len(wire) + 1 /\ owed' \in 0..BodyMax
        /\ wire'[Len(wire) + 1] = Loop!Piece
        /\ \A m \in 1..Len(wire) : wire'[m] = wire[m]
    BY <1>1, <2>1, <2>2, LimitNat
  <2>4. UNCHANGED <<unread, last, srv, Serving, client, back, Loop!Piece, Loop!HeadItem(last)>>
    BY <1>3 DEF Loop!SendPiece, Serving, Loop!Piece, Loop!HeadItem, Loop!NoRequest
  <2>5. /\ Len(wire') + owed' = Len(wire) + owed
        /\ \A m \in 1..Len(wire') : m = Len(wire) + 1 \/ m \in 1..Len(wire)
    BY <1>1, <2>2, <2>3, LimitNat
  <2>6. ASSUME Between PROVE Between'
    <3>1. Len(wire') + owed' = unread'
      BY <2>4, <2>6, <2>5 DEF Between
    <3>2. \A m \in 1..Len(wire') : wire'[m] = Loop!Piece'
      <4>1. \A m \in 1..Len(wire) : wire[m] = Loop!Piece
        BY <2>6 DEF Between
      <4>2. TAKE m \in 1..Len(wire')
      <4>3. CASE m = Len(wire) + 1
        BY <2>3, <2>4, <4>3
      <4>4. CASE m \in 1..Len(wire)
        BY <2>3, <2>4, <4>1, <4>4
      <4> QED BY <2>5, <4>3, <4>4
    <3>3. /\ Serving' => client' \in {"waiting", "gone"}
          /\ Serving' \/ client' \in {"ready", "untilClose"} => back' = << >>
      BY <2>4, <2>6 DEF Between
    <3> QED BY <3>1, <3>2, <3>3 DEF Between
  <2>7. ASSUME Asked PROVE Asked'
    <3>1. /\ unread' < Len(wire') /\ wire'[unread' + 1] = Loop!HeadItem(last)'
          /\ unread' + 1 \in 1..Len(wire)
      BY <1>1, <2>3, <2>4, <2>7 DEF Asked
    <3>2. Len(wire') + owed' = unread' + 1 + last'.len
      BY <2>4, <2>7, <2>5 DEF Asked
    <3>3. \A m \in 1..Len(wire') : m # unread' + 1 => wire'[m] = Loop!Piece'
      <4>1. \A m \in 1..Len(wire) : m # unread + 1 => wire[m] = Loop!Piece
        BY <2>7 DEF Asked
      <4>2. SUFFICES ASSUME NEW m \in 1..Len(wire'), m # unread' + 1
                     PROVE  wire'[m] = Loop!Piece'
        OBVIOUS
      <4>3. CASE m = Len(wire) + 1
        BY <2>3, <2>4, <4>3
      <4>4. CASE m \in 1..Len(wire)
        BY <2>3, <2>4, <4>1, <4>2, <4>4
      <4> QED BY <2>5, <4>3, <4>4
    <3>4. ~Serving' /\ client' \in {"waiting", "gone"} /\ back' = << >>
      BY <2>4, <2>7 DEF Asked
    <3> QED BY <3>1, <3>2, <3>3, <3>4 DEF Asked
  <2>8. Loop!TypeOK'
    BY <1>3, <2>3 DEF LoopInv, Loop!TypeOK, Loop!SendPiece, Item, Loop!Request
  <2> QED BY <1>3, <2>6, <2>7, <2>8 DEF LoopInv, LimitKept, Loop!SendPiece
<1>4. CASE Loop!Receive
  <2>1. /\ back # << >> /\ back' = Tail(back) /\ client = "waiting"
        /\ client' \in {"ready", "untilClose"}
        /\ UNCHANGED <<limit, owed, wire, sent, last, srv, cur, local, unread, pump, full>>
    BY <1>4 DEF Loop!Receive
  <2>2. back' = << >>
    BY <1>1, <2>1
  <2>3. Between /\ ~Serving
    BY <2>1 DEF LoopInv, Between, Asked
  <2>4. Between'
    BY <2>1, <2>2, <2>3 DEF Between, Serving, Loop!Piece, Loop!NoRequest
  <2>5. back' \in Seq(BOOLEAN) /\ Len(back') = 0
    BY <2>2
  <2>6. Loop!TypeOK'
    BY <2>1, <2>5 DEF LoopInv, Loop!TypeOK, Loop!Request
  <2> QED BY <2>1, <2>4, <2>5, <2>6 DEF LoopInv, LimitKept
<1>5. CASE Loop!SeeClose \/ Loop!Leave
  <2>1. /\ client' = "gone"
        /\ UNCHANGED <<limit, owed, wire, sent, last, srv, cur, local, unread, pump, full, back>>
    BY <1>5 DEF Loop!SeeClose, Loop!Leave
  <2>2. UNCHANGED <<Serving, Loop!Piece, Loop!HeadItem(last)>>
    BY <2>1 DEF Serving, Loop!Piece, Loop!HeadItem, Loop!NoRequest
  <2>3. ASSUME Between PROVE Between'
    BY <2>1, <2>2, <2>3 DEF Between
  <2>4. ASSUME Asked PROVE Asked'
    BY <2>1, <2>2, <2>4 DEF Asked
  <2>5. Loop!TypeOK'
    BY <2>1 DEF LoopInv, Loop!TypeOK, Loop!Request
  <2> QED BY <2>1, <2>3, <2>4, <2>5 DEF LoopInv, LimitKept
<1> QED BY <1>2, <1>3, <1>4, <1>5 DEF Loop!Client

\* The steps of the session around the handlers and the loop.
LEMMA AroundFlow ==
  ASSUME FlowInv, Next, ~FlowStep, ~OpenStream
  PROVE  FlowInv'
<1>1. CASE Leave
  <2>1. CASE UNCHANGED req
    BY <1>1, <2>1 DEF Leave, config, FlowInv, FlowTypes, UpInv, Flow!Resulted
  <2>2. CASE ~Flow!Ended /\ req' = [req EXCEPT !.left = TRUE]
    <3>1. DOMAIN req' = Fields /\ \A f \in Fields \ {"left"} : req'[f] = req[f]
      BY <2>2 DEF FlowInv, FlowTypes, Fields
    <3> QED BY <1>1, <3>1 DEF Leave, config, Fields, FlowInv, FlowTypes, UpInv, Flow!Resulted
  <2> QED BY <1>1, <2>1, <2>2 DEF Leave
<1>2. CASE Plain
  BY <1>2 DEF Plain, config, FlowInv, FlowTypes, UpInv, Flow!Resulted
<1>3. CASE LoopStep
  <2>1. UNCHANGED <<kind, limit, steady, req>>
    BY <1>3 DEF LoopStep, flow, Loop!Next, Loop!Client, Loop!Server, Loop!Upstream, Loop!peer,
       Loop!SendHead, Loop!SendPiece, Loop!Receive, Loop!SeeClose, Loop!Leave,
       Loop!ReadRequest, Loop!ReadGarbage, Loop!ReadEOF, Loop!AnswerLocally, Loop!RunError,
       Loop!Forward, Loop!Buffer, Loop!Buffered, Loop!WriteFails, Loop!WriteReply,
       Loop!Pump, Loop!PumpStops, Loop!PumpFails, Loop!UpstreamFails,
       Loop!UpstreamAnswers, Loop!UpstreamEnds, Loop!StreamBreaks
  <2> QED BY <2>1 DEF FlowInv, FlowTypes, UpInv, Flow!Resulted
<1>4. CASE UNCHANGED <<config, flow>>
  BY <1>4 DEF config, flow, FlowInv, FlowTypes, UpInv, Flow!Resulted
<1> QED BY <1>1, <1>2, <1>3, <1>4
  DEF Next, Hijack, Confirm, ConfirmFails, HandshakeFails, HandshakeHttp2, HandshakeHttp1, Return

\* A step that touches nothing of the loop keeps the wire's invariant.
LEMMA SameWire ==
  ASSUME WireInv, UNCHANGED <<limit, http1>>, here' \in BOOLEAN,
         phase' \in {"request", "plain", "confirm", "handshake", "h2", "http1", "closed"},
         phase \in {"http1", "closed"} => phase' \in {"http1", "closed"}
  PROVE  WireInv'
<1>1. LoopInv'
  BY DEF WireInv, http1, LoopInv, Loop!TypeOK, Loop!Request, Loop!Piece, Loop!HeadItem, Loop!NoRequest,
     Between, Asked, Serving, LimitKept
<1>2. Unused => Unused'
  BY DEF http1, Unused
<1> QED BY <1>1, <1>2 DEF WireInv

\* Every step of a connection keeps the wire's invariant.
LEMMA WireStep ==
  ASSUME WireInv, Next
  PROVE  WireInv'
<1> USE DEF Goto, session, config, flow
<1>0. /\ phase \in {"request", "plain", "confirm", "handshake", "h2", "http1", "closed"}
      /\ here \in BOOLEAN
  BY DEF WireInv
<1>1. CASE LoopStep
  <2>1. LoopInv'
    BY <1>1, ReaderStep, ServeStep, HeadStep, ClientStep
       DEF WireInv, LoopStep, Loop!Next, Loop!Client, Loop!Server
  <2> QED BY <1>0, <1>1, <2>1 DEF WireInv, LoopStep
<1>2. CASE HandshakeHttp1
  <2>1. Unused /\ LoopInv /\ client' = "ready" /\ srv' = "read"
        /\ UNCHANGED <<limit, owed, wire, sent, last, cur, local, unread, pump, full, back>>
    BY <1>2 DEF WireInv, HandshakeHttp1
  <2>2. Loop!TypeOK' /\ LimitKept' /\ Len(wire') = 0
    BY <2>1 DEF LoopInv, Loop!TypeOK, Loop!Request, LimitKept, Unused
  <2>3. Between'
    BY <2>1, <2>2 DEF Unused, Between, Serving
  <2>4. LoopInv'
    BY <2>1, <2>2, <2>3 DEF LoopInv, Unused
  <2> QED BY <1>0, <1>2, <2>4 DEF WireInv, HandshakeHttp1
<1>3. CASE OpenStream \/ FlowStep
  <2>1. UNCHANGED <<limit, http1, phase, here>>
    BY <1>3 DEF OpenStream, FlowStep, Flow!Open, Flow!Step, Flow!Proxy, Flow!Upstream, Flow!Become,
       Flow!SendPiece, Flow!Reset, Flow!AnswerLocally, Flow!RunError, Flow!Forward, Flow!Buffer,
       Flow!Buffered, Flow!BufferFails, Flow!Drain, Flow!Drained, Flow!DrainAtHead, Flow!WriteHead,
       Flow!WriteFails, Flow!Close, Flow!UpstreamAnswers, Flow!Replaced, Flow!Pump, Flow!PumpBreaks,
       Flow!UpstreamFails, Flow!PumpAborts, Flow!ReplaceFails, Flow!Copy, Flow!CopyEnds, Flow!CopyBreaks
  <2> QED BY <1>0, <2>1, SameWire
<1>4. CASE Plain \/ Hijack \/ Leave \/ Confirm \/ ConfirmFails \/ HandshakeFails \/ HandshakeHttp2
  BY <1>0, <1>4, SameWire
     DEF Plain, Hijack, Leave, Confirm, ConfirmFails, HandshakeFails, HandshakeHttp2
<1>5. CASE Return
  BY <1>0, <1>5, SameWire DEF Return
<1> QED BY <1>1, <1>2, <1>3, <1>4, <1>5 DEF Next

\* Flows and wire keep their invariants together.
THEOREM WireInvariance == Spec => [](FlowInv /\ WireInv)
<1>1. FlowInv /\ WireInv /\ [Next]_vars => FlowInv' /\ WireInv'
  <2> SUFFICES ASSUME FlowInv, WireInv, [Next]_vars PROVE FlowInv' /\ WireInv'
    OBVIOUS
  <2>1. CASE UNCHANGED vars
    <3>1. FlowInv'
      BY <2>1 DEF vars, config, flow, FlowInv, FlowTypes, UpInv, Flow!Resulted
    <3>2. WireInv'
      BY <2>1, SameWire DEF vars, session, config, WireInv
    <3> QED BY <3>1, <3>2
  <2>2. CASE Next
    <3>1. ASSUME FlowStep \/ OpenStream PROVE FlowInv'
      BY <3>1, ReadStep, SendStep, OtherStep DEF FlowStep, OpenStream
    <3> QED BY <2>2, <3>1, AroundFlow, WireStep
  <2> QED BY <2>1, <2>2
<1> QED BY <1>1, FlowInvInit, WireInvInit, PTL DEF Spec

\* The state of a connection keeps its type for bodies, answers, dumps and
\* numbers of requests of any size: nobody reads more of a body than was sent,
\* and serveHTTP1 no more than belongs to its request.
THEOREM TypeCorrect == Spec => []TypeOK
<1>1. IInv /\ FlowInv /\ WireInv => TypeOK
  <2> SUFFICES ASSUME IInv, FlowInv, WireInv PROVE TypeOK
    OBVIOUS
  <2>1. req.got \in 0..req.total /\ req.snip \in 0..DumpMax
    BY LimitNat DEF IInv, Types, AnswerInv, DumpInv, Capped
  <2> QED BY <2>1 DEF FlowInv, FlowTypes, WireInv, LoopInv, TypeOK, Flow!TypeOK
<1> QED BY <1>1, Invariance, WireInvariance, PTL

\* A request body goes upstream as it was sent, up to where it ends or breaks
\* off, and what the loop of serveHTTP1 takes for a head is one or a leftover.
THEOREM BodyIntactHolds == Spec => []BodyIntact
<1>1. FlowInv /\ WireInv => BodyIntact
  <2> SUFFICES ASSUME FlowInv, WireInv PROVE BodyIntact
    OBVIOUS
  <2>1. Flow!BodyIntact
    BY DEF FlowInv, UpInv, Flow!BodyIntact
  <2>2. Loop!OnlyLeftoversMisread
    <3>1. CASE Between
      BY <3>1, LimitNat DEF WireInv, LoopInv, Between, Loop!TypeOK, LimitKept, Loop!AtFront,
         Loop!OnlyLeftoversMisread
    <3>2. CASE Asked
      BY <3>2, LimitNat DEF WireInv, LoopInv, Asked, Loop!TypeOK, LimitKept, Loop!AtFront,
         Loop!HeadItem, Loop!OnlyLeftoversMisread
    <3> QED BY <3>1, <3>2 DEF WireInv, LoopInv
  <2> QED BY <2>1, <2>2 DEF BodyIntact
<1> QED BY <1>1, WireInvariance, PTL
===============================================================================
