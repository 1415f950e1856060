------------------------------- MODULE RawTunnel ------------------------------
(* rawTunnel of internal/proxy/proxy.go: a CONNECT tunnel without TLS        *)
(* interception.  One goroutine copies from the client to the upstream, one  *)
(* back; each closes the connection it writes to when its copy ends.         *)
(*                                                                           *)
(* A connection is named by its peer.  A peer sends chunks, may end its      *)
(* sending side alone (FIN) or break the connection off, and may or may not  *)
(* read.  The kernel holds at most Window chunks that a peer has not read.   *)
EXTENDS Naturals

CONSTANTS Chunks, \* bound: chunks a peer sends
          Window  \* chunks the proxy can write to a peer that does not read

ASSUME BoundAssumption == Chunks \in Nat /\ Window \in Nat \ {0}

VARIABLES main,  \* "dial", "copy", "returned"
          copy,  \* copy[d]: the goroutine that writes to peer d
          open,  \* open[c]: the proxy has not closed its connection to c
          sent,  \* sent[c]: chunks c has sent
          fin,   \* fin[c]: c sends no more
          gone,  \* gone[c]: c has broken off the connection
          inq,   \* inq[c]: chunks of c that the proxy has not read
          outq,  \* outq[c]: chunks for c that it has not read
          got    \* got[c]: chunks c has read

peers == <<sent, fin, gone, got>>
vars == <<main, copy, open, peers, inq, outq>>

Peer == {"client", "upstream"}
Other(c) == IF c = "client" THEN "upstream" ELSE "client"

Init == /\ main = "dial"
        /\ copy = [d \in Peer |-> "off"]
        /\ open = [c \in Peer |-> c = "client"]
        /\ sent = [c \in Peer |-> 0] /\ got = [c \in Peer |-> 0]
        /\ fin = [c \in Peer |-> FALSE] /\ gone = [c \in Peer |-> FALSE]
        /\ inq = [c \in Peer |-> 0] /\ outq = [c \in Peer |-> 0]
-------------------------------------------------------------------------------
(* The peers.                                                                *)

\* They act once the tunnel is up: the client waits for the 200.
Alive(c) == (\E d \in Peer : copy[d] # "off") /\ ~gone[c]

Send(c) == /\ Alive(c) /\ ~fin[c] /\ sent[c] < Chunks
           /\ sent' = [sent EXCEPT ![c] = @ + 1]
           /\ inq' = IF open[c] THEN [inq EXCEPT ![c] = @ + 1] ELSE inq
           /\ UNCHANGED <<main, copy, open, fin, gone, got, outq>>

Finish(c) == /\ Alive(c) /\ ~fin[c]
             /\ fin' = [fin EXCEPT ![c] = TRUE]
             /\ UNCHANGED <<main, copy, open, sent, gone, got, inq, outq>>

Receive(c) == /\ Alive(c) /\ outq[c] > 0
              /\ outq' = [outq EXCEPT ![c] = @ - 1]
              /\ got' = [got EXCEPT ![c] = @ + 1]
              /\ UNCHANGED <<main, copy, open, sent, fin, gone, inq>>

Break(c) == /\ Alive(c)
            /\ gone' = [gone EXCEPT ![c] = TRUE]
            /\ UNCHANGED <<main, copy, open, sent, fin, got, inq, outq>>
-------------------------------------------------------------------------------
Connected == /\ main = "dial"
             /\ main' = "copy"
             /\ open' = [open EXCEPT !["upstream"] = TRUE]
             /\ copy' = [d \in Peer |-> "read"]
             /\ UNCHANGED <<peers, inq, outq>>

\* The dial fails (a 502 is written), or the client does not take the 200.
NotConnected == /\ main = "dial"
                /\ main' = "returned"
                /\ open' = [c \in Peer |-> FALSE]
                /\ UNCHANGED <<copy, peers, inq, outq>>

Goto(d, from, to) == copy[d] = from /\ copy' = [copy EXCEPT ![d] = to]

\* The copy to d reads from the other connection, until it ends or is closed.
Read(d) == LET c == Other(d)
           IN  /\ Goto(d, "read", "write")
               /\ open[c] /\ inq[c] > 0
               /\ inq' = [inq EXCEPT ![c] = @ - 1]
               /\ UNCHANGED <<main, open, peers, outq>>

ReadEnds(d) == LET c == Other(d)
               IN  /\ Goto(d, "read", "close")
                   /\ ~open[c] \/ (inq[c] = 0 /\ (fin[c] \/ gone[c]))
                   /\ UNCHANGED <<main, open, peers, inq, outq>>

\* Mutant: a short write is taken for a whole one.
WriteShort(d) == /\ Goto(d, "write", "read")
                 /\ open[d] /\ ~gone[d]
                 /\ outq' = [outq EXCEPT ![d] = Window]
                 /\ UNCHANGED <<main, open, peers, inq>>

\* Mutant: a write does not wait.
WriteNow(d) == /\ Goto(d, "write", "read")
               /\ open[d] /\ ~gone[d]
               /\ outq' = [outq EXCEPT ![d] = @ + 1]
               /\ UNCHANGED <<main, open, peers, inq>>

\* A write waits for room in the window.
Write(d) == /\ Goto(d, "write", "read")
            /\ open[d] /\ ~gone[d] /\ outq[d] < Window
            /\ outq' = [outq EXCEPT ![d] = @ + 1]
            /\ UNCHANGED <<main, open, peers, inq>>

WriteFails(d) == /\ Goto(d, "write", "close")
                 /\ ~open[d] \/ gone[d]
                 /\ UNCHANGED <<main, open, peers, inq, outq>>

\* Mutants: only the client's connection is closed; the wrong one is.
ClientOnly(d) == [open EXCEPT !["client"] = FALSE]
Swapped(d) == [open EXCEPT ![Other(d)] = FALSE]

\* What is still open once the copy to d has closed its connection.
AfterClose(d) == [open EXCEPT ![d] = FALSE]

\* upstream.Close() or clientConn.Close().  The kernel still delivers what was
\* written, unless data of the peer was unread: then it resets the connection.
Close(d) == /\ Goto(d, "close", "done")
            /\ open' = AfterClose(d)
            /\ \/ UNCHANGED outq
               \/ inq[d] > 0 /\ outq' = [outq EXCEPT ![d] = 0]
            /\ UNCHANGED <<main, peers, inq>>

\* wg.Wait(), and the deferred close of the client.
Return == /\ main = "copy" /\ \A d \in Peer : copy[d] = "done"
          /\ main' = "returned"
          /\ open' = [open EXCEPT !["client"] = FALSE]
          /\ UNCHANGED <<copy, peers, inq, outq>>

Copying(d) == Read(d) \/ ReadEnds(d) \/ Write(d) \/ WriteFails(d) \/ Close(d)

Next == \/ \E c \in Peer : Send(c) \/ Finish(c) \/ Receive(c) \/ Break(c)
        \/ Connected \/ NotConnected \/ Return
        \/ \E d \in Peer : Copying(d)

Spec == Init /\ [][Next]_vars

\* The goroutines run; the peers may do as they like.
FairSpec == /\ Spec
            /\ WF_vars(Connected \/ NotConnected) /\ WF_vars(Return)
            /\ \A d \in Peer : WF_vars(Copying(d))

\* Besides, both peers read what they are sent.
ReadingSpec == FairSpec /\ \A c \in Peer : WF_vars(Receive(c))
-------------------------------------------------------------------------------
TypeOK == /\ main \in {"dial", "copy", "returned"}
          /\ copy \in [Peer -> {"off", "read", "write", "close", "done"}]
          /\ open \in [Peer -> BOOLEAN]
          /\ sent \in [Peer -> 0..Chunks] /\ got \in [Peer -> 0..Chunks]
          /\ fin \in [Peer -> BOOLEAN] /\ gone \in [Peer -> BOOLEAN]
          /\ inq \in [Peer -> 0..Chunks] /\ outq \in [Peer -> 0..Window]

\* While both connections hold every chunk is somewhere on its way.
NothingLostWhileOpen == (\A c \in Peer : open[c] /\ ~gone[c]) => \A d \in Peer :
  sent[Other(d)] = inq[Other(d)] + (IF copy[d] = "write" THEN 1 ELSE 0) + outq[d] + got[d]

\* With peers that read, the end of one direction ends the tunnel, and leaves
\* neither connection open.
OneEndEndsBoth == (\E d \in Peer : copy[d] = "done") ~>
                  (main = "returned" /\ \A c \in Peer : ~open[c])

\* An upstream that answers, finishes and reads is heard out by a client that
\* reads, sends nothing more and stays.
AnswerDelivered == fin["upstream"] ~>
  \/ got["client"] = sent["upstream"]
  \/ fin["client"] \/ inq["client"] > 0 \/ \E c \in Peer : gone[c]
===============================================================================
