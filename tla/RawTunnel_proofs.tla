--------------------------- MODULE RawTunnel_proofs ----------------------------
(* That no chunk is lost while both connections of a tunnel hold, for any      *)
(* number of chunks and any window.                                            *)
EXTENDS RawTunnel, TLAPS

\* The chunk that the copy to d has read and not yet written.
InHand(d) == IF copy[d] = "write" THEN 1 ELSE 0

\* Chunks for d that are somewhere on their way, or have got there.
OnTheWay(d) == inq[Other(d)] + InHand(d) + outq[d] + got[d]

Types == /\ main \in {"dial", "copy", "returned"}
         /\ copy \in [Peer -> {"off", "read", "write", "close", "done"}]
         /\ open \in [Peer -> BOOLEAN]
         /\ sent \in [Peer -> 0..Chunks] /\ got \in [Peer -> Nat]
         /\ fin \in [Peer -> BOOLEAN] /\ gone \in [Peer -> BOOLEAN]
         /\ inq \in [Peer -> Nat] /\ outq \in [Peer -> 0..Window]

\* Before the tunnel is up nothing is sent: the upstream's connection, which is
\* opened then, has nothing on it.
Untouched == main = "dial" => \A c \in Peer : /\ copy[c] = "off" /\ sent[c] = 0 /\ got[c] = 0
                                              /\ inq[c] = 0 /\ outq[c] = 0

\* Nothing is made up or copied twice.
NoneExtra == \A d \in Peer : OnTheWay(d) <= sent[Other(d)]

IInv == Types /\ Untouched /\ NoneExtra /\ NothingLostWhileOpen

\* Each peer has another one.
LEMMA Others == /\ \A c \in Peer : Other(c) \in Peer /\ Other(c) # c /\ Other(Other(c)) = c
                /\ \A c, d \in Peer : d # c => d = Other(c)
BY DEF Peer, Other

\* Nothing has been sent.
LEMMA InitInv == Init => IInv
<1> SUFFICES ASSUME Init PROVE IInv
  OBVIOUS
<1>1. Types
  BY BoundAssumption DEF Init, Types
<1>2. Untouched
  BY DEF Init, Untouched
<1>3. NoneExtra /\ NothingLostWhileOpen
  BY Others DEF Init, NoneExtra, NothingLostWhileOpen, OnTheWay, InHand
<1> QED BY <1>1, <1>2, <1>3 DEF IInv

\* What the peers do.
LEMMA PeerStep ==
  ASSUME IInv, NEW c \in Peer, Send(c) \/ Finish(c) \/ Receive(c) \/ Break(c)
  PROVE  IInv'
<1> USE Others, BoundAssumption DEF IInv, Types
<1>1. main # "dial" /\ main' = main
  BY DEF Untouched, Alive, Send, Finish, Receive, Break
<1>2. CASE Send(c)
  BY <1>1, <1>2 DEF Send, Untouched, NoneExtra, NothingLostWhileOpen, OnTheWay, InHand
<1>3. CASE Finish(c)
  BY <1>1, <1>3 DEF Finish, Untouched, NoneExtra, NothingLostWhileOpen, OnTheWay, InHand
<1>4. CASE Receive(c)
  <2> USE <1>4 DEF Receive
  <2>1. Types'
    OBVIOUS
  <2>2. \A d \in Peer : OnTheWay(d)' = OnTheWay(d)
    BY DEF OnTheWay, InHand
  <2>3. NoneExtra' /\ Untouched'
    BY <1>1, <2>2 DEF NoneExtra, Untouched
  <2>4. NothingLostWhileOpen'
    BY <2>2 DEF NothingLostWhileOpen, OnTheWay, InHand
  <2> QED BY <2>1, <2>3, <2>4
<1>5. CASE Break(c)
  BY <1>1, <1>5 DEF Break, Untouched, NoneExtra, NothingLostWhileOpen, OnTheWay, InHand
<1> QED BY <1>2, <1>3, <1>4, <1>5

\* What the goroutine that copies to d does.
LEMMA CopyStep ==
  ASSUME IInv, NEW d \in Peer, Copying(d)
  PROVE  IInv'
<1> USE Others, BoundAssumption DEF IInv, Types, Goto
<1>1. main # "dial" /\ main' = main
  BY DEF Untouched, Copying, Read, ReadEnds, Write, WriteFails, Close
<1>2. CASE Read(d)
  BY <1>1, <1>2 DEF Read, Untouched, NoneExtra, NothingLostWhileOpen, OnTheWay, InHand, peers
<1>3. CASE ReadEnds(d)
  BY <1>1, <1>3 DEF ReadEnds, Untouched, NoneExtra, NothingLostWhileOpen, OnTheWay, InHand, peers
<1>4. CASE Write(d)
  BY <1>1, <1>4 DEF Write, Untouched, NoneExtra, NothingLostWhileOpen, OnTheWay, InHand, peers
<1>5. CASE WriteFails(d)
  BY <1>1, <1>5 DEF WriteFails, Untouched, NoneExtra, NothingLostWhileOpen, OnTheWay, InHand, peers
<1>6. CASE Close(d)
  BY <1>1, <1>6 DEF Close, AfterClose, Untouched, NoneExtra, NothingLostWhileOpen, OnTheWay,
     InHand, peers
<1> QED BY <1>2, <1>3, <1>4, <1>5, <1>6 DEF Copying

\* What rawTunnel itself does, before and after the copies.
LEMMA MainStep ==
  ASSUME IInv, Connected \/ NotConnected \/ Return
  PROVE  IInv'
<1> USE Others, BoundAssumption DEF IInv, Types
<1>1. CASE Connected
  <2>1. \A c \in Peer : sent[c] = 0 /\ got[c] = 0 /\ inq[c] = 0 /\ outq[c] = 0
    BY <1>1 DEF Connected, Untouched
  <2>2. Types' /\ Untouched'
    BY <1>1 DEF Connected, Untouched, peers
  <2>3. \A d \in Peer : InHand(d)' = 0
    BY <1>1 DEF Connected, InHand
  <2>4. NoneExtra'
    BY <1>1, <2>1, <2>3 DEF Connected, NoneExtra, OnTheWay, peers
  <2>5. NothingLostWhileOpen'
    BY <1>1, <2>1, <2>3 DEF Connected, NothingLostWhileOpen, InHand, peers
  <2> QED BY <2>2, <2>4, <2>5
<1>2. CASE NotConnected
  BY <1>2 DEF NotConnected, Untouched, NoneExtra, NothingLostWhileOpen, OnTheWay, InHand, peers
<1>3. CASE Return
  BY <1>3 DEF Return, Untouched, NoneExtra, NothingLostWhileOpen, OnTheWay, InHand, peers, Peer
<1> QED BY <1>1, <1>2, <1>3

\* No chunk is made up or lost while both connections are open, throughout.
THEOREM Invariance == Spec => []IInv
<1>1. IInv /\ [Next]_vars => IInv'
  <2> SUFFICES ASSUME IInv, [Next]_vars PROVE IInv'
    OBVIOUS
  <2>1. CASE Next
    BY <2>1, PeerStep, CopyStep, MainStep DEF Next
  <2>2. CASE UNCHANGED vars
    BY <2>2 DEF vars, peers, IInv, Types, Untouched, NoneExtra, NothingLostWhileOpen, OnTheWay,
       InHand
  <2> QED BY <2>1, <2>2
<1> QED BY <1>1, InitInv, PTL DEF Spec

\* The state of rawTunnel keeps its type: since nothing is made up, no peer gets
\* more than the other has sent.
THEOREM TypeCorrect == Spec => []TypeOK
<1>1. IInv => TypeOK
  <2> SUFFICES ASSUME IInv PROVE TypeOK
    OBVIOUS
  <2>1. ASSUME NEW d \in Peer PROVE got[d] \in 0..Chunks /\ inq[d] \in 0..Chunks
    BY Others, BoundAssumption DEF IInv, Types, NoneExtra, OnTheWay, InHand
  <2> QED BY <2>1 DEF IInv, Types, TypeOK
<1> QED BY <1>1, Invariance, PTL

\* While the proxy has closed neither connection and no peer has broken one off,
\* every chunk that a peer has sent to rawTunnel is on its way or has arrived.
THEOREM NothingLost == Spec => []NothingLostWhileOpen
<1>1. IInv => NothingLostWhileOpen
  BY DEF IInv
<1> QED BY <1>1, Invariance, PTL
===============================================================================
