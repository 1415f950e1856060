--------------------------- MODULE Pipeline_proofs ----------------------------
(* Proofs about Pipeline, for any rules, headers, upstream answers and any    *)
(* number of changes of the files.                                            *)
EXTENDS Pipeline, FiniteSetTheorems, TLAPS

\* What goes out of RemoveHopByHop has no hop-by-hop name, and all else as it was.
LEMMA RemovedHopByHop ==
  ASSUME NEW h, NEW n \in Name
  PROVE  RemoveHopByHop(h)[n] = IF n \in HopByHop(h) THEN <<>> ELSE h[n]
BY DEF RemoveHopByHop
-------------------------------------------------------------------------------
\* The stages up to the round trip: nothing is sent and nothing is open yet.
Before == {"compile", "refused", "request", "redirect", "mapped", "open", "remote", "roundtrip"}
After == {"replace", "response", "done"}

NothingYet == pc \in Before => sent = <<>> /\ Opened = {}

\* Once a request is out, it and fc.Header stay what they are.
SentIsClean == \A k \in DOMAIN sent : sent[k].header = OutHeader(header)

ResultShape == DOMAIN result = {"status", "headers", "body", "source"}

ClosedAtEnd == pc \in {"error", "written"} => Opened = {}

OpenInResult == pc \in After => \/ Opened \subseteq {result.body[1]}
                                \/ method = "HEAD" /\ Opened = {"upstream"}

Stages == pc \in Before \cup After \cup {"error", "written"}

IInv == Stages /\ NothingYet /\ SentIsClean /\ ResultShape /\ ClosedAtEnd /\ OpenInResult
-------------------------------------------------------------------------------
\* A flow starts with nothing sent and only the request body open.
LEMMA InitInv == Init => IInv
<1> SUFFICES ASSUME Init PROVE IInv
  OBVIOUS
<1>1. sent = <<>> /\ pc = "compile" /\ held = {"request"}
  BY DEF Init
<1>2. SentIsClean
  BY <1>1 DEF SentIsClean
<1>3. ResultShape
  BY DEF Init, ResultShape, NoResult, emptyResult, Result
<1>4. Stages /\ NothingYet /\ ClosedAtEnd /\ OpenInResult
  BY <1>1 DEF Stages, NothingYet, ClosedAtEnd, OpenInResult, Before, After, Opened
<1> QED BY <1>2, <1>3, <1>4 DEF IInv

\* A step that stays among the stages before the round trip, or fails there.
LEMMA EarlyStep ==
  ASSUME IInv, Change \/ Compile \/ Step2 \/ Step3 \/ Skip \/ NoMapped \/ MatchMap
               \/ ResolveLocal \/ Step4
  PROVE  IInv'
<1> USE DEF IInv, Stages, NothingYet, SentIsClean, ResultShape, ClosedAtEnd, OpenInResult,
            Before, After, Opened
<1>1. CASE Change
  BY <1>1 DEF Change, flow, request
<1>2. CASE Compile
  BY <1>2 DEF Compile, disk
<1>3. CASE Step2
  BY <1>3 DEF Step2, disk, flow, request
<1>4. CASE Step3
  BY <1>4 DEF Step3, disk, flow, request, serveRedirect, Result
<1>5. CASE Skip \/ NoMapped \/ Step4
  BY <1>5 DEF Skip, NoMapped, Step4, disk, flow, request
<1>6. CASE MatchMap
  BY <1>6 DEF MatchMap, disk, flow, request, serveMapped, Result
<1>7. CASE ResolveLocal
  BY <1>7 DEF ResolveLocal, disk, flow, request, Fail, Refuse, NoResult, emptyResult, Result
<1> QED BY <1>1, <1>2, <1>3, <1>4, <1>5, <1>6, <1>7

\* A step that opens a body, sends a request or fails on the way.
LEMMA OpeningStep ==
  ASSUME IInv, serveLocal \/ ReadBody \/ BuildFails \/ RoundTrip
  PROVE  IInv'
<1> USE DEF IInv, Stages, NothingYet, ResultShape, ClosedAtEnd, OpenInResult,
            Before, After, Opened
<1>1. CASE serveLocal
  <2>1. SentIsClean' /\ NothingYet'
    BY <1>1 DEF serveLocal, Fail, SentIsClean
  <2>2. CASE At = "file"
    <3>1. result'.body[1] = "file" /\ ResultShape'
      BY <1>1, <2>2 DEF serveLocal, Result, Gone
    <3>2. Opened' = {"file"} /\ pc' = "replace"
      BY <1>1, <2>2 DEF serveLocal, Gone
    <3> QED BY <2>1, <3>1, <3>2
  <2>3. CASE At # "file"
    BY <1>1, <2>1, <2>3 DEF serveLocal, Fail, NoResult, emptyResult, Result
  <2> QED BY <2>2, <2>3
<1>2. CASE ReadBody \/ BuildFails
  BY <1>2 DEF ReadBody, BuildFails, disk, flow, request, Fail, NoResult, emptyResult, Result, SentIsClean
<1>3. CASE RoundTrip
  <2>1. SentIsClean'
    BY <1>3 DEF RoundTrip, Requests, SentIsClean, OutHeader, disk, flow, request
  <2>2. Stages' /\ NothingYet' /\ ClosedAtEnd'
    BY <1>3 DEF RoundTrip
  <2>3. CASE result' = emptyResult(502, "upstream") /\ held' = held \ {"request"}
    BY <1>3, <2>1, <2>2, <2>3 DEF RoundTrip, emptyResult, Result
  <2>4. ASSUME NEW h, held' = (held \ {"request"}) \cup {"upstream"},
               result' = Result(200, h, IF method = "HEAD" THEN Empty ELSE <<"upstream", <<>>>>, "upstream")
        PROVE  IInv'
    <3>1. ResultShape'
      BY <2>4 DEF Result
    <3>2. Opened' = {"upstream"}
      BY <1>3, <2>4 DEF RoundTrip
    <3>3. method' = method
      BY <1>3 DEF RoundTrip, flow, request
    <3>4. method # "HEAD" => result'.body = <<"upstream", <<>>>>
      BY <2>4 DEF Result
    <3>5. OpenInResult'
      <4>1. CASE method = "HEAD"
        BY <4>1, <3>2, <3>3
      <4>2. CASE method # "HEAD"
        <5>1. result'.body[1] = "upstream"
          BY <4>2, <3>4
        <5> QED BY <5>1, <3>2
      <4> QED BY <4>1, <4>2
    <3> QED BY <2>1, <2>2, <3>1, <3>5
  <2> QED BY <1>3, <2>3, <2>4 DEF RoundTrip
<1> QED BY <1>1, <1>2, <1>3

\* A step on a result: body_replace closes what it has read, also when reading fails.
LEMMA LateStep ==
  ASSUME IInv, Step5 \/ Respond \/ Write
  PROVE  IInv'
<1> USE DEF IInv, Stages, NothingYet, SentIsClean, ResultShape, ClosedAtEnd, OpenInResult,
            Before, After, Opened
<1>1. CASE Step5
  BY <1>1 DEF Step5, ClosedBody, disk, flow, request, Fail, NoResult, emptyResult, Result
<1>2. CASE Respond
  BY <1>2 DEF Respond, disk, flow, request
<1>3. CASE Write
  BY <1>3 DEF Write, disk, flow, request
<1> QED BY <1>1, <1>2, <1>3

\* IInv holds throughout every flow.
THEOREM Invariance == Spec => []IInv
<1>1. IInv /\ [Next]_vars => IInv'
  <2> SUFFICES ASSUME IInv, [Next]_vars PROVE IInv'
    OBVIOUS
  <2>1. CASE Next
    BY <2>1, EarlyStep, OpeningStep, LateStep DEF Next, Run
  <2>2. CASE UNCHANGED vars
    BY <2>2 DEF vars, disk, flow, request, IInv, Stages, NothingYet, SentIsClean, ResultShape,
                ClosedAtEnd, OpenInResult, Opened
  <2> QED BY <2>1, <2>2
<1> QED BY <1>1, InitInv, PTL DEF Spec

\* No header that is hop by hop, be it a fixed one or one that a Connection
\* header of the client or of a rule lists, is in a request made upstream.
THEOREM HopByHopHolds == Spec => []HopByHopNotSent
<1>1. IInv => HopByHopNotSent
  <2> SUFFICES ASSUME IInv, NEW k \in DOMAIN sent, NEW n \in HopByHop(header) \cap Name
               PROVE  sent[k].header[n] = <<>>
    BY DEF HopByHopNotSent
  <2>1. sent[k].header = RemoveHopByHop(header)
    BY DEF IInv, SentIsClean, OutHeader
  <2> QED BY <2>1, RemovedHopByHop
<1> QED BY <1>1, Invariance, PTL

\* No file and no upstream body is left open: not when Run fails at any point,
\* not after the response is written, and none but the result's in between.
THEOREM BodiesClosedHolds == Spec => []BodiesClosed
<1>1. IInv => BodiesClosed
  BY DEF IInv, ClosedAtEnd, OpenInResult, BodiesClosed, Answered, After
<1> QED BY <1>1, Invariance, PTL
-------------------------------------------------------------------------------
\* Induction over the natural numbers, for a set.
LEMMA NatSet ==
  ASSUME NEW S, 0 \in S, \A n \in Nat : n \in S => n + 1 \in S
  PROVE  Nat \subseteq S
<1> DEFINE T == Nat \ S
<1> SUFFICES ASSUME T # {} PROVE FALSE
  OBVIOUS
<1>1. IsWellFoundedOn(OpToRel(<, Nat), Nat)
  BY NatLessThanWellFounded
<1>2. \E x \in T : \A y \in T : ~ (<<y, x>> \in OpToRel(<, Nat))
  <2> HIDE DEF T
  <2>1. T \subseteq Nat
    BY DEF T
  <2> QED BY <1>1, <2>1, WFMin
<1>3. PICK x \in T : \A y \in T : ~ (<<y, x>> \in OpToRel(<, Nat))
  BY <1>2
<1>4. x # 0 /\ x - 1 \in Nat
  OBVIOUS
<1>5. x - 1 \in T
  BY <1>4
<1>6. <<x-1, x>> \in OpToRel(<, Nat)
  BY <1>4 DEF OpToRel
<1> QED BY <1>3, <1>5, <1>6

\* A set of positions that is not empty has a maximum.
LEMMA MaxIn ==
  ASSUME NEW n \in Nat, NEW R \in SUBSET (1..n), R # {}
  PROVE  /\ Max(R) \in R /\ Max(R) \in 1..n
         /\ \A x \in R : x <= Max(R)
<1> DEFINE W == {m \in Nat : \A Q \in SUBSET (1..m) : Q # {} => \E x \in Q : \A y \in Q : x >= y}
<1>1. 0 \in W
  <2>1. 1..0 = {}
    OBVIOUS
  <2> QED BY <2>1
<1>2. ASSUME NEW m \in Nat, m \in W PROVE m + 1 \in W
  <2> SUFFICES ASSUME NEW Q \in SUBSET (1..(m + 1)), Q # {} PROVE \E x \in Q : \A y \in Q : x >= y
    OBVIOUS
  <2>1. CASE m + 1 \in Q
    BY <2>1
  <2>2. CASE m + 1 \notin Q
    <3>1. Q \in SUBSET (1..m)
      BY <2>2
    <3> QED BY <1>2, <3>1
  <2> QED BY <2>1, <2>2
<1> HIDE DEF W
<1>3. n \in W
  BY <1>1, <1>2, NatSet
<1>4. \E x \in R : \A y \in R : x >= y
  BY <1>3 DEF W
<1>5. Max(R) \in R /\ \A y \in R : Max(R) >= y
  BY <1>4 DEF Max
<1> QED BY <1>5

\* The maximum of the first k positions.
LEMMA MaxUpTo == ASSUME NEW k \in Nat \ {0} PROVE Max(1..k) = k /\ (1..k) \ {k} = 1..(k - 1)
<1>1. Max(1..k) \in 1..k /\ \A x \in 1..k : x <= Max(1..k)
  <2>1. 1..k \in SUBSET (1..k) /\ k \in 1..k
    OBVIOUS
  <2>2. 1..k # {}
    BY <2>1
  <2> QED BY <2>1, <2>2, MaxIn
<1> QED BY <1>1

\* f is the function that folds F over s, from b.
FoldsBy(f, F, s, b) ==
  f = [R \in SUBSET (1..Len(s)) |-> IF R = {} THEN b ELSE F[f[R \ {Max(R)}], s[Max(R)]]]

\* There is such a function, and its values are in any set that F does not leave.
LEMMA FoldExists ==
  ASSUME NEW A, NEW E, NEW F \in [A \X E -> A], NEW s \in Seq(E), NEW b \in A
  PROVE  \E f : FoldsBy(f, F, s, b) /\ \A R \in SUBSET (1..Len(s)) : f[R] \in A
<1> DEFINE Eq(f, m) == f = [R \in SUBSET (1..m) |-> IF R = {} THEN b ELSE F[f[R \ {Max(R)}], s[Max(R)]]]
           In(f, m) == \A R \in SUBSET (1..m) : f[R] \in A
           W == {m \in Nat : m <= Len(s) => \E f : Eq(f, m) /\ In(f, m)}
<1>0. Len(s) \in Nat /\ DOMAIN s = 1..Len(s) /\ \A k \in 1..Len(s) : s[k] \in E
  OBVIOUS
<1>1. 0 \in W
  <2>1. SUBSET (1..0) = {{}}
    OBVIOUS
  <2> DEFINE f == [R \in SUBSET (1..0) |-> b]
  <2>2. Eq(f, 0) /\ In(f, 0)
    BY <2>1
  <2> QED BY <2>2
<1>2. ASSUME NEW m \in Nat, m \in W PROVE m + 1 \in W
  <2> SUFFICES ASSUME m + 1 <= Len(s) PROVE \E f : Eq(f, m + 1) /\ In(f, m + 1)
    <3> HIDE DEF Eq, In
    <3> QED OBVIOUS
  <2>0. \E f : Eq(f, m) /\ In(f, m)
    <3> HIDE DEF Eq, In
    <3> QED BY <1>2, <1>0
  <2>1. PICK f : Eq(f, m) /\ In(f, m)
    BY <2>0
  <2> DEFINE h == [R \in SUBSET (1..(m + 1)) |-> IF R = {} THEN b ELSE F[f[R \ {Max(R)}], s[Max(R)]]]
  <2>2. ASSUME NEW R \in SUBSET (1..m) PROVE h[R] = f[R]
    <3>1. R \in SUBSET (1..(m + 1))
      OBVIOUS
    <3>2. f[R] = IF R = {} THEN b ELSE F[f[R \ {Max(R)}], s[Max(R)]]
      BY <2>1
    <3> QED BY <3>1, <3>2
  <2>3. \A R \in SUBSET (1..(m + 1)) : R # {} => Max(R) \in 1..(m + 1) /\ R \ {Max(R)} \in SUBSET (1..m)
    <3> TAKE R \in SUBSET (1..(m + 1))
    <3> HAVE R # {}
    <3>1. Max(R) \in R /\ (\A x \in R : x <= Max(R)) /\ Max(R) \in 1..(m + 1)
      BY MaxIn, m + 1 \in Nat
    <3>2. \A x \in R : x \in 1..(m + 1)
      OBVIOUS
    <3>3. \A x \in R : x # Max(R) => x \in 1..m
      BY <3>1, <3>2
    <3> QED BY <3>1, <3>3
  <2>4. \A R \in SUBSET (1..(m + 1)) : R # {} => h[R \ {Max(R)}] = f[R \ {Max(R)}]
    BY <2>2, <2>3
  <2>5. Eq(h, m + 1)
    <3>1. [R \in SUBSET (1..(m + 1)) |-> IF R = {} THEN b ELSE F[f[R \ {Max(R)}], s[Max(R)]]]
          = [R \in SUBSET (1..(m + 1)) |-> IF R = {} THEN b ELSE F[h[R \ {Max(R)}], s[Max(R)]]]
      <4> HIDE DEF h
      <4> QED BY <2>4
    <3> QED BY <3>1
  <2>6. In(h, m + 1)
    <3> SUFFICES ASSUME NEW R \in SUBSET (1..(m + 1)) PROVE h[R] \in A
      OBVIOUS
    <3>1. CASE R = {}
      BY <3>1
    <3>2. CASE R # {}
      <4>0. Max(R) \in 1..Len(s) /\ R \ {Max(R)} \in SUBSET (1..m)
        BY <1>0, <2>3, <3>2
      <4>1. s[Max(R)] \in E /\ f[R \ {Max(R)}] \in A
        BY <1>0, <2>1, <4>0
      <4> QED BY <4>1, <3>2
    <3> QED BY <3>1, <3>2
  <2>7. \E q : Eq(q, m + 1) /\ In(q, m + 1)
    <3> HIDE DEF Eq, In, h
    <3> QED BY <2>5, <2>6
  <2> QED BY <2>7
<1>3. Len(s) \in W
  <2> HIDE DEF W
  <2> QED BY <1>0, <1>1, <1>2, NatSet
<1>4. \E f : Eq(f, Len(s)) /\ In(f, Len(s))
  <2> HIDE DEF Eq, In
  <2> QED BY <1>0, <1>3
<1> QED BY <1>4 DEF FoldsBy

\* The same, as the folds need it.
LEMMA InitialRanges ==
  ASSUME NEW n \in Nat
  PROVE  /\ 1..0 = {} /\ {} \in SUBSET (1..n)
         /\ \A k \in 1..n : /\ 1..k \in SUBSET (1..n) /\ 1..k # {}
                             /\ Max(1..k) = k /\ (1..k) \ {k} = 1..(k - 1)
<1>1. ASSUME NEW k \in 1..n PROVE 1..k \in SUBSET (1..n) /\ 1..k # {}
  <2>1. k \in 1..k /\ 1..k \subseteq 1..n
    OBVIOUS
  <2> QED BY <2>1
<1>2. ASSUME NEW k \in 1..n PROVE Max(1..k) = k /\ (1..k) \ {k} = 1..(k - 1)
  BY MaxUpTo
<1>3. 1..0 = {}
  OBVIOUS

<1> QED BY <1>1, <1>2, <1>3

\* g[k] is what is in S of the first k elements of s.
Filtering(g, s, S) ==
  /\ g[0] = <<>>
  /\ \A k \in 1..Len(s) : g[k] = IF s[k] \in S THEN Append(g[k - 1], s[k]) ELSE g[k - 1]

\* Filter appends, element by element, what is in S.
LEMMA FilterSteps ==
  ASSUME NEW T, NEW s \in Seq(T), NEW S
  PROVE  \E g : Filtering(g, s, S) /\ g[Len(s)] = Filter(s, S)
<1> DEFINE n == Len(s)
           Op(kept, x) == IF x \in S THEN Append(kept, x) ELSE kept
           Eq(f) == f = [R \in SUBSET (1..n) |-> IF R = {} THEN <<>> ELSE Op(f[R \ {Max(R)}], s[Max(R)])]
           F == [p \in Seq(T) \X T |-> Op(p[1], p[2])]
           iter == CHOOSE f : Eq(f)
           g == [k \in 0..n |-> iter[1..k]]
<1>0. n \in Nat /\ DOMAIN s = 1..n /\ \A k \in 1..n : s[k] \in T
  OBVIOUS
<1>1. F \in [Seq(T) \X T -> Seq(T)]
  OBVIOUS
<1>2. \E f : Eq(f)
  <2>1. PICK f : FoldsBy(f, F, s, <<>>) /\ \A R \in SUBSET (1..n) : f[R] \in Seq(T)
    <3> HIDE DEF F
    <3>1. <<>> \in Seq(T)
      OBVIOUS
    <3> QED BY <1>1, <3>1, FoldExists
  <2>2. ASSUME NEW R \in SUBSET (1..n), R # {}
        PROVE  F[f[R \ {Max(R)}], s[Max(R)]] = Op(f[R \ {Max(R)}], s[Max(R)])
    <3>1. Max(R) \in 1..n /\ R \ {Max(R)} \in SUBSET (1..n)
      BY <2>2, <1>0, MaxIn
    <3>2. f[R \ {Max(R)}] \in Seq(T) /\ s[Max(R)] \in T
      BY <2>1, <3>1, <1>0
    <3> QED BY <3>2
  <2>3. Eq(f)
    <3> HIDE DEF F, Op
    <3> QED BY <2>1, <2>2 DEF FoldsBy
  <2> HIDE DEF Eq
  <2> QED BY <2>3
<1>3. Eq(iter)
  BY <1>2
<1>4. Filter(s, S) = iter[1..n]
  BY <1>0 DEF Filter, FoldLeft, MapThenFoldSet
<1> HIDE DEF iter, Op
<1>5. g[0] = <<>> /\ g[n] = iter[1..n]
  BY <1>0, <1>3, InitialRanges
<1>6. ASSUME NEW k \in 1..n PROVE g[k] = Op(g[k - 1], s[k])
  <2>0. /\ 1..k \in SUBSET (1..n) /\ 1..k # {}
        /\ Max(1..k) = k /\ (1..k) \ {k} = 1..(k - 1)
    BY <1>0, InitialRanges
  <2>1. iter[1..k] = Op(iter[1..(k - 1)], s[k])
    BY <1>3, <2>0
  <2>2. k \in 0..n /\ k - 1 \in 0..n
    BY <1>0
  <2> QED BY <2>1, <2>2
<1> HIDE DEF g
<1>7. Filtering(g, s, S)
  BY <1>5, <1>6 DEF Op, Filtering
<1> QED BY <1>4, <1>5, <1>7

\* s lists the positions in S, the lower ones first.
Ascending(s) == \A a \in 1..Len(s), b \in 1..Len(s) : a < b => s[a] < s[b]
Lists(s, S) == s \in Seq(Nat) /\ ToSet(s) = S /\ Ascending(s)

\* Filter keeps the order, and what is in S.
LEMMA FilterLists ==
  ASSUME NEW s, NEW X, Lists(s, X), NEW S
  PROVE  Lists(Filter(s, S), X \cap S)
<1>0. s \in Seq(Nat) /\ Ascending(s) /\ X = ToSet(s) /\ Len(s) \in Nat /\ DOMAIN s = 1..Len(s)
  BY DEF Lists
<1>1. PICK g : Filtering(g, s, S) /\ g[Len(s)] = Filter(s, S)
  BY <1>0, FilterSteps
<1> DEFINE From(k) == \A a \in 1..Len(g[k]) : g[k][a] \in S /\ \E c \in 1..k : g[k][a] = s[c]
           All(k)  == \A c \in 1..k : s[c] \in S => \E a \in 1..Len(g[k]) : g[k][a] = s[c]
           W == {k \in Nat : k <= Len(s) => g[k] \in Seq(Nat) /\ Ascending(g[k]) /\ From(k) /\ All(k)}
<1>2. 0 \in W
  <2>1. g[0] \in Seq(Nat) /\ Len(g[0]) = 0
    BY <1>1 DEF Filtering
  <2>2. 1..Len(g[0]) = {} /\ 1..0 = {}
    BY <2>1
  <2> QED BY <2>1, <2>2 DEF Ascending
<1>3. ASSUME NEW m \in Nat, m \in W PROVE m + 1 \in W
  <2> SUFFICES ASSUME m + 1 <= Len(s)
               PROVE  g[m + 1] \in Seq(Nat) /\ Ascending(g[m + 1]) /\ From(m + 1) /\ All(m + 1)
    OBVIOUS
  <2>1. g[m] \in Seq(Nat) /\ Ascending(g[m]) /\ From(m) /\ All(m)
    BY <1>0, <1>3
  <2>2. m + 1 \in 1..Len(s) /\ s[m + 1] \in Nat
    BY <1>0
  <2>3. g[m + 1] = IF s[m + 1] \in S THEN Append(g[m], s[m + 1]) ELSE g[m]
    <3>1. (m + 1) - 1 = m
      OBVIOUS
    <3> QED BY <1>1, <2>2, <3>1 DEF Filtering
  <2>4. CASE s[m + 1] \notin S
    <3>1. g[m + 1] = g[m]
      BY <2>3, <2>4
    <3>2. From(m + 1)
      <4>1. \A c \in 1..m : c \in 1..(m + 1)
        OBVIOUS
      <4> QED BY <2>1, <3>1, <4>1
    <3>3. All(m + 1)
      <4>1. \A c \in 1..(m + 1) : c = m + 1 \/ c \in 1..m
        OBVIOUS
      <4> QED BY <2>1, <2>4, <3>1, <4>1
    <3> QED BY <2>1, <3>1, <3>2, <3>3
  <2>5. CASE s[m + 1] \in S
    <3> DEFINE h == g[m]
               p == g[m + 1]
    <3>0. h \in Seq(Nat) /\ p = Append(h, s[m + 1])
      BY <2>1, <2>3, <2>5
    <3>1. /\ p \in Seq(Nat) /\ Len(h) \in Nat /\ Len(p) = Len(h) + 1 /\ p[Len(p)] = s[m + 1]
          /\ \A a \in 1..Len(h) : p[a] = h[a]
      <4> HIDE DEF h, p
      <4> QED BY <3>0, <2>2
    <3>2. \A a \in 1..Len(p) : a = Len(p) \/ a \in 1..Len(h)
      <4> HIDE DEF h, p
      <4> QED BY <3>1
    <3>3. \A a \in 1..Len(h) : a \in 1..Len(p) /\ a < Len(p)
      <4> HIDE DEF h, p
      <4> QED BY <3>1
    <3>4. From(m + 1)
      <4>1. \A c \in 1..m : c \in 1..(m + 1)
        OBVIOUS
      <4>2. m + 1 \in 1..(m + 1)
        OBVIOUS
      <4> SUFFICES ASSUME NEW a \in 1..Len(p)
                   PROVE  p[a] \in S /\ \E c \in 1..(m + 1) : p[a] = s[c]
        OBVIOUS
      <4>3. CASE a = Len(p)
        <5> HIDE DEF p, h
        <5> QED BY <2>5, <3>1, <4>2, <4>3
      <4>4. CASE a \in 1..Len(h)
        <5>1. h[a] \in S /\ \E c \in 1..m : h[a] = s[c]
          BY <2>1, <4>4
        <5> HIDE DEF p, h
        <5> QED BY <3>1, <4>1, <4>4, <5>1
      <4> HIDE DEF p, h
      <4> QED BY <3>2, <4>3, <4>4
    <3>5. All(m + 1)
      <4>1. \A c \in 1..(m + 1) : c = m + 1 \/ c \in 1..m
        OBVIOUS
      <4>2. Len(p) \in 1..Len(p)
        <5> HIDE DEF p, h
        <5> QED BY <3>1
      <4> QED BY <2>1, <3>1, <3>3, <4>1, <4>2
    <3>6. \A a \in 1..Len(h) : h[a] < s[m + 1]
      <4> SUFFICES ASSUME NEW a \in 1..Len(h) PROVE h[a] < s[m + 1]
        OBVIOUS
      <4>1. PICK c \in 1..m : h[a] = s[c]
        BY <2>1
      <4>2. c \in 1..Len(s) /\ c < m + 1
        BY <1>0, <2>2
      <4> QED BY <1>0, <2>2, <4>1, <4>2 DEF Ascending
    <3>7. Ascending(p)
      <4> SUFFICES ASSUME NEW a \in 1..Len(p), NEW b \in 1..Len(p), a < b PROVE p[a] < p[b]
        BY DEF Ascending
      <4>1. a \in 1..Len(h)
        <5> HIDE DEF p, h
        <5> QED BY <3>1
      <4>2. CASE b = Len(p)
        BY <3>1, <3>6, <4>1, <4>2
      <4>3. CASE b \in 1..Len(h)
        BY <2>1, <3>1, <4>1, <4>3 DEF Ascending
      <4> QED BY <3>2, <4>2, <4>3
    <3> QED BY <3>1, <3>4, <3>5, <3>7
  <2> QED BY <2>4, <2>5
<1>4. Len(s) \in W
  <2> HIDE DEF W
  <2> QED BY <1>0, <1>2, <1>3, NatSet
<1>5. g[Len(s)] \in Seq(Nat) /\ Ascending(g[Len(s)]) /\ From(Len(s)) /\ All(Len(s))
  <2>1. Len(s) <= Len(s)
    BY <1>0
  <2> HIDE DEF From, All
  <2> QED BY <1>4, <2>1
<1>6. ToSet(g[Len(s)]) = X \cap S
  <2>1. DOMAIN g[Len(s)] = 1..Len(g[Len(s)])
    BY <1>5
  <2>2. \A x \in X : \E c \in 1..Len(s) : x = s[c]
    BY <1>0 DEF ToSet
  <2>3. \A c \in 1..Len(s) : s[c] \in X
    BY <1>0 DEF ToSet
  <2>4. ToSet(g[Len(s)]) = {g[Len(s)][a] : a \in 1..Len(g[Len(s)])}
    BY <2>1 DEF ToSet
  <2> DEFINE t == g[Len(s)]
  <2>5. ASSUME NEW x \in X \cap S PROVE \E a \in 1..Len(t) : x = t[a]
    BY <1>5, <2>2
  <2>6. ASSUME NEW a \in 1..Len(t) PROVE t[a] \in X \cap S
    BY <1>5, <2>3
  <2> HIDE DEF t
  <2> QED BY <2>4, <2>5, <2>6 DEF t
<1> QED BY <1>1, <1>5, <1>6 DEF Lists

\* The first of a list is the least of its elements.
LEMMA FirstListed ==
  ASSUME NEW s, NEW S, Lists(s, S)
  PROVE  /\ s = <<>> <=> S = {}
         /\ s # <<>> => s[1] \in S /\ \A k \in S : s[1] <= k
<1>0. s \in Seq(Nat) /\ Ascending(s) /\ Len(s) \in Nat /\ DOMAIN s = 1..Len(s) /\ S = {s[a] : a \in 1..Len(s)}
  BY DEF Lists, ToSet
<1>1. CASE s = <<>>
  BY <1>0, <1>1
<1>2. CASE s # <<>>
  <2>1. 1 \in 1..Len(s) /\ \A a \in 1..Len(s) : a = 1 \/ 1 < a
    BY <1>0, <1>2
  <2>2. \A a \in 1..Len(s) : s[a] \in Nat
    BY <1>0
  <2>3. ASSUME NEW a \in 1..Len(s) PROVE s[1] <= s[a]
    <3>1. CASE a = 1
      BY <2>1, <2>2, <3>1
    <3>2. CASE 1 < a
      BY <1>0, <2>1, <2>2, <3>2 DEF Ascending
    <3> QED BY <2>1, <3>1, <3>2
  <2> QED BY <1>0, <1>2, <2>1, <2>3
<1> QED BY <1>1, <1>2
-------------------------------------------------------------------------------
(* The rules that a stage looks at.                                          *)

Redirects == {k \in Active({"redirect"}) : raw[k].rewrites}
LocalRules == Active({"map", "map_local"})
Remotes == Active({"map_remote"})

LeastOf(S, k) == k \in S /\ \A j \in S : k <= j

\* The least position of a set of positions is its First.
LEMMA LeastIsFirst ==
  ASSUME NEW S \in SUBSET Nat, NEW k, LeastOf(S, k)
  PROVE  First(S) = k
<1>1. First(S) \in S /\ \A j \in S : First(S) <= j
  BY DEF First, LeastOf
<1>2. k \in Nat /\ First(S) \in Nat
  BY <1>1 DEF LeastOf
<1>3. k <= First(S) /\ First(S) <= k
  BY <1>1 DEF LeastOf
<1> QED BY <1>2, <1>3

\* The rules are a sequence of the configuration throughout.
Configured == raw \in Seq(ToSet(raw))

\* The compiled form lists the enabled rules of each type in file order.
LEMMA OfTypeLists ==
  ASSUME Configured, NEW types
  PROVE  Lists(OfType(types), {k \in Rule : raw[k].enabled /\ raw[k].type \in types})
<1>1. Rule = 1..Len(raw) /\ Len(raw) \in Nat
  BY DEF Configured, Rule
<1>2. Lists([k \in Rule |-> k], Rule)
  <2> DEFINE s == [k \in Rule |-> k]
  <2>1. s \in Seq(Nat) /\ Len(s) = Len(raw)
    BY <1>1
  <2>2. ToSet(s) = Rule
    BY DEF ToSet
  <2>3. Ascending(s)
    BY <1>1, <2>1 DEF Ascending
  <2> QED BY <2>1, <2>2, <2>3 DEF Lists
<1>3. Lists(OfType(types), Rule \cap {k \in Rule : raw[k].enabled /\ raw[k].type \in types})
  BY <1>2, FilterLists DEF OfType
<1>4. Rule \cap {k \in Rule : raw[k].enabled /\ raw[k].type \in types}
      = {k \in Rule : raw[k].enabled /\ raw[k].type \in types}
  OBVIOUS
<1> QED BY <1>3, <1>4

\* What matches of a list of the compiled form, in file order.
LEMMA MatchingLists ==
  ASSUME Configured, NEW types
  PROVE  Lists(Matching(OfType(types)), Active(types))
<1> DEFINE S == {k \in Rule : raw[k].enabled /\ raw[k].type \in types}
           T == {k \in Rule : Applies(k)}
<1>1. Lists(Filter(OfType(types), T), S \cap T)
  <2> HIDE DEF S, T
  <2> QED BY OfTypeLists, FilterLists DEF S
<1>2. S \cap T = Active(types)
  BY DEF Active
<1> QED BY <1>1, <1>2 DEF Matching

\* The first match of a list of the compiled form.
LEMMA FirstMatch ==
  ASSUME Configured, NEW types
  PROVE  /\ Matching(OfType(types)) = <<>> <=> Active(types) = {}
         /\ Matching(OfType(types)) # <<>> => LeastOf(Active(types), Matching(OfType(types))[1])
BY MatchingLists, FirstListed DEF LeastOf

\* The first of the redirect rules that match and rewrite.
LEMMA FirstRewriting ==
  ASSUME Configured, ruleset = RuleSet
  PROVE  /\ Rewriting = <<>> <=> Redirects = {}
         /\ Rewriting # <<>> => LeastOf(Redirects, Rewriting[1])
<1> DEFINE S == {k \in Rule : raw[k].rewrites}
<1>1. Lists(Filter(Matching(OfType({"redirect"})), S), Active({"redirect"}) \cap S)
  <2> HIDE DEF S
  <2> QED BY MatchingLists, FilterLists
<1>2. Active({"redirect"}) \cap S = Redirects
  BY DEF Redirects, Active
<1>3. Rewriting = Filter(Matching(OfType({"redirect"})), S)
  BY DEF Rewriting, RuleSet
<1>4. Lists(Rewriting, Redirects)
  <2> HIDE DEF S
  <2> QED BY <1>1, <1>2, <1>3
<1> QED BY <1>4, FirstListed DEF LeastOf
-------------------------------------------------------------------------------
(* How far Run is on its way through the stages, and what that says about the *)
(* rules it has passed.                                                      *)

Compiled == pc \notin {"compile", "refused"} => ruleset = RuleSet

Passed(list, n) == n \in Nat \ {0} /\ \A j \in 1..(n - 1) : j <= Len(list) => ~Applies(list[j])

\* The mapped rule that a redirect leaves the flow to, and a map_local rule
\* that would leave its directory.
Chosen == \/ LeastOf(LocalRules, own)
          \/ \E k : LeastOf(LocalRules, k) /\ result.status = 403 /\ Escapes(Below(k))

Sent == result.status # 413 =>
          Len(sent) = 1 /\ sent[1].to = IF Remotes = {} THEN 0 ELSE First(Remotes)

\* Which rule has answered, or that none has.
Decided == IF Redirects # {} THEN LeastOf(Redirects, own) /\ sent = <<>>
           ELSE IF LocalRules # {} THEN sent = <<>> /\ Chosen
           ELSE own = 0 /\ Sent

Stage ==
  /\ pc \in {"compile", "refused", "request", "redirect"} => own = 0 /\ i = 1
  /\ pc = "mapped" => own = 0 /\ Redirects = {} /\ Passed(ruleset.Mapped, i)
  /\ pc = "open" => Redirects = {} /\ LeastOf(LocalRules, own)
  /\ pc \in {"remote", "roundtrip"} => own = 0 /\ Redirects = {} /\ LocalRules = {}
  /\ pc = "roundtrip" => remote = IF Remotes = {} THEN 0 ELSE First(Remotes)
  /\ pc \in After \cup {"written"} => Decided

Route == Configured /\ Compiled /\ Stage
-------------------------------------------------------------------------------
\* A flow keeps its rules and its request, and with them the rules that match.
LEMMA SameRules ==
  ASSUME raw' = raw, request' = request
  PROVE  /\ Configured' = Configured /\ RuleSet' = RuleSet
         /\ Redirects' = Redirects /\ LocalRules' = LocalRules /\ Remotes' = Remotes
         /\ \A k : Applies(k)' = Applies(k) /\ Below(k)' = Below(k)
<1> USE DEF request
<1>1. Configured' = Configured /\ RuleSet' = RuleSet
  BY DEF Configured, RuleSet, OfType, Rule
<1>2. \A k : Applies(k)' = Applies(k)
  BY DEF Applies
<1>3. \A k : Below(k)' = Below(k)
  BY DEF Below
<1>4. \A types : Active(types)' = Active(types)
  BY <1>2 DEF Active, Rule
<1>5. Redirects' = Redirects /\ LocalRules' = LocalRules /\ Remotes' = Remotes
  BY <1>4 DEF Redirects, LocalRules, Remotes
<1> QED BY <1>1, <1>2, <1>3, <1>5

\* Run has not begun.
LEMMA RouteInit == Init => Route
<1> SUFFICES ASSUME Init PROVE Route
  OBVIOUS
<1>1. Configured
  BY RulesAssumption DEF Init, Configured
<1>2. pc = "compile" /\ own = 0 /\ i = 1
  BY DEF Init
<1>3. Compiled /\ Stage
  BY <1>2 DEF Compiled, Stage, After
<1> QED BY <1>1, <1>3 DEF Route

\* A step that changes nothing that the stages are about.
LEMMA RouteKept ==
  ASSUME Route, raw' = raw, request' = request, ruleset' = ruleset, i' = i, own' = own,
         remote' = remote, sent' = sent, pc' = pc, result'.status = result.status
  PROVE  Route'
<1>1. (Configured /\ Compiled)'
  BY SameRules DEF Route, Compiled
<1>2. Passed(ruleset.Mapped, i)' <=> Passed(ruleset.Mapped, i)
  BY SameRules DEF Passed
<1>3. Decided' <=> Decided
  <2>1. Chosen' <=> Chosen
    BY SameRules DEF Chosen, LeastOf
  <2> QED BY <2>1, SameRules DEF Decided, Sent, LeastOf, First
<1>4. Stage'
  BY <1>2, <1>3, SameRules DEF Route, Stage, LeastOf, First
<1> QED BY <1>1, <1>4 DEF Route

\* At the first rule of the second stage that matches, it is the first in the file.
LEMMA FirstMapped ==
  ASSUME Route, pc = "mapped", Here, Applies(This)
  PROVE  LeastOf(LocalRules, This)
<1>1. ruleset.Mapped = OfType({"map", "map_local"})
  BY DEF Route, Compiled, RuleSet
<1> DEFINE s == ruleset.Mapped
           S == {k \in Rule : raw[k].enabled /\ raw[k].type \in {"map", "map_local"}}
<1>2. Lists(s, S)
  BY <1>1, OfTypeLists DEF Route
<1>3. /\ s \in Seq(Nat) /\ Len(s) \in Nat /\ i \in 1..Len(s)
      /\ S = {s[a] : a \in 1..Len(s)}
      /\ \A a \in 1..Len(s), b \in 1..Len(s) : a < b => s[a] < s[b]
      /\ \A j \in 1..(i - 1) : ~Applies(s[j])
  <2> HIDE DEF S
  <2>1. s \in Seq(Nat) /\ Len(s) \in Nat /\ DOMAIN s = 1..Len(s) /\ Ascending(s) /\ ToSet(s) = S
    BY <1>2 DEF Lists
  <2>2. Passed(s, i) /\ i <= Len(s)
    BY DEF Route, Stage, Here
  <2>3. i \in 1..Len(s) /\ \A j \in 1..(i - 1) : j <= Len(s)
    BY <2>1, <2>2 DEF Passed
  <2> QED BY <2>1, <2>2, <2>3 DEF Passed, Ascending, ToSet
<1>4. This \in LocalRules
  BY <1>3 DEF This, LocalRules, Active
<1>5. ASSUME NEW k \in LocalRules PROVE This <= k
  <2>1. k \in S /\ Applies(k)
    BY DEF LocalRules, Active
  <2>2. PICK a \in 1..Len(s) : k = s[a]
    BY <1>3, <2>1
  <2>3. a = i \/ i < a
    <3>1. a \notin 1..(i - 1)
      BY <1>3, <2>1, <2>2
    <3> QED BY <1>3, <3>1
  <2>4. s[i] \in Nat /\ s[a] \in Nat
    BY <1>3
  <2>5. CASE a = i
    BY <2>2, <2>4, <2>5 DEF This
  <2>6. CASE i < a
    BY <1>3, <2>2, <2>4, <2>6 DEF This
  <2> QED BY <2>3, <2>5, <2>6
<1> QED BY <1>4, <1>5 DEF LeastOf

\* Behind the last rule of the second stage, none of them matches.
LEMMA NoneMapped ==
  ASSUME Route, pc = "mapped", ~Here
  PROVE  LocalRules = {}
<1>1. ruleset.Mapped = OfType({"map", "map_local"})
  BY DEF Route, Compiled, RuleSet
<1> DEFINE s == ruleset.Mapped
           S == {k \in Rule : raw[k].enabled /\ raw[k].type \in {"map", "map_local"}}
<1>2. Lists(s, S)
  BY <1>1, OfTypeLists DEF Route
<1>3. Len(s) \in Nat /\ S = {s[a] : a \in 1..Len(s)}
  <2> HIDE DEF S
  <2> QED BY <1>2 DEF Lists, ToSet
<1>4. Passed(s, i) /\ ~(i <= Len(s))
  BY DEF Route, Stage, Here
<1>5. \A a \in 1..Len(s) : ~Applies(s[a])
  BY <1>3, <1>4 DEF Passed
<1>6. \A k \in LocalRules : k \in S /\ Applies(k)
  BY DEF LocalRules, Active
<1> QED BY <1>3, <1>5, <1>6

\* The steps up to the redirect stage.
LEMMA RouteEarly ==
  ASSUME IInv, Route, Change \/ Compile \/ Step2 \/ Step3
  PROVE  Route'
<1>1. CASE Change
  BY <1>1, RouteKept DEF Change, flow, request
<1>2. CASE Compile
  <2>1. raw' = raw /\ request' = request
    BY <1>2 DEF Compile
  <2>2. (Configured /\ Compiled)'
    BY <1>2, <2>1, SameRules DEF Compile, Compiled, Route
  <2>3. Stage'
    BY <1>2 DEF Compile, Route, Stage, After
  <2> QED BY <2>2, <2>3 DEF Route
<1>3. CASE Step2
  <2>1. raw' = raw /\ request' = request /\ ruleset' = ruleset
    BY <1>3 DEF Step2, flow
  <2>2. (Configured /\ Compiled)'
    BY <1>3, <2>1, SameRules DEF Step2, Compiled, Route
  <2>3. Stage'
    BY <1>3 DEF Step2, Route, Stage, After
  <2> QED BY <2>2, <2>3 DEF Route
<1>4. CASE Step3
  <2>1. raw' = raw /\ request' = request /\ ruleset' = ruleset /\ sent' = sent /\ i' = i
    BY <1>4 DEF Step3, flow
  <2>2. (Configured /\ Compiled)'
    BY <1>4, <2>1, SameRules DEF Step3, Compiled, Route
  <2>3. /\ Rewriting = <<>> <=> Redirects = {}
        /\ Rewriting # <<>> => LeastOf(Redirects, Rewriting[1])
    BY <1>4, FirstRewriting DEF Step3, Route, Compiled
  <2>4. own = 0 /\ i = 1 /\ sent = <<>>
    BY <1>4 DEF Step3, Route, Stage, IInv, NothingYet, Before
  <2>5. CASE Rewriting = <<>>
    <3>1. pc' = "mapped" /\ own' = own /\ Redirects' = {}
      BY <1>4, <2>1, <2>3, <2>5, SameRules DEF Step3
    <3>2. Passed(ruleset.Mapped, i)'
      BY <2>1, <2>4 DEF Passed
    <3> QED BY <2>2, <2>4, <3>1, <3>2 DEF Route, Stage, After
  <2>6. CASE Rewriting # <<>>
    <3>1. pc' = "replace" /\ LeastOf(Redirects, own)' /\ Redirects' # {}
      BY <1>4, <2>1, <2>3, <2>6, SameRules DEF Step3, LeastOf
    <3>2. Decided'
      BY <2>1, <2>4, <3>1 DEF Decided
    <3> QED BY <2>2, <3>1, <3>2 DEF Route, Stage
  <2> QED BY <2>5, <2>6
<1> QED BY <1>1, <1>2, <1>3, <1>4

\* The steps of the second stage.
LEMMA RouteMapped ==
  ASSUME IInv, Route, Skip \/ NoMapped \/ MatchMap \/ ResolveLocal
  PROVE  Route'
<1>1. /\ pc = "mapped" /\ own = 0 /\ Redirects = {} /\ Passed(ruleset.Mapped, i) /\ sent = <<>>
      /\ raw' = raw /\ request' = request /\ ruleset' = ruleset /\ sent' = sent
  BY DEF Skip, NoMapped, MatchMap, ResolveLocal, flow, Route, Stage, IInv, NothingYet, Before
<1>2. Configured' /\ Compiled'
  BY <1>1, SameRules DEF Compiled, Route
<1>3. Redirects' = {} /\ LocalRules' = LocalRules
  BY <1>1, SameRules
<1>4. CASE Skip
  <2>1. pc' = "mapped" /\ own' = 0 /\ i' = i + 1
    BY <1>1, <1>4 DEF Skip
  <2>2. ASSUME NEW j \in 1..(i' - 1), j <= Len(ruleset.Mapped) PROVE ~Applies(ruleset.Mapped[j])
    <3>1. CASE j = i
      BY <1>4, <3>1 DEF Skip, This
    <3>2. CASE j \in 1..(i - 1)
      BY <1>1, <2>2, <3>2 DEF Passed
    <3> QED BY <1>1, <2>1, <3>1, <3>2 DEF Passed
  <2>3. Passed(ruleset.Mapped, i)'
    <3>1. i' \in Nat \ {0}
      BY <1>1, <2>1 DEF Passed
    <3> QED BY <1>1, <2>2, <3>1, SameRules DEF Passed
  <2> QED BY <1>2, <1>3, <2>1, <2>3 DEF Route, Stage, After
<1>5. CASE NoMapped
  <2>1. LocalRules = {}
    BY <1>5, NoneMapped DEF NoMapped
  <2>2. pc' = "remote" /\ own' = 0
    BY <1>1, <1>5 DEF NoMapped
  <2> QED BY <1>2, <1>3, <2>1, <2>2 DEF Route, Stage, After
<1>6. ASSUME Here, Applies(This) PROVE LeastOf(LocalRules, This) /\ LeastOf(LocalRules, This)'
  <2>1. LeastOf(LocalRules, This)
    BY <1>1, <1>6, FirstMapped
  <2>2. i' = i
    BY <1>6 DEF Skip, NoMapped, MatchMap, ResolveLocal
  <2> QED BY <1>1, <1>3, <2>1, <2>2 DEF LeastOf, This
<1>7. CASE MatchMap
  <2>1. pc' = "replace" /\ LeastOf(LocalRules, own)'
    <3>1. LeastOf(LocalRules, This)
      BY <1>6, <1>7 DEF MatchMap
    <3>2. own' = This /\ pc' = "replace"
      BY <1>7 DEF MatchMap
    <3> QED BY <1>3, <3>1, <3>2 DEF LeastOf
  <2>2. Decided'
    BY <1>1, <1>3, <2>1 DEF Decided, Chosen, LeastOf
  <2> QED BY <1>2, <2>1, <2>2 DEF Route, Stage
<1>8. CASE ResolveLocal
  <2>1. LeastOf(LocalRules, This)
    BY <1>6, <1>8 DEF ResolveLocal
  <2>2. CASE base = Gone /\ Fail
    BY <1>2, <2>2 DEF Fail, Route, Stage, After
  <2>3. CASE Escapes(Below(This)) /\ Refuse
    <3>1. pc' = "done" /\ result'.status = 403
      BY <2>3 DEF Refuse, emptyResult, Result
    <3>2. LeastOf(LocalRules', This) /\ Escapes(Below(This))
      BY <1>3, <2>1, <2>3
    <3>3. Chosen'
      BY <1>1, <3>1, <3>2, SameRules DEF Chosen, LeastOf
    <3>4. Decided'
      BY <1>1, <1>3, <3>2, <3>3 DEF Decided, LeastOf
    <3> QED BY <1>2, <3>1, <3>4 DEF Route, Stage
  <2>4. CASE pc' = "open" /\ own' = This
    <3>1. LeastOf(LocalRules, own)'
      BY <1>3, <2>1, <2>4 DEF LeastOf
    <3> QED BY <1>2, <1>3, <2>4, <3>1 DEF Route, Stage, After
  <2> QED BY <1>8, <2>2, <2>3, <2>4 DEF ResolveLocal
<1> QED BY <1>4, <1>5, <1>7, <1>8

\* The steps that produce the answer.
LEMMA RouteAnswer ==
  ASSUME IInv, Route, serveLocal \/ Step4 \/ ReadBody \/ BuildFails \/ RoundTrip
  PROVE  Route'
<1>1. raw' = raw /\ request' = request /\ ruleset' = ruleset /\ own' = own /\ sent = <<>>
  BY DEF serveLocal, Step4, ReadBody, BuildFails, RoundTrip, flow, IInv, NothingYet, Before
<1>2. Configured' /\ Compiled'
  BY <1>1, SameRules DEF Compiled, Route, serveLocal, Step4, ReadBody, BuildFails, RoundTrip
<1>3. Redirects' = Redirects /\ LocalRules' = LocalRules /\ Remotes' = Remotes
  BY <1>1, SameRules
<1>4. CASE Fail
  BY <1>2, <1>4 DEF Fail, Route, Stage, After
<1>5. CASE serveLocal /\ ~Fail
  <2>1. Redirects = {} /\ LeastOf(LocalRules, own) /\ pc' = "replace" /\ sent' = <<>>
    BY <1>1, <1>5 DEF serveLocal, Route, Stage
  <2>2. Chosen' /\ LocalRules # {}
    BY <1>1, <1>3, <2>1 DEF Chosen, LeastOf
  <2> QED BY <1>2, <1>3, <2>1, <2>2 DEF Route, Stage, Decided
<1>6. CASE Step4
  <2>1. own = 0 /\ Redirects = {} /\ LocalRules = {} /\ pc' = "roundtrip"
    BY <1>6 DEF Step4, Route, Stage
  <2>2. Remote = Matching(OfType({"map_remote"}))
    BY <1>6 DEF Remote, Step4, Route, Compiled, RuleSet
  <2>3. /\ Remote = <<>> <=> Remotes = {}
        /\ Remote # <<>> => LeastOf(Remotes, Remote[1])
    BY <2>2, FirstMatch DEF Remotes, Route
  <2>4. Remotes \in SUBSET Nat
    BY DEF Remotes, Active, Rule, Route, Configured
  <2>5. remote' = IF Remotes = {} THEN 0 ELSE First(Remotes)
    BY <1>6, <2>3, <2>4, LeastIsFirst DEF Step4
  <2>6. (IF Remotes = {} THEN 0 ELSE First(Remotes))' = IF Remotes = {} THEN 0 ELSE First(Remotes)
    BY <1>3 DEF First
  <2> QED BY <1>1, <1>2, <1>3, <2>1, <2>5, <2>6 DEF Route, Stage, After
<1>7. CASE ReadBody /\ ~Fail
  <2>1. own = 0 /\ Redirects = {} /\ LocalRules = {} /\ pc' = "replace" /\ result'.status = 413
    BY <1>7 DEF ReadBody, Route, Stage, emptyResult, Result
  <2> QED BY <1>1, <1>2, <1>3, <2>1 DEF Route, Stage, Decided, Sent
<1>8. CASE RoundTrip
  <2>1. /\ own = 0 /\ Redirects = {} /\ LocalRules = {} /\ pc' = "replace"
        /\ remote = IF Remotes = {} THEN 0 ELSE First(Remotes)
    BY <1>8 DEF RoundTrip, Route, Stage
  <2>2. Len(sent') = 1 /\ sent'[1].to = remote
    BY <1>1, <1>8 DEF RoundTrip, Requests
  <2>3. Sent'
    BY <1>3, <2>1, <2>2 DEF Sent, First
  <2> QED BY <1>1, <1>2, <1>3, <2>1, <2>3 DEF Route, Stage, Decided
<1>9. BuildFails => Fail
  BY DEF BuildFails
<1> QED BY <1>4, <1>5, <1>6, <1>7, <1>8, <1>9

\* The steps on an answer leave its status and its rule.
LEMMA RouteLate ==
  ASSUME IInv, Route, Step5 \/ Respond \/ Write
  PROVE  Route'
<1>1. raw' = raw /\ request' = request /\ ruleset' = ruleset /\ own' = own /\ sent' = sent
  BY DEF Step5, Respond, Write, flow
<1>2. Configured' /\ Compiled'
  BY <1>1, SameRules DEF Compiled, Route, Step5, Respond, Write, Fail
<1>3. CASE Step5 /\ Fail
  BY <1>2, <1>3 DEF Fail, Route, Stage, After
<1>4. CASE ~Fail \/ ~Step5
  <2>1. pc' \in {"response", "done", "written"} /\ pc \in After /\ result'.status = result.status
    BY <1>4 DEF Step5, Respond, Write, After, IInv, ResultShape
  <2>2. Decided
    BY <2>1 DEF Route, Stage
  <2>3. Chosen' <=> Chosen
    BY <1>1, <2>1, SameRules DEF Chosen, LeastOf
  <2>4. Decided'
    BY <1>1, <2>1, <2>2, <2>3, SameRules DEF Decided, Sent, LeastOf, First
  <2> QED BY <1>2, <2>1, <2>4 DEF Route, Stage, After
<1> QED BY <1>3, <1>4

\* Both invariants hold throughout every flow.
LEMMA RouteInvariance == Spec => [](IInv /\ Route)
<1>1. IInv /\ Route /\ [Next]_vars => Route'
  <2> SUFFICES ASSUME IInv, Route, [Next]_vars PROVE Route'
    OBVIOUS
  <2>1. CASE Next
    BY <2>1, RouteEarly, RouteMapped, RouteAnswer, RouteLate DEF Next, Run
  <2>2. CASE UNCHANGED vars
    BY <2>2, RouteKept DEF vars, flow
  <2> QED BY <2>1, <2>2
<1>2. Spec => []IInv
  BY Invariance
<1> QED BY <1>1, <1>2, RouteInit, PTL DEF Spec

\* The first matching rule of the file in the first stage that has one answers,
\* for every list of rules and whatever happens to the files meanwhile; a flow
\* goes upstream, once and by the first matching map_remote rule, when no
\* earlier stage has a match.
THEOREM FirstMatchWinsHolds == Spec => []FirstMatchWins
<1>1. IInv /\ Route => FirstMatchWins
  <2> SUFFICES ASSUME IInv, Route, Answered PROVE FirstMatchWins
    BY DEF FirstMatchWins
  <2>1. Decided
    BY DEF Answered, Route, Stage, After
  <2>2. Redirects \in SUBSET Nat /\ LocalRules \in SUBSET Nat
    BY DEF Redirects, LocalRules, Active, Rule, Route, Configured
  <2>3. Redirects # {} => own = First(Redirects) /\ sent = <<>>
    BY <2>1, <2>2, LeastIsFirst DEF Decided
  <2>4. Redirects = {} /\ LocalRules # {} =>
          /\ sent = <<>>
          /\ own = First(LocalRules) \/ (result.status = 403 /\ Escapes(Below(First(LocalRules))))
    BY <2>1, <2>2, LeastIsFirst DEF Decided, Chosen
  <2>5. Redirects = {} /\ LocalRules = {} => own = 0 /\ Sent
    BY <2>1 DEF Decided
  <2> QED BY <2>3, <2>4, <2>5 DEF FirstMatchWins, Sent, Redirects, LocalRules, Remotes
<1> QED BY <1>1, RouteInvariance, PTL
-------------------------------------------------------------------------------
(* What the folds of HeaderOps keep.                                         *)

\* A fold stays in a set that no step of it leaves.
LEMMA FoldStays ==
  ASSUME NEW n \in Nat, NEW A, NEW f, f[{}] \in A,
         \A R \in SUBSET (1..n) : R # {} /\ f[R \ {Max(R)}] \in A => f[R] \in A
  PROVE  f[1..n] \in A
<1> DEFINE W == {m \in Nat : m <= n => f[1..m] \in A}
<1>1. 0 \in W
  <2>1. 1..0 = {}
    OBVIOUS
  <2> QED BY <2>1
<1>2. ASSUME NEW m \in Nat, m \in W PROVE m + 1 \in W
  <2> SUFFICES ASSUME m + 1 <= n PROVE f[1..(m + 1)] \in A
    OBVIOUS
  <2>1. f[1..m] \in A /\ m + 1 \in 1..n /\ (m + 1) - 1 = m
    BY <1>2
  <2>2. /\ 1..(m + 1) \in SUBSET (1..n) /\ 1..(m + 1) # {}
        /\ Max(1..(m + 1)) = m + 1 /\ (1..(m + 1)) \ {m + 1} = 1..((m + 1) - 1)
    BY <2>1, InitialRanges
  <2> QED BY <2>1, <2>2
<1>3. n \in W
  <2> HIDE DEF W
  <2> QED BY <1>1, <1>2, NatSet
<1> QED BY <1>3

\* Filter adds nothing.
LEMMA FilterInSeq ==
  ASSUME NEW T, NEW s \in Seq(T), NEW S
  PROVE  Filter(s, S) \in Seq(T)
<1>0. Len(s) \in Nat /\ \A k \in 1..Len(s) : s[k] \in T
  OBVIOUS
<1>1. PICK g : Filtering(g, s, S) /\ g[Len(s)] = Filter(s, S)
  BY FilterSteps
<1> DEFINE W == {k \in Nat : k <= Len(s) => g[k] \in Seq(T)}
<1>2. 0 \in W
  <2>1. <<>> \in Seq(T)
    OBVIOUS
  <2> QED BY <1>1, <2>1 DEF Filtering
<1>3. ASSUME NEW m \in Nat, m \in W PROVE m + 1 \in W
  <2> SUFFICES ASSUME m + 1 <= Len(s) PROVE g[m + 1] \in Seq(T)
    OBVIOUS
  <2>1. m + 1 \in 1..Len(s) /\ (m + 1) - 1 = m /\ g[m] \in Seq(T) /\ s[m + 1] \in T
    BY <1>0, <1>3
  <2>2. g[m + 1] = IF s[m + 1] \in S THEN Append(g[m], s[m + 1]) ELSE g[m]
    BY <1>1, <2>1 DEF Filtering
  <2> QED BY <2>1, <2>2
<1>4. Len(s) \in W
  <2> HIDE DEF W
  <2> QED BY <1>0, <1>2, <1>3, NatSet
<1> QED BY <1>0, <1>1, <1>4

\* The same, from step a on, if that step goes there.
LEMMA FoldEnters ==
  ASSUME NEW n \in Nat, NEW A, NEW B, NEW f, NEW a \in 1..n, f[{}] \in B,
         \A R \in SUBSET (1..n) : R # {} /\ f[R \ {Max(R)}] \in B => f[R] \in B,
         \A R \in SUBSET (1..n) : R # {} /\ Max(R) = a /\ f[R \ {Max(R)}] \in B => f[R] \in A,
         \A R \in SUBSET (1..n) : R # {} /\ Max(R) > a /\ f[R \ {Max(R)}] \in A => f[R] \in A
  PROVE  f[1..n] \in A
<1> DEFINE C == {p \in B \X SUBSET (1..n) : a \in p[2] => p[1] \in A}
           g == [R \in SUBSET (1..n) |-> <<f[R], R>>]
<1>1. {} \in SUBSET (1..n) /\ g[{}] \in C
  OBVIOUS
<1>2. ASSUME NEW R \in SUBSET (1..n), R # {}, g[R \ {Max(R)}] \in C PROVE g[R] \in C
  <2>1. R \ {Max(R)} \in SUBSET (1..n)
    OBVIOUS
  <2>2. f[R \ {Max(R)}] \in B /\ (a \in R \ {Max(R)} => f[R \ {Max(R)}] \in A)
    BY <1>2, <2>1
  <2>3. Max(R) \in R /\ Max(R) \in 1..n /\ \A x \in R : x <= Max(R)
    BY <1>2, MaxIn
  <2>4. ASSUME a \in R PROVE f[R] \in A
    <3>1. CASE Max(R) = a
      BY <1>2, <2>2, <3>1
    <3>2. CASE Max(R) # a
      <4>1. a <= Max(R)
        BY <2>3, <2>4
      <4>2. Max(R) > a /\ a \in R \ {Max(R)}
        BY <2>3, <2>4, <3>2, <4>1
      <4> QED BY <1>2, <2>2, <4>2
    <3> QED BY <3>1, <3>2
  <2>5. f[R] \in B
    BY <1>2, <2>2
  <2> QED BY <2>4, <2>5
<1>3. g[1..n] \in C
  <2> HIDE DEF C, g
  <2> QED BY <1>1, <1>2, FoldStays
<1>4. 1..n \in SUBSET (1..n)
  OBVIOUS
<1> QED BY <1>3, <1>4

\* f folds the delete operations of s, one after the other, into b.
DeletesBy(f, b, s) ==
  /\ f[{}] = b /\ f[1..Len(s)] = FoldLeft(applyDelete, b, s)
  /\ \A R \in SUBSET (1..Len(s)) : R # {} =>
       /\ Max(R) \in 1..Len(s) /\ s[Max(R)] \in ToSet(s)
       /\ f[R] = applyDelete(f[R \ {Max(R)}], s[Max(R)])

\* There is such a fold.
LEMMA DeletesFold ==
  ASSUME NEW A, NEW E, \A a \in A, e \in E : applyDelete(a, e) \in A,
         NEW s \in Seq(E), NEW b \in A
  PROVE  \E f : DeletesBy(f, b, s)
<1> DEFINE n == Len(s)
           F == [p \in A \X E |-> applyDelete(p[1], p[2])]
           Eq(f) == f = [R \in SUBSET (1..n) |-> IF R = {} THEN b ELSE applyDelete(f[R \ {Max(R)}], s[Max(R)])]
           iter == CHOOSE f : Eq(f)
<1>0. n \in Nat /\ DOMAIN s = 1..n /\ \A k \in 1..n : s[k] \in E
  OBVIOUS
<1>1. \A R \in SUBSET (1..n) : R # {} =>
        /\ Max(R) \in 1..n /\ s[Max(R)] \in ToSet(s) /\ s[Max(R)] \in E /\ R \ {Max(R)} \in SUBSET (1..n)
  BY <1>0, MaxIn DEF ToSet
<1>2. \E f : Eq(f)
  <2>1. F \in [A \X E -> A]
    OBVIOUS
  <2>2. PICK f : FoldsBy(f, F, s, b) /\ \A R \in SUBSET (1..n) : f[R] \in A
    <3> HIDE DEF F
    <3> QED BY <2>1, FoldExists
  <2>3. \A R \in SUBSET (1..n) : R # {} => F[f[R \ {Max(R)}], s[Max(R)]] = applyDelete(f[R \ {Max(R)}], s[Max(R)])
    BY <1>1, <2>2
  <2>4. Eq(f)
    <3> HIDE DEF F
    <3> QED BY <2>2, <2>3 DEF FoldsBy
  <2> HIDE DEF Eq
  <2> QED BY <2>4
<1>3. Eq(iter)
  BY <1>2
<1>4. FoldLeft(applyDelete, b, s) = iter[1..n]
  BY <1>0 DEF FoldLeft, MapThenFoldSet
<1> HIDE DEF iter
<1>5. \A R \in SUBSET (1..n) : R # {} => iter[R] = applyDelete(iter[R \ {Max(R)}], s[Max(R)])
  BY <1>3
<1>6. iter[{}] = b
  BY <1>3
<1> QED BY <1>1, <1>4, <1>5, <1>6 DEF DeletesBy

\* Stays in a set that it does not leave.
LEMMA DeletesStay ==
  ASSUME NEW A, NEW E, \A a \in A, e \in E : applyDelete(a, e) \in A,
         NEW s \in Seq(E), NEW b \in A
  PROVE  FoldLeft(applyDelete, b, s) \in A
<1>1. PICK f : DeletesBy(f, b, s)
  BY DeletesFold
<1>2. Len(s) \in Nat /\ ToSet(s) \subseteq E
  BY DEF ToSet
<1>3. f[{}] \in A
  BY <1>1 DEF DeletesBy
<1>4. \A R \in SUBSET (1..Len(s)) : R # {} /\ f[R \ {Max(R)}] \in A => f[R] \in A
  BY <1>1, <1>2 DEF DeletesBy
<1>5. f[1..Len(s)] \in A
  BY <1>2, <1>3, <1>4, FoldStays
<1> QED BY <1>1, <1>5 DEF DeletesBy

\* Ends in a set that one step, at c, enters and no later one leaves.
LEMMA DeletesEnter ==
  ASSUME NEW B, NEW E, \A a \in B, e \in E : applyDelete(a, e) \in B,
         NEW s \in Seq(E), NEW b \in B, NEW A, NEW c \in 1..Len(s),
         \A a \in B : applyDelete(a, s[c]) \in A,
         \A a \in A, k \in 1..Len(s) : k > c => applyDelete(a, s[k]) \in A
  PROVE  FoldLeft(applyDelete, b, s) \in A
<1>1. PICK f : DeletesBy(f, b, s)
  BY DeletesFold
<1>2. Len(s) \in Nat /\ ToSet(s) \subseteq E
  BY DEF ToSet
<1>3. f[{}] \in B
  BY <1>1 DEF DeletesBy
<1>4. \A R \in SUBSET (1..Len(s)) : R # {} /\ f[R \ {Max(R)}] \in B => f[R] \in B
  BY <1>1, <1>2 DEF DeletesBy
<1>5. \A R \in SUBSET (1..Len(s)) : R # {} /\ Max(R) = c /\ f[R \ {Max(R)}] \in B => f[R] \in A
  BY <1>1 DEF DeletesBy
<1>6. \A R \in SUBSET (1..Len(s)) : R # {} /\ Max(R) > c /\ f[R \ {Max(R)}] \in A => f[R] \in A
  BY <1>1 DEF DeletesBy
<1>7. f[1..Len(s)] \in A
  BY <1>2, <1>3, <1>4, <1>5, <1>6, FoldEnters
<1> QED BY <1>1, <1>7 DEF DeletesBy

\* f folds the set operations of s, one after the other, into b.
SetsBy(f, b, s) ==
  /\ f[{}] = b /\ f[1..Len(s)] = FoldLeft(applySet, b, s)
  /\ \A R \in SUBSET (1..Len(s)) : R # {} =>
       /\ Max(R) \in 1..Len(s) /\ s[Max(R)] \in ToSet(s)
       /\ f[R] = applySet(f[R \ {Max(R)}], s[Max(R)])

\* There is such a fold.
LEMMA SetsFold ==
  ASSUME NEW A, NEW E, \A a \in A, e \in E : applySet(a, e) \in A,
         NEW s \in Seq(E), NEW b \in A
  PROVE  \E f : SetsBy(f, b, s)
<1> DEFINE n == Len(s)
           F == [p \in A \X E |-> applySet(p[1], p[2])]
           Eq(f) == f = [R \in SUBSET (1..n) |-> IF R = {} THEN b ELSE applySet(f[R \ {Max(R)}], s[Max(R)])]
           iter == CHOOSE f : Eq(f)
<1>0. n \in Nat /\ DOMAIN s = 1..n /\ \A k \in 1..n : s[k] \in E
  OBVIOUS
<1>1. \A R \in SUBSET (1..n) : R # {} =>
        /\ Max(R) \in 1..n /\ s[Max(R)] \in ToSet(s) /\ s[Max(R)] \in E /\ R \ {Max(R)} \in SUBSET (1..n)
  BY <1>0, MaxIn DEF ToSet
<1>2. \E f : Eq(f)
  <2>1. F \in [A \X E -> A]
    OBVIOUS
  <2>2. PICK f : FoldsBy(f, F, s, b) /\ \A R \in SUBSET (1..n) : f[R] \in A
    <3> HIDE DEF F
    <3> QED BY <2>1, FoldExists
  <2>3. \A R \in SUBSET (1..n) : R # {} => F[f[R \ {Max(R)}], s[Max(R)]] = applySet(f[R \ {Max(R)}], s[Max(R)])
    BY <1>1, <2>2
  <2>4. Eq(f)
    <3> HIDE DEF F
    <3> QED BY <2>2, <2>3 DEF FoldsBy
  <2> HIDE DEF Eq
  <2> QED BY <2>4
<1>3. Eq(iter)
  BY <1>2
<1>4. FoldLeft(applySet, b, s) = iter[1..n]
  BY <1>0 DEF FoldLeft, MapThenFoldSet
<1> HIDE DEF iter
<1>5. \A R \in SUBSET (1..n) : R # {} => iter[R] = applySet(iter[R \ {Max(R)}], s[Max(R)])
  BY <1>3
<1>6. iter[{}] = b
  BY <1>3
<1> QED BY <1>1, <1>4, <1>5, <1>6 DEF SetsBy

\* Stays in a set that it does not leave.
LEMMA SetsStay ==
  ASSUME NEW A, NEW E, \A a \in A, e \in E : applySet(a, e) \in A,
         NEW s \in Seq(E), NEW b \in A
  PROVE  FoldLeft(applySet, b, s) \in A
<1>1. PICK f : SetsBy(f, b, s)
  BY SetsFold
<1>2. Len(s) \in Nat /\ ToSet(s) \subseteq E
  BY DEF ToSet
<1>3. f[{}] \in A
  BY <1>1 DEF SetsBy
<1>4. \A R \in SUBSET (1..Len(s)) : R # {} /\ f[R \ {Max(R)}] \in A => f[R] \in A
  BY <1>1, <1>2 DEF SetsBy
<1>5. f[1..Len(s)] \in A
  BY <1>2, <1>3, <1>4, FoldStays
<1> QED BY <1>1, <1>5 DEF SetsBy

\* Ends in a set that one step, at c, enters and no later one leaves.
LEMMA SetsEnter ==
  ASSUME NEW B, NEW E, \A a \in B, e \in E : applySet(a, e) \in B,
         NEW s \in Seq(E), NEW b \in B, NEW A, NEW c \in 1..Len(s),
         \A a \in B : applySet(a, s[c]) \in A,
         \A a \in A, k \in 1..Len(s) : k > c => applySet(a, s[k]) \in A
  PROVE  FoldLeft(applySet, b, s) \in A
<1>1. PICK f : SetsBy(f, b, s)
  BY SetsFold
<1>2. Len(s) \in Nat /\ ToSet(s) \subseteq E
  BY DEF ToSet
<1>3. f[{}] \in B
  BY <1>1 DEF SetsBy
<1>4. \A R \in SUBSET (1..Len(s)) : R # {} /\ f[R \ {Max(R)}] \in B => f[R] \in B
  BY <1>1, <1>2 DEF SetsBy
<1>5. \A R \in SUBSET (1..Len(s)) : R # {} /\ Max(R) = c /\ f[R \ {Max(R)}] \in B => f[R] \in A
  BY <1>1 DEF SetsBy
<1>6. \A R \in SUBSET (1..Len(s)) : R # {} /\ Max(R) > c /\ f[R \ {Max(R)}] \in A => f[R] \in A
  BY <1>1 DEF SetsBy
<1>7. f[1..Len(s)] \in A
  BY <1>2, <1>3, <1>4, <1>5, <1>6, FoldEnters
<1> QED BY <1>1, <1>7 DEF SetsBy

\* f folds the operations of the rules of s, one after the other, into b.
RulesBy(f, b, s, side) ==
  /\ f[{}] = b /\ f[1..Len(s)] = ApplyAll(s, side, b)
  /\ \A R \in SUBSET (1..Len(s)) : R # {} =>
       /\ Max(R) \in 1..Len(s) /\ s[Max(R)] \in ToSet(s)
       /\ f[R] = Apply(raw[s[Max(R)]][side], f[R \ {Max(R)}])

\* There is such a fold.
LEMMA RulesFold ==
  ASSUME NEW A, NEW E, NEW side, \A a \in A, e \in E : Apply(raw[e][side], a) \in A,
         NEW s \in Seq(E), NEW b \in A
  PROVE  \E f : RulesBy(f, b, s, side)
<1> DEFINE n == Len(s)
           F == [p \in A \X E |-> Apply(raw[p[2]][side], p[1])]
           Eq(f) == f = [R \in SUBSET (1..n) |-> IF R = {} THEN b ELSE Apply(raw[s[Max(R)]][side], f[R \ {Max(R)}])]
           iter == CHOOSE f : Eq(f)
<1>0. n \in Nat /\ DOMAIN s = 1..n /\ \A k \in 1..n : s[k] \in E
  OBVIOUS
<1>1. \A R \in SUBSET (1..n) : R # {} =>
        /\ Max(R) \in 1..n /\ s[Max(R)] \in ToSet(s) /\ s[Max(R)] \in E /\ R \ {Max(R)} \in SUBSET (1..n)
  BY <1>0, MaxIn DEF ToSet
<1>2. \E f : Eq(f)
  <2>1. F \in [A \X E -> A]
    OBVIOUS
  <2>2. PICK f : FoldsBy(f, F, s, b) /\ \A R \in SUBSET (1..n) : f[R] \in A
    <3> HIDE DEF F
    <3> QED BY <2>1, FoldExists
  <2>3. \A R \in SUBSET (1..n) : R # {} => F[f[R \ {Max(R)}], s[Max(R)]] = Apply(raw[s[Max(R)]][side], f[R \ {Max(R)}])
    BY <1>1, <2>2
  <2>4. Eq(f)
    <3> HIDE DEF F
    <3> QED BY <2>2, <2>3 DEF FoldsBy
  <2> HIDE DEF Eq
  <2> QED BY <2>4
<1>3. Eq(iter)
  BY <1>2
<1>4. ApplyAll(s, side, b) = iter[1..n]
  BY <1>0 DEF ApplyAll, FoldLeft, MapThenFoldSet
<1> HIDE DEF iter
<1>5. \A R \in SUBSET (1..n) : R # {} => iter[R] = Apply(raw[s[Max(R)]][side], iter[R \ {Max(R)}])
  BY <1>3
<1>6. iter[{}] = b
  BY <1>3
<1> QED BY <1>1, <1>4, <1>5, <1>6 DEF RulesBy

\* Stays in a set that it does not leave.
LEMMA RulesStay ==
  ASSUME NEW A, NEW E, NEW side, \A a \in A, e \in E : Apply(raw[e][side], a) \in A,
         NEW s \in Seq(E), NEW b \in A
  PROVE  ApplyAll(s, side, b) \in A
<1>1. PICK f : RulesBy(f, b, s, side)
  BY RulesFold
<1>2. Len(s) \in Nat /\ ToSet(s) \subseteq E
  BY DEF ToSet
<1>3. f[{}] \in A
  BY <1>1 DEF RulesBy
<1>4. \A R \in SUBSET (1..Len(s)) : R # {} /\ f[R \ {Max(R)}] \in A => f[R] \in A
  BY <1>1, <1>2 DEF RulesBy
<1>5. f[1..Len(s)] \in A
  BY <1>2, <1>3, <1>4, FoldStays
<1> QED BY <1>1, <1>5 DEF RulesBy

\* Ends in a set that one step, at c, enters and no later one leaves.
LEMMA RulesEnter ==
  ASSUME NEW B, NEW E, NEW side, \A a \in B, e \in E : Apply(raw[e][side], a) \in B,
         NEW s \in Seq(E), NEW b \in B, NEW A, NEW c \in 1..Len(s),
         \A a \in B : Apply(raw[s[c]][side], a) \in A,
         \A a \in A, k \in 1..Len(s) : k > c => Apply(raw[s[k]][side], a) \in A
  PROVE  ApplyAll(s, side, b) \in A
<1>1. PICK f : RulesBy(f, b, s, side)
  BY RulesFold
<1>2. Len(s) \in Nat /\ ToSet(s) \subseteq E
  BY DEF ToSet
<1>3. f[{}] \in B
  BY <1>1 DEF RulesBy
<1>4. \A R \in SUBSET (1..Len(s)) : R # {} /\ f[R \ {Max(R)}] \in B => f[R] \in B
  BY <1>1, <1>2 DEF RulesBy
<1>5. \A R \in SUBSET (1..Len(s)) : R # {} /\ Max(R) = c /\ f[R \ {Max(R)}] \in B => f[R] \in A
  BY <1>1 DEF RulesBy
<1>6. \A R \in SUBSET (1..Len(s)) : R # {} /\ Max(R) > c /\ f[R \ {Max(R)}] \in A => f[R] \in A
  BY <1>1 DEF RulesBy
<1>7. f[1..Len(s)] \in A
  BY <1>2, <1>3, <1>4, <1>5, <1>6, FoldEnters
<1> QED BY <1>1, <1>7 DEF RulesBy
-------------------------------------------------------------------------------
(* Headers stay headers, and get no length that is not among C.              *)

Lengths(C) == {h \in Header : h["Content-Length"] \in Seq(C)}

\* The operations of a rule put no length but those in C into a header.
SetsOnly(ops, C) == \A k \in DOMAIN ops.Set : ops.Set[k].Name = "Content-Length" => ops.Set[k].Value \in C

\* The values that stay were there before.
LEMMA FilteredKeeps ==
  ASSUME NEW C, NEW h \in Lengths(C), NEW k, NEW re
  PROVE  filterHeaderValues(h, k, re) \in Lengths(C)
<1>1. h \in [Name -> Seq(Value)] /\ h["Content-Length"] \in Seq(C)
  BY DEF Lengths, Header
<1>2. \A n \in Name : Filter(h[n], Value \ re) \in Seq(Value)
  BY <1>1, FilterInSeq
<1>3. Filter(h["Content-Length"], Value \ re) \in Seq(C)
  BY <1>1, FilterInSeq
<1> DEFINE g == [h EXCEPT ![k] = Filter(h[k], Value \ re)]
<1>4. g \in [Name -> Seq(Value)]
  BY <1>1, <1>2
<1>5. g["Content-Length"] \in Seq(C)
  BY <1>1, <1>3, NameAssumption
<1> QED BY <1>4, <1>5 DEF Lengths, Header, filterHeaderValues

\* A delete operation brings no length that was not there.
LEMMA DeleteKeeps ==
  ASSUME NEW C, NEW h \in Lengths(C), NEW d \in DeleteOps
  PROVE  applyDelete(h, d) \in Lengths(C)
<1>1. CASE d.AnyName
  <2>1. \A n \in Name : filterHeaderValues(h, n, d.ValueRegex) \in Lengths(C)
    BY FilteredKeeps
  <2>2. \A n \in Name : filterHeaderValues(h, n, d.ValueRegex)[n] \in Seq(Value)
    BY <2>1 DEF Lengths, Header
  <2>3. filterHeaderValues(h, "Content-Length", d.ValueRegex)["Content-Length"] \in Seq(C)
    BY <2>1, NameAssumption DEF Lengths
  <2> QED BY <1>1, <2>2, <2>3, NameAssumption DEF applyDelete, Lengths, Header
<1>2. CASE ~d.AnyName /\ d.Filtered
  BY <1>2, FilteredKeeps DEF applyDelete
<1>3. CASE ~d.AnyName /\ ~d.Filtered
  <2> DEFINE g == [h EXCEPT ![d.Name] = <<>>]
  <2>1. <<>> \in Seq(Value) /\ <<>> \in Seq(C)
    OBVIOUS
  <2>2. g \in [Name -> Seq(Value)]
    BY <2>1 DEF Lengths, Header
  <2>3. g["Content-Length"] \in Seq(C)
    BY <2>1, NameAssumption DEF Lengths, Header
  <2> QED BY <1>3, <2>2, <2>3 DEF applyDelete, Del, Lengths, Header
<1> QED BY <1>1, <1>2, <1>3

\* A set operation brings no length but its own.
LEMMA SetKeeps ==
  ASSUME NEW C, NEW h \in Lengths(C), NEW s \in SetOps, s.Name = "Content-Length" => s.Value \in C
  PROVE  applySet(h, s) \in Lengths(C)
<1>1. h \in [Name -> Seq(Value)] /\ h["Content-Length"] \in Seq(C) /\ s.Name \in Name /\ s.Value \in Value
  BY DEF Lengths, Header, SetOps
<1>2. ASSUME NEW v, v \in Seq(Value), s.Name = "Content-Length" => v \in Seq(C)
      PROVE  [h EXCEPT ![s.Name] = v] \in Lengths(C)
  <2> DEFINE g == [h EXCEPT ![s.Name] = v]
  <2>1. g \in [Name -> Seq(Value)]
    BY <1>1, <1>2
  <2>2. g["Content-Length"] \in Seq(C)
    BY <1>1, <1>2, NameAssumption
  <2> QED BY <2>1, <2>2 DEF Lengths, Header
<1>3. <<s.Value>> \in Seq(Value) /\ (s.Name = "Content-Length" => <<s.Value>> \in Seq(C))
  BY <1>1
<1>4. Append(h[s.Name], s.Value) \in Seq(Value)
  BY <1>1
<1>5. s.Name = "Content-Length" => Append(h[s.Name], s.Value) \in Seq(C)
  BY <1>1
<1> QED BY <1>2, <1>3, <1>4, <1>5 DEF applySet, Set, Add

\* Nor do all operations of a rule bring any but theirs.
LEMMA ApplyKeeps ==
  ASSUME NEW C, NEW h \in Lengths(C), NEW ops \in Ops, SetsOnly(ops, C)
  PROVE  Apply(ops, h) \in Lengths(C)
<1>1. FoldLeft(applyDelete, h, ops.Delete) \in Lengths(C)
  <2>1. ops.Delete \in Seq(DeleteOps)
    BY DEF Ops
  <2>2. \A g \in Lengths(C), d \in DeleteOps : applyDelete(g, d) \in Lengths(C)
    BY DeleteKeeps
  <2> QED BY <2>1, <2>2, DeletesStay
<1> DEFINE E == {s \in SetOps : s.Name = "Content-Length" => s.Value \in C}
<1>2. ops.Set \in Seq(E)
  BY DEF Ops, SetsOnly
<1>3. \A g \in Lengths(C), s \in E : applySet(g, s) \in Lengths(C)
  BY SetKeeps
<1> HIDE DEF E
<1>4. FoldLeft(applySet, FoldLeft(applyDelete, h, ops.Delete), ops.Set) \in Lengths(C)
  BY <1>1, <1>2, <1>3, SetsStay
<1> QED BY <1>4 DEF Apply

\* The same for the operations of all rules of a list.
LEMMA ApplyAllKeeps ==
  ASSUME NEW C, NEW h \in Lengths(C), NEW side, NEW list \in Seq(Rule),
         \A k \in Rule : raw[k][side] \in Ops /\ SetsOnly(raw[k][side], C)
  PROVE  ApplyAll(list, side, h) \in Lengths(C)
<1>1. \A g \in Lengths(C), k \in Rule : Apply(raw[k][side], g) \in Lengths(C)
  BY ApplyKeeps
<1> QED BY <1>1, RulesStay

\* Every header has lengths, if any, that are values.
LEMMA AllLengths == Lengths(Value) = Header
BY NameAssumption DEF Lengths, Header

\* The global rules are rules of the configuration.
LEMMA MatchingInRule ==
  ASSUME Configured, NEW types
  PROVE  Matching(OfType(types)) \in Seq(Rule) /\ OfType(types) \in Seq(Rule)
<1>1. \A s, S : Lists(s, S) /\ S \subseteq Rule => s \in Seq(Rule)
  BY DEF Lists, ToSet
<1>2. Active(types) \subseteq Rule
  BY DEF Active
<1> DEFINE S == {k \in Rule : raw[k].enabled /\ raw[k].type \in types}
<1>3. Lists(OfType(types), S) /\ S \subseteq Rule
  BY OfTypeLists
<1>4. Lists(Matching(OfType(types)), Active(types))
  BY MatchingLists
<1> HIDE DEF S
<1> QED BY <1>1, <1>2, <1>3, <1>4

\* Everything that Run puts into a header comes from the rules.
Typed == \A k \in Rule : /\ raw[k].request \in Ops /\ raw[k].response \in Ops
                         /\ raw[k].contentType \in Value /\ Location(k) \in Value

Sources == {"none", "rule", "file", "upstream"}

Bodies == \A n \in 0..Len(raw) : \A replaced \in [1..n -> Rule] :
            \A source \in Sources : <<source, replaced>> \in Value

\* The operations on a response, global and then the rule's own.
LEMMA ResponseKeeps ==
  ASSUME Configured, Typed, ruleset = RuleSet, own \in Rule \cup {0}, NEW C, NEW h \in Lengths(C),
         \A k \in Rule : SetsOnly(raw[k].response, C)
  PROVE  Steps6And7(h) \in Lengths(C)
<1>1. Matching(ruleset.Headers) \in Seq(Rule)
  BY MatchingInRule DEF RuleSet
<1>2. ApplyAll(Matching(ruleset.Headers), "response", h) \in Lengths(C)
  <2>1. \A k \in Rule : raw[k]["response"] \in Ops /\ SetsOnly(raw[k]["response"], C)
    BY DEF Typed
  <2> QED BY <1>1, <2>1, ApplyAllKeeps
<1>3. OwnOps \in Ops /\ SetsOnly(OwnOps, C)
  <2>1. CASE own = 0
    BY <2>1 DEF OwnOps, NoOps, Ops, SetsOnly
  <2>2. CASE own # 0
    BY <2>2 DEF OwnOps, Typed
  <2> QED BY <2>1, <2>2
<1> QED BY <1>2, <1>3, ApplyKeeps DEF Steps6And7

\* An ascending list of positions has no more elements than there are positions.
LEMMA ShortList ==
  ASSUME NEW n \in Nat, NEW s \in Seq(1..n), Ascending(s)
  PROVE  Len(s) \in 0..n
<1>0. Len(s) \in Nat /\ \A a \in 1..Len(s) : s[a] \in 1..n
  OBVIOUS
<1> DEFINE W == {a \in Nat : a \in 1..Len(s) => a <= s[a]}
<1>1. 0 \in W
  OBVIOUS
<1>2. ASSUME NEW m \in Nat, m \in W PROVE m + 1 \in W
  <2> SUFFICES ASSUME m + 1 \in 1..Len(s) PROVE m + 1 <= s[m + 1]
    OBVIOUS
  <2>1. CASE m = 0
    BY <1>0, <2>1
  <2>2. CASE m # 0
    <3>1. m \in 1..Len(s) /\ m < m + 1
      BY <1>0, <2>2
    <3>2. m <= s[m] /\ s[m] < s[m + 1]
      BY <1>2, <3>1 DEF Ascending
    <3> QED BY <1>0, <3>1, <3>2
  <2> QED BY <2>1, <2>2
<1>3. Len(s) \in W
  <2> HIDE DEF W
  <2> QED BY <1>0, <1>1, <1>2, NatSet
<1>4. CASE Len(s) = 0
  BY <1>4
<1>5. CASE Len(s) # 0
  BY <1>0, <1>3, <1>5
<1> QED BY <1>4, <1>5

\* The replacements of a body are among those that Bodies is about.
LEMMA ReplacingTyped ==
  ASSUME Configured, Bodies, ruleset = RuleSet, NEW source \in Sources
  PROVE  Replacing \in Seq(Rule) /\ <<source, Replacing>> \in Value
<1> DEFINE S == {k \in Rule : raw[k].htmlOnly => \E t \in Html : IsPrefix(<<t>>, result.headers["Content-Type"])}
<1>1. Lists(Matching(OfType({"body_replace"})), Active({"body_replace"}))
  BY MatchingLists
<1>2. Replacing = Filter(Matching(OfType({"body_replace"})), S)
  BY DEF Replacing, RuleSet
<1>3. Lists(Replacing, Active({"body_replace"}) \cap S)
  <2> HIDE DEF S
  <2> QED BY <1>1, <1>2, FilterLists
<1>4. Rule = 1..Len(raw) /\ Len(raw) \in Nat
  BY DEF Configured, Rule
<1>5. Ascending(Replacing) /\ Replacing \in Seq(Rule)
  <2> HIDE DEF S
  <2>1. Active({"body_replace"}) \cap S \subseteq Rule
    BY DEF Active
  <2> QED BY <1>3, <2>1 DEF Lists, ToSet
<1>6. Len(Replacing) \in 0..Len(raw)
  BY <1>4, <1>5, ShortList
<1>7. Replacing \in [1..Len(Replacing) -> Rule]
  BY <1>5
<1> QED BY <1>5, <1>6, <1>7 DEF Bodies
-------------------------------------------------------------------------------
(* The types, and the length of the body.                                    *)

HeadersTyped == header \in Header /\ result.headers \in Header
FreshBody == pc = "replace" => result.body[1] \in Sources /\ result.body[2] = <<>>
Uncompiled == pc \in {"compile", "refused"} => ruleset = <<>>
RuleNamed == own \in Rule \cup {0} /\ remote \in Rule \cup {0}
FilesTyped == base \in Kinds /\ leaf \in Kinds /\ changes \in 0..MaxChanges
HeldTyped == held \subseteq {"request", "file", "upstream"} /\ Len(sent) <= 1

TypeInv == /\ Typed /\ Bodies
           /\ HeadersTyped /\ FreshBody /\ Uncompiled /\ RuleNamed /\ FilesTyped /\ HeldTyped

\* An answer to HEAD has the upstream's headers and no body.
NoBodyOfHead == method = "HEAD" /\ result.source = "upstream" /\ result.body = Empty

LengthInv == pc \in After \cup {"written"} /\ SetsNoLength =>
               result.headers \in Lengths({result.body}) \/ NoBodyOfHead
-------------------------------------------------------------------------------
\* There is no answer at the beginning, and headers are as the client sent them.
LEMMA TypeInit == Init => TypeInv /\ LengthInv
<1> SUFFICES ASSUME Init PROVE TypeInv /\ LengthInv
  OBVIOUS
<1>1. PICK f \in Flows : raw = f.rules
  BY DEF Init
<1>2. Typed /\ Bodies
  BY <1>1, RulesAssumption DEF Typed, Bodies, Sources, Rule
<1>3. NoHeader \in Header
  BY DEF NoHeader, Header
<1>4. HeadersTyped
  BY <1>3, HeaderAssumption DEF Init, HeadersTyped, NoResult, emptyResult, Result
<1>5. FreshBody /\ Uncompiled /\ RuleNamed /\ FilesTyped /\ HeldTyped /\ LengthInv
  BY ChangesAssumption DEF Init, FreshBody, Uncompiled, RuleNamed, FilesTyped, HeldTyped, LengthInv, After
<1> QED BY <1>2, <1>4, <1>5 DEF TypeInv

\* A body that no rule has replaced is a value, and no header holds a length.
LEMMA PlainValues ==
  ASSUME Configured, Bodies
  PROVE  /\ \A source \in Sources : <<source, <<>>>> \in Value
         /\ NoHeader \in Header /\ \A C : NoHeader \in Lengths(C)
<1>1. ASSUME NEW source \in Sources PROVE <<source, <<>>>> \in Value
  <2>1. 0 \in 0..Len(raw)
    BY DEF Configured
  <2>2. <<>> \in [1..0 -> Rule]
    OBVIOUS
  <2> QED BY <2>1, <2>2 DEF Bodies
<1>2. NoHeader \in Header /\ NoHeader["Content-Length"] = <<>>
  BY NameAssumption DEF NoHeader, Header
<1>3. \A C : <<>> \in Seq(C)
  OBVIOUS
<1> QED BY <1>1, <1>2, <1>3 DEF Lengths

\* The answers of the proxy itself.
LEMMA LocalAnswers ==
  ASSUME Configured, Typed, Bodies, NEW k \in Rule
  PROVE  /\ serveRedirect(k).headers \in Lengths({Empty}) /\ serveRedirect(k).body = Empty
         /\ serveMapped(k).headers \in Lengths({<<"rule", <<>>>>}) /\ serveMapped(k).body = <<"rule", <<>>>>
         /\ [NoHeader EXCEPT !["Content-Type"] = <<raw[k].contentType>>] \in Lengths({})
<1>0. /\ Location(k) \in Value /\ raw[k].contentType \in Value
      /\ Empty \in Value /\ <<"rule", <<>>>> \in Value
      /\ NoHeader \in [Name -> Seq(Value)] /\ \A n \in Name : NoHeader[n] = <<>>
  BY PlainValues DEF Typed, Sources, Empty, Header, NoHeader
<1>1. \A v \in Value : <<v>> \in Seq(Value)
  OBVIOUS
<1>2. serveRedirect(k).headers \in Lengths({Empty}) /\ serveRedirect(k).body = Empty
  <2> DEFINE h == [NoHeader EXCEPT !["Location"] = <<Location(k)>>, !["Content-Length"] = <<Empty>>]
  <2>1. h \in [Name -> Seq(Value)] /\ h["Content-Length"] = <<Empty>>
    BY <1>0, <1>1, NameAssumption
  <2>2. <<Empty>> \in Seq({Empty})
    OBVIOUS
  <2> QED BY <2>1, <2>2 DEF serveRedirect, Result, Lengths, Header
<1>3. serveMapped(k).headers \in Lengths({<<"rule", <<>>>>}) /\ serveMapped(k).body = <<"rule", <<>>>>
  <2> DEFINE b == <<"rule", <<>>>>
             h == [NoHeader EXCEPT !["Content-Type"] = <<raw[k].contentType>>, !["Content-Length"] = <<b>>]
  <2>1. h \in [Name -> Seq(Value)] /\ h["Content-Length"] = <<b>>
    BY <1>0, <1>1, NameAssumption
  <2>2. <<b>> \in Seq({b})
    OBVIOUS
  <2> QED BY <2>1, <2>2 DEF serveMapped, Result, Lengths, Header
<1>4. [NoHeader EXCEPT !["Content-Type"] = <<raw[k].contentType>>] \in Lengths({})
  <2> DEFINE h == [NoHeader EXCEPT !["Content-Type"] = <<raw[k].contentType>>]
  <2>1. h \in [Name -> Seq(Value)] /\ h["Content-Length"] = <<>>
    BY <1>0, <1>1, NameAssumption
  <2>2. <<>> \in Seq({})
    OBVIOUS
  <2> QED BY <2>1, <2>2 DEF Lengths, Header
<1> QED BY <1>2, <1>3, <1>4

\* Fewer lengths are lengths too.
LEMMA MoreLengths ==
  ASSUME NEW C, NEW D, C \subseteq D, NEW h \in Lengths(C)
  PROVE  h \in Lengths(D) /\ h \in Header
BY DEF Lengths

\* The header of an upstream's answer, with the length of its body.
LEMMA UpstreamAnswer ==
  ASSUME Configured, Bodies, NEW a \in Answers, NEW b, b = <<"upstream", <<>>>>
  PROVE  RemoveHopByHop([a EXCEPT !["Content-Length"] = <<b>>]) \in Lengths({b})
<1> DEFINE h == [a EXCEPT !["Content-Length"] = <<b>>]
<1>1. b \in Value
  BY PlainValues DEF Sources
<1>2. h \in [Name -> Seq(Value)] /\ h["Content-Length"] = <<b>>
  BY <1>1, HeaderAssumption, NameAssumption DEF Header
<1> HIDE DEF h
<1>3. <<>> \in Seq(Value) /\ <<>> \in Seq({b}) /\ <<b>> \in Seq({b})
  OBVIOUS
<1>4. RemoveHopByHop(h) \in [Name -> Seq(Value)]
  BY <1>2, <1>3 DEF RemoveHopByHop
<1>5. RemoveHopByHop(h)["Content-Length"] \in Seq({b})
  BY <1>2, <1>3, RemovedHopByHop, NameAssumption
<1> QED BY <1>4, <1>5 DEF Lengths, Header, h

\* A step keeps the rules and what is known of them.
LEMMA TypedKept ==
  ASSUME raw' = raw
  PROVE  (Typed' <=> Typed) /\ (Bodies' <=> Bodies) /\ (SetsNoLength' <=> SetsNoLength) /\ Rule' = Rule
BY DEF Typed, Bodies, SetsNoLength, Rule

\* A step that neither answers nor changes a header.
LEMMA TypeKept ==
  ASSUME TypeInv, LengthInv, raw' = raw, request' = request, header' = header, result' = result,
         pc' = pc \/ pc' \notin After \cup {"written"} \/ (pc = "done" /\ pc' = "written")
  PROVE  Typed' /\ Bodies' /\ HeadersTyped' /\ FreshBody' /\ LengthInv'
<1>1. Typed' /\ Bodies' /\ HeadersTyped' /\ FreshBody'
  BY TypedKept DEF TypeInv, HeadersTyped, FreshBody, After
<1>2. LengthInv'
  BY TypedKept DEF LengthInv, After, NoBodyOfHead, request
<1> QED BY <1>1, <1>2

\* The operations of a rule set values.
LEMMA SetsValues ==
  ASSUME NEW ops \in Ops
  PROVE  SetsOnly(ops, Value)
<1>1. ops.Set \in Seq(SetOps)
  BY DEF Ops
<1>2. \A k \in DOMAIN ops.Set : ops.Set[k] \in SetOps
  BY <1>1
<1> QED BY <1>2 DEF SetsOnly, SetOps

\* A step that produces a fresh answer.
LEMMA TypeAnswered ==
  ASSUME TypeInv, raw' = raw, request' = request, header' = header,
         \/ result'.headers \in Lengths({result'.body})
         \/ result'.headers \in Header /\ NoBodyOfHead',
         pc' = "replace" => result'.body[1] \in Sources /\ result'.body[2] = <<>>
  PROVE  Typed' /\ Bodies' /\ HeadersTyped' /\ FreshBody' /\ LengthInv'
<1>1. result'.headers \in Header
  BY DEF Lengths
<1>2. Typed' /\ Bodies' /\ HeadersTyped' /\ FreshBody'
  BY <1>1, TypedKept DEF TypeInv, HeadersTyped, FreshBody
<1>3. LengthInv'
  BY DEF LengthInv
<1> QED BY <1>2, <1>3

\* An empty answer of the proxy's.
LEMMA EmptyAnswer ==
  ASSUME Configured, Bodies, NEW status, NEW source, result' = emptyResult(status, source)
  PROVE  /\ result'.headers \in Lengths({result'.body})
         /\ result'.body[1] \in Sources /\ result'.body[2] = <<>>
BY PlainValues DEF emptyResult, Result, Empty, Sources

\* The headers, the body and its length.
LEMMA HeadersStep ==
  ASSUME IInv, Route, TypeInv, LengthInv, Next
  PROVE  Typed' /\ Bodies' /\ HeadersTyped' /\ FreshBody' /\ LengthInv'
<1> USE DEF Route
<1>0. raw' = raw /\ request' = request
  BY DEF Next, Run, Change, Compile, Step2, Step3, Skip, NoMapped, MatchMap, ResolveLocal, serveLocal,
         Step4, ReadBody, BuildFails, RoundTrip, Step5, Respond, Write, flow
<1>1. Typed /\ Bodies /\ header \in Header /\ result.headers \in Header
  BY DEF TypeInv, HeadersTyped
<1>2. ASSUME header' = header, Fail \/ Refuse PROVE Typed' /\ Bodies' /\ HeadersTyped' /\ FreshBody' /\ LengthInv'
  <2>1. \E status, source : result' = emptyResult(status, source)
    BY <1>2 DEF Fail, Refuse, NoResult
  <2> QED BY <1>0, <1>1, <1>2, <2>1, EmptyAnswer, TypeAnswered
<1>3. CASE Change \/ Compile \/ Skip \/ NoMapped \/ Step4 \/ Write
  <2>1. header' = header /\ result' = result
    BY <1>3 DEF Change, Compile, Skip, NoMapped, Step4, Write
  <2>2. pc' = pc \/ pc' \notin After \cup {"written"} \/ (pc = "done" /\ pc' = "written")
    BY <1>3 DEF Change, Compile, Skip, NoMapped, Step4, Write, After
  <2> QED BY <1>0, <2>1, <2>2, TypeKept
<1>4. CASE Step2
  <2>1. ruleset = RuleSet /\ result' = result /\ pc' = "redirect"
    BY <1>4 DEF Step2, Compiled
  <2>2. Matching(ruleset.Headers) \in Seq(Rule)
    BY <2>1, MatchingInRule DEF RuleSet
  <2>3. \A k \in Rule : raw[k]["request"] \in Ops /\ SetsOnly(raw[k]["request"], Value)
    <3>1. \A k \in Rule : raw[k]["request"] \in Ops
      BY <1>1 DEF Typed
    <3> QED BY <3>1, SetsValues
  <2>4. header' \in Header
    BY <1>1, <1>4, <2>2, <2>3, ApplyAllKeeps, AllLengths DEF Step2
  <2>5. Typed' /\ Bodies' /\ HeadersTyped'
    BY <1>0, <1>1, <2>1, <2>4, TypedKept DEF HeadersTyped
  <2> QED BY <2>1, <2>5 DEF FreshBody, LengthInv, After
<1>5. CASE Step3
  <2>1. ruleset = RuleSet /\ header' = header
    BY <1>5 DEF Step3, Compiled
  <2>2. CASE Rewriting = <<>>
    <3>1. result' = result /\ pc' = "mapped"
      BY <1>5, <2>2 DEF Step3
    <3> QED BY <1>0, <2>1, <3>1, TypeKept DEF After
  <2>3. CASE Rewriting # <<>>
    <3>1. Rewriting[1] \in Rule
      BY <2>1, <2>3, FirstRewriting DEF LeastOf, Redirects, Active
    <3>2. result' = serveRedirect(Rewriting[1])
      BY <1>5, <2>3 DEF Step3
    <3>3. result'.headers \in Lengths({result'.body}) /\ result'.body = Empty
      BY <1>1, <3>1, <3>2, LocalAnswers
    <3> QED BY <1>0, <2>1, <3>3, TypeAnswered DEF Empty, Sources
  <2> QED BY <2>2, <2>3
<1>6. CASE MatchMap
  <2>1. header' = header /\ result' = serveMapped(This) /\ This \in Rule
    BY <1>6, FirstMapped DEF MatchMap, LeastOf, LocalRules, Active
  <2>2. result'.headers \in Lengths({result'.body}) /\ result'.body = <<"rule", <<>>>>
    BY <1>1, <2>1, LocalAnswers
  <2> QED BY <1>0, <2>1, <2>2, TypeAnswered DEF Sources
<1>7. CASE ResolveLocal
  <2>1. header' = header
    BY <1>7 DEF ResolveLocal
  <2>2. CASE Fail \/ Refuse
    BY <1>2, <2>1, <2>2
  <2>3. CASE result' = result /\ pc' = "open"
    BY <1>0, <2>1, <2>3, TypeKept DEF After
  <2> QED BY <1>7, <2>2, <2>3 DEF ResolveLocal
<1>8. CASE serveLocal
  <2>1. header' = header /\ own \in Rule
    BY <1>8 DEF serveLocal, Stage, LeastOf, LocalRules, Active
  <2>2. CASE Fail
    BY <1>2, <2>1, <2>2
  <2>3. CASE result' = emptyResult(404, "local")
    BY <1>0, <1>1, <2>1, <2>3, EmptyAnswer, TypeAnswered
  <2>4. CASE result' = Result(200, [NoHeader EXCEPT !["Content-Type"] = <<raw[own].contentType>>],
                            <<"file", <<>>>>, "local")
    <3>1. result'.headers \in Lengths({}) /\ result'.body = <<"file", <<>>>>
      BY <1>1, <2>1, <2>4, LocalAnswers DEF Result
    <3>2. result'.headers \in Lengths({result'.body})
      BY <3>1, MoreLengths
    <3> QED BY <1>0, <2>1, <3>1, <3>2, TypeAnswered DEF Sources
  <2> QED BY <1>8, <2>2, <2>3, <2>4 DEF serveLocal
<1>9. CASE ReadBody \/ BuildFails
  <2>1. header' = header
    BY <1>9 DEF ReadBody, BuildFails
  <2>2. CASE Fail
    BY <1>2, <2>1, <2>2
  <2>3. CASE result' = emptyResult(413, "local")
    BY <1>0, <1>1, <2>1, <2>3, EmptyAnswer, TypeAnswered
  <2> QED BY <1>9, <2>2, <2>3 DEF ReadBody, BuildFails
<1>10. CASE RoundTrip
  <2>1. header' = header
    BY <1>10 DEF RoundTrip
  <2>2. CASE result' = emptyResult(502, "upstream")
    BY <1>0, <1>1, <2>1, <2>2, EmptyAnswer, TypeAnswered
  <2>3. ASSUME NEW a \in Answers, NEW b, b = <<"upstream", <<>>>>,
               result' = Result(200, RemoveHopByHop([a EXCEPT !["Content-Length"] = <<b>>]),
                                IF method = "HEAD" THEN Empty ELSE b, "upstream")
        PROVE  Typed' /\ Bodies' /\ HeadersTyped' /\ FreshBody' /\ LengthInv'
    <3>1. result'.headers \in Lengths({b}) /\ result'.source = "upstream"
      BY <1>1, <2>3, UpstreamAnswer DEF Result
    <3>2. result'.body = IF method = "HEAD" THEN Empty ELSE b
      BY <2>3 DEF Result
    <3>3. method' = method
      BY <1>0 DEF request
    <3>4. CASE method = "HEAD"
      <4>1. result'.headers \in Header /\ NoBodyOfHead'
        BY <3>1, <3>2, <3>3, <3>4, MoreLengths DEF NoBodyOfHead
      <4> QED BY <1>0, <2>1, <3>2, <3>4, <4>1, TypeAnswered DEF Empty, Sources
    <3>5. CASE method # "HEAD"
      <4>1. result'.body = b
        BY <3>2, <3>5
      <4>2. result'.headers \in Lengths({result'.body})
        BY <3>1, <4>1
      <4>3. result'.body[1] \in Sources /\ result'.body[2] = <<>>
        <5>1. b = <<"upstream", <<>>>>
          BY <2>3
        <5> QED BY <4>1, <5>1 DEF Sources
      <4> QED BY <1>0, <2>1, <4>2, <4>3, TypeAnswered
    <3> QED BY <3>4, <3>5
  <2> QED BY <1>10, <2>2, <2>3 DEF RoundTrip
<1>11. CASE Step5
  <2>1. header' = header /\ ruleset = RuleSet /\ pc = "replace"
    BY <1>11 DEF Step5, Compiled
  <2>2. CASE Fail
    BY <1>2, <2>1, <2>2
  <2>3. CASE result' = result /\ pc' = "response"
    <3>1. HeadersTyped' /\ FreshBody' /\ Typed' /\ Bodies'
      BY <1>0, <1>1, <2>1, <2>3, TypedKept DEF HeadersTyped, FreshBody
    <3>2. LengthInv'
      BY <1>0, <2>1, <2>3, TypedKept DEF LengthInv, After, NoBodyOfHead, request
    <3> QED BY <3>1, <3>2
  <2>4. ASSUME NEW body, body = <<result.body[1], result.body[2] \o Replacing>>, pc' = "response",
               result' = [result EXCEPT !.body = body, !.headers = WithLength(@, body)]
        PROVE  Typed' /\ Bodies' /\ HeadersTyped' /\ FreshBody' /\ LengthInv'
    <3>1. result.body[1] \in Sources /\ result.body[2] = <<>>
      BY <2>1 DEF TypeInv, FreshBody
    <3>2. body \in Value
      <4>1. Replacing \in Seq(Rule) /\ <<result.body[1], Replacing>> \in Value
        BY <1>1, <2>1, <3>1, ReplacingTyped
      <4>2. <<>> \o Replacing = Replacing
        BY <4>1
      <4> QED BY <2>4, <3>1, <4>1, <4>2
    <3>3. result'.body = body /\ result'.headers = [result.headers EXCEPT !["Content-Length"] = <<body>>]
      BY <2>4 DEF IInv, ResultShape, WithLength, Set
    <3>4. <<body>> \in Seq(Value) /\ <<body>> \in Seq({body})
      BY <3>2
    <3>5. result'.headers \in Lengths({result'.body})
      BY <1>1, <3>3, <3>4, NameAssumption DEF Lengths, Header
    <3> QED BY <1>0, <2>1, <2>4, <3>5, TypeAnswered
  <2> QED BY <1>11, <2>2, <2>3, <2>4 DEF Step5
<1>12. CASE Respond
  <2>1. header' = header /\ ruleset = RuleSet /\ pc = "response" /\ pc' = "done"
    BY <1>12 DEF Respond, Compiled
  <2>2. result'.headers = Steps6And7(result.headers) /\ result'.body = result.body /\ result'.source = result.source
    BY <1>12 DEF Respond, IInv, ResultShape
  <2>3. own \in Rule \cup {0}
    BY DEF TypeInv, RuleNamed
  <2>4. result'.headers \in Header
    <3>1. ASSUME NEW k \in Rule PROVE SetsOnly(raw[k].response, Value)
      BY <1>1, SetsValues DEF Typed
    <3> QED BY <1>1, <2>1, <2>2, <2>3, <3>1, ResponseKeeps, AllLengths
  <2>5. ASSUME SetsNoLength, result.headers \in Lengths({result.body})
        PROVE  result'.headers \in Lengths({result.body})
    <3>1. ASSUME NEW k \in Rule PROVE SetsOnly(raw[k].response, {result.body})
      BY <2>5 DEF SetsNoLength, SetsOnly, ToSet
    <3> QED BY <1>1, <2>1, <2>2, <2>3, <2>5, <3>1, ResponseKeeps
  <2>6. LengthInv'
    BY <1>0, <2>1, <2>2, <2>5, TypedKept DEF LengthInv, After, NoBodyOfHead, request
  <2> QED BY <1>0, <1>1, <2>1, <2>4, <2>6, TypedKept DEF HeadersTyped, FreshBody
<1> QED BY <1>3, <1>4, <1>5, <1>6, <1>7, <1>8, <1>9, <1>10, <1>11, <1>12 DEF Next, Run

\* Which rules are named, and what is compiled.
LEMMA RulesStep ==
  ASSUME IInv, Route, TypeInv, Next
  PROVE  Uncompiled' /\ RuleNamed'
<1> USE DEF Route
<1>0. Rule' = Rule
  BY DEF Next, Run, Change, Compile, Step2, Step3, Skip, NoMapped, MatchMap, ResolveLocal, serveLocal,
         Step4, ReadBody, BuildFails, RoundTrip, Step5, Respond, Write, flow, Rule
<1>1. Uncompiled'
  BY DEF Next, Run, Change, Compile, Step2, Step3, Skip, NoMapped, MatchMap, ResolveLocal, serveLocal, Fail, Refuse,
         Step4, ReadBody, BuildFails, RoundTrip, Step5, Respond, Write, flow, TypeInv, Uncompiled
<1>2. own \in Rule \cup {0} /\ remote \in Rule \cup {0}
  BY DEF TypeInv, RuleNamed
<1>3. CASE Step3
  <2>1. Rewriting # <<>> => Rewriting[1] \in Rule
    BY <1>3, FirstRewriting DEF Step3, Compiled, LeastOf, Redirects, Active
  <2> QED BY <1>0, <1>1, <1>2, <1>3, <2>1 DEF Step3, RuleNamed
<1>4. CASE MatchMap \/ ResolveLocal
  <2>1. This \in Rule
    BY <1>4, FirstMapped DEF MatchMap, ResolveLocal, LeastOf, LocalRules, Active
  <2> QED BY <1>0, <1>1, <1>2, <1>4, <2>1 DEF MatchMap, ResolveLocal, Refuse, RuleNamed
<1>5. CASE Step4
  <2>1. Remote = Matching(OfType({"map_remote"}))
    BY <1>5 DEF Remote, Step4, Compiled, RuleSet
  <2>2. Remote # <<>> => Remote[1] \in Rule
    BY <2>1, FirstMatch DEF LeastOf, Active
  <2> QED BY <1>0, <1>1, <1>2, <1>5, <2>2 DEF Step4, RuleNamed
<1>6. CASE own' = own /\ remote' = remote
  BY <1>0, <1>1, <1>2, <1>6 DEF RuleNamed
<1> QED BY <1>3, <1>4, <1>5, <1>6 DEF Next, Run, Change, Compile, Step2, Skip, NoMapped, serveLocal,
                                      ReadBody, BuildFails, RoundTrip, Step5, Respond, Write

\* The files, what is open and what is sent.
LEMMA OutsideStep ==
  ASSUME IInv, TypeInv, Next
  PROVE  FilesTyped' /\ HeldTyped'
<1>1. FilesTyped'
  <2>1. CASE Change
    BY <2>1, ChangesAssumption DEF Change, TypeInv, FilesTyped
  <2>2. CASE base' = base /\ leaf' = leaf /\ changes' = changes
    BY <2>2 DEF TypeInv, FilesTyped
  <2> QED BY <2>1, <2>2 DEF Next, Run, Compile, Step2, Step3, Skip, NoMapped, MatchMap, ResolveLocal, serveLocal,
                            Step4, ReadBody, BuildFails, RoundTrip, Step5, Respond, Write, disk
<1>2. HeldTyped'
  <2>1. held' \subseteq {"request", "file", "upstream"}
    BY DEF Next, Run, Change, Compile, Step2, Step3, Skip, NoMapped, MatchMap, ResolveLocal, serveLocal, Step4, ReadBody,
           BuildFails, RoundTrip, Step5, Respond, Write, ClosedBody, TypeInv, HeldTyped
  <2>2. CASE RoundTrip
    <3>1. sent = <<>>
      BY <2>2 DEF RoundTrip, IInv, NothingYet, Before
    <3>2. Len(sent') = 1
      BY <2>2, <3>1 DEF RoundTrip, Requests
    <3> QED BY <2>1, <3>2 DEF HeldTyped
  <2>3. CASE sent' = sent
    BY <2>1, <2>3 DEF TypeInv, HeldTyped
  <2> QED BY <2>2, <2>3 DEF Next, Run, Change, Compile, Step2, Step3, Skip, NoMapped, MatchMap, ResolveLocal, serveLocal,
                            Step4, ReadBody, BuildFails, Step5, Respond, Write
<1> QED BY <1>1, <1>2

\* All invariants hold throughout every flow.
LEMMA TypeInvariance == Spec => [](IInv /\ Route /\ TypeInv /\ LengthInv)
<1>1. IInv /\ Route /\ TypeInv /\ LengthInv /\ [Next]_vars => TypeInv' /\ LengthInv'
  <2> SUFFICES ASSUME IInv, Route, TypeInv, LengthInv, [Next]_vars PROVE TypeInv' /\ LengthInv'
    OBVIOUS
  <2>1. CASE Next
    BY <2>1, HeadersStep, RulesStep, OutsideStep DEF TypeInv
  <2>2. CASE UNCHANGED vars
    <3>1. Typed' /\ Bodies' /\ HeadersTyped' /\ FreshBody' /\ LengthInv'
      BY <2>2, TypeKept DEF vars, flow
    <3>2. Uncompiled' /\ RuleNamed' /\ FilesTyped' /\ HeldTyped'
      BY <2>2 DEF vars, flow, disk, TypeInv, Uncompiled, RuleNamed, FilesTyped, HeldTyped, Rule
    <3> QED BY <3>1, <3>2 DEF TypeInv
  <2> QED BY <2>1, <2>2
<1>2. Spec => [](IInv /\ Route)
  BY RouteInvariance
<1> QED BY <1>1, <1>2, TypeInit, PTL DEF Spec

\* Every variable keeps its type.
THEOREM TypeCorrect == Spec => []TypeOK
<1>1. IInv /\ Route /\ TypeInv => TypeOK
  <2> SUFFICES ASSUME IInv, Route, TypeInv PROVE TypeOK
    OBVIOUS
  <2>1. ruleset # <<>> => \A f \in DOMAIN ruleset : ToSet(ruleset[f]) \subseteq Rule
    <3> SUFFICES ASSUME ruleset # <<>> PROVE \A f \in DOMAIN ruleset : ToSet(ruleset[f]) \subseteq Rule
      OBVIOUS
    <3>1. ruleset = RuleSet
      BY DEF Route, Compiled, TypeInv, Uncompiled
    <3>2. \A types : ToSet(OfType(types)) \subseteq Rule
      BY OfTypeLists DEF Route, Lists
    <3> QED BY <3>1, <3>2 DEF RuleSet
  <2> QED BY <2>1 DEF TypeOK, IInv, Stages, Before, After, TypeInv, HeadersTyped, RuleNamed, FilesTyped, HeldTyped, Header
<1> QED BY <1>1, TypeInvariance, PTL

\* However the header rules and the replacements work on an answer, a
\* Content-Length in it is that of the body that goes out with it, or, to a HEAD
\* request, the upstream's.
THEOREM LengthIsOfBodyHolds == Spec => []LengthIsOfBody
<1>1. LengthInv => LengthIsOfBody
  <2> SUFFICES ASSUME LengthInv, Answered, SetsNoLength, NEW l \in ToSet(result.headers["Content-Length"])
               PROVE  l = result.body \/ NoBodyOfHead
    BY DEF LengthIsOfBody, NoBodyOfHead
  <2>1. result.headers \in Lengths({result.body}) \/ NoBodyOfHead
    BY DEF LengthInv, Answered, After
  <2>2. result.headers \in Lengths({result.body}) => l = result.body
    BY DEF Lengths, ToSet
  <2> QED BY <2>1, <2>2
<1> QED BY <1>1, TypeInvariance, PTL
-------------------------------------------------------------------------------
(* What an operation leaves of a header.                                      *)

LEMMA AppendSet ==
  ASSUME NEW T, NEW s \in Seq(T), NEW y \in T, NEW x
  PROVE  x \in ToSet(Append(s, y)) <=> x \in ToSet(s) \/ x = y
<1>1. Len(s) \in Nat /\ DOMAIN s = 1..Len(s) /\ DOMAIN Append(s, y) = 1..(Len(s) + 1)
  OBVIOUS
<1>2. Append(s, y)[Len(s) + 1] = y /\ \A k \in 1..Len(s) : Append(s, y)[k] = s[k]
  OBVIOUS
<1>3. 1..(Len(s) + 1) = 1..Len(s) \cup {Len(s) + 1}
  BY <1>1
<1> QED BY <1>1, <1>2, <1>3 DEF ToSet

\* Filter keeps what is in S.
LEMMA FilterSet ==
  ASSUME NEW T, NEW s \in Seq(T), NEW S
  PROVE  ToSet(Filter(s, S)) = ToSet(s) \cap S
<1>0. Len(s) \in Nat /\ DOMAIN s = 1..Len(s) /\ \A k \in 1..Len(s) : s[k] \in T
  OBVIOUS
<1>1. PICK g : Filtering(g, s, S) /\ g[Len(s)] = Filter(s, S)
  BY FilterSteps
<1> DEFINE Left(k) == \A x : x \in ToSet(g[k]) <=> x \in S /\ \E c \in 1..k : s[c] = x
           W == {k \in Nat : k <= Len(s) => g[k] \in Seq(T) /\ Left(k)}
<1>2. 0 \in W
  <2>1. g[0] \in Seq(T) /\ g[0] = <<>> /\ 1..0 = {}
    BY <1>1 DEF Filtering
  <2>2. ToSet(g[0]) = {}
    BY <2>1 DEF ToSet
  <2> QED BY <2>1, <2>2
<1>3. ASSUME NEW m \in Nat, m \in W PROVE m + 1 \in W
  <2> SUFFICES ASSUME m + 1 <= Len(s) PROVE g[m + 1] \in Seq(T) /\ Left(m + 1)
    OBVIOUS
  <2>1. m + 1 \in 1..Len(s) /\ (m + 1) - 1 = m /\ g[m] \in Seq(T) /\ s[m + 1] \in T /\ Left(m)
    BY <1>0, <1>3
  <2>2. g[m + 1] = IF s[m + 1] \in S THEN Append(g[m], s[m + 1]) ELSE g[m]
    BY <1>1, <2>1 DEF Filtering
  <2>3. g[m + 1] \in Seq(T)
    BY <2>1, <2>2
  <2>4. \A x : x \in ToSet(g[m + 1]) <=> x \in ToSet(g[m]) \/ (s[m + 1] \in S /\ x = s[m + 1])
    BY <2>1, <2>2, AppendSet
  <2>5. \A x : (\E c \in 1..(m + 1) : s[c] = x) <=> (\E c \in 1..m : s[c] = x) \/ x = s[m + 1]
    <3>1. 1..(m + 1) = 1..m \cup {m + 1}
      OBVIOUS
    <3> QED BY <3>1
  <2> QED BY <2>1, <2>3, <2>4, <2>5
<1>4. Len(s) \in W
  <2> HIDE DEF W
  <2> QED BY <1>0, <1>2, <1>3, NatSet
<1>5. \A x : x \in ToSet(Filter(s, S)) <=> x \in S /\ \E c \in 1..Len(s) : s[c] = x
  BY <1>0, <1>1, <1>4
<1>6. \A x : x \in ToSet(s) <=> \E c \in 1..Len(s) : s[c] = x
  BY <1>0 DEF ToSet
<1> QED BY <1>5, <1>6

\* d deletes v from the values of n.
Deleted(d, n, v) ==
  IF d.AnyName THEN v \in d.ValueRegex ELSE d.Name = n /\ (d.Filtered => v \in d.ValueRegex)

\* s puts something else in place of v.
Replaced(s, n, v) == s.Name = n /\ s.Mode = "replace" /\ s.Value # v

\* The headers with, and without, the value v of n.
Holds(n, v) == {h \in Header : v \in ToSet(h[n])}
Lacks(n, v) == {h \in Header : v \notin ToSet(h[n])}

\* A delete operation takes away the values that it is about, and no others.
LEMMA DeleteEffect ==
  ASSUME NEW h \in Header, NEW d \in DeleteOps, NEW n \in Name, NEW v
  PROVE  v \in ToSet(applyDelete(h, d)[n]) <=> v \in ToSet(h[n]) /\ ~Deleted(d, n, v)
<1>1. h[n] \in Seq(Value) /\ DOMAIN h = Name
  BY DEF Header
<1>2. ASSUME NEW re PROVE v \in ToSet(Filter(h[n], Value \ re)) <=> v \in ToSet(h[n]) /\ v \notin re
  <2>1. ToSet(Filter(h[n], Value \ re)) = ToSet(h[n]) \cap (Value \ re)
    BY <1>1, FilterSet
  <2>2. ToSet(h[n]) \subseteq Value
    BY <1>1 DEF ToSet
  <2> QED BY <2>1, <2>2
<1>3. CASE d.AnyName
  <2>1. applyDelete(h, d)[n] = Filter(h[n], Value \ d.ValueRegex)
    BY <1>1, <1>3 DEF applyDelete, filterHeaderValues
  <2> QED BY <1>2, <1>3, <2>1 DEF Deleted
<1>4. CASE ~d.AnyName /\ d.Name # n
  <2>1. applyDelete(h, d)[n] = h[n]
    BY <1>1, <1>4 DEF applyDelete, filterHeaderValues, Del
  <2> QED BY <1>4, <2>1 DEF Deleted
<1>5. CASE ~d.AnyName /\ d.Name = n /\ d.Filtered
  <2>1. applyDelete(h, d)[n] = Filter(h[n], Value \ d.ValueRegex)
    BY <1>1, <1>5 DEF applyDelete, filterHeaderValues
  <2> QED BY <1>2, <1>5, <2>1 DEF Deleted
<1>6. CASE ~d.AnyName /\ d.Name = n /\ ~d.Filtered
  <2>1. applyDelete(h, d)[n] = <<>>
    BY <1>1, <1>6 DEF applyDelete, Del
  <2>2. ToSet(<<>>) = {}
    BY DEF ToSet
  <2> QED BY <1>6, <2>1, <2>2 DEF Deleted
<1> QED BY <1>3, <1>4, <1>5, <1>6

\* A set operation puts its value there, and takes others away if it replaces.
LEMMA SetEffect ==
  ASSUME NEW h \in Header, NEW s \in SetOps, NEW n \in Name, NEW v
  PROVE  v \in ToSet(applySet(h, s)[n]) <=> \/ s.Name = n /\ s.Value = v
                                            \/ v \in ToSet(h[n]) /\ ~Replaced(s, n, v)
<1>1. h[n] \in Seq(Value) /\ DOMAIN h = Name /\ s.Value \in Value
  BY DEF Header, SetOps
<1>2. CASE s.Name # n
  <2>1. applySet(h, s)[n] = h[n]
    BY <1>1, <1>2 DEF applySet, Set, Add
  <2> QED BY <1>2, <2>1 DEF Replaced
<1>3. CASE s.Name = n /\ s.Mode = "replace"
  <2>1. applySet(h, s)[n] = <<s.Value>>
    BY <1>1, <1>3 DEF applySet, Set
  <2>2. ToSet(<<s.Value>>) = {s.Value}
    BY DEF ToSet
  <2> QED BY <1>3, <2>1, <2>2 DEF Replaced
<1>4. CASE s.Name = n /\ s.Mode # "replace"
  <2>1. applySet(h, s)[n] = Append(h[n], s.Value)
    BY <1>1, <1>4 DEF applySet, Add
  <2>2. v \in ToSet(Append(h[n], s.Value)) <=> v \in ToSet(h[n]) \/ v = s.Value
    BY <1>1, AppendSet
  <2> QED BY <1>4, <2>1, <2>2 DEF Replaced
<1> QED BY <1>2, <1>3, <1>4

\* Each operation makes a header of a header.
LEMMA HeaderStays ==
  /\ \A h \in Header, d \in DeleteOps : applyDelete(h, d) \in Header
  /\ \A h \in Header, s \in SetOps : applySet(h, s) \in Header
  /\ \A h \in Header, ops \in Ops : Apply(ops, h) \in Header
<1>1. ASSUME NEW h \in Header, NEW d \in DeleteOps PROVE applyDelete(h, d) \in Header
  BY AllLengths, DeleteKeeps
<1>2. ASSUME NEW h \in Header, NEW s \in SetOps PROVE applySet(h, s) \in Header
  <2>1. s.Value \in Value
    BY DEF SetOps
  <2> QED BY <2>1, AllLengths, SetKeeps
<1>3. ASSUME NEW h \in Header, NEW ops \in Ops PROVE Apply(ops, h) \in Header
  BY AllLengths, SetsValues, ApplyKeeps
<1> QED BY <1>1, <1>2, <1>3

\* The operations of a rule that takes v leave it.
LEMMA NotTaken ==
  ASSUME NEW n \in Name, NEW v, NEW ops \in Ops, ~Takes(ops, n, v), NEW h \in Holds(n, v)
  PROVE  Apply(ops, h) \in Holds(n, v)
<1> DEFINE D == {d \in DeleteOps : ~Deleted(d, n, v)}
           S == {s \in SetOps : ~Replaced(s, n, v)}
<1>1. ops.Delete \in Seq(D)
  <2>1. ops.Delete \in Seq(DeleteOps) /\ \A k \in DOMAIN ops.Delete : ops.Delete[k] \in D
    BY DEF Ops, Takes, Deletes, Deleted, ToSet
  <2> QED BY <2>1
<1>2. ops.Set \in Seq(S)
  <2>1. ops.Set \in Seq(SetOps) /\ \A k \in DOMAIN ops.Set : ops.Set[k] \in S
    BY DEF Ops, Takes, Replaces, Replaced, ToSet
  <2> QED BY <2>1
<1>3. \A g \in Holds(n, v), d \in D : applyDelete(g, d) \in Holds(n, v)
  BY HeaderStays, DeleteEffect DEF Holds
<1>4. \A g \in Holds(n, v), s \in S : applySet(g, s) \in Holds(n, v)
  BY HeaderStays, SetEffect DEF Holds
<1> HIDE DEF D, S
<1>5. FoldLeft(applyDelete, h, ops.Delete) \in Holds(n, v)
  BY <1>1, <1>3, DeletesStay
<1>6. FoldLeft(applySet, FoldLeft(applyDelete, h, ops.Delete), ops.Set) \in Holds(n, v)
  BY <1>2, <1>4, <1>5, SetsStay
<1> QED BY <1>6 DEF Apply

\* Those of a rule that puts v, and does not replace it, leave v there.
LEMMA PutThere ==
  ASSUME NEW n \in Name, NEW v, NEW ops \in Ops, Puts(ops, n, v), ~Replaces(ops, n, v), NEW h \in Header
  PROVE  Apply(ops, h) \in Holds(n, v)
<1> DEFINE S == {s \in SetOps : ~Replaced(s, n, v)}
           b == FoldLeft(applyDelete, h, ops.Delete)
<1>1. b \in Header
  <2>1. ops.Delete \in Seq(DeleteOps)
    BY DEF Ops
  <2>2. \A g \in Header, d \in DeleteOps : applyDelete(g, d) \in Header
    BY HeaderStays
  <2> QED BY <2>1, <2>2, DeletesStay
<1>2. ops.Set \in Seq(S)
  <2>1. ops.Set \in Seq(SetOps) /\ \A k \in DOMAIN ops.Set : ops.Set[k] \in S
    BY DEF Ops, Replaces, Replaced, ToSet
  <2> QED BY <2>1
<1>3. PICK c \in 1..Len(ops.Set) : ops.Set[c].Name = n /\ ops.Set[c].Value = v
  BY <1>2 DEF Puts, ToSet
<1>4. \A g \in Header, s \in S : applySet(g, s) \in Header
  BY HeaderStays
<1>5. \A k \in 1..Len(ops.Set) : ops.Set[k] \in S /\ ops.Set[k] \in SetOps
  BY <1>2
<1>6. \A g \in Header : applySet(g, ops.Set[c]) \in Holds(n, v)
  BY <1>3, <1>5, HeaderStays, SetEffect DEF Holds
<1>7. \A g \in Holds(n, v), s \in S : applySet(g, s) \in Holds(n, v)
  BY HeaderStays, SetEffect DEF Holds
<1> HIDE DEF S, b
<1>8. \A g \in Holds(n, v), k \in 1..Len(ops.Set) : k > c => applySet(g, ops.Set[k]) \in Holds(n, v)
  BY <1>5, <1>7
<1>9. FoldLeft(applySet, b, ops.Set) \in Holds(n, v)
  BY <1>1, <1>2, <1>4, <1>6, <1>8, SetsEnter
<1> QED BY <1>9 DEF Apply, b

\* Those of a rule that does not put v do not bring it.
LEMMA NotPut ==
  ASSUME NEW n \in Name, NEW v, NEW ops \in Ops, ~Puts(ops, n, v), NEW h \in Lacks(n, v)
  PROVE  Apply(ops, h) \in Lacks(n, v)
<1> DEFINE S == {s \in SetOps : ~(s.Name = n /\ s.Value = v)}
<1>1. ops.Delete \in Seq(DeleteOps)
  BY DEF Ops
<1>2. ops.Set \in Seq(S)
  <2>1. ops.Set \in Seq(SetOps) /\ \A k \in DOMAIN ops.Set : ops.Set[k] \in S
    BY DEF Ops, Puts, ToSet
  <2> QED BY <2>1
<1>3. \A g \in Lacks(n, v), d \in DeleteOps : applyDelete(g, d) \in Lacks(n, v)
  BY HeaderStays, DeleteEffect DEF Lacks
<1>4. \A g \in Lacks(n, v), s \in S : applySet(g, s) \in Lacks(n, v)
  BY HeaderStays, SetEffect DEF Lacks
<1> HIDE DEF S
<1>5. FoldLeft(applyDelete, h, ops.Delete) \in Lacks(n, v)
  BY <1>1, <1>3, DeletesStay
<1>6. FoldLeft(applySet, FoldLeft(applyDelete, h, ops.Delete), ops.Set) \in Lacks(n, v)
  BY <1>2, <1>4, <1>5, SetsStay
<1> QED BY <1>6 DEF Apply

\* Those of a rule that deletes v, and does not put it, leave none of it.
LEMMA TakenAway ==
  ASSUME NEW n \in Name, NEW v, NEW ops \in Ops, Deletes(ops, n, v), ~Puts(ops, n, v), NEW h \in Header
  PROVE  Apply(ops, h) \in Lacks(n, v)
<1> DEFINE S == {s \in SetOps : ~(s.Name = n /\ s.Value = v)}
<1>1. ops.Delete \in Seq(DeleteOps)
  BY DEF Ops
<1>2. ops.Set \in Seq(S)
  <2>1. ops.Set \in Seq(SetOps) /\ \A k \in DOMAIN ops.Set : ops.Set[k] \in S
    BY DEF Ops, Puts, ToSet
  <2> QED BY <2>1
<1>3. PICK c \in 1..Len(ops.Delete) : Deleted(ops.Delete[c], n, v)
  BY <1>1 DEF Deletes, Deleted, ToSet
<1>4. \A g \in Header, d \in DeleteOps : applyDelete(g, d) \in Header
  BY HeaderStays
<1>5. \A k \in 1..Len(ops.Delete) : ops.Delete[k] \in DeleteOps
  BY <1>1
<1>6. \A g \in Header : applyDelete(g, ops.Delete[c]) \in Lacks(n, v)
  BY <1>3, <1>5, HeaderStays, DeleteEffect DEF Lacks
<1>7. \A g \in Lacks(n, v), k \in 1..Len(ops.Delete) : k > c => applyDelete(g, ops.Delete[k]) \in Lacks(n, v)
  BY <1>5, HeaderStays, DeleteEffect DEF Lacks
<1>8. FoldLeft(applyDelete, h, ops.Delete) \in Lacks(n, v)
  BY <1>1, <1>4, <1>6, <1>7, DeletesEnter
<1>9. \A g \in Lacks(n, v), s \in S : applySet(g, s) \in Lacks(n, v)
  BY HeaderStays, SetEffect DEF Lacks
<1> HIDE DEF S
<1>10. FoldLeft(applySet, FoldLeft(applyDelete, h, ops.Delete), ops.Set) \in Lacks(n, v)
  BY <1>2, <1>8, <1>9, SetsStay
<1> QED BY <1>10 DEF Apply
-------------------------------------------------------------------------------
(* The rules, one after the other.                                           *)

\* What rule k leaves there, or leaves away, and no later rule of the list
\* undoes, is so in the end.
LEMMA RuleLasts ==
  ASSUME NEW side, NEW list \in Seq(Rule), Ascending(list), NEW k \in ToSet(list),
         \A l \in Rule : raw[l][side] \in Ops, NEW h \in Header, NEW A,
         \A g \in Header : Apply(raw[k][side], g) \in A,
         \A l \in ToSet(list) : l > k => \A g \in A : Apply(raw[l][side], g) \in A
  PROVE  ApplyAll(list, side, h) \in A
<1>1. PICK c \in 1..Len(list) : list[c] = k
  BY DEF ToSet
<1>2. \A g \in Header, l \in Rule : Apply(raw[l][side], g) \in Header
  BY HeaderStays
<1>3. \A a \in 1..Len(list) : a > c => list[a] > k /\ list[a] \in ToSet(list)
  BY <1>1 DEF Ascending, ToSet
<1>4. \A g \in Header : Apply(raw[list[c]][side], g) \in A
  BY <1>1
<1>5. \A g \in A, a \in 1..Len(list) : a > c => Apply(raw[list[a]][side], g) \in A
  BY <1>3
<1> QED BY <1>2, <1>4, <1>5, RulesEnter

\* The matching header rules, in file order.
HeaderRules == Matching(OfType({"header"}))

\* They are rules of the configuration, and in file order.
LEMMA HeaderRulesListed ==
  ASSUME Configured
  PROVE  HeaderRules \in Seq(Rule) /\ Ascending(HeaderRules) /\ ToSet(HeaderRules) = Active({"header"})
BY MatchingInRule, MatchingLists DEF HeaderRules, Lists

\* What a header rule puts there.
LEMMA HeaderRulePuts ==
  ASSUME Configured, NEW side, \A l \in Rule : raw[l][side] \in Ops, NEW h \in Header,
         NEW k \in Active({"header"}), NEW n \in Name, NEW v,
         Puts(raw[k][side], n, v), ~Replaces(raw[k][side], n, v),
         \A l \in Active({"header"}) : l > k => ~Takes(raw[l][side], n, v)
  PROVE  ApplyAll(HeaderRules, side, h) \in Holds(n, v)
<1>1. \A l \in Active({"header"}) : l \in Rule
  BY DEF Active
<1>2. \A g \in Header : Apply(raw[k][side], g) \in Holds(n, v)
  BY <1>1, PutThere
<1>3. \A l \in Active({"header"}) : l > k => \A g \in Holds(n, v) : Apply(raw[l][side], g) \in Holds(n, v)
  BY <1>1, NotTaken
<1> QED BY <1>2, <1>3, HeaderRulesListed, RuleLasts

\* What a header rule deletes.
LEMMA HeaderRuleDeletes ==
  ASSUME Configured, NEW side, \A l \in Rule : raw[l][side] \in Ops, NEW h \in Header,
         NEW k \in Active({"header"}), NEW n \in Name, NEW v,
         Deletes(raw[k][side], n, v), ~Puts(raw[k][side], n, v),
         \A l \in Active({"header"}) : l > k => ~Puts(raw[l][side], n, v)
  PROVE  ApplyAll(HeaderRules, side, h) \in Lacks(n, v)
<1>1. \A l \in Active({"header"}) : l \in Rule
  BY DEF Active
<1>2. \A g \in Header : Apply(raw[k][side], g) \in Lacks(n, v)
  BY <1>1, TakenAway
<1>3. \A l \in Active({"header"}) : l > k => \A g \in Lacks(n, v) : Apply(raw[l][side], g) \in Lacks(n, v)
  BY <1>1, NotPut
<1> QED BY <1>2, <1>3, HeaderRulesListed, RuleLasts

\* They make a header of a header.
LEMMA HeaderRulesStay ==
  ASSUME Configured, NEW side, \A l \in Rule : raw[l][side] \in Ops, NEW h \in Header
  PROVE  ApplyAll(HeaderRules, side, h) \in Header
<1>1. \A g \in Header, l \in Rule : Apply(raw[l][side], g) \in Header
  BY HeaderStays
<1> QED BY <1>1, HeaderRulesListed, RulesStay

\* On a request nothing comes after the header rules.
LEMMA RequestLasts ==
  ASSUME Configured, Typed, NEW h \in Header, NEW n \in Name
  PROVE  Lasting(ApplyAll(HeaderRules, "request", h), "request", 0, n)
<1> DEFINE g == ApplyAll(HeaderRules, "request", h)
<1>1. \A l \in Rule : raw[l]["request"] \in Ops
  BY DEF Typed
<1>2. \A k \in Active({"header"}) : k # 0 /\ Later(k, 0) = {l \in Active({"header"}) : l > k}
  BY DEF Active, Configured, Rule, Later
<1>3. ASSUME NEW k \in Active({"header"}), NEW s \in ToSet(raw[k]["request"].Set), s.Name = n,
             ~Replaces(raw[k]["request"], n, s.Value),
             \A l \in Later(k, 0) : ~Takes(raw[l]["request"], n, s.Value)
      PROVE  s.Value \in ToSet(g[n])
  <2>1. Puts(raw[k]["request"], n, s.Value)
    BY <1>3 DEF Puts
  <2>2. g \in Holds(n, s.Value)
    BY <1>1, <1>2, <1>3, <2>1, HeaderRulePuts
  <2> QED BY <2>2 DEF Holds
<1>4. ASSUME NEW k \in Active({"header"}), NEW v \in ToSet(g[n]), Deletes(raw[k]["request"], n, v),
             \A l \in {k} \cup Later(k, 0) : ~Puts(raw[l]["request"], n, v)
      PROVE  FALSE
  <2>1. g \in Lacks(n, v)
    BY <1>1, <1>2, <1>4, HeaderRuleDeletes
  <2> QED BY <2>1 DEF Lacks
<1> HIDE DEF g
<1>5. Lasting(g, "request", 0, n)
  BY <1>3, <1>4 DEF Lasting
<1> QED BY <1>5 DEF g

\* On an answer the operations of the rule that gives it do.
LEMMA ResponseLasts ==
  ASSUME Configured, Typed, ruleset = RuleSet, own \in Rule \cup {0}, NEW h \in Header, NEW n \in Name
  PROVE  Lasting(Steps6And7(h), "response", own, n)
<1> DEFINE g == ApplyAll(HeaderRules, "response", h)
           r == Steps6And7(h)
<1>0. r = Apply(OwnOps, g)
  BY DEF Steps6And7, RuleSet, HeaderRules
<1>1. \A l \in Rule : raw[l]["response"] \in Ops
  BY DEF Typed
<1>2. g \in Header
  BY <1>1, HeaderRulesStay
<1>3. OwnOps \in Ops /\ (own # 0 => OwnOps = raw[own]["response"])
      /\ \A v : own = 0 => ~Takes(OwnOps, n, v) /\ ~Puts(OwnOps, n, v)
  <2>1. CASE own = 0
    BY <2>1 DEF OwnOps, NoOps, Ops, Takes, Deletes, Replaces, Puts, ToSet
  <2>2. CASE own # 0
    BY <1>1, <2>2 DEF OwnOps
  <2> QED BY <2>1, <2>2
<1>4. \A k \in Active({"header"}) : k # 0 /\ (k # own => Later(k, own) = {l \in Active({"header"}) : l > k} \cup ({own} \ {0}))
  BY DEF Active, Configured, Rule, Later
<1>5. ASSUME NEW k \in Active({"header"}) \cup ({own} \ {0}), NEW s \in ToSet(raw[k]["response"].Set), s.Name = n,
             ~Replaces(raw[k]["response"], n, s.Value),
             \A l \in Later(k, own) : ~Takes(raw[l]["response"], n, s.Value)
      PROVE  s.Value \in ToSet(r[n])
  <2>1. Puts(raw[k]["response"], n, s.Value)
    BY <1>5 DEF Puts
  <2>2. CASE k = own
    <3>1. own # 0 /\ OwnOps = raw[k]["response"]
      BY <1>3, <1>4, <1>5, <2>2
    <3>2. Apply(OwnOps, g) \in Holds(n, s.Value)
      BY <1>2, <1>3, <1>5, <2>1, <3>1, PutThere
    <3> QED BY <1>0, <3>2 DEF Holds
  <2>3. CASE k # own
    <3>1. k \in Active({"header"}) /\ \A l \in Active({"header"}) : l > k => ~Takes(raw[l]["response"], n, s.Value)
      BY <1>4, <1>5, <2>3
    <3>2. g \in Holds(n, s.Value)
      BY <1>1, <1>5, <2>1, <3>1, HeaderRulePuts
    <3>3. ~Takes(OwnOps, n, s.Value)
      BY <1>3, <1>4, <1>5, <2>3, <3>1
    <3>4. Apply(OwnOps, g) \in Holds(n, s.Value)
      BY <1>3, <3>2, <3>3, NotTaken
    <3> QED BY <1>0, <3>4 DEF Holds
  <2> QED BY <2>2, <2>3
<1>6. ASSUME NEW k \in Active({"header"}) \cup ({own} \ {0}), NEW v \in ToSet(r[n]), Deletes(raw[k]["response"], n, v),
             \A l \in {k} \cup Later(k, own) : ~Puts(raw[l]["response"], n, v)
      PROVE  FALSE
  <2>1. CASE k = own
    <3>1. own # 0 /\ OwnOps = raw[k]["response"]
      BY <1>3, <1>4, <2>1
    <3>2. Apply(OwnOps, g) \in Lacks(n, v)
      BY <1>2, <1>3, <1>6, <3>1, TakenAway
    <3> QED BY <1>0, <3>2 DEF Lacks
  <2>2. CASE k # own
    <3>1. k \in Active({"header"}) /\ \A l \in Active({"header"}) : l > k => ~Puts(raw[l]["response"], n, v)
      BY <1>4, <1>6, <2>2
    <3>2. g \in Lacks(n, v)
      BY <1>1, <1>2, <1>6, <3>1, HeaderRuleDeletes
    <3>3. ~Puts(OwnOps, n, v)
      BY <1>3, <1>4, <1>6, <2>2, <3>1
    <3>4. Apply(OwnOps, g) \in Lacks(n, v)
      BY <1>3, <3>2, <3>3, NotPut
    <3> QED BY <1>0, <3>4 DEF Lacks
  <2> QED BY <2>1, <2>2
<1> HIDE DEF g, r
<1>7. Lasting(r, "response", own, n)
  BY <1>5, <1>6 DEF Lasting
<1> QED BY <1>7 DEF r
-------------------------------------------------------------------------------
(* The header rules through a flow.                                          *)

RequestDone == \A n \in Name : Lasting(header, "request", 0, n)
ResponseDone == \A n \in Name : Lasting(result.headers, "response", own, n)

HeaderInv == /\ pc \notin {"compile", "refused", "request"} => RequestDone
             /\ Responded /\ result.status \notin {403, 500} => ResponseDone

\* What a step does to the request's header, seen after it.
LEMMA RequestSeen ==
  ASSUME raw' = raw, request' = request, \A n \in Name : Lasting(header', "request", 0, n)
  PROVE  RequestDone'
<1>1. Active({"header"})' = Active({"header"})
  BY SameRules DEF Active, Rule
<1> QED BY <1>1 DEF RequestDone, Lasting, Later

\* What a step does to the answer's header, seen after it.
LEMMA ResponseSeen ==
  ASSUME raw' = raw, request' = request, own' = own,
         \A n \in Name : Lasting(result'.headers, "response", own, n)
  PROVE  ResponseDone'
<1>1. Active({"header"})' = Active({"header"})
  BY SameRules DEF Active, Rule
<1> QED BY <1>1 DEF ResponseDone, Lasting, Later

\* The header rules work where the header is made, and nobody changes it afterwards.
LEMMA HeaderInvStep ==
  ASSUME IInv, Route, TypeInv, HeaderInv, [Next]_vars
  PROVE  HeaderInv'
<1> USE DEF Route
<1>0. /\ raw' = raw /\ request' = request /\ Configured /\ Typed
      /\ header \in Header /\ result.headers \in Header /\ own \in Rule \cup {0}
  BY DEF Next, Run, Change, Compile, Step2, Step3, Skip, NoMapped, MatchMap, ResolveLocal, serveLocal,
         Step4, ReadBody, BuildFails, RoundTrip, Step5, Respond, Write, flow, vars, TypeInv, HeadersTyped, RuleNamed
<1>1. pc' \notin {"compile", "refused", "request"} => RequestDone'
  <2>1. CASE Step2
    <3>1. ruleset = RuleSet
      BY <2>1 DEF Step2, Compiled
    <3>2. header' = ApplyAll(HeaderRules, "request", header)
      BY <2>1, <3>1 DEF Step2, HeaderRules, RuleSet
    <3> QED BY <1>0, <3>2, RequestLasts, RequestSeen
  <2>2. CASE header' = header /\ (pc' \notin {"compile", "refused", "request"} =>
                                  pc \notin {"compile", "refused", "request"})
    BY <1>0, <2>2, RequestSeen DEF HeaderInv, RequestDone
  <2> QED BY <2>1, <2>2 DEF Next, Run, Change, Compile, Step3, Skip, NoMapped, MatchMap, ResolveLocal, serveLocal,
                            Step4, ReadBody, BuildFails, RoundTrip, Step5, Respond, Write, vars
<1>2. Responded' /\ result'.status \notin {403, 500} => ResponseDone'
  <2>1. CASE Respond
    <3>1. ruleset = RuleSet /\ own' = own
      BY <2>1 DEF Respond, Compiled
    <3>2. result'.headers = Steps6And7(result.headers)
      BY <2>1 DEF Respond, IInv, ResultShape
    <3> QED BY <1>0, <3>1, <3>2, ResponseLasts, ResponseSeen
  <2>2. CASE result' = result /\ own' = own /\ (Responded' => Responded)
    BY <1>0, <2>2, ResponseSeen DEF HeaderInv, ResponseDone
  <2>3. CASE result'.status \in {403, 500} \/ ~Responded'
    BY <2>3
  <2>4. ASSUME Refuse \/ Fail PROVE result'.status \in {403, 500}
    BY <2>4 DEF Refuse, Fail, emptyResult, Result
  <2> QED BY <2>1, <2>2, <2>3, <2>4 DEF Next, Run, Change, Compile, Step2, Step3, Skip, NoMapped, MatchMap, ResolveLocal,
                serveLocal, Step4, ReadBody, BuildFails, RoundTrip, Step5, Write, vars, Answered, Responded
<1> QED BY <1>1, <1>2 DEF HeaderInv

\* Every matching header rule works on the request that goes upstream and on the
\* answer, in file order: what it sets is there and what it deletes is not, but
\* for what a later rule, on an answer at last the one that gives it, undoes.  Of
\* the 403 of a map_local rule and the 500 for an error of Run it says nothing.
THEOREM HeaderRulesAppliedHolds == Spec => []HeaderRulesApplied
<1>1. Init => HeaderInv
  BY DEF Init, HeaderInv, Answered, Responded
<1>2. Spec => [](IInv /\ Route /\ TypeInv)
  BY TypeInvariance, PTL
<1>3. IInv /\ Route /\ TypeInv /\ HeaderInv => HeaderRulesApplied
  <2> SUFFICES ASSUME IInv, TypeInv, HeaderInv PROVE HeaderRulesApplied
    OBVIOUS
  <2>1. ASSUME NEW k \in DOMAIN sent, NEW n \in Name \ HopByHop(header)
        PROVE  Lasting(sent[k].header, "request", 0, n)
    <3>1. sent # <<>> => RequestDone
      BY DEF IInv, NothingYet, Before, HeaderInv
    <3>2. Lasting(header, "request", 0, n)
      BY <3>1 DEF RequestDone
    <3>3. sent[k].header[n] = header[n]
      BY DEF IInv, SentIsClean, OutHeader, RemoveHopByHop
    <3> QED BY <3>2, <3>3 DEF Lasting
  <2> QED BY <2>1 DEF HeaderRulesApplied, HeaderInv, ResponseDone
<1> QED BY <1>1, <1>2, <1>3, HeaderInvStep, PTL DEF Spec
-------------------------------------------------------------------------------
(* Where a rule sends a flow.  Folds over sequences, one element at a time.  *)

\* Induction over sequences, for a set.
LEMMA SeqSet ==
  ASSUME NEW E, NEW S, <<>> \in S, \A s \in Seq(E) : s \in S => \A x \in E : Append(s, x) \in S
  PROVE  Seq(E) \subseteq S
<1> DEFINE W == {n \in Nat : \A s \in Seq(E) : Len(s) = n => s \in S}
<1>1. 0 \in W
  OBVIOUS
<1>2. ASSUME NEW n \in Nat, n \in W PROVE n + 1 \in W
  <2> SUFFICES ASSUME NEW s \in Seq(E), Len(s) = n + 1 PROVE s \in S
    OBVIOUS
  <2> DEFINE r == SubSeq(s, 1, n)
  <2>1. r \in Seq(E) /\ Len(r) = n /\ s[n + 1] \in E /\ s = Append(r, s[n + 1])
    OBVIOUS
  <2> HIDE DEF r
  <2>2. r \in S
    BY <1>2, <2>1
  <2> QED BY <2>1, <2>2
<1> HIDE DEF W
<1>3. Nat \subseteq W
  BY <1>1, <1>2, NatSet
<1> QED BY <1>3 DEF W

\* A sequence of fewer values is one of more.
LEMMA SeqIn == ASSUME NEW E, NEW T, E \subseteq T PROVE Seq(E) \subseteq Seq(T)
  OBVIOUS

\* g[k] is what F makes of b and the first k elements of s.
StepsBy(g, F, s, b) == g[0] = b /\ \A k \in 1..Len(s) : g[k] = F[g[k - 1], s[k]]

\* On values in A, the fold of s is the one by F.
FoldsIn(it, F, A, s, b) ==
  /\ it[{}] = b
  /\ \A R \in SUBSET (1..Len(s)) : R # {} /\ it[R \ {Max(R)}] \in A =>
       it[R] = F[it[R \ {Max(R)}], s[Max(R)]]

Stepwise(it, n) == [k \in 0..n |-> it[1..k]]

\* Such a fold takes the steps of F.
LEMMA FoldSteps ==
  ASSUME NEW A, NEW E, NEW F \in [A \X E -> A], NEW s \in Seq(E), NEW b \in A,
         NEW it, FoldsIn(it, F, A, s, b)
  PROVE  StepsBy(Stepwise(it, Len(s)), F, s, b)
<1> DEFINE n == Len(s)
           g == [k \in 0..n |-> it[1..k]]
           W == {k \in Nat : k <= n => g[k] \in A}
<1>0. n \in Nat /\ \A k \in 1..n : s[k] \in E
  OBVIOUS
<1>1. g[0] = b
  <2>1. g[0] = it[{}]
    BY <1>0, InitialRanges
  <2> QED BY <2>1 DEF FoldsIn
<1>2. ASSUME NEW k \in 1..n, g[k - 1] \in A PROVE g[k] = F[g[k - 1], s[k]]
  <2>0. /\ 1..k \in SUBSET (1..n) /\ 1..k # {}
        /\ Max(1..k) = k /\ (1..k) \ {k} = 1..(k - 1)
    BY <1>0, InitialRanges
  <2>1. g[k] = it[1..k] /\ g[k - 1] = it[1..(k - 1)]
    <3>1. k \in 0..n /\ k - 1 \in 0..n
      BY <1>0
    <3> QED BY <3>1
  <2> HIDE DEF g
  <2>2. it[1..k] = F[it[1..(k - 1)], s[k]]
    BY <1>2, <2>0, <2>1 DEF FoldsIn
  <2> QED BY <2>1, <2>2
<1> HIDE DEF g
<1>3. 0 \in W
  BY <1>1
<1>4. ASSUME NEW m \in Nat, m \in W PROVE m + 1 \in W
  <2> SUFFICES ASSUME m + 1 <= n PROVE g[m + 1] \in A
    OBVIOUS
  <2>1. m + 1 \in 1..n /\ (m + 1) - 1 = m /\ g[m] \in A
    BY <1>0, <1>4
  <2>2. g[m + 1] = F[g[m], s[m + 1]] /\ s[m + 1] \in E
    BY <1>0, <1>2, <2>1
  <2> QED BY <2>1, <2>2
<1> HIDE DEF W
<1>5. Nat \subseteq W
  BY <1>3, <1>4, NatSet
<1>6. ASSUME NEW k \in 1..n PROVE g[k - 1] \in A
  <2>1. k - 1 \in Nat /\ k - 1 <= n
    BY <1>0
  <2> QED BY <1>5, <2>1 DEF W
<1>7. StepsBy(g, F, s, b)
  BY <1>1, <1>2, <1>6 DEF StepsBy
<1> QED BY <1>7 DEF g, Stepwise

\* h goes on from where g ends by one step, for x.
NextStep(h, g, F, s, x, A) == g[Len(s)] \in A /\ h[Len(s) + 1] = F[g[Len(s)], x]

\* The steps of a sequence with one more element take one more step.
LEMMA StepsAppend ==
  ASSUME NEW A, NEW E, NEW F \in [A \X E -> A], NEW s \in Seq(E), NEW x \in E, NEW b \in A,
         NEW g, NEW h, StepsBy(g, F, s, b), StepsBy(h, F, Append(s, x), b)
  PROVE  NextStep(h, g, F, s, x, A)
<1> DEFINE n == Len(s)
           W == {k \in Nat : k <= n => g[k] \in A /\ h[k] = g[k]}
<1>0. /\ n \in Nat /\ Len(Append(s, x)) = n + 1 /\ Append(s, x)[n + 1] = x
      /\ \A k \in 1..n : s[k] \in E /\ Append(s, x)[k] = s[k] /\ k \in 1..(n + 1)
  OBVIOUS
<1>1. 0 \in W
  BY DEF StepsBy
<1>2. ASSUME NEW m \in Nat, m \in W PROVE m + 1 \in W
  <2> SUFFICES ASSUME m + 1 <= n PROVE g[m + 1] \in A /\ h[m + 1] = g[m + 1]
    OBVIOUS
  <2>1. g[m] \in A /\ h[m] = g[m]
    BY <1>0, <1>2
  <2>2. m + 1 \in 1..n /\ (m + 1) - 1 = m
    BY <1>0
  <2>3. g[m + 1] = F[g[m], s[m + 1]]
    BY <2>2 DEF StepsBy
  <2>4. h[m + 1] = F[h[m], s[m + 1]]
    BY <1>0, <2>2 DEF StepsBy
  <2> QED BY <1>0, <2>1, <2>2, <2>3, <2>4
<1> HIDE DEF W
<1>3. n \in W
  BY <1>0, <1>1, <1>2, NatSet
<1>4. g[n] \in A /\ h[n] = g[n]
  BY <1>0, <1>3 DEF W
<1>5. n + 1 \in 1..(n + 1) /\ (n + 1) - 1 = n
  BY <1>0
<1> QED BY <1>0, <1>4, <1>5 DEF StepsBy, NextStep

\* A slash begins a name, any other token goes on with the last one.
SegmentStep(T) == [q \in (Seq(Seq(T)) \ {<<>>}) \X T |-> IF q[2] = "/" THEN Append(q[1], <<>>)
                  ELSE [q[1] EXCEPT ![Len(q[1])] = Append(@, q[2])]]

\* Segments takes these steps.
LEMMA SegmentsFold ==
  ASSUME NEW T, NEW s \in Seq(T)
  PROVE  /\ SegmentStep(T) \in [(Seq(Seq(T)) \ {<<>>}) \X T -> (Seq(Seq(T)) \ {<<>>})] /\ <<<<>>>> \in (Seq(Seq(T)) \ {<<>>})
         /\ \E g : StepsBy(g, SegmentStep(T), s, <<<<>>>>) /\ g[Len(s)] = Segments(s)
<1> DEFINE n == Len(s)
           A == (Seq(Seq(T)) \ {<<>>})
           F == SegmentStep(T)
           E == T
           B == <<<<>>>>
           Op(a, t) == IF t = "/" THEN Append(a, <<>>) ELSE [a EXCEPT ![Len(a)] = Append(@, t)]
           Eq(f) == f = [R \in SUBSET (1..n) |-> IF R = {} THEN B ELSE Op(f[R \ {Max(R)}], s[Max(R)])]
           it == CHOOSE f : Eq(f)
<1>0. n \in Nat /\ DOMAIN s = 1..n /\ s \in Seq(E) /\ (\A k \in 1..n : s[k] \in E) /\ B \in A
  OBVIOUS
<1>1. ASSUME NEW a \in A, NEW t \in E PROVE Op(a, t) \in A /\ F[<<a, t>>] = Op(a, t)
  <2>1. a \in Seq(Seq(T)) /\ Len(a) \in 1..Len(a) /\ t \in T /\ a[Len(a)] \in Seq(T)
    OBVIOUS
  <2>2. Append(a, <<>>) \in A
    OBVIOUS
  <2>3. Append(a[Len(a)], t) \in Seq(T)
    BY <2>1
  <2>4. [a EXCEPT ![Len(a)] = Append(@, t)] \in A
    BY <2>1, <2>3
  <2>5. F[<<a, t>>] = Op(a, t)
    BY DEF SegmentStep
  <2> QED BY <2>2, <2>4, <2>5
<1>2. F \in [A \X E -> A]
  <2>1. \A q \in A \X E : F[q] \in A
    <3> HIDE DEF A, E, F, Op
    <3> QED BY <1>1
  <2> QED BY <2>1 DEF SegmentStep
<1> HIDE DEF A, E, F, Op
<1>3. ASSUME NEW R \in SUBSET (1..n), R # {}
      PROVE  Max(R) \in 1..n /\ R \ {Max(R)} \in SUBSET (1..n) /\ s[Max(R)] \in E
  BY <1>0, <1>3, MaxIn
<1>4. \E f : Eq(f)
  <2>1. PICK f : FoldsBy(f, F, s, B) /\ \A R \in SUBSET (1..n) : f[R] \in A
    BY <1>0, <1>2, FoldExists
  <2>2. ASSUME NEW R \in SUBSET (1..n), R # {}
        PROVE  F[f[R \ {Max(R)}], s[Max(R)]] = Op(f[R \ {Max(R)}], s[Max(R)])
    BY <1>1, <1>3, <2>1, <2>2
  <2>3. Eq(f)
    BY <2>1, <2>2 DEF FoldsBy
  <2> HIDE DEF Eq
  <2> QED BY <2>3
<1>5. Eq(it)
  BY <1>4
<1>6. Segments(s) = it[1..n]
  BY <1>0 DEF Segments, FoldLeft, MapThenFoldSet, Op
<1> HIDE DEF it, B
<1>7. FoldsIn(it, F, A, s, B)
  <2>1. {} \in SUBSET (1..n)
    OBVIOUS
  <2>2. it[{}] = B
    BY <1>5, <2>1
  <2>3. ASSUME NEW R \in SUBSET (1..n), R # {}, it[R \ {Max(R)}] \in A
        PROVE  it[R] = F[it[R \ {Max(R)}], s[Max(R)]]
    <3>1. it[R] = Op(it[R \ {Max(R)}], s[Max(R)])
      BY <1>5, <2>3
    <3> QED BY <1>1, <1>3, <2>3, <3>1
  <2> QED BY <2>2, <2>3 DEF FoldsIn
<1>8. StepsBy(Stepwise(it, n), F, s, B)
  BY <1>0, <1>2, <1>7, FoldSteps, Zenon
<1>9. Stepwise(it, n)[n] = it[1..n]
  BY <1>0 DEF Stepwise
<1> QED BY <1>0, <1>2, <1>6, <1>8, <1>9 DEF A, E, F, B

\* The segments of a path with one more token.
LEMMA SegmentsAppend ==
  ASSUME NEW T, NEW s \in Seq(T), NEW t \in T
  PROVE  /\ Segments(<<>>) = <<<<>>>> /\ Segments(s) \in (Seq(Seq(T)) \ {<<>>})
         /\ Segments(Append(s, t)) = IF t = "/" THEN Append(Segments(s), <<>>)
                                    ELSE [Segments(s) EXCEPT ![Len(Segments(s))] = Append(@, t)]
<1>1. Segments(<<>>) = <<<<>>>>
  <2>1. <<>> \in Seq(T) /\ Len(<<>>) = 0
    OBVIOUS
  <2> QED BY <2>1, SegmentsFold DEF StepsBy
<1>2. PICK g : StepsBy(g, SegmentStep(T), s, <<<<>>>>) /\ g[Len(s)] = Segments(s)
  BY SegmentsFold
<1>3. Append(s, t) \in Seq(T) /\ Len(Append(s, t)) = Len(s) + 1
  OBVIOUS
<1>4. PICK h : StepsBy(h, SegmentStep(T), Append(s, t), <<<<>>>>) /\ h[Len(Append(s, t))] = Segments(Append(s, t))
  BY <1>3, SegmentsFold
<1>5. Segments(s) \in (Seq(Seq(T)) \ {<<>>}) /\ Segments(Append(s, t)) = SegmentStep(T)[Segments(s), t]
  <2> DEFINE A == (Seq(Seq(T)) \ {<<>>})
             E == T
             F == SegmentStep(T)
             B == <<<<>>>>
  <2>1. F \in [A \X E -> A] /\ B \in A
    BY SegmentsFold
  <2>2. StepsBy(g, F, s, B) /\ StepsBy(h, F, Append(s, t), B) /\ s \in Seq(E) /\ t \in E
    BY <1>2, <1>4
  <2> HIDE DEF A, E, F, B
  <2>3. NextStep(h, g, F, s, t, A)
    BY <2>1, <2>2, StepsAppend, Zenon
  <2> QED BY <1>2, <1>3, <1>4, <2>3 DEF A, F, NextStep
<1> QED BY <1>1, <1>5 DEF SegmentStep

\* An empty name is dropped.
NonEmptyStep(T) == [q \in Seq(Seq(T)) \X Seq(T) |-> IF q[2] = <<>> THEN q[1] ELSE Append(q[1], q[2])]

\* NonEmpty takes these steps.
LEMMA NonEmptyFold ==
  ASSUME NEW T, NEW s \in Seq(Seq(T))
  PROVE  /\ NonEmptyStep(T) \in [Seq(Seq(T)) \X Seq(T) -> Seq(Seq(T))] /\ <<>> \in Seq(Seq(T))
         /\ \E g : StepsBy(g, NonEmptyStep(T), s, <<>>) /\ g[Len(s)] = NonEmpty(s)
<1> DEFINE n == Len(s)
           A == Seq(Seq(T))
           F == NonEmptyStep(T)
           E == Seq(T)
           B == <<>>
           Op(a, t) == IF t = <<>> THEN a ELSE Append(a, t)
           Eq(f) == f = [R \in SUBSET (1..n) |-> IF R = {} THEN B ELSE Op(f[R \ {Max(R)}], s[Max(R)])]
           it == CHOOSE f : Eq(f)
<1>0. n \in Nat /\ DOMAIN s = 1..n /\ s \in Seq(E) /\ (\A k \in 1..n : s[k] \in E) /\ B \in A
  OBVIOUS
<1>1. ASSUME NEW a \in A, NEW t \in E PROVE Op(a, t) \in A /\ F[<<a, t>>] = Op(a, t)
  BY DEF NonEmptyStep
<1>2. F \in [A \X E -> A]
  <2>1. \A q \in A \X E : F[q] \in A
    <3> HIDE DEF A, E, F, Op
    <3> QED BY <1>1
  <2> QED BY <2>1 DEF NonEmptyStep
<1> HIDE DEF A, E, F, Op
<1>3. ASSUME NEW R \in SUBSET (1..n), R # {}
      PROVE  Max(R) \in 1..n /\ R \ {Max(R)} \in SUBSET (1..n) /\ s[Max(R)] \in E
  BY <1>0, <1>3, MaxIn
<1>4. \E f : Eq(f)
  <2>1. PICK f : FoldsBy(f, F, s, B) /\ \A R \in SUBSET (1..n) : f[R] \in A
    BY <1>0, <1>2, FoldExists
  <2>2. ASSUME NEW R \in SUBSET (1..n), R # {}
        PROVE  F[f[R \ {Max(R)}], s[Max(R)]] = Op(f[R \ {Max(R)}], s[Max(R)])
    BY <1>1, <1>3, <2>1, <2>2
  <2>3. Eq(f)
    BY <2>1, <2>2 DEF FoldsBy
  <2> HIDE DEF Eq
  <2> QED BY <2>3
<1>5. Eq(it)
  BY <1>4
<1>6. NonEmpty(s) = it[1..n]
  BY <1>0 DEF NonEmpty, FoldLeft, MapThenFoldSet, Op
<1> HIDE DEF it, B
<1>7. FoldsIn(it, F, A, s, B)
  <2>1. {} \in SUBSET (1..n)
    OBVIOUS
  <2>2. it[{}] = B
    BY <1>5, <2>1
  <2>3. ASSUME NEW R \in SUBSET (1..n), R # {}, it[R \ {Max(R)}] \in A
        PROVE  it[R] = F[it[R \ {Max(R)}], s[Max(R)]]
    <3>1. it[R] = Op(it[R \ {Max(R)}], s[Max(R)])
      BY <1>5, <2>3
    <3> QED BY <1>1, <1>3, <2>3, <3>1
  <2> QED BY <2>2, <2>3 DEF FoldsIn
<1>8. StepsBy(Stepwise(it, n), F, s, B)
  BY <1>0, <1>2, <1>7, FoldSteps, Zenon
<1>9. Stepwise(it, n)[n] = it[1..n]
  BY <1>0 DEF Stepwise
<1> QED BY <1>0, <1>2, <1>6, <1>8, <1>9 DEF A, E, F, B

\* The names of segments with one more.
LEMMA NonEmptyAppend ==
  ASSUME NEW T, NEW s \in Seq(Seq(T)), NEW t \in Seq(T)
  PROVE  /\ NonEmpty(<<>>) = <<>> /\ NonEmpty(s) \in Seq(Seq(T))
         /\ NonEmpty(Append(s, t)) = IF t = <<>> THEN NonEmpty(s) ELSE Append(NonEmpty(s), t)
<1>1. NonEmpty(<<>>) = <<>>
  <2>1. <<>> \in Seq(Seq(T)) /\ Len(<<>>) = 0
    OBVIOUS
  <2> QED BY <2>1, NonEmptyFold DEF StepsBy
<1>2. PICK g : StepsBy(g, NonEmptyStep(T), s, <<>>) /\ g[Len(s)] = NonEmpty(s)
  BY NonEmptyFold
<1>3. Append(s, t) \in Seq(Seq(T)) /\ Len(Append(s, t)) = Len(s) + 1
  OBVIOUS
<1>4. PICK h : StepsBy(h, NonEmptyStep(T), Append(s, t), <<>>) /\ h[Len(Append(s, t))] = NonEmpty(Append(s, t))
  BY <1>3, NonEmptyFold
<1>5. NonEmpty(s) \in Seq(Seq(T)) /\ NonEmpty(Append(s, t)) = NonEmptyStep(T)[NonEmpty(s), t]
  <2> DEFINE A == Seq(Seq(T))
             E == Seq(T)
             F == NonEmptyStep(T)
             B == <<>>
  <2>1. F \in [A \X E -> A] /\ B \in A
    BY NonEmptyFold
  <2>2. StepsBy(g, F, s, B) /\ StepsBy(h, F, Append(s, t), B) /\ s \in Seq(E) /\ t \in E
    BY <1>2, <1>4
  <2> HIDE DEF A, E, F, B
  <2>3. NextStep(h, g, F, s, t, A)
    BY <2>1, <2>2, StepsAppend, Zenon
  <2> QED BY <1>2, <1>3, <1>4, <2>3 DEF A, F, NextStep
<1> QED BY <1>1, <1>5 DEF NonEmptyStep

\* A ".." takes back the name before it.
ReduceStep(T) == [q \in Seq(Seq(T)) \X Seq(T) |-> IF q[2] = <<>> THEN q[1]
                  ELSE IF q[2] = <<"..">> THEN SubSeq(q[1], 1, Len(q[1]) - 1)
                  ELSE Append(q[1], q[2])]

\* Reduce takes these steps.
LEMMA ReduceFold ==
  ASSUME NEW T, NEW s \in Seq(Seq(T))
  PROVE  /\ ReduceStep(T) \in [Seq(Seq(T)) \X Seq(T) -> Seq(Seq(T))] /\ <<>> \in Seq(Seq(T))
         /\ \E g : StepsBy(g, ReduceStep(T), s, <<>>) /\ g[Len(s)] = Reduce(s)
<1> DEFINE n == Len(s)
           A == Seq(Seq(T))
           F == ReduceStep(T)
           E == Seq(T)
           B == <<>>
           Op(a, t) == IF t = <<>> THEN a
                       ELSE IF t = <<"..">> THEN SubSeq(a, 1, Len(a) - 1) ELSE Append(a, t)
           Eq(f) == f = [R \in SUBSET (1..n) |-> IF R = {} THEN B ELSE Op(f[R \ {Max(R)}], s[Max(R)])]
           it == CHOOSE f : Eq(f)
<1>0. n \in Nat /\ DOMAIN s = 1..n /\ s \in Seq(E) /\ (\A k \in 1..n : s[k] \in E) /\ B \in A
  OBVIOUS
<1>1. ASSUME NEW a \in A, NEW t \in E PROVE Op(a, t) \in A /\ F[<<a, t>>] = Op(a, t)
  <2>1. SubSeq(a, 1, Len(a) - 1) \in A
    OBVIOUS
  <2>2. Append(a, t) \in A
    OBVIOUS
  <2>3. F[<<a, t>>] = Op(a, t)
    BY DEF ReduceStep
  <2> QED BY <2>1, <2>2, <2>3
<1>2. F \in [A \X E -> A]
  <2>1. \A q \in A \X E : F[q] \in A
    <3> HIDE DEF A, E, F, Op
    <3> QED BY <1>1
  <2> QED BY <2>1 DEF ReduceStep
<1> HIDE DEF A, E, F, Op
<1>3. ASSUME NEW R \in SUBSET (1..n), R # {}
      PROVE  Max(R) \in 1..n /\ R \ {Max(R)} \in SUBSET (1..n) /\ s[Max(R)] \in E
  BY <1>0, <1>3, MaxIn
<1>4. \E f : Eq(f)
  <2>1. PICK f : FoldsBy(f, F, s, B) /\ \A R \in SUBSET (1..n) : f[R] \in A
    BY <1>0, <1>2, FoldExists
  <2>2. ASSUME NEW R \in SUBSET (1..n), R # {}
        PROVE  F[f[R \ {Max(R)}], s[Max(R)]] = Op(f[R \ {Max(R)}], s[Max(R)])
    BY <1>1, <1>3, <2>1, <2>2
  <2>3. Eq(f)
    BY <2>1, <2>2 DEF FoldsBy
  <2> HIDE DEF Eq
  <2> QED BY <2>3
<1>5. Eq(it)
  BY <1>4
<1>6. Reduce(s) = it[1..n]
  BY <1>0 DEF Reduce, FoldLeft, MapThenFoldSet, Op
<1> HIDE DEF it, B
<1>7. FoldsIn(it, F, A, s, B)
  <2>1. {} \in SUBSET (1..n)
    OBVIOUS
  <2>2. it[{}] = B
    BY <1>5, <2>1
  <2>3. ASSUME NEW R \in SUBSET (1..n), R # {}, it[R \ {Max(R)}] \in A
        PROVE  it[R] = F[it[R \ {Max(R)}], s[Max(R)]]
    <3>1. it[R] = Op(it[R \ {Max(R)}], s[Max(R)])
      BY <1>5, <2>3
    <3> QED BY <1>1, <1>3, <2>3, <3>1
  <2> QED BY <2>2, <2>3 DEF FoldsIn
<1>8. StepsBy(Stepwise(it, n), F, s, B)
  BY <1>0, <1>2, <1>7, FoldSteps, Zenon
<1>9. Stepwise(it, n)[n] = it[1..n]
  BY <1>0 DEF Stepwise
<1> QED BY <1>0, <1>2, <1>6, <1>8, <1>9 DEF A, E, F, B

\* What path.Clean makes of one more name.
LEMMA ReduceAppend ==
  ASSUME NEW T, NEW s \in Seq(Seq(T)), NEW t \in Seq(T)
  PROVE  /\ Reduce(<<>>) = <<>> /\ Reduce(s) \in Seq(Seq(T))
         /\ Reduce(Append(s, t)) = IF t = <<>> THEN Reduce(s)
                                  ELSE IF t = <<"..">> THEN SubSeq(Reduce(s), 1, Len(Reduce(s)) - 1)
                                  ELSE Append(Reduce(s), t)
<1>1. Reduce(<<>>) = <<>>
  <2>1. <<>> \in Seq(Seq(T)) /\ Len(<<>>) = 0
    OBVIOUS
  <2> QED BY <2>1, ReduceFold DEF StepsBy
<1>2. PICK g : StepsBy(g, ReduceStep(T), s, <<>>) /\ g[Len(s)] = Reduce(s)
  BY ReduceFold
<1>3. Append(s, t) \in Seq(Seq(T)) /\ Len(Append(s, t)) = Len(s) + 1
  OBVIOUS
<1>4. PICK h : StepsBy(h, ReduceStep(T), Append(s, t), <<>>) /\ h[Len(Append(s, t))] = Reduce(Append(s, t))
  BY <1>3, ReduceFold
<1>5. Reduce(s) \in Seq(Seq(T)) /\ Reduce(Append(s, t)) = ReduceStep(T)[Reduce(s), t]
  <2> DEFINE A == Seq(Seq(T))
             E == Seq(T)
             F == ReduceStep(T)
             B == <<>>
  <2>1. F \in [A \X E -> A] /\ B \in A
    BY ReduceFold
  <2>2. StepsBy(g, F, s, B) /\ StepsBy(h, F, Append(s, t), B) /\ s \in Seq(E) /\ t \in E
    BY <1>2, <1>4
  <2> HIDE DEF A, E, F, B
  <2>3. NextStep(h, g, F, s, t, A)
    BY <2>1, <2>2, StepsAppend, Zenon
  <2> QED BY <1>2, <1>3, <1>4, <2>3 DEF A, F, NextStep
<1> QED BY <1>1, <1>5 DEF ReduceStep
-------------------------------------------------------------------------------
(* The names that a walk keeps are those that path.Clean keeps.              *)

\* Two ascending lists of the same positions are equal.
LEMMA ListsSame ==
  ASSUME NEW L, NEW M, NEW S, Lists(L, S), Lists(M, S)
  PROVE  L = M
<1> DEFINE n == Len(L)
           m == Len(M)
           Same(a) == a <= m /\ L[a] = M[a]
           W == {k \in Nat : \A a \in 1..n : a <= k => Same(a)}
<1>1. /\ n \in Nat /\ L \in Seq(Nat) /\ DOMAIN L = 1..n /\ \A a \in 1..n : L[a] \in Nat
      /\ m \in Nat /\ M \in Seq(Nat) /\ DOMAIN M = 1..m /\ \A a \in 1..m : M[a] \in Nat
  BY DEF Lists
<1>2. /\ \A a \in 1..n : \E c \in 1..m : L[a] = M[c]
      /\ \A c \in 1..m : \E a \in 1..n : M[c] = L[a]
  BY <1>1 DEF Lists, ToSet
<1>3. /\ \A a \in 1..n, b \in 1..n : a < b => L[a] < L[b]
      /\ \A a \in 1..m, b \in 1..m : a < b => M[a] < M[b]
  BY DEF Lists, Ascending
<1> HIDE DEF n, m
<1>4. 0 \in W
  BY <1>1
<1>5. ASSUME NEW k \in Nat, k \in W PROVE k + 1 \in W
  <2> SUFFICES ASSUME k + 1 \in 1..n PROVE Same(k + 1)
    <3>1. \A a \in 1..n : a <= k + 1 => a <= k \/ a = k + 1
      BY <1>1
    <3> QED BY <1>5, <3>1
  <2>1. \A b \in 1..k : b \in 1..n /\ b \in 1..m /\ L[b] = M[b]
    BY <1>1, <1>5
  <2>2. PICK c \in 1..m : L[k + 1] = M[c]
    BY <1>2
  <2>3. c >= k + 1
    <3> SUFFICES ASSUME c < k + 1 PROVE FALSE
      BY <1>1
    <3>1. c \in 1..k
      BY <1>1
    <3>2. L[c] = L[k + 1] /\ L[c] < L[k + 1]
      BY <1>1, <1>3, <2>1, <2>2, <3>1
    <3> QED BY <1>1, <2>1, <3>1, <3>2
  <2>4. k + 1 \in 1..m
    BY <1>1, <2>3
  <2>5. PICK a \in 1..n : M[k + 1] = L[a]
    BY <1>2, <2>4
  <2>6. a >= k + 1
    <3> SUFFICES ASSUME a < k + 1 PROVE FALSE
      BY <1>1
    <3>1. a \in 1..k
      BY <1>1
    <3>2. M[a] = M[k + 1] /\ M[a] < M[k + 1]
      BY <1>1, <1>3, <2>1, <2>4, <2>5, <3>1
    <3> QED BY <1>1, <2>1, <2>4, <3>1, <3>2
  <2>7. M[k + 1] <= M[c]
    BY <1>1, <1>3, <2>3, <2>4
  <2>8. L[k + 1] <= L[a]
    BY <1>1, <1>3, <2>6
  <2> QED BY <1>1, <2>2, <2>4, <2>5, <2>7, <2>8
<1> HIDE DEF W
<1>6. n \in W
  BY <1>1, <1>4, <1>5, NatSet
<1>7. \A a \in 1..n : Same(a)
  BY <1>1, <1>6 DEF W
<1>8. n = m
  <2>1. n <= m
    BY <1>1, <1>7
  <2> SUFFICES ASSUME m > n PROVE FALSE
    BY <1>1, <2>1
  <2>2. m \in 1..m
    BY <1>1
  <2>3. PICK a \in 1..n : M[m] = L[a]
    BY <1>2, <2>2
  <2>4. M[a] = M[m] /\ a < m /\ a \in 1..m
    BY <1>1, <1>7, <2>3
  <2> QED BY <1>1, <1>3, <2>2, <2>4
<1> QED BY <1>1, <1>7, <1>8 DEF n, m

\* The ups of names with one more.
LEMMA UpsAppend ==
  ASSUME NEW T, NEW s \in Seq(T), NEW x \in T, NEW k \in 1..(Len(s) + 1)
  PROVE  /\ \A j \in 0..Len(s) : Ups(s, k, j) \in Nat /\ Ups(Append(s, x), k, j) = Ups(s, k, j)
         /\ Ups(Append(s, x), k, Len(s) + 1) = Ups(s, k, Len(s)) + (IF x = <<"..">> THEN 1 ELSE 0)
<1> DEFINE n == Len(s)
           p == Append(s, x)
           In(r, j) == {a \in k..j : r[a] = <<"..">>}
<1>1. /\ n \in Nat /\ p[n + 1] = x
      /\ \A a \in 1..n : p[a] = s[a]
  OBVIOUS
<1> HIDE DEF p, n
<1>2. \A j \in 0..n : In(p, j) = In(s, j)
  BY <1>1
<1>3. \A r, j : j \in Nat => IsFiniteSet(In(r, j)) /\ Cardinality(In(r, j)) \in Nat
  <2> TAKE r, j
  <2> HAVE j \in Nat
  <2>1. IsFiniteSet(k..j)
    BY <1>1, FS_Interval
  <2>2. In(r, j) \subseteq k..j
    OBVIOUS
  <2> HIDE DEF In
  <2> QED BY <2>1, <2>2, FS_Subset, FS_CardinalityType
<1>4. In(p, n + 1) = IF x = <<"..">> THEN In(s, n) \cup {n + 1} ELSE In(s, n)
  <2>1. k..(n + 1) = (k..n) \cup {n + 1}
    BY <1>1 DEF n
  <2>2. \A a \in k..n : a \in 1..n
    BY <1>1
  <2>3. \A a : a \in In(p, n + 1) <=> a \in In(s, n) \/ (a = n + 1 /\ x = <<"..">>)
    BY <1>1, <2>1, <2>2
  <2> HIDE DEF In
  <2> QED BY <2>3
<1>5. n + 1 \notin In(s, n)
  BY <1>1
<1> HIDE DEF In
<1>6. Cardinality(In(p, n + 1)) = Cardinality(In(s, n)) + (IF x = <<"..">> THEN 1 ELSE 0)
  <2>1. CASE x = <<"..">>
    <3>1. Cardinality(In(s, n) \cup {n + 1}) = Cardinality(In(s, n)) + 1
      BY <1>1, <1>3, <1>5, FS_AddElement
    <3> QED BY <1>4, <2>1, <3>1
  <2>2. CASE x # <<"..">>
    BY <1>1, <1>3, <1>4, <2>2
  <2> QED BY <2>1, <2>2
<1>7. \A j \in 0..n : j \in Nat
  BY <1>1
<1> QED BY <1>2, <1>3, <1>6, <1>7 DEF Ups, In, n, p

\* By how much a walk along s is deeper than it was at k.
Depth(s, k) == Downs(s, k + 1, Len(s)) - Ups(s, k + 1, Len(s))

\* One more name, if it is "..", takes back what the walk has not been deeper
\* than since, and else is kept itself.
LEMMA KeptAppend ==
  ASSUME NEW T, NEW s \in Seq(T), NEW x \in T
  PROVE  LET p == Append(s, x)
         IN  /\ Kept(s) \subseteq 1..Len(s) /\ \A k \in 1..Len(s) : Depth(s, k) \in Int
             /\ x = <<"..">> => /\ Kept(p) = {k \in Kept(s) : Depth(s, k) > 0}
                                /\ \A k \in 1..Len(s) : Depth(p, k) = Depth(s, k) - 1
             /\ x # <<"..">> => /\ Kept(p) = Kept(s) \cup {Len(s) + 1}
                                /\ \A k \in 1..Len(s) : Depth(p, k) = Depth(s, k) + 1
                                /\ Depth(p, Len(s) + 1) = 0
<1> DEFINE n == Len(s)
           p == Append(s, x)
           one == IF x = <<"..">> THEN 1 ELSE 0
           Level(r, k, j) == Ups(r, k + 1, j) <= Downs(r, k + 1, j)
<1>1. /\ n \in Nat /\ p[n + 1] = x /\ Len(p) = n + 1 /\ DOMAIN p = 1..(n + 1) /\ DOMAIN s = 1..n
      /\ \A a \in 1..n : p[a] = s[a] /\ a + 1 \in 1..(n + 1) /\ a \in 1..(n + 1)
  OBVIOUS
<1>2. ASSUME NEW k \in 1..n
      PROVE  /\ \A j \in 0..n : Ups(s, k + 1, j) \in Nat /\ Ups(p, k + 1, j) = Ups(s, k + 1, j)
             /\ Ups(p, k + 1, n + 1) = Ups(s, k + 1, n) + one
  BY <1>1, UpsAppend
<1>3. Ups(p, n + 2, n + 1) = 0 /\ Downs(p, n + 2, n + 1) = 0
  <2>1. (n + 2)..(n + 1) = {}
    BY <1>1
  <2>2. {a \in (n + 2)..(n + 1) : p[a] = <<"..">>} = {}
    BY <2>1
  <2>3. Ups(p, n + 2, n + 1) = 0
    BY <2>2, FS_EmptySet DEF Ups
  <2> QED BY <1>1, <2>3 DEF Downs
<1> HIDE DEF n, p
<1>4. ASSUME NEW k \in 1..n
      PROVE  /\ Depth(s, k) \in Int /\ Depth(p, k) = Depth(s, k) + 1 - 2 * one
             /\ \A j \in k..n : Level(p, k, j) <=> Level(s, k, j)
             /\ Level(p, k, n + 1) <=> Depth(s, k) + 1 - 2 * one >= 0
             /\ Level(s, k, n) <=> Depth(s, k) >= 0
  <2>1. k \in Nat /\ n \in 0..n /\ \A j \in k..n : j \in 0..n
    BY <1>1
  <2>2. /\ Ups(s, k + 1, n) \in Nat /\ Ups(p, k + 1, n + 1) = Ups(s, k + 1, n) + one
        /\ \A j \in k..n : Ups(p, k + 1, j) = Ups(s, k + 1, j)
    BY <1>2, <2>1
  <2>3. Len(s) = n
    BY DEF n
  <2>4. \A j \in k..n : Level(p, k, j) <=> Level(s, k, j)
    BY <2>2 DEF Downs
  <2>5. one \in {0, 1} /\ Len(p) = n + 1
    BY <1>1
  <2> HIDE DEF one
  <2>6. Depth(s, k) = (n - (k + 1)) + 1 - 2 * Ups(s, k + 1, n)
    BY <1>1, <2>1, <2>2, <2>3 DEF Depth, Downs
  <2>7. Depth(p, k) = (n + 1 - (k + 1)) + 1 - 2 * (Ups(s, k + 1, n) + one)
    BY <1>1, <2>1, <2>2, <2>5 DEF Depth, Downs
  <2>8. Level(p, k, n + 1) <=> Depth(s, k) + 1 - 2 * one >= 0
    <3> DEFINE u == Ups(s, k + 1, n)
               v == Ups(p, k + 1, n + 1)
    <3>1. Level(p, k, n + 1) <=> v <= ((n + 1) - (k + 1)) + 1 - v
      BY DEF Downs
    <3>2. v = u + one
      BY <2>2
    <3>3. u \in Nat /\ Depth(s, k) = (n - (k + 1)) + 1 - 2 * u
      BY <2>2, <2>6
    <3> HIDE DEF u, v, Level
    <3> QED BY <1>1, <2>1, <2>5, <3>1, <3>2, <3>3
  <2>9. Level(s, k, n) <=> Depth(s, k) >= 0
    BY <1>1, <2>1, <2>2, <2>6 DEF Downs
  <2> QED BY <1>1, <2>1, <2>2, <2>4, <2>5, <2>6, <2>7, <2>8, <2>9
<1>5. Kept(s) = {k \in 1..n : s[k] # <<"..">> /\ \A j \in k..n : Level(s, k, j)}
  BY <1>1 DEF Kept, n
<1>6. Kept(p) = {k \in 1..(n + 1) : p[k] # <<"..">> /\ \A j \in k..(n + 1) : Level(p, k, j)}
  BY <1>1 DEF Kept
<1>7. ASSUME NEW k \in 1..n
      PROVE  k \in Kept(p) <=> k \in Kept(s) /\ Depth(s, k) + 1 - 2 * one >= 0
  <2>1. \A j \in k..(n + 1) : j = n + 1 \/ j \in k..n
    BY <1>1
  <2>2. n + 1 \in k..(n + 1) /\ \A j \in k..n : j \in k..(n + 1)
    BY <1>1
  <2> HIDE DEF Level
  <2> QED BY <1>1, <1>4, <1>5, <1>6, <2>1, <2>2
<1>8. \A k \in Kept(s) : k \in 1..n /\ Depth(s, k) >= 0
  <2>1. \A k \in 1..n : n \in k..n
    BY <1>1
  <2> HIDE DEF Level
  <2> QED BY <1>4, <1>5, <2>1
<1>9. \A k \in Kept(p) : k \in 1..n \/ k = n + 1
  BY <1>1, <1>6
<1>10. n + 1 \in Kept(p) <=> x # <<"..">>
  <2>1. (n + 1)..(n + 1) = {n + 1} /\ (n + 1) + 1 = n + 2
    BY <1>1
  <2>2. Level(p, n + 1, n + 1)
    BY <1>3, <2>1
  <2>3. n + 1 \in 1..(n + 1)
    BY <1>1
  <2> HIDE DEF Level
  <2> QED BY <1>1, <1>6, <2>1, <2>2, <2>3
<1>11. Depth(p, n + 1) = 0
  BY <1>1, <1>3 DEF Depth
<1>12. CASE x = <<"..">>
  <2>1. \A k \in 1..n : Depth(s, k) \in Int /\ Depth(p, k) = Depth(s, k) - 1
    BY <1>4, <1>12
  <2>2. \A k \in 1..n : k \in Kept(p) <=> k \in Kept(s) /\ Depth(s, k) > 0
    BY <1>7, <1>12, <2>1
  <2>3. Kept(p) = {k \in Kept(s) : Depth(s, k) > 0}
    BY <1>8, <1>9, <1>10, <1>12, <2>2
  <2> QED BY <1>8, <1>12, <2>1, <2>3 DEF n, p
<1>13. CASE x # <<"..">>
  <2>1. \A k \in 1..n : Depth(s, k) \in Int /\ Depth(p, k) = Depth(s, k) + 1
    BY <1>4, <1>13
  <2>2. \A k \in 1..n : k \in Kept(p) <=> k \in Kept(s)
    BY <1>7, <1>8, <1>13, <2>1
  <2>3. Kept(p) = Kept(s) \cup {n + 1}
    BY <1>8, <1>9, <1>10, <1>13, <2>2
  <2> QED BY <1>8, <1>11, <1>13, <2>1, <2>3 DEF n, p
<1> QED BY <1>12, <1>13

\* L lists what a walk along s keeps, each as deep as it stands in L.
Stack(L, s) == Lists(L, Kept(s)) /\ \A a \in 1..Len(L) : Depth(s, L[a]) = Len(L) - a

\* A walk that has not begun keeps nothing.
LEMMA StackEmpty == Stack(<<>>, <<>>)
<1>1. Kept(<<>>) = {}
  BY DEF Kept
<1>2. <<>> \in Seq(Nat) /\ Len(<<>>) = 0 /\ ToSet(<<>>) = {}
  BY DEF ToSet
<1>3. Ascending(<<>>)
  BY <1>2 DEF Ascending
<1> QED BY <1>1, <1>2, <1>3 DEF Stack, Lists

\* A step of the walk: down to one more name, or up from the last.
LEMMA StackNext ==
  ASSUME NEW T, NEW s \in Seq(T), NEW x \in T, NEW L, Stack(L, s)
  PROVE  Stack(IF x = <<"..">> THEN SubSeq(L, 1, Len(L) - 1) ELSE Append(L, Len(s) + 1), Append(s, x))
<1> DEFINE n == Len(s)
           p == Append(s, x)
           m == Len(L)
<1>1. n \in Nat /\ m \in Nat /\ L \in Seq(Nat) /\ DOMAIN L = 1..m /\ \A a \in 1..m : L[a] \in Nat
  BY DEF Stack, Lists
<1>2. Kept(s) = {L[a] : a \in 1..m} /\ \A a \in 1..m : L[a] \in 1..n
  <2>1. ToSet(L) = Kept(s) /\ Kept(s) \subseteq 1..n
    BY KeptAppend DEF Stack, Lists
  <2>2. ToSet(L) = {L[a] : a \in 1..m}
    BY <1>1 DEF ToSet
  <2> HIDE DEF n, m
  <2> QED BY <2>1, <2>2
<1>3. /\ \A a \in 1..m, b \in 1..m : a < b => L[a] < L[b]
      /\ \A a \in 1..m : Depth(s, L[a]) = m - a
  BY DEF Stack, Lists, Ascending
<1>4. CASE x = <<"..">>
  <2>1. Kept(p) = {k \in Kept(s) : Depth(s, k) > 0} /\ \A k \in 1..n : Depth(p, k) = Depth(s, k) - 1
    BY <1>4, KeptAppend
  <2> DEFINE M == SubSeq(L, 1, m - 1)
             l == Len(M)
  <2>2. CASE m = 0
    <3>1. Kept(p) = {}
      BY <1>2, <2>1, <2>2
    <3>2. M \in Seq(Nat) /\ l = 0 /\ ToSet(M) = {}
      BY <1>1, <2>2 DEF ToSet
    <3>3. Ascending(M)
      BY <3>2 DEF Ascending
    <3>4. Stack(M, p)
      BY <3>1, <3>2, <3>3 DEF Stack, Lists
    <3> QED BY <1>4, <3>4
  <2>3. CASE m > 0
    <3>1. M \in Seq(Nat) /\ l = m - 1 /\ DOMAIN M = 1..l /\ \A a \in 1..l : M[a] = L[a] /\ a \in 1..m
      BY <1>1, <2>3
    <3>2. ToSet(M) = {M[a] : a \in 1..l}
      BY <3>1 DEF ToSet
    <3> HIDE DEF M, l, m, n, p
    <3>3. \A a \in 1..m : L[a] \in Kept(p) <=> a \in 1..l
      <4>1. \A a \in 1..m : m - a > 0 <=> a \in 1..l
        BY <1>1, <3>1
      <4> QED BY <1>2, <1>3, <2>1, <4>1
    <3>4. ToSet(M) = Kept(p)
      <4>1. \A k \in Kept(p) : \E a \in 1..m : k = L[a]
        BY <1>2, <2>1
      <4> QED BY <3>1, <3>2, <3>3, <4>1
    <3>5. Ascending(M)
      BY <1>3, <3>1 DEF Ascending, l
    <3>6. \A a \in 1..l : Depth(p, M[a]) = l - a
      BY <1>1, <1>2, <1>3, <2>1, <3>1
    <3>7. Stack(M, p)
      BY <3>1, <3>4, <3>5, <3>6 DEF Stack, Lists, l
    <3> QED BY <1>4, <3>7 DEF M, m, p
  <2> QED BY <1>1, <2>2, <2>3
<1>5. CASE x # <<"..">>
  <2>1. /\ Kept(p) = Kept(s) \cup {n + 1} /\ Depth(p, n + 1) = 0
        /\ \A k \in 1..n : Depth(p, k) = Depth(s, k) + 1
    BY <1>5, KeptAppend
  <2> DEFINE M == Append(L, n + 1)
             l == Len(M)
  <2>2. /\ M \in Seq(Nat) /\ l = m + 1 /\ DOMAIN M = 1..l /\ M[m + 1] = n + 1
        /\ \A a \in 1..m : M[a] = L[a] /\ a \in 1..l
    BY <1>1
  <2>3. ToSet(M) = {M[a] : a \in 1..l}
    BY <2>2 DEF ToSet
  <2> HIDE DEF M, l, m, n, p
  <2>4. \A a \in 1..l : a \in 1..m \/ a = m + 1
    BY <1>1, <2>2
  <2>5. m + 1 \in 1..l
    BY <1>1, <2>2
  <2>6. ToSet(M) = Kept(p)
    <3>1. \A k \in Kept(p) : \E a \in 1..l : k = M[a]
      BY <1>2, <2>1, <2>2, <2>5
    <3>2. \A a \in 1..l : M[a] \in Kept(p)
      BY <1>2, <2>1, <2>2, <2>4
    <3> QED BY <2>3, <3>1, <3>2
  <2>7. Ascending(M)
    <3> SUFFICES ASSUME NEW a \in 1..l, NEW b \in 1..l, a < b PROVE M[a] < M[b]
      BY DEF Ascending, l
    <3>1. a \in 1..m
      BY <1>1, <2>2
    <3>2. CASE b \in 1..m
      BY <1>3, <2>2, <3>1, <3>2
    <3>3. CASE b = m + 1
      BY <1>1, <1>2, <2>2, <3>1, <3>3
    <3> QED BY <2>4, <3>2, <3>3
  <2>8. \A a \in 1..l : Depth(p, M[a]) = l - a
    <3> SUFFICES ASSUME NEW a \in 1..l PROVE Depth(p, M[a]) = l - a
      OBVIOUS
    <3>1. CASE a \in 1..m
      BY <1>1, <1>2, <1>3, <2>1, <2>2, <3>1
    <3>2. CASE a = m + 1
      BY <1>1, <2>1, <2>2, <3>2
    <3> QED BY <2>4, <3>1, <3>2
  <2>9. Stack(M, p)
    BY <2>2, <2>6, <2>7, <2>8 DEF Stack, Lists, l
  <2> QED BY <1>5, <2>9 DEF M, n, p
<1> QED BY <1>4, <1>5

\* path.Clean leads where the walk along the names does.
LEMMA ReduceWalks ==
  ASSUME NEW T, NEW ss \in Seq(Seq(T))
  PROVE  Reduce(ss) = WalkedTo(NonEmpty(ss))
<1> DEFINE Taken(L, s, r) == r \in Seq(Seq(T)) /\ Len(r) = Len(L) /\ \A a \in 1..Len(L) : r[a] = s[L[a]]
           Good(q) == \E L : Stack(L, NonEmpty(q)) /\ Taken(L, NonEmpty(q), Reduce(q))
           S == {q \in Seq(Seq(T)) : Good(q)}
<1>1. <<>> \in S
  <2>1. NonEmpty(<<>>) = <<>> /\ Reduce(<<>>) = <<>>
    BY <<>> \in Seq(T), <<>> \in Seq(Seq(T)), NonEmptyAppend, ReduceAppend
  <2>2. Taken(<<>>, <<>>, <<>>)
    OBVIOUS
  <2> HIDE DEF Taken
  <2> QED BY <2>1, <2>2, StackEmpty
<1>2. ASSUME NEW q \in Seq(Seq(T)), q \in S, NEW x \in Seq(T) PROVE Append(q, x) \in S
  <2> DEFINE s == NonEmpty(q)
             r == Reduce(q)
  <2>1. PICK L : Stack(L, s) /\ Taken(L, s, r)
    BY <1>2
  <2>2. /\ s \in Seq(Seq(T)) /\ r \in Seq(Seq(T))
        /\ NonEmpty(Append(q, x)) = IF x = <<>> THEN s ELSE Append(s, x)
        /\ Reduce(Append(q, x)) = IF x = <<>> THEN r
                                  ELSE IF x = <<"..">> THEN SubSeq(r, 1, Len(r) - 1) ELSE Append(r, x)
    BY NonEmptyAppend, ReduceAppend
  <2>3. Append(q, x) \in Seq(Seq(T))
    OBVIOUS
  <2> HIDE DEF s, r
  <2>4. L \in Seq(Nat) /\ Len(L) \in Nat /\ \A a \in 1..Len(L) : L[a] \in 1..Len(s)
    <3>1. L \in Seq(Nat) /\ ToSet(L) = Kept(s)
      BY <2>1 DEF Stack, Lists
    <3>2. \A a \in 1..Len(L) : L[a] \in Kept(s)
      BY <3>1 DEF ToSet
    <3>3. Kept(s) \subseteq 1..Len(s)
      BY <2>2, KeptAppend
    <3> QED BY <3>1, <3>2, <3>3
  <2>5. Good(Append(q, x))
    <3>1. CASE x = <<>>
      BY <2>1, <2>2, <3>1
    <3>2. CASE x # <<>> /\ x = <<"..">>
      <4> DEFINE M == SubSeq(L, 1, Len(L) - 1)
      <4>1. Stack(M, Append(s, x))
        BY <2>1, <2>2, <3>2, StackNext
      <4>2. Taken(M, Append(s, x), SubSeq(r, 1, Len(r) - 1))
        <5> DEFINE t == SubSeq(r, 1, Len(r) - 1)
        <5>1. r \in Seq(Seq(T)) /\ Len(r) = Len(L) /\ \A a \in 1..Len(L) : r[a] = s[L[a]]
          BY <2>1
        <5>2. t \in Seq(Seq(T)) /\ Len(t) = Len(M)
          BY <2>4, <5>1
        <5>3. \A a \in 1..Len(M) : a \in 1..Len(L) /\ M[a] = L[a] /\ t[a] = r[a]
          BY <2>4, <5>1
        <5> HIDE DEF M, t
        <5>4. \A a \in 1..Len(M) : Append(s, x)[M[a]] = s[M[a]]
          <6>1. \A k \in 1..Len(s) : Append(s, x)[k] = s[k]
            BY <2>2
          <6> QED BY <2>4, <5>3, <6>1
        <5>5. \A a \in 1..Len(M) : t[a] = Append(s, x)[M[a]]
          BY <5>1, <5>3, <5>4
        <5> QED BY <5>2, <5>5 DEF t
      <4> HIDE DEF M, Taken
      <4> QED BY <2>2, <3>2, <4>1, <4>2
    <3>3. CASE x # <<>> /\ x # <<"..">>
      <4> DEFINE M == Append(L, Len(s) + 1)
      <4>1. Stack(M, Append(s, x))
        BY <2>1, <2>2, <3>3, StackNext
      <4>2. Taken(M, Append(s, x), Append(r, x))
        BY <2>1, <2>2, <2>4
      <4> HIDE DEF M, Taken
      <4> QED BY <2>2, <3>3, <4>1, <4>2
    <3> QED BY <3>1, <3>2, <3>3
  <2> HIDE DEF Good
  <2> QED BY <2>3, <2>5
<1> HIDE DEF S
<1>3. Seq(Seq(T)) \subseteq S
  BY <1>1, <1>2, SeqSet
<1> DEFINE s == NonEmpty(ss)
           ks == [k \in DOMAIN s |-> k]
           kept == Filter(ks, Kept(s))
<1>4. s \in Seq(Seq(T))
  BY <<>> \in Seq(T), NonEmptyAppend
<1>5. PICK L : Stack(L, s) /\ Taken(L, s, Reduce(ss))
  BY <1>3 DEF S
<1>6. Lists(kept, Kept(s))
  <2>1. ks \in Seq(Nat) /\ Len(ks) = Len(s) /\ DOMAIN s = 1..Len(s) /\ \A k \in 1..Len(s) : ks[k] = k
    BY <1>4
  <2>2. ToSet(ks) = 1..Len(s)
    BY <2>1 DEF ToSet
  <2> HIDE DEF ks, s
  <2>3. Lists(ks, 1..Len(s))
    BY <2>1, <2>2 DEF Lists, Ascending
  <2>4. Lists(Filter(ks, Kept(s)), (1..Len(s)) \cap Kept(s))
    BY <2>3, FilterLists
  <2>5. (1..Len(s)) \cap Kept(s) = Kept(s)
    BY <2>1 DEF Kept
  <2> QED BY <2>4, <2>5
<1> HIDE DEF s, ks
<1>7. kept = L
  BY <1>5, <1>6, ListsSame DEF Stack
<1>8. L \in Seq(Nat) /\ DOMAIN L = 1..Len(L) /\ Len(L) \in Nat
  BY <1>5 DEF Stack, Lists
<1>9. WalkedTo(s) = [a \in 1..Len(L) |-> s[L[a]]]
  BY <1>7, <1>8 DEF WalkedTo, ks
<1>10. Reduce(ss) = [a \in 1..Len(L) |-> s[L[a]]]
  <2>1. Reduce(ss) \in Seq(Seq(T)) /\ Len(Reduce(ss)) = Len(L) /\ \A a \in 1..Len(L) : Reduce(ss)[a] = s[L[a]]
    BY <1>5
  <2>2. Reduce(ss) = [a \in 1..Len(Reduce(ss)) |-> Reduce(ss)[a]]
    BY <2>1
  <2> QED BY <2>1, <2>2
<1> QED BY <1>9, <1>10 DEF s
-------------------------------------------------------------------------------
(* The names of a path, and of two paths with a slash between them.          *)

GoesToSecond(x, a, b) == Append(a \o b, x) = a \o Append(b, x)

\* One more element goes to the second of two lists.
LEMMA ConcatMore ==
  ASSUME NEW E, NEW a \in Seq(E), NEW b \in Seq(E), NEW x \in E
  PROVE  GoesToSecond(x, a, b)
BY DEF GoesToSecond

\* The end of two lists is that of the second.
LEMMA ConcatEnd ==
  ASSUME NEW E, NEW a \in Seq(E), NEW b \in Seq(E), NEW x \in E
  PROVE     b # <<>> => /\ (a \o b)[Len(a \o b)] = b[Len(b)] /\ b[Len(b)] \in E
                        /\ [a \o b EXCEPT ![Len(a \o b)] = x] = a \o [b EXCEPT ![Len(b)] = x]
<1>2. ASSUME b # <<>>
      PROVE  /\ (a \o b)[Len(a \o b)] = b[Len(b)] /\ b[Len(b)] \in E
             /\ [a \o b EXCEPT ![Len(a \o b)] = x] = a \o [b EXCEPT ![Len(b)] = x]
  <2> DEFINE l == Len(a)
             m == Len(b)
             c == a \o b
             d == [b EXCEPT ![m] = x]
             e == [c EXCEPT ![l + m] = x]
             f == a \o d
  <2>1. /\ l \in Nat /\ m \in Nat \ {0} /\ c \in Seq(E) /\ Len(c) = l + m /\ b[m] \in E
        /\ \A k \in 1..(l + m) : c[k] = IF k <= l THEN a[k] ELSE b[k - l]
    BY <1>2
  <2>2. d \in Seq(E) /\ Len(d) = m /\ \A k \in 1..m : d[k] = IF k = m THEN x ELSE b[k]
    BY <2>1
  <2>3. c[l + m] = b[m]
    BY <2>1
  <2> HIDE DEF c, d
  <2>4. e \in Seq(E) /\ Len(e) = l + m /\ \A k \in 1..(l + m) : e[k] = IF k = l + m THEN x ELSE c[k]
    BY <2>1
  <2>5. f \in Seq(E) /\ Len(f) = l + m /\ \A k \in 1..(l + m) : f[k] = IF k <= l THEN a[k] ELSE d[k - l]
    <3>1. d \in Seq(E) /\ Len(d) = m /\ l \in Nat /\ m \in Nat
      BY <2>1, <2>2
    <3> QED BY <3>1
  <2> HIDE DEF e, f, l, m
  <2>6. ASSUME NEW k \in 1..(l + m) PROVE e[k] = f[k]
    <3>1. CASE k <= l
      BY <2>1, <2>4, <2>5, <3>1
    <3>2. CASE k > l
      <4>1. k - l \in 1..m /\ (k = l + m <=> k - l = m)
        BY <2>1, <3>2
      <4>2. f[k] = d[k - l] /\ c[k] = b[k - l] /\ e[k] = IF k = l + m THEN x ELSE c[k]
        BY <2>1, <2>4, <2>5, <3>2
      <4>3. d[k - l] = IF k - l = m THEN x ELSE b[k - l]
        BY <2>2, <4>1
      <4> QED BY <4>1, <4>2, <4>3
    <3> QED BY <2>1, <3>1, <3>2
  <2>7. e = f
    <3>1. e = [k \in 1..(l + m) |-> e[k]] /\ f = [k \in 1..(l + m) |-> f[k]]
      BY <2>4, <2>5
    <3> QED BY <2>6, <3>1
  <2> QED BY <2>1, <2>3, <2>7 DEF c, d, e, f, l, m
<1> QED BY <1>2

\* One more token for the last segment.
Extended(ss, t) == [ss EXCEPT ![Len(ss)] = Append(@, t)]

\* The last segment of two lists is that of the second.
LEMMA ExtendedConcat ==
  ASSUME NEW T, NEW a \in Seq(Seq(T)), NEW b \in Seq(Seq(T)), b # <<>>, NEW t \in T
  PROVE  Extended(a \o b, t) = a \o Extended(b, t)
<1> DEFINE E == Seq(T)
           x == Append(b[Len(b)], t)
<1>1. a \in Seq(E) /\ b \in Seq(E)
  OBVIOUS
<1>2. b[Len(b)] \in E
  BY <1>1
<1>3. x \in E
  BY <1>2
<1>4. /\ (a \o b)[Len(a \o b)] = b[Len(b)]
      /\ [a \o b EXCEPT ![Len(a \o b)] = x] = a \o [b EXCEPT ![Len(b)] = x]
  <2> HIDE DEF E, x
  <2> QED BY <1>1, <1>3, ConcatEnd
<1> QED BY <1>4 DEF Extended

\* A slash between two paths is between their segments.
LEMMA SegmentsJoin ==
  ASSUME NEW T, "/" \in T, NEW p \in Seq(T), NEW q \in Seq(T)
  PROVE  Segments(p \o <<"/">> \o q) = Segments(p) \o Segments(q)
<1> DEFINE P == p \o <<"/">>
           S == {r \in Seq(T) : Segments(P \o r) = Segments(p) \o Segments(r)}
<1>0. P \in Seq(T)
  OBVIOUS
<1>1. <<>> \in S
  <2>1. P \o <<>> = Append(p, "/")
    OBVIOUS
  <2>2. Segments(Append(p, "/")) = Append(Segments(p), <<>>) /\ Segments(p) \in Seq(Seq(T))
    BY SegmentsAppend
  <2>3. Segments(<<>>) = <<<<>>>>
    BY SegmentsAppend
  <2>4. <<>> \in Seq(T) /\ Append(Segments(p), <<>>) = Segments(p) \o <<<<>>>>
    BY <2>2
  <2> QED BY <2>1, <2>2, <2>3, <2>4
<1>2. ASSUME NEW r \in Seq(T), r \in S, NEW t \in T PROVE Append(r, t) \in S
  <2> DEFINE a == Segments(p)
             b == Segments(r)
  <2>1. P \o Append(r, t) = Append(P \o r, t) /\ P \o r \in Seq(T) /\ Append(r, t) \in Seq(T)
    BY <1>0
  <2>2. Segments(Append(P \o r, t)) = IF t = "/" THEN Append(a \o b, <<>>) ELSE Extended(a \o b, t)
    <3> HIDE DEF P, S
    <3>1. Segments(Append(P \o r, t)) = IF t = "/" THEN Append(Segments(P \o r), <<>>)
                                        ELSE Extended(Segments(P \o r), t)
      BY <2>1, SegmentsAppend DEF Extended
    <3>2. Segments(P \o r) = a \o b
      BY <1>2 DEF S
    <3> QED BY <3>1, <3>2
  <2>3. Segments(Append(r, t)) = IF t = "/" THEN Append(b, <<>>) ELSE Extended(b, t)
    BY SegmentsAppend DEF Extended
  <2>4. a \in Seq(Seq(T)) /\ b \in Seq(Seq(T)) /\ b # <<>>
    BY SegmentsAppend
  <2> HIDE DEF a, b, P
  <2>5. Append(a \o b, <<>>) = a \o Append(b, <<>>)
    <3> DEFINE E == Seq(T)
               o == <<>>
    <3>1. a \in Seq(E) /\ b \in Seq(E) /\ o \in E
      BY <2>4
    <3> HIDE DEF E, o
    <3>2. GoesToSecond(o, a, b)
      BY <3>1, ConcatMore
    <3> QED BY <3>2 DEF o, GoesToSecond
  <2>6. Extended(a \o b, t) = a \o Extended(b, t)
    BY <2>4, ExtendedConcat
  <2>7. Segments(P \o Append(r, t)) = a \o Segments(Append(r, t))
    BY <2>1, <2>2, <2>3, <2>5, <2>6
  <2> QED BY <2>1, <2>7 DEF a
<1> HIDE DEF S
<1>3. Seq(T) \subseteq S
  BY <1>1, <1>2, SeqSet
<1> QED BY <1>3 DEF S

\* The names of two lists of segments are those of one and those of the other.
LEMMA NonEmptyJoin ==
  ASSUME NEW T, NEW a \in Seq(Seq(T)), NEW b \in Seq(Seq(T))
  PROVE  NonEmpty(a \o b) = NonEmpty(a) \o NonEmpty(b)
<1> DEFINE S == {r \in Seq(Seq(T)) : NonEmpty(a \o r) = NonEmpty(a) \o NonEmpty(r)}
<1>0. NonEmpty(a) \in Seq(Seq(T)) /\ NonEmpty(<<>>) = <<>>
  BY <<>> \in Seq(T), NonEmptyAppend
<1>1. <<>> \in S
  BY <1>0
<1>2. ASSUME NEW r \in Seq(Seq(T)), r \in S, NEW x \in Seq(T) PROVE Append(r, x) \in S
  <2>1. a \o Append(r, x) = Append(a \o r, x) /\ a \o r \in Seq(Seq(T)) /\ Append(r, x) \in Seq(Seq(T))
    OBVIOUS
  <2>2. NonEmpty(Append(a \o r, x)) = IF x = <<>> THEN NonEmpty(a \o r) ELSE Append(NonEmpty(a \o r), x)
    BY <2>1, NonEmptyAppend
  <2>3. NonEmpty(Append(r, x)) = IF x = <<>> THEN NonEmpty(r) ELSE Append(NonEmpty(r), x)
    BY NonEmptyAppend
  <2>4. NonEmpty(r) \in Seq(Seq(T)) /\ NonEmpty(a \o r) = NonEmpty(a) \o NonEmpty(r)
    BY <1>2, NonEmptyAppend
  <2>5. Append(NonEmpty(a) \o NonEmpty(r), x) = NonEmpty(a) \o Append(NonEmpty(r), x)
    <3> DEFINE E == Seq(T)
               u == NonEmpty(a)
               v == NonEmpty(r)
    <3>1. u \in Seq(E) /\ v \in Seq(E) /\ x \in E
      BY <1>0, <2>4
    <3> HIDE DEF E, u, v
    <3>2. GoesToSecond(x, u, v)
      BY <3>1, ConcatMore
    <3> QED BY <3>2 DEF u, v, GoesToSecond
  <2> QED BY <2>1, <2>2, <2>3, <2>4, <2>5
<1> HIDE DEF S
<1>3. Seq(Seq(T)) \subseteq S
  BY <1>1, <1>2, SeqSet
<1> QED BY <1>3 DEF S

\* The names of a path, of a name, and of two paths with a slash between them.
LEMMA NamesJoin ==
  ASSUME NEW T, "/" \in T, NEW p \in Seq(T), NEW q \in Seq(T)
  PROVE  Names(p) \in Seq(Seq(T)) /\ Names(p \o <<"/">> \o q) = Names(p) \o Names(q)
<1>1. Segments(p) \in Seq(Seq(T)) /\ Segments(q) \in Seq(Seq(T))
  BY SegmentsAppend
<1>2. Names(p) \in Seq(Seq(T))
  BY <1>1, <<>> \in Seq(T), NonEmptyAppend DEF Names
<1>3. NonEmpty(Segments(p) \o Segments(q)) = NonEmpty(Segments(p)) \o NonEmpty(Segments(q))
  BY <1>1, NonEmptyJoin
<1> QED BY <1>2, <1>3, SegmentsJoin DEF Names

\* An empty path has no name.
LEMMA NoName == Names(<<>>) = <<>>
<1> DEFINE T == {"?"}
<1>1. <<>> \in Seq(T) /\ "?" \in T /\ <<>> \in Seq(Seq(T))
  OBVIOUS
<1> HIDE DEF T
<1>2. Segments(<<>>) = <<<<>>>>
  BY <1>1, SegmentsAppend
<1>3. NonEmpty(<<>>) = <<>>
  BY <1>1, NonEmptyAppend
<1>4. NonEmpty(<<<<>>>>) = <<>>
  <2>1. <<<<>>>> = Append(<<>>, <<>>)
    OBVIOUS
  <2> QED BY <1>1, <1>3, <2>1, NonEmptyAppend
<1> QED BY <1>2, <1>4 DEF Names

\* A token other than the slash is a name.
LEMMA NameAlone ==
  ASSUME NEW t, t # "/"
  PROVE  Names(<<t>>) = <<<<t>>>>
<1> DEFINE T == {t}
<1>1. <<>> \in Seq(T) /\ t \in T /\ <<t>> \in Seq(T) /\ <<>> \in Seq(Seq(T))
  OBVIOUS
<1> HIDE DEF T
<1>2. Segments(<<>>) = <<<<>>>>
  BY <1>1, SegmentsAppend
<1>3. Segments(<<t>>) = Extended(Segments(<<>>), t)
  <2> DEFINE o == <<>>
  <2>0. o \in Seq(T) /\ t \in T
    BY <1>1
  <2>1. Segments(Append(o, t)) = Extended(Segments(o), t)
    <3> HIDE DEF o
    <3> QED BY <2>0, SegmentsAppend DEF Extended
  <2>2. Append(<<>>, t) = <<t>>
    OBVIOUS
  <2> QED BY <2>1, <2>2
<1>4. Segments(<<t>>) = <<<<t>>>>
  <2>1. Append(<<>>, t) = <<t>>
    OBVIOUS
  <2>2. Extended(<<<<>>>>, t) = <<Append(<<>>, t)>>
    BY DEF Extended
  <2> QED BY <1>2, <1>3, <2>1, <2>2
<1>5. NonEmpty(<<>>) = <<>>
  BY <1>1, NonEmptyAppend
<1>6. NonEmpty(<<<<t>>>>) = <<<<t>>>>
  <2>1. <<<<t>>>> = Append(<<>>, <<t>>) /\ <<t>> # <<>>
    OBVIOUS
  <2> QED BY <1>1, <1>5, <2>1, NonEmptyAppend
<1> QED BY <1>4, <1>6 DEF Names

\* path.Clean leads where the walk along the names of the path does.
LEMMA CleanWalks ==
  ASSUME NEW T, NEW p \in Seq(T)
  PROVE  Clean(p) = WalkedTo(Names(p))
<1>1. Segments(p) \in Seq(Seq(T))
  <2>1. CASE T = {}
    <3>1. p = <<>> /\ p \in Seq({"/"})
      BY <2>1
    <3>2. Segments(p) = <<<<>>>>
      BY <3>1, SegmentsAppend
    <3> QED BY <3>2, <<>> \in Seq(T)
  <2>2. CASE T # {}
    BY <2>2, SegmentsAppend
  <2> QED BY <2>1, <2>2
<1> QED BY <1>1, ReduceWalks DEF Clean, Names
-------------------------------------------------------------------------------
(* The path and the query upstream.                                          *)

\* A slash at an end of a path makes no name.
LEMMA NamesTrim ==
  ASSUME NEW T, "/" \in T, NEW p \in Seq(T)
  PROVE  /\ TrimSuffix(p) \in Seq(T) /\ Names(TrimSuffix(p)) = Names(p)
         /\ TrimPrefix(p) \in Seq(T) /\ Names(TrimPrefix(p)) = Names(p)
<1>0. <<>> \in Seq(T) /\ Names(<<>>) = <<>>
  BY NoName
<1>1. TrimSuffix(p) \in Seq(T) /\ Names(TrimSuffix(p)) = Names(p)
  <2>1. CASE p # <<>> /\ Last(p) = "/"
    <3> DEFINE f == Front(p)
    <3>1. f \in Seq(T) /\ p = f \o <<"/">> \o <<>>
      BY <2>1 DEF Last, Front
    <3>2. Names(f) \in Seq(Seq(T)) /\ Names(f \o <<"/">> \o <<>>) = Names(f) \o Names(<<>>)
      <4> HIDE DEF f
      <4> QED BY <1>0, <3>1, NamesJoin
    <3>3. Names(f) \o <<>> = Names(f)
      <4> HIDE DEF f
      <4> QED BY <3>2
    <3>4. TrimSuffix(p) = f
      BY <2>1 DEF TrimSuffix
    <3> HIDE DEF f
    <3> QED BY <1>0, <3>1, <3>2, <3>3, <3>4
  <2>2. CASE ~(p # <<>> /\ Last(p) = "/")
    BY <2>2 DEF TrimSuffix
  <2> QED BY <2>1, <2>2
<1>2. TrimPrefix(p) \in Seq(T) /\ Names(TrimPrefix(p)) = Names(p)
  <2>1. CASE p # <<>> /\ p[1] = "/"
    <3> DEFINE f == Tail(p)
    <3>1. f \in Seq(T) /\ p = <<>> \o <<"/">> \o f
      BY <2>1
    <3>2. Names(f) \in Seq(Seq(T)) /\ Names(<<>> \o <<"/">> \o f) = Names(<<>>) \o Names(f)
      <4> HIDE DEF f
      <4> QED BY <1>0, <3>1, NamesJoin
    <3>3. <<>> \o Names(f) = Names(f)
      <4> HIDE DEF f
      <4> QED BY <3>2
    <3>4. TrimPrefix(p) = f
      BY <2>1 DEF TrimPrefix
    <3> HIDE DEF f
    <3> QED BY <1>0, <3>1, <3>2, <3>3, <3>4
  <2>2. CASE ~(p # <<>> /\ p[1] = "/")
    BY <2>2 DEF TrimPrefix
  <2> QED BY <2>1, <2>2
<1> QED BY <1>1, <1>2

\* The sequence u is a, x and b.
LEMMA Between ==
  ASSUME NEW T, NEW x \in T, NEW a \in Seq(T), NEW b \in Seq(T),
         NEW w, w = a \o <<x>>, NEW u, u = w \o b
  PROVE  /\ u \in Seq(T) /\ Len(u) = Len(a) + 1 + Len(b)
         /\ \A k \in 1..Len(a) : u[k] = a[k]
         /\ u[Len(a) + 1] = x
         /\ \A k \in 1..Len(b) : u[Len(a) + 1 + k] = b[k]
<1>1. /\ Len(a) \in Nat /\ Len(b) \in Nat /\ w \in Seq(T) /\ Len(w) = Len(a) + 1 /\ w[Len(a) + 1] = x
      /\ \A k \in 1..Len(a) : w[k] = a[k]
  OBVIOUS
<1>2. /\ u \in Seq(T) /\ Len(u) = Len(w) + Len(b) /\ \A k \in 1..Len(w) : u[k] = w[k]
      /\ \A k \in 1..Len(b) : u[Len(w) + k] = b[k]
  BY <1>1
<1>3. Len(a) + 1 \in 1..Len(w) /\ \A k \in 1..Len(a) : k \in 1..Len(w)
  BY <1>1
<1> QED BY <1>1, <1>2, <1>3

\* A path ends with what is put behind another one.
LEMMA ConcatSuffix ==
  ASSUME NEW T, NEW a \in Seq(T), NEW b \in Seq(T)
  PROVE  IsSuffix(b, a \o b)
<1> DEFINE c == a \o b
           r == Reverse(b)
           t == Reverse(c)
<1>1. /\ Len(a) \in Nat /\ Len(b) \in Nat /\ c \in Seq(T) /\ Len(c) = Len(a) + Len(b)
      /\ \A k \in 1..Len(b) : c[Len(a) + k] = b[k]
  OBVIOUS
<1> HIDE DEF c
<1>2. r \in Seq(T) /\ Len(r) = Len(b) /\ \A k \in 1..Len(b) : r[k] = b[(Len(b) - k) + 1]
  BY <1>1 DEF Reverse
<1>3. t \in Seq(T) /\ Len(t) = Len(c) /\ \A k \in 1..Len(c) : t[k] = c[(Len(c) - k) + 1]
  BY <1>1 DEF Reverse
<1>4. ASSUME NEW k \in 1..Len(b) PROVE r[k] = t[k]
  <2>1. (Len(b) - k) + 1 \in 1..Len(b) /\ (Len(c) - k) + 1 = Len(a) + ((Len(b) - k) + 1) /\ k \in 1..Len(c)
    BY <1>1
  <2> HIDE DEF r, t
  <2> QED BY <1>1, <1>2, <1>3, <2>1
<1> HIDE DEF r, t
<1>5. SubSeq(r, 1, Len(b)) = SubSeq(t, 1, Len(b))
  BY <1>1, <1>2, <1>3, <1>4
<1>6. IsPrefix(r, t)
  BY <1>1, <1>2, <1>3, <1>5 DEF IsPrefix
<1> QED BY <1>6 DEF IsSuffix, r, t, c

\* The joined path has the names of both, and ends as the second does.
LEMMA JoinedPath ==
  ASSUME NEW T, "/" \in T, NEW p \in Seq(T), NEW q \in Seq(T)
  PROVE  LET j == joinMappedPath(p, q)
         IN  j \in Seq(T) /\ Names(j) = Names(p) \o Names(q) /\ IsSuffix(TrimPrefix(q), j)
<1> DEFINE b == TrimSuffix(p)
           s == TrimPrefix(q)
           j == joinMappedPath(p, q)
<1>1. b \in Seq(T) /\ Names(b) = Names(p) /\ s \in Seq(T) /\ Names(s) = Names(q)
  BY NamesTrim
<1>2. j = IF s # <<>> THEN b \o <<"/">> \o s ELSE IF b = <<>> THEN <<"/">> ELSE b
  BY DEF joinMappedPath
<1>3. Names(<<>>) = <<>> /\ <<>> \in Seq(T)
  BY NoName
<1>4. Names(p) \in Seq(Seq(T)) /\ <<"/">> \in Seq(T)
  BY NamesJoin
<1> HIDE DEF b, s, j
<1>5. CASE s # <<>>
  <2>1. j = (b \o <<"/">>) \o s /\ b \o <<"/">> \in Seq(T) /\ j \in Seq(T)
    BY <1>1, <1>2, <1>4, <1>5
  <2>2. Names(j) = Names(p) \o Names(q)
    <3>1. Names(b \o <<"/">> \o s) = Names(b) \o Names(s)
      BY <1>1, NamesJoin
    <3> QED BY <1>1, <2>1, <3>1
  <2>3. IsSuffix(s, j)
    BY <1>1, <2>1, ConcatSuffix
  <2> QED BY <2>1, <2>2, <2>3 DEF s, j
<1>6. CASE s = <<>>
  <2>0. Names(p) \o <<>> = Names(p) /\ Names(q) = <<>>
    BY <1>1, <1>3, <1>4, <1>6
  <2>1. j \in Seq(T) /\ j \o s = j
    BY <1>1, <1>2, <1>4, <1>6
  <2>2. IsSuffix(s, j)
    BY <1>1, <2>1, ConcatSuffix
  <2>3. Names(<<"/">>) = <<>>
    <3>1. Names(<<>> \o <<"/">> \o <<>>) = Names(<<>>) \o Names(<<>>)
      BY <1>3, NamesJoin
    <3>2. <<>> \o <<"/">> \o <<>> = <<"/">> /\ <<>> \o <<>> = <<>>
      OBVIOUS
    <3> QED BY <1>3, <3>1, <3>2
  <2>4. Names(j) = Names(p)
    BY <1>1, <1>2, <1>3, <1>6, <2>3
  <2> QED BY <2>0, <2>1, <2>2, <2>4 DEF s, j
<1> QED BY <1>5, <1>6

\* The least of a set of natural numbers is one of them.
LEMMA MinIn ==
  ASSUME NEW S \in SUBSET Nat, S # {}
  PROVE  Min(S) \in S /\ \A k \in S : Min(S) <= k
<1> DEFINE W == {n \in Nat : \A k \in 0..n : k \notin S}
<1>1. \E m \in S : \A k \in S : m <= k
  <2> SUFFICES ASSUME ~ \E m \in S : \A k \in S : m <= k PROVE FALSE
    OBVIOUS
  <2>1. 0 \in W
    OBVIOUS
  <2>2. ASSUME NEW n \in Nat, n \in W PROVE n + 1 \in W
    <3>1. \A k \in 0..(n + 1) : k \in 0..n \/ k = n + 1
      OBVIOUS
    <3>2. \A k \in S : k \in 0..n \/ k >= n + 1
      OBVIOUS
    <3>3. n + 1 \notin S
      BY <2>2, <3>2
    <3> QED BY <2>2, <3>1, <3>3
  <2> HIDE DEF W
  <2>3. Nat \subseteq W
    BY <2>1, <2>2, NatSet
  <2>4. \A n \in Nat : n \notin S
    BY <2>3 DEF W
  <2> QED BY <2>4
<1> QED BY <1>1 DEF Min

\* The least number of a set is its Min.
LEMMA MinIs ==
  ASSUME NEW S \in SUBSET Nat, NEW m \in S, \A k \in S : k >= m
  PROVE  Min(S) = m
<1>1. Min(S) \in S /\ \A k \in S : Min(S) <= k
  <2>1. S # {}
    OBVIOUS
  <2> QED BY <2>1, MinIn
<1> DEFINE n == Min(S)
<1>2. n \in Nat /\ n >= m /\ n <= m
  BY <1>1
<1> HIDE DEF n
<1>3. n = m
  BY <1>2
<1> QED BY <1>3 DEF n

\* Sequences are the same when their elements are.
LEMMA SameElements ==
  ASSUME NEW T, NEW a \in Seq(T), NEW b \in Seq(T), Len(a) = Len(b), \A k \in 1..Len(b) : a[k] = b[k]
  PROVE  a = b
OBVIOUS

\* The elements of a sequence are in the set that it is over.
LEMMA ElementsIn == ASSUME NEW T, NEW s \in Seq(T) PROVE ToSet(s) \subseteq T
BY DEF ToSet

\* What is cut at the first x is what stands before it and what stands behind.
LEMMA CutAt ==
  ASSUME NEW T, NEW x \in T, NEW p \in Seq(T), NEW q \in Seq(T), x \notin ToSet(p),
         NEW u, u = p \o <<x>> \o q
  PROVE  Cut(u, x) = [before |-> p, after |-> q]
<1> DEFINE n == Len(p)
<1>1. /\ n \in Nat /\ u \in Seq(T) /\ Len(u) = n + 1 + Len(q) /\ Len(q) \in Nat
      /\ \A k \in 1..n : u[k] = p[k]
      /\ u[n + 1] = x
      /\ \A k \in 1..Len(q) : u[n + 1 + k] = q[k]
  <2> DEFINE w == p \o <<x>>
  <2>1. w = p \o <<x>> /\ u = w \o q /\ n = Len(p)
    OBVIOUS
  <2>2. n \in Nat /\ Len(q) \in Nat
    OBVIOUS
  <2> HIDE DEF w, n
  <2>3. /\ u \in Seq(T) /\ Len(u) = Len(p) + 1 + Len(q)
        /\ \A k \in 1..Len(p) : u[k] = p[k]
        /\ u[Len(p) + 1] = x
        /\ \A k \in 1..Len(q) : u[Len(p) + 1 + k] = q[k]
    BY <2>1, Between
  <2> QED BY <2>1, <2>2, <2>3
<1>2. SubSeq(u, 1, n) = p
  BY <1>1
<1>3. SubSeq(u, n + 2, Len(u)) = q
  <2> DEFINE r == SubSeq(u, n + 2, Len(u))
  <2>1. r \in Seq(T) /\ Len(r) = Len(q) /\ \A k \in 1..Len(q) : r[k] = u[n + 1 + k]
    BY <1>1
  <2> HIDE DEF r
  <2>2. \A k \in 1..Len(q) : r[k] = q[k]
    BY <1>1, <2>1
  <2>3. r = q
    BY <2>1, <2>2, SameElements
  <2> QED BY <2>3 DEF r
<1>4. \A k \in 1..n : p[k] # x
  BY DEF ToSet
<1> HIDE DEF n
<1>5. Marks(u, x) \subseteq Nat /\ n + 1 \in Marks(u, x) /\ \A k \in Marks(u, x) : k >= n + 1
  BY <1>1, <1>4 DEF Marks
<1>6. Min(Marks(u, x)) = n + 1
  BY <1>5, MinIs
<1>7. SubSeq(u, 1, (n + 1) - 1) = p /\ SubSeq(u, (n + 1) + 1, Len(u)) = q
  BY <1>1, <1>2, <1>3
<1> QED BY <1>5, <1>6, <1>7 DEF Cut

\* Nothing is cut where there is no x.
LEMMA CutNowhere ==
  ASSUME NEW u, NEW x, x \notin ToSet(u)
  PROVE  Cut(u, x) = [before |-> u, after |-> <<>>]
<1>1. Marks(u, x) = {}
  BY DEF Marks, ToSet
<1> QED BY <1>1 DEF Cut

\* A path and a query without special tokens come back from the URL they are put into.
LEMMA ParseBuilt ==
  ASSUME NEW T, "?" \in T, NEW p \in Seq(T), NEW q \in Seq(T), Verbatim(p, q)
  PROVE  Parse(TargetURL([path |-> p, query |-> q])) = [path |-> p, query |-> q]
<1> DEFINE u == TargetURL([path |-> p, query |-> q])
<1>1. "?" \notin ToSet(p) /\ "#" \notin ToSet(p) /\ "#" \notin ToSet(q)
      /\ ToSet(p) \cap DOMAIN Decoded = {}
  BY DEF Verbatim
<1>2. Unescape(p) = p
  <2>1. \A k \in DOMAIN p : p[k] \notin DOMAIN Decoded
    BY <1>1 DEF ToSet
  <2>2. Unescape(p) = [k \in DOMAIN p |-> p[k]]
    BY <2>1 DEF Unescape
  <2> QED BY <2>2
<1>3. Cut(u, "?") = [before |-> p, after |-> q]
  <2>1. CASE q = <<>>
    BY <1>1, <2>1, CutNowhere DEF TargetURL
  <2>2. CASE q # <<>>
    <3>1. u = p \o <<"?">> \o q
      BY <2>2 DEF TargetURL
    <3> HIDE DEF u
    <3> QED BY <1>1, <3>1, CutAt
  <2> QED BY <2>1, <2>2
<1>4. "#" \notin ToSet(u)
  <2>1. CASE q = <<>>
    BY <1>1, <2>1 DEF TargetURL
  <2>2. CASE q # <<>>
    <3> DEFINE S == ToSet(p) \cup ToSet(q) \cup {"?"}
    <3>1. p \in Seq(ToSet(p)) /\ q \in Seq(ToSet(q)) /\ "#" \notin S
          /\ ToSet(p) \subseteq S /\ ToSet(q) \subseteq S /\ "?" \in S
      BY <1>1 DEF ToSet
    <3> HIDE DEF S
    <3>2. p \in Seq(S) /\ q \in Seq(S) /\ <<"?">> \in Seq(S)
      BY <3>1, SeqIn
    <3>3. u = p \o <<"?">> \o q
      BY <2>2 DEF TargetURL
    <3> HIDE DEF u
    <3>4. u \in Seq(S)
      BY <3>2, <3>3
    <3> QED BY <3>1, <3>4 DEF ToSet
  <2> QED BY <2>1, <2>2
<1> HIDE DEF u
<1>5. WithoutFragment(u) = u
  BY <1>4, CutNowhere DEF WithoutFragment
<1>6. Parse(u) = [path |-> p, query |-> q]
  BY <1>2, <1>3, <1>5 DEF Parse
<1> QED BY <1>6 DEF u
-------------------------------------------------------------------------------
(* Where the rule of a flow leads it.                                        *)

\* What a flow and its rules say is made of tokens.
Texts == /\ Sequence(path) /\ Sequence(query)
         /\ \A k \in Rule :
              LET r == raw[k]
              IN  /\ Sequence(r.url.path) /\ Sequence(r.url.query) /\ r.index # "/"
                  /\ Sequence(r.match.path) /\ \A a \in ToSet(r.match.path) : Sequence(a.text)

\* Until somebody changes the files, a map_local rule for a directory has chosen
\* the file by the path, and it still matches that.
FileIs == own # 0 /\ raw[own].type = "map_local" /\ changes = 0 /\ base = "dir" =>
            own \in Rule /\ Applies(own) /\ file = Below(own)

\* The map_remote rule matches, and the URL upstream is the one it makes.
UrlIs == /\ remote # 0 => remote \in Rule /\ Applies(remote)
         /\ \A k \in DOMAIN sent : sent[k].url = Parse(TargetURL(Target))

Where == Texts /\ FileIs /\ UrlIs

\* A match ends within the path.
LEMMA MatchEnds ==
  ASSUME NEW re, NEW p, Sequence(re), \A a \in ToSet(re) : Sequence(a.text), Sequence(p),
         MatchString(re, p)
  PROVE  FindStringIndex(re, p)[2] \in 0..Len(p)
<1> DEFINE S == Starts(re, p)
           from == Min(S)
           O == {k \in DOMAIN re : Occurs(re[k], p, from)}
           a == re[Min(O)]
<1>1. re \in Seq(ToSet(re)) /\ DOMAIN re = 1..Len(re) /\ Len(re) \in Nat /\ Len(p) \in Nat
  BY DEF Sequence
<1>2. S \in SUBSET Nat /\ S # {}
  BY <1>1 DEF Starts, MatchString
<1>3. from \in S
  BY <1>2, MinIn
<1>4. from \in 0..Len(p) /\ \E b \in ToSet(re) : Occurs(b, p, from)
  BY <1>3 DEF Starts
<1>5. O \in SUBSET Nat /\ O # {}
  BY <1>1, <1>4 DEF ToSet
<1>6. Min(O) \in O
  BY <1>5, MinIn
<1>7. Occurs(a, p, from) /\ a \in ToSet(re)
  BY <1>6 DEF ToSet
<1>8. Len(a.text) \in Nat /\ from + Len(a.text) <= Len(p)
  <2>1. Sequence(a.text)
    BY <1>7
  <2> HIDE DEF a, from
  <2> QED BY <1>7, <2>1 DEF Sequence, Occurs
<1>9. FindStringIndex(re, p)[2] = from + Len(a.text)
  BY DEF FindStringIndex
<1> HIDE DEF from, a
<1> QED BY <1>1, <1>4, <1>8, <1>9

\* What is left of the path behind the match, and what is stripped to.
LEMMA RestIs ==
  ASSUME Texts, NEW k \in Rule, Applies(k), NEW T, ToSet(path) \subseteq T, "/" \in T
  PROVE  LET s == Stripped(raw[k].match.path, path)
         IN  /\ RestOf(k) \in Seq(T)
             /\ s = IF RestOf(k) = <<>> THEN <<"/">> ELSE RestOf(k)
<1> DEFINE re == raw[k].match.path
           m == FindStringIndex(re, path)[2]
<1>1. Sequence(re) /\ (\A a \in ToSet(re) : Sequence(a.text)) /\ Sequence(path)
  BY DEF Texts
<1>2. MatchString(re, path)
  BY DEF Applies, Matches
<1>3. m \in 0..Len(path)
  BY <1>1, <1>2, MatchEnds
<1>4. path \in Seq(T)
  BY <1>1, SeqIn DEF Sequence
<1> HIDE DEF m
<1>5. SubSeq(path, m + 1, Len(path)) \in Seq(T)
  BY <1>3, <1>4
<1>6. RestOf(k) = SubSeq(path, m + 1, Len(path))
  BY DEF RestOf, m
<1>7. Stripped(re, path) = IF RestOf(k) = <<>> THEN <<"/">> ELSE RestOf(k)
  BY DEF RestOf, Stripped
<1> QED BY <1>5, <1>6, <1>7

\* The file of a map_local rule is where the walk along the rest of the path ends.
LEMMA FileWalked ==
  ASSUME Texts, NEW k \in Rule, Applies(k)
  PROVE  LET rest  == RestOf(k)
             index == IF rest = <<>> \/ Last(rest) = "/" THEN <<<<raw[k].index>>>> ELSE <<>>
         IN  Below(k) = WalkedTo(Names(rest) \o index)
<1> DEFINE x == raw[k].index
           T == ToSet(path) \cup {"/", x}
           rest == RestOf(k)
           s == Stripped(raw[k].match.path, path)
           index == IF rest = <<>> \/ Last(rest) = "/" THEN <<<<x>>>> ELSE <<>>
           q == IF Last(s) = "/" THEN Append(s, x) ELSE s
<1>1. x \in T /\ "/" \in T /\ x # "/" /\ ToSet(path) \subseteq T
  BY DEF Texts
<1> HIDE DEF T
<1>2. rest \in Seq(T) /\ s = IF rest = <<>> THEN <<"/">> ELSE rest
  BY <1>1, RestIs
<1>3. Below(k) = Clean(q)
  BY DEF Below, LocalTarget
<1>4. Names(<<>>) = <<>> /\ Names(<<x>>) = <<<<x>>>>
  BY <1>1, NoName, NameAlone
<1>5. <<x>> \in Seq(T) /\ <<>> \in Seq(T) /\ <<"/">> \in Seq(T)
  BY <1>1
<1> HIDE DEF x, rest, s
<1>6. q \in Seq(T) /\ Names(q) = Names(rest) \o index
  <2>1. CASE rest = <<>>
    <3>1. q = Append(<<"/">>, x) /\ q \in Seq(T) /\ index = <<<<x>>>>
      BY <1>1, <1>2, <2>1 DEF Last
    <3> HIDE DEF q, index
    <3>2. Append(<<"/">>, x) = <<>> \o <<"/">> \o <<x>>
      OBVIOUS
    <3>3. Names(<<>> \o <<"/">> \o <<x>>) = Names(<<>>) \o Names(<<x>>)
      BY <1>1, <1>5, NamesJoin
    <3> QED BY <1>4, <2>1, <3>1, <3>2, <3>3
  <2>2. CASE rest # <<>> /\ Last(rest) = "/"
    <3> DEFINE f == Front(rest)
    <3>1. f \in Seq(T) /\ rest = f \o <<"/">> \o <<>>
      BY <1>2, <2>2 DEF Front, Last
    <3>2. q = Append(rest, x) /\ index = <<<<x>>>>
      BY <1>2, <2>2
    <3>3. q \in Seq(T) /\ q = f \o <<"/">> \o <<x>>
      <4> HIDE DEF q
      <4>1. q \in Seq(T)
        BY <1>1, <1>2, <3>2
      <4> HIDE DEF f
      <4>2. Append(f \o <<"/">> \o <<>>, x) = f \o <<"/">> \o <<x>>
        BY <1>1, <3>1
      <4> QED BY <3>1, <3>2, <4>1, <4>2
    <3> HIDE DEF f, q, index
    <3>4. Names(f \o <<"/">> \o <<x>>) = Names(f) \o Names(<<x>>)
      BY <1>1, <1>5, <3>1, NamesJoin
    <3>5. Names(f \o <<"/">> \o <<>>) = Names(f) \o Names(<<>>) /\ Names(f) \in Seq(Seq(T))
      BY <1>1, <1>5, <3>1, NamesJoin
    <3>6. Names(f) \o <<>> = Names(f)
      BY <3>5
    <3> QED BY <1>4, <3>1, <3>2, <3>3, <3>4, <3>5, <3>6
  <2>3. CASE rest # <<>> /\ Last(rest) # "/"
    <3>1. q = rest /\ index = <<>>
      BY <1>2, <2>3
    <3>2. Names(rest) \in Seq(Seq(T))
      BY <1>1, <1>2, NamesJoin
    <3>3. Names(rest) \o <<>> = Names(rest)
      BY <3>2
    <3> HIDE DEF q, index
    <3> QED BY <1>2, <3>1, <3>3
  <2> QED BY <2>1, <2>2, <2>3
<1>7. Clean(q) = WalkedTo(Names(q))
  <2> HIDE DEF q
  <2> QED BY <1>6, CleanWalks
<1>8. Below(k) = WalkedTo(Names(rest) \o index)
  <2> HIDE DEF q, index
  <2> QED BY <1>3, <1>6, <1>7
<1> QED BY <1>8 DEF rest, x, index

\* The queries of a rule and of a flow in one.
LEMMA QueryJoined ==
  ASSUME NEW T, "&" \in T, NEW a \in Seq(T), NEW b \in Seq(T)
  PROVE  LET and == IF a # <<>> /\ b # <<>> THEN <<"&">> ELSE <<>>
         IN  JoinQuery(a, b) \in Seq(T) /\ JoinQuery(a, b) = a \o and \o b
<1> DEFINE j == JoinQuery(a, b)
<1>1. CASE a = <<>>
  BY <1>1 DEF JoinQuery
<1>2. CASE a # <<>> /\ b = <<>>
  BY <1>2 DEF JoinQuery
<1>3. CASE a # <<>> /\ b # <<>>
  BY <1>3 DEF JoinQuery
<1> QED BY <1>1, <1>2, <1>3

\* The URL upstream says what the flow and its map_remote rule say.
LEMMA UrlMade ==
  ASSUME Texts, remote # 0 => remote \in Rule /\ Applies(remote)
  PROVE  LET url == Parse(TargetURL(Target))
             to  == raw[remote].url
             and == IF to.query # <<>> /\ query # <<>> THEN <<"&">> ELSE <<>>
         IN  IF remote = 0 THEN Verbatim(path, query) => url = [path |-> path, query |-> query]
             ELSE Verbatim(to.path, to.query) /\ Verbatim(RestOf(remote), query) =>
                    /\ Names(url.path) = Names(to.path) \o Names(RestOf(remote))
                    /\ IsSuffix(TrimPrefix(RestOf(remote)), url.path)
                    /\ url.query = to.query \o and \o query
<1> DEFINE url == Parse(TargetURL(Target))
           to == raw[remote].url
           and == IF to.query # <<>> /\ query # <<>> THEN <<"&">> ELSE <<>>
<1>1. Sequence(path) /\ Sequence(query)
  BY DEF Texts
<1>2. ASSUME remote = 0, Verbatim(path, query)
      PROVE  url = [path |-> path, query |-> query]
  <2> DEFINE T == ToSet(path) \cup ToSet(query) \cup {"?"}
  <2>1. path \in Seq(T) /\ query \in Seq(T)
    <3> T = T /\ ToSet(path) \subseteq T /\ ToSet(query) \subseteq T
      OBVIOUS
    <3> HIDE DEF T
    <3> QED BY <1>1, SeqIn DEF Sequence
  <2>2. Target = [path |-> path, query |-> query]
    BY <1>2 DEF Target
  <2>3. "?" \in T
    OBVIOUS
  <2> HIDE DEF T
  <2> QED BY <1>2, <2>1, <2>2, <2>3, ParseBuilt
<1>3. ASSUME remote # 0, Verbatim(to.path, to.query), Verbatim(RestOf(remote), query)
      PROVE  /\ Names(url.path) = Names(to.path) \o Names(RestOf(remote))
             /\ IsSuffix(TrimPrefix(RestOf(remote)), url.path)
             /\ url.query = to.query \o and \o query
  <2> DEFINE rest == RestOf(remote)
             q == Stripped(raw[remote].match.path, path)
             j == joinMappedPath(to.path, q)
             e == JoinQuery(to.query, query)
             X == {"?", "#"} \cup DOMAIN Decoded
             P == ToSet(to.path) \cup ToSet(rest) \cup {"/"}
             Q == ToSet(to.query) \cup ToSet(query) \cup {"&"}
             T == P \cup Q \cup {"?"}
  <2>1. remote \in Rule /\ Applies(remote)
    BY <1>3
  <2>2. Sequence(to.path) /\ Sequence(to.query)
    BY <2>1 DEF Texts
  <2>3. Target = [path |-> j, query |-> e]
    BY <1>3 DEF Target, RemoteTarget
  <2>4. Sequence(rest) /\ q = IF rest = <<>> THEN <<"/">> ELSE rest
    <3> DEFINE S == ToSet(path) \cup {"/"}
    <3>1. rest \in Seq(S) /\ q = IF rest = <<>> THEN <<"/">> ELSE rest
      BY <2>1, RestIs
    <3> QED BY <3>1 DEF Sequence, ToSet
  <2>5. /\ ToSet(to.path) \subseteq P /\ ToSet(rest) \subseteq P /\ "/" \in P
        /\ ToSet(to.query) \subseteq Q /\ ToSet(query) \subseteq Q /\ "&" \in Q
        /\ P \subseteq T /\ Q \subseteq T /\ "?" \in T
    OBVIOUS
  <2>6. P \cap X = {} /\ "#" \notin Q
    <3>1. ToSet(to.path) \cap X = {} /\ ToSet(rest) \cap X = {}
          /\ "#" \notin ToSet(to.query) /\ "#" \notin ToSet(query)
      BY <1>3 DEF Verbatim
    <3>2. "/" \notin X
      BY EscapeAssumption
    <3> QED BY <3>1, <3>2
  <2> HIDE DEF P, Q, T, X, j, e, q, to, rest
  <2>7. /\ to.path \in Seq(P) /\ rest \in Seq(P)
        /\ to.query \in Seq(Q) /\ query \in Seq(Q)
    BY <1>1, <2>2, <2>4, <2>5, SeqIn DEF Sequence
  <2>8. q \in Seq(P) /\ Names(q) = Names(rest) /\ TrimPrefix(q) = TrimPrefix(rest)
    <3>1. CASE rest = <<>>
      <4>1. q = <<"/">> /\ q \in Seq(P)
        BY <2>4, <2>5, <3>1
      <4>2. TrimPrefix(<<"/">>) = <<>> /\ TrimPrefix(<<>>) = <<>>
        BY DEF TrimPrefix
      <4>3. Names(<<>>) = Names(q)
        BY <2>5, <4>1, <4>2, NamesTrim
      <4> QED BY <3>1, <4>1, <4>2, <4>3
    <3>2. CASE rest # <<>>
      BY <2>4, <2>7, <3>2
    <3> QED BY <3>1, <3>2
  <2>9. j \in Seq(P) /\ Names(j) = Names(to.path) \o Names(q) /\ IsSuffix(TrimPrefix(q), j)
    BY <2>5, <2>7, <2>8, JoinedPath DEF j
  <2>10. e \in Seq(Q) /\ e = to.query \o and \o query
    BY <2>5, <2>7, QueryJoined DEF e
  <2>11. Verbatim(j, e)
    <3>1. ToSet(j) \subseteq P /\ ToSet(e) \subseteq Q
      BY <2>9, <2>10, ElementsIn
    <3> QED BY <2>6, <3>1 DEF Verbatim, X
  <2>12. j \in Seq(T) /\ e \in Seq(T)
    BY <2>5, <2>9, <2>10, SeqIn
  <2>13. url = [path |-> j, query |-> e]
    BY <2>3, <2>5, <2>11, <2>12, ParseBuilt
  <2> HIDE DEF url, and
  <2>14. url.path = j /\ url.query = e
    BY <2>13
  <2>15. /\ Names(url.path) = Names(to.path) \o Names(rest)
         /\ IsSuffix(TrimPrefix(rest), url.path)
         /\ url.query = to.query \o and \o query
    BY <2>8, <2>9, <2>10, <2>14
  <2> QED BY <2>15 DEF rest
<1> HIDE DEF url, and
<1> QED BY <1>2, <1>3 DEF url, and

\* No flow has made a request or chosen a file when it begins.
LEMMA WhereInit == Init => Where
<1> SUFFICES ASSUME Init PROVE Where
  OBVIOUS
<1>1. PICK f \in Flows : raw = f.rules /\ path = f.path /\ query = f.query
  BY DEF Init
<1>2. Texts
  BY <1>1, TextAssumption DEF Texts, Rule
<1>3. own = 0 /\ remote = 0 /\ sent = <<>>
  BY DEF Init
<1>4. FileIs /\ UrlIs
  BY <1>3 DEF FileIs, UrlIs
<1> QED BY <1>2, <1>4 DEF Where

\* A flow keeps its texts, and the URL upstream with its map_remote rule.
LEMMA SameTexts ==
  ASSUME raw' = raw, request' = request
  PROVE  Texts' = Texts /\ Rule' = Rule /\ (remote' = remote => Target' = Target)
BY DEF request, Texts, Rule, Target

\* Only a map_local rule that matches chooses a file, and only from the path.
LEMMA FileStep ==
  ASSUME IInv, Route, TypeInv, FileIs, Next
  PROVE  FileIs'
<1>1. raw' = raw /\ request' = request
  BY DEF Next, Run, Change, Compile, Step2, Step3, Skip, NoMapped, MatchMap, ResolveLocal, serveLocal,
         Step4, ReadBody, BuildFails, RoundTrip, Step5, Respond, Write, flow
<1>2. Rule' = Rule /\ \A k : Applies(k)' = Applies(k) /\ Below(k)' = Below(k)
  BY <1>1, SameRules DEF Rule
<1>3. CASE UNCHANGED <<own, file, base, changes>>
  BY <1>1, <1>2, <1>3 DEF FileIs
<1>4. CASE Change
  BY <1>4 DEF Change, TypeInv, FilesTyped, FileIs
<1>5. CASE Step3 /\ own' # own
  <2>1. own' = Rewriting[1] /\ Rewriting # <<>>
    BY <1>5 DEF Step3
  <2>2. raw[own'].type = "redirect"
    BY <1>5, <2>1, FirstRewriting DEF Step3, Route, Compiled, LeastOf, Redirects, Active
  <2> QED BY <1>1, <2>2 DEF FileIs
<1>6. CASE MatchMap
  BY <1>1, <1>6 DEF MatchMap, FileIs
<1>7. CASE ResolveLocal /\ ~ UNCHANGED <<own, file>>
  <2>1. own' = This /\ base' = base /\ (base = "dir" => file' = Below(This))
    BY <1>7 DEF ResolveLocal, Refuse, disk
  <2>2. This \in Rule /\ Applies(This)
    BY <1>7, FirstMapped DEF ResolveLocal, LeastOf, LocalRules, Active
  <2> QED BY <1>2, <2>1, <2>2 DEF FileIs
<1> QED BY <1>3, <1>4, <1>5, <1>6, <1>7 DEF Next, Run, Compile, Step2, Step3, Skip, NoMapped, ResolveLocal, serveLocal,
                                           Step4, ReadBody, BuildFails, RoundTrip, Step5, Respond, Write, disk

\* Only a map_remote rule that matches changes the URL upstream, before there is
\* a request.
LEMMA UrlStep ==
  ASSUME IInv, Route, UrlIs, Next
  PROVE  UrlIs'
<1>1. raw' = raw /\ request' = request
  BY DEF Next, Run, Change, Compile, Step2, Step3, Skip, NoMapped, MatchMap, ResolveLocal, serveLocal,
         Step4, ReadBody, BuildFails, RoundTrip, Step5, Respond, Write, flow
<1>2. Rule' = Rule /\ (remote' = remote => Target' = Target) /\ \A k : Applies(k)' = Applies(k)
  BY <1>1, SameRules, SameTexts
<1>3. CASE UNCHANGED <<remote, sent>>
  BY <1>2, <1>3 DEF UrlIs
<1>4. CASE Step4
  <2>1. sent' = <<>>
    BY <1>4 DEF Step4, IInv, NothingYet, Before
  <2>2. Remote = Matching(OfType({"map_remote"})) /\ remote' = IF Remote = <<>> THEN 0 ELSE Remote[1]
    BY <1>4 DEF Step4, Remote, Route, Compiled, RuleSet
  <2>3. remote' # 0 => remote' \in Rule /\ Applies(remote')
    BY <2>2, FirstMatch DEF Route, LeastOf, Active
  <2> QED BY <1>2, <2>1, <2>3 DEF UrlIs
<1>5. CASE RoundTrip
  <2>1. sent = <<>> /\ remote' = remote
    BY <1>5 DEF RoundTrip, IInv, NothingYet, Before
  <2>2. \A k \in DOMAIN sent' : sent'[k].url = Parse(TargetURL(Target))
    BY <1>5, <2>1 DEF RoundTrip, Requests
  <2> QED BY <1>2, <2>1, <2>2 DEF UrlIs
<1> QED BY <1>3, <1>4, <1>5 DEF Next, Run, Change, Compile, Step2, Step3, Skip, NoMapped, MatchMap, ResolveLocal, serveLocal,
                               ReadBody, BuildFails, Step5, Respond, Write

\* The file and the URL are what the rules make of the flow, throughout.
LEMMA WhereInvariance == Spec => []Where
<1>1. IInv /\ Route /\ TypeInv /\ Where /\ [Next]_vars => Where'
  <2> SUFFICES ASSUME IInv, Route, TypeInv, Where, [Next]_vars PROVE Where'
    OBVIOUS
  <2>1. CASE Next
    <3>1. raw' = raw /\ request' = request
      BY <2>1 DEF Next, Run, Change, Compile, Step2, Step3, Skip, NoMapped, MatchMap, ResolveLocal, serveLocal,
                  Step4, ReadBody, BuildFails, RoundTrip, Step5, Respond, Write, flow
    <3>2. Texts'
      BY <3>1, SameTexts DEF Where
    <3>3. FileIs' /\ UrlIs'
      BY <2>1, FileStep, UrlStep DEF Where
    <3> QED BY <3>2, <3>3 DEF Where
  <2>2. CASE UNCHANGED vars
    <3>1. raw' = raw /\ request' = request /\ remote' = remote
      BY <2>2 DEF vars, flow
    <3>2. Texts' = Texts /\ Rule' = Rule /\ Target' = Target
      BY <3>1, SameTexts
    <3>3. \A k : Applies(k)' = Applies(k) /\ Below(k)' = Below(k)
      BY <3>1, SameRules
    <3> QED BY <2>2, <3>2, <3>3 DEF vars, disk, flow, Where, FileIs, UrlIs
  <2> QED BY <2>1, <2>2
<1>2. Spec => [](IInv /\ Route /\ TypeInv)
  BY TypeInvariance, PTL
<1> QED BY <1>1, <1>2, WhereInit, PTL DEF Spec

\* A map_local rule for a directory serves the file where a walk along the rest
\* of the path ends, which never leaves the directory; the request upstream has
\* path and query of the flow, behind those of its map_remote rule, as far as they
\* come back from the URL (Verbatim): for every path, rule and expression.
THEOREM TargetOKHolds == Spec => []TargetOK
<1>1. Where => TargetOK
  <2> SUFFICES ASSUME Where PROVE TargetOK
    OBVIOUS
  <2>1. ASSUME own # 0 /\ raw[own].type = "map_local" /\ changes = 0 /\ base = "dir"
        PROVE  LET rest  == RestOf(own)
                   index == IF rest = <<>> \/ Last(rest) = "/" THEN <<<<raw[own].index>>>> ELSE <<>>
               IN  file = WalkedTo(Names(rest) \o index)
    BY <2>1, FileWalked DEF Where, FileIs
  <2>2. ASSUME NEW k \in DOMAIN sent
        PROVE  LET url == sent[k].url
                   to  == raw[remote].url
                   and == IF to.query # <<>> /\ query # <<>> THEN <<"&">> ELSE <<>>
               IN  IF remote = 0 THEN Verbatim(path, query) => url = [path |-> path, query |-> query]
                   ELSE Verbatim(to.path, to.query) /\ Verbatim(RestOf(remote), query) =>
                          /\ Names(url.path) = Names(to.path) \o Names(RestOf(remote))
                          /\ IsSuffix(TrimPrefix(RestOf(remote)), url.path)
                          /\ url.query = to.query \o and \o query
    <3>1. sent[k].url = Parse(TargetURL(Target))
      BY DEF Where, UrlIs
    <3> QED BY <3>1, UrlMade DEF Where, UrlIs
  <2> QED BY <2>1, <2>2 DEF TargetOK
<1> QED BY <1>1, WhereInvariance, PTL
===============================================================================
