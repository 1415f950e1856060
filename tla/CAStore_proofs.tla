---------------------------- MODULE CAStore_proofs ----------------------------
(* Proofs about CAStore, for any number of processes, of starts and of       *)
(* crashes.  Most of the invariant is about Loads in turn: the files between *)
(* them are a complete pair, or will never be one.                           *)
EXTENDS CAStore, TLAPS

Writing == {"openKey", "writeKey", "openCert", "writeCert"}

\* A process has generated or loaded what it writes.
HasPair == \A p \in Process : /\ pc[p] \in Writing => made[p] \in Pair
                              /\ Loaded(p) => caCert[p] \in Pair

OneAtATime == \A p, q \in Process : Loading(p) /\ Loading(q) => p = q

\* The certificate comes after the key, and belongs to it.
KeyFirst == /\ key = Absent => crt = Absent
            /\ crt \in Pair => key = crt

\* How far the files are when a process generates.
Progress == \A p \in Process :
  /\ pc[p] \in {"generate", "openKey"} => key = Absent /\ crt = Absent
  /\ pc[p] = "writeKey" => key = Torn /\ crt = Absent
  /\ pc[p] = "openCert" => key = made[p] /\ crt = Absent
  /\ pc[p] = "writeCert" => key = made[p] /\ crt = Torn

\* What a process has read is what the files still hold.
ReadOK == \A p \in Process :
  /\ pc[p] = "readCert" => caKey[p] = key /\ key \in Pair
  /\ Loaded(p) => caKey[p] = key /\ caCert[p] = crt /\ key \in Pair /\ crt \in Pair

Bundled == p12 \in Pair => crt = p12

InTurnInv == OneAtATime /\ KeyFirst /\ Progress /\ ReadOK /\ Bundled

IInv == TypeOK /\ HasPair /\ (inTurn => InTurnInv)
-------------------------------------------------------------------------------
\* The directory of a first run, or of one with a complete root.
LEMMA InitInv == Init => IInv
BY DistinctFiles DEF Init, IInv, TypeOK, HasPair, InTurnInv, OneAtATime, KeyFirst, Progress,
   ReadOK, Bundled, Loading, Loaded, Writing, File, PCs

\* No step gives a file or a process what it cannot hold.
LEMMA TypeStep == ASSUME IInv, [Next]_vars PROVE TypeOK' /\ HasPair'
<1> USE DEF IInv, TypeOK, HasPair, Loaded, Writing, File, PCs, Goto, files
<1>1. ASSUME NEW p \in Process, Start(p) \/ Exit(p) PROVE TypeOK' /\ HasPair'
  BY <1>1 DEF Start, Exit
<1>2. ASSUME NEW p \in Process, StatKey(p) \/ Generate(p) PROVE TypeOK' /\ HasPair'
  BY <1>2 DEF StatKey, Generate
<1>3. ASSUME NEW p \in Process, OpenKey(p) \/ WriteKey(p) \/ OpenCert(p) \/ WriteCert(p)
      PROVE TypeOK' /\ HasPair'
  BY <1>3 DEF OpenKey, WriteKey, OpenCert, WriteCert
<1>4. ASSUME NEW p \in Process, ReadKey(p) \/ ReadCert(p) \/ LoadError(p) PROVE TypeOK' /\ HasPair'
  BY <1>4 DEF ReadKey, ReadCert, LoadError, Parses
<1>5. ASSUME NEW p \in Process, StatP12(p) \/ OpenP12(p) \/ WriteP12(p)
      PROVE TypeOK' /\ HasPair'
  BY <1>5 DEF StatP12, OpenP12, WriteP12
<1>6. ASSUME NEW p \in Process, P12Error(p) \/ WriteError(p) PROVE TypeOK' /\ HasPair'
  BY <1>6 DEF P12Error, WriteError
<1>7. CASE UNCHANGED vars
  BY <1>7 DEF vars
<1> QED
  BY <1>1, <1>2, <1>3, <1>4, <1>5, <1>6, <1>7 DEF Next, Load

\* Loads in turn: a start finds no other process in Load, and nothing else lets
\* a process into it.
LEMMA OneAtATimeStep ==
  ASSUME IInv, inTurn, Next PROVE OneAtATime'
<1> USE DEF IInv, TypeOK, InTurnInv, OneAtATime, Loading, Goto
<1>1. ASSUME NEW p \in Process, Start(p) PROVE OneAtATime'
  BY <1>1 DEF Start
<1>2. ASSUME NEW p \in Process, Load(p) PROVE OneAtATime'
  <2>1. Loading(p) /\ \A q \in Process \ {p} : pc'[q] = pc[q]
    BY <1>2 DEF Load, StatKey, Generate, OpenKey, WriteKey, OpenCert, WriteCert, ReadKey,
       ReadCert, LoadError, StatP12, OpenP12, WriteP12, P12Error, WriteError
  <2> QED BY <2>1
<1>3. ASSUME NEW p \in Process, Exit(p) PROVE OneAtATime'
  BY <1>3 DEF Exit
<1> QED BY <1>1, <1>2, <1>3 DEF Next

\* Loads in turn: a step keeps the files a pair, or what will never be one.
LEMMA FilesStep ==
  ASSUME IInv, inTurn, Next PROVE KeyFirst' /\ Progress' /\ ReadOK' /\ Bundled'
<1> USE DistinctFiles DEF IInv, TypeOK, HasPair, InTurnInv, OneAtATime, KeyFirst, Progress, ReadOK, Bundled,
          Loading, Loaded, Writing, File, Goto, files
<1>1. ASSUME NEW p \in Process, Start(p) \/ Exit(p) PROVE KeyFirst' /\ Progress' /\ ReadOK' /\ Bundled'
  BY <1>1 DEF Start, Exit
<1>2. ASSUME NEW p \in Process, StatKey(p) PROVE KeyFirst' /\ Progress' /\ ReadOK' /\ Bundled'
  BY <1>2 DEF StatKey, Missing
<1>3. ASSUME NEW p \in Process, Generate(p) PROVE KeyFirst' /\ Progress' /\ ReadOK' /\ Bundled'
  BY <1>3 DEF Generate
<1>4. ASSUME NEW p \in Process, OpenKey(p) PROVE KeyFirst' /\ Progress' /\ ReadOK' /\ Bundled'
  BY <1>4 DEF OpenKey
<1>5. ASSUME NEW p \in Process, WriteKey(p) PROVE KeyFirst' /\ Progress' /\ ReadOK' /\ Bundled'
  BY <1>5 DEF WriteKey
<1>6. ASSUME NEW p \in Process, OpenCert(p) PROVE KeyFirst' /\ Progress' /\ ReadOK' /\ Bundled'
  BY <1>6 DEF OpenCert
<1>7. ASSUME NEW p \in Process, WriteCert(p) PROVE KeyFirst' /\ Progress' /\ ReadOK' /\ Bundled'
  BY <1>7 DEF WriteCert
<1>8. ASSUME NEW p \in Process, ReadKey(p) \/ ReadCert(p) \/ LoadError(p)
      PROVE KeyFirst' /\ Progress' /\ ReadOK' /\ Bundled'
  BY <1>8 DEF ReadKey, ReadCert, LoadError, Parses
<1>9. ASSUME NEW p \in Process, StatP12(p) \/ OpenP12(p) \/ WriteP12(p)
      PROVE KeyFirst' /\ Progress' /\ ReadOK' /\ Bundled'
  BY <1>9 DEF StatP12, OpenP12, WriteP12
<1>10. ASSUME NEW p \in Process, P12Error(p) \/ WriteError(p)
       PROVE KeyFirst' /\ Progress' /\ ReadOK' /\ Bundled'
  BY <1>10 DEF P12Error, WriteError
<1> QED
  BY <1>1, <1>2, <1>3, <1>4, <1>5, <1>6, <1>7, <1>8, <1>9, <1>10 DEF Next, Load

\* inTurn is chosen once.
LEMMA InTurnFixed == ASSUME Next PROVE inTurn' = inTurn
BY DEF Next, Load, Start, Exit, StatKey, Generate, OpenKey, WriteKey, OpenCert, WriteCert,
   ReadKey, ReadCert, LoadError, StatP12, OpenP12, WriteP12, P12Error, WriteError, files

\* IInv holds however often processes are started, killed and started again.
THEOREM Invariance == Spec => []IInv
<1>1. IInv /\ [Next]_vars => IInv'
  <2> SUFFICES ASSUME IInv, [Next]_vars PROVE IInv'
    OBVIOUS
  <2>1. CASE Next
    BY <2>1, TypeStep, OneAtATimeStep, FilesStep, InTurnFixed DEF IInv, InTurnInv
  <2>2. CASE UNCHANGED vars
    <3>1. (inTurn => InTurnInv) => (inTurn => InTurnInv)'
      BY <2>2 DEF vars, files, InTurnInv, OneAtATime, KeyFirst, Progress, ReadOK, Bundled,
         Loading, Loaded
    <3> QED BY <3>1, TypeStep DEF IInv
  <2> QED BY <2>1, <2>2
<1> QED BY <1>1, InitInv, PTL DEF Spec

\* The state of the files and of every process keeps its type: whoever writes a
\* file or a bundle has a pair to write.
THEOREM TypeCorrect == Spec => []TypeOK
<1>1. IInv => TypeOK
  BY DEF IInv
<1> QED BY <1>1, Invariance, PTL

\* Loads in turn: a process that got through Load signs leaves with the key of
\* the certificate it presents, the proxy and a `jeltz ca-path` run beside it
\* speak of the same root, and a complete bundle holds the root.
OneRoot == inTurn => /\ \A p, q \in Process : Loaded(p) /\ Loaded(q) => caKey[p] = caCert[q]
                     /\ p12 \in Pair => crt = p12

\* Whatever earlier Loads left behind, processes that get through Load in turn
\* hold the key of one and the same certificate, and a complete bundle is of it.
THEOREM OneRootHolds == Spec => []OneRoot
<1>1. IInv => OneRoot
  <2> SUFFICES ASSUME IInv, inTurn PROVE OneRoot
    BY DEF OneRoot
  <2>1. ASSUME NEW p \in Process, NEW q \in Process, Loaded(p), Loaded(q)
        PROVE  caKey[p] = caCert[q]
    BY <2>1 DEF IInv, InTurnInv, ReadOK, KeyFirst
  <2>2. p12 \in Pair => crt = p12
    BY DEF IInv, InTurnInv, Bundled
  <2> QED BY <2>1, <2>2 DEF OneRoot
<1> QED BY <1>1, Invariance, PTL

\* Files change only by the steps of a process that generates.
LEMMA OnlyGeneratorsWrite ==
  ASSUME TypeOK, Next, \A p \in Process : ~Generating(p), key \in Pair
  PROVE  UNCHANGED <<key, crt>> /\ \A p \in Process : ~Generating(p)'
<1> USE DistinctFiles DEF Generating, Goto, files, TypeOK
<1>1. ASSUME NEW p \in Process, Start(p) \/ StatKey(p) \/ ReadKey(p) \/ ReadCert(p) \/ LoadError(p)
      PROVE UNCHANGED <<key, crt>> /\ \A q \in Process : ~Generating(q)'
  BY <1>1 DEF Start, StatKey, ReadKey, ReadCert, LoadError, Missing
<1>2. ASSUME NEW p \in Process, StatP12(p) \/ OpenP12(p) \/ WriteP12(p) \/ P12Error(p) \/ Exit(p)
      PROVE UNCHANGED <<key, crt>> /\ \A q \in Process : ~Generating(q)'
  BY <1>2 DEF StatP12, OpenP12, WriteP12, P12Error, Exit
<1>3. ASSUME NEW p \in Process, Generate(p) \/ OpenKey(p) \/ WriteKey(p) \/ OpenCert(p)
                                 \/ WriteCert(p) \/ WriteError(p)
      PROVE FALSE
  BY <1>3 DEF Generate, OpenKey, WriteKey, OpenCert, WriteCert, WriteError
<1> QED BY <1>1, <1>2, <1>3 DEF Next, Load

\* A complete root stays: always when Loads run in turn, for then nobody
\* generates beside it, and else from the moment nobody does.
THEOREM StaysSettledHolds == Spec => StaysSettled
<1>1. IInv /\ [Next]_vars => [Settled => Settled' /\ UNCHANGED <<key, crt>>]_vars
  <2> SUFFICES ASSUME IInv, Next, Settled PROVE Settled' /\ UNCHANGED <<key, crt>>
    OBVIOUS
  <2>1. \A p \in Process : ~Generating(p)
    BY DistinctFiles DEF IInv, InTurnInv, Progress, Settled, Generating
  <2>2. UNCHANGED <<key, crt>> /\ \A p \in Process : ~Generating(p)'
    BY <2>1, OnlyGeneratorsWrite DEF IInv, Settled
  <2> QED BY <2>2 DEF Settled
<1> QED BY <1>1, Invariance, PTL DEF Spec, StaysSettled
-------------------------------------------------------------------------------
(* The store of RootStore                                                      *)

rootBar == IF crt = key /\ key \in Pair THEN key
           ELSE IF key = Absent \/ \E p \in Process : Generating(p) THEN Nil
           ELSE Torn
bundleBar == IF p12 \in Pair THEN p12 ELSE Nil
stateBar == [p \in Process |-> IF pc[p] \in {"off", "failed"} THEN pc[p]
                              ELSE IF Loaded(p) THEN "given" ELSE "asking"]
givenBar == [p \in Process |-> IF Loaded(p) THEN <<caKey[p], caCert[p]>> ELSE Nil]

RootInv == IInv /\ inTurn

\* Files and whether somebody generates decide about the root.
LEMMA RootSame ==
  ASSUME UNCHANGED <<key, crt>>, (\E p \in Process : Generating(p))' <=> (\E p \in Process : Generating(p))
  PROVE  rootBar' = rootBar
BY DEF rootBar

\* When Loads run in turn, the process that writes the bundle has found none.
BundleInv == inTurn => \A p \in Process : /\ pc[p] = "openP12" => p12 = Absent
                                          /\ pc[p] = "writeP12" => p12 = Torn

\* That holds through every step.
LEMMA BundleStep == ASSUME IInv, BundleInv, [Next]_vars PROVE BundleInv'
<1> SUFFICES ASSUME inTurn PROVE BundleInv'
  BY InTurnFixed DEF BundleInv, vars, files
<1> USE DEF IInv, TypeOK, InTurnInv, OneAtATime, BundleInv, Loading, Goto, files
<1>1. ASSUME NEW p \in Process, Start(p) \/ Exit(p) \/ StatKey(p) \/ Generate(p) PROVE BundleInv'
  BY <1>1 DEF Start, Exit, StatKey, Generate
<1>2. ASSUME NEW p \in Process, OpenKey(p) \/ WriteKey(p) \/ OpenCert(p) \/ WriteCert(p) \/ WriteError(p)
      PROVE  BundleInv'
  BY <1>2 DEF OpenKey, WriteKey, OpenCert, WriteCert, WriteError
<1>3. ASSUME NEW p \in Process, ReadKey(p) \/ ReadCert(p) \/ LoadError(p) PROVE BundleInv'
  BY <1>3 DEF ReadKey, ReadCert, LoadError
<1>4. ASSUME NEW p \in Process, StatP12(p) \/ OpenP12(p) \/ WriteP12(p) \/ P12Error(p) PROVE BundleInv'
  BY <1>4 DEF StatP12, OpenP12, WriteP12, P12Error
<1>5. CASE UNCHANGED vars
  BY <1>5 DEF vars
<1> QED BY <1>1, <1>2, <1>3, <1>4, <1>5 DEF Next, Load

\* A Load begins, and a step of Load up to the root's completion.
LEMMA RootBegins ==
  ASSUME RootInv, NEW p \in Process, Start(p) \/ StatKey(p) \/ Generate(p) \/ OpenKey(p) \/ WriteKey(p) \/ OpenCert(p)
  PROVE  Root!Ask(p) \/ UNCHANGED Root!vars
<1> USE DEF RootInv
<1>1. bundleBar' = bundleBar
  BY DEF Start, StatKey, Generate, OpenKey, WriteKey, OpenCert, files, bundleBar
<1>2. CASE Start(p)
  <2>1. stateBar[p] = "off" /\ stateBar' = [stateBar EXCEPT ![p] = "asking"] /\ givenBar' = givenBar
    BY <1>2 DEF Start, Goto, Loaded, IInv, TypeOK, stateBar, givenBar
  <2>2. rootBar' = rootBar
    <3>1. \A q \in Process : Generating(q)' <=> Generating(q)
      BY <1>2 DEF Start, Goto, Generating, IInv, TypeOK
    <3> QED BY <1>2, <3>1, RootSame DEF Start, files
  <2> QED BY <1>1, <2>1, <2>2 DEF Root!Ask, Root!Goto, rootBar, bundleBar, stateBar, givenBar
<1>3. CASE ~Start(p)
  <2>1. stateBar' = stateBar /\ givenBar' = givenBar
    BY <1>3 DEF StatKey, Generate, OpenKey, WriteKey, OpenCert, Goto, Loaded, IInv, TypeOK, stateBar, givenBar
  <2>2. rootBar' = rootBar
    <3>1. CASE StatKey(p) /\ ~Missing(key)
      <4>1. \A q \in Process : Generating(q)' <=> Generating(q)
        BY <3>1 DEF StatKey, Missing, Goto, Generating, IInv, TypeOK
      <4> QED BY <3>1, <4>1, RootSame DEF StatKey, files
    <3>2. CASE (StatKey(p) /\ Missing(key)) \/ Generate(p) \/ OpenKey(p) \/ WriteKey(p) \/ OpenCert(p)
      <4>1. Generating(p)'
        BY <3>2 DEF StatKey, Generate, OpenKey, WriteKey, OpenCert, Goto, Generating, Missing, IInv, TypeOK
      <4>2. /\ ~(crt = key /\ key \in Pair) /\ ~(crt = key /\ key \in Pair)'
            /\ key = Absent \/ Generating(p)
        BY <3>2, DistinctFiles DEF StatKey, Generate, OpenKey, WriteKey, OpenCert, Goto, Generating, Missing,
           IInv, InTurnInv, Progress, HasPair, Writing, files
      <4> QED BY <4>1, <4>2 DEF rootBar
    <3> QED BY <1>3, <3>1, <3>2 DEF StatKey
  <2> QED BY <1>1, <2>1, <2>2 DEF Root!vars, rootBar, bundleBar, stateBar, givenBar
<1> QED BY <1>2, <1>3

\* The root is there with its certificate, and is what Load returns.
LEMMA RootGiven ==
  ASSUME RootInv, NEW p \in Process, WriteCert(p) \/ ReadKey(p) \/ ReadCert(p)
  PROVE  Root!Create(p) \/ Root!Give(p) \/ UNCHANGED Root!vars
<1> USE DEF RootInv
<1>1. bundleBar' = bundleBar
  BY DEF WriteCert, ReadKey, ReadCert, files, bundleBar
<1>2. CASE WriteCert(p)
  <2>1. stateBar[p] = "asking" /\ stateBar' = stateBar /\ givenBar' = givenBar
    BY <1>2 DEF WriteCert, Goto, Loaded, IInv, TypeOK, stateBar, givenBar
  <2>2. rootBar = Nil /\ rootBar' \in Pair
    BY <1>2, DistinctFiles DEF WriteCert, Goto, Generating, IInv, InTurnInv, Progress, HasPair, Writing, rootBar
  <2> QED BY <1>1, <2>1, <2>2 DEF Root!Create, rootBar, bundleBar, stateBar, givenBar
<1>3. CASE ReadKey(p) \/ ReadCert(p)
  <2>1. rootBar' = rootBar
    <3>1. \A q \in Process : Generating(q)' <=> Generating(q)
      BY <1>3 DEF ReadKey, ReadCert, Goto, Generating, IInv, TypeOK
    <3> QED BY <1>3, <3>1, RootSame DEF ReadKey, ReadCert, files
  <2>2. CASE ReadKey(p)
    <3>1. stateBar' = stateBar /\ givenBar' = givenBar
      BY <2>2 DEF ReadKey, Goto, Loaded, IInv, TypeOK, stateBar, givenBar
    <3> QED BY <1>1, <2>1, <3>1 DEF Root!vars, rootBar, bundleBar, stateBar, givenBar
  <2>3. CASE ReadCert(p)
    <3>1. caKey[p] = key /\ crt = key /\ key \in Pair
      BY <2>3 DEF ReadCert, Goto, Parses, IInv, InTurnInv, ReadOK, KeyFirst
    <3>2. stateBar[p] = "asking" /\ stateBar' = [stateBar EXCEPT ![p] = "given"]
      BY <2>3 DEF ReadCert, Goto, Loaded, IInv, TypeOK, stateBar
    <3>3. givenBar' = [givenBar EXCEPT ![p] = <<key, key>>]
      BY <2>3, <3>1 DEF ReadCert, Goto, Loaded, IInv, TypeOK, givenBar
    <3>4. rootBar = key
      BY <3>1 DEF rootBar
    <3> QED BY <1>1, <2>1, <3>1, <3>2, <3>3, <3>4
            DEF Root!Give, Root!Goto, rootBar, bundleBar, stateBar, givenBar
  <2> QED BY <1>3, <2>2, <2>3
<1> QED BY <1>2, <1>3

\* Only a directory without a root makes Load fail, and only a creation that has
\* begun to write spoils it.
LEMMA RootRefused ==
  ASSUME RootInv, NEW p \in Process, LoadError(p) \/ WriteError(p)
  PROVE  Root!Refuse(p) \/ Root!Spoil(p)
<1> USE DEF RootInv
<1>1. bundleBar' = bundleBar
  BY DEF LoadError, WriteError, files, bundleBar
<1>2. stateBar[p] = "asking" /\ stateBar' = [stateBar EXCEPT ![p] = "failed"] /\ givenBar' = givenBar
  BY DEF LoadError, WriteError, Goto, Loaded, IInv, TypeOK, stateBar, givenBar
<1>3. CASE LoadError(p) \/ (WriteError(p) /\ key = Absent)
  <2>1. rootBar \in {Nil, Torn} /\ rootBar' = rootBar
    <3>1. CASE LoadError(p)
      <4>1. \A q \in Process : Generating(q)' <=> Generating(q)
        BY <3>1 DEF LoadError, Generating, IInv, TypeOK
      <4>2. rootBar' = rootBar
        BY <3>1, <4>1, RootSame DEF LoadError, files
      <4>3. ~(crt = key /\ key \in Pair)
        BY <3>1 DEF LoadError, Parses
      <4> QED BY <4>2, <4>3 DEF rootBar
    <3>2. CASE WriteError(p) /\ key = Absent
      BY <3>2, DistinctFiles DEF WriteError, files, rootBar
    <3> QED BY <1>3, <3>1, <3>2
  <2> QED BY <1>1, <1>2, <2>1 DEF Root!Refuse, Root!Goto, rootBar, bundleBar, stateBar, givenBar
<1>4. CASE WriteError(p) /\ key # Absent
  <2>1. Generating(p) /\ ~Generating(p)' /\ ~(crt = key /\ key \in Pair)
    BY <1>4, DistinctFiles DEF WriteError, Goto, Generating, IInv, TypeOK, InTurnInv, Progress, HasPair, Writing
  <2>2. \A q \in Process \ {p} : ~Generating(q) /\ ~Generating(q)'
    BY <1>4, <2>1 DEF WriteError, Goto, Generating, IInv, InTurnInv, OneAtATime, Loading
  <2>3. rootBar = Nil /\ rootBar' = Torn
    BY <1>4, <2>1, <2>2 DEF WriteError, files, rootBar
  <2> QED BY <1>1, <1>2, <2>3 DEF Root!Spoil, Root!Goto, rootBar, bundleBar, stateBar, givenBar
<1> QED BY <1>3, <1>4

\* The bundle is of the root.
LEMMA RootBundled ==
  ASSUME RootInv, BundleInv, NEW p \in Process, StatP12(p) \/ OpenP12(p) \/ WriteP12(p) \/ P12Error(p)
  PROVE  Root!Bundle(p) \/ UNCHANGED Root!vars
<1> USE DEF RootInv
<1>1. stateBar[p] = "given" /\ stateBar' = stateBar /\ givenBar' = givenBar
  BY DEF StatP12, OpenP12, WriteP12, P12Error, Goto, Loaded, IInv, TypeOK, stateBar, givenBar
<1>2. rootBar' = rootBar
  <2>1. \A q \in Process : Generating(q)' <=> Generating(q)
    BY DEF StatP12, OpenP12, WriteP12, P12Error, Goto, Generating, IInv, TypeOK
  <2> QED BY <2>1, RootSame DEF StatP12, OpenP12, WriteP12, P12Error, files
<1>3. CASE WriteP12(p)
  <2>1. p12 = Torn /\ p12' = crt /\ crt = key /\ key \in Pair
    BY <1>3 DEF WriteP12, Goto, Loaded, BundleInv, IInv, InTurnInv, ReadOK, KeyFirst
  <2>2. bundleBar = Nil /\ bundleBar' = rootBar
    BY <2>1, DistinctFiles DEF bundleBar, rootBar
  <2> QED BY <1>1, <1>2, <2>2 DEF Root!Bundle, rootBar, bundleBar, stateBar, givenBar
<1>4. CASE StatP12(p) \/ OpenP12(p) \/ P12Error(p)
  <2>1. bundleBar' = bundleBar
    BY <1>4, DistinctFiles DEF StatP12, OpenP12, P12Error, Goto, BundleInv, files, bundleBar
  <2> QED BY <1>1, <1>2, <2>1 DEF Root!vars, rootBar, bundleBar, stateBar, givenBar
<1> QED BY <1>3, <1>4

\* A process that ends in the middle of generating spoils the directory, any
\* other leaves it as it is.
LEMMA RootEnds ==
  ASSUME RootInv, NEW p \in Process, Exit(p)
  PROVE  Root!Spoil(p) \/ Root!End(p)
<1> USE DEF RootInv
<1>1. bundleBar' = bundleBar
  BY DEF Exit, files, bundleBar
<1>2. /\ stateBar[p] # "off" /\ stateBar' = [stateBar EXCEPT ![p] = "off"]
      /\ givenBar' = [givenBar EXCEPT ![p] = Nil]
  BY DEF Exit, Loaded, IInv, TypeOK, stateBar, givenBar
<1>3. CASE Generating(p) /\ key # Absent
  <2>1. ~Generating(p)' /\ ~(crt = key /\ key \in Pair)
    BY <1>3, DistinctFiles DEF Exit, Generating, IInv, TypeOK, InTurnInv, Progress, HasPair, Writing
  <2>2. \A q \in Process \ {p} : ~Generating(q) /\ ~Generating(q)'
    BY <1>3, <2>1 DEF Exit, Generating, IInv, TypeOK, InTurnInv, OneAtATime, Loading
  <2>3. rootBar = Nil /\ rootBar' = Torn
    BY <1>3, <2>1, <2>2 DEF Exit, files, rootBar
  <2>4. stateBar[p] = "asking" /\ givenBar' = givenBar
    BY <1>3 DEF Exit, Generating, Loaded, IInv, TypeOK, stateBar, givenBar
  <2> QED BY <1>1, <1>2, <2>3, <2>4 DEF Root!Spoil, Root!Goto, rootBar, bundleBar, stateBar, givenBar
<1>4. CASE ~(Generating(p) /\ key # Absent)
  <2>1. rootBar' = rootBar
    <3>1. CASE key = Absent
      BY <3>1, DistinctFiles DEF Exit, files, rootBar
    <3>2. CASE ~Generating(p)
      <4>1. \A q \in Process : Generating(q)' <=> Generating(q)
        BY <3>2 DEF Exit, Generating, IInv, TypeOK
      <4> QED BY <4>1, RootSame DEF Exit, files
    <3> QED BY <1>4, <3>1, <3>2
  <2> QED BY <1>1, <1>2, <2>1 DEF Root!End, rootBar, bundleBar, stateBar, givenBar
<1> QED BY <1>3, <1>4

\* For any number of processes, starts, kills and refused writes, Loads that run
\* in turn are the store of RootStore: they fail only in a directory without a
\* complete root, and what one is given is given to all.
THEOREM Refinement == Spec => ImplementsRoot
<1>1. Init => BundleInv /\ (inTurn => Root!Init)
  BY DistinctFiles DEF Init, BundleInv, Root!Init, Generating, Loaded
<1>2. IInv /\ BundleInv /\ [Next]_vars => [inTurn => Root!Next]_(Root!vars)
  <2> SUFFICES ASSUME IInv, BundleInv, [Next]_vars, inTurn PROVE [Root!Next]_(Root!vars)
    OBVIOUS
  <2>1. RootInv
    BY DEF RootInv
  <2>2. CASE Next
    BY <2>1, <2>2, RootBegins, RootGiven, RootRefused, RootBundled, RootEnds DEF Next, Load, Root!Next
  <2>3. CASE UNCHANGED vars
    BY <2>3 DEF vars, files, Root!vars, Generating, Loaded
  <2> QED BY <2>2, <2>3
<1>3. IInv /\ BundleInv /\ [Next]_vars => BundleInv'
  BY BundleStep
<1> QED BY <1>1, <1>2, <1>3, Invariance, PTL DEF Spec, ImplementsRoot
===============================================================================
