------------------------------- MODULE CAStore --------------------------------
(* The root CA on disk: ca.Load of internal/ca/ca.go, run by the proxy at    *)
(* start-up and by each `jeltz ca-path`, `ca-p12-path`, `ca-install-hint`.   *)
(* Every system call on the three files is a step of its own, a process may  *)
(* be killed between any two of them and be started again, and two processes *)
(* may be in Load at the same time, or, in the behaviours with inTurn, start *)
(* only when no other is in Load.                                            *)
(*                                                                           *)
(* A file is Absent, Torn (truncated by its O_TRUNC open and not fully       *)
(* written) or holds the material of one generated pair.  The writes of a    *)
(* PEM body are one step: two writers whose blocks mix would leave a file    *)
(* that does not decode, which is what Torn stands for.  A read, a stat or a *)
(* MkdirAll that the disk refuses fails a Load and is left out.              *)
EXTENDS Naturals, FiniteSets

CONSTANTS Process, \* jeltz processes that share a data directory
          Pair,    \* generated key pairs; a certificate is named by its pair
          Absent, Torn, Nil

ASSUME DistinctFiles == /\ Absent \notin Pair /\ Torn \notin Pair /\ Nil \notin Pair
                        /\ Absent # Torn /\ Torn # Nil

VARIABLES key,     \* ca.key.pem
          crt,     \* ca.crt.pem
          p12,     \* ca.p12
          pc,      \* pc[p]: where process p is in Load
          made,    \* made[p]: the pair p has generated
          caKey,   \* caKey[p]: CA.key once read
          caCert,  \* caCert[p]: CA.cert once read
          inTurn   \* whether Loads never overlap in this behaviour

files == <<key, crt, p12, inTurn>>
vars == <<files, pc, made, caKey, caCert>>

File == Pair \cup {Absent, Torn}

\* rsa.GenerateKey never repeats a pair that is still in a file or a process.
Live(k) == \/ k \in {key, crt, p12}
           \/ \E p \in Process : k \in {made[p], caKey[p], caCert[p]}

\* The first run ever, or an installation from before the PKCS#12 bundle.
Init == /\ \/ key = Absent /\ crt = Absent
           \/ key \in Pair /\ crt = key
        /\ p12 = Absent
        /\ pc = [p \in Process |-> "off"]
        /\ made = [p \in Process |-> Nil]
        /\ caKey = [p \in Process |-> Nil]
        /\ caCert = [p \in Process |-> Nil]
        /\ inTurn \in BOOLEAN

Goto(p, from, to) == pc[p] = from /\ pc' = [pc EXCEPT ![p] = to]

Loading(p) == pc[p] \notin {"off", "failed", "loaded"}

Start(p) == /\ inTurn => \A q \in Process : ~Loading(q)
            /\ Goto(p, "off", "stat")
            /\ UNCHANGED <<files, made, caKey, caCert>>

\* Mutant: generate at every start.
Always(f) == TRUE

\* os.IsNotExist of the stat on the key file: the certificate is not looked at.
Missing(f) == f = Absent

\* Mutant: a missing certificate alone is made anew, of a new pair.
StatEither(p) == \/ /\ Missing(key) /\ Goto(p, "stat", "generate")
                    /\ UNCHANGED <<files, made, caKey, caCert>>
                 \/ /\ ~Missing(key) /\ Missing(crt) /\ Goto(p, "stat", "openCert")
                    /\ \E k \in Pair : ~Live(k) /\ made' = [made EXCEPT ![p] = k]
                    /\ UNCHANGED <<files, caKey, caCert>>
                 \/ /\ ~Missing(key) /\ ~Missing(crt) /\ Goto(p, "stat", "readKey")
                    /\ UNCHANGED <<files, made, caKey, caCert>>

StatKey(p) == /\ \/ Missing(key) /\ Goto(p, "stat", "generate")
                 \/ ~Missing(key) /\ Goto(p, "stat", "readKey")
              /\ UNCHANGED <<files, made, caKey, caCert>>

\* pkgca.GenerateCA: slow, and long after the stat.
Generate(p) == /\ Goto(p, "generate", "openKey")
               /\ \E k \in Pair : ~Live(k) /\ made' = [made EXCEPT ![p] = k]
               /\ UNCHANGED <<files, caKey, caCert>>

\* writePEM of the key, then of the certificate: open with O_TRUNC, write.
OpenKey(p)  == /\ Goto(p, "openKey", "writeKey")
               /\ key' = Torn
               /\ UNCHANGED <<crt, p12, inTurn, made, caKey, caCert>>
WriteKey(p) == /\ Goto(p, "writeKey", "openCert")
               /\ key' = made[p]
               /\ UNCHANGED <<crt, p12, inTurn, made, caKey, caCert>>
OpenCert(p)  == /\ Goto(p, "openCert", "writeCert")
                /\ crt' = Torn
                /\ UNCHANGED <<key, p12, inTurn, made, caKey, caCert>>
WriteCert(p) == /\ Goto(p, "writeCert", "readKey")
                /\ crt' = made[p]
                /\ UNCHANGED <<key, p12, inTurn, made, caKey, caCert>>

\* Mutant: whatever the file holds is accepted.
Exists(f) == f # Absent

\* pem.Decode and the x509 parser accept a complete file and nothing else.
Parses(f) == f \in Pair

\* loadFromDisk: an absent or torn file is an error, and the process exits.
ReadKey(p)  == /\ Parses(key)
               /\ Goto(p, "readKey", "readCert")
               /\ caKey' = [caKey EXCEPT ![p] = key]
               /\ UNCHANGED <<files, made, caCert>>
ReadCert(p) == /\ Parses(crt)
               /\ Goto(p, "readCert", "statP12")
               /\ caCert' = [caCert EXCEPT ![p] = crt]
               /\ UNCHANGED <<files, made, caKey>>
LoadError(p) == /\ \/ pc[p] = "readKey" /\ ~Parses(key)
                   \/ pc[p] = "readCert" /\ ~Parses(crt)
                /\ pc' = [pc EXCEPT ![p] = "failed"]
                /\ UNCHANGED <<files, made, caKey, caCert>>

StatP12(p) == /\ \/ p12 = Absent /\ Goto(p, "statP12", "openP12")
                 \/ p12 # Absent /\ Goto(p, "statP12", "loaded")
              /\ UNCHANGED <<files, made, caKey, caCert>>

\* os.WriteFile of the bundle, whose errors are ignored.
OpenP12(p)  == /\ Goto(p, "openP12", "writeP12")
               /\ p12' = Torn
               /\ UNCHANGED <<key, crt, inTurn, made, caKey, caCert>>
WriteP12(p) == /\ Goto(p, "writeP12", "loaded")
               /\ p12' = caCert[p]
               /\ UNCHANGED <<key, crt, inTurn, made, caKey, caCert>>
P12Error(p) == /\ \E at \in {"openP12", "writeP12"} : Goto(p, at, "loaded")
               /\ UNCHANGED <<files, made, caKey, caCert>>

\* The disk refuses an open or a write while generating.
WriteError(p) == /\ \E at \in {"openKey", "writeKey", "openCert", "writeCert"} :
                      Goto(p, at, "failed")
                 /\ UNCHANGED <<files, made, caKey, caCert>>

\* The process ends: normally, after a failure, or killed in the middle.
Exit(p) == /\ pc[p] # "off"
           /\ pc' = [pc EXCEPT ![p] = "off"]
           /\ made' = [made EXCEPT ![p] = Nil]
           /\ caKey' = [caKey EXCEPT ![p] = Nil]
           /\ caCert' = [caCert EXCEPT ![p] = Nil]
           /\ UNCHANGED files

Load(p) == \/ StatKey(p) \/ Generate(p)
           \/ OpenKey(p) \/ WriteKey(p) \/ OpenCert(p) \/ WriteCert(p)
           \/ ReadKey(p) \/ ReadCert(p) \/ LoadError(p)
           \/ StatP12(p) \/ OpenP12(p) \/ WriteP12(p)
           \/ P12Error(p) \/ WriteError(p)

Next == \E p \in Process : Start(p) \/ Load(p) \/ Exit(p)

Spec == Init /\ [][Next]_vars
-------------------------------------------------------------------------------
PCs == {"off", "stat", "generate", "openKey", "writeKey", "openCert", "writeCert",
        "readKey", "readCert", "statP12", "openP12", "writeP12", "loaded", "failed"}

TypeOK == /\ key \in File /\ crt \in File /\ p12 \in File
          /\ pc \in [Process -> PCs]
          /\ made \in [Process -> Pair \cup {Nil}]
          /\ caKey \in [Process -> Pair \cup {Nil}]
          /\ caCert \in [Process -> Pair \cup {Nil}]
          /\ inTurn \in BOOLEAN

Loaded(p) == pc[p] \in {"statP12", "openP12", "writeP12", "loaded"}

\* A complete root is never replaced, for users have it in their trust stores:
\* when Loads run in turn always, and when they overlap once nobody is
\* generating, wherever they are killed.
Generating(p) == pc[p] \in {"generate", "openKey", "writeKey", "openCert", "writeCert"}
Settled == /\ crt = key /\ key \in Pair
           /\ inTurn \/ \A p \in Process : ~Generating(p)
StaysSettled == [][Settled => Settled' /\ UNCHANGED <<key, crt>>]_vars

\* Loads in turn are the store of RootStore, wherever they are killed or refused
\* a write: the root is there when its certificate is, a generating process that
\* has begun to write decides whether it ever will be, and a process that got
\* through Load signs leaves with the key of the certificate it presents, the
\* same in all processes.
Root == INSTANCE RootStore WITH
          None <- Nil, Spoiled <- Torn,
          root <- IF crt = key /\ key \in Pair THEN key
                  ELSE IF key = Absent \/ \E p \in Process : Generating(p) THEN Nil
                  ELSE Torn,
          bundle <- IF p12 \in Pair THEN p12 ELSE Nil,
          state <- [p \in Process |-> IF pc[p] \in {"off", "failed"} THEN pc[p]
                                      ELSE IF Loaded(p) THEN "given" ELSE "asking"],
          given <- [p \in Process |-> IF Loaded(p) THEN <<caKey[p], caCert[p]>> ELSE Nil]

ImplementsRoot == (inTurn => Root!Init) /\ [][inTurn => Root!Next]_(Root!vars)
===============================================================================
