----------------------------- MODULE LeafCertsAbs -----------------------------
(* What CA.LeafCert (internal/ca/ca.go:91-109) promises to its callers: the  *)
(* concurrent calls take effect one at a time, on a bounded store that holds *)
(* at most one certificate per host.  A call is answered with the stored     *)
(* certificate when there is one; only a host without one gets a new         *)
(* certificate, which may push out that of one other host; a call that fails *)
(* leaves the store alone.                                                   *)
EXTENDS Naturals, FiniteSets

CONSTANTS Thread,   \* goroutines that call LeafCert
          Host,     \* host names
          Cert,     \* identities of issued certificates
          CacheMax, \* capacity of the store
          Nil       \* no host, no certificate

VARIABLES asked,    \* asked[t]: the host of t's call, Nil when t is not calling
          answered, \* answered[t]: the call of t has taken effect
          answer,   \* answer[t]: the certificate t is given, Nil for an error
          store     \* store[h]: the certificate kept for h, Nil when there is none

vars == <<asked, answered, answer, store>>

Init == /\ asked = [t \in Thread |-> Nil]
        /\ answered = [t \in Thread |-> FALSE]
        /\ answer = [t \in Thread |-> Nil]
        /\ store = [h \in Host |-> Nil]

Stored(s) == {h \in Host : s[h] # Nil}

Ask(t, h) == /\ asked[t] = Nil
             /\ asked' = [asked EXCEPT ![t] = h]
             /\ UNCHANGED <<answered, answer, store>>

Pending(t) == asked[t] # Nil /\ ~answered[t]

Answer(t, c) == /\ answered' = [answered EXCEPT ![t] = TRUE]
                /\ answer' = [answer EXCEPT ![t] = c]
                /\ UNCHANGED asked

ServeStored(t) == /\ Pending(t)
                  /\ store[asked[t]] # Nil
                  /\ Answer(t, store[asked[t]])
                  /\ UNCHANGED store

\* A full store gives up exactly one other host; one with room gives up none.
ServeNew(t) == /\ Pending(t)
               /\ store[asked[t]] = Nil
               /\ \E c \in Cert :
                    /\ \A h \in Host : store[h] # c
                    /\ Answer(t, c)
                    /\ LET added == [store EXCEPT ![asked[t]] = c]
                       IN  \/ /\ Cardinality(Stored(store)) < CacheMax
                              /\ store' = added
                           \/ /\ Cardinality(Stored(store)) = CacheMax
                              /\ \E out \in Stored(store) :
                                    store' = [added EXCEPT ![out] = Nil]

Refuse(t) == /\ Pending(t)
             /\ store[asked[t]] = Nil
             /\ Answer(t, Nil)
             /\ UNCHANGED store

Return(t) == /\ asked[t] # Nil
             /\ answered[t]
             /\ asked' = [asked EXCEPT ![t] = Nil]
             /\ answered' = [answered EXCEPT ![t] = FALSE]
             /\ answer' = [answer EXCEPT ![t] = Nil]
             /\ UNCHANGED store

Next == \E t \in Thread : \/ \E h \in Host : Ask(t, h)
                          \/ ServeStored(t)
                          \/ ServeNew(t)
                          \/ Refuse(t)
                          \/ Return(t)

Spec == Init /\ [][Next]_vars
===============================================================================
