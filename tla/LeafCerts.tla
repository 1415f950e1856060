------------------------------ MODULE LeafCerts -------------------------------
(* Concurrent leaf-certificate issuance: CA.LeafCert of internal/ca/ca.go,   *)
(* with the reference-counted per-host locks of lockHost and the LRU cache.  *)
(* Every critical section of ca.mu is one action, because the sections never *)
(* nest and no goroutine blocks inside one; hlock.mu is a lock of its own    *)
(* that is held across lookup, issuance and insertion.                       *)
EXTENDS Naturals, FiniteSets, Sequences

CONSTANTS Thread,   \* goroutines in LeafCert (one per intercepted connection)
          Host,     \* host names asked for
          Lock,     \* heap cells for hostLock objects
          Cert,     \* identities of issued certificates
          CacheMax, \* leafCacheMaxEntries
          Nil       \* absent thread, lock, certificate or host

ASSUME ThreadAssumption == IsFiniteSet(Thread)
ASSUME CacheMaxAssumption == CacheMax \in Nat \ {0}
ASSUME NilAssumption == Nil \notin Thread \cup Host \cup Lock \cup Cert

VARIABLES pc,       \* pc[t]: where goroutine t is in LeafCert
          hostOf,   \* hostOf[t]: its argument
          lockOf,   \* lockOf[t]: its hlock pointer
          hand,     \* hand[t]: the certificate it has issued or will return
          locks,    \* ca.locks: host -> hostLock
          refs,     \* refs[l]: the reference count of hostLock l
          holder,   \* holder[l]: the goroutine that holds l.mu
          cache,    \* ca.cache: host -> certificate of its list element
          cacheLRU  \* ca.cacheLRU: hosts, most recently used first

vars == <<pc, hostOf, lockOf, hand, locks, refs, holder, cache, cacheLRU>>

Cached(h) == cache[h] # Nil

\* The threads that have a pointer to l: hlock in LeafCert's deferred unlock.
Pointing(l) == {t \in Thread : lockOf[t] = l}

\* A cell nothing points to; &hostLock{} takes such a cell.
Free(l) == Pointing(l) = {} /\ \A h \in Host : locks[h] # l

InUse(c) == (\E h \in Host : cache[h] = c) \/ (\E t \in Thread : hand[t] = c)

\* Mutant: a lookup leaves the order of the list alone.
NoMove(s, h) == s

\* list.MoveToFront of the element of host h.
MoveToFront(s, h) ==
  LET i == CHOOSE k \in DOMAIN s : s[k] = h
  IN  [j \in 1..Len(s) |-> IF j = 1 THEN h ELSE IF j <= i THEN s[j-1] ELSE s[j]]

-------------------------------------------------------------------------------
Init == /\ pc = [t \in Thread |-> "idle"]
        /\ hostOf = [t \in Thread |-> Nil]
        /\ lockOf = [t \in Thread |-> Nil]
        /\ hand = [t \in Thread |-> Nil]
        /\ locks = [h \in Host |-> Nil]
        /\ refs = [l \in Lock |-> 0]
        /\ holder = [l \in Lock |-> Nil]
        /\ cache = [h \in Host |-> Nil]
        /\ cacheLRU = << >>

Goto(t, from, to) == pc[t] = from /\ pc' = [pc EXCEPT ![t] = to]

\* Mutant: only the goroutine that creates the lock is counted.
CountCreator(l, n) == refs' = [refs EXCEPT ![l] = 1]

\* hlock.refs++ on a lock that counted n.
CountIn(l, n) == refs' = [refs EXCEPT ![l] = n + 1]

\* Mutant: one lock serves whatever host comes while it exists.
AnyLock(h) == {locks[g] : g \in Host} \ {Nil}

\* The lock ca.locks has for h, if any.
LockFor(h) == {locks[h]} \ {Nil}

\* The ca.mu section of lockHost: find or create the host's lock, count t in.
LockHost(t, h) ==
  /\ Goto(t, "idle", "wait")
  /\ hostOf' = [hostOf EXCEPT ![t] = h]
  /\ \/ \E l \in LockFor(h) : /\ lockOf' = [lockOf EXCEPT ![t] = l]
                              /\ CountIn(l, refs[l])
                              /\ UNCHANGED <<locks, holder>>
     \/ /\ LockFor(h) = {}
        /\ \E l \in Lock : /\ Free(l)
                           /\ lockOf' = [lockOf EXCEPT ![t] = l]
                           /\ locks' = [locks EXCEPT ![h] = l]
                           /\ CountIn(l, 0)
                           /\ holder' = [holder EXCEPT ![l] = Nil]
  /\ UNCHANGED <<hand, cache, cacheLRU>>

\* Mutant: a shared (reader) lock where the code takes an exclusive one.
AcquireShared(t) == /\ Goto(t, "wait", "lookup")
                    /\ holder' = [holder EXCEPT ![lockOf[t]] = t]
                    /\ UNCHANGED <<hostOf, lockOf, hand, locks, refs, cache, cacheLRU>>

\* hlock.mu.Lock()
Acquire(t) == /\ Goto(t, "wait", "lookup")
              /\ holder[lockOf[t]] = Nil
              /\ holder' = [holder EXCEPT ![lockOf[t]] = t]
              /\ UNCHANGED <<hostOf, lockOf, hand, locks, refs, cache, cacheLRU>>

\* getCached finds an entry, marks it most recently used, LeafCert returns it.
Hit(t) == /\ Goto(t, "lookup", "unlock")
          /\ Cached(hostOf[t])
          /\ hand' = [hand EXCEPT ![t] = cache[hostOf[t]]]
          /\ cacheLRU' = MoveToFront(cacheLRU, hostOf[t])
          /\ UNCHANGED <<hostOf, lockOf, locks, refs, holder, cache>>

Miss(t) == /\ Goto(t, "lookup", "issue")
           /\ ~Cached(hostOf[t])
           /\ UNCHANGED <<hostOf, lockOf, hand, locks, refs, holder, cache, cacheLRU>>

\* issue: the slow step (an RSA-3072 key), outside ca.mu.
Issue(t) == /\ Goto(t, "issue", "put")
            /\ \E c \in Cert : ~InUse(c) /\ hand' = [hand EXCEPT ![t] = c]
            /\ UNCHANGED <<hostOf, lockOf, locks, refs, holder, cache, cacheLRU>>

\* Mutant: a failed issuance is tried again instead of returned.
IssueErrorRetried(t) == /\ Goto(t, "issue", "lookup")
                        /\ UNCHANGED <<hostOf, lockOf, hand, locks, refs, holder, cache, cacheLRU>>

IssueError(t) == /\ Goto(t, "issue", "unlock")
                 /\ UNCHANGED <<hostOf, lockOf, hand, locks, refs, holder, cache, cacheLRU>>

\* The map once c is entered for h and the back of list s, if too long, deleted.
MapAfter(s, h, c) == LET back == s[Len(s)]
                     IN  IF Len(s) <= CacheMax THEN [cache EXCEPT ![h] = c]
                         ELSE [cache EXCEPT ![h] = c, ![back] = Nil]

\* putCached: overwrite an entry in place, else push a new one in front and drop
\* the back of the list if that makes it too long.
PutCached(t) ==
  LET h == hostOf[t]
      list == IF Cached(h) THEN MoveToFront(cacheLRU, h) ELSE <<h>> \o cacheLRU
  IN  /\ Goto(t, "put", "unlock")
      /\ cache' = MapAfter(list, h, hand[t])
      /\ cacheLRU' = IF Len(list) <= CacheMax THEN list ELSE SubSeq(list, 1, Len(list) - 1)
      /\ UNCHANGED <<hostOf, lockOf, hand, locks, refs, holder>>

\* The deferred unlock, first half: hlock.mu.Unlock()
Unlock(t) == /\ Goto(t, "unlock", "release")
             /\ holder' = [holder EXCEPT ![lockOf[t]] = Nil]
             /\ UNCHANGED <<hostOf, lockOf, hand, locks, refs, cache, cacheLRU>>

\* Mutants: the entry is deleted by everyone, and by nobody.
AlwaysLast(l) == TRUE
NeverLast(l) == FALSE

\* The count that refs-- brings to zero.
LastOut(l) == refs[l] - 1 = 0

\* Second half: count t out; the last one out removes the lock from the map.
Release(t) ==
  LET l == lockOf[t]
      h == hostOf[t]
  IN  /\ Goto(t, "release", "idle")
      /\ refs' = [refs EXCEPT ![l] = @ - 1]
      /\ locks' = IF LastOut(l) THEN [locks EXCEPT ![h] = Nil] ELSE locks
      /\ hostOf' = [hostOf EXCEPT ![t] = Nil]
      /\ lockOf' = [lockOf EXCEPT ![t] = Nil]
      /\ hand' = [hand EXCEPT ![t] = Nil]
      /\ UNCHANGED <<holder, cache, cacheLRU>>

Step(t) == \/ Hit(t) \/ Miss(t) \/ Issue(t) \/ IssueError(t)
           \/ PutCached(t) \/ Unlock(t) \/ Release(t)

Next == \E t \in Thread : (\E h \in Host : LockHost(t, h)) \/ Acquire(t) \/ Step(t)

Spec == Init /\ [][Next]_vars

\* A goroutine that can run does; a sync.Mutex hands itself to a waiter that
\* has starved for a millisecond, so an Acquire enabled again and again happens.
Fairness == \A t \in Thread : WF_vars(Step(t)) /\ SF_vars(Acquire(t))

FairSpec == Spec /\ Fairness
-------------------------------------------------------------------------------
PCs == {"idle", "wait", "lookup", "issue", "put", "unlock", "release"}

TypeOK == /\ pc \in [Thread -> PCs]
          /\ hostOf \in [Thread -> Host \cup {Nil}]
          /\ lockOf \in [Thread -> Lock \cup {Nil}]
          /\ hand \in [Thread -> Cert \cup {Nil}]
          /\ locks \in [Host -> Lock \cup {Nil}]
          /\ refs \in [Lock -> Nat]
          /\ holder \in [Lock -> Thread \cup {Nil}]
          /\ cache \in [Host -> Cert \cup {Nil}]
          /\ cacheLRU \in Seq(Host)

Inside == {"lookup", "issue", "put", "unlock"}

\* Single flight: two goroutines are never between lookup and unlock for the
\* same host, although the host's lock object is dropped and created anew.
SingleFlight == \A t, u \in Thread :
  pc[t] \in Inside /\ pc[u] \in Inside /\ hostOf[t] = hostOf[u] => t = u

\* The slow issuance for one host never makes a caller of another host wait.
BlockedBySameHost == \A t, u \in Thread :
  pc[t] = "wait" /\ holder[lockOf[t]] = u => hostOf[t] = hostOf[u]

\* ca.locks does not grow: it holds a lock exactly for the hosts being asked for.
LocksReclaimed == \A h \in Host :
  locks[h] # Nil <=> \E t \in Thread : pc[t] # "idle" /\ hostOf[t] = h

\* A certificate that was handed out stays the one of its host until it is
\* evicted: no other issuance overwrites it in the meantime.
NeverReissuedWhileCached ==
  [][\A h \in Host : Cached(h) => cache'[h] \in {cache[h], Nil}]_vars

\* Every call of LeafCert returns, whoever else is asking.
EveryCallReturns == \A t \in Thread : pc[t] = "wait" ~> pc[t] = "idle"

\* LeafCert is linearizable: a call takes effect at its lookup when it hits, at
\* its insertion when it misses, at the failed issuance otherwise.
Answered(t) == pc[t] \in {"unlock", "release"}
Abs == INSTANCE LeafCertsAbs WITH
         asked <- hostOf,
         answered <- [t \in Thread |-> Answered(t)],
         answer <- [t \in Thread |-> IF Answered(t) THEN hand[t] ELSE Nil],
         store <- cache

ImplementsAbs == Abs!Spec
===============================================================================
