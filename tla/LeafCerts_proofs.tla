--------------------------- MODULE LeafCerts_proofs ---------------------------
(* Proofs about LeafCerts, for any number of goroutines, hosts, lock cells   *)
(* and certificates and any cache capacity.                                  *)
EXTENDS LeafCertsLRU, FiniteSetTheorems, TLAPS

\* A goroutine is in LeafCert exactly when it has a host and a lock pointer.
ArgsOK == \A t \in Thread : /\ pc[t] = "idle" <=> hostOf[t] = Nil
                            /\ pc[t] = "idle" <=> lockOf[t] = Nil

\* All goroutines that ask for a host point to the one lock in the map.
OneLock == \A t \in Thread : lockOf[t] # Nil => locks[hostOf[t]] = lockOf[t]

\* Every lock in the map has a user, and serves one host.
NoOrphan == \A h \in Host : locks[h] # Nil => Pointing(locks[h]) # {}
OneHost  == \A g, h \in Host : locks[g] = locks[h] /\ locks[g] # Nil => g = h

Counted == \A l \in Lock : refs[l] = Cardinality(Pointing(l))

\* hlock.mu is held by exactly the goroutine that is inside.
HolderOK == /\ \A t \in Thread : pc[t] \in Inside => holder[lockOf[t]] = t
            /\ \A l \in Lock, t \in Thread :
                 holder[l] = t => pc[t] \in Inside /\ lockOf[t] = l

\* What a goroutine saw at its lookup is still true when it inserts.
MissHolds == \A t \in Thread :
  /\ pc[t] \in {"issue", "put"} => ~Cached(hostOf[t])
  /\ pc[t] = "put" => hand[t] # Nil

IInv == /\ TypeOK /\ ArgsOK /\ OneLock /\ NoOrphan /\ OneHost
        /\ Counted /\ HolderOK /\ MissHolds
-------------------------------------------------------------------------------
\* MoveToFront keeps the length of a list and invents no host.
LEMMA MoveToFrontType ==
  ASSUME NEW s \in Seq(Host), NEW h \in Host
  PROVE  /\ MoveToFront(s, h) \in Seq(Host)
         /\ Len(MoveToFront(s, h)) = Len(s)
<1> DEFINE i == CHOOSE k \in DOMAIN s : s[k] = h
           f == [j \in 1..Len(s) |-> IF j = 1 THEN h ELSE IF j <= i THEN s[j-1] ELSE s[j]]
<1>1. Len(s) \in Nat /\ \A j \in 1..Len(s) : s[j] \in Host
  OBVIOUS
<1>2. \A j \in 1..Len(s) : f[j] \in Host
  BY <1>1
<1>3. f \in Seq(Host) /\ Len(f) = Len(s)
  BY <1>1, <1>2
<1> QED BY <1>3 DEF MoveToFront

\* What putCached leaves of a list is a list of hosts.
LEMMA ShortenType ==
  ASSUME NEW s \in Seq(Host), s # << >>
  PROVE  SubSeq(s, 1, Len(s) - 1) \in Seq(Host)
OBVIOUS

\* A goroutine that is in LeafCert is one of those its lock has counted.
LEMMA CountedOnce ==
  ASSUME TypeOK, ArgsOK, OneLock, Counted, NEW t \in Thread, pc[t] # "idle"
  PROVE  /\ hostOf[t] \in Host
         /\ lockOf[t] \in Lock
         /\ locks[hostOf[t]] = lockOf[t]
         /\ refs[lockOf[t]] > 0
         /\ refs[lockOf[t]] = 1 => Pointing(lockOf[t]) = {t}
<1>1. hostOf[t] \in Host /\ lockOf[t] \in Lock /\ locks[hostOf[t]] = lockOf[t]
  BY NilAssumption DEF TypeOK, ArgsOK, OneLock
<1>2. t \in Pointing(lockOf[t]) /\ IsFiniteSet(Pointing(lockOf[t]))
  BY ThreadAssumption, FS_Subset DEF Pointing
<1>3. Cardinality(Pointing(lockOf[t])) \in Nat \ {0}
  BY <1>2, FS_CardinalityType, FS_EmptySet
<1>4. Cardinality(Pointing(lockOf[t])) = 1 => Pointing(lockOf[t]) = {t}
  BY <1>2, FS_Singleton
<1> QED BY <1>1, <1>3, <1>4 DEF Counted

\* The two ways through lockHost's critical section.
Enters(t, h, l) == /\ pc' = [pc EXCEPT ![t] = "wait"]
                   /\ hostOf' = [hostOf EXCEPT ![t] = h]
                   /\ lockOf' = [lockOf EXCEPT ![t] = l]
                   /\ UNCHANGED <<hand, cache, cacheLRU>>

Joins(t, h) == /\ Enters(t, h, locks[h])
               /\ refs' = [refs EXCEPT ![locks[h]] = refs[locks[h]] + 1]
               /\ UNCHANGED <<locks, holder>>

Creates(t, h, l) == /\ Enters(t, h, l)
                    /\ refs' = [refs EXCEPT ![l] = 1]
                    /\ locks' = [locks EXCEPT ![h] = l]
                    /\ holder' = [holder EXCEPT ![l] = Nil]

\* lockHost either joins the lock of the host or, the host having none, makes one.
LEMMA LockHostCases ==
  ASSUME TypeOK, NEW t \in Thread, NEW h \in Host, LockHost(t, h)
  PROVE  /\ pc[t] = "idle"
         /\ \/ locks[h] \in Lock /\ Joins(t, h)
            \/ locks[h] = Nil /\ \E l \in Lock : Free(l) /\ Creates(t, h, l)
<1>1. CASE locks[h] = Nil
  <2>1. LockFor(h) = {}
    BY <1>1 DEF LockFor
  <2> QED BY <1>1, <2>1 DEF LockHost, Goto, CountIn, Enters, Creates
<1>2. CASE locks[h] # Nil
  <2>1. LockFor(h) = {locks[h]} /\ locks[h] \in Lock
    BY <1>2 DEF LockFor, TypeOK
  <2> QED BY <2>1 DEF LockHost, Goto, CountIn, Enters, Joins
<1> QED BY <1>1, <1>2

\* A step keeps the types; that a reference count stays natural takes Counted.
LEMMA TypeStep == IInv /\ [Next]_vars => TypeOK'
<1> SUFFICES ASSUME IInv, [Next]_vars PROVE TypeOK'
  OBVIOUS
<1> USE NilAssumption DEF TypeOK, PCs, Goto
<1>0. TypeOK /\ ArgsOK /\ OneLock /\ Counted
  BY DEF IInv
<1>1. ASSUME NEW t \in Thread, NEW h \in Host, LockHost(t, h) PROVE TypeOK'
  <2>1. CASE locks[h] \in Lock /\ Joins(t, h)
    BY <1>0, <2>1 DEF Joins, Enters
  <2>2. ASSUME NEW l \in Lock, Creates(t, h, l) PROVE TypeOK'
    BY <1>0, <2>2 DEF Creates, Enters
  <2> QED BY <1>0, <1>1, <2>1, <2>2, LockHostCases
<1>2. ASSUME NEW t \in Thread, Acquire(t) PROVE TypeOK'
  BY <1>0, <1>2 DEF Acquire
<1>3. ASSUME NEW t \in Thread, Hit(t) PROVE TypeOK'
  BY <1>0, <1>3, CountedOnce, MoveToFrontType DEF Hit, Cached
<1>4. ASSUME NEW t \in Thread, Miss(t) PROVE TypeOK'
  BY <1>0, <1>4 DEF Miss
<1>5. ASSUME NEW t \in Thread, Issue(t) PROVE TypeOK'
  BY <1>0, <1>5 DEF Issue
<1>6. ASSUME NEW t \in Thread, IssueError(t) PROVE TypeOK'
  BY <1>0, <1>6 DEF IssueError
<1>7. ASSUME NEW t \in Thread, PutCached(t) PROVE TypeOK'
  <2> DEFINE h == hostOf[t]
             list == IF Cached(h) THEN MoveToFront(cacheLRU, h) ELSE <<h>> \o cacheLRU
  <2>1. h \in Host
    BY <1>0, <1>7, CountedOnce DEF PutCached
  <2>2. list \in Seq(Host)
    BY <1>0, <2>1, MoveToFrontType
  <2>3. Len(list) > CacheMax => list # << >>
    BY <2>2, CacheMaxAssumption
  <2>4. cacheLRU' \in Seq(Host)
    BY <1>7, <2>2, <2>3, CacheMaxAssumption, ShortenType DEF PutCached
  <2>5. cache' \in [Host -> Cert \cup {Nil}]
    BY <1>0, <1>7 DEF PutCached, MapAfter
  <2> QED BY <1>0, <1>7, <2>4, <2>5 DEF PutCached
<1>8. ASSUME NEW t \in Thread, Unlock(t) PROVE TypeOK'
  BY <1>0, <1>8 DEF Unlock
<1>9. ASSUME NEW t \in Thread, Release(t) PROVE TypeOK'
  <2>1. lockOf[t] \in Lock /\ refs[lockOf[t]] > 0
    BY <1>0, <1>9, CountedOnce DEF Release
  <2>2. refs' \in [Lock -> Nat]
    BY <1>0, <1>9, <2>1 DEF Release
  <2>3. locks' \in [Host -> Lock \cup {Nil}]
    BY <1>0, <1>9 DEF Release
  <2> QED BY <1>0, <1>9, <2>2, <2>3 DEF Release
<1>10. CASE UNCHANGED vars
  BY <1>0, <1>10 DEF vars
<1> QED BY <1>1, <1>2, <1>3, <1>4, <1>5, <1>6, <1>7, <1>8, <1>9, <1>10 DEF Next, Step
-------------------------------------------------------------------------------
LockInv == ArgsOK /\ OneLock /\ NoOrphan /\ OneHost /\ Counted /\ HolderOK

\* Moving on between lookup and unlock disturbs no lock.
LEMMA InsideStep ==
  ASSUME TypeOK, LockInv, NEW t \in Thread, pc[t] \in Inside,
         NEW x \in Inside, pc' = [pc EXCEPT ![t] = x],
         UNCHANGED <<hostOf, lockOf, locks, refs, holder>>
  PROVE  LockInv'
BY DEF TypeOK, LockInv, ArgsOK, OneLock, NoOrphan, OneHost, Counted, HolderOK,
       Pointing, Inside

\* lockHost keeps the lock invariants: the pointer it hands out is in the map and
\* counted before l.mu is released.
LEMMA LockHostStep ==
  ASSUME TypeOK, LockInv, NEW t \in Thread, NEW h \in Host, LockHost(t, h)
  PROVE  LockInv'
<1> USE NilAssumption
<1>1. pc[t] = "idle" /\ lockOf[t] = Nil /\ hostOf[t] = Nil
  BY LockHostCases DEF LockInv, ArgsOK
<1>2. \A l \in Lock : IsFiniteSet(Pointing(l)) /\ t \notin Pointing(l)
  BY <1>1, ThreadAssumption, FS_Subset DEF Pointing
<1>3. ASSUME NEW l \in Lock, Enters(t, h, l)
      PROVE  /\ ArgsOK'
             /\ \A k \in Lock : Pointing(k)' = IF k = l THEN Pointing(k) \cup {t} ELSE Pointing(k)
             /\ Cardinality(Pointing(l)') = Cardinality(Pointing(l)) + 1
  <2>1. ArgsOK'
    BY <1>3 DEF TypeOK, LockInv, ArgsOK, Enters
  <2>2. \A k \in Lock : Pointing(k)' = IF k = l THEN Pointing(k) \cup {t} ELSE Pointing(k)
    BY <1>1, <1>3 DEF TypeOK, Enters, Pointing
  <2>3. Cardinality(Pointing(l)') = Cardinality(Pointing(l)) + 1
    BY <1>2, <2>2, FS_AddElement
  <2> QED BY <2>1, <2>2, <2>3
<1>4. CASE locks[h] \in Lock /\ Joins(t, h)
  <2>1. Enters(t, h, locks[h])
    BY <1>4 DEF Joins
  <2>2. OneLock' /\ OneHost'
    BY <1>4 DEF TypeOK, LockInv, OneLock, OneHost, Joins, Enters
  <2>3. NoOrphan'
    BY <1>3, <1>4, <2>1 DEF TypeOK, LockInv, NoOrphan, Joins
  <2>4. Counted'
    BY <1>3, <1>4, <2>1 DEF TypeOK, LockInv, Counted, Joins
  <2>5. HolderOK'
    BY <1>1, <1>4 DEF TypeOK, LockInv, HolderOK, Joins, Enters, Inside
  <2> QED BY <1>3, <1>4, <2>1, <2>2, <2>3, <2>4, <2>5 DEF LockInv
<1>5. ASSUME NEW l \in Lock, locks[h] = Nil, Free(l), Creates(t, h, l) PROVE LockInv'
  <2>1. Enters(t, h, l)
    BY <1>5 DEF Creates
  <2>2. Pointing(l) = {} /\ \A g \in Host : locks[g] # l
    BY <1>5 DEF Free
  <2>3. OneLock'
    BY <1>5, <2>1 DEF TypeOK, LockInv, OneLock, ArgsOK, Creates, Enters
  <2>4. OneHost'
    BY <1>5, <2>2 DEF TypeOK, LockInv, OneHost, Creates
  <2>5. NoOrphan'
    BY <1>3, <1>5, <2>1 DEF TypeOK, LockInv, NoOrphan, Creates
  <2>6. Counted'
    <3>1. Cardinality(Pointing(l)') = 1
      BY <1>3, <2>1, <2>2, FS_EmptySet
    <3> QED BY <1>3, <1>5, <2>1, <3>1 DEF TypeOK, LockInv, Counted, Creates
  <2>7. HolderOK'
    BY <1>1, <1>5, <2>1, <2>2 DEF TypeOK, LockInv, HolderOK, Creates, Enters, Inside, Pointing
  <2> QED BY <1>3, <2>1, <2>3, <2>4, <2>5, <2>6, <2>7 DEF LockInv
<1> QED BY <1>4, <1>5, LockHostCases

\* Taking hlock.mu keeps the lock invariants.
LEMMA AcquireStep ==
  ASSUME TypeOK, LockInv, NEW t \in Thread, Acquire(t)
  PROVE  LockInv'
<1>1. lockOf[t] \in Lock /\ pc[t] = "wait" /\ holder[lockOf[t]] = Nil
  BY CountedOnce DEF Acquire, Goto, LockInv
<1>2. ArgsOK' /\ OneLock' /\ NoOrphan' /\ OneHost' /\ Counted'
  BY <1>1 DEF TypeOK, LockInv, ArgsOK, OneLock, NoOrphan, OneHost, Counted,
              Pointing, Acquire, Goto
<1>3. HolderOK'
  BY <1>1, NilAssumption DEF TypeOK, LockInv, HolderOK, Acquire, Goto, Inside
<1> QED BY <1>2, <1>3 DEF LockInv

\* So does releasing it: the pointer stays, and stays counted, until release.
LEMMA UnlockStep ==
  ASSUME TypeOK, LockInv, NEW t \in Thread, Unlock(t)
  PROVE  LockInv'
<1>1. lockOf[t] \in Lock /\ pc[t] = "unlock" /\ holder[lockOf[t]] = t
  BY CountedOnce DEF Unlock, Goto, LockInv, HolderOK, Inside
<1>2. ArgsOK' /\ OneLock' /\ NoOrphan' /\ OneHost' /\ Counted'
  BY <1>1 DEF TypeOK, LockInv, ArgsOK, OneLock, NoOrphan, OneHost, Counted,
              Pointing, Unlock, Goto
<1>3. HolderOK'
  BY <1>1, NilAssumption DEF TypeOK, LockInv, HolderOK, Unlock, Goto, Inside
<1> QED BY <1>2, <1>3 DEF LockInv

\* The deferred release keeps the lock invariants: the entry leaves the map only
\* with the last goroutine that points to it.
LEMMA ReleaseStep ==
  ASSUME TypeOK, LockInv, NEW t \in Thread, Release(t)
  PROVE  LockInv'
<1> USE NilAssumption
<1>0. PICK l \in Lock, h \in Host : lockOf[t] = l /\ hostOf[t] = h
  BY CountedOnce DEF Release, Goto, LockInv
<1>1. /\ pc[t] = "release" /\ lockOf[t] = l /\ hostOf[t] = h
      /\ locks[h] = l
      /\ refs[l] \in Nat /\ refs[l] > 0
      /\ refs[l] = 1 => Pointing(l) = {t}
  BY <1>0, CountedOnce DEF Release, Goto, LockInv, TypeOK
<1>2. \A k \in Lock : Pointing(k)' = IF k = l THEN Pointing(k) \ {t} ELSE Pointing(k)
  BY <1>1 DEF TypeOK, Release, Pointing
<1>3. ArgsOK'
  BY <1>1 DEF TypeOK, LockInv, ArgsOK, Release, Goto
<1>4. Counted'
  <2>1. Cardinality(Pointing(l)') = Cardinality(Pointing(l)) - 1
    <3>1. IsFiniteSet(Pointing(l)) /\ t \in Pointing(l)
      BY <1>0, ThreadAssumption, FS_Subset DEF Pointing
    <3> QED BY <1>1, <1>2, <3>1, FS_RemoveElement
  <2> QED BY <1>1, <1>2, <2>1 DEF TypeOK, LockInv, Counted, Release
<1>5. HolderOK'
  BY <1>1 DEF TypeOK, LockInv, HolderOK, Release, Goto, Inside
<1>6. CASE LastOut(l)
  <2>1. refs[l] = 1 /\ locks' = [locks EXCEPT ![h] = Nil]
    BY <1>1, <1>6 DEF LastOut, Release
  <2>2. OneLock'
    <3> SUFFICES ASSUME NEW u \in Thread, lockOf'[u] # Nil
                 PROVE  locks'[hostOf'[u]] = lockOf'[u]
      BY DEF OneLock
    <3>1. u # t /\ lockOf[u] # Nil /\ lockOf'[u] = lockOf[u] /\ hostOf'[u] = hostOf[u]
      BY DEF TypeOK, Release
    <3>2. hostOf[u] \in Host /\ locks[hostOf[u]] = lockOf[u]
      BY <3>1 DEF TypeOK, LockInv, ArgsOK, OneLock
    <3>3. lockOf[u] # l
      BY <1>1, <2>1, <3>1 DEF Pointing
    <3> QED BY <1>1, <2>1, <3>1, <3>2, <3>3 DEF TypeOK
  <2>3. OneHost'
    BY <1>1, <2>1 DEF TypeOK, LockInv, OneHost
  <2>4. NoOrphan'
    <3> SUFFICES ASSUME NEW g \in Host, NEW k, locks'[g] = k, k # Nil
                 PROVE  Pointing(k)' # {}
      BY DEF NoOrphan
    <3>1. g # h /\ locks[g] = k /\ k \in Lock
      BY <1>1, <2>1 DEF TypeOK
    <3>2. k # l
      BY <1>1, <3>1 DEF LockInv, OneHost
    <3>3. Pointing(k) # {} /\ Pointing(k)' = Pointing(k)
      BY <1>2, <3>1, <3>2 DEF LockInv, NoOrphan
    <3> QED BY <3>3
  <2> QED BY <1>3, <1>4, <1>5, <2>2, <2>3, <2>4 DEF LockInv
<1>7. CASE ~LastOut(l)
  <2>1. refs[l] > 1 /\ locks' = locks
    BY <1>1, <1>7 DEF LastOut, Release
  <2>2. OneLock' /\ OneHost'
    BY <2>1 DEF TypeOK, LockInv, OneLock, OneHost, Release
  <2>3. NoOrphan'
    <3> SUFFICES ASSUME NEW g \in Host, NEW k, locks[g] = k, k # Nil
                 PROVE  Pointing(k)' # {}
      BY <2>1 DEF NoOrphan
    <3>1. k \in Lock /\ Pointing(k) # {}
      BY DEF TypeOK, LockInv, NoOrphan
    <3>2. Pointing(l) # {t}
      <4>1. Cardinality({t}) = 1 /\ Cardinality(Pointing(l)) > 1
        BY <1>1, <2>1, FS_Singleton DEF LockInv, Counted
      <4> QED BY <4>1
    <3> QED BY <1>2, <3>1, <3>2
  <2> QED BY <1>3, <1>4, <1>5, <2>2, <2>3 DEF LockInv
<1> QED BY <1>6, <1>7

-------------------------------------------------------------------------------
\* In a state with the lock invariants, the goroutines inside have hosts apart.
LEMMA InsideAlone == TypeOK /\ LockInv => SingleFlight
<1> SUFFICES ASSUME TypeOK, LockInv, NEW t \in Thread, NEW u \in Thread,
                    pc[t] \in Inside, pc[u] \in Inside, hostOf[t] = hostOf[u]
             PROVE  t = u
  BY DEF SingleFlight
<1>1. locks[hostOf[t]] = lockOf[t] /\ locks[hostOf[u]] = lockOf[u]
  BY CountedOnce DEF LockInv, Inside
<1>2. holder[lockOf[t]] = t /\ holder[lockOf[u]] = u
  BY DEF LockInv, HolderOK
<1> QED BY <1>1, <1>2

\* A step keeps the lock invariants.
LEMMA LockStep == IInv /\ [Next]_vars => LockInv'
<1> SUFFICES ASSUME IInv, [Next]_vars PROVE LockInv'
  OBVIOUS
<1>0. TypeOK /\ LockInv
  BY DEF IInv, LockInv
<1>1. ASSUME NEW t \in Thread, NEW h \in Host, LockHost(t, h) PROVE LockInv'
  BY <1>0, <1>1, LockHostStep
<1>2. ASSUME NEW t \in Thread, Acquire(t) PROVE LockInv'
  BY <1>0, <1>2, AcquireStep
<1>3. ASSUME NEW t \in Thread,
             Hit(t) \/ Miss(t) \/ Issue(t) \/ IssueError(t) \/ PutCached(t)
      PROVE  LockInv'
  <2>1. pc[t] \in Inside /\ \E x \in Inside : pc' = [pc EXCEPT ![t] = x]
    BY <1>3 DEF Hit, Miss, Issue, IssueError, PutCached, Goto, Inside
  <2>2. UNCHANGED <<hostOf, lockOf, locks, refs, holder>>
    BY <1>3 DEF Hit, Miss, Issue, IssueError, PutCached
  <2> QED BY <1>0, <2>1, <2>2, InsideStep
<1>4. ASSUME NEW t \in Thread, Unlock(t) PROVE LockInv'
  BY <1>0, <1>4, UnlockStep
<1>5. ASSUME NEW t \in Thread, Release(t) PROVE LockInv'
  BY <1>0, <1>5, ReleaseStep
<1>6. CASE UNCHANGED vars
  BY <1>0, <1>6 DEF vars, LockInv, ArgsOK, OneLock, NoOrphan, OneHost, Counted,
                    HolderOK, Pointing
<1> QED BY <1>1, <1>2, <1>3, <1>4, <1>5, <1>6 DEF Next, Step

\* A step keeps what a goroutine saw at its lookup: only it could insert the host.
LEMMA MissStep == IInv /\ [Next]_vars => MissHolds'
<1> SUFFICES ASSUME IInv, [Next]_vars PROVE MissHolds'
  OBVIOUS
<1> USE NilAssumption DEF MissHolds, Goto, Cached
<1>0. TypeOK /\ LockInv /\ MissHolds
  BY DEF IInv, LockInv
<1>1. ASSUME NEW t \in Thread, NEW h \in Host, LockHost(t, h) PROVE MissHolds'
  BY <1>0, <1>1 DEF LockHost, TypeOK
<1>2. ASSUME NEW t \in Thread, Acquire(t) PROVE MissHolds'
  BY <1>0, <1>2 DEF Acquire, TypeOK
<1>3. ASSUME NEW t \in Thread, Hit(t) PROVE MissHolds'
  BY <1>0, <1>3 DEF Hit, TypeOK
<1>4. ASSUME NEW t \in Thread, Miss(t) PROVE MissHolds'
  BY <1>0, <1>4 DEF Miss, TypeOK
<1>5. ASSUME NEW t \in Thread, Issue(t) PROVE MissHolds'
  BY <1>0, <1>5 DEF Issue, TypeOK
<1>6. ASSUME NEW t \in Thread, IssueError(t) PROVE MissHolds'
  BY <1>0, <1>6 DEF IssueError, TypeOK
<1>7. ASSUME NEW t \in Thread, PutCached(t) PROVE MissHolds'
  <2>1. \A h \in Host : h # hostOf[t] => cache'[h] \in {cache[h], Nil}
    BY <1>0, <1>7 DEF PutCached, MapAfter, TypeOK
  <2>2. \A u \in Thread : u # t /\ pc[u] \in {"issue", "put"} => hostOf[u] # hostOf[t]
    BY <1>0, <1>7, InsideAlone DEF PutCached, SingleFlight, Inside
  <2>3. \A u \in Thread : pc[u] # "idle" => hostOf[u] \in Host
    BY <1>0, CountedOnce DEF LockInv
  <2> QED BY <1>0, <1>7, <2>1, <2>2, <2>3 DEF PutCached, TypeOK
<1>8. ASSUME NEW t \in Thread, Unlock(t) PROVE MissHolds'
  BY <1>0, <1>8 DEF Unlock, TypeOK
<1>9. ASSUME NEW t \in Thread, Release(t) PROVE MissHolds'
  BY <1>0, <1>9 DEF Release, TypeOK
<1>10. CASE UNCHANGED vars
  BY <1>0, <1>10 DEF vars
<1> QED BY <1>1, <1>2, <1>3, <1>4, <1>5, <1>6, <1>7, <1>8, <1>9, <1>10 DEF Next, Step

\* The inductive invariant holds before the first call.
LEMMA InitInv == Init => IInv
<1> SUFFICES ASSUME Init PROVE IInv
  OBVIOUS
<1>1. TypeOK /\ ArgsOK /\ OneLock /\ NoOrphan /\ OneHost /\ HolderOK /\ MissHolds
  BY NilAssumption DEF Init, TypeOK, PCs, ArgsOK, OneLock, NoOrphan, OneHost,
                       HolderOK, Inside, MissHolds
<1>2. Counted
  <2>1. \A l \in Lock : Pointing(l) = {}
    BY NilAssumption DEF Init, Pointing
  <2> QED BY <2>1, FS_EmptySet DEF Init, Counted
<1> QED BY <1>1, <1>2 DEF IInv

\* The inductive invariant holds throughout.
THEOREM Invariance == Spec => []IInv
<1>1. IInv /\ [Next]_vars => IInv'
  BY TypeStep, LockStep, MissStep DEF IInv, LockInv
<1> QED BY <1>1, InitInv, PTL DEF Spec

\* Every variable of CA and every local of LeafCert keeps its type; above all
\* the reference counts of the host locks never go below zero.
THEOREM TypeCorrect == Spec => []TypeOK
<1>1. IInv => TypeOK
  BY DEF IInv
<1> QED BY <1>1, Invariance, PTL

\* Two calls of LeafCert never look up, issue or insert for one host at a time,
\* although the lock of the host comes and goes in ca.locks.
THEOREM SingleFlightHolds == Spec => []SingleFlight
<1>1. IInv => SingleFlight
  BY InsideAlone DEF IInv, LockInv
<1> QED BY <1>1, Invariance, PTL

\* A call waits on hlock.mu only for a call about its own host.
THEOREM BlockedBySameHostHolds == Spec => []BlockedBySameHost
<1>1. IInv => BlockedBySameHost
  <2> SUFFICES ASSUME IInv, NEW t \in Thread, NEW u \in Thread,
                      pc[t] = "wait", holder[lockOf[t]] = u
               PROVE  hostOf[t] = hostOf[u]
    BY DEF BlockedBySameHost
  <2>1. TypeOK /\ LockInv
    BY DEF IInv, LockInv
  <2>2. hostOf[t] \in Host /\ lockOf[t] \in Lock /\ locks[hostOf[t]] = lockOf[t]
    BY <2>1, CountedOnce DEF LockInv
  <2>3. pc[u] # "idle" /\ lockOf[u] = lockOf[t]
    BY <2>1, <2>2 DEF LockInv, HolderOK, Inside
  <2>4. hostOf[u] \in Host /\ locks[hostOf[u]] = lockOf[u]
    BY <2>1, <2>3, CountedOnce DEF LockInv
  <2> QED BY <2>1, <2>2, <2>3, <2>4, NilAssumption DEF LockInv, OneHost
<1> QED BY <1>1, Invariance, PTL

\* ca.locks has an entry for the hosts of the calls in progress and no other.
THEOREM LocksReclaimedHolds == Spec => []LocksReclaimed
<1>1. IInv => LocksReclaimed
  <2> SUFFICES ASSUME IInv, NEW h \in Host
               PROVE  locks[h] # Nil <=> \E t \in Thread : pc[t] # "idle" /\ hostOf[t] = h
    BY DEF LocksReclaimed
  <2>1. TypeOK /\ LockInv
    BY DEF IInv, LockInv
  <2>2. ASSUME locks[h] # Nil PROVE \E t \in Thread : pc[t] # "idle" /\ hostOf[t] = h
    <3>1. PICK t \in Thread : lockOf[t] = locks[h]
      BY <2>1, <2>2 DEF LockInv, NoOrphan, Pointing
    <3>2. pc[t] # "idle"
      BY <2>1, <2>2, <3>1 DEF LockInv, ArgsOK
    <3>3. hostOf[t] \in Host /\ locks[hostOf[t]] = lockOf[t]
      BY <2>1, <3>2, CountedOnce DEF LockInv
    <3> QED BY <2>1, <2>2, <3>1, <3>2, <3>3 DEF LockInv, OneHost
  <2>3. ASSUME NEW t \in Thread, pc[t] # "idle", hostOf[t] = h PROVE locks[h] # Nil
    BY <2>1, <2>3, CountedOnce, NilAssumption DEF LockInv
  <2> QED BY <2>2, <2>3
<1> QED BY <1>1, Invariance, PTL

\* The certificate of a host is replaced only after it was evicted: putCached
\* never finds an entry to overwrite.
THEOREM NeverReissued == Spec => NeverReissuedWhileCached
<1>1. IInv /\ [Next]_vars => [\A h \in Host : Cached(h) => cache'[h] \in {cache[h], Nil}]_vars
  <2> SUFFICES ASSUME IInv, Next, NEW h \in Host, Cached(h)
               PROVE  cache'[h] \in {cache[h], Nil}
    OBVIOUS
  <2>1. CASE UNCHANGED cache
    BY <2>1
  <2>2. ASSUME NEW t \in Thread, PutCached(t) PROVE cache'[h] \in {cache[h], Nil}
    <3>1. h # hostOf[t]
      BY <2>2 DEF IInv, MissHolds, PutCached, Goto
    <3> QED BY <2>2, <3>1 DEF IInv, TypeOK, PutCached, MapAfter
  <2> QED BY <2>1, <2>2 DEF Next, Step, LockHost, Acquire, Hit, Miss, Issue,
                            IssueError, Unlock, Release
<1> QED BY <1>1, Invariance, PTL DEF Spec, NeverReissuedWhileCached
-------------------------------------------------------------------------------
(* The proof that LeafCerts implements LeafCertsAbs; on the way, that the map  *)
(* and the list of the cache agree.                                          *)

In(s, h) == \E i \in 1..Len(s) : s[i] = h
Distinct(s) == \A i, j \in 1..Len(s) : s[i] = s[j] => i = j

\* The map and the list of the cache describe the same entries, each host has
\* one list element, and the list never outgrows its capacity.
CacheCoherent == /\ \A h \in Host : Cached(h) <=> In(cacheLRU, h)
                 /\ Distinct(cacheLRU)
                 /\ Len(cacheLRU) <= CacheMax

\* A certificate that was issued and is not inserted yet is nowhere else.
Fresh == /\ \A t \in Thread : pc[t] \in {"idle", "wait", "lookup", "issue"} => hand[t] = Nil
         /\ \A t \in Thread : pc[t] = "put" =>
              /\ \A h \in Host : cache[h] # hand[t]
              /\ \A u \in Thread \ {t} : hand[u] # hand[t]

RInv == IInv /\ CacheCoherent /\ Fresh
-------------------------------------------------------------------------------
\* MoveToFront permutes a list.
LEMMA MoveToFrontKeeps ==
  ASSUME NEW s \in Seq(Host), Distinct(s), NEW h \in Host, In(s, h)
  PROVE  /\ Distinct(MoveToFront(s, h))
         /\ \A g \in Host : In(MoveToFront(s, h), g) <=> In(s, g)
<1> DEFINE n == Len(s)
           i == CHOOSE k \in DOMAIN s : s[k] = h
           from(j) == IF j = 1 THEN i ELSE IF j <= i THEN j - 1 ELSE j
           r == MoveToFront(s, h)
<1>1. n \in Nat /\ DOMAIN s = 1..n /\ i \in 1..n /\ s[i] = h
  BY DEF In
<1>2. Len(r) = n /\ \A j \in 1..n : from(j) \in 1..n /\ r[j] = s[from(j)]
  <2>1. \A j \in 1..n : from(j) \in 1..n
    BY <1>1
  <2>2. r = [j \in 1..n |-> IF j = 1 THEN h ELSE IF j <= i THEN s[j-1] ELSE s[j]]
    BY DEF MoveToFront
  <2>3. Len(r) = n
    BY MoveToFrontType
  <2> QED BY <1>1, <2>1, <2>2, <2>3
<1>3. \A j, k \in 1..n : from(j) = from(k) => j = k
  BY <1>1
<1>4. \A k \in 1..n : \E j \in 1..n : from(j) = k
  <2> SUFFICES ASSUME NEW k \in 1..n PROVE \E j \in 1..n : from(j) = k
    OBVIOUS
  <2>1. CASE k = i
    <3>1. 1 \in 1..n /\ from(1) = k
      BY <1>1, <2>1
    <3> QED BY <3>1
  <2>2. CASE k < i
    <3>1. k + 1 \in 1..n /\ from(k + 1) = k
      BY <1>1, <2>2
    <3> QED BY <3>1
  <2>3. CASE k > i
    <3>1. from(k) = k
      BY <1>1, <2>3
    <3> QED BY <3>1
  <2> HIDE DEF from
  <2> QED BY <1>1, <2>1, <2>2, <2>3
<1> HIDE DEF from, r, i
<1>5. Distinct(r)
  BY <1>2, <1>3 DEF Distinct
<1>6. \A g \in Host : In(r, g) <=> In(s, g)
  BY <1>2, <1>4 DEF In
<1> QED BY <1>5, <1>6 DEF r

\* A list without repetition has as many entries as there are hosts in it.
LEMMA StoredCount ==
  ASSUME TypeOK, CacheCoherent
  PROVE  Cardinality(Abs!Stored(cache)) = Len(cacheLRU)
<1> DEFINE n == Len(cacheLRU)
           S == Abs!Stored(cache)
<1>1. n \in Nat /\ cacheLRU \in [1..n -> Host]
  BY DEF TypeOK
<1>2. S = {h \in Host : In(cacheLRU, h)}
  BY DEF CacheCoherent, Cached, Abs!Stored
<1>3. cacheLRU \in Surjection(1..n, S)
  BY <1>1, <1>2 DEF Surjection, In
<1>4. cacheLRU \in Injection(1..n, S)
  BY <1>3 DEF Surjection, Injection, IsInjective, CacheCoherent, Distinct
<1>5. IsFiniteSet(1..n) /\ Cardinality(1..n) = n
  BY <1>1, FS_Interval
<1> QED BY <1>3, <1>4, <1>5, FS_Surjection

\* What putCached does to a cache without an entry for the host: it has room,
\* or the entry at the back goes.
LEMMA PutCases ==
  ASSUME RInv, NEW t \in Thread, PutCached(t)
  PROVE  LET h == hostOf[t]
             n == Len(cacheLRU)
         IN  /\ h \in Host /\ ~Cached(h) /\ hand[t] \in Cert
             /\ \/ /\ n < CacheMax
                   /\ cache' = [cache EXCEPT ![h] = hand[t]]
                   /\ cacheLRU' = <<h>> \o cacheLRU
                \/ /\ n = CacheMax
                   /\ cache' = [cache EXCEPT ![h] = hand[t], ![cacheLRU[n]] = Nil]
                   /\ cacheLRU' = SubSeq(<<h>> \o cacheLRU, 1, n)
<1> DEFINE h == hostOf[t]
           n == Len(cacheLRU)
           list == <<h>> \o cacheLRU
<1>1. h \in Host /\ ~Cached(h) /\ hand[t] \in Cert
  <2>1. pc[t] = "put"
    BY DEF PutCached, Goto
  <2> QED BY <2>1, CountedOnce, NilAssumption DEF RInv, IInv, MissHolds, TypeOK
<1>2. n \in Nat /\ n <= CacheMax /\ cacheLRU \in Seq(Host) /\ CacheMax \in Nat \ {0}
  BY CacheMaxAssumption DEF RInv, IInv, TypeOK, CacheCoherent
<1>3. Len(list) = n + 1 /\ (n > 0 => list[n + 1] = cacheLRU[n])
  BY <1>1, <1>2
<1>4. /\ cache' = MapAfter(list, h, hand[t])
      /\ cacheLRU' = IF Len(list) <= CacheMax THEN list ELSE SubSeq(list, 1, Len(list) - 1)
  BY <1>1 DEF PutCached
<1> HIDE DEF list
<1>5. CASE n < CacheMax
  <2>1. Len(list) <= CacheMax
    BY <1>2, <1>3, <1>5
  <2> QED BY <1>1, <1>4, <1>5, <2>1 DEF MapAfter, list
<1>6. CASE n = CacheMax
  <2>1. ~(Len(list) <= CacheMax) /\ Len(list) - 1 = n /\ list[Len(list)] = cacheLRU[n]
    BY <1>2, <1>3, <1>6
  <2>2. cache' = [cache EXCEPT ![h] = hand[t], ![cacheLRU[n]] = Nil]
    BY <1>4, <2>1 DEF MapAfter
  <2> QED BY <1>1, <1>4, <1>6, <2>1, <2>2 DEF list
<1> QED BY <1>2, <1>5, <1>6

\* Lookup and insertion keep map and list in agreement.
LEMMA CoherentStep == RInv /\ [Next]_vars => CacheCoherent'
<1> SUFFICES ASSUME RInv, [Next]_vars PROVE CacheCoherent'
  OBVIOUS
<1>0. TypeOK /\ CacheCoherent /\ IInv
  BY DEF RInv, IInv
<1>1. ASSUME NEW t \in Thread, Hit(t) PROVE CacheCoherent'
  <2> DEFINE h == hostOf[t]
  <2>1. h \in Host /\ Cached(h) /\ cacheLRU' = MoveToFront(cacheLRU, h) /\ cache' = cache
    BY <1>0, <1>1, NilAssumption DEF Hit, Goto, IInv, ArgsOK, TypeOK
  <2>2. In(cacheLRU, h) /\ Distinct(cacheLRU) /\ cacheLRU \in Seq(Host)
    BY <1>0, <2>1 DEF CacheCoherent, TypeOK
  <2>3. Distinct(cacheLRU') /\ (\A g \in Host : In(cacheLRU, g)' <=> In(cacheLRU, g)) /\ Len(cacheLRU') = Len(cacheLRU)
    BY <2>1, <2>2, MoveToFrontKeeps, MoveToFrontType DEF In
  <2> QED BY <1>0, <2>1, <2>3 DEF CacheCoherent, Cached, Distinct
<1>2. ASSUME NEW t \in Thread, PutCached(t) PROVE CacheCoherent'
  <2> DEFINE h == hostOf[t]
             n == Len(cacheLRU)
             list == <<h>> \o cacheLRU
  <2>1. n \in Nat /\ cacheLRU \in Seq(Host) /\ CacheMax \in Nat \ {0} /\ cache \in [Host -> Cert \cup {Nil}]
    BY <1>0, CacheMaxAssumption DEF TypeOK
  <2>2. h \in Host /\ ~Cached(h) /\ hand[t] \in Cert /\ hand[t] # Nil
    BY <1>2, PutCases, NilAssumption
  <2>3. /\ list \in Seq(Host) /\ Len(list) = n + 1 /\ list[1] = h
        /\ \A i \in 1..n : list[i + 1] = cacheLRU[i]
    BY <2>1, <2>2
  <2>4. ~In(cacheLRU, h) /\ Distinct(cacheLRU) /\ \A g \in Host : Cached(g) <=> In(cacheLRU, g)
    BY <1>0, <2>2 DEF CacheCoherent
  <2>5. Distinct(list)
    <3>1. \A i \in 1..(n + 1) : i = 1 \/ (i - 1 \in 1..n /\ list[i] = cacheLRU[i - 1])
      BY <2>1, <2>3
    <3> QED BY <2>1, <2>3, <2>4, <3>1 DEF Distinct, In
  <2> HIDE DEF list, n, h
  <2>6. CASE n < CacheMax /\ cache' = [cache EXCEPT ![h] = hand[t]] /\ cacheLRU' = list
    <3>1. \A g \in Host : In(list, g) <=> g = h \/ In(cacheLRU, g)
      <4> SUFFICES ASSUME NEW g \in Host PROVE In(list, g) <=> g = h \/ In(cacheLRU, g)
        OBVIOUS
      <4>1. ASSUME NEW i \in 1..(n + 1), list[i] = g PROVE g = h \/ In(cacheLRU, g)
        <5>1. i = 1 \/ (i - 1 \in 1..n /\ list[(i - 1) + 1] = g)
          BY <2>1, <4>1
        <5> QED BY <2>3, <4>1, <5>1 DEF In, n
      <4>2. ASSUME NEW i \in 1..n, cacheLRU[i] = g PROVE In(list, g)
        <5>1. i + 1 \in 1..(n + 1) /\ list[i + 1] = g
          BY <2>1, <2>3, <4>2
        <5> QED BY <2>3, <5>1 DEF In
      <4>3. In(list, h)
        BY <2>1, <2>3 DEF In
      <4> QED BY <2>3, <4>1, <4>2, <4>3 DEF In, n
    <3>2. \A g \in Host : Cached(g)' <=> g = h \/ Cached(g)
      BY <2>1, <2>2, <2>6 DEF Cached
    <3>3. Len(cacheLRU') <= CacheMax
      BY <2>1, <2>3, <2>6
    <3>4. \A g \in Host : Cached(g)' <=> In(cacheLRU, g)'
      BY <2>4, <2>6, <3>1, <3>2 DEF In
    <3> QED BY <2>5, <2>6, <3>3, <3>4 DEF CacheCoherent, Distinct
  <2>7. CASE /\ n = CacheMax
             /\ cache' = [cache EXCEPT ![h] = hand[t], ![cacheLRU[n]] = Nil]
             /\ cacheLRU' = SubSeq(list, 1, n)
    <3> DEFINE out == cacheLRU[n]
    <3>1. out \in Host /\ out # h /\ n \in 1..n
      <4>1. n \in 1..n /\ cacheLRU[n] \in Host
        BY <2>1, <2>7 DEF n
      <4> QED BY <2>4, <4>1 DEF In, n
    <3>2. Len(cacheLRU') = n /\ \A i \in 1..n : cacheLRU'[i] = list[i]
      BY <2>1, <2>3, <2>7
    <3>3. Distinct(cacheLRU')
      BY <2>1, <2>3, <2>5, <3>2 DEF Distinct
    <3>4. \A g \in Host : In(cacheLRU', g) <=> g = h \/ (In(cacheLRU, g) /\ g # out)
      <4> SUFFICES ASSUME NEW g \in Host
                   PROVE  In(cacheLRU', g) <=> g = h \/ (In(cacheLRU, g) /\ g # out)
        OBVIOUS
      <4>1. ASSUME NEW i \in 1..n, list[i] = g PROVE g = h \/ (In(cacheLRU, g) /\ g # out)
        <5>1. i = 1 \/ (i - 1 \in 1..n /\ i - 1 # n /\ cacheLRU[i - 1] = g)
          <6>1. i = 1 \/ (i - 1 \in 1..n /\ i - 1 # n /\ list[(i - 1) + 1] = g)
            BY <2>1, <4>1
          <6> QED BY <2>3, <6>1
        <5> QED BY <2>3, <2>4, <3>1, <4>1, <5>1 DEF In, Distinct, n
      <4>2. ASSUME NEW i \in 1..n, cacheLRU[i] = g, g # out PROVE \E j \in 1..n : list[j] = g
        <5>1. i + 1 \in 1..n /\ list[i + 1] = g
          BY <2>1, <2>3, <4>2
        <5> QED BY <5>1
      <4>3. 1 \in 1..n
        BY <2>1, <3>1
      <4> QED BY <2>3, <3>2, <4>1, <4>2, <4>3 DEF In, n
    <3>5. \A g \in Host : Cached(g)' <=> g = h \/ (Cached(g) /\ g # out)
      BY <2>1, <2>2, <2>7, <3>1 DEF Cached
    <3>6. \A g \in Host : Cached(g)' <=> In(cacheLRU, g)'
      BY <2>4, <3>4, <3>5 DEF In
    <3> QED BY <2>1, <2>7, <3>2, <3>3, <3>6 DEF CacheCoherent, Distinct
  <2> QED BY <1>2, <2>6, <2>7, PutCases DEF h, n, list
<1>3. CASE UNCHANGED <<cache, cacheLRU>>
  BY <1>0, <1>3 DEF CacheCoherent, Cached, In, Distinct
<1> QED BY <1>1, <1>2, <1>3 DEF Next, Step, LockHost, Acquire, Miss, Issue, IssueError,
           Unlock, Release, vars

\* An issuance takes an identity that is nowhere, and only its own goroutine
\* hands it on.
LEMMA FreshStep == RInv /\ [Next]_vars => Fresh'
<1> SUFFICES ASSUME RInv, [Next]_vars PROVE Fresh'
  OBVIOUS
<1> USE NilAssumption DEF Fresh, Goto
<1>0. TypeOK /\ Fresh /\ ArgsOK
  BY DEF RInv, IInv
<1>1. ASSUME NEW t \in Thread, NEW h \in Host, LockHost(t, h) PROVE Fresh'
  BY <1>0, <1>1 DEF LockHost, TypeOK
<1>2. ASSUME NEW t \in Thread, Acquire(t) \/ Miss(t) \/ IssueError(t) \/ Unlock(t) PROVE Fresh'
  BY <1>0, <1>2 DEF Acquire, Miss, IssueError, Unlock, TypeOK
<1>3. ASSUME NEW t \in Thread, Hit(t) PROVE Fresh'
  <2>1. hostOf[t] \in Host
    BY <1>0, <1>3 DEF Hit, ArgsOK, TypeOK
  <2> QED BY <1>0, <1>3, <2>1 DEF Hit, TypeOK
<1>4. ASSUME NEW t \in Thread, Issue(t) PROVE Fresh'
  BY <1>0, <1>4 DEF Issue, InUse, TypeOK
<1>5. ASSUME NEW t \in Thread, PutCached(t) PROVE Fresh'
  <2>1. \A h \in Host : cache'[h] \in {cache[h], hand[t], Nil}
    BY <1>0, <1>5 DEF PutCached, MapAfter, TypeOK
  <2>2. \A u \in Thread : pc[u] = "put" => hand[u] # Nil
    BY DEF RInv, IInv, MissHolds
  <2>3. hand' = hand /\ pc' = [pc EXCEPT ![t] = "unlock"]
    BY <1>5 DEF PutCached
  <2> QED BY <1>0, <2>1, <2>2, <2>3 DEF TypeOK
<1>6. ASSUME NEW t \in Thread, Release(t) PROVE Fresh'
  <2>1. \A u \in Thread : pc[u] = "put" => hand[u] # Nil
    BY DEF RInv, IInv, MissHolds
  <2> QED BY <1>0, <1>6, <2>1 DEF Release, TypeOK
<1>7. CASE UNCHANGED vars
  BY <1>0, <1>7 DEF vars
<1> QED BY <1>1, <1>2, <1>3, <1>4, <1>5, <1>6, <1>7 DEF Next, Step

\* RInv holds throughout.
THEOREM RefinementInvariance == Spec => []RInv
<1>1. Init => RInv
  <2>1. Init => CacheCoherent /\ Fresh
    BY CacheMaxAssumption, NilAssumption DEF Init, CacheCoherent, Cached, In, Distinct, Fresh
  <2> QED BY <2>1, InitInv DEF RInv
<1>2. RInv /\ [Next]_vars => RInv'
  BY TypeStep, LockStep, MissStep, CoherentStep, FreshStep DEF RInv, IInv, LockInv
<1> QED BY <1>1, <1>2, PTL DEF Spec

\* The two halves of the cache, the map and the list, never disagree, and the
\* cache stays within leafCacheMaxEntries.
THEOREM CacheCoherentHolds == Spec => []CacheCoherent
<1>1. RInv => CacheCoherent
  BY DEF RInv
<1> QED BY <1>1, RefinementInvariance, PTL
-------------------------------------------------------------------------------
answeredBar == [t \in Thread |-> Answered(t)]
answerBar == [t \in Thread |-> IF Answered(t) THEN hand[t] ELSE Nil]

\* A call goes on without being answered, or after it was: a stutter.
LEMMA StutterStep ==
  ASSUME TypeOK, NEW t \in Thread,
         UNCHANGED <<hostOf, cache>>,
         \A u \in Thread : Answered(u)' = Answered(u) /\ (Answered(u) => hand'[u] = hand[u])
  PROVE  UNCHANGED Abs!vars
<1>1. answeredBar' = answeredBar /\ answerBar' = answerBar
  BY DEF answeredBar, answerBar
<1> QED BY <1>1 DEF Abs!vars, answeredBar, answerBar

\* A call that was pending takes effect: it is answered with what is in its hand.
LEMMA AnswerStep ==
  ASSUME TypeOK, ArgsOK, NEW t \in Thread, NEW from \in {"lookup", "issue", "put"},
         Goto(t, from, "unlock"), UNCHANGED hostOf,
         \A u \in Thread \ {t} : hand'[u] = hand[u]
  PROVE  /\ hostOf[t] \in Host
         /\ Abs!Pending(t)
         /\ answeredBar' = [answeredBar EXCEPT ![t] = TRUE]
         /\ answerBar' = [answerBar EXCEPT ![t] = hand'[t]]
<1> USE DEF Goto, Answered
<1>1. hostOf[t] \in Host /\ hostOf[t] # Nil /\ ~Answered(t)
  BY NilAssumption DEF TypeOK, ArgsOK
<1>2. answeredBar' = [answeredBar EXCEPT ![t] = TRUE]
  BY DEF answeredBar, TypeOK
<1>3. answerBar' = [answerBar EXCEPT ![t] = hand'[t]]
  BY DEF answerBar, TypeOK
<1> QED BY <1>1, <1>2, <1>3 DEF Abs!Pending, answeredBar, answerBar

\* The insertion of an issued certificate is ServeNew: the host at the back of a
\* full list is the one that goes out.
LEMMA ServeNewStep ==
  ASSUME RInv, NEW t \in Thread, PutCached(t)
  PROVE  Abs!ServeNew(t)
<1> DEFINE h == hostOf[t]
           n == Len(cacheLRU)
<1>0. TypeOK /\ ArgsOK /\ CacheCoherent /\ Fresh
  BY DEF RInv, IInv
<1>1. Abs!Pending(t) /\ Abs!Answer(t, hand[t])
  <2>1. Goto(t, "put", "unlock") /\ UNCHANGED <<hostOf, hand>>
    BY DEF PutCached
  <2>2. hand[t] \in Cert /\ hand'[t] = hand[t]
    BY <2>1, PutCases
  <2>3. UNCHANGED hostOf /\ \A u \in Thread \ {t} : hand'[u] = hand[u]
    BY <2>1
  <2> HIDE DEF h, n
  <2>4. Abs!Pending(t) /\ answeredBar' = [answeredBar EXCEPT ![t] = TRUE]
        /\ answerBar' = [answerBar EXCEPT ![t] = hand'[t]]
    BY <1>0, <2>1, <2>3, AnswerStep
  <2> QED BY <2>2, <2>3, <2>4 DEF Abs!Answer, answeredBar, answerBar
<1>2. h \in Host /\ ~Cached(h) /\ hand[t] \in Cert
  BY PutCases
<1>3. \A g \in Host : cache[g] # hand[t]
  BY <1>0 DEF Fresh, PutCached, Goto
<1>4. Abs!Cardinality(Abs!Stored(cache)) = n
  <2>1. Cardinality(Abs!Stored(cache)) = n
    BY <1>0, StoredCount
  <2> QED BY <2>1 DEF Cardinality, Abs!Cardinality
<1>5. \/ n < CacheMax /\ cache' = [cache EXCEPT ![h] = hand[t]]
      \/ /\ n = CacheMax
         /\ \E out \in Abs!Stored(cache) : cache' = [cache EXCEPT ![h] = hand[t], ![out] = Nil]
  <2>1. n = CacheMax => cacheLRU[n] \in Abs!Stored(cache)
    <3> SUFFICES ASSUME n = CacheMax PROVE cacheLRU[n] \in Abs!Stored(cache)
      OBVIOUS
    <3>1. n \in 1..n /\ cacheLRU[n] \in Host
      BY <1>0, CacheMaxAssumption DEF TypeOK
    <3> QED BY <1>0, <3>1 DEF Abs!Stored, CacheCoherent, Cached, In
  <2> QED BY <2>1, PutCases
<1>6. cache[h] = Nil
  BY <1>2 DEF Cached
<1>7. CASE n < CacheMax /\ cache' = [cache EXCEPT ![h] = hand[t]]
  BY <1>1, <1>2, <1>3, <1>4, <1>6, <1>7 DEF Abs!ServeNew, Abs!Answer
<1>8. CASE /\ n = CacheMax
           /\ \E out \in Abs!Stored(cache) : cache' = [cache EXCEPT ![h] = hand[t], ![out] = Nil]
  BY <1>1, <1>2, <1>3, <1>4, <1>6, <1>8 DEF Abs!ServeNew, Abs!Answer
<1> QED BY <1>5, <1>7, <1>8

\* Every step of LeafCerts is one of LeafCertsAbs, or a stutter.
LEMMA StepRefines == RInv /\ [Next]_vars => [Abs!Next]_(Abs!vars)
<1> SUFFICES ASSUME RInv, [Next]_vars PROVE Abs!Next \/ UNCHANGED Abs!vars
  OBVIOUS
<1>0. TypeOK /\ ArgsOK /\ Fresh
  BY DEF RInv, IInv
<1>1. ASSUME NEW t \in Thread, NEW h \in Host, LockHost(t, h) PROVE Abs!Ask(t, h)
  <2>1. hostOf[t] = Nil /\ hostOf' = [hostOf EXCEPT ![t] = h] /\ UNCHANGED <<hand, cache>>
    BY <1>0, <1>1 DEF LockHost, Goto, ArgsOK
  <2>2. \A u \in Thread : Answered(u)' = Answered(u)
    BY <1>0, <1>1 DEF LockHost, Goto, Answered, TypeOK
  <2>3. answeredBar' = answeredBar /\ answerBar' = answerBar
    BY <2>1, <2>2 DEF answeredBar, answerBar
  <2> QED BY <2>1, <2>3 DEF Abs!Ask, answeredBar, answerBar
<1>2. ASSUME NEW t \in Thread, Acquire(t) \/ Miss(t) \/ Issue(t) \/ Unlock(t)
      PROVE UNCHANGED Abs!vars
  <2>1. \A u \in Thread : Answered(u)' = Answered(u) /\ (Answered(u) => hand'[u] = hand[u])
    BY <1>0, <1>2 DEF Acquire, Miss, Issue, Unlock, Goto, Answered, TypeOK
  <2>2. UNCHANGED <<hostOf, cache>>
    BY <1>2 DEF Acquire, Miss, Issue, Unlock
  <2> QED BY <1>0, <2>1, <2>2, StutterStep
<1>3. ASSUME NEW t \in Thread, Hit(t) PROVE Abs!ServeStored(t)
  <2>1. Goto(t, "lookup", "unlock") /\ UNCHANGED <<hostOf, cache>> /\ cache[hostOf[t]] # Nil
        /\ hand' = [hand EXCEPT ![t] = cache[hostOf[t]]]
    BY <1>3 DEF Hit, Cached
  <2>2. cache[hostOf[t]] \in Cert /\ hand'[t] = cache[hostOf[t]] /\ \A u \in Thread \ {t} : hand'[u] = hand[u]
    BY <1>0, <2>1 DEF TypeOK, ArgsOK, Goto
  <2>3. Abs!Pending(t) /\ Abs!Answer(t, cache[hostOf[t]])
    <3>1. Abs!Pending(t) /\ answeredBar' = [answeredBar EXCEPT ![t] = TRUE]
          /\ answerBar' = [answerBar EXCEPT ![t] = hand'[t]]
      BY <1>0, <2>1, <2>2, AnswerStep
    <3> QED BY <2>1, <2>2, <3>1 DEF Abs!Answer, answeredBar, answerBar
  <2> QED BY <2>1, <2>2, <2>3 DEF Abs!ServeStored
<1>4. ASSUME NEW t \in Thread, IssueError(t) PROVE Abs!Refuse(t)
  <2>1. Goto(t, "issue", "unlock") /\ UNCHANGED <<hostOf, cache, hand>>
    BY <1>4 DEF IssueError
  <2>2. hand'[t] = Nil /\ cache[hostOf[t]] = Nil
    BY <1>0, <2>1 DEF Fresh, Goto, RInv, IInv, MissHolds, Cached
  <2>3. Abs!Pending(t) /\ Abs!Answer(t, Nil)
    <3>1. Abs!Pending(t) /\ answeredBar' = [answeredBar EXCEPT ![t] = TRUE]
          /\ answerBar' = [answerBar EXCEPT ![t] = hand'[t]]
      BY <1>0, <2>1, <2>2, AnswerStep
    <3> QED BY <2>1, <2>2, <3>1 DEF Abs!Answer, answeredBar, answerBar
  <2> QED BY <2>1, <2>2, <2>3 DEF Abs!Refuse
<1>5. ASSUME NEW t \in Thread, PutCached(t) PROVE Abs!ServeNew(t)
  BY <1>5, ServeNewStep
<1>6. ASSUME NEW t \in Thread, Release(t) PROVE Abs!Return(t)
  <2>1. hostOf[t] # Nil /\ Answered(t) /\ hostOf' = [hostOf EXCEPT ![t] = Nil] /\ cache' = cache
    BY <1>0, <1>6 DEF Release, Goto, ArgsOK, Answered
  <2>2. answeredBar' = [answeredBar EXCEPT ![t] = FALSE] /\ answerBar' = [answerBar EXCEPT ![t] = Nil]
    <3>1. Answered(t)' = FALSE /\ \A u \in Thread \ {t} : Answered(u)' = Answered(u) /\ hand'[u] = hand[u]
      BY <1>0, <1>6 DEF Release, Goto, Answered, TypeOK
    <3>2. answeredBar' = [answeredBar EXCEPT ![t] = FALSE]
      BY <3>1 DEF Answered, answeredBar
    <3>3. answerBar' = [answerBar EXCEPT ![t] = Nil]
      BY <3>1 DEF answerBar
    <3> QED BY <3>2, <3>3
  <2> QED BY <2>1, <2>2 DEF Abs!Return, answeredBar, answerBar
<1>7. CASE UNCHANGED vars
  BY <1>0, <1>7, StutterStep DEF vars, Answered, Abs!vars
<1> QED BY <1>1, <1>2, <1>3, <1>4, <1>5, <1>6, <1>7 DEF Next, Step, Abs!Next

\* LeafCert, with a lock per host that comes and goes and a cache of two halves,
\* behaves as the atomic store of LeafCertsAbs.
THEOREM Refinement == Spec => ImplementsAbs
<1>1. Init => Abs!Init
  <2> SUFFICES ASSUME Init PROVE Abs!Init
    OBVIOUS
  <2>1. \A t \in Thread : Answered(t) = FALSE
    BY DEF Init, Answered
  <2>2. answeredBar = [t \in Thread |-> FALSE] /\ answerBar = [t \in Thread |-> Nil]
    BY <2>1 DEF answeredBar, answerBar
  <2> QED BY <2>2 DEF Init, Abs!Init, answeredBar, answerBar
<1> QED BY <1>1, StepRefines, RefinementInvariance, PTL DEF Spec, ImplementsAbs, Abs!Spec
-------------------------------------------------------------------------------
(* The cache holds the hosts that were served last.                           *)

\* MoveToFront changes no order but that of the host that comes to the front.
LEMMA MoveToFrontOrder ==
  ASSUME NEW s \in Seq(Host), Distinct(s), NEW h \in Host, In(s, h), NEW r, r = MoveToFront(s, h),
         NEW j \in 1..Len(s), NEW k \in 1..Len(s), j < k
  PROVE  /\ r[k] # h
         /\ \/ r[j] = h
            \/ \E a, b \in 1..Len(s) : a < b /\ r[j] = s[a] /\ r[k] = s[b]
<1> DEFINE n == Len(s)
           i == CHOOSE m \in DOMAIN s : s[m] = h
           from(m) == IF m = 1 THEN i ELSE IF m <= i THEN m - 1 ELSE m
<1>1. n \in Nat /\ i \in 1..n /\ s[i] = h
  BY DEF In
<1>2. \A m \in 1..n : from(m) \in 1..n /\ r[m] = s[from(m)]
  <2>1. \A m \in 1..n : from(m) \in 1..n
    BY <1>1
  <2>2. r = [m \in 1..n |-> IF m = 1 THEN h ELSE IF m <= i THEN s[m-1] ELSE s[m]]
    BY DEF MoveToFront
  <2> QED BY <1>1, <2>1, <2>2
<1>3. from(k) # i /\ (j = 1 \/ from(j) < from(k))
  <2> HIDE DEF i
  <2>1. j \in 1..n /\ k \in 1..n /\ j < k /\ i \in 1..n /\ n \in Nat
    BY <1>1
  <2>2. k # 1 /\ from(k) = IF k <= i THEN k - 1 ELSE k
    BY <2>1
  <2>3. j # 1 => from(j) = IF j <= i THEN j - 1 ELSE j
    OBVIOUS
  <2> HIDE DEF from
  <2> QED BY <2>1, <2>2, <2>3
<1>4. j = 1 => from(j) = i
  OBVIOUS
<1> HIDE DEF from, i
<1>5. r[k] # h
  <2>1. from(k) \in 1..n /\ r[k] = s[from(k)]
    BY <1>2
  <2>2. s[from(k)] # s[i]
    BY <1>1, <1>3, <2>1 DEF Distinct
  <2> QED BY <1>1, <2>1, <2>2
<1> QED BY <1>1, <1>2, <1>3, <1>4, <1>5

Kept == {cacheLRU[i] : i \in DOMAIN cacheLRU}

\* HoldsMostRecent, but for what CacheCoherent says already.
Recent == /\ Kept \subseteq served
          /\ \A i, j \in 1..Len(cacheLRU) : i < j => <<cacheLRU[i], cacheLRU[j]>> \in later
          /\ \A g \in Kept, h \in served \ Kept : <<g, h>> \in later
          /\ Kept = served \/ Len(cacheLRU) = CacheMax

\* What an answer for h does to the history.
Served(h) == /\ served' = served \cup {h}
             /\ \A g \in served \ {h} : <<h, g>> \in later'
             /\ \A f, g \in served \ {h} : <<f, g>> \in later => <<f, g>> \in later'

\* What is kept is what is in the list.
LEMMA KeptIn ==
  ASSUME TypeOK
  PROVE  /\ Kept \subseteq Host /\ \A h : h \in Kept <=> In(cacheLRU, h)
         /\ Len(cacheLRU) \in Nat /\ DOMAIN cacheLRU = 1..Len(cacheLRU)
         /\ \A i \in 1..Len(cacheLRU) : cacheLRU[i] \in Kept
BY DEF TypeOK, Kept, In

\* Only a lookup that hits and an insertion are answers.
LEMMA ServesOnce ==
  ASSUME TypeOK, NEW t \in Thread, Hit(t) \/ PutCached(t), Remember
  PROVE  Served(hostOf[t])
<1>1. Serves(t) /\ \A u \in Thread : Serves(u) => u = t
  BY DEF Serves, Hit, PutCached, Goto, TypeOK
<1>2. /\ served' = served \cup {hostOf[t]}
      /\ later' = {p \in later : hostOf[t] \notin {p[1], p[2]}} \cup ({hostOf[t]} \X (served \ {hostOf[t]}))
  BY <1>1 DEF Remember
<1> QED BY <1>2 DEF Served

\* A step that serves nobody leaves the history alone.
LEMMA ServesNone ==
  ASSUME TypeOK, [Next]_vars, Remember \/ UNCHANGED <<vars, history>>, \A t \in Thread : ~Hit(t) /\ ~PutCached(t)
  PROVE  UNCHANGED <<cacheLRU, served, later>>
<1>1. \A t \in Thread : ~Serves(t)
  BY DEF Serves, Next, Step, LockHost, Acquire, Miss, Issue, IssueError, Unlock, Release, Goto, TypeOK, vars
<1>2. UNCHANGED cacheLRU
  BY DEF Next, Step, LockHost, Acquire, Miss, Issue, IssueError, Unlock, Release, vars
<1> QED BY <1>1, <1>2 DEF Remember, history

\* A hit moves its host to the front, as the last one served.
LEMMA RecentHit ==
  ASSUME RInv, RInv', Recent, NEW t \in Thread, Hit(t), Remember
  PROVE  Recent'
<1> DEFINE h == hostOf[t]
           n == Len(cacheLRU)
<1>0. TypeOK /\ TypeOK' /\ CacheCoherent
  BY DEF RInv, IInv
<1>1. h \in Host /\ Cached(h) /\ cacheLRU' = MoveToFront(cacheLRU, h) /\ Served(h)
  BY <1>0, NilAssumption, ServesOnce DEF Hit, Goto, RInv, IInv, ArgsOK, TypeOK
<1>2. In(cacheLRU, h) /\ Distinct(cacheLRU) /\ cacheLRU \in Seq(Host)
  BY <1>0, <1>1 DEF CacheCoherent, TypeOK
<1>3. Len(cacheLRU') = n /\ n \in Nat
  BY <1>1, <1>2, MoveToFrontType
<1>4. Kept' = Kept /\ h \in Kept
  <2>1. \A g \in Host : In(cacheLRU', g) <=> In(cacheLRU, g)
    BY <1>1, <1>2, MoveToFrontKeeps
  <2>2. Kept' \subseteq Host /\ \A g : g \in Kept' <=> In(cacheLRU', g)
    BY <1>0, <1>3 DEF TypeOK, Kept, In
  <2> QED BY <1>0, <1>2, <2>1, <2>2, KeptIn
<1> HIDE DEF h
<1>5. served' = served /\ Kept \subseteq served
  BY <1>1, <1>4 DEF Recent, Served
<1>6. ASSUME NEW i \in 1..n, NEW j \in 1..n, i < j
      PROVE  <<cacheLRU'[i], cacheLRU'[j]>> \in later'
  <2>1. /\ cacheLRU'[j] # h
        /\ \/ cacheLRU'[i] = h
           \/ \E a, b \in 1..n : a < b /\ cacheLRU'[i] = cacheLRU[a] /\ cacheLRU'[j] = cacheLRU[b]
    BY <1>1, <1>2, <1>6, MoveToFrontOrder
  <2>2. cacheLRU'[i] \in Kept /\ cacheLRU'[j] \in Kept
    <3>1. DOMAIN cacheLRU' = 1..n
      BY <1>0, <1>3 DEF TypeOK
    <3>2. cacheLRU'[i] \in Kept' /\ cacheLRU'[j] \in Kept'
      BY <3>1 DEF Kept
    <3> QED BY <1>4, <3>2
  <2>3. CASE cacheLRU'[i] = h
    BY <1>1, <1>5, <2>1, <2>2, <2>3 DEF Served
  <2>4. CASE cacheLRU'[i] # h
    <3>1. <<cacheLRU'[i], cacheLRU'[j]>> \in later
      BY <2>1, <2>4 DEF Recent
    <3> QED BY <1>1, <1>5, <2>1, <2>2, <2>4, <3>1 DEF Served
  <2> QED BY <2>3, <2>4
<1>7. \A g \in Kept, x \in served \ Kept : <<g, x>> \in later'
  BY <1>1, <1>4, <1>5 DEF Recent, Served
<1> QED BY <1>3, <1>4, <1>5, <1>6, <1>7 DEF Recent

\* An insertion puts its host in front and gives up the one at the back.
LEMMA RecentPut ==
  ASSUME RInv, RInv', Recent, NEW t \in Thread, PutCached(t), Remember
  PROVE  Recent'
<1> DEFINE h == hostOf[t]
           n == Len(cacheLRU)
           list == <<h>> \o cacheLRU
<1>0. TypeOK /\ TypeOK' /\ CacheCoherent /\ CacheMax \in Nat \ {0}
  BY CacheMaxAssumption DEF RInv, IInv
<1>1. h \in Host /\ ~Cached(h) /\ Served(h) /\ h \notin Kept
  <2>1. h \in Host /\ ~Cached(h)
    BY PutCases
  <2> QED BY <1>0, <2>1, ServesOnce, KeptIn DEF CacheCoherent
<1>2. n \in Nat /\ cacheLRU \in Seq(Host) /\ n <= CacheMax /\ \A i \in 1..n : cacheLRU[i] \in Kept
  BY <1>0, KeptIn DEF CacheCoherent, TypeOK
<1>3. /\ list \in Seq(Host) /\ Len(list) = n + 1 /\ list[1] = h
      /\ \A i \in 2..n + 1 : i - 1 \in 1..n /\ list[i] = cacheLRU[i - 1]
  BY <1>1, <1>2
<1>4. /\ Kept \subseteq served /\ served' = served \cup {h}
      /\ \A i, j \in 1..n : i < j => <<cacheLRU[i], cacheLRU[j]>> \in later
      /\ \A g \in Kept, x \in served \ Kept : <<g, x>> \in later
      /\ Kept = served \/ n = CacheMax
  BY <1>1 DEF Recent, Served
<1>5. \/ n < CacheMax /\ cacheLRU' = list
      \/ n = CacheMax /\ cacheLRU' = SubSeq(list, 1, n)
  BY PutCases
<1> HIDE DEF list, h
<1>6. \A i, j \in 1..n + 1 : i < j => <<list[i], list[j]>> \in later'
  <2> SUFFICES ASSUME NEW i \in 1..n + 1, NEW j \in 1..n + 1, i < j PROVE <<list[i], list[j]>> \in later'
    OBVIOUS
  <2>1. j \in 2..n + 1 /\ list[j] \in served \ {h}
    BY <1>1, <1>2, <1>3, <1>4
  <2>2. CASE i = 1
    BY <1>1, <1>3, <2>1, <2>2 DEF Served
  <2>3. CASE i # 1
    <3>1. i \in 2..n + 1 /\ i - 1 < j - 1
      BY <1>2, <2>1, <2>3
    <3>2. <<list[i], list[j]>> \in later /\ list[i] \in served \ {h}
      BY <1>1, <1>2, <1>3, <1>4, <2>1, <3>1
    <3> QED BY <1>1, <2>1, <3>2 DEF Served
  <2> QED BY <2>2, <2>3
<1>7. CASE n < CacheMax /\ cacheLRU' = list
  <2>1. Kept' = Kept \cup {h}
    <3>1. DOMAIN list = 1..n + 1
      BY <1>3
    <3>2. Kept' = {list[i] : i \in 1..n + 1}
      BY <1>7, <3>1 DEF Kept
    <3>3. \A i \in 1..n : i + 1 \in 2..n + 1 /\ (i + 1) - 1 = i
      BY <1>2
    <3>4. Kept = {cacheLRU[i] : i \in 1..n}
      BY <1>2 DEF Kept
    <3>5. \A i \in 1..n + 1 : i = 1 \/ i \in 2..n + 1
      BY <1>2
    <3>6. \A i \in 1..n : cacheLRU[i] \in Kept'
      <4> SUFFICES ASSUME NEW i \in 1..n PROVE cacheLRU[i] \in Kept'
        OBVIOUS
      <4>1. i + 1 \in 1..n + 1 /\ list[i + 1] = cacheLRU[i]
        BY <1>2, <1>3, <3>3
      <4> QED BY <3>2, <4>1
    <3>7. 1 \in 1..n + 1
      BY <1>2
    <3>8. Kept' \subseteq Kept \cup {h}
      <4>1. \A i \in 2..n + 1 : list[i] \in Kept
        BY <1>2, <1>3
      <4> QED BY <1>3, <3>2, <3>5, <4>1
    <3>9. h \in Kept'
      BY <1>3, <3>2, <3>7
    <3> QED BY <3>4, <3>6, <3>8, <3>9
  <2>2. Kept = served
    BY <1>2, <1>4, <1>7
  <2>3. Kept' = served' /\ Len(cacheLRU') = n + 1
    BY <1>3, <1>4, <1>7, <2>1, <2>2
  <2> QED BY <1>6, <1>7, <2>3 DEF Recent
<1>8. CASE n = CacheMax /\ cacheLRU' = SubSeq(list, 1, n)
  <2>1. Len(cacheLRU') = n /\ (\A i \in 1..n : cacheLRU'[i] = list[i]) /\ DOMAIN cacheLRU' = 1..n /\ n \in 1..n
    BY <1>0, <1>2, <1>3, <1>8
  <2> DEFINE out == cacheLRU[n]
  <2>2. Kept' \subseteq Kept \cup {h}
    <3>1. Kept' = {list[i] : i \in 1..n}
      BY <2>1 DEF Kept
    <3>2. \A i \in 1..n : i = 1 \/ i \in 2..n + 1
      BY <1>2
    <3> QED BY <1>2, <1>3, <3>1, <3>2
  <2>3. \A g \in Kept \ Kept' : g = out
    <3> SUFFICES ASSUME NEW i \in 1..n, cacheLRU[i] \notin Kept' PROVE i = n
      BY <1>2 DEF Kept
    <3>1. i < n => i + 1 \in 1..n /\ i + 1 \in 2..n + 1 /\ (i + 1) - 1 = i
      BY <1>2
    <3>2. \A j \in 1..n : list[j] \in Kept'
      BY <2>1 DEF Kept
    <3> QED BY <1>2, <1>3, <3>1, <3>2
  <2>4. \A g \in Kept' \ {h} : <<g, out>> \in later /\ g # out
    <3> SUFFICES ASSUME NEW i \in 1..n, list[i] # h PROVE <<list[i], out>> \in later /\ list[i] # out
      BY <2>1 DEF Kept
    <3>1. i \in 2..n + 1 /\ i - 1 \in 1..n /\ i - 1 < n
      BY <1>2, <1>3
    <3>2. list[i] = cacheLRU[i - 1]
      BY <1>3, <3>1
    <3>3. cacheLRU[i - 1] # cacheLRU[n]
      BY <1>0, <2>1, <3>1 DEF CacheCoherent, Distinct
    <3> QED BY <1>4, <2>1, <3>1, <3>2, <3>3
  <2>5. h \in Kept' /\ out \in Kept
    <3>1. 1 \in 1..n
      BY <2>1
    <3> QED BY <1>2, <1>3, <2>1, <3>1 DEF Kept
  <2> HIDE DEF out
  <2>6. Kept' \subseteq served'
    BY <1>4, <2>2
  <2>7. ASSUME NEW g \in Kept', NEW x \in served' \ Kept' PROVE <<g, x>> \in later'
    <3>1. x \in served \ {h} /\ (x = out \/ x \notin Kept)
      BY <1>4, <2>3, <2>5
    <3>2. CASE g = h
      BY <1>1, <3>1, <3>2 DEF Served
    <3>3. CASE g # h
      <4>1. <<g, x>> \in later /\ g \in served \ {h}
        BY <1>4, <2>2, <2>4, <3>1, <3>3
      <4> QED BY <1>1, <3>1, <4>1 DEF Served
    <3> QED BY <3>2, <3>3
  <2>8. \A i, j \in 1..n : i < j => <<cacheLRU'[i], cacheLRU'[j]>> \in later'
    <3>1. \A i \in 1..n : i \in 1..n + 1
      BY <1>2
    <3> QED BY <1>6, <2>1, <3>1
  <2> QED BY <1>8, <2>1, <2>6, <2>7, <2>8 DEF Recent
<1> QED BY <1>7, <1>8, <1>5

\* Every step keeps the cache in step with the history.
LEMMA RecentStep ==
  RInv /\ RInv' /\ Recent /\ [Next /\ Remember]_<<vars, history>> => Recent'
<1> SUFFICES ASSUME RInv, RInv', Recent, [Next /\ Remember]_<<vars, history>> PROVE Recent'
  OBVIOUS
<1>1. CASE \A t \in Thread : ~Hit(t) /\ ~PutCached(t)
  <2>1. UNCHANGED <<cacheLRU, served, later>>
    BY <1>1, ServesNone DEF RInv, IInv, vars
  <2> QED BY <2>1 DEF Recent, Kept
<1>2. CASE Remember /\ \E t \in Thread : Hit(t) \/ PutCached(t)
  BY <1>2, RecentHit, RecentPut
<1>3. CASE UNCHANGED <<vars, history>>
  BY <1>3 DEF Recent, Kept, vars, history
<1> QED BY <1>1, <1>2, <1>3

\* HoldsMostRecent: for any number of callers and hosts and any capacity, the
\* cache holds the hosts that were served last, as many as fit, in that order.
THEOREM HoldsMostRecentHolds == HistorySpec => []HoldsMostRecent
<1>1. HistoryInit => RInv /\ Recent
  <2>1. Init => CacheCoherent /\ Fresh
    BY CacheMaxAssumption, NilAssumption DEF Init, CacheCoherent, Cached, In, Distinct, Fresh
  <2>2. HistoryInit => Recent
    BY DEF HistoryInit, Init, Recent, Kept
  <2> QED BY <2>1, <2>2, InitInv DEF RInv, HistoryInit
<1>2. RInv /\ [Next /\ Remember]_<<vars, history>> => RInv'
  <2>1. RInv /\ [Next]_vars => RInv'
    BY TypeStep, LockStep, MissStep, CoherentStep, FreshStep DEF RInv, IInv, LockInv
  <2> QED BY <2>1 DEF vars
<1>3. RInv /\ Recent /\ [Next /\ Remember]_<<vars, history>> => Recent'
  BY <1>2, RecentStep
<1>4. RInv /\ Recent => HoldsMostRecent
  BY KeptIn DEF RInv, IInv, CacheCoherent, Recent, HoldsMostRecent, Kept
<1> QED BY <1>1, <1>2, <1>3, <1>4, PTL DEF HistorySpec
===============================================================================
