---------------------------- MODULE LogView_proofs -----------------------------
(* That the log view accounts for every event, keeps the latest ones in order  *)
(* and shows them as they are, for any size of the queue and of the view, any  *)
(* number of events and any key presses.                                       *)
EXTENDS LogView, SequenceTheorems, FiniteSetTheorems, TLAPS

Event == [id : Nat, level : Nat, keys : {K \in SUBSET Key : IsFiniteSet(K)}]

Types == /\ queue \in Seq(Event) /\ events \in Seq(Event) /\ inbox \subseteq Event
         /\ dropped \in Nat /\ logged \in Nat /\ total \in Nat /\ cleared \in Nat
         /\ waiting \in Nat

\* Exactly one command waits for the next event, or one event is on its way to
\* Update, which sends the next command: what keeps the events in order.
OneOutstanding == \/ waiting = 1 /\ inbox = {}
                  \/ waiting = 0 /\ \E e \in Event : inbox = {e}

Accounted == logged = dropped + Len(queue) + Cardinality(inbox) + total + cleared

\* The view holds all events since the last clear, or as many as fit.
Trimmed == Len(events) = IF total < Keep THEN total ELSE Keep

\* A sequence of events in the order in which they were logged.
Ordered(s) == \A m, n \in 1..Len(s) : m < n => s[m].id < s[n].id

\* Every event of s was logged before every event of t.
Before(s, t) == \A m \in 1..Len(s), n \in 1..Len(t) : s[m].id < t[n].id

InOrder == /\ Ordered(events) /\ Ordered(queue) /\ Before(events, queue)
           /\ \A e \in inbox : /\ e.id <= logged
                               /\ \A n \in 1..Len(events) : events[n].id < e.id
                               /\ \A n \in 1..Len(queue) : e.id < queue[n].id
           /\ \A n \in 1..Len(events) : events[n].id <= logged
           /\ \A n \in 1..Len(queue) : queue[n].id <= logged

IInv == Types /\ OneOutstanding /\ Accounted /\ Trimmed /\ InOrder

\* What none of the other steps touches.
stages == <<queue, dropped, logged, waiting, inbox, events, total, cleared>>

\* Min picks the smaller of two numbers.
LEMMA MinOf == ASSUME NEW a \in Int, NEW b \in Int
               PROVE  Min({a, b}) = IF a <= b THEN a ELSE b
BY DEF Min

\* Max picks the greater one.
LEMMA MaxOf == ASSUME NEW a \in Int, NEW b \in Int
               PROVE  Max({a, b}) = IF a >= b THEN a ELSE b
BY DEF Max

\* Latest cuts a sequence at the front, to the size of the view.
LEMMA LatestOf ==
  ASSUME NEW es \in Seq(Event)
  PROVE  LET cut == IF Len(es) <= Keep THEN 0 ELSE Len(es) - Keep
         IN  /\ Latest(es) \in Seq(Event)
             /\ Len(Latest(es)) = Len(es) - cut
             /\ \A n \in 1..Len(es) - cut : Latest(es)[n] = es[n + cut]
<1> DEFINE cut == IF Len(es) <= Keep THEN 0 ELSE Len(es) - Keep
<1>1. Len(es) \in Nat /\ cut \in Nat /\ cut <= Len(es)
  BY SizeAssumption
<1>2. Max({1, Len(es) - Keep + 1}) = cut + 1
  <2>1. Len(es) - Keep + 1 \in Int
    BY SizeAssumption
  <2> QED BY <2>1, MaxOf, <1>1, SizeAssumption
<1>3. Latest(es) = SubSeq(es, cut + 1, Len(es))
  BY <1>2 DEF Latest
<1>4. \A n \in cut + 1 .. Len(es) : es[n] \in Event
  BY <1>1
<1> QED BY <1>1, <1>3, <1>4, SubSeqProperties

\* The numbers of events can be compared.
LEMMA Numbered ==
  ASSUME Types
  PROVE  /\ \A n \in 1..Len(queue) : queue[n] \in Event /\ queue[n].id \in Nat
         /\ \A n \in 1..Len(events) : events[n] \in Event /\ events[n].id \in Nat
         /\ \A e \in inbox : e.id \in Nat
<1>1. \A e \in Event : e.id \in Nat
  BY DEF Event
<1>2. \A s \in Seq(Event) : \A n \in 1..Len(s) : s[n] \in Event
  BY ElementOfSeq
<1> QED BY <1>1, <1>2 DEF Types

\* At most one message of events is on its way.
LEMMA InboxSize == ASSUME OneOutstanding PROVE Cardinality(inbox) \in Nat
<1>1. Cardinality({}) = 0 /\ \A e : Cardinality({e}) = 1
  BY FS_EmptySet, FS_Singleton
<1>2. CASE inbox = {}
  BY <1>1, <1>2
<1>3. CASE \E e \in Event : inbox = {e}
  <2>1. PICK e \in Event : inbox = {e}
    BY <1>3
  <2>2. Cardinality({e}) = 1
    BY <1>1
  <2> QED BY <2>1, <2>2
<1> QED BY <1>2, <1>3 DEF OneOutstanding

\* An event later than those of s keeps s in order.
LEMMA AppendOrdered ==
  ASSUME NEW s \in Seq(Event), NEW e \in Event, Ordered(s),
         \A n \in 1..Len(s) : s[n].id < e.id
  PROVE  /\ Append(s, e) \in Seq(Event) /\ Len(Append(s, e)) = Len(s) + 1
         /\ Ordered(Append(s, e))
         /\ \A n \in 1..Len(Append(s, e)) : \/ n \in 1..Len(s) /\ Append(s, e)[n] = s[n]
                                            \/ n = Len(s) + 1 /\ Append(s, e)[n] = e
<1> DEFINE t == Append(s, e)
<1>1. /\ t \in Seq(Event) /\ Len(t) = Len(s) + 1 /\ Len(s) \in Nat
      /\ \A n \in 1..Len(s) : t[n] = s[n]
      /\ t[Len(s) + 1] = e
  BY AppendProperties
<1>2. \A n \in 1..Len(t) : \/ n \in 1..Len(s) /\ t[n] = s[n]
                           \/ n = Len(s) + 1 /\ t[n] = e
  BY <1>1
<1>3. Ordered(t)
  <2> SUFFICES ASSUME NEW m \in 1..Len(t), NEW n \in 1..Len(t), m < n
               PROVE  t[m].id < t[n].id
    BY DEF Ordered
  <2>1. m \in 1..Len(s) /\ t[m] = s[m]
    BY <1>1
  <2> QED BY <2>1, <1>2 DEF Ordered
<1> QED BY <1>1, <1>2, <1>3

\* The log begins empty.
LEMMA InitInv == Init => IInv
<1> SUFFICES ASSUME Init PROVE IInv
  OBVIOUS
<1>1. Cardinality({}) = 0
  BY FS_EmptySet
<1> QED BY <1>1, SizeAssumption DEF Init, IInv, Types, OneOutstanding, Accounted, Trimmed, InOrder,
        Ordered, Before

\* An event is queued or counted as dropped.
LEMMA LogStep == ASSUME IInv, NEW kind \in Kind, Log(kind) PROVE IInv'
<1> USE DEF IInv, Types, Log
<1> DEFINE e == [id |-> logged', level |-> kind.level, keys |-> kind.keys]
<1>1. e \in Event /\ logged' = logged + 1 /\ logged' \in Nat
  BY KindAssumption DEF Event
<1>2. UNCHANGED <<waiting, inbox, events, total, cleared>>
  OBVIOUS
<1>3. CASE Room
  <2>1. queue' = Append(queue, e) /\ dropped' = dropped
    BY <1>3
  <2>2. \A n \in 1..Len(queue) : queue[n].id < e.id
    BY <1>1, Numbered DEF InOrder
  <2>3. /\ queue' \in Seq(Event) /\ Len(queue') = Len(queue) + 1
        /\ Ordered(queue')
        /\ \A n \in 1..Len(queue') : \/ n \in 1..Len(queue) /\ queue'[n] = queue[n]
                                     \/ n = Len(queue) + 1 /\ queue'[n] = e
    <3>1. Ordered(queue)
      BY DEF InOrder
    <3> HIDE DEF e
    <3> QED BY <1>1, <2>1, <2>2, <3>1, AppendOrdered
  <2>4. Types' /\ OneOutstanding' /\ Trimmed'
    BY <1>1, <1>2, <2>1, <2>3 DEF OneOutstanding, Trimmed
  <2>5. Accounted'
    BY <1>1, <1>2, <2>1, <2>3, InboxSize DEF Accounted
  <2>6. \A n \in 1..Len(queue') : /\ queue'[n].id <= logged'
                                  /\ \/ n \in 1..Len(queue) /\ queue'[n] = queue[n]
                                     \/ queue'[n].id = logged + 1
    BY <1>1, <2>3, Numbered DEF InOrder
  <2>7. InOrder'
    <3>1. Before(events, queue)'
      <4> SUFFICES ASSUME NEW m \in 1..Len(events), NEW n \in 1..Len(queue')
                   PROVE  events[m].id < queue'[n].id
        BY <1>2 DEF Before
      <4>1. events[m].id <= logged /\ \A k \in 1..Len(queue) : events[m].id < queue[k].id
        BY DEF InOrder, Before
      <4>2. events[m].id \in Nat
        BY Numbered
      <4>3. \/ n \in 1..Len(queue) /\ queue'[n] = queue[n]
            \/ queue'[n].id = logged + 1
        BY <2>6
      <4> QED BY <4>1, <4>2, <4>3
    <3>2. \A d \in inbox' : \A n \in 1..Len(queue') : d.id < queue'[n].id
      <4> SUFFICES ASSUME NEW d \in inbox, NEW n \in 1..Len(queue')
                   PROVE  d.id < queue'[n].id
        BY <1>2
      <4>1. d.id <= logged /\ \A k \in 1..Len(queue) : d.id < queue[k].id
        BY DEF InOrder
      <4> QED BY <4>1, <2>6, Numbered
    <3>3. /\ \A d \in inbox' : d.id <= logged' /\ \A n \in 1..Len(events') : events'[n].id < d.id
          /\ \A n \in 1..Len(events') : events'[n].id <= logged'
          /\ Ordered(events)'
      BY <1>1, <1>2, Numbered DEF InOrder, Ordered
    <3>4. Ordered(queue)'
      BY <2>3 DEF Ordered
    <3> QED BY <2>6, <3>1, <3>2, <3>3, <3>4 DEF InOrder
  <2> QED BY <2>4, <2>5, <2>7
<1>4. CASE ~Room
  <2>1. queue' = queue /\ dropped' = dropped + 1
    BY <1>4 DEF Dropped
  <2>2. Accounted'
    BY <1>1, <1>2, <2>1, InboxSize DEF Accounted
  <2>3. InOrder'
    <3>1. logged <= logged'
      BY <1>1
    <3> QED BY <1>1, <1>2, <2>1, <3>1, Numbered DEF InOrder, Ordered, Before
  <2> QED BY <1>1, <1>2, <2>1, <2>2, <2>3 DEF OneOutstanding, Trimmed
<1> QED BY <1>3, <1>4

\* The waiting command takes the event at the front of the queue.
LEMMA TakeStep == ASSUME IInv, Take PROVE IInv'
<1> USE DEF IInv, Types, Take
<1>1. waiting = 1 /\ inbox = {}
  BY DEF OneOutstanding
<1>2. waiting' = 0 /\ inbox' = {Head(queue)}
      /\ UNCHANGED <<dropped, logged, events, total, cleared>>
  BY <1>1
<1>3. /\ Head(queue) \in Event /\ queue' \in Seq(Event)
      /\ Len(queue) \in Nat \ {0} /\ Len(queue') = Len(queue) - 1
      /\ Head(queue) = queue[1]
      /\ \A n \in 1..Len(queue') : queue'[n] = queue[n + 1]
  BY HeadTailProperties, EmptySeq
<1>4. Accounted'
  <2>1. Cardinality(inbox) = 0 /\ Cardinality(inbox') = 1
    BY <1>1, <1>2, FS_EmptySet, FS_Singleton
  <2> QED BY <1>2, <1>3, <2>1 DEF Accounted
<1>5. InOrder'
  <2>1. \A n \in 1..Len(queue') : n + 1 \in 1..Len(queue) /\ 1 < n + 1
    BY <1>3
  <2>2. Ordered(queue)' /\ Before(events, queue)'
    BY <1>2, <1>3, <2>1 DEF InOrder, Ordered, Before
  <2>3. \A n \in 1..Len(queue') : queue[1].id < queue'[n].id
    BY <1>3, <2>1 DEF InOrder, Ordered
  <2>4. queue[1].id <= logged /\ \A n \in 1..Len(events) : events[n].id < queue[1].id
    BY <1>3 DEF InOrder, Before
  <2>5. \A n \in 1..Len(queue') : queue'[n].id <= logged
    BY <1>3, <2>1 DEF InOrder
  <2> QED BY <1>2, <1>3, <2>2, <2>3, <2>4, <2>5 DEF InOrder, Ordered
<1> QED BY <1>2, <1>3, <1>4, <1>5 DEF OneOutstanding, Trimmed

\* Update appends the event to the view, which it cuts at its limit.
LEMMA HandleStep == ASSUME IInv, NEW e \in inbox, HandleEvent(e) PROVE IInv'
<1> USE DEF IInv, Types, HandleEvent
<1>1. waiting = 0 /\ inbox = {e} /\ e \in Event
  BY DEF OneOutstanding
<1>2. waiting' = 1 /\ inbox' = {} /\ total' = total + 1
      /\ UNCHANGED <<queue, dropped, logged, cleared>>
  BY <1>1 DEF Rearmed, stream
<1> DEFINE es == Append(events, e)
           cut == IF Len(es) <= Keep THEN 0 ELSE Len(es) - Keep
<1>3. /\ es \in Seq(Event) /\ Len(es) = Len(events) + 1 /\ Ordered(es)
      /\ \A n \in 1..Len(es) : \/ n \in 1..Len(events) /\ es[n] = events[n]
                               \/ n = Len(events) + 1 /\ es[n] = e
  <2>1. Ordered(events) /\ \A n \in 1..Len(events) : events[n].id < e.id
    BY <1>1 DEF InOrder
  <2> QED BY <1>1, <2>1, AppendOrdered
<1>4. /\ events' \in Seq(Event) /\ Len(events') = Len(es) - cut
      /\ \A n \in 1..Len(es) - cut : events'[n] = es[n + cut]
  BY <1>3, LatestOf
<1>5. cut \in Nat /\ cut <= Len(es) /\ Len(es) \in Nat
  BY <1>3, SizeAssumption
<1>6. Accounted'
  <2>1. Cardinality(inbox) = 1 /\ Cardinality(inbox') = 0
    BY <1>1, <1>2, FS_EmptySet, FS_Singleton
  <2> QED BY <1>2, <2>1 DEF Accounted
<1>7. Trimmed'
  BY <1>2, <1>3, <1>4, SizeAssumption DEF Trimmed
<1>8. InOrder'
  <2>3. Before(es, queue) /\ \A n \in 1..Len(es) : es[n].id <= logged
    BY <1>1, <1>3 DEF InOrder, Before
  <2>4. \A n \in 1..Len(events') : n + cut \in 1..Len(es) /\ events'[n] = es[n + cut]
    BY <1>4, <1>5
  <2>5. Ordered(events)'
    <3> SUFFICES ASSUME NEW m \in 1..Len(events'), NEW n \in 1..Len(events'), m < n
                 PROVE  events'[m].id < events'[n].id
      BY DEF Ordered
    <3>1. m + cut < n + cut
      BY <1>5
    <3> HIDE DEF es, cut
    <3> QED BY <1>3, <2>4, <3>1 DEF Ordered
  <2>6. Before(events, queue)' /\ \A n \in 1..Len(events') : events'[n].id <= logged'
    BY <1>2, <2>3, <2>4 DEF Before
  <2> QED BY <1>2, <2>5, <2>6 DEF InOrder, Ordered
<1> QED BY <1>2, <1>4, <1>6, <1>7, <1>8 DEF OneOutstanding

\* Clear empties the view; the status line counts from zero again.
LEMMA ClearStep == ASSUME IInv, Clear PROVE IInv'
<1> USE DEF IInv, Types, Clear, stream
<1>1. events' = <<>> /\ total' = 0 /\ cleared' = cleared + total
      /\ UNCHANGED <<queue, dropped, logged, waiting, inbox>>
  OBVIOUS
<1>2. Accounted'
  BY <1>1, InboxSize DEF Accounted
<1>3. Trimmed' /\ OneOutstanding' /\ Types'
  BY <1>1, SizeAssumption DEF Trimmed, OneOutstanding
<1>4. InOrder'
  BY <1>1 DEF InOrder, Ordered, Before
<1> QED BY <1>2, <1>3, <1>4

\* The other keys leave queue and events alone.
LEMMA OtherKeys == ASSUME Keys, ~Clear PROVE UNCHANGED stages
BY DEF Keys, stages, Kept, stream, SearchEsc, SearchEnter, SearchType, DialogClose, DialogMove,
   Toggle, AllOn, AllOff, DialogSet, Rebuild, Quit, Esc, SearchStart, cycleFilter, DialogOpen

\* Counts and order are kept throughout, whatever keys are pressed.
THEOREM Invariance == Spec => []IInv
<1>1. IInv /\ [Next]_vars => IInv'
  <2> SUFFICES ASSUME IInv, [Next]_vars PROVE IInv'
    OBVIOUS
  <2>1. ASSUME UNCHANGED stages PROVE IInv'
    BY <2>1 DEF stages, IInv, Types, OneOutstanding, Accounted, Trimmed, InOrder, Ordered, Before
  <2>2. CASE Next
    BY <2>1, <2>2, LogStep, TakeStep, HandleStep, ClearStep, OtherKeys DEF Next, Handle
  <2>3. CASE UNCHANGED vars
    BY <2>1, <2>3 DEF vars, stream, stages
  <2> QED BY <2>2, <2>3
<1> QED BY <1>1, InitInv, PTL DEF Spec

\* Every event logged through handler.Handle is queued, with Update, counted in
\* the status line, cleared by the user or counted as dropped, for any size of
\* the queue.
THEOREM AllAccountedHolds == Spec => []AllAccounted
<1>1. IInv => AllAccounted
  <2>1. IInv => Len(events) = Min({Keep, total})
    BY MinOf, SizeAssumption DEF IInv, Types, Trimmed
  <2> QED BY <2>1 DEF IInv, Accounted, AllAccounted
<1> QED BY <1>1, Invariance, PTL

\* What the view holds, and what is still to come, is in the order of logging.
LatestInOrder == /\ \A m, n \in DOMAIN events : m < n => events[m].id < events[n].id
                 /\ \A e \in inbox \cup ToSet(queue) : \A n \in DOMAIN events : events[n].id < e.id

\* However events, key presses and clears interleave, model.events is in the
\* order in which the events were logged, before all that are queued.
THEOREM LatestInOrderHolds == Spec => []LatestInOrder
<1>1. IInv => LatestInOrder
  <2> SUFFICES ASSUME IInv PROVE LatestInOrder
    OBVIOUS
  <2> USE DEF IInv, Types
  <2>1. \A m, n \in DOMAIN events : m < n => events[m].id < events[n].id
    BY LenProperties DEF InOrder, Ordered
  <2>2. ASSUME NEW e \in inbox \cup ToSet(queue), NEW n \in DOMAIN events
        PROVE  events[n].id < e.id
    <3>1. CASE e \in inbox
      BY <3>1, <2>2 DEF InOrder
    <3>2. CASE e \in ToSet(queue)
      <4>1. PICK m \in DOMAIN queue : e = queue[m]
        BY <3>2 DEF ToSet
      <4> QED BY <4>1, <2>2 DEF InOrder, Before
    <3> QED BY <3>1, <3>2
  <2> QED BY <2>1, <2>2 DEF LatestInOrder
<1> QED BY <1>1, Invariance, PTL
-------------------------------------------------------------------------------
(* What the user sees                                                          *)

Settings == /\ quit \in BOOLEAN /\ filter \in ToSet(Levels) /\ query \in Key \cup {NoKey}
            /\ searchMode \in BOOLEAN /\ searchInput \in Key \cup {NoKey}
            /\ visMode \in BOOLEAN /\ visCursor \in Nat
            /\ visible \in [Key -> {"unset", "on", "off"}]
            /\ keyCatalog \subseteq Key /\ IsFiniteSet(keyCatalog)
            /\ visKeys \in Seq(Key)

Bounded == Len(queue) <= Buffer /\ logged <= MaxLogged

ViewInv == Settings /\ Bounded /\ ViewCurrent

\* No event, no row, whatever the settings.
LEMMA NoRows == \A f, q, v : rebuild(<<>>, f, q, v) = <<>>
<1> SUFFICES ASSUME NEW f, NEW q, NEW v PROVE rebuild(<<>>, f, q, v) = <<>>
  OBVIOUS
<1> DEFINE Row(e, done) == IF Passes(e, f, q) THEN Append(done, <<e.id, e.keys \cap Shown(v)>>) ELSE done
           iter == CHOOSE g : g = [S \in SUBSET {} |-> IF S = {} THEN <<>>
                                     ELSE Row(<<>>[Max(S)], g[S \ {Max(S)}])]
<1>1. \E g : g = [S \in SUBSET {} |-> IF S = {} THEN <<>> ELSE Row(<<>>[Max(S)], g[S \ {Max(S)}])]
  <2> WITNESS [S \in SUBSET {} |-> <<>>]
  <2> QED OBVIOUS
<1>2. iter = [S \in SUBSET {} |-> IF S = {} THEN <<>> ELSE Row(<<>>[Max(S)], iter[S \ {Max(S)}])]
  BY <1>1
<1>3. iter[{}] = <<>>
  <2> HIDE DEF iter
  <2> QED BY <1>2
<1>4. DOMAIN <<>> = {}
  OBVIOUS
<1> QED BY <1>3, <1>4 DEF rebuild, FoldLeft, MapThenFoldSet

\* The first rows are those of an empty list.
LEMMA ViewInit == Init => ViewInv
<1> SUFFICES ASSUME Init PROVE ViewInv
  OBVIOUS
<1>1. Settings
  <2>1. "all" \in ToSet(Levels)
    BY DEF ToSet, Levels
  <2>2. <<>> \in Seq(Key) /\ IsFiniteSet({})
    BY FS_EmptySet
  <2> QED BY <2>1, <2>2 DEF Init, Settings, NoKey, NoVisible
<1>2. Bounded
  BY SizeAssumption DEF Init, Bounded
<1>3. ViewCurrent
  BY NoRows DEF Init, ViewCurrent
<1> QED BY <1>1, <1>2, <1>3 DEF ViewInv

\* What the queue does leaves the view alone.
LEMMA QueueStep ==
  ASSUME IInv, ViewInv, (\E kind \in Kind : Log(kind)) \/ Take
  PROVE  ViewInv'
<1>1. UNCHANGED <<events, keyCatalog, search, dialog, view, quit>>
  BY DEF Log, Take
<1>2. Bounded'
  <2>1. queue \in Seq(Event) /\ Len(queue) \in Nat /\ logged \in Nat
    BY DEF IInv, Types
  <2>2. ASSUME NEW kind \in Kind, Log(kind) PROVE Bounded'
    <3>1. [id |-> logged', level |-> kind.level, keys |-> kind.keys] \in Event
      BY <2>1, <2>2, KindAssumption DEF Event, Log
    <3>2. Len(Append(queue, [id |-> logged', level |-> kind.level, keys |-> kind.keys])) = Len(queue) + 1
      BY <2>1, <3>1, AppendProperties
    <3> QED BY <2>1, <2>2, <3>2, SizeAssumption DEF Log, Room, ViewInv, Bounded
  <2>3. CASE Take
    <3>1. Len(Tail(queue)) = Len(queue) - 1
      BY <2>1, <2>3, HeadTailProperties DEF Take
    <3> QED BY <2>1, <2>3, <3>1, SizeAssumption DEF Take, ViewInv, Bounded
  <2> QED BY <2>2, <2>3
<1> QED BY <1>1, <1>2 DEF ViewInv, Settings, ViewCurrent, search, dialog, view

\* An event brings its keys into the catalog, and the rows are built again.
LEMMA EventStep ==
  ASSUME IInv, ViewInv, Handle
  PROVE  ViewInv'
<1>1. PICK e \in inbox : HandleEvent(e)
  BY DEF Handle
<1>2. e.keys \subseteq Key /\ IsFiniteSet(e.keys)
  BY DEF IInv, Types, Event
<1>3. UNCHANGED <<stream, quit, search, dialog, filter, query>>
  BY <1>1 DEF HandleEvent
<1>4. Settings'
  <2>1. IsFiniteSet(keyCatalog')
    BY <1>1, <1>2, FS_Union DEF HandleEvent, ViewInv, Settings
  <2>2. keyCatalog' \subseteq Key /\ visible' \in [Key -> {"unset", "on", "off"}]
    BY <1>1, <1>2 DEF HandleEvent, ViewInv, Settings
  <2> QED BY <1>3, <2>1, <2>2 DEF ViewInv, Settings, search, dialog
<1>5. Bounded'
  BY <1>3 DEF ViewInv, Bounded, stream
<1>6. ViewCurrent'
  BY <1>1, <1>3 DEF HandleEvent, ViewInv, ViewCurrent, search, dialog
<1> QED BY <1>4, <1>5, <1>6 DEF ViewInv

\* Typing, the search, the filter: the settings change, the rows with them.
LEMMA SearchStep ==
  ASSUME ViewInv, \/ SearchEsc \/ SearchEnter \/ SearchType \/ Esc \/ SearchStart
                  \/ cycleFilter \/ Rebuild \/ Quit
  PROVE  ViewInv'
<1> USE DEF ViewInv, Bounded, Kept, stream, dialog, search, view
<1>1. "all" \in ToSet(Levels) /\ NoKey \in Key \cup {NoKey}
  BY DEF ToSet, Levels
<1>2. CASE SearchEsc
  BY <1>1, <1>2 DEF SearchEsc, Settings, ViewCurrent
<1>3. CASE SearchEnter
  BY <1>3 DEF SearchEnter, Settings, ViewCurrent
<1>4. CASE SearchType
  BY <1>4 DEF SearchType, Settings, ViewCurrent
<1>5. CASE Esc
  BY <1>1, <1>5 DEF Esc, Settings, ViewCurrent
<1>6. CASE SearchStart
  BY <1>1, <1>6 DEF SearchStart, Settings, ViewCurrent
<1>7. CASE cycleFilter
  <2>1. LevelOf(filter) \in 1..4
    BY DEF LevelOf, Levels, ToSet, Settings
  <2>2. (LevelOf(filter) % 4) + 1 \in 1..4
    BY <2>1
  <2>3. filter' \in ToSet(Levels)
    BY <1>7, <2>2 DEF cycleFilter, ToSet, Levels
  <2> QED BY <1>7, <2>3 DEF cycleFilter, Settings, ViewCurrent
<1>8. CASE Rebuild
  BY <1>8 DEF Rebuild, Settings, ViewCurrent
<1>9. CASE Quit
  BY <1>9 DEF Quit, Settings, ViewCurrent
<1> QED BY <1>2, <1>3, <1>4, <1>5, <1>6, <1>7, <1>8, <1>9

\* The cursor that syncVisKeys leaves is on one of the keys, if there is one.
LEMMA ClampedOf ==
  ASSUME visCursor \in Nat, NEW keys \in Seq(Key)
  PROVE  Clamped(keys) \in Nat /\ (keys # <<>> => Clamped(keys) < Len(keys))
<1>1. Len(keys) \in Nat /\ Len(keys) - 1 \in Int /\ (keys # <<>> => Len(keys) > 0)
  OBVIOUS
<1> DEFINE m == Min({visCursor, Len(keys) - 1})
<1>2. m = IF visCursor <= Len(keys) - 1 THEN visCursor ELSE Len(keys) - 1
  BY <1>1, MinOf
<1>3. m \in Int
  BY <1>1, <1>2
<1>4. Clamped(keys) = Max({0, m})
  BY DEF Clamped
<1> HIDE DEF m
<1>5. Max({0, m}) = IF 0 >= m THEN 0 ELSE m
  BY <1>3, MaxOf
<1> QED BY <1>1, <1>2, <1>3, <1>4, <1>5

\* The dialog: its keys are sorted once, when it opens, and the cursor stays
\* among them.
LEMMA DialogStep ==
  ASSUME ViewInv, DialogOpen \/ DialogClose \/ DialogMove \/ Toggle \/ AllOn \/ AllOff
  PROVE  ViewInv'
<1> USE DEF ViewInv, Bounded, Kept, stream, search, view
<1>1. "all" \in ToSet(Levels) /\ NoKey \in Key \cup {NoKey}
  BY DEF ToSet, Levels
<1>2. CASE DialogOpen
  <2>1. Cardinality(keyCatalog) \in Nat
    BY FS_CardinalityType DEF Settings
  <2>2. PICK keys \in [1..Cardinality(keyCatalog) -> keyCatalog] :
               visKeys' = keys /\ visCursor' = Clamped(keys)
    BY <1>2 DEF DialogOpen
  <2>3. keys \in Seq(Key) /\ Len(keys) \in Nat /\ (keys # <<>> => Len(keys) > 0)
    BY <2>1, <2>2, SeqDef DEF Settings
  <2>4. Clamped(keys) \in Nat /\ (keys # <<>> => Clamped(keys) < Len(keys))
    BY <2>3, ClampedOf DEF Settings
  <2> QED BY <1>2, <2>2, <2>3, <2>4 DEF DialogOpen, Settings, ViewCurrent
<1>3. CASE DialogClose
  BY <1>1, <1>3 DEF DialogClose, Settings, ViewCurrent
<1>4. CASE DialogMove
  <2>1. visCursor' \in Nat /\ (visKeys # <<>> => visCursor' < Len(visKeys))
    BY <1>4 DEF DialogMove, InDialog, Settings, ViewCurrent
  <2> QED BY <1>4, <2>1 DEF DialogMove, InDialog, Settings, ViewCurrent
<1>5. ASSUME NEW v \in [Key -> {"unset", "on", "off"}], DialogSet(v) PROVE ViewInv'
  BY <1>5 DEF DialogSet, InDialog, dialog, Settings, ViewCurrent
<1>6. CASE Toggle
  BY <1>5, <1>6 DEF Toggle, Settings
<1>7. CASE AllOn \/ AllOff
  BY <1>5, <1>7 DEF AllOn, AllOff, Settings
<1> QED BY <1>2, <1>3, <1>4, <1>6, <1>7

\* Clear leaves no event and no row; an open dialog keeps its keys.
LEMMA ClearView == ASSUME ViewInv, Clear PROVE ViewInv'
<1>1. Settings'
  BY FS_EmptySet DEF ViewInv, Settings, Clear, NoVisible, NoKey, search, dialog
<1>2. Bounded' /\ ViewCurrent'
  BY NoRows DEF ViewInv, Bounded, ViewCurrent, Clear, ClearedRows, stream, dialog
<1> QED BY <1>1, <1>2 DEF ViewInv

\* The rows and the dialog's cursor are kept current throughout.
THEOREM ViewInvariance == Spec => []ViewInv
<1>1. IInv /\ ViewInv /\ [Next]_vars => ViewInv'
  <2> SUFFICES ASSUME IInv, ViewInv, [Next]_vars PROVE ViewInv'
    OBVIOUS
  <2>1. CASE Next
    BY <2>1, QueueStep, EventStep, SearchStep, DialogStep, ClearView DEF Next, Keys
  <2>2. CASE UNCHANGED vars
    BY <2>2 DEF vars, stream, dialog, search, view, ViewInv, Settings, Bounded, ViewCurrent
  <2> QED BY <2>1, <2>2
<1> QED BY <1>1, ViewInit, Invariance, PTL DEF Spec

\* Every variable keeps its type, and the queue, the counters and the view are
\* within their bounds.
THEOREM TypeCorrect == Spec => []TypeOK
<1>1. IInv /\ ViewInv => TypeOK
  <2> SUFFICES ASSUME IInv, ViewInv PROVE TypeOK
    OBVIOUS
  <2>1. /\ Cardinality(inbox) \in Nat /\ Len(queue) \in Nat
        /\ logged = dropped + Len(queue) + Cardinality(inbox) + total + cleared
    BY InboxSize DEF IInv, Types, Accounted
  <2>2. dropped \in 0..MaxLogged /\ logged \in 0..MaxLogged
        /\ total \in 0..MaxLogged /\ cleared \in 0..MaxLogged
    BY <2>1, SizeAssumption DEF IInv, Types, ViewInv, Bounded
  <2> QED BY <2>2 DEF IInv, Types, ViewInv, Bounded, Settings, TypeOK
<1> QED BY <1>1, Invariance, ViewInvariance, PTL

\* Whatever key is pressed, in the search, the dialog or outside, and whatever
\* events come in between, Update leaves rows that are those of model.events and
\* the settings, and a cursor that is on a key.
THEOREM ViewCurrentHolds == Spec => []ViewCurrent
<1>1. ViewInv => ViewCurrent
  BY DEF ViewInv
<1> QED BY <1>1, ViewInvariance, PTL
-------------------------------------------------------------------------------
(* The feed                                                                    *)

unread == InHand \o queue

\* The message on its way comes before the queue.
LEMMA UnreadIs ==
  ASSUME IInv
  PROVE  /\ InHand \in Seq(Event) /\ unread \in Seq(Event)
         /\ waiting = 1 => InHand = <<>> /\ unread = queue
         /\ \A e \in inbox : InHand = <<e>> /\ unread = <<e>> \o queue
         /\ Len(unread) \in Nat /\ Len(queue) <= Len(unread) /\ Len(unread) <= Len(queue) + 1
<1>0. queue \in Seq(Event) /\ Len(queue) \in Nat
  BY DEF IInv, Types
<1>1. CASE waiting = 1 /\ inbox = {}
  <2>1. InHand = <<>>
    BY <1>1 DEF InHand
  <2>2. unread = queue
    BY <1>0, <2>1 DEF unread
  <2> QED BY <1>0, <1>1, <2>1, <2>2
<1>2. CASE waiting = 0 /\ \E e \in Event : inbox = {e}
  <2>1. PICK e \in Event : inbox = {e}
    BY <1>2
  <2>2. InHand = <<e>>
    <3>1. (CHOOSE d \in inbox : TRUE) = e
      BY <2>1
    <3> QED BY <2>1, <3>1 DEF InHand
  <2>3. unread = <<e>> \o queue
    BY <2>2 DEF unread
  <2>4. InHand \in Seq(Event) /\ unread \in Seq(Event) /\ Len(unread) = Len(queue) + 1
    BY <1>0, <2>2, <2>3
  <2>5. \A d \in inbox : InHand = <<d>> /\ unread = <<d>> \o queue
    BY <2>1, <2>2, <2>3
  <2> QED BY <1>0, <1>2, <2>4, <2>5
<1> QED BY <1>1, <1>2 DEF IInv, OneOutstanding

\* The view keeps what the feed keeps.
LEMMA LatestIsNewest == ASSUME NEW es \in Seq(Event) PROVE Latest(es) = Feed!Newest(es)
<1>1. Len(es) \in Nat /\ Keep \in Nat \ {0}
  BY SizeAssumption
<1>2. CASE Len(es) <= Keep
  <2>1. Max({1, Len(es) - Keep + 1}) = 1
    BY <1>1, <1>2, MaxOf
  <2>2. SubSeq(es, 1, Len(es)) = es
    OBVIOUS
  <2> QED BY <1>2, <2>1, <2>2 DEF Latest, Feed!Newest
<1>3. CASE ~(Len(es) <= Keep)
  <2>1. Max({1, Len(es) - Keep + 1}) = Len(es) - Keep + 1
    BY <1>1, <1>3, MaxOf
  <2> QED BY <1>3, <2>1 DEF Latest, Feed!Newest
<1> QED BY <1>2, <1>3

\* Nothing is to be shown at first.
LEMMA FeedInit == Init => Feed!Init
<1> SUFFICES ASSUME Init PROVE Feed!Init
  OBVIOUS
<1>1. InHand = <<>> /\ queue = <<>>
  BY DEF Init, InHand
<1>2. InHand \o queue = <<>>
  BY <1>1
<1> QED BY <1>2 DEF Init, Feed!Init

\* Whether there is room in the queue decides whether an event is lost.
LEMMA FeedLog == ASSUME IInv, NEW kind \in Kind, Log(kind) PROVE Feed!Log(kind)
<1> DEFINE e == [id |-> logged', level |-> kind.level, keys |-> kind.keys]
<1>1. InHand' = InHand /\ events' = events /\ logged' = logged + 1
  BY DEF Log, InHand
<1>2. /\ InHand \in Seq(Event) /\ queue \in Seq(Event) /\ Len(unread) \in Nat
      /\ Len(queue) <= Len(unread) /\ Len(unread) <= Len(queue) + 1 /\ Len(queue) \in Nat
  BY UnreadIs DEF IInv, Types
<1>3. e \in Event
  BY <1>1, KindAssumption DEF Event, IInv, Types
<1>4. CASE Room
  <2>1. queue' = Append(queue, e) /\ dropped' = dropped /\ Len(unread) <= Buffer
    BY <1>2, <1>4, SizeAssumption DEF Log, Room
  <2> HIDE DEF e
  <2>2. InHand \o Append(queue, e) = Append(InHand \o queue, e)
    BY <1>2, <1>3
  <2>3. (InHand \o queue)' = Append(InHand \o queue, e)
    BY <1>1, <2>1, <2>2
  <2> QED BY <1>1, <2>1, <2>3 DEF Feed!Log, unread, e
<1>5. CASE ~Room
  <2>1. queue' = queue /\ dropped' = dropped + 1 /\ Len(unread) >= Buffer
    BY <1>2, <1>5, SizeAssumption DEF Log, Room, Dropped
  <2> QED BY <1>1, <2>1 DEF Feed!Log, unread
<1> QED BY <1>4, <1>5

\* Taking an event from the queue shows nothing.
LEMMA FeedTake == ASSUME IInv, IInv', Take PROVE UNCHANGED Feed!vars
<1>1. waiting = 1 /\ waiting' = 0 /\ queue # <<>> /\ queue' = Tail(queue) /\ Head(queue) \in inbox'
  BY DEF IInv, Types, OneOutstanding, Take
<1>2. unread = queue
  BY <1>1, UnreadIs
<1>3. unread' = <<Head(queue)>> \o Tail(queue)
  <2>1. inbox' = {Head(queue)}
    BY <1>1 DEF IInv, OneOutstanding
  <2>2. (CHOOSE d \in inbox' : TRUE) = Head(queue)
    BY <2>1
  <2>3. InHand' = <<Head(queue)>>
    BY <2>1, <2>2 DEF InHand
  <2> QED BY <1>1, <2>3 DEF unread
<1>4. <<Head(queue)>> \o Tail(queue) = queue
  BY <1>1 DEF IInv, Types
<1> QED BY <1>2, <1>3, <1>4 DEF Take, Feed!vars, unread

\* Update shows the oldest event.
LEMMA FeedShow == ASSUME IInv, IInv', NEW e \in inbox, HandleEvent(e) PROVE Feed!Show
<1>1. unread = <<e>> \o queue /\ e \in Event /\ queue \in Seq(Event) /\ events \in Seq(Event)
  BY UnreadIs DEF IInv, Types
<1>2. waiting' = 1 /\ queue' = queue /\ logged' = logged /\ dropped' = dropped
  BY DEF IInv, OneOutstanding, HandleEvent, Rearmed, stream
<1>3. unread' = queue
  <2>1. InHand' = <<>>
    BY <1>2 DEF IInv, OneOutstanding, InHand
  <2>2. <<>> \o queue = queue
    BY <1>1
  <2> QED BY <1>2, <2>1, <2>2 DEF unread
<1>4. unread # <<>> /\ Head(unread) = e /\ Tail(unread) = queue
  BY <1>1
<1>5. Append(events, e) \in Seq(Event)
  BY <1>1
<1>6. events' = Feed!Newest(Append(events, e))
  BY <1>5, LatestIsNewest DEF HandleEvent
<1> QED BY <1>2, <1>3, <1>4, <1>6 DEF Feed!Show, unread

\* Clear empties the view; the other keys do nothing to the feed.
LEMMA FeedKeys == ASSUME Keys PROVE Feed!Clear \/ UNCHANGED Feed!vars
<1>1. CASE Clear
  BY <1>1 DEF Clear, stream, Feed!Clear, InHand
<1>2. CASE ~Clear
  BY <1>2, OtherKeys DEF stages, Feed!vars, InHand
<1> QED BY <1>1, <1>2

\* The queue, the command that waits for it and Update are, to who reads the
\* view, a feed that loses an event only when Buffer others wait, and that shows
\* the rest one by one in the order in which they were logged.
THEOREM Refinement == Spec => ImplementsFeed
<1>1. IInv /\ IInv' /\ [Next]_vars => [Feed!Next]_(Feed!vars)
  <2> SUFFICES ASSUME IInv, IInv', [Next]_vars PROVE [Feed!Next]_(Feed!vars)
    OBVIOUS
  <2>1. CASE Next
    BY <2>1, FeedLog, FeedTake, FeedShow, FeedKeys DEF Next, Handle, Feed!Next
  <2>2. CASE UNCHANGED vars
    BY <2>2 DEF vars, stream, Feed!vars, InHand
  <2> QED BY <2>1, <2>2
<1> QED BY <1>1, FeedInit, Invariance, PTL DEF Spec, ImplementsFeed, Feed!Spec
===============================================================================
