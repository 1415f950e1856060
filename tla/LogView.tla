-------------------------------- MODULE LogView -------------------------------
(* The live log view: the bounded queue of internal/logstream/handler.go, into *)
(* which every goroutine of the proxy logs, and the model of                   *)
(* internal/tui/tui.go, which takes events from it one at a time and shows     *)
(* them as its key presses say.                                                *)
(*                                                                             *)
(* An event has a number, a level and attribute keys; a search finds an event  *)
(* by one of its keys.  The layout (wrapping, scrolling, colours) is left out. *)
EXTENDS FiniteSetsExt, SequencesExt, Integers

CONSTANTS Key,        \* attribute keys: numbers, in the order of their names
          Kind,       \* kinds of events: [level, keys]
          Buffer,     \* size of the queue (4096)
          Keep,       \* events that the view keeps (2000)
          MaxLogged,  \* bound: events logged
          Presses     \* bound: the keys that the user presses

ASSUME SizeAssumption == Buffer \in Nat \ {0} /\ Keep \in Nat \ {0} /\ MaxLogged \in Nat
ASSUME KindAssumption == Kind \subseteq [level : Nat, keys : {K \in SUBSET Key : IsFiniteSet(K)}]

VARIABLES queue,      \* Stream.ch
          dropped,    \* Stream.dropped
          logged,     \* events logged so far
          waiting,    \* waitEvent commands that wait for the queue
          inbox,      \* events that such a command has taken, as messages
          quit,       \* the program has quit
          events, total,          \* the events kept, and their count since the last clear
          cleared,                \* events cleared so far
          filter, query,          \* level filter, search query
          searchMode, searchInput,
          visMode, visKeys, visCursor,
          visible, keyCatalog,
          rows                    \* what the viewport shows

stream == <<queue, dropped, logged>>
dialog == <<visMode, visKeys, visCursor>>
search == <<searchMode, searchInput>>
view == <<filter, query, visible, rows>>
vars == <<stream, waiting, inbox, quit, events, total, cleared, keyCatalog, search, dialog, view>>

NoKey == 0
Levels == <<"all", "info", "warn", "error">>

\* The keys that orderedAttrKeys leaves: one without an entry is visible.
Shown(v) == {k \in Key : v[k] # "off"}

LevelOf(f) == CHOOSE l \in 1..4 : Levels[l] = f

Passes(e, f, q) == /\ q = NoKey \/ q \in e.keys
                   /\ f = "all" \/ e.level >= LevelOf(f)

\* rebuildViewport: a row for each event that passes, in order.
rebuild(es, f, q, v) ==
  FoldLeft(LAMBDA done, e : IF Passes(e, f, q) THEN Append(done, <<e.id, e.keys \cap Shown(v)>>)
                            ELSE done,
           <<>>, es)

NoVisible == [k \in Key |-> "unset"]

Init == /\ queue = <<>> /\ dropped = 0 /\ logged = 0
        /\ waiting = 1 /\ inbox = {} /\ quit = FALSE
        /\ events = <<>> /\ total = 0 /\ cleared = 0 /\ keyCatalog = {}
        /\ filter = "all" /\ query = NoKey
        /\ searchMode = FALSE /\ searchInput = NoKey
        /\ visMode = FALSE /\ visKeys = <<>> /\ visCursor = 0
        /\ visible = NoVisible /\ rows = <<>>
-------------------------------------------------------------------------------
(* The queue                                                                   *)

\* Mutant: a full queue loses the event without a trace.
Uncounted == dropped

Dropped == dropped + 1

\* Mutant: the queue has no bound.
AnyRoom == TRUE

Room == Len(queue) < Buffer

\* handler.Handle never blocks: without room the event is dropped and counted.
Log(kind) ==
  /\ logged < MaxLogged
  /\ logged' = logged + 1
  /\ IF Room
     THEN /\ queue' = Append(queue, [id |-> logged', level |-> kind.level, keys |-> kind.keys])
          /\ UNCHANGED dropped
     ELSE dropped' = Dropped /\ UNCHANGED queue
  /\ UNCHANGED <<waiting, inbox, quit, events, total, cleared, keyCatalog, search, dialog, view>>

\* waitEvent, in a goroutine of its own, takes the oldest event.
Take == /\ waiting > 0 /\ queue # <<>>
        /\ queue' = Tail(queue) /\ waiting' = waiting - 1
        /\ inbox' = inbox \cup {Head(queue)}
        /\ UNCHANGED <<dropped, logged, quit, events, total, cleared, keyCatalog, search, dialog, view>>
-------------------------------------------------------------------------------
(* model.Update                                                                *)

\* Mutant: the oldest events are kept.
Oldest(es) == SubSeq(es, 1, Min({Keep, Len(es)}))

Latest(es) == SubSeq(es, Max({1, Len(es) - Keep + 1}), Len(es))

\* Mutants: every message asks for the next event twice; none does.
Twice == waiting + 2
Never == waiting

\* waitEvent(m.cfg.Events), returned with the model.
Rearmed == waiting + 1

HandleEvent(e) ==
  /\ ~quit /\ e \in inbox /\ inbox' = inbox \ {e}
  /\ total' = total + 1
  /\ events' = Latest(Append(events, e))
  /\ keyCatalog' = keyCatalog \cup e.keys
  /\ visible' = [k \in Key |-> IF k \in e.keys /\ visible[k] = "unset" THEN "on" ELSE visible[k]]
  /\ rows' = rebuild(events', filter, query, visible')
  /\ waiting' = Rearmed
  /\ UNCHANGED <<stream, quit, cleared, search, dialog, filter, query>>

\* Update on a key press: k is one the user presses.
Press(k) == ~quit /\ k \in Presses
Kept == UNCHANGED <<stream, waiting, inbox, events, total, cleared, keyCatalog>>

SearchEsc == /\ Press("esc") /\ searchMode
             /\ searchMode' = FALSE /\ searchInput' = NoKey
             /\ query' = NoKey /\ filter' = "all"
             /\ rows' = rebuild(events, "all", NoKey, visible)
             /\ Kept /\ UNCHANGED <<quit, dialog, visible>>

SearchEnter == /\ Press("enter") /\ searchMode
               /\ searchMode' = FALSE /\ query' = searchInput
               /\ rows' = rebuild(events, filter, searchInput, visible)
               /\ Kept /\ UNCHANGED <<quit, dialog, filter, searchInput, visible>>

\* Typing a character, or taking one back.
SearchType == /\ Press("type") /\ searchMode
              /\ \E q \in Key \cup {NoKey} : q # searchInput /\ searchInput' = q
              /\ Kept /\ UNCHANGED <<quit, dialog, searchMode, view>>

InDialog == visMode /\ ~searchMode

DialogClose == /\ Press("esc") \/ Press("v")
               /\ InDialog
               /\ visMode' = FALSE /\ query' = NoKey /\ filter' = "all"
               /\ rows' = rebuild(events, "all", NoKey, visible)
               /\ Kept /\ UNCHANGED <<quit, search, visKeys, visCursor, visible>>

DialogMove == /\ InDialog
              /\ \/ Press("j") /\ visCursor < Len(visKeys) - 1 /\ visCursor' = visCursor + 1
                 \/ Press("k") /\ visCursor > 0 /\ visCursor' = visCursor - 1
              /\ Kept /\ UNCHANGED <<quit, search, visMode, visKeys, view>>

\* The rows are not built again before the dialog closes or an event comes.
DialogSet(v) == /\ InDialog /\ visible' = v
                /\ Kept /\ UNCHANGED <<quit, search, dialog, filter, query, rows>>

Toggle == /\ Press(" ") /\ visKeys # <<>>
          /\ DialogSet([visible EXCEPT ![visKeys[visCursor + 1]] = IF @ = "on" THEN "off" ELSE "on"])
AllOn == Press("a") /\ DialogSet([k \in Key |-> IF k \in ToSet(visKeys) THEN "on" ELSE visible[k]])
AllOff == Press("n") /\ DialogSet([k \in Key |-> IF k \in ToSet(visKeys) THEN "off" ELSE visible[k]])

\* The keys below work in the visibility dialog too.
Quit == /\ Press("q") /\ ~searchMode
        /\ quit' = TRUE
        /\ Kept /\ UNCHANGED <<search, dialog, view>>

Esc == /\ Press("esc") /\ ~searchMode /\ ~visMode
       /\ searchInput' = NoKey /\ query' = NoKey /\ filter' = "all"
       /\ rows' = rebuild(events, "all", NoKey, visible)
       /\ Kept /\ UNCHANGED <<quit, dialog, searchMode, visible>>

SearchStart == /\ Press("/") /\ ~searchMode
               /\ searchMode' = TRUE /\ searchInput' = NoKey
               /\ Kept /\ UNCHANGED <<quit, dialog, view>>

cycleFilter == /\ Press("f") /\ ~searchMode
               /\ filter' = Levels[(LevelOf(filter) % 4) + 1]
               /\ rows' = rebuild(events, filter', query, visible)
               /\ Kept /\ UNCHANGED <<quit, search, dialog, query, visible>>

Clamped(keys) == Max({0, Min({visCursor, Len(keys) - 1})})

\* syncVisKeys, with sort.Strings.
DialogOpen ==
  /\ Press("v") /\ ~searchMode /\ ~visMode
  /\ visMode' = TRUE
  /\ \E keys \in [1..Cardinality(keyCatalog) -> keyCatalog] :
       /\ \A m, n \in DOMAIN keys : m < n => keys[m] < keys[n]
       /\ visKeys' = keys /\ visCursor' = Clamped(keys)
  /\ Kept /\ UNCHANGED <<quit, search, view>>

\* Mutant: the rows stay.
SameRows == rows

ClearedRows == <<>>

\* The level filter stays, and so do the dialog and its keys.
Clear == /\ Press("c") /\ ~searchMode
         /\ events' = <<>> /\ total' = 0 /\ cleared' = cleared + total
         /\ query' = NoKey /\ visible' = NoVisible /\ keyCatalog' = {}
         /\ rows' = ClearedRows
         /\ UNCHANGED <<stream, waiting, inbox, quit, search, dialog, filter>>

\* A new window size, or a change of the wrapping.
Rebuild == /\ ~quit /\ rows' = rebuild(events, filter, query, visible)
           /\ Kept /\ UNCHANGED <<quit, search, dialog, filter, query, visible>>

Keys == \/ SearchEsc \/ SearchEnter \/ SearchType \/ DialogClose \/ DialogMove
        \/ Toggle \/ AllOn \/ AllOff \/ Rebuild \/ Quit \/ Esc \/ SearchStart \/ cycleFilter
        \/ DialogOpen \/ Clear

Handle == \E e \in inbox : HandleEvent(e)

Next == (\E kind \in Kind : Log(kind)) \/ Take \/ Handle \/ Keys

Spec == Init /\ [][Next]_vars

\* The program's goroutines run; nobody has to log or to press a key.
FairSpec == Spec /\ WF_vars(Take) /\ WF_vars(Handle)
-------------------------------------------------------------------------------
TypeOK == /\ Len(queue) <= Buffer /\ dropped \in 0..MaxLogged /\ logged \in 0..MaxLogged
          /\ waiting \in Nat /\ quit \in BOOLEAN
          /\ total \in 0..MaxLogged /\ cleared \in 0..MaxLogged
          /\ filter \in ToSet(Levels) /\ query \in Key \cup {NoKey}
          /\ searchMode \in BOOLEAN /\ searchInput \in Key \cup {NoKey}
          /\ visMode \in BOOLEAN /\ visCursor \in Nat
          /\ visible \in [Key -> {"unset", "on", "off"}] /\ keyCatalog \subseteq Key

\* Every event that was logged is in the queue, on its way, counted in the
\* status line, was cleared by the user, or is counted as dropped; and of those
\* that the status line counts, the view holds as many as fit.
AllAccounted == /\ logged = dropped + Len(queue) + Cardinality(inbox) + total + cleared
                /\ Len(events) = Min({Keep, total})

\* Outside the visibility dialog the rows are those of the current events,
\* filter, search and visibility; in it the cursor is on one of the keys, even
\* when a clear has taken them from the catalog: Update would panic otherwise.
ViewCurrent == /\ ~visMode => rows = rebuild(events, filter, query, visible)
               /\ visMode /\ visKeys # <<>> => visCursor < Len(visKeys)

\* Queue, message on its way and Update together are the feed of LogFeed, for a
\* user who sees only the view and the counters: an event becomes visible in one
\* step, and Take moves it where nobody looks.
InHand == IF inbox = {} THEN <<>> ELSE <<CHOOSE e \in inbox : TRUE>>
Feed == INSTANCE LogFeed WITH lost <- dropped, unread <- InHand \o queue, shown <- events

ImplementsFeed == Feed!Spec

\* An event that has found room in the queue is shown, unless the user quits.
EveryEventArrives ==
  \A id \in 1..MaxLogged : (id \in {queue[n].id : n \in DOMAIN queue})
                             ~> (quit \/ \A e \in ToSet(queue) \cup inbox : e.id > id)
===============================================================================
