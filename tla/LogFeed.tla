-------------------------------- MODULE LogFeed --------------------------------
(* What the live log promises to its user, whatever the goroutines that log,  *)
(* the queue (internal/logstream/handler.go) and the program's loop           *)
(* (internal/tui/tui.go) do in between: a feed that shows the events one at a *)
(* time, in the order in which they were logged.  An event is lost, and       *)
(* counted, only when at least Buffer events are still to be shown, and never *)
(* are there more than one above that; of what was shown, the view keeps the  *)
(* newest.                                                                    *)
EXTENDS Sequences, Naturals

CONSTANTS Kind,   \* kinds of events: [level, keys]
          Buffer, \* how many events may wait
          Keep    \* how many events stay in the view

VARIABLES logged, \* events logged so far
          lost,   \* events lost so far
          unread, \* events still to be shown, oldest first
          shown   \* what the view keeps

vars == <<logged, lost, unread, shown>>

Init == logged = 0 /\ lost = 0 /\ unread = <<>> /\ shown = <<>>

Newest(s) == IF Len(s) <= Keep THEN s ELSE SubSeq(s, Len(s) - Keep + 1, Len(s))

Log(kind) ==
  /\ logged' = logged + 1
  /\ \/ /\ Len(unread) <= Buffer
        /\ unread' = Append(unread, [id |-> logged', level |-> kind.level, keys |-> kind.keys])
        /\ UNCHANGED lost
     \/ /\ Len(unread) >= Buffer
        /\ lost' = lost + 1
        /\ UNCHANGED unread
  /\ UNCHANGED shown

Show == /\ unread # <<>>
        /\ unread' = Tail(unread)
        /\ shown' = Newest(Append(shown, Head(unread)))
        /\ UNCHANGED <<logged, lost>>

Clear == shown' = <<>> /\ UNCHANGED <<logged, lost, unread>>

Next == (\E kind \in Kind : Log(kind)) \/ Show \/ Clear

Spec == Init /\ [][Next]_vars
===============================================================================
