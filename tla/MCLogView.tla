------------------------------- MODULE MCLogView -------------------------------
(* An instance of LogView for TLC: a queue of one event and a view of two,      *)
(* so that both overflow, events of two levels, two attribute keys.            *)
EXTENDS LogView

MCKey == {1, 2}
MCKind == {[level |-> 2, keys |-> {1}], [level |-> 3, keys |-> {1, 2}]}
MCPresses == {"esc", "enter", "type", "v", "j", "k", " ", "a", "n", "q", "/", "f", "c"}
===============================================================================
