------------------------------- MODULE RootStore -------------------------------
(* What ca.Load (internal/ca/ca.go) promises to processes that call it one    *)
(* after the other: the data directory has no root, one root for ever, or one *)
(* whose creation broke off.  The first Load creates the root at once or      *)
(* spoils the directory; every later one gives exactly that root, key and     *)
(* certificate, or, in a spoiled directory, an error; and the bundle, once    *)
(* there, is of the root.  (A read that the disk refuses is left out, as in    *)
(* CAStore.)                                                                  *)
CONSTANTS Process, \* processes that call Load
          Pair,    \* roots
          None,    \* no root yet, no bundle, nothing given
          Spoiled  \* a root that will never be complete

VARIABLES root,   \* None, Spoiled or the root
          bundle, \* the root of the bundle, or None
          state,  \* state[p]: "off", "asking", "given" or "failed"
          given   \* given[p]: what Load has returned to p: key and certificate

vars == <<root, bundle, state, given>>

Init == /\ root \in Pair \cup {None} /\ bundle = None
        /\ state = [p \in Process |-> "off"] /\ given = [p \in Process |-> None]

Goto(p, from, to) == state[p] = from /\ state' = [state EXCEPT ![p] = to]

Ask(p) == Goto(p, "off", "asking") /\ UNCHANGED <<root, bundle, given>>

Create(p) == /\ state[p] = "asking" /\ root = None
             /\ root' \in Pair
             /\ UNCHANGED <<bundle, state, given>>

\* The creation fails or is killed half-way.
Spoil(p) == /\ \E to \in {"failed", "off"} : Goto(p, "asking", to)
            /\ root = None /\ root' = Spoiled
            /\ UNCHANGED <<bundle, given>>

Give(p) == /\ root \in Pair
           /\ Goto(p, "asking", "given")
           /\ given' = [given EXCEPT ![p] = <<root, root>>]
           /\ UNCHANGED <<root, bundle>>

\* Without a root, because the creation could not begin or the directory is spoiled.
Refuse(p) == /\ root \in {None, Spoiled}
             /\ Goto(p, "asking", "failed")
             /\ UNCHANGED <<root, bundle, given>>

Bundle(p) == /\ state[p] = "given" /\ bundle = None
             /\ bundle' = root
             /\ UNCHANGED <<root, state, given>>

\* A process ends, or is killed.
End(p) == /\ state[p] # "off"
          /\ state' = [state EXCEPT ![p] = "off"] /\ given' = [given EXCEPT ![p] = None]
          /\ UNCHANGED <<root, bundle>>

Next == \E p \in Process : \/ Ask(p) \/ Create(p) \/ Spoil(p) \/ Give(p) \/ Refuse(p)
                           \/ Bundle(p) \/ End(p)

Spec == Init /\ [][Next]_vars
===============================================================================
