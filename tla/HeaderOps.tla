------------------------------- MODULE HeaderOps ------------------------------
(* Headers and the operations on them: http.Header, internal/rules/headers.go *)
(* and internal/httpx/hopbyhop.go.                                           *)
(*                                                                           *)
(* A header maps each canonical name to the sequence of its values; a name   *)
(* that is not there has none.  A regular expression is the set of the       *)
(* values it matches.                                                        *)
EXTENDS SequencesExt

CONSTANTS Name,      \* the canonical header names
          Value,     \* the header values
          Listed(_)  \* Listed(v): the names a Connection value v lists

ASSUME ConnectionAssumption == "Connection" \in Name

\* The elements of s that are in S, in order.
Filter(s, S) == FoldLeft(LAMBDA kept, x : IF x \in S THEN Append(kept, x) ELSE kept, <<>>, s)

Header == [Name -> Seq(Value)]
NoHeader == [n \in Name |-> <<>>]

Del(h, n) == [h EXCEPT ![n] = <<>>]
Add(h, n, v) == [h EXCEPT ![n] = Append(@, v)]
Set(h, n, v) == [h EXCEPT ![n] = <<v>>]
-------------------------------------------------------------------------------
(* A delete operation has AnyName or a Name, and ValueRegex or nil.          *)

Delete(n) == [AnyName |-> FALSE, Name |-> n, Filtered |-> FALSE, ValueRegex |-> {}]
DeleteValues(n, re) == [AnyName |-> FALSE, Name |-> n, Filtered |-> TRUE, ValueRegex |-> re]
DeleteAny(re) == [AnyName |-> TRUE, Name |-> "", Filtered |-> TRUE, ValueRegex |-> re]

\* The values of one name that the expression does not match stay, in order.
filterHeaderValues(h, k, re) == [h EXCEPT ![k] = Filter(@, Value \ re)]

applyDelete(h, d) ==
  IF d.AnyName THEN [k \in Name |-> filterHeaderValues(h, k, d.ValueRegex)[k]]
  ELSE IF d.Filtered THEN filterHeaderValues(h, d.Name, d.ValueRegex)
  ELSE Del(h, d.Name)

SetOp(n, mode, v) == [Name |-> n, Mode |-> mode, Value |-> v]

applySet(h, s) == IF s.Mode = "replace" THEN Set(h, s.Name, s.Value)
                                        ELSE Add(h, s.Name, s.Value)

\* All deletes, then all sets.
Apply(ops, h) == FoldLeft(applySet, FoldLeft(applyDelete, h, ops.Delete), ops.Set)

NoOps == [Delete |-> <<>>, Set |-> <<>>]

DeleteOps == [AnyName : BOOLEAN, Name : Name \cup {""}, Filtered : BOOLEAN, ValueRegex : SUBSET Value]
SetOps == [Name : Name, Mode : {"replace", "append"}, Value : Value]
Ops == [Delete : Seq(DeleteOps), Set : Seq(SetOps)]
-------------------------------------------------------------------------------
hopByHopHeaders == {"Connection", "Proxy-Connection", "Keep-Alive", "Te", "Trailer",
  "Transfer-Encoding", "Upgrade", "Proxy-Authenticate", "Proxy-Authorization"}

\* The names that are hop by hop in h: the fixed ones, and those that a value
\* of Connection lists.
HopByHop(h) == hopByHopHeaders \cup UNION {Listed(v) : v \in ToSet(h["Connection"])}

RemoveHopByHop(h) == [n \in Name |-> IF n \in HopByHop(h) THEN <<>> ELSE h[n]]
===============================================================================
