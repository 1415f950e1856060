------------------------------ MODULE RuleTargets ------------------------------
(* Where a rule sends a flow: Match.Matches (internal/rules/rules.go), the file  *)
(* of a map_local rule (maplocal.go), the URL of a map_remote rule              *)
(* (mapremote.go) and the URL that roundtrip builds (internal/proxy/pipeline.go). *)
(*                                                                              *)
(* A decoded URL path or a query is a sequence of tokens: "/", "..", "?", "#",   *)
(* "%" (a percent sign that begins no escape), "CTL" (a control character),      *)
(* escapes, and parts of names; a name may consist of several tokens, and "..",  *)
(* "a" is the name "..a".  (A name "." would be dropped, as an empty one is.)    *)
(* A regular expression is a sequence of alternatives: texts, with or without    *)
(* "^".                                                                         *)
EXTENDS SequencesExt, Integers

CONSTANT Decoded \* the escapes that a decoded path may still have, as %41 out of
                 \* %2541, and the token that each stands for

\* What means something else by itself is no escape.
ASSUME EscapeAssumption == {"/", "..", "?", "#", "%", "CTL"} \cap DOMAIN Decoded = {}

Alternative(anchored, text) == [anchored |-> anchored, text |-> text]

Occurs(a, p, at) == /\ a.anchored => at = 0
                    /\ at + Len(a.text) <= Len(p)
                    /\ SubSeq(p, at + 1, at + Len(a.text)) = a.text

Starts(re, p) == {at \in 0..Len(p) : \E a \in ToSet(re) : Occurs(a, p, at)}

MatchString(re, p) == Starts(re, p) # {}

\* Leftmost, and the first alternative there; where the match begins and ends.
FindStringIndex(re, p) ==
  LET from == Min(Starts(re, p))
      a    == re[Min({k \in DOMAIN re : Occurs(re[k], p, from)})]
  IN  <<from, from + Len(a.text)>>

\* match: the methods (none for any), whether the host matches, the expression
\* for the path.
Matches(match, method, p) == /\ match.methods # {} => method \in match.methods
                             /\ match.host
                             /\ MatchString(match.path, p)

AtStart(re, p) == FindStringIndex(re, p)[1] = 0

Stripped(re, p) ==
  LET rest == SubSeq(p, FindStringIndex(re, p)[2] + 1, Len(p))
  IN  IF rest = <<>> THEN <<"/">> ELSE rest
-------------------------------------------------------------------------------
(* map_local: the names from the rule's directory down to the file             *)

Segments(p) == FoldLeft(LAMBDA ss, t : IF t = "/" THEN Append(ss, <<>>)
                                       ELSE [ss EXCEPT ![Len(ss)] = Append(@, t)],
                        <<<<>>>>, p)

\* Mutant: a ".." is dropped, and takes nothing away.
CleanKeeping(p) == SelectSeq(Segments(p), LAMBDA s : s \notin {<<>>, <<"..">>})

\* The names that are left when each ".." takes back the one before it.
Reduce(names) == FoldLeft(LAMBDA ss, s : IF s = <<>> THEN ss
                                         ELSE IF s = <<"..">> THEN SubSeq(ss, 1, Len(ss) - 1)
                                         ELSE Append(ss, s),
                          <<>>, names)

\* path.Clean("/" + p)
Clean(p) == Reduce(Segments(p))

LocalTarget(re, p, index) ==
  LET rest == Stripped(re, p)
  IN  Clean(IF Last(rest) = "/" THEN Append(rest, index) ELSE rest)

\* strings.HasPrefix(rel, "..")
Escapes(target) == target # <<>> /\ target[1][1] = ".."
-------------------------------------------------------------------------------
(* map_remote                                                                  *)

TrimSuffix(p) == IF p # <<>> /\ Last(p) = "/" THEN Front(p) ELSE p
TrimPrefix(p) == IF p # <<>> /\ p[1] = "/" THEN Tail(p) ELSE p

joinMappedPath(base, rest) ==
  LET b == TrimSuffix(base)
      s == TrimPrefix(rest)
  IN  IF s # <<>> THEN b \o <<"/">> \o s
      ELSE IF b = <<>> THEN <<"/">> ELSE b

JoinQuery(base, q) == IF base = <<>> THEN q
                      ELSE IF q = <<>> THEN base ELSE base \o <<"&">> \o q

RemoteTarget(re, url, p, q) == [path  |-> joinMappedPath(url.path, Stripped(re, p)),
                                query |-> JoinQuery(url.query, q)]
-------------------------------------------------------------------------------
(* The URL of the request upstream: the decoded path is put into a string, and   *)
(* http.NewRequest parses that.                                                 *)

TargetURL(t) == IF t.query = <<>> THEN t.path ELSE t.path \o <<"?">> \o t.query

Marks(u, mark) == {k \in DOMAIN u : u[k] = mark}

\* strings.Cut
Cut(u, mark) == IF Marks(u, mark) = {} THEN [before |-> u, after |-> <<>>]
                ELSE LET k == Min(Marks(u, mark))
                     IN  [before |-> SubSeq(u, 1, k - 1), after |-> SubSeq(u, k + 1, Len(u))]

WithoutFragment(u) == Cut(u, "#").before

Unescape(p) == [k \in DOMAIN p |-> IF p[k] \in DOMAIN Decoded THEN Decoded[p[k]] ELSE p[k]]

\* The fragment is not sent, and the path is decoded a second time.
Parse(u) == [path  |-> Unescape(Cut(WithoutFragment(u), "?").before),
             query |-> Cut(WithoutFragment(u), "?").after]

\* A percent sign in path or fragment has to begin an escape, a control character
\* may only be in the fragment, and without a "/" a path (the "*" of OPTIONS) is
\* taken for a part of the port.
Parses(u) ==
  LET p == Cut(WithoutFragment(u), "?").before
  IN  /\ "%" \notin ToSet(p) \cup ToSet(Cut(u, "#").after)
      /\ "CTL" \notin ToSet(WithoutFragment(u))
      /\ p # <<>> => p[1] = "/"
===============================================================================
