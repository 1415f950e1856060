------------------------------- MODULE Pipeline -------------------------------
(* The rules of a configuration, compiled (internal/rules/ruleset.go), and    *)
(* one flow through Pipeline.Run and WriteResponse                            *)
(* (internal/proxy/pipeline.go).  While the flow runs, the files that a       *)
(* map_local rule serves may be replaced or removed and the upstream may fail.*)
(*                                                                            *)
(* Run takes the metadata once, before any rule changes a header.  A redirect *)
(* rule changes the URL or does not.  A body is <<where it comes from, the    *)
(* body_replace rules applied to it>>, and the length of a body, as the value *)
(* of Content-Length, is that body.                                           *)
EXTENDS HeaderOps, RuleTargets

CONSTANTS Flows,           \* configurations (sequences of raw rules), with a path and a query
          RequestHeaders,  \* what clients send
          Answers,         \* upstream responses: header and encoding
          Html,            \* Content-Type values that are HTML
          Identity,        \* Content-Encoding values that mean no encoding
          MaxChanges       \* bound: changes of the files during the flow

ASSUME NameAssumption == {"Content-Length", "Content-Type", "Location"} \subseteq Name
ASSUME HeaderAssumption == RequestHeaders \subseteq Header /\ Answers \subseteq Header
ASSUME ChangesAssumption == MaxChanges \in Nat

VARIABLES raw,      \* the rules of the configuration, in file order
          ruleset,  \* their compiled form, by type: positions in raw
          base,     \* what is at a map_local rule's path: Gone, "file", "dir"
          leaf,     \* what is below it at the file a request asks for
          changes,  \* changes of base and leaf so far
          method, path, query, \* the flow's
          pc,       \* where Run is
          i,        \* the next position in ruleset.Mapped
          header,   \* fc.Header
          own,      \* the rule whose response operations come last, or 0
          remote,   \* the map_remote rule that redirects the request, or 0
          file,     \* what serveLocal opens: the names that lead to it from base
          result,   \* the ResponseResult
          sent,     \* the requests made upstream: rule, path and query, header
          held      \* bodies that are open: "request", "file", "upstream"

disk == <<base, leaf, changes>>
request == <<method, path, query>>
flow == <<raw, ruleset, request>>
vars == <<disk, flow, pc, i, header, own, remote, file, result, sent, held>>

Gone == "gone"
Kinds == {Gone, "file", "dir"}
Empty == <<"none", <<>>>>
Result(status, h, body, source) == [status |-> status, headers |-> h, body |-> body, source |-> source]
emptyResult(status, source) == Result(status, NoHeader, Empty, source)
NoResult == emptyResult(0, "")
Location(k) == <<"location", <<k>>>>

Sequence(s) == s \in Seq(ToSet(s))

\* Paths, queries and expressions are sequences, and an index is a part of a name.
ASSUME TextAssumption == \A f \in Flows :
  /\ Sequence(f.path) /\ Sequence(f.query)
  /\ \A k \in DOMAIN f.rules :
       LET r == f.rules[k]
       IN  /\ Sequence(r.url.path) /\ Sequence(r.url.query) /\ r.index # "/"
           /\ Sequence(r.match.path) /\ \A a \in ToSet(r.match.path) : Sequence(a.text)

\* Rules are a sequence; what they, and their answers, put into a header is a value.
ASSUME RulesAssumption == \A f \in Flows :
  /\ f.rules \in Seq(ToSet(f.rules))
  /\ \A k \in DOMAIN f.rules : /\ f.rules[k].request \in Ops /\ f.rules[k].response \in Ops
                               /\ f.rules[k].contentType \in Value /\ Location(k) \in Value
  /\ \A n \in 0..Len(f.rules) : \A replaced \in [1..n -> DOMAIN f.rules] :
       \A source \in {"none", "rule", "file", "upstream"} : <<source, replaced>> \in Value

Init == /\ \E f \in Flows : raw = f.rules /\ path = f.path /\ query = f.query
        /\ ruleset = <<>>
        /\ base \in Kinds /\ leaf \in Kinds /\ changes = 0
        /\ method \in {"GET", "HEAD"}
        /\ pc = "compile" /\ i = 1
        /\ header \in RequestHeaders
        /\ own = 0 /\ remote = 0 /\ file = <<>>
        /\ result = NoResult /\ sent = <<>> /\ held = {"request"}

\* Somebody removes or replaces a file.
Change == /\ changes < MaxChanges
          /\ changes' = changes + 1
          /\ base' \in Kinds /\ leaf' \in Kinds
          /\ <<base', leaf'>> # <<base, leaf>>
          /\ UNCHANGED <<flow, pc, i, header, own, remote, file, result, sent, held>>
-------------------------------------------------------------------------------
(* rules.Compile.  A disabled rule is not looked at.                         *)

Rule == DOMAIN raw

OfType(types) == Filter([k \in Rule |-> k], {k \in Rule : raw[k].enabled /\ raw[k].type \in types})

\* The path expression of the two types that strip a prefix begins with "^".
Compiles(r) == /\ r.valid
               /\ r.type \in {"map_local", "map_remote"} => r.match.path[1].anchored
               /\ r.type = "map_local" => base # Gone

\* Mutant: the rules of a later type are put before the earlier ones.
MapFirst == [Headers     |-> OfType({"header"}),
             Redirect    |-> OfType({"redirect"}),
             Mapped      |-> OfType({"map"}) \o OfType({"map_local"}),
             MapRemote   |-> OfType({"map_remote"}),
             BodyReplace |-> OfType({"body_replace"})]

RuleSet == [Headers     |-> OfType({"header"}),
            Redirect    |-> OfType({"redirect"}),
            Mapped      |-> OfType({"map", "map_local"}),
            MapRemote   |-> OfType({"map_remote"}),
            BodyReplace |-> OfType({"body_replace"})]

Compile == /\ pc = "compile"
           /\ IF \E k \in DOMAIN raw : raw[k].enabled /\ ~Compiles(raw[k])
              THEN pc' = "refused" /\ UNCHANGED ruleset
              ELSE pc' = "request" /\ ruleset' = RuleSet
           /\ UNCHANGED <<raw, request, disk, i, header, own, remote, file, result, sent, held>>
-------------------------------------------------------------------------------
(* Pipeline.Run                                                              *)

\* A rule that strips a prefix does not match further on in the path.
Applies(k) == /\ Matches(raw[k].match, method, path)
              /\ raw[k].type \in {"map_local", "map_remote"} => AtStart(raw[k].match.path, path)

Matching(list) == Filter(list, {k \in Rule : Applies(k)})

\* The "request" or "response" operations of the rules of a list, one rule
\* after the other.
ApplyAll(list, side, h) == FoldLeft(LAMBDA g, k : Apply(raw[k][side], g), h, list)

Step2 == /\ pc = "request" /\ pc' = "redirect"
         /\ header' = ApplyAll(Matching(ruleset.Headers), "request", header)
         /\ UNCHANGED <<disk, flow, i, own, remote, file, result, sent, held>>

\* A redirect rule that does not change the URL counts as no match.
Rewriting == Filter(Matching(ruleset.Redirect), {k \in Rule : raw[k].rewrites})

serveRedirect(k) ==
  Result(302, [NoHeader EXCEPT !["Location"] = <<Location(k)>>,
                               !["Content-Length"] = <<Empty>>], Empty, "local")

Step3 == /\ pc = "redirect"
         /\ IF Rewriting = <<>> THEN pc' = "mapped" /\ UNCHANGED <<own, result>>
            ELSE /\ pc' = "replace"
                 /\ own' = Rewriting[1]
                 /\ result' = serveRedirect(Rewriting[1])
         /\ UNCHANGED <<disk, flow, i, header, remote, file, sent, held>>

serveMapped(k) ==
  LET body == <<"rule", <<>>>>
  IN  Result(200, [NoHeader EXCEPT !["Content-Type"] = <<raw[k].contentType>>,
                                   !["Content-Length"] = <<body>>], body, "local")

Here == i <= Len(ruleset.Mapped)
This == ruleset.Mapped[i]

Skip == /\ pc = "mapped" /\ Here /\ ~Applies(This)
        /\ i' = i + 1
        /\ UNCHANGED <<disk, flow, pc, header, own, remote, file, result, sent, held>>

NoMapped == /\ pc = "mapped" /\ ~Here /\ pc' = "remote"
            /\ UNCHANGED <<disk, flow, i, header, own, remote, file, result, sent, held>>

MatchMap == /\ pc = "mapped" /\ Here /\ Applies(This) /\ raw[This].type = "map"
            /\ pc' = "replace" /\ own' = This /\ result' = serveMapped(This)
            /\ UNCHANGED <<disk, flow, i, header, remote, file, sent, held>>

\* Run returns an error, for which the handlers answer with a 500 of their own.
Fail == pc' = "error" /\ result' = emptyResult(500, "local")

\* Run returns an empty 403 at once.
Refuse == pc' = "done" /\ result' = emptyResult(403, "local") /\ UNCHANGED <<own, file>>

Below(k) == LocalTarget(raw[k].match.path, path, raw[k].index)

\* MapLocalRule.Resolve: a name that begins with ".." is taken for an escape.
\* A rule whose path is a file serves that file.
ResolveLocal ==
  /\ pc = "mapped" /\ Here /\ Applies(This) /\ raw[This].type = "map_local"
  /\ \/ base = Gone /\ Fail /\ UNCHANGED <<own, file>>
     \/ base = "dir" /\ Escapes(Below(This)) /\ Refuse
     \/ /\ base = "file" \/ (base = "dir" /\ ~Escapes(Below(This)))
        /\ pc' = "open" /\ own' = This
        /\ file' = IF base = "file" THEN <<>> ELSE Below(This)
        /\ UNCHANGED result
  /\ UNCHANGED <<disk, flow, i, header, remote, sent, held>>

At == IF file = <<>> THEN base ELSE IF base = "file" THEN "dir" ELSE
      IF base = Gone THEN Gone ELSE leaf

\* serveLocal, on the file as it is now: a missing one is a 404, a directory
\* (or a path through a file) an error.
serveLocal ==
  /\ pc = "open"
  /\ \/ At = Gone /\ pc' = "replace" /\ result' = emptyResult(404, "local") /\ UNCHANGED held
     \/ At = "dir" /\ Fail /\ UNCHANGED held
     \/ /\ At = "file" /\ pc' = "replace" /\ held' = held \cup {"file"}
        /\ result' = Result(200, [NoHeader EXCEPT !["Content-Type"] = <<raw[own].contentType>>],
                            <<"file", <<>>>>, "local")
  /\ UNCHANGED <<disk, flow, i, header, own, remote, file, sent>>

Remote == Matching(ruleset.MapRemote)

Step4 == /\ pc = "remote" /\ pc' = "roundtrip"
         /\ remote' = IF Remote = <<>> THEN 0 ELSE Remote[1]
         /\ UNCHANGED <<disk, flow, i, header, own, file, result, sent, held>>

\* readRequestBody, under a limit: it closes the body, which may be too large or break off.
ReadBody == /\ pc = "roundtrip"
            /\ held' = held \ {"request"}
            /\ \/ pc' = "replace" /\ result' = emptyResult(413, "local")
               \/ Fail
            /\ UNCHANGED <<disk, flow, i, header, own, remote, file, sent>>

Target == IF remote = 0 THEN [path |-> path, query |-> query]
          ELSE RemoteTarget(raw[remote].match.path, raw[remote].url, path, query)

\* The decoded path, put back into a URL, may not parse.
BuildFails == /\ pc = "roundtrip" /\ Fail
              /\ ~Parses(TargetURL(Target))
              /\ held' \in {held, held \ {"request"}}
              /\ UNCHANGED <<disk, flow, i, header, own, remote, file, sent>>

\* Mutant: the client's header is cleaned before the rules see it, not after.
AsIs(h) == h

OutHeader(h) == RemoveHopByHop(h)

\* Mutant: the request is made again.
Twice(r) == sent \o <<r, r>>

Requests(r) == Append(sent, r)

\* transport.RoundTrip closes the request body in any case.
RoundTrip ==
  /\ pc = "roundtrip" /\ pc' = "replace" /\ Parses(TargetURL(Target))
  /\ sent' = Requests([to |-> remote, url |-> Parse(TargetURL(Target)), header |-> OutHeader(header)])
  /\ \/ /\ result' = emptyResult(502, "upstream") /\ held' = held \ {"request"}
     \/ \E a \in Answers :
          LET body == <<"upstream", <<>>>>
              h    == [a EXCEPT !["Content-Length"] = <<body>>]
          IN  /\ result' = Result(200, RemoveHopByHop(h),
                                  IF method = "HEAD" THEN Empty ELSE body, "upstream")
              /\ held' = (held \ {"request"}) \cup {"upstream"}
  /\ UNCHANGED <<disk, flow, i, header, own, remote, file>>

isIdentityContentEncoding(h) == ToSet(h["Content-Encoding"]) \subseteq Identity

Replacing == Filter(Matching(ruleset.BodyReplace),
                    {k \in Rule : raw[k].htmlOnly => \E t \in Html :
                                     IsPrefix(<<t>>, result.headers["Content-Type"])})

\* Mutant: the length of the old body stays.
SameLength(h, body) == h

WithLength(h, body) == Set(h, "Content-Length", body)

Opened == held \cap {"file", "upstream"}

\* Mutant: the body that was read is left open.
LeaveOpen == held

\* result.Body.Close(), once it is read.
ClosedBody == held \ Opened

Step5 ==
  /\ pc = "replace"
  /\ IF Replacing = <<>> \/ ~isIdentityContentEncoding(result.headers)
     THEN pc' = "response" /\ UNCHANGED <<result, held>>
     ELSE /\ held' = ClosedBody
          /\ \/ /\ pc' = "response"
                /\ LET body == <<result.body[1], result.body[2] \o Replacing>>
                   IN  result' = [result EXCEPT !.body = body,
                                                !.headers = WithLength(@, body)]
             \/ Opened # {} /\ Fail
  /\ UNCHANGED <<disk, flow, i, header, own, remote, file, sent>>

OwnOps == IF own = 0 THEN NoOps ELSE raw[own].response

\* Mutant: the rule's own operations come before the global ones.
OwnFirst(h) == ApplyAll(Matching(ruleset.Headers), "response", Apply(OwnOps, h))

Steps6And7(h) == Apply(OwnOps, ApplyAll(Matching(ruleset.Headers), "response", h))

Respond == /\ pc = "response" /\ pc' = "done"
           /\ result' = [result EXCEPT !.headers = Steps6And7(@)]
           /\ UNCHANGED <<disk, flow, i, header, own, remote, file, sent, held>>

\* WriteResponse, writeHTTP1Response or the HTTP/2 handler: copies the body and closes it.
Write == /\ pc = "done" /\ pc' = "written"
         /\ held' = held \ Opened
         /\ UNCHANGED <<disk, flow, i, header, own, remote, file, result, sent>>

Run == \/ Step2 \/ Step3 \/ Skip \/ NoMapped \/ MatchMap \/ ResolveLocal \/ serveLocal
       \/ Step4 \/ ReadBody \/ BuildFails \/ RoundTrip \/ Step5 \/ Respond \/ Write

Next == Change \/ Compile \/ Run

Spec == Init /\ [][Next]_vars
-------------------------------------------------------------------------------
Active(types) == {k \in Rule : raw[k].enabled /\ Applies(k) /\ raw[k].type \in types}
First(S) == CHOOSE k \in S : \A j \in S : k <= j
Answered == pc \in {"done", "written"}
Responded == Answered \/ pc = "error"

TypeOK == /\ ruleset # <<>> => \A f \in DOMAIN ruleset : ToSet(ruleset[f]) \subseteq Rule
          /\ pc \in {"compile", "refused", "request", "redirect", "mapped", "open", "remote",
                     "roundtrip", "replace", "response", "done", "written", "error"}
          /\ header \in [Name -> Seq(Value)] /\ result.headers \in [Name -> Seq(Value)]
          /\ own \in Rule \cup {0} /\ remote \in Rule \cup {0}
          /\ base \in Kinds /\ leaf \in Kinds /\ changes \in 0..MaxChanges
          /\ held \subseteq {"request", "file", "upstream"} /\ Len(sent) <= 1

\* In each stage the first matching rule of the file decides, whatever its
\* type and whatever happens to the files meanwhile, an earlier stage comes
\* before a later one, and only a flow without a local answer goes upstream.
FirstMatchWins ==
  LET redirects == {k \in Active({"redirect"}) : raw[k].rewrites}
      mapped    == Active({"map", "map_local"})
      remotes   == Active({"map_remote"})
  IN  Answered =>
      IF redirects # {} THEN own = First(redirects) /\ sent = <<>>
      ELSE IF mapped # {} THEN /\ sent = <<>>
                               /\ own = First(mapped) \/ (result.status = 403 /\ Escapes(Below(First(mapped))))
      ELSE /\ own = 0
           /\ result.status # 413 => Len(sent) = 1 /\ sent[1].to = IF remotes = {} THEN 0 ELSE First(remotes)

NonEmpty(ss) == FoldLeft(LAMBDA kept, s : IF s = <<>> THEN kept ELSE Append(kept, s), <<>>, ss)
Names(p) == NonEmpty(Segments(p))

\* The names that a walk along s, which never leaves the directory it starts
\* from, ends at: those that no later ".." takes back.
Ups(s, k, j) == Cardinality({n \in k..j : s[n] = <<"..">>})
Downs(s, k, j) == (j - k) + 1 - Ups(s, k, j)
Kept(s) == {k \in DOMAIN s : /\ s[k] # <<"..">>
                             /\ \A j \in k..Len(s) : Ups(s, k + 1, j) <= Downs(s, k + 1, j)}
WalkedTo(s) == LET kept == Filter([k \in DOMAIN s |-> k], Kept(s))
               IN  [n \in DOMAIN kept |-> s[kept[n]]]

RestOf(k) == SubSeq(path, FindStringIndex(raw[k].match.path, path)[2] + 1, Len(path))

\* A map_local rule for a directory serves the file that a walk from there along
\* the rest of the path ends at, and with it the index file of a path that ends
\* in "/".  A request upstream keeps path and query, or has the path and query of
\* the map_remote rule before the rest of its own: as long as no decoded path has
\* a "?", behind which it is taken for a query, a "#", behind which all is cut off
\* (of a query, too), or another escape, which is decoded again.
Verbatim(p, q) == /\ ToSet(p) \cap ({"?", "#"} \cup DOMAIN Decoded) = {}
                  /\ "#" \notin ToSet(q)

TargetOK ==
  /\ own # 0 /\ raw[own].type = "map_local" /\ changes = 0 /\ base = "dir" =>
       LET rest  == RestOf(own)
           index == IF rest = <<>> \/ Last(rest) = "/" THEN <<<<raw[own].index>>>> ELSE <<>>
       IN  file = WalkedTo(Names(rest) \o index)
  /\ \A k \in DOMAIN sent :
       LET url == sent[k].url
           to  == raw[remote].url
           and == IF to.query # <<>> /\ query # <<>> THEN <<"&">> ELSE <<>>
       IN  IF remote = 0 THEN Verbatim(path, query) => url = [path |-> path, query |-> query]
           ELSE Verbatim(to.path, to.query) /\ Verbatim(RestOf(remote), query) =>
                  /\ Names(url.path) = Names(to.path) \o Names(RestOf(remote))
                  /\ IsSuffix(TrimPrefix(RestOf(remote)), url.path)
                  /\ url.query = to.query \o and \o query

Deletes(ops, n, v) == \E d \in ToSet(ops.Delete) :
  IF d.AnyName THEN v \in d.ValueRegex ELSE d.Name = n /\ (d.Filtered => v \in d.ValueRegex)
Puts(ops, n, v) == \E s \in ToSet(ops.Set) : s.Name = n /\ s.Value = v
Replaces(ops, n, v) == \E s \in ToSet(ops.Set) : s.Name = n /\ s.Mode = "replace" /\ s.Value # v
Takes(ops, n, v) == Deletes(ops, n, v) \/ Replaces(ops, n, v)

\* The rules that have their turn after k, of the matching header rules in file
\* order and last (or 0) behind them.
Later(k, last) == IF k = last THEN {} ELSE {l \in Active({"header"}) : l > k} \cup ({last} \ {0})

\* What rule k puts there is there, and what it deletes is not, unless its own
\* sets or a later rule see to the opposite.
Lasting(h, side, last, n) == \A k \in Active({"header"}) \cup ({last} \ {0}) :
  /\ \A s \in ToSet(raw[k][side].Set) : s.Name = n =>
       \/ s.Value \in ToSet(h[n])
       \/ Replaces(raw[k][side], n, s.Value)
       \/ \E l \in Later(k, last) : Takes(raw[l][side], n, s.Value)
  /\ \A v \in ToSet(h[n]) : Deletes(raw[k][side], n, v) =>
       \E l \in {k} \cup Later(k, last) : Puts(raw[l][side], n, v)

\* All matching header rules work, in order, on the request upstream (but for
\* hop-by-hop headers) and on the answer, be it the upstream's, a rule's or an
\* empty 404, 413 or 502 of Run; on the answer the operations of the redirect,
\* map or map_local rule that gives it have the last word.  Without any go the
\* 403 of a map_local rule and the 500 for every error of Run, although README.md:183
\* says that all header rules apply to every response.
HeaderRulesApplied ==
  /\ \A k \in DOMAIN sent, n \in Name \ HopByHop(header) : Lasting(sent[k].header, "request", 0, n)
  /\ Responded /\ result.status \notin {403, 500} =>
       \A n \in Name : Lasting(result.headers, "response", own, n)

\* No hop-by-hop header goes upstream, neither a fixed one nor one that a
\* Connection header lists, be it the client's or one that a rule has set.
HopByHopNotSent ==
  \A k \in DOMAIN sent : \A n \in HopByHop(header) \cap Name : sent[k].header[n] = <<>>

\* A Content-Length is that of the body as it goes out, after all replacements.
\* To a HEAD request it is the upstream's, unless a body_replace rule matches.
\* (A rule may set any other.)
SetsNoLength == \A k \in Rule : \A s \in ToSet(raw[k].response.Set) : s.Name # "Content-Length"

LengthIsOfBody ==
  Answered /\ SetsNoLength => \A l \in ToSet(result.headers["Content-Length"]) :
    \/ l = result.body
    \/ method = "HEAD" /\ result.source = "upstream" /\ result.body = Empty

\* No file and no upstream body stays open when Run fails, and the only one
\* that Run leaves open is the one of its result.
BodiesClosed == /\ pc \in {"error", "written"} => Opened = {}
                /\ Answered => \/ Opened \subseteq {result.body[1]}
                               \/ method = "HEAD" /\ Opened = {"upstream"}
===============================================================================
