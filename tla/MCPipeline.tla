------------------------------ MODULE MCPipeline -------------------------------
(* Instances of Pipeline for TLC: all sequences of up to two rules of every    *)
(* kind, and of three rules of the kinds that compete, for one path; and one   *)
(* rule that strips a prefix, or none, for many paths.  Each header rule marks *)
(* the response with its position and sets Own, as do the other rules' own     *)
(* response operations.                                                        *)
EXTENDS Pipeline

MCName == {"Connection", "Upgrade", "Content-Length", "Content-Type",
           "Content-Encoding", "Location", "Mark", "Own"}

Mark(k) == <<"mark", <<k>>>>
HtmlType == <<"html", <<>>>>
TextType == <<"text", <<>>>>
Gzip == <<"gzip", <<>>>>
Close == <<"close", <<>>>>
ListsMark == <<"lists", <<>>>>

MCListed(v) == IF v = ListsMark THEN {"Mark"} ELSE {}
MCHtml == {HtmlType}
MCIdentity == {}

Edits == UNION {[1..n -> 1..3] : n \in 0..3}
MCValue == {Mark(k) : k \in 0..3} \cup {HtmlType, TextType, Gzip, Close, ListsMark}
           \cup {Location(k) : k \in 1..3}
           \cup ({"none", "rule", "file", "upstream"} \X Edits)

OwnMark(k) == [Delete |-> <<Delete("Own")>>, Set |-> <<SetOp("Own", "append", Mark(k))>>]
Marking(k) == [Delete |-> <<DeleteAny({Gzip})>>,
               Set |-> <<SetOp("Mark", "append", Mark(k)), SetOp("Own", "replace", Mark(k))>>]
Listing == [Delete |-> <<DeleteValues("Connection", {Close})>>,
            Set |-> <<SetOp("Connection", "append", ListsMark), SetOp("Mark", "append", Mark(0))>>]

Root == <<Alternative(TRUE, <<"/">>)>>
Prefix == <<Alternative(TRUE, <<"/", "a">>)>>
Either == <<Alternative(TRUE, <<"/", "b">>), Alternative(FALSE, <<"a", "/">>)>>
Loose == <<Alternative(FALSE, <<"/">>)>>
On(re) == [methods |-> {}, host |-> TRUE, path |-> re]

Plain(type, k) ==
  [type |-> type, enabled |-> TRUE, valid |-> TRUE, match |-> On(Root), rewrites |-> TRUE,
   index |-> "index", url |-> [path |-> <<"/">>, query |-> <<>>],
   htmlOnly |-> FALSE, contentType |-> HtmlType, request |-> NoOps, response |-> OwnMark(k)]

\* The rule of a kind at position k.
RuleOf(kind, k) ==
  CASE kind = "H"  -> [Plain("header", k) EXCEPT !.response = Marking(k)]
    [] kind = "HC" -> [Plain("header", k) EXCEPT !.request = Listing, !.response = Marking(k)]
    [] kind = "R"  -> Plain("redirect", k)
    [] kind = "R0" -> [Plain("redirect", k) EXCEPT !.rewrites = FALSE]
    [] kind = "M"  -> [Plain("map", k) EXCEPT !.contentType = TextType]
    [] kind = "M0" -> [Plain("map", k) EXCEPT !.match.host = FALSE]
    [] kind = "L"  -> Plain("map_local", k)
    [] kind = "LP" -> [Plain("map_local", k) EXCEPT !.match = [On(Prefix) EXCEPT !.methods = {"GET"}]]
    [] kind = "LE" -> [Plain("map_local", k) EXCEPT !.match = On(Either)]
    [] kind = "LX" -> [Plain("map_local", k) EXCEPT !.match = On(Loose)]
    [] kind = "U"  -> Plain("map_remote", k)
    [] kind = "UP" -> [Plain("map_remote", k) EXCEPT
                         !.match = On(Prefix), !.url = [path |-> <<"/", "b", "/">>, query |-> <<"c">>]]
    [] kind = "UE" -> [Plain("map_remote", k) EXCEPT !.match = On(Either), !.url.path = <<"/", "b">>]
    [] kind = "UF" -> [Plain("map_remote", k) EXCEPT !.url.path = <<"/", "#", "b">>]
    [] kind = "B"  -> Plain("body_replace", k)
    [] kind = "BH" -> [Plain("body_replace", k) EXCEPT !.htmlOnly = TRUE]
    [] kind = "D"  -> [Plain("map", k) EXCEPT !.enabled = FALSE, !.valid = FALSE]
    [] kind = "X"  -> [Plain("redirect", k) EXCEPT !.valid = FALSE]

Every == {"H", "HC", "R", "R0", "M", "M0", "L", "LX", "U", "B", "BH", "D", "X"}
Competing == {"H", "R", "M", "M0", "L", "U", "B"}

Rules(s) == [k \in DOMAIN s |-> RuleOf(s[k], k)]
RuleSets == UNION {[1..n -> Every] : n \in 0..2} \cup [1..3 -> Competing]

Stripping == {<<"L">>, <<"LP">>, <<"LE">>, <<"UP">>, <<"UE">>, <<"UF">>, <<>>}

\* "%2F" and "%3F" stand for what means something, "%61" for a part of a name.
MCDecoded == [t \in {"%2F", "%3F", "%61"} |-> CASE t = "%2F" -> "/" [] t = "%3F" -> "?" [] OTHER -> "a"]
Odd == {"?", "#", "%", "CTL"} \cup DOMAIN MCDecoded
Paths == {<<"/">> \o s : s \in UNION {[1..n -> {"/", "a", ".."}] : n \in 0..3}}
         \cup {<<"/", "a", "/", "a", "/", "..", "/", "b">>, <<>>, <<"*">>}
         \cup {<<"/", "a", t, "b">> : t \in Odd} \cup {<<"/", "a", "#", t>> : t \in Odd}

MCFlows == {[rules |-> Rules(s), path |-> <<"/", "a">>, query |-> <<>>] : s \in RuleSets}
           \cup {[rules |-> Rules(s), path |-> p, query |-> <<"q">>] : s \in Stripping, p \in Paths}
           \cup {[rules |-> Rules(s), path |-> <<"/", "a">>, query |-> <<"q", "#", "r">>] : s \in Stripping}

MCRequestHeaders == {NoHeader, [NoHeader EXCEPT !["Connection"] = <<Close, ListsMark>>,
                                                !["Upgrade"] = <<Close>>,
                                                !["Mark"] = <<Mark(0)>>]}

MCAnswers == {[NoHeader EXCEPT !["Content-Type"] = <<TextType>>, !["Connection"] = <<Close>>],
              [NoHeader EXCEPT !["Content-Type"] = <<HtmlType>>],
              [NoHeader EXCEPT !["Content-Type"] = <<HtmlType>>, !["Content-Encoding"] = <<Gzip>>]}
===============================================================================
