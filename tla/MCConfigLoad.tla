----------------------------- MODULE MCConfigLoad -----------------------------
(* An instance of ConfigLoad for TLC.  One setting of each kind is given by    *)
(* any of the three layers, with every value that the code treats differently; *)
(* and a configuration lists up to two rule sources, out of a file, a file     *)
(* that does not parse, one that is not YAML, a directory that holds the       *)
(* first of them, and patterns that match both, nothing, or a bad name.        *)
EXTENDS ConfigLoad

Optional(setting, values) == {<<>>} \cup {setting :> v : v \in values}
Both(A, B) == {a @@ b : a \in A, b \in B}

Layers == Both(Both(Optional("Listen", {"", "a:1"}), Optional("BasePath", {<<>>, <<"rel">>})),
               Optional("UpstreamDialTimeoutMS", {-1, 1}))
Flags == {layer @@ ("LogLevel" :> "warn") @@ ("Listen" :> "") : layer \in Layers}

File(kind, set, inline, sources) == [kind |-> kind, set |-> set, rules |-> inline, sources |-> sources]
Settled == File("ok", <<>>, <<"inline">>, <<>>)
Start(env, unparsed, file, flags) ==
  [env |-> env, unparsed |-> unparsed, file |-> file, flags |-> flags,
   xdgCfg |-> <<"/", "config">>, xdgData |-> <<"/", "data">>]
NoFlags == [LogLevel |-> "info", Listen |-> ""]

\* The files 2, 3 and 5 parse, 4 does not, 6 is no YAML file; 1 is a directory.
MCUnder == 1 :> {3, 2, 6} @@ 8 :> {4, 5}
MCYaml == {2, 3, 4, 5}
MCParsed == 2 :> <<"two">> @@ 3 :> <<"three", "four">> @@ 5 :> <<>>
MCMatches == <<<<1, 5>>, <<>>, <<3, 6>>>>

Source == [glob : {FALSE}, at : {1, 3, 4, 5, 6, 7, 8}] \cup [glob : {TRUE}, at : DOMAIN MCMatches]
SourceLists == UNION {[1 .. n -> Source] : n \in 0 .. 2}

LayerStarts == {Start(env, {}, File("ok", set, <<"inline">>, <<>>), flags) :
                  env \in Layers, set \in Layers, flags \in Flags}
SourceStarts == {Start(<<>>, {}, File("ok", <<>>, inline, sources), NoFlags) :
                   inline \in {<<>>, <<"inline">>}, sources \in SourceLists}
BadStarts == {Start(<<>>, unparsed, File(kind, <<>>, <<>>, <<>>), flags) :
                unparsed \in {{}, {"DumpTraffic"}, {"UpstreamDialTimeoutMS"}},
                kind \in {"none", "missing", "unreadable", "invalid", "version"}, flags \in Flags}
MCStarts == LayerStarts \cup SourceStarts \cup BadStarts
===============================================================================
