------------------------------ MODULE ConfigLoad ------------------------------
(* Load (internal/config/config.go) and loadRulesFromSources                  *)
(* (internal/config/rulesources.go), with the flags that main hands to Load   *)
(* (cmd/jeltz/main.go): one start of the program, from its inputs to the      *)
(* configuration it runs with or to the refusal to start.                     *)
(*                                                                            *)
(* A layer (environment, file, flags) is a function from the settings that it *)
(* sets to their values.  A directory is the sequence of its path's elements: *)
(* an absolute one begins with "/", and <<>> is the empty string.  The files  *)
(* that hold rules are numbers, in the order of their names.                  *)
EXTENDS Integers, SequencesExt

CONSTANTS Starts,   \* what a start finds: environment, config file, flags, XDG directories
          Under,    \* the files below each directory
          Yaml,     \* the files named .yaml or .yml
          Parsed,   \* the rules of each file that parses
          Matches   \* what filepath.Glob returns for each pattern, in order

Dirs == {"BasePath", "DataDir"}
Bools == {"InsecureUpstream", "DumpTraffic"}
NonNegative == {"MaxUpstreamRequestBodyBytes", "UpstreamDialTimeoutMS", "UpstreamTLSHandshakeTimeoutMS",
                "UpstreamResponseHeaderTimeoutMS", "UpstreamIdleConnTimeoutMS"}
Texts == {"Listen", "LogLevel"}
Settings == Dirs \cup Bools \cup NonNegative \cup Texts \cup {"MaxBodyBytes"}

ASSUME StartsAssumption ==
  \A s \in Starts : /\ DOMAIN s.env \cup DOMAIN s.file.set \subseteq Settings \ {"LogLevel"}
                    /\ s.unparsed \subseteq (Bools \cup NonNegative \cup {"MaxBodyBytes"}) \ DOMAIN s.env
                    /\ "LogLevel" \in DOMAIN s.flags /\ DOMAIN s.flags \subseteq Settings
                    /\ s.file.kind \in {"none", "missing", "unreadable", "invalid", "version", "ok"}

\* The names of files and patterns are numbers, of rules strings.
ASSUME FilesAssumption ==
  /\ Yaml \subseteq Nat
  /\ \A directory \in DOMAIN Under : Under[directory] \subseteq Nat /\ IsFiniteSet(Under[directory])
  /\ \A s \in Starts : /\ s.file.rules \in Seq(STRING)
                       /\ s.file.sources \in Seq([glob : BOOLEAN, at : Nat])
                       /\ \A source \in ToSet(s.file.sources) : source.glob => Matches[source.at] \in Seq(Nat)

\* A rule is told from every other by the file and the place in which it stands.
ASSUME ParsedAssumption ==
  /\ \A file \in DOMAIN Parsed : Parsed[file] \in Seq(STRING) /\ IsInjective(Parsed[file])
  /\ \A f, g \in DOMAIN Parsed : f # g => ToSet(Parsed[f]) \cap ToSet(Parsed[g]) = {}

VARIABLES start,   \* the start in question
          pc,      \* where Load is
          cfg,     \* the settings of cfg
          rules,   \* cfg.Rules
          next,    \* the rule source that is being read
          paths,   \* its paths whose files are not collected
          files,   \* its files that have not been read
          seen,    \* the files that were read
          loaded   \* the rules that they hold

vars == <<start, pc, cfg, rules, next, paths, files, seen, loaded>>

Default ==
  [s \in Settings |-> CASE s \in Dirs -> <<>>
                        [] s \in Bools -> FALSE
                        [] s = "Listen" -> "127.0.0.1:8080"
                        [] s = "LogLevel" -> "info"
                        [] s = "MaxBodyBytes" -> 1048576
                        [] s = "MaxUpstreamRequestBodyBytes" -> 0
                        [] s = "UpstreamResponseHeaderTimeoutMS" -> 30000
                        [] s = "UpstreamIdleConnTimeoutMS" -> 60000
                        [] OTHER -> 10000]

Init == /\ start \in Starts
        /\ pc = "env" /\ cfg = Default
        /\ rules = <<>> /\ next = 1 /\ paths = <<>> /\ files = <<>> /\ seen = {} /\ loaded = <<>>

Sources == start.file.sources
Goto(label) == pc' = label
Refuse == Goto("refused") /\ UNCHANGED <<start, cfg, rules, next, paths, files, seen, loaded>>

\* The settings of a layer replace those of cfg.
Override(layer) == [s \in DOMAIN layer \cup DOMAIN cfg |-> IF s \in DOMAIN layer THEN layer[s] ELSE cfg[s]]

applyEnv == /\ pc = "env"
            /\ start.unparsed = {}
            /\ Goto("file") /\ cfg' = Override(start.env)
            /\ UNCHANGED <<start, rules, next, paths, files, seen, loaded>>

RefuseEnv == pc = "env" /\ start.unparsed # {} /\ Refuse

NoFile == /\ pc = "file" /\ start.file.kind = "none"
          /\ Goto("flags") /\ UNCHANGED <<start, cfg, rules, next, paths, files, seen, loaded>>

applyFileConfig == /\ pc = "file" /\ start.file.kind = "ok"
                   /\ Goto("sources")
                   /\ cfg' = Override(start.file.set)
                   /\ rules' = start.file.rules
                   /\ UNCHANGED <<start, next, paths, files, seen, loaded>>

RefuseFile == pc = "file" /\ start.file.kind \notin {"none", "ok"} /\ Refuse

-------------------------------------------------------------------------------
(* Rule sources: files, directories and patterns, one after the other.        *)

Paths(source) == IF source.glob THEN Matches[source.at] ELSE <<source.at>>

ResolveSource == /\ pc = "sources" /\ next <= Len(Sources)
                 /\ Paths(Sources[next]) # <<>>
                 /\ Goto("collect") /\ paths' = Paths(Sources[next])
                 /\ UNCHANGED <<start, cfg, rules, next, files, seen, loaded>>

Listable(path) == path \in DOMAIN Under \cup Yaml

\* Mutant: a directory gives all its files.
AnyFile(path) == IF path \in DOMAIN Under THEN Under[path] ELSE {path}
RuleFiles(path) == IF path \in DOMAIN Under THEN Under[path] \cap Yaml ELSE {path}

\* S in the order of the names.
Sorted(S) == {list \in [1..Cardinality(S) -> S] :
                ToSet(list) = S /\ \A j, k \in DOMAIN list : j < k => list[j] < list[k]}

collectRuleFiles == /\ pc = "collect" /\ paths # <<>> /\ Listable(Head(paths))
                    /\ \E list \in Sorted(RuleFiles(Head(paths))) : files' = files \o list
                    /\ paths' = Tail(paths)
                    /\ UNCHANGED <<start, pc, cfg, rules, next, seen, loaded>>

Collected == /\ pc = "collect" /\ paths = <<>>
             /\ Goto("read") /\ UNCHANGED <<start, cfg, rules, next, paths, files, seen, loaded>>

RefuseSource == /\ \/ pc = "sources" /\ next <= Len(Sources) /\ Paths(Sources[next]) = <<>>
                   \/ pc = "collect" /\ paths # <<>> /\ ~Listable(Head(paths))
                /\ Refuse

SkipSeen == /\ pc = "read" /\ files # <<>> /\ Head(files) \in seen
            /\ files' = Tail(files)
            /\ UNCHANGED <<start, pc, cfg, rules, next, paths, seen, loaded>>

parseRuleSourceFile == /\ pc = "read" /\ files # <<>> /\ Head(files) \in DOMAIN Parsed \ seen
                       /\ seen' = seen \cup {Head(files)}
                       /\ loaded' = loaded \o Parsed[Head(files)]
                       /\ files' = Tail(files)
                       /\ UNCHANGED <<start, pc, cfg, rules, next, paths>>

RefuseRules == /\ pc = "read" /\ files # <<>> /\ Head(files) \notin seen \cup DOMAIN Parsed
               /\ Refuse

NextSource == /\ pc = "read" /\ files = <<>>
              /\ Goto("sources") /\ next' = next + 1
              /\ UNCHANGED <<start, cfg, rules, paths, files, seen, loaded>>

\* Mutant: the imported rules come before the inline ones.
PrependLoaded == /\ pc = "sources" /\ next > Len(Sources)
                 /\ Goto("flags") /\ rules' = loaded \o rules
                 /\ UNCHANGED <<start, cfg, next, paths, files, seen, loaded>>

AppendLoaded == /\ pc = "sources" /\ next > Len(Sources)
                /\ Goto("flags") /\ rules' = rules \o loaded
                /\ UNCHANGED <<start, cfg, next, paths, files, seen, loaded>>

-------------------------------------------------------------------------------
(* Flags, validation and the directories.                                     *)

\* Mutant: a text flag counts as set even if it is empty, its default.
EmptyToo == DOMAIN start.flags \ Dirs
\* The flags that Load looks at.
Flagged == {s \in DOMAIN start.flags \ Dirs : s \in Texts => start.flags[s] # ""}

applyFlags == /\ pc = "flags"
              /\ Goto("validate") /\ cfg' = Override(Restrict(start.flags, Flagged))
              /\ UNCHANGED <<start, rules, next, paths, files, seen, loaded>>

\* Mutant: 0, which means no limit, is refused too.
NotPositive == \E s \in NonNegative : cfg[s] <= 0
Negative == \E s \in NonNegative : cfg[s] < 0
RefuseNegative == pc = "validate" /\ Negative /\ Refuse

IsAbs(dir) == dir # <<>> /\ Head(dir) = "/"
JoinXdg(xdg, dir) == IF IsAbs(dir) THEN dir ELSE xdg \o SelectSeq(dir, LAMBDA e : e # ".")
resolveBasePath(dir) == JoinXdg(start.xdgCfg, dir)
resolveDataDir(dir) == JoinXdg(start.xdgData, dir)

Resolve == /\ pc = "validate" /\ ~Negative
           /\ Goto("done")
           /\ cfg' = [cfg EXCEPT !["BasePath"] = resolveBasePath(@), !["DataDir"] = resolveDataDir(@)]
           /\ UNCHANGED <<start, rules, next, paths, files, seen, loaded>>

Finished == pc \in {"done", "refused"} /\ UNCHANGED vars

FromFile == applyEnv \/ RefuseEnv \/ NoFile \/ applyFileConfig \/ RefuseFile
FromSources == \/ ResolveSource \/ collectRuleFiles \/ Collected \/ RefuseSource \/ SkipSeen \/ parseRuleSourceFile
               \/ RefuseRules \/ NextSource \/ AppendLoaded
Next == FromFile \/ FromSources \/ applyFlags \/ RefuseNegative \/ Resolve \/ Finished
Spec == Init /\ [][Next]_vars

-------------------------------------------------------------------------------
(* Properties.                                                                *)

\* Every setting always has a value, and only files that parse were read.
TypeOK == /\ DOMAIN cfg = Settings
          /\ pc \in {"env", "file", "sources", "collect", "read", "flags", "validate", "done", "refused"}
          /\ next \in 1 .. Len(Sources) + 1
          /\ seen \subseteq DOMAIN Parsed /\ ToSet(files) \subseteq Yaml
          /\ (pc \in {"collect", "read"} => next <= Len(Sources))

\* The value of setting s in the first of the layers that sets it.
First(s, layers) == LET k == SelectInSeq(layers, LAMBDA layer : s \in DOMAIN layer)
                    IN IF k = 0 THEN Default[s] ELSE layers[k][s]
Empty(s) == (s \in Texts /\ start.flags[s] = "") \/ (s \in Dirs /\ start.flags[s] = <<>>)
FlagLayer == [s \in {f \in DOMAIN start.flags : ~Empty(f)} |-> start.flags[s]]
FileLayer == IF start.file.kind = "ok" THEN start.file.set ELSE <<>>

\* The settings other than the directories come from the flags before the file,
\* from the file before the environment, from the environment before the
\* defaults; a layer that does not mention a setting never resets it.
Precedence == pc = "done" => /\ \A s \in Settings \ Dirs :
                                   cfg[s] = First(s, <<FlagLayer, FileLayer, start.env>>)
                             /\ cfg.BasePath = resolveBasePath(First("BasePath", <<FileLayer, start.env>>))
                             /\ cfg.DataDir = resolveDataDir(First("DataDir", <<FileLayer, start.env>>))

\* What README.md says of every flag, -base-path and -data-dir among them.
FlagsWin == pc = "done" =>
  /\ cfg.BasePath = resolveBasePath(First("BasePath", <<FlagLayer, FileLayer, start.env>>))
  /\ cfg.DataDir = resolveDataDir(First("DataDir", <<FlagLayer, FileLayer, start.env>>))

\* A rule source is good if it stands for some path, and each of its paths is a
\* directory or a YAML file.
Resolves(source) == Paths(source) # <<>> /\ \A path \in ToSet(Paths(source)) : Listable(path)

\* The files that a rule source stands for, and the first source that mentions one.
FilesOf(source) == UNION {IF path \in DOMAIN Under THEN Under[path] \cap Yaml ELSE {path} : path \in ToSet(Paths(source))}
Mentioned == UNION {FilesOf(Sources[k]) : k \in DOMAIN Sources}
FirstMention(file) == CHOOSE k \in DOMAIN Sources : /\ file \in FilesOf(Sources[k])
                                                    /\ \A j \in 1 .. k - 1 : file \notin FilesOf(Sources[j])
FileOf(rule) == CHOOSE file \in DOMAIN Parsed : rule \in ToSet(Parsed[file])

\* The rules of a configuration are the inline ones, then every rule of every
\* file that a source mentions, once however often the file is mentioned, in
\* the order of the sources: rules are first-match-wins, so order is meaning.
RulesInOrder == pc = "done" /\ start.file.kind = "ok" =>
  LET inline == Len(start.file.rules)
      imported == SubSeq(rules, inline + 1, Len(rules))
  IN /\ SubSeq(rules, 1, inline) = start.file.rules
     /\ IsInjective(imported)
     /\ ToSet(imported) = UNION {ToSet(Parsed[file]) : file \in Mentioned}
     /\ \A j, k \in DOMAIN imported :
          j < k => FirstMention(FileOf(imported[j])) <= FirstMention(FileOf(imported[k]))

\* A start is refused exactly when an input is bad: a value in the environment
\* that does not parse, even if a flag overrides it; the file; a rule source or
\* a rule file; or a negative limit that no later layer replaces.
Bad == \/ start.unparsed # {}
       \/ start.file.kind \notin {"none", "ok"}
       \/ /\ start.file.kind = "ok"
          /\ \/ \E k \in DOMAIN Sources : ~Resolves(Sources[k])
             \/ ~(Mentioned \subseteq DOMAIN Parsed)
       \/ \E s \in NonNegative : First(s, <<FlagLayer, FileLayer, start.env>>) < 0
RefusedOnlyBad == (pc = "refused" => Bad) /\ (pc = "done" => ~Bad)
===============================================================================
