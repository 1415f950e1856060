-------------------------- MODULE ConfigLoad_proofs ---------------------------
(* That Load gives every setting the value of the layer that says it last,     *)
(* refuses the bad inputs and no others, and loads each rule of each file of   *)
(* the rule sources once and in their order, whatever the start, the files and *)
(* the rules in them are.                                                      *)
EXTENDS ConfigLoad, SequenceTheorems, FiniteSetTheorems, TLAPS

-------------------------------------------------------------------------------
(* Sequences.                                                                 *)

\* The elements of a concatenation.
LEMMA SetOfConcat ==
  ASSUME NEW S, NEW s \in Seq(S), NEW t \in Seq(S)
  PROVE  s \o t \in Seq(S) /\ ToSet(s \o t) = ToSet(s) \cup ToSet(t)
<1>1. /\ s \o t \in Seq(S) /\ Len(s \o t) = Len(s) + Len(t) /\ Len(s) \in Nat /\ Len(t) \in Nat
      /\ DOMAIN s = 1..Len(s) /\ DOMAIN t = 1..Len(t) /\ DOMAIN (s \o t) = 1..Len(s) + Len(t)
      /\ \A n \in 1..Len(s) + Len(t) : (s \o t)[n] = IF n <= Len(s) THEN s[n] ELSE t[n - Len(s)]
  BY ConcatProperties
<1>2. ToSet(s \o t) \subseteq ToSet(s) \cup ToSet(t)
  <2> SUFFICES ASSUME NEW n \in 1..Len(s) + Len(t)
               PROVE  (s \o t)[n] \in ToSet(s) \cup ToSet(t)
    BY <1>1 DEF ToSet
  <2>1. CASE n <= Len(s)
    BY <1>1, <2>1 DEF ToSet
  <2>2. CASE n > Len(s)
    <3>1. n - Len(s) \in 1..Len(t)
      BY <1>1, <2>2
    <3> QED BY <1>1, <2>2, <3>1 DEF ToSet
  <2> QED BY <1>1, <2>1, <2>2
<1>3. \A n \in 1..Len(s) : s[n] \in ToSet(s \o t)
  BY <1>1 DEF ToSet
<1>4. \A n \in 1..Len(t) : t[n] \in ToSet(s \o t)
  <2> SUFFICES ASSUME NEW n \in 1..Len(t) PROVE t[n] \in ToSet(s \o t)
    OBVIOUS
  <2>1. n + Len(s) \in 1..Len(s) + Len(t) /\ (s \o t)[n + Len(s)] = t[n]
    BY <1>1
  <2> QED BY <1>1, <2>1 DEF ToSet
<1> QED BY <1>1, <1>2, <1>3, <1>4 DEF ToSet

\* The elements of a sequence are its head and those of its tail.
LEMMA SetOfTail ==
  ASSUME NEW S, NEW s \in Seq(S), s # <<>>
  PROVE  Head(s) \in S /\ Tail(s) \in Seq(S) /\ ToSet(s) = {Head(s)} \cup ToSet(Tail(s))
<1>1. /\ Head(s) \in S /\ Head(s) = s[1] /\ Tail(s) \in Seq(S) /\ Len(s) \in Nat \ {0}
      /\ Len(Tail(s)) = Len(s) - 1 /\ \A n \in 1..Len(Tail(s)) : Tail(s)[n] = s[n + 1]
      /\ DOMAIN s = 1..Len(s) /\ DOMAIN Tail(s) = 1..Len(s) - 1
  BY HeadTailProperties, EmptySeq
<1>2. ToSet(s) \subseteq {Head(s)} \cup ToSet(Tail(s))
  <2> SUFFICES ASSUME NEW n \in 1..Len(s), n # 1 PROVE s[n] \in ToSet(Tail(s))
    BY <1>1 DEF ToSet
  <2>1. n - 1 \in 1..Len(s) - 1 /\ Tail(s)[n - 1] = s[n]
    BY <1>1
  <2> QED BY <1>1, <2>1 DEF ToSet
<1>3. {Head(s)} \cup ToSet(Tail(s)) \subseteq ToSet(s)
  BY <1>1 DEF ToSet
<1> QED BY <1>1, <1>2, <1>3

\* Nothing is in the empty sequence.
LEMMA SetOfEmpty == ToSet(<<>>) = {}
BY DEF ToSet

\* The elements of a sequence of S are in S.
LEMMA SetInRange == ASSUME NEW S, NEW s \in Seq(S) PROVE ToSet(s) \subseteq S
BY DEF ToSet

\* Only finite sets have the list of their elements.
LEMMA SortedLists ==
  ASSUME NEW S, S \subseteq Nat, IsFiniteSet(S), NEW list \in Sorted(S)
  PROVE  list \in Seq(Nat) /\ ToSet(list) = S
<1>1. Cardinality(S) \in Nat
  BY FS_CardinalityType
<1>2. list \in [1..Cardinality(S) -> S] /\ ToSet(list) = S
  BY DEF Sorted
<1>3. list \in [1..Cardinality(S) -> Nat]
  BY <1>2
<1> QED BY <1>1, <1>2, <1>3, SeqDef

-------------------------------------------------------------------------------
(* Rule sources.                                                              *)

\* What the rules of the files in F are, with no rule twice and in the order of
\* the sources.
ListsRulesOf(list, F) ==
  /\ list \in Seq(STRING)
  /\ IsInjective(list)
  /\ ToSet(list) = UNION {ToSet(Parsed[file]) : file \in F}
  /\ \A j, k \in DOMAIN list : j < k => FirstMention(FileOf(list[j])) <= FirstMention(FileOf(list[k]))

FilesUpTo(n) == UNION {FilesOf(Sources[k]) : k \in 1..n}
ResolvedUpTo(n) == \A k \in 1..n : Resolves(Sources[k])

\* Where Load is, and what it has read so far.
Reading == {"sources", "collect", "read"}
Beyond == {"flags", "validate", "done"}

Types == /\ start \in Starts
         /\ pc \in {"env", "file", "sources", "collect", "read", "flags", "validate", "done", "refused"}
         /\ next \in 1 .. Len(Sources) + 1
         /\ rules \in Seq(STRING) /\ paths \in Seq(Nat) /\ files \in Seq(Nat) /\ loaded \in Seq(STRING)
         /\ seen \subseteq DOMAIN Parsed /\ ToSet(files) \subseteq Yaml

Fresh == /\ (pc \in {"env", "file"} =>
               next = 1 /\ paths = <<>> /\ files = <<>> /\ seen = {} /\ loaded = <<>>)
         /\ (pc \in Reading => start.file.kind = "ok" /\ rules = start.file.rules)
         /\ (pc \in Beyond => start.file.kind \in {"none", "ok"})

\* The files seen are those of the sources before the current one, with those
\* of it that are read; the others of it are in files, or below one of paths.
Progress ==
  /\ (pc = "sources" => /\ paths = <<>> /\ files = <<>>
                        /\ ResolvedUpTo(next - 1) /\ seen = FilesUpTo(next - 1))
  /\ (pc = "collect" =>
        /\ next <= Len(Sources)
        /\ ResolvedUpTo(next - 1) /\ seen = FilesUpTo(next - 1)
        /\ Paths(Sources[next]) # <<>>
        /\ ToSet(paths) \subseteq ToSet(Paths(Sources[next]))
        /\ \A path \in ToSet(Paths(Sources[next])) : path \in ToSet(paths) \/ Listable(path)
        /\ ToSet(files) \cup UNION {RuleFiles(path) : path \in ToSet(paths)} = FilesOf(Sources[next]))
  /\ (pc = "read" =>
        /\ next <= Len(Sources) /\ paths = <<>>
        /\ ResolvedUpTo(next)
        /\ FilesUpTo(next - 1) \subseteq seen
        /\ seen \cup ToSet(files) = FilesUpTo(next)
        /\ ToSet(files) \subseteq FilesOf(Sources[next]))
  /\ (pc \in Beyond /\ start.file.kind = "ok" =>
        /\ ResolvedUpTo(Len(Sources)) /\ seen = FilesUpTo(Len(Sources))
        /\ rules = start.file.rules \o loaded)

\* A file that was seen is not first mentioned by a source that comes later.
Listed == /\ ListsRulesOf(loaded, seen)
          /\ \A file \in seen : FirstMention(file) \in 1..next

SourceInv == Types /\ Fresh /\ Progress /\ Listed

\* The sources of a start, and the paths that they stand for.
LEMMA StartSources ==
  ASSUME Types
  PROVE  /\ start.file.rules \in Seq(STRING) /\ Len(Sources) \in Nat /\ DOMAIN Sources = 1..Len(Sources)
         /\ next \in Nat
         /\ \A k \in 1..Len(Sources) : Paths(Sources[k]) \in Seq(Nat)
<1>1. Sources \in Seq([glob : BOOLEAN, at : Nat]) /\ start.file.rules \in Seq(STRING)
  BY FilesAssumption DEF Types, Sources
<1>2. Len(Sources) \in Nat /\ DOMAIN Sources = 1..Len(Sources)
  BY <1>1
<1>3. ASSUME NEW k \in 1..Len(Sources) PROVE Paths(Sources[k]) \in Seq(Nat)
  <2>1. Sources[k] \in [glob : BOOLEAN, at : Nat]
    BY <1>1, <1>2, ElementOfSeq
  <2>2. Sources[k] \in ToSet(Sources)
    BY <1>2 DEF ToSet
  <2>3. Sources[k].glob => Matches[Sources[k].at] \in Seq(Nat)
    BY <2>2, FilesAssumption DEF Types, Sources
  <2>4. Sources[k].at \in Nat
    BY <2>1
  <2> QED BY <2>3, <2>4 DEF Paths
<1> QED BY <1>1, <1>2, <1>3 DEF Types

\* One source more, one source's files more.
LEMMA OneSourceMore ==
  ASSUME NEW n \in Nat \ {0}
  PROVE  /\ FilesUpTo(n) = FilesUpTo(n - 1) \cup FilesOf(Sources[n])
         /\ ResolvedUpTo(n) <=> ResolvedUpTo(n - 1) /\ Resolves(Sources[n])
<1>1. 1..n = 1..(n - 1) \cup {n}
  OBVIOUS
<1> QED BY <1>1 DEF FilesUpTo, ResolvedUpTo

\* FilesOf in the terms of the step that collects them.
LEMMA FilesOfPaths ==
  ASSUME NEW source
  PROVE  FilesOf(source) = UNION {RuleFiles(path) : path \in ToSet(Paths(source))}
BY DEF FilesOf, RuleFiles

\* The files that a path gives are a finite set of YAML files.
LEMMA FilesOfPath ==
  ASSUME NEW path \in Nat, Listable(path)
  PROVE  RuleFiles(path) \subseteq Yaml /\ RuleFiles(path) \subseteq Nat /\ IsFiniteSet(RuleFiles(path))
<1>1. CASE path \in DOMAIN Under
  <2>1. IsFiniteSet(Under[path]) /\ Under[path] \subseteq Nat
    BY <1>1, FilesAssumption
  <2>2. IsFiniteSet(Under[path] \cap Yaml)
    BY <2>1, FS_Intersection
  <2> QED BY <1>1, <2>1, <2>2, FilesAssumption DEF RuleFiles
<1>2. CASE path \notin DOMAIN Under
  <2>1. IsFiniteSet({path})
    BY FS_Singleton
  <2> QED BY <1>2, <2>1, FilesAssumption DEF RuleFiles, Listable
<1> QED BY <1>1, <1>2

\* Load begins with nothing collected.
LEMMA SourceInit == Init => SourceInv
<1> SUFFICES ASSUME Init PROVE SourceInv
  OBVIOUS
<1>1. start \in Starts /\ pc = "env" /\ rules = <<>> /\ next = 1 /\ paths = <<>> /\ files = <<>> /\ seen = {} /\ loaded = <<>>
  BY DEF Init
<1>2. Len(Sources) \in Nat
  BY <1>1, FilesAssumption DEF Sources
<1>3. Types
  BY <1>1, <1>2, SetOfEmpty DEF Types
<1>4. Fresh /\ Progress
  BY <1>1 DEF Fresh, Progress, Reading, Beyond
<1>5. Listed
  BY <1>1, SetOfEmpty DEF Listed, ListsRulesOf, IsInjective
<1> QED BY <1>3, <1>4, <1>5 DEF SourceInv

\* The rules of the start, and what was loaded, stay as they are.
LEMMA SameListed ==
  ASSUME SourceInv, UNCHANGED <<start, seen, loaded>>, next' \in {next, next + 1}
  PROVE  Listed'
<1>1. next \in Nat
  BY StartSources DEF SourceInv
<1>2. \A file \in seen : FirstMention(file) \in 1..next'
  BY <1>1 DEF SourceInv, Listed
<1> QED BY <1>2 DEF SourceInv, Listed, ListsRulesOf, FirstMention, Sources

\* The layers before the sources collect nothing.
LEMMA FileStep == ASSUME SourceInv, FromFile, ~Refuse PROVE SourceInv'
<1>1. UNCHANGED <<start, next, paths, files, seen, loaded>>
  BY DEF FromFile, applyEnv, NoFile, applyFileConfig, RefuseEnv, RefuseFile
<1>2. Listed'
  BY <1>1, SameListed
<1>3. CASE applyEnv \/ NoFile
  BY <1>1, <1>2, <1>3 DEF SourceInv, Types, Fresh, Progress, Reading, Beyond, Sources, Goto, applyEnv, NoFile
<1>4. CASE applyFileConfig
  <2>1. /\ pc = "file" /\ pc' = "sources" /\ start.file.kind = "ok" /\ rules' = start.file.rules
        /\ next = 1 /\ paths = <<>> /\ files = <<>> /\ seen = {}
    BY <1>4 DEF applyFileConfig, Goto, SourceInv, Fresh
  <2>2. Types' /\ Fresh'
    BY <1>1, <2>1, StartSources DEF SourceInv, Types, Fresh, Reading, Beyond, Sources
  <2>3. Progress'
    BY <1>1, <2>1 DEF Progress, FilesUpTo, ResolvedUpTo, Beyond
  <2> QED BY <1>2, <2>2, <2>3 DEF SourceInv
<1> QED BY <1>3, <1>4 DEF FromFile, RefuseEnv, RefuseFile

\* A source is taken up with its matches still to be looked at.
LEMMA ResolveSourceStep == ASSUME SourceInv, ResolveSource PROVE SourceInv'
<1>1. /\ pc = "sources" /\ pc' = "collect" /\ next <= Len(Sources) /\ paths' = Paths(Sources[next])
      /\ Paths(Sources[next]) # <<>> /\ files = <<>>
      /\ UNCHANGED <<start, cfg, rules, next, files, seen, loaded>>
  BY DEF ResolveSource, Goto, SourceInv, Progress
<1>2. Listed'
  BY <1>1, SameListed
<1>3. next \in 1..Len(Sources) /\ paths' \in Seq(Nat)
  BY <1>1, StartSources DEF SourceInv, Types
<1>4. Types' /\ Fresh'
  BY <1>1, <1>3 DEF SourceInv, Types, Fresh, Reading, Beyond, Sources
<1>5. ToSet(files) \cup UNION {RuleFiles(path) : path \in ToSet(paths')} = FilesOf(Sources[next])
  BY <1>1, SetOfEmpty, FilesOfPaths
<1>6. Progress'
  BY <1>1, <1>3, <1>5 DEF SourceInv, Progress, Beyond, FilesUpTo, ResolvedUpTo, Sources
<1> QED BY <1>2, <1>4, <1>6 DEF SourceInv

\* A match is collected if it is a YAML file, and once.
LEMMA CollectStep == ASSUME SourceInv, collectRuleFiles PROVE SourceInv'
<1>1. /\ pc = "collect" /\ paths # <<>> /\ Listable(Head(paths)) /\ paths' = Tail(paths)
      /\ UNCHANGED <<start, pc, cfg, rules, next, seen, loaded>>
  BY DEF collectRuleFiles
<1> DEFINE head == Head(paths)
<1>2. PICK list \in Sorted(RuleFiles(head)) : files' = files \o list
  BY DEF collectRuleFiles
<1>3. /\ head \in Nat /\ paths' \in Seq(Nat) /\ ToSet(paths) = {head} \cup ToSet(paths')
  BY <1>1, SetOfTail DEF SourceInv, Types
<1>4. list \in Seq(Nat) /\ ToSet(list) = RuleFiles(head) /\ RuleFiles(head) \subseteq Yaml
  BY <1>1, <1>2, <1>3, FilesOfPath, SortedLists
<1>5. files' \in Seq(Nat) /\ ToSet(files') = ToSet(files) \cup RuleFiles(head)
  BY <1>2, <1>4, SetOfConcat DEF SourceInv, Types
<1>6. Listed'
  BY <1>1, SameListed
<1>7. Types' /\ Fresh'
  BY <1>1, <1>3, <1>4, <1>5 DEF SourceInv, Types, Fresh, Reading, Beyond, Sources
<1>8. /\ ToSet(paths') \subseteq ToSet(Paths(Sources[next]))
      /\ \A path \in ToSet(Paths(Sources[next])) : path \in ToSet(paths') \/ Listable(path)
      /\ ToSet(files') \cup UNION {RuleFiles(path) : path \in ToSet(paths')} = FilesOf(Sources[next])
  <2> HIDE DEF head
  <2>1. UNION {RuleFiles(path) : path \in ToSet(paths)}
          = RuleFiles(head) \cup UNION {RuleFiles(path) : path \in ToSet(paths')}
    BY <1>3
  <2>2. Listable(head)
    BY <1>1 DEF head
  <2> QED BY <1>1, <1>3, <1>5, <2>1, <2>2 DEF SourceInv, Progress
<1>9. Progress'
  BY <1>1, <1>8 DEF SourceInv, Progress, Beyond, FilesUpTo, ResolvedUpTo, Sources
<1> QED BY <1>6, <1>7, <1>9 DEF SourceInv

\* The matches of a source are exhausted.
LEMMA CollectedStep == ASSUME SourceInv, Collected PROVE SourceInv'
<1>1. /\ pc = "collect" /\ pc' = "read" /\ paths = <<>>
      /\ UNCHANGED <<start, cfg, rules, next, paths, files, seen, loaded>>
  BY DEF Collected, Goto
<1>2. Listed'
  BY <1>1, SameListed
<1>3. Types' /\ Fresh'
  BY <1>1 DEF SourceInv, Types, Fresh, Reading, Beyond, Sources
<1>4. /\ next <= Len(Sources) /\ ResolvedUpTo(next - 1) /\ seen = FilesUpTo(next - 1)
      /\ Resolves(Sources[next]) /\ ToSet(files) = FilesOf(Sources[next])
  <2>1. ToSet(paths) = {}
    BY <1>1, SetOfEmpty
  <2>2. /\ Paths(Sources[next]) # <<>>
        /\ \A path \in ToSet(Paths(Sources[next])) : path \in ToSet(paths) \/ Listable(path)
        /\ ToSet(files) \cup UNION {RuleFiles(path) : path \in ToSet(paths)} = FilesOf(Sources[next])
        /\ next <= Len(Sources) /\ ResolvedUpTo(next - 1) /\ seen = FilesUpTo(next - 1)
    BY <1>1 DEF SourceInv, Progress
  <2> QED BY <2>1, <2>2 DEF Resolves
<1>5. next \in Nat \ {0}
  BY StartSources DEF SourceInv, Types
<1>6. ResolvedUpTo(next) /\ FilesUpTo(next) = seen \cup ToSet(files)
  BY <1>4, <1>5, OneSourceMore
<1>7. Progress'
  BY <1>1, <1>4, <1>6 DEF SourceInv, Progress, Beyond, FilesUpTo, ResolvedUpTo, Sources
<1> QED BY <1>2, <1>3, <1>7 DEF SourceInv

\* A file that was loaded already is passed over.
LEMMA SkipStep == ASSUME SourceInv, SkipSeen PROVE SourceInv'
<1>1. /\ pc = "read" /\ files # <<>> /\ Head(files) \in seen /\ files' = Tail(files)
      /\ UNCHANGED <<start, pc, cfg, rules, next, paths, seen, loaded>>
  BY DEF SkipSeen
<1>2. Listed'
  BY <1>1, SameListed
<1>3. files' \in Seq(Nat) /\ ToSet(files) = {Head(files)} \cup ToSet(files')
  BY <1>1, SetOfTail DEF SourceInv, Types
<1>4. Types' /\ Fresh'
  BY <1>1, <1>3 DEF SourceInv, Types, Fresh, Reading, Beyond, Sources
<1>5. seen \cup ToSet(files') = seen \cup ToSet(files) /\ ToSet(files') \subseteq ToSet(files)
  BY <1>1, <1>3
<1>6. Progress'
  BY <1>1, <1>5 DEF SourceInv, Progress, Beyond, FilesUpTo, ResolvedUpTo, Sources
<1> QED BY <1>2, <1>4, <1>6 DEF SourceInv

\* All files of a source are loaded.
LEMMA NextSourceStep == ASSUME SourceInv, NextSource PROVE SourceInv'
<1>1. /\ pc = "read" /\ files = <<>> /\ pc' = "sources" /\ next' = next + 1
      /\ UNCHANGED <<start, cfg, rules, paths, files, seen, loaded>>
  BY DEF NextSource, Goto
<1>2. Listed'
  BY <1>1, SameListed
<1>3. /\ next \in 1..Len(Sources) /\ Len(Sources) \in Nat /\ next' - 1 = next /\ paths = <<>>
      /\ ResolvedUpTo(next) /\ seen = FilesUpTo(next)
  <2>1. ToSet(files) = {}
    BY <1>1, SetOfEmpty
  <2>2. next <= Len(Sources) /\ paths = <<>> /\ ResolvedUpTo(next) /\ seen \cup ToSet(files) = FilesUpTo(next)
    BY <1>1 DEF SourceInv, Progress
  <2>3. seen = FilesUpTo(next)
    BY <2>1, <2>2
  <2>4. next \in 1..Len(Sources) /\ Len(Sources) \in Nat
    BY <2>2, StartSources DEF SourceInv, Types
  <2> QED BY <1>1, <2>2, <2>3, <2>4
<1>4. Types' /\ Fresh'
  BY <1>1, <1>3 DEF SourceInv, Types, Fresh, Reading, Beyond, Sources
<1>5. Progress'
  BY <1>1, <1>3 DEF SourceInv, Progress, Beyond, FilesUpTo, ResolvedUpTo, Sources
<1> QED BY <1>2, <1>4, <1>5 DEF SourceInv

\* The rules of a file go behind those that are there.
LEMMA AppendStep == ASSUME SourceInv, AppendLoaded PROVE SourceInv'
<1>1. /\ pc = "sources" /\ next > Len(Sources) /\ pc' = "flags" /\ rules' = rules \o loaded
      /\ UNCHANGED <<start, cfg, next, paths, files, seen, loaded>>
  BY DEF AppendLoaded, Goto
<1>2. Listed'
  BY <1>1, SameListed
<1>3. /\ next - 1 = Len(Sources) /\ ResolvedUpTo(next - 1) /\ seen = FilesUpTo(next - 1)
      /\ start.file.kind = "ok" /\ rules = start.file.rules
  BY <1>1, StartSources DEF SourceInv, Types, Progress, Fresh, Reading
<1>4. rules' \in Seq(STRING)
  BY <1>1 DEF SourceInv, Types
<1>5. Types' /\ Fresh'
  BY <1>1, <1>3, <1>4 DEF SourceInv, Types, Fresh, Reading, Beyond, Sources
<1>6. Progress'
  BY <1>1, <1>3 DEF SourceInv, Progress, Beyond, FilesUpTo, ResolvedUpTo, Sources
<1> QED BY <1>2, <1>5, <1>6 DEF SourceInv

\* Refusals and the steps after the file leave the sources and the rules alone.
LEMMA EndStep ==
  ASSUME SourceInv, applyFlags \/ Resolve \/ Refuse \/ UNCHANGED vars
  PROVE  SourceInv'
<1>1. UNCHANGED <<start, rules, next, paths, files, seen, loaded>>
  BY DEF applyFlags, Resolve, Refuse, vars
<1>2. pc' = pc \/ pc' = "refused" \/ (pc \in Beyond /\ pc' \in Beyond)
  BY DEF applyFlags, Resolve, Refuse, vars, Goto, Beyond
<1>3. Listed'
  BY <1>1, SameListed
<1>4. Types' /\ Fresh'
  BY <1>1, <1>2 DEF SourceInv, Types, Fresh, Reading, Beyond, Sources
<1>5. Progress'
  BY <1>1, <1>2 DEF SourceInv, Progress, Beyond, FilesUpTo, ResolvedUpTo, Sources
<1> QED BY <1>3, <1>4, <1>5 DEF SourceInv

\* A rule is in one file.
LEMMA FileOfRule ==
  ASSUME NEW file \in DOMAIN Parsed, NEW rule \in ToSet(Parsed[file])
  PROVE  FileOf(rule) = file
BY ParsedAssumption DEF FileOf

\* A file that no source before the n-th mentions is first mentioned there.
LEMMA FirstMentionIs ==
  ASSUME NEW n \in Nat \ {0}, n \in DOMAIN Sources, NEW file, DOMAIN Sources \subseteq Nat \ {0},
         file \in FilesOf(Sources[n]), file \notin FilesUpTo(n - 1)
  PROVE  FirstMention(file) = n
<1>1. \A j \in 1 .. n - 1 : file \notin FilesOf(Sources[j])
  BY DEF FilesUpTo
<1>2. ASSUME NEW k \in DOMAIN Sources, file \in FilesOf(Sources[k]),
             \A j \in 1 .. k - 1 : file \notin FilesOf(Sources[j])
      PROVE  k = n
  BY <1>1, <1>2
<1> QED BY <1>1, <1>2 DEF FirstMention

\* The rules of one file more, behind those of the others.
LEMMA ListMore ==
  ASSUME NEW list, NEW F \in SUBSET DOMAIN Parsed, ListsRulesOf(list, F), NEW file \in DOMAIN Parsed \ F,
         FirstMention(file) \in Nat,
         \A other \in F : FirstMention(other) \in Nat /\ FirstMention(other) <= FirstMention(file)
  PROVE  ListsRulesOf(list \o Parsed[file], F \cup {file})
<1> DEFINE more == Parsed[file]
           both == list \o more
<1>1. list \in Seq(STRING) /\ more \in Seq(STRING) /\ IsInjective(list) /\ IsInjective(more)
  BY ParsedAssumption DEF ListsRulesOf
<1> HIDE DEF more
<1>2. both \in Seq(STRING) /\ ToSet(both) = ToSet(list) \cup ToSet(more)
  BY <1>1, SetOfConcat
<1>3. ToSet(both) = UNION {ToSet(Parsed[other]) : other \in F \cup {file}}
  BY <1>2 DEF ListsRulesOf, more
<1>4. \A rule \in ToSet(more) : FileOf(rule) = file
  BY FileOfRule DEF more
<1>5. \A rule \in ToSet(list) : FileOf(rule) \in F
  <2> SUFFICES ASSUME NEW other \in F, NEW rule \in ToSet(Parsed[other]) PROVE FileOf(rule) \in F
    BY DEF ListsRulesOf
  <2> QED BY FileOfRule
<1>6. /\ Len(list) \in Nat /\ Len(more) \in Nat /\ DOMAIN list = 1..Len(list)
      /\ DOMAIN more = 1..Len(more) /\ DOMAIN both = 1..Len(list) + Len(more)
      /\ \A n \in 1..Len(list) : both[n] = list[n]
      /\ \A n \in 1..Len(list) + Len(more) : n > Len(list) => both[n] = more[n - Len(list)] /\ n - Len(list) \in 1..Len(more)
  BY <1>1, ConcatProperties
<1> HIDE DEF both
<1>7. \A n \in DOMAIN both : \/ n \in DOMAIN list /\ both[n] = list[n] /\ both[n] \in ToSet(list)
                             \/ /\ n \notin DOMAIN list /\ n - Len(list) \in DOMAIN more
                                /\ both[n] = more[n - Len(list)] /\ both[n] \in ToSet(more)
  BY <1>6 DEF ToSet
<1>8. IsInjective(both)
  <2> SUFFICES ASSUME NEW j \in DOMAIN both, NEW k \in DOMAIN both, both[j] = both[k] PROVE j = k
    BY DEF IsInjective
  <2>1. j \in DOMAIN list <=> k \in DOMAIN list
    BY <1>4, <1>5, <1>7
  <2>2. CASE j \in DOMAIN list
    BY <1>1, <1>7, <2>1, <2>2 DEF IsInjective
  <2>3. CASE j \notin DOMAIN list
    <3>1. j - Len(list) = k - Len(list)
      BY <1>1, <1>7, <2>1, <2>3 DEF IsInjective
    <3> QED BY <1>6, <3>1
  <2> QED BY <2>2, <2>3
<1>9. ASSUME NEW j \in DOMAIN both, NEW k \in DOMAIN both, j < k
      PROVE  FirstMention(FileOf(both[j])) <= FirstMention(FileOf(both[k]))
  <2>1. CASE k \in DOMAIN list
    <3>1. j \in DOMAIN list
      BY <1>6, <1>9, <2>1
    <3> QED BY <1>7, <1>9, <2>1, <3>1 DEF ListsRulesOf
  <2>2. CASE k \notin DOMAIN list
    <3>1. FileOf(both[k]) = file
      BY <1>4, <1>7, <2>2
    <3>2. FileOf(both[j]) \in F \cup {file}
      BY <1>4, <1>5, <1>7
    <3> QED BY <3>1, <3>2
  <2> QED BY <2>1, <2>2
<1> QED BY <1>2, <1>3, <1>8, <1>9 DEF ListsRulesOf, both, more

\* A file that parses is loaded where it is first mentioned.
LEMMA ParseStep == ASSUME SourceInv, parseRuleSourceFile PROVE SourceInv'
<1> DEFINE head == Head(files)
<1>1. /\ pc = "read" /\ files # <<>> /\ head \in DOMAIN Parsed \ seen /\ files' = Tail(files)
      /\ seen' = seen \cup {head} /\ loaded' = loaded \o Parsed[head]
      /\ UNCHANGED <<start, pc, cfg, rules, next, paths>>
  BY DEF parseRuleSourceFile
<1>2. files' \in Seq(Nat) /\ ToSet(files) = {head} \cup ToSet(files')
  BY <1>1, SetOfTail DEF SourceInv, Types
<1> HIDE DEF head
<1>3. /\ next \in Nat \ {0} /\ DOMAIN Sources \subseteq Nat \ {0} /\ next \in DOMAIN Sources
      /\ head \in FilesOf(Sources[next]) /\ head \notin FilesUpTo(next - 1)
  <2>1. /\ next <= Len(Sources) /\ FilesUpTo(next - 1) \subseteq seen
        /\ ToSet(files) \subseteq FilesOf(Sources[next])
    BY <1>1 DEF SourceInv, Progress
  <2>2. /\ next \in 1..Len(Sources) /\ DOMAIN Sources = 1..Len(Sources)
        /\ next \in Nat \ {0} /\ 1..Len(Sources) \subseteq Nat \ {0}
    BY <2>1, StartSources DEF SourceInv, Types
  <2> QED BY <1>1, <1>2, <2>1, <2>2
<1>4. FirstMention(head) = next
  BY <1>3, FirstMentionIs
<1>5. \A file \in seen : FirstMention(file) \in 1..next
  BY DEF SourceInv, Listed
<1>6. ListsRulesOf(loaded', seen')
  <2>1. seen \in SUBSET DOMAIN Parsed /\ ListsRulesOf(loaded, seen)
    BY DEF SourceInv, Types, Listed
  <2>2. FirstMention(head) \in Nat
        /\ \A other \in seen : FirstMention(other) \in Nat /\ FirstMention(other) <= FirstMention(head)
    BY <1>3, <1>4, <1>5
  <2>3. head \in DOMAIN Parsed \ seen
    BY <1>1
  <2>4. ListsRulesOf(loaded \o Parsed[head], seen \cup {head})
    BY <2>1, <2>2, <2>3, ListMore
  <2>5. loaded' = loaded \o Parsed[head] /\ seen' = seen \cup {head}
    BY <1>1
  <2> QED BY <2>4, <2>5
<1>7. Listed'
  <2>1. \A file \in seen' : FirstMention(file) \in 1..next
    BY <1>1, <1>3, <1>4, <1>5
  <2>2. UNCHANGED <<start, next>>
    BY <1>1
  <2> QED BY <1>6, <2>1, <2>2 DEF Listed, ListsRulesOf, FirstMention, Sources
<1>8. Types' /\ Fresh'
  <2>1. loaded' \in Seq(STRING)
    BY <1>6 DEF ListsRulesOf
  <2> QED BY <1>1, <1>2, <2>1 DEF SourceInv, Types, Fresh, Reading, Beyond, Sources
<1>9. /\ seen' \cup ToSet(files') = seen \cup ToSet(files) /\ ToSet(files') \subseteq ToSet(files)
      /\ seen \subseteq seen'
  BY <1>1, <1>2
<1>10. Progress'
  BY <1>1, <1>9 DEF SourceInv, Progress, Beyond, FilesUpTo, ResolvedUpTo, Sources
<1> QED BY <1>7, <1>8, <1>10 DEF SourceInv

\* The sources' invariant is kept by every step.
LEMMA SourceStep == SourceInv /\ [Next]_vars => SourceInv'
<1> SUFFICES ASSUME SourceInv, [Next]_vars PROVE SourceInv'
  OBVIOUS
<1>1. CASE FromFile
  <2>1. CASE Refuse
    BY <2>1, EndStep
  <2> QED BY <1>1, <2>1, FileStep
<1>2. CASE FromSources
  <2>1. CASE RefuseSource \/ RefuseRules
    BY <2>1, EndStep DEF RefuseSource, RefuseRules
  <2> QED BY <1>2, <2>1, ResolveSourceStep, CollectStep, CollectedStep, SkipStep, ParseStep, NextSourceStep,
             AppendStep DEF FromSources
<1>3. CASE applyFlags \/ RefuseNegative \/ Resolve \/ Finished \/ UNCHANGED vars
  BY <1>3, EndStep DEF RefuseNegative, Finished
<1> QED BY <1>1, <1>2, <1>3 DEF Next
\* And so it holds throughout.
LEMMA SourceInvariance == Spec => []SourceInv
<1> QED BY SourceInit, SourceStep, PTL DEF Spec

\* A concatenation can be taken apart again.
LEMMA Apart ==
  ASSUME NEW S, NEW s \in Seq(S), NEW t \in Seq(S)
  PROVE  /\ SubSeq(s \o t, 1, Len(s)) = s
         /\ SubSeq(s \o t, Len(s) + 1, Len(s \o t)) = t
<1> DEFINE both == s \o t
<1>1. /\ both \in Seq(S) /\ Len(both) = Len(s) + Len(t) /\ Len(s) \in Nat /\ Len(t) \in Nat
      /\ \A n \in 1..Len(s) + Len(t) : both[n] = IF n <= Len(s) THEN s[n] ELSE t[n - Len(s)]
  BY ConcatProperties
<1> HIDE DEF both
<1>2. \A n \in 1..Len(both) : both[n] \in S
  BY <1>1, ElementOfSeq
<1>3. SubSeq(both, 1, Len(s)) = s
  <2> DEFINE front == SubSeq(both, 1, Len(s))
  <2>1. /\ front \in Seq(S) /\ Len(front) = Len(s) /\ \A n \in 1..Len(s) : front[n] = both[n]
    BY <1>1, <1>2, SubSeqProperties
  <2> HIDE DEF front
  <2>2. \A n \in 1..Len(s) : front[n] = s[n]
    BY <1>1, <2>1
  <2>3. front = s
    BY <2>1, <2>2, SeqEqual
  <2> QED BY <2>3 DEF front
<1>4. SubSeq(both, Len(s) + 1, Len(both)) = t
  <2> DEFINE back == SubSeq(both, Len(s) + 1, Len(both))
  <2>1. /\ back \in Seq(S) /\ Len(back) = Len(t) /\ \A n \in 1..Len(t) : back[n] = both[n + Len(s)]
    <3>1. \A n \in Len(s) + 1 .. Len(both) : both[n] \in S
      BY <1>1, <1>2
    <3>2. /\ back \in Seq(S)
          /\ Len(back) = IF Len(s) + 1 <= Len(both) THEN Len(both) - (Len(s) + 1) + 1 ELSE 0
          /\ \A n \in 1..Len(both) - (Len(s) + 1) + 1 : back[n] = both[Len(s) + 1 + n - 1]
      BY <1>1, <3>1, SubSeqProperties
    <3> HIDE DEF back
    <3>3. Len(back) = Len(t) /\ Len(both) - (Len(s) + 1) + 1 = Len(t)
      BY <1>1, <3>2
    <3>4. \A n \in 1..Len(t) : back[n] = both[Len(s) + 1 + n - 1] /\ Len(s) + 1 + n - 1 = n + Len(s)
      BY <1>1, <3>2, <3>3
    <3> QED BY <3>2, <3>3, <3>4
  <2> HIDE DEF back
  <2>2. \A n \in 1..Len(t) : back[n] = t[n]
    BY <1>1, <2>1
  <2>3. back = t
    BY <2>1, <2>2, SeqEqual
  <2> QED BY <2>3 DEF back
<1> QED BY <1>3, <1>4 DEF both

\* Load begins with a value for every setting.
LEMMA SettingsInit == Init => DOMAIN cfg = Settings
BY DEF Init, Default

\* applyEnv, applyFileConfig and the flags add to the settings, Resolve replaces two.
LEMMA SettingsStep ==
  ASSUME start \in Starts, DOMAIN cfg = Settings, [Next]_vars
  PROVE  DOMAIN cfg' = Settings
<1>1. /\ DOMAIN start.env \subseteq Settings /\ DOMAIN start.file.set \subseteq Settings
      /\ DOMAIN start.flags \subseteq Settings
  BY StartsAssumption
<1>2. CASE applyEnv
  BY <1>1, <1>2 DEF applyEnv, Override
<1>3. CASE applyFileConfig
  BY <1>1, <1>3 DEF applyFileConfig, Override
<1>4. CASE applyFlags
  BY <1>1, <1>4 DEF applyFlags, Override, Restrict, Flagged
<1>5. CASE Resolve
  BY <1>5 DEF Resolve
<1>6. CASE ~(applyEnv \/ applyFileConfig \/ applyFlags \/ Resolve)
  BY <1>6 DEF Next, FromFile, FromSources, RefuseEnv, NoFile, RefuseFile, ResolveSource, collectRuleFiles, Collected,
       RefuseSource, SkipSeen, parseRuleSourceFile, RefuseRules, NextSource, AppendLoaded, RefuseNegative, Finished,
       Refuse, vars
<1> QED BY <1>2, <1>3, <1>4, <1>5, <1>6

\* TypeOK: through every start, whatever its inputs, every setting has a value,
\* Load reads sources that there are, and no file that does not parse is loaded.
THEOREM TypeCorrect == Spec => []TypeOK
<1>1. Init => DOMAIN cfg = Settings /\ SourceInv
  BY SettingsInit, SourceInit
<1>2. DOMAIN cfg = Settings /\ SourceInv /\ [Next]_vars => (DOMAIN cfg = Settings /\ SourceInv)'
  BY SettingsStep, SourceStep DEF SourceInv, Types
<1>3. DOMAIN cfg = Settings /\ SourceInv => TypeOK
  BY DEF SourceInv, Types, Progress, TypeOK
<1> QED BY <1>1, <1>2, <1>3, PTL DEF Spec

\* RulesInOrder: whatever the sources and the files are, the rules are the inline
\* ones and then each rule of each file that a source mentions, once and in the
\* order of the sources.
THEOREM RulesInOrderHolds == Spec => []RulesInOrder
<1>1. SourceInv => RulesInOrder
  <2> SUFFICES ASSUME SourceInv, pc = "done", start.file.kind = "ok" PROVE RulesInOrder
    BY DEF RulesInOrder
  <2> DEFINE inline == Len(start.file.rules)
             imported == SubSeq(rules, inline + 1, Len(rules))
  <2>1. /\ rules = start.file.rules \o loaded /\ seen = FilesUpTo(Len(Sources))
        /\ start.file.rules \in Seq(STRING) /\ DOMAIN Sources = 1..Len(Sources)
        /\ ListsRulesOf(loaded, seen)
    BY StartSources DEF SourceInv, Progress, Beyond, Listed
  <2>2. Mentioned = seen
    BY <2>1 DEF Mentioned, FilesUpTo
  <2>3. SubSeq(rules, 1, inline) = start.file.rules /\ imported = loaded
    BY <2>1, Apart DEF ListsRulesOf
  <2> QED BY <2>1, <2>2, <2>3 DEF RulesInOrder, ListsRulesOf
<1> QED BY <1>1, SourceInvariance, PTL
-------------------------------------------------------------------------------
(* Layers.                                                                    *)

\* The value of a setting with the environment, the file and the flags.
WithEnv(s) == IF s \in DOMAIN start.env THEN start.env[s] ELSE Default[s]
WithFile(s) == IF s \in DOMAIN FileLayer THEN FileLayer[s] ELSE WithEnv(s)
WithFlags(s) == IF s \in DOMAIN FlagLayer THEN FlagLayer[s] ELSE WithFile(s)

\* Where the layers have been applied up to the file, and where Load is past the environment.
Filed == Reading \cup {"flags"}
Checked == {"file"} \cup Reading \cup Beyond

\* How far the layers have been applied.
LayerInv ==
  /\ DOMAIN cfg = Settings
  /\ (pc = "env" => cfg = Default)
  /\ (pc \in Checked => start.unparsed = {})
  /\ (pc = "file" => \A s \in Settings : cfg[s] = WithEnv(s))
  /\ (pc \in Filed => \A s \in Settings : cfg[s] = WithFile(s))
  /\ (pc \in {"validate", "done"} => \A s \in Settings \ Dirs : cfg[s] = WithFlags(s))
  /\ (pc = "validate" => \A s \in Dirs : cfg[s] = WithFile(s))
  /\ (pc = "done" => /\ cfg["BasePath"] = resolveBasePath(WithFile("BasePath"))
                     /\ cfg["DataDir"] = resolveDataDir(WithFile("DataDir"))
                     /\ \A s \in NonNegative : ~(cfg[s] < 0))

\* The least of a set of numbers that begins with a given one.
LEMMA MinIs ==
  ASSUME NEW S \in SUBSET Int, NEW m \in S, \A n \in S : m <= n
  PROVE  Min(S) = m
<1>1. \A n \in S : (\A y \in S : n <= y) => n = m
  <2> SUFFICES ASSUME NEW n \in S, \A y \in S : n <= y PROVE n = m
    OBVIOUS
  <2>1. n <= m /\ m <= n /\ m \in Int /\ n \in Int
    OBVIOUS
  <2> QED BY <2>1
<1> QED BY <1>1 DEF Min

\* First with the layers of Precedence, and with those of the directories.
LEMMA FirstOfThree ==
  ASSUME NEW s, NEW a, NEW b, NEW c
  PROVE  First(s, <<a, b, c>>) = IF s \in DOMAIN a THEN a[s]
                                 ELSE IF s \in DOMAIN b THEN b[s]
                                 ELSE IF s \in DOMAIN c THEN c[s] ELSE Default[s]
<1> DEFINE layers == <<a, b, c>>
           I == {i \in 1..Len(layers) : s \in DOMAIN layers[i]}
           k == IF I # {} THEN Min(I) ELSE 0
<1>1. First(s, layers) = IF k = 0 THEN Default[s] ELSE layers[k][s]
  BY DEF First, SelectInSeq
<1>2. Len(layers) = 3 /\ layers[1] = a /\ layers[2] = b /\ layers[3] = c
  OBVIOUS
<1> HIDE DEF layers
<1>3. CASE s \in DOMAIN a
  <2>1. 1 \in I /\ I \subseteq Int /\ \A n \in I : 1 <= n
    BY <1>2, <1>3
  <2>2. Min(I) = 1
    BY <2>1, MinIs
  <2>3. First(s, layers) = a[s]
    BY <1>1, <1>2, <2>1, <2>2
  <2> QED BY <1>3, <2>3 DEF layers
<1>4. CASE s \notin DOMAIN a /\ s \in DOMAIN b
  <2>1. 2 \in I /\ I \subseteq Int /\ \A n \in I : 2 <= n
    BY <1>2, <1>4
  <2>2. Min(I) = 2
    BY <2>1, MinIs
  <2> QED BY <1>1, <1>2, <1>4, <2>1, <2>2 DEF layers
<1>5. CASE s \notin DOMAIN a /\ s \notin DOMAIN b /\ s \in DOMAIN c
  <2>1. 3 \in I /\ I \subseteq Int /\ \A n \in I : 3 <= n
    BY <1>2, <1>5
  <2>2. Min(I) = 3
    BY <2>1, MinIs
  <2> QED BY <1>1, <1>2, <1>5, <2>1, <2>2 DEF layers
<1>6. CASE s \notin DOMAIN a /\ s \notin DOMAIN b /\ s \notin DOMAIN c
  <2>1. I = {}
    BY <1>2, <1>6
  <2> QED BY <1>1, <1>6, <2>1 DEF layers
<1> QED BY <1>3, <1>4, <1>5, <1>6

\* Of two layers, the one in front that mentions a setting decides.
LEMMA FirstOfTwo ==
  ASSUME NEW s, NEW a, NEW b
  PROVE  First(s, <<a, b>>) = IF s \in DOMAIN a THEN a[s]
                              ELSE IF s \in DOMAIN b THEN b[s] ELSE Default[s]
<1> DEFINE layers == <<a, b>>
           I == {i \in 1..Len(layers) : s \in DOMAIN layers[i]}
           k == IF I # {} THEN Min(I) ELSE 0
<1>1. First(s, layers) = IF k = 0 THEN Default[s] ELSE layers[k][s]
  BY DEF First, SelectInSeq
<1>2. Len(layers) = 2 /\ layers[1] = a /\ layers[2] = b
  OBVIOUS
<1> HIDE DEF layers
<1>3. CASE s \in DOMAIN a
  <2>1. 1 \in I /\ I \subseteq Int /\ \A n \in I : 1 <= n
    BY <1>2, <1>3
  <2>2. Min(I) = 1
    BY <2>1, MinIs
  <2>3. First(s, layers) = a[s]
    BY <1>1, <1>2, <2>1, <2>2
  <2> QED BY <1>3, <2>3 DEF layers
<1>4. CASE s \notin DOMAIN a /\ s \in DOMAIN b
  <2>1. 2 \in I /\ I \subseteq Int /\ \A n \in I : 2 <= n
    BY <1>2, <1>4
  <2>2. Min(I) = 2
    BY <2>1, MinIs
  <2> QED BY <1>1, <1>2, <1>4, <2>1, <2>2 DEF layers
<1>5. CASE s \notin DOMAIN a /\ s \notin DOMAIN b
  <2>1. I = {}
    BY <1>2, <1>5
  <2> QED BY <1>1, <1>5, <2>1 DEF layers
<1> QED BY <1>3, <1>4, <1>5

\* The settings as Precedence states them.
LEMMA LayersAreFirst ==
  /\ \A s : First(s, <<FlagLayer, FileLayer, start.env>>) = WithFlags(s)
  /\ \A s : First(s, <<FileLayer, start.env>>) = WithFile(s)
<1>1. \A s : First(s, <<FlagLayer, FileLayer, start.env>>) = WithFlags(s)
  BY FirstOfThree DEF WithFlags, WithFile, WithEnv
<1>2. \A s : First(s, <<FileLayer, start.env>>) = WithFile(s)
  BY FirstOfTwo DEF WithFile, WithEnv
<1> QED BY <1>1, <1>2

\* Outside the directories, the flags that Load looks at are those that say something.
LEMMA FlaggedSettings ==
  /\ Flagged = DOMAIN FlagLayer \ Dirs
  /\ \A s \in DOMAIN FlagLayer : FlagLayer[s] = start.flags[s]
<1>1. DOMAIN FlagLayer = {f \in DOMAIN start.flags : ~Empty(f)}
  BY DEF FlagLayer
<1>2. \A s \in DOMAIN start.flags \ Dirs : (s \in Texts => start.flags[s] # "") <=> ~Empty(s)
  BY DEF Empty
<1> QED BY <1>1, <1>2 DEF FlagLayer, Flagged

\* The layers of a start say what they say in every state.
LEMMA SameLayers ==
  ASSUME UNCHANGED start
  PROVE  /\ \A s : WithEnv(s)' = WithEnv(s) /\ WithFile(s)' = WithFile(s) /\ WithFlags(s)' = WithFlags(s)
         /\ \A dir : resolveBasePath(dir)' = resolveBasePath(dir) /\ resolveDataDir(dir)' = resolveDataDir(dir)
BY DEF WithEnv, WithFile, WithFlags, FlagLayer, FileLayer, Empty, resolveBasePath, resolveDataDir

\* Load begins with the defaults.
LEMMA LayerInit == Init => LayerInv
BY SettingsInit DEF Init, LayerInv, Checked, Filed, Reading, Beyond

\* The steps that leave the settings alone.
LEMMA SameSettings ==
  ASSUME LayerInv, UNCHANGED <<start, cfg>>, pc # "validate" \/ pc' # "done",
         \/ pc' = pc \/ pc' = "refused"
         \/ pc \in Filed /\ pc' \in Filed
         \/ pc = "file" /\ pc' = "flags" /\ start.file.kind # "ok"
  PROVE  LayerInv'
<1>1. CASE pc' = pc
  BY <1>1, SameLayers DEF LayerInv, Checked, Filed, Reading, Beyond
<1>2. CASE pc' = "refused"
  BY <1>2 DEF LayerInv, Checked, Filed, Reading, Beyond
<1>3. CASE pc \in Filed /\ pc' \in Filed
  BY <1>3, SameLayers DEF LayerInv, Checked, Filed, Reading, Beyond
<1>4. CASE pc = "file" /\ pc' = "flags" /\ start.file.kind # "ok"
  <2>1. \A s \in Settings : WithFile(s) = WithEnv(s)
    BY <1>4 DEF WithFile, FileLayer
  <2> QED BY <1>4, <2>1, SameLayers DEF LayerInv, Checked, Filed, Reading, Beyond
<1> QED BY <1>1, <1>2, <1>3, <1>4

\* The steps that apply a layer.
LEMMA ApplyStep ==
  ASSUME start \in Starts, LayerInv, applyEnv \/ applyFileConfig \/ applyFlags \/ Resolve
  PROVE  LayerInv'
<1>1. start' = start /\ start.unparsed = {} /\ DOMAIN cfg = Settings
  BY DEF applyEnv, applyFileConfig, applyFlags, Resolve, LayerInv, Checked, Reading, Beyond
<1>2. /\ DOMAIN start.env \subseteq Settings /\ DOMAIN start.file.set \subseteq Settings
      /\ DOMAIN start.flags \subseteq Settings
  BY StartsAssumption
<1>3. CASE applyEnv
  <2>1. /\ pc' = "file" /\ DOMAIN cfg' = Settings
        /\ \A s \in Settings : cfg'[s] = WithEnv(s)
    BY <1>1, <1>2, <1>3 DEF applyEnv, Override, Goto, LayerInv, WithEnv
  <2> QED BY <1>1, <2>1, SameLayers DEF LayerInv, Checked, Filed, Reading, Beyond
<1>4. CASE applyFileConfig
  <2>1. FileLayer = start.file.set
    BY <1>4 DEF applyFileConfig, FileLayer
  <2>2. /\ pc' = "sources" /\ DOMAIN cfg' = Settings
        /\ \A s \in Settings : cfg'[s] = WithFile(s)
    BY <1>1, <1>2, <1>4, <2>1 DEF applyFileConfig, Override, Goto, LayerInv, WithFile
  <2> QED BY <1>1, <2>2, SameLayers DEF LayerInv, Checked, Filed, Reading, Beyond
<1>5. CASE applyFlags
  <2>1. /\ pc' = "validate" /\ DOMAIN cfg' = Settings
        /\ \A s \in Settings : cfg'[s] = IF s \in Flagged THEN start.flags[s] ELSE cfg[s]
    <3>1. Flagged \subseteq Settings
      BY <1>2 DEF Flagged
    <3> QED BY <1>1, <1>5, <3>1 DEF applyFlags, Override, Restrict, Goto
  <2>2. \A s \in Settings : cfg[s] = WithFile(s)
    BY <1>5 DEF applyFlags, LayerInv, Filed
  <2>3. \A s \in Settings \ Dirs : cfg'[s] = WithFlags(s)
    BY <2>1, <2>2, FlaggedSettings DEF WithFlags
  <2>4. \A s \in Dirs : cfg'[s] = WithFile(s)
    <3>1. Dirs \subseteq Settings
      BY DEF Settings
    <3> QED BY <2>1, <2>2, <3>1, FlaggedSettings
  <2> QED BY <1>1, <2>1, <2>3, <2>4, SameLayers DEF LayerInv, Checked, Filed, Reading, Beyond
<1>6. CASE Resolve
  <2>1. "BasePath" \in Settings /\ "DataDir" \in Settings /\ NonNegative \subseteq Settings \ Dirs
    BY DEF Settings, Dirs, NonNegative
  <2>2. /\ pc = "validate" /\ pc' = "done" /\ DOMAIN cfg' = Settings
        /\ \A s \in Settings \ Dirs : cfg'[s] = cfg[s]
        /\ cfg'["BasePath"] = resolveBasePath(cfg["BasePath"])
        /\ cfg'["DataDir"] = resolveDataDir(cfg["DataDir"])
    BY <1>1, <1>6, <2>1 DEF Resolve, Goto, Dirs
  <2>3. \A s \in NonNegative : ~(cfg'[s] < 0)
    BY <1>6, <2>1, <2>2 DEF Resolve, Negative
  <2>4. /\ \A s \in Settings \ Dirs : cfg'[s] = WithFlags(s)
        /\ cfg'["BasePath"] = resolveBasePath(WithFile("BasePath"))
        /\ cfg'["DataDir"] = resolveDataDir(WithFile("DataDir"))
    BY <2>1, <2>2 DEF LayerInv, Dirs
  <2> QED BY <1>1, <2>2, <2>3, <2>4, SameLayers DEF LayerInv, Checked, Filed, Reading, Beyond
<1> QED BY <1>3, <1>4, <1>5, <1>6

\* A layer sets what it mentions and leaves the rest to those before it.
LEMMA LayerStep == ASSUME start \in Starts, LayerInv, [Next]_vars PROVE LayerInv'
<1>1. CASE applyEnv \/ applyFileConfig \/ applyFlags \/ Resolve
  BY <1>1, ApplyStep
<1>2. CASE Refuse \/ Finished \/ UNCHANGED vars
  <2>1. UNCHANGED <<start, cfg>> /\ (pc' = pc \/ pc' = "refused")
    BY <1>2 DEF Refuse, Goto, Finished, vars
  <2> QED BY <2>1, SameSettings
<1>3. CASE NoFile
  BY <1>3, SameSettings DEF NoFile, Goto
<1>4. CASE ResolveSource \/ collectRuleFiles \/ Collected \/ SkipSeen \/ parseRuleSourceFile \/ NextSource
            \/ AppendLoaded
  <2>1. UNCHANGED <<start, cfg>> /\ pc \in Filed /\ pc' \in Filed /\ pc # "validate"
    BY <1>4 DEF ResolveSource, collectRuleFiles, Collected, SkipSeen, parseRuleSourceFile, NextSource, AppendLoaded,
         Goto, Filed, Reading
  <2> QED BY <2>1, SameSettings
<1> QED BY <1>1, <1>2, <1>3, <1>4 DEF Next, FromFile, FromSources, RefuseEnv, RefuseFile, RefuseSource, RefuseRules,
         RefuseNegative

\* Both invariants hold throughout.
LEMMA LoadInvariance == Spec => [](SourceInv /\ LayerInv)
<1>1. SourceInv /\ LayerInv /\ [Next]_vars => LayerInv'
  BY LayerStep DEF SourceInv, Types
<1> QED BY <1>1, SourceInit, SourceStep, LayerInit, PTL DEF Spec

\* Precedence: whatever the layers say, the last that mentions a setting decides;
\* the directories come from the file before the environment.
THEOREM PrecedenceHolds == Spec => []Precedence
<1>1. LayerInv => Precedence
  BY LayersAreFirst DEF LayerInv, Precedence
<1> QED BY <1>1, LoadInvariance, PTL

\* What a refusal shows of the start.
Refusal == pc = "refused" => Bad

\* A limit that is refused is negative in the last layer that mentions it.
LEMMA NegativeIsBad ==
  ASSUME LayerInv, pc = "validate", Negative
  PROVE  Bad
<1>1. NonNegative \subseteq Settings \ Dirs
  BY DEF Settings, Dirs, NonNegative
<1>2. \A s \in NonNegative : cfg[s] = WithFlags(s)
  BY <1>1 DEF LayerInv
<1> QED BY <1>2, LayersAreFirst DEF Negative, Bad

\* A source or a rule that is refused is bad.
LEMMA SourceIsBad == ASSUME SourceInv, RefuseSource \/ RefuseRules PROVE Bad
<1>1. /\ next \in DOMAIN Sources /\ start.file.kind = "ok"
  <2>1. pc \in Reading /\ next <= Len(Sources)
    BY DEF SourceInv, Progress, RefuseSource, RefuseRules, Reading
  <2> QED BY <2>1, StartSources DEF SourceInv, Types, Fresh
<1>2. CASE pc = "sources" /\ Paths(Sources[next]) = <<>>
  BY <1>1, <1>2 DEF Bad, Resolves
<1>3. CASE pc = "collect" /\ paths # <<>> /\ ~Listable(Head(paths))
  <2>1. Head(paths) \in ToSet(Paths(Sources[next]))
    BY <1>3, SetOfTail DEF SourceInv, Types, Progress
  <2> QED BY <1>1, <1>3, <2>1 DEF Bad, Resolves
<1>4. CASE pc = "read" /\ files # <<>> /\ Head(files) \notin seen \cup DOMAIN Parsed
  <2>1. Head(files) \in FilesOf(Sources[next])
    BY <1>4, SetOfTail DEF SourceInv, Types, Progress
  <2>2. Head(files) \in Mentioned
    BY <1>1, <2>1 DEF Mentioned
  <2> QED BY <1>1, <1>4, <2>2 DEF Bad
<1> QED BY <1>2, <1>3, <1>4 DEF RefuseSource, RefuseRules

\* Load goes on only past good inputs and stops only at a bad one.
LEMMA RefusalStep == ASSUME SourceInv, LayerInv, Refusal, [Next]_vars PROVE Refusal'
<1>1. start' = start
  BY DEF Next, FromFile, FromSources, applyEnv, RefuseEnv, NoFile, applyFileConfig, RefuseFile, ResolveSource,
       collectRuleFiles, Collected, RefuseSource, SkipSeen, parseRuleSourceFile, RefuseRules, NextSource, AppendLoaded,
       applyFlags, RefuseNegative, Resolve, Finished, Refuse, vars
<1>2. Bad' <=> Bad
  BY <1>1 DEF Bad, Sources, Mentioned, First, SelectInSeq, FlagLayer, FileLayer, Empty
<1>3. pc' = "refused" => Bad
  <2>1. CASE pc' = pc
    BY <2>1 DEF Refusal
  <2>2. CASE RefuseEnv \/ RefuseFile
    BY <2>2 DEF RefuseEnv, RefuseFile, Bad
  <2>3. CASE RefuseSource \/ RefuseRules
    BY <2>3, SourceIsBad
  <2>4. CASE RefuseNegative
    BY <2>4, NegativeIsBad DEF RefuseNegative
  <2>5. pc' = pc \/ pc' # "refused" \/ RefuseEnv \/ RefuseFile \/ RefuseSource \/ RefuseRules \/ RefuseNegative
    BY DEF Next, FromFile, FromSources, applyEnv, NoFile, applyFileConfig, ResolveSource, collectRuleFiles, Collected,
         SkipSeen, parseRuleSourceFile, NextSource, AppendLoaded, applyFlags, Resolve, Finished, Goto, vars
  <2> QED BY <2>1, <2>2, <2>3, <2>4, <2>5
<1> QED BY <1>2, <1>3 DEF Refusal

\* RefusedOnlyBad: Load refuses to start exactly if an input is bad.
THEOREM RefusedOnlyBadHolds == Spec => []RefusedOnlyBad
<1>1. Init => Refusal
  BY DEF Init, Refusal
<1>2. SourceInv /\ LayerInv /\ pc = "done" => ~Bad
  <2> SUFFICES ASSUME SourceInv, LayerInv, pc = "done" PROVE ~Bad
    OBVIOUS
  <2>1. start.unparsed = {} /\ start.file.kind \in {"none", "ok"}
    BY DEF SourceInv, Fresh, LayerInv, Checked, Beyond
  <2>2. start.file.kind = "ok" => /\ \A k \in DOMAIN Sources : Resolves(Sources[k])
                                  /\ Mentioned \subseteq DOMAIN Parsed
    BY StartSources DEF SourceInv, Types, Progress, Beyond, ResolvedUpTo, FilesUpTo, Mentioned
  <2>3. ~\E s \in NonNegative : First(s, <<FlagLayer, FileLayer, start.env>>) < 0
    <3>1. \A s \in NonNegative : cfg[s] = WithFlags(s) /\ ~(cfg[s] < 0)
      BY DEF LayerInv, Settings, Dirs, NonNegative
    <3> QED BY <3>1, LayersAreFirst
  <2> QED BY <2>1, <2>2, <2>3 DEF Bad
<1>3. Refusal /\ SourceInv /\ LayerInv => RefusedOnlyBad
  BY <1>2 DEF Refusal, RefusedOnlyBad
<1>4. SourceInv /\ LayerInv /\ Refusal /\ [Next]_vars => Refusal'
  BY RefusalStep
<1> QED BY <1>1, <1>3, <1>4, LoadInvariance, PTL DEF Spec
===============================================================================
