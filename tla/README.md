# jeltz in TLA+

jeltz is an intercepting HTTP proxy: it ends the TLS of its clients with
certificates of its own root, runs each request through a list of rules, and
forwards what the rules do not answer. This directory holds TLA+ models of its
components, the TLC runs that check them, and proofs that TLAPS checks.
`PROJECT.json` ties every definition to the lines it models, every property to
a run and to a mutant that breaks it, and every hazard to the properties that
would show it.

    tlc -workers 2 -config LeafCerts_safety.cfg MCLeafCertsLRU   # a run
    tlapm LeafCerts_proofs.tla                                   # a proof

## 1. The system

| Component | State | Operations | Source |
|---|---|---|---|
| leaf certificates | LRU cache, map of counted per-host locks | `LeafCert` | `internal/ca/ca.go` |
| root CA on disk | key, certificate and PKCS#12 files | `Load`, `generate`, `loadFromDisk` | `internal/ca/ca.go` |
| rule set | compiled rules by type | `Compile`, `Match.Matches`, each rule's `Resolve` | `internal/rules/` |
| header operations | none (headers are values) | `Ops.Apply`, `RemoveHopByHop` | `internal/rules/headers.go`, `internal/httpx/` |
| pipeline | one flow: header, result, open bodies | `Run`, `roundtrip`, `WriteResponse` | `internal/proxy/pipeline.go` |
| HTTP/1.1 MITM connection | the connection's bytes, the loop, the transport's body reader | `serveHTTP1` | `internal/proxy/mitm.go` |
| HTTP/2 MITM connection | streams (in `http2.Server`) | `serveH2` | `internal/proxy/mitm.go` |
| CONNECT session | one hijacked connection | `handleCONNECT`, `mitmHandler` | `internal/proxy/` |
| forward handler | one plain request | `handleForward`, `WriteResponse` | `internal/proxy/` |
| raw tunnel | two connections, two copies | `rawTunnel` | `internal/proxy/proxy.go` |
| server and process | steps of the start, context, server, UI, exit code | `main`, `runSubcommand`, `ListenAndServe` | `cmd/jeltz/main.go`, `internal/proxy/proxy.go` |
| configuration | settings, rules | `Load` | `internal/config/config.go` |
| rule sources | files read so far | `loadRulesFromSources` | `internal/config/rulesources.go` |
| log stream | bounded queue, drop counter | `Handle` | `internal/logstream/handler.go` |
| terminal UI | events, rows, filter, dialog | `Update` | `internal/tui/tui.go` |
| logging, banner, XDG, encoders | none | | `internal/logging/`, `cmd/jeltz/banner.go`, `pkg/` |

How they interact. `main` loads the configuration, then the CA, compiles the
rules, and starts the server. Each plain request has a goroutine that builds a
flow and calls `Pipeline.Run`. A CONNECT is hijacked: with a CA, the handshake
calls `LeafCert` and then `serveHTTP1` or `serveH2` call `Run` per request;
without one, `rawTunnel` copies bytes. All flows share the compiled rules
(never written) and one `http.Transport`; all handshakes share the `CA`. Every
goroutine logs; with `-ui` the records go through the log stream to the
terminal UI, whose quit key cancels the context of the process.

What is hard about it, and what makes each part correct:

* **Leaf certificates**: locks that are created and dropped by the calls that
  use them; one issuance per host at a time; no lock leaks; the two structures
  of the cache agree.
* **Root CA**: a directory written in several steps by processes that may be
  killed, or run side by side; a root that users trust must stay.
* **Pipeline**: many early returns and error paths; the order of the stages is
  documented; bodies must be closed, lengths must match, hop-by-hop headers must
  not pass.
* **Rules**: prefixes are stripped by a regular expression, paths cleaned and
  joined: each request must get to the file or the URL that the rule means.
* **Connections**: plain, HTTP/1.1 behind a CONNECT (a keep-alive loop written
  by hand: framing of answers, bodies that nobody reads), or HTTP/2. Request
  bodies go on while answers come, upstreams stall or break off, clients leave:
  bodies must arrive whole or visibly broken, no goroutine may stay behind.
* **Raw tunnel**: two goroutines close each other's connections.
* **Process**: a start of many steps, each of which may fail; `http.Server.ListenAndServe` returns when `Shutdown` begins, not
  when it ends; failures of the server and of the UI cross in a channel.
* **Log view**: a queue that drops, a view that must not reorder or go stale.
* **Configuration**: layers that may leave a setting alone; order is meaning.

All hazards, each at its line, are in `PROJECT.json`.

## 2. Modules

| Module | Models | Notes on the correspondence |
|---|---|---|
| `LeafCerts` | `LeafCert` by any number of goroutines | an action per critical section of `ca.mu`; `hlock.mu` is `holder`; a pointer to a `hostLock` is a cell of `Lock`, free again when nothing points to it |
| `LeafCertsAbs` | what its callers may rely on | a store with one certificate per host; calls take effect one at a time; `LeafCerts` implements it under a refinement mapping (`ImplementsAbs`) |
| `LeafCertsLRU` | a history of the answers of `LeafCerts` | the hosts served, and which was served last after which; not computed from the cache, which is checked against it. A step of `Next` always has exactly one way to be remembered |
| `CAStore` | `Load` in processes that may crash | an action per system call; a file is absent, torn, or holds one pair's part |
| `RootStore` | what `Load` promises to processes that run one after the other | no root, one for ever, or a spoiled directory; `CAStore` implements it when `inTurn` (`ImplementsRoot`) |
| `HeaderOps` | delete and set operations, hop-by-hop | operators on functions from names to sequences of values |
| `RuleTargets` | `Match.Matches`, prefix stripping, the file of `map_local`, the URL of `map_remote` and of the request upstream | operators on paths as sequences of tokens (`/`, `..`, `?`, `#`, `%`, control characters, further escapes, parts of names) |
| `Pipeline` | `Compile`, `Run` and the result's use | extends `HeaderOps` and `RuleTargets`; an action per stage; files change in between |
| `Handler` | one plain request or HTTP/2 stream: client, handler, body reader, upstream, dump | `Run` is reduced to where it reads or writes; an action per read, write and return |
| `Http1Conn` | `serveHTTP1`, client, transport | the connection is a sequence of heads and pieces of bodies |
| `Connection` | `ServeHTTP`, `handleCONNECT`, `mitmHandler` | composes `Handler` and `Http1Conn`: a connection is plain, or hijacked, confirmed, handshaken and served by one of them |
| `RawTunnel` | `rawTunnel` and both peers | counters of chunks sent, written and received, with half-closes |
| `Server` | `main` with its subcommands, `ListenAndServe` | an action per step of the start, send, receive and return; requests and hijacked tunnels |
| `LogView` | log stream composed with the UI's `Update` | an action per logged event, event taken, and key press |
| `LogFeed` | what the log promises to its user | one queue that is shown in order and loses events only when it is full; `LogView` implements it (`ImplementsFeed`) |
| `ConfigLoad` | `Load` with rule sources | an action per layer, per path of a source and per file; refusals are actions |

`Pipeline` says what a request becomes, with every header and rule; `Handler`
says when, with every read and write. They model the same functions, once for
the data and once for the interleavings, and together have no state in common
that could be composed.

`MC*` modules give TLC the constants, `*_proofs` hold the theorems. Properties
stand at the end of their module; mutants, definitions that put a plausible bug
in place of a mapped one, stand before what they replace and say so.

Conventions. An action models a whole handler, or, where goroutines or processes
interleave, what happens between two points at which others may act: a Go mutex
section, a system call, a channel operation, a read or write of a connection.
Data is reduced to what the code branches on.

## 3. Runs

Passing runs (deadlock is checked in `CAStore`, `LeafCerts` and `ConfigLoad`;
the others model things that end: a connection, a flow, a process, a log).

| Run | Shows | Bounds, and why they are enough |
|---|---|---|
| `leaf_safety` | one issuance per host at a time, no lock leaks, waiting only for one's own host, cache coherent, LRU order right, no overwriting; `LeafCerts` implements `LeafCertsAbs` | 3 goroutines, 3 hosts, capacity 2: a lock can be joined, dropped and recreated while a third waits; three hosts overflow the cache under calls in progress. `LeafCertsLRU` adds the history |
| `leaf_liveness` | every call returns | 3 goroutines on one host: any wait is for the same host |
| `store` | Loads in turn, with crashes and refused writes anywhere, implement `RootStore`: keys match, one root and its bundle, never replaced, and no Load fails once it is complete. Overlapping Loads: a root that is complete and that nobody is generating is never disturbed | 3 processes, 5 pairs: whenever one generates there is an unused pair |
| `pipeline_safety` | stage order, the file or URL of each rule, header rules complete and in order on requests and answers, own operations last, nothing hop-by-hop upstream, lengths right, bodies closed | all sequences of up to 2 rules of 13 kinds and of 3 rules of the 7 kinds that compete, for one path; the stripping rules, with prefixes with and without `/` and an expression of two alternatives, for all paths of up to 4 tokens, those with one `?`, `#`, `%`, control character or escape, `*`, and a query with `#`; one change of the files under the flow |
| `connection` | request bodies go upstream whole, or, over the limit, not at all; what is misread as a head on HTTP/1.1 is only ever the body that an answer left unread; an answer that looks whole is; the dump is logged once, within its limit; whoever leaves, at whatever point, leaves no goroutine behind; requests are answered | bodies of 2 pieces and answers of 2 units, a body limit of 1 or none, a dump limit of 1: below, at and above each; on HTTP/1.1 2 requests, a body partly read, then another request; one stream, since streams share nothing of jeltz; an upstream that stalls, and one that does not |
| `tunnel_reading` | with peers that read: nothing is lost while both sides hold, one end ends both, an answer gets through, both connections are closed on return | 2 chunks each way, window 1: a copy blocked in a write, with more to read |
| `server_ends` | it serves until told to stop, then ends, in every order of signal, quit, UI failure and start; a used address ends it with an error; the exit code of proxy, help and subcommands says whether something that was needed failed | every set of failing steps; 2 requests and a tunnel, with and without UI |
| `logview` | every event is shown, queued or counted as dropped; stream and UI implement `LogFeed`: shown in order, the newest kept, dropped only when the queue is full; rows match filter, search and visibility, and the dialog's cursor is on a key; a queued event is shown unless the user quits | queue of 1, view of 2 (the code: 4096 and 2000), 3 events: both limits are passed; all keys that `Update` handles |
| `config_rules` | later layers win, imports are complete, once, and in order, exactly the bad inputs are refused | one setting of each kind in all layers with every value the code tells apart; up to 2 rule sources of 10 |

Violation runs. Each checks what the repository says of itself, and TLC finds a
behaviour of the code that does otherwise (`findings` in `PROJECT.json` quotes
the lines).

| Run | Said | Done |
|---|---|---|
| `http1_answers` | answers are complete | a body without a length ends with a connection that is kept open |
| `server_graceful` | shutdown is graceful | the process exits with requests in flight |
| `config_flags` | flags override the file | `-base-path` and `-data-dir` are not applied |

Other places where the code and what is said of it part, seen in the models'
behaviours and left without a run of their own; the properties above are stated
so that they say what does hold:

* `ca.go:58` "Generate CA if key or cert are missing": only a missing key is
  looked for. A `Load` killed between its two files, or a lost certificate,
  makes every later `Load` fail (`StatKey`, `LoadError` in `CAStore`).
* `ca.go:59`: two first runs that overlap mix the key of one with the
  certificate of the other; hence `inTurn` in
  `ImplementsRoot`.
* `README.md:183` of the repository, "All matching header rules apply to every
  request/response": the 403 of a `map_local` rule is returned before them
  (`pipeline.go:178`), and for an error of `Run` (a file that cannot be read, a
  request body or an upstream's that breaks off, a URL that does not parse) the
  handlers write a 500 of their own; hence `status \notin {403, 500}` in
  `HeaderRulesApplied`.
* `mitm.go:180`: a body that a rule's answer left unread is parsed as the next
  head; hence `OnlyLeftoversMisread`, a part of `BodyIntact`,
  and not that nothing is misread.
* `mitm.go:144` "connCtx is cancelled when the connection is closed": nobody
  reads the connection while the upstream is asked, so nobody notices; hence
  `ConnectionEnds` needs, on HTTP/1.1, an upstream that ends its responses.
* `pipeline.go:568`: an upstream that breaks off an answer without a length
  leaves the client with a part that looks whole, for the error of `io.Copy` is
  ignored and the handler returns. So does a file of `map_local` whose reading
  fails, for `serveLocal` gives no length (`pipeline.go:361`); hence
  `~req.declared` in `WholeIsWhole`. (On HTTP/1.1 every answer with a body is
  one without a length, and one that breaks off always looks whole:
  `StreamBreaks`. `WholeIsWhole` is about the other two.)
* `proxy.go:167`: when a plain request is answered before its body has gone
  upstream, `net/http` reads the rest beside the transport, and the upstream
  gets a body with gaps; hence the exception in `BodyIntact`.
* `proxy.go:168`: `net/http` notices that the client of a plain request has left
  only once its body is read; without a body limit, an upstream that does not
  read the body keeps the handler; hence the condition of `HandlerEnds`.
* `mitm.go:101`: after an error of the pipeline the HTTP/2 handler drains the
  request body before it answers; a client that waits for the answer first
  waits for ever; hence `eager` in `RequestAnswered`.
* `mitm.go:48`: the handshake has no deadline; only a client that leaves ends it.
* `pipeline.go:400`: the URL upstream is put together from the decoded path and
  parsed again at `pipeline.go:425`. What follows an escaped `?` becomes the
  query; path and query are cut off at an escaped `#`, as a fragment; what is
  left of `%2541` is decoded once more, to `A`; a `%25` that begins no escape, a
  control character, or the `*` of `OPTIONS` makes the URL unparsable and the
  answer a 500 (`Parse`, `Parses` in `RuleTargets`). Hence `Verbatim` in
  `TargetOK`, of the path and query of the request and of the rule's URL. (An
  IPv6 host with a port loses its brackets; hosts are not spelled out here.)
* `mapremote.go:101`: the final slash of a `map_remote` URL is lost when nothing
  follows; hence `TargetOK` compares names.
* `maplocal.go:131`: a file whose name begins with `..`, below the rule's
  directory, is refused with a 403 as an escape; hence `Escapes` in
  `FirstMatchWins`.
* `pipeline.go:247`: a HEAD answer that `body_replace` reads gets a
  `Content-Length` of 0; hence the exception in `LengthIsOfBody`.
* `main.go:191`: when the UI fails to start, the proxy goes on without it until
  a signal (`UiFails` in `Server`).
* `rulesources.go:52`: `filepath.Glob` has no `**`, so the documented
  `rules/**/*.yaml` finds files one level down only.
* `proxy.go:105` "the corresponding connection is closed to unblock the other
  goroutine": a write to a peer that does not read is not unblocked; hence
  `OneEndEndsBoth` needs `ReadingSpec`.
* `proxy.go:104` "bidirectionally copies": the client's FIN closes the upstream
  both ways and cuts off its answer; hence `fin["client"]` in `AnswerDelivered`.
* `config.go:324` "returns the absolute effective base path": `main` drops the
  errors of the XDG directories, and without them the result may be relative.

### Bounds in guards

`Http1Conn` stops a client after `Requests` requests and `BodyMax` pieces of a
body, `Handler` a body at `BodyMax` pieces and an answer at `AnswerMax` units, `RawTunnel` a peer after `Chunks` chunks, `LogView` logging after
`MaxLogged` events, `Pipeline` the changes of files after `MaxChanges`. `Lock`,
`Cert` and `Pair` are finite supplies of fresh identities, large enough that
allocation never waits (`EnoughCells` in `MCLeafCerts`). Where one run covers two
configurations, the choice is a variable that `Init` leaves open and no step
changes: `limit` and `steady` in `Connection` (the body limit; whether the
upstream goes on), `inTurn` in `CAStore` (do Loads overlap), `ui`, `taken`,
`asked` and `bad` in `Server`.

### Fairness

* `LeafCerts`: weak fairness of each goroutine's steps, strong fairness of
  `Acquire`: a `sync.Mutex` hands itself to a waiter that starved for 1 ms, so a
  mutex that is freed again and again is got in the end.
* `Connection`: the goroutines of `mitmHandler`, of the loop, of the handlers and
  of the transport run, the client sends what it has begun, a round trip
  without an answer fails at the response header timeout (30 s by default,
  counted from the end of the request), cancelled contexts take effect, and a
  read of a closed connection fails. Only when `steady` does the upstream read
  on, answer and end; no client has to stay, leave or open a stream.
* `RawTunnel`: the copies and `rawTunnel` run, a dial ends. `ReadingSpec` adds
  that both peers read.
* `Server`: `main`, from its first step on, the server's goroutine, `net/http` and the goroutine of
  `tui.Run` run. No fairness makes anybody send a signal, press a key or finish
  a request.
* `LogView`: the UI's loop takes and handles messages. Nobody must log or press.

## 4. Proofs

For every value of the constants, under the assumptions that the modules name
(`Nil` is none of the things it stands for, `Thread` is finite, the cache holds
at least one entry, and so on).

* **`LeafCerts_proofs`**. None of the properties is inductive: that two
  goroutines inside have different hosts rests on both pointing to the lock of
  their host, so on no lock leaving the map while somebody points to it, so on
  the counts being exact. `IInv` says that: `ArgsOK` (a call has a host and a
  lock), `OneLock` (all pointers for a host are to the map's lock), `NoOrphan`
  and `OneHost` (an entry has a user and one host), `Counted` (`refs` is the
  number of pointers), `HolderOK` (who is inside holds the lock it points to),
  `MissHolds` (what was missing at the lookup is still missing at the insertion).
  The hard step is `Release`: the count reaches zero exactly when the last
  pointer goes. From `IInv`: `TypeOK`, `SingleFlight`, `BlockedBySameHost`,
  `LocksReclaimed`, and the action property `NeverReissuedWhileCached`.
  For the refinement, `Spec => ImplementsAbs`, two facts are added to
  `IInv`: `CacheCoherent` (a host is in the map exactly when it is in the list,
  once, and the list is within its capacity) and `Fresh` (a certificate in a
  goroutine's hand before its insertion is nowhere else). The linearization
  points are `Hit`, `PutCached` and `IssueError`; `LockHost` is `Ask`,
  `Release` is `Return`, all else is a stutter. The hard step is an insertion
  into a full cache: the size of the list is the number of stored hosts
  (`StoredCount`, a bijection), and the host at the back is the one given up.
  `HistorySpec => []HoldsMostRecent` adds `Recent` to those: the order of the
  list is the order of last use in the history, whatever is kept was used later
  than whatever was given up, and nothing was given up while there was room. A
  hit moves a host to the front of both orders (`MoveToFrontOrder`); an insertion
  gives up the back, which by the order of the list is the least recent.
* **`CAStore_proofs`**. `TypeOK`, `StaysSettled`, and `Spec => ImplementsRoot`. With
  Loads in turn `IInv` has one process in `Load` at a time, the key file before
  the certificate file (`KeyFirst`), the files as far as the generating process
  is (`Progress`), what was read still on disk (`ReadOK`), and a complete bundle
  of that root (`Bundled`). `StaysSettled` with Loads that overlap needs only
  that nobody is about to write. For the refinement, the root is there from
  `WriteCert` on, which is `Create`; a process that has opened the key file and
  fails or is killed before that is `Spoil`; `ReadCert` is `Give`, for what was
  read is the root, and `LoadError` finds none. `BundleInv` adds that who writes
  the bundle has found none. `OneRoot` states for the processes what follows:
  whoever got through `Load` has the key of everybody's certificate.
* **`Pipeline_proofs`**. `HopByHopNotSent`, from a lemma on `RemoveHopByHop`,
  and `BodiesClosed`; the invariant adds, for each stage, which bodies may be
  open, and the steps fall into those before the round trip, those that open
  a body, and those on a result. The others rest on what the folds of the
  community modules compute. `NatSet` is induction over the numbers, for a set
  rather than a predicate; from it come `FoldExists` (the fold's function exists
  and stays in any set that no step leaves) and `FoldEnters` (a set that one step
  enters and no later step leaves is where the fold ends), and from these what
  `Filter` and the operations on headers do. `FirstMatchWins`: what is compiled
  lists the positions of its rules in order (`OfTypeLists`), so the first match
  is the least one (`FirstMatch`); `Stage` says for each `pc` which rules have
  been passed. `TypeOK`: operations and `Run` put only values of the rules into
  headers (`TypeInv`). `LengthIsOfBody` holds under `SetsNoLength`, as no rule
  should set the length: then no operation adds a length (`ApplyAllKeeps`).
  `HeaderRulesApplied`: what an operation does to one value (`DeleteEffect`,
  `SetEffect`) gives what a rule does (`PutThere`, `NotTaken`, `TakenAway`,
  `NotPut`), and `RuleLasts` has that stay through the later rules.
  `TargetOK` compares what `path.Clean` does to the path, token by token, with
  where a walk ends that is defined by counting. `Stepwise` and `StepsAppend`
  say of a fold over any sequence, again from `NatSet`, that one more element is
  one more step of it; from these come the names of two paths in one
  (`NamesJoin`) and the walk: after every name, the names that no `..` took back
  are exactly those above which the walk has not come (`Stack`, in steps
  `StackNext` of one name), so that the fold ends where the walk does
  (`ReduceWalks`, `CleanWalks`). `JoinedPath` and `ParseBuilt` say what
  `joinMappedPath` makes of two paths and what parsing makes of the URL: the path
  and query it was built from if they are `Verbatim`, for then the first `?` is
  the one between them (`CutAt`), and there is no `#` to cut at (`CutNowhere`). The
  invariant `Where` has the file and the URL be those of a rule that matches
  this flow. Assumed of the constants: rules are finite sequences whose
  operations are of the types that `CompileOps` makes, paths, queries and
  expressions are sequences and an index is a part of a name
  (`TextAssumption`), no escape is one of the tokens that mean something by
  themselves (`EscapeAssumption`), and what headers are made of is in `Name` and `Value`.
* **`Server_proofs`**. `TypeOK` and `BlocksUntilDone`: the invariant follows the
  reason for which the server returned through `err`, `errCh` and `main`, and has
  that a step of the start is behind only if it did not fail.
* **`RawTunnel_proofs`**. `TypeOK` and `NothingLostWhileOpen`. The invariant adds
  that no chunk is made up (`NoneExtra`: what is on its way or has arrived is no
  more than what was sent, which bounds every queue) and that nothing is on the
  upstream's connection before it exists (`Untouched`).
* **`LogView_proofs`**. `TypeOK`, `AllAccounted`, `ViewCurrent`, and
  `Spec => ImplementsFeed`. Order rests on
  `OneOutstanding`: either one command waits for the queue or one event is on its
  way to `Update`, never both, so events cannot overtake each other; `InOrder`
  then orders view, event in hand and queue (`LatestInOrder`), and lemmas say what
  `Latest` and `Append` leave of it. For `ViewCurrent`, `ViewInv` adds the
  types of the settings and the bounds of the queue and of what is logged.
  In the refinement the event in hand stands before the queue (`UnreadIs`), so
  `Take` is a stutter, `HandleEvent` is `Show`, and the queue has room exactly
  when an event need not be lost.
* **`Connection_proofs`**. `TypeOK` of the connection with its parts, `WholeIsWhole`
  and `DumpedOnce`, of every request that a
  `Handler` serves within a connection, and `BodyIntact`, of both protocols. `DumpInv` has the snippet in step with
  what is copied, `AnswerInv` how an answer may have broken off at each place;
  the steps fall into those of the body, of the client, of `Run` up to its
  result (`RunTo`), and of the copy. For the body, `UpInv` has what is upstream
  within what was read. On HTTP/1.1, `LoopInv` says what is on the wire: either
  what is left of one body (`Between`), or, behind what an answer left unread of
  it, one head that nobody has read (`Asked`); with a limit, nothing is left
  unread by an answer that keeps the connection (`LimitKept`).
* **`ConfigLoad_proofs`**. `TypeOK`, `Precedence`, `RulesInOrder`, `RefusedOnlyBad`.
  `LayerInv` says after each layer from which one every setting comes. `SourceInv` says for
  each place in the loop over the sources what has been collected (`Progress`: the
  files still to be read, with those read before, are those of the sources so
  far) and that each was loaded once, in order of first mention (`Listed`). Assumed: a configuration
  mentions settings that there are (`StartsAssumption`), directories have finitely
  many files (`FilesAssumption`), files that parse are YAML files whose rules are
  a sequence (`ParsedAssumption`).

Only liveness is left to TLC (`EveryCallReturns`, `ConnectionEnds`,
`RequestsEnd`, `OneEndEndsBoth`, `AnswerDelivered`, `ProcessEnds`,
`EveryEventArrives`): the prover has neither fairness nor `ENABLED`. What a fold
computes is proved by induction over the numbers in the form of a statement
about sets (`NatSet`), as the library's induction theorems cannot be used.

## 5. What is not modelled

* Cryptography, ASN.1, YAML, regular expressions: only their outcomes.
* HTTP parsing beyond framing, `http.Transport`'s pool, TCP beyond windows and
  closing: external, modelled from how the code uses them.
* The URL of a redirect and the text of `body_replace` beyond the rule that
  made them; hosts and ports; the dump of headers, which is text.
* The framing and flow control of HTTP/2, which are `http2.Server`'s: streams
  of one connection share its window, but nothing of jeltz.
* `handleForward` without a pipeline: `main` always sets one.
* The bytes of a TLS handshake; what a client sends before it has seen the 200
  of its CONNECT is dropped with the buffer of `Hijack` (`proxy.go:89`).
* Rendering, wrapping and scrolling of the UI; banner and hint texts.
* Expiry of cached certificates: there is no clock in `LeafCerts`.
* The spelling of paths in rule sources: `seen` (`rulesources.go:46`) keys on
  the path as spelled, so that one file under two absolute spellings is loaded
  twice; in `ConfigLoad` a file is its name.
* The `ca-*` subcommands' own choice of directory.

## 6. Plan

Order: what every connection passes first. Done are `LeafCerts`, `CAStore` and `LogView` with
their abstract specifications, `HeaderOps`, `RuleTargets` and `Pipeline`,
`Handler`, `Http1Conn` and their composition `Connection`, `RawTunnel`, `Server`
from the arguments to the exit, `ConfigLoad`, and proofs of all that is safety. Next:

1. An abstract `Flow` (which rule answers a request, and how) that `Pipeline`
   implements.
2. `Connection` over `LeafCertsAbs`, for handshakes that share certificates.
3. Redirect URLs in `RuleTargets`.
