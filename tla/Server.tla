-------------------------------- MODULE Server --------------------------------
(* The life of the process: main in cmd/jeltz/main.go, a ca-* subcommand or   *)
(* the proxy, with and without the terminal UI, and Server.ListenAndServe of  *)
(* internal/proxy/proxy.go, from the start to the exit.                       *)
(*                                                                            *)
(* Goroutines: main; the one that waits for the context and shuts the server  *)
(* down; with the UI, the one that serves, and the one in tui.Run that quits  *)
(* the UI.  Every request has a goroutine, whose hijacked connections (CONNECT*)
(* tunnels) Shutdown does not wait for.                                       *)
EXTENDS Sequences, Naturals

CONSTANTS Request, Tunnel, \* plain requests, and CONNECT tunnels
          Nil, BindError

ASSUME Kinds == Request \cap Tunnel = {} /\ Nil # BindError

VARIABLES ui,         \* -ui is set
          taken,      \* the listen address is in use
          asked,      \* what the arguments ask for: "serve", "help", "subcommand"
          bad,        \* the steps of the start that would fail
          ctx,        \* the context is done: a signal, or stop()
          inShutdown, \* http.Server's flag
          shutter,    \* goroutine that shuts down: "off", "wait", "drain", "over"
          expired,    \* its five seconds are over
          serve,      \* srv.ListenAndServe: "off", "call", "listen", "accept", "returned"
          err,        \* what Server.ListenAndServe returns
          errCh,      \* channel from the serving goroutine, with the UI
          server,     \* that goroutine: "off", "serve", "send", "stop", "done"
          tui,        \* tui.Run: "off", "running", "ended"
          main,       \* a step of the start, "start", "serving", "ui", "receive", "exited"
          code,       \* the exit code
          conn        \* conn[c]: "none", "active", "done", "killed"

env == <<ui, taken, asked, bad>>
listener == <<inShutdown, serve, err>>
vars == <<env, ctx, shutter, expired, listener, errCh, server, tui, main, code, conn>>

Client == Request \cup Tunnel

\* The steps of the start, and which come after which.
Follows == [args   |-> IF asked = "subcommand" THEN "xdg" ELSE "flags",
            xdg    |-> "ca",
            flags  |-> "level",
            level  |-> "config",
            config |-> "ca",
            ca     |-> IF asked = "subcommand" THEN "print" ELSE "rules",
            rules  |-> "start"]

Steps == {"args", "xdg", "flags", "level", "config", "ca", "rules"}

Init == /\ ui \in BOOLEAN /\ taken \in BOOLEAN
        /\ asked \in {"serve", "help", "subcommand"} /\ bad \in SUBSET Steps
        /\ ctx = FALSE /\ inShutdown = FALSE /\ expired = FALSE
        /\ shutter = "off" /\ serve = "off" /\ err = Nil
        /\ errCh = <<>> /\ server = "off" /\ tui = "off"
        /\ main = "args" /\ code = 0
        /\ conn = [c \in Client |-> "none"]

Running == main # "exited"
Starting == main \in Steps \cup {"print"}
-------------------------------------------------------------------------------
(* main                                                                      *)

\* os.Exit(1), or the return from main: every other goroutine is gone.
Exit == /\ main' = "exited"
        /\ conn' = [c \in Client |-> IF conn[c] = "active" THEN "killed" ELSE conn[c]]

Quiet == UNCHANGED <<env, ctx, shutter, expired, listener, errCh, server, tui>>

Helps == main = "flags" /\ asked = "help"
Fails == main \in bad /\ (main = "args" => asked = "subcommand")

\* parseSubcommand, xdg.DataDir and ca.Load of a subcommand; fs.Parse,
\* logging.New, config.Load, ca.Load and rules.Compile.
Proceed == /\ main \in Steps /\ ~Helps /\ ~Fails
           /\ main' = Follows[main]
           /\ Quiet /\ UNCHANGED <<code, conn>>

\* Flags that do not parse make the flag package exit.
GiveUp == /\ main \in Steps /\ ~Helps /\ Fails
          /\ Exit /\ code' = IF main = "flags" THEN 2 ELSE 1
          /\ Quiet

Tells == /\ Helps \/ main = "print"
         /\ Exit /\ code' = 0
         /\ Quiet

\* A signal before signal.NotifyContext.
Killed == /\ Starting
          /\ Exit /\ code' = 130
          /\ Quiet

Start == /\ main = "start"
         /\ IF ui THEN main' = "ui" /\ server' = "serve" /\ tui' = "running"
                  ELSE main' = "serving" /\ UNCHANGED <<server, tui>>
         /\ serve' = "call" /\ shutter' = "wait"
         /\ UNCHANGED <<env, ctx, expired, inShutdown, err, errCh, code, conn>>

\* Without the UI: main returns when ListenAndServe does.
Return == /\ main = "serving" /\ serve = "returned"
          /\ Exit /\ code' = IF err = Nil THEN 0 ELSE 1
          /\ Quiet

\* tui.Run has returned: main waits for the server's error.
UiReturns == /\ main = "ui" /\ tui = "ended" /\ main' = "receive"
             /\ UNCHANGED <<env, ctx, shutter, expired, listener, errCh, server, tui, code, conn>>

ReceiveErr == /\ main = "receive" /\ errCh # <<>>
              /\ errCh' = Tail(errCh)
              /\ Exit /\ code' = IF Head(errCh) = Nil THEN 0 ELSE 1
              /\ UNCHANGED <<env, ctx, shutter, expired, listener, server, tui>>
-------------------------------------------------------------------------------
(* The serving goroutine of the UI mode.                                     *)

ServeReturns == /\ Running /\ server = "serve" /\ serve = "returned" /\ server' = "send"
                /\ UNCHANGED <<env, ctx, shutter, expired, listener, errCh, tui, main, code, conn>>

\* make(chan error, 1)
Room == errCh = <<>>

SendErr == /\ Running /\ server = "send" /\ Room
           /\ server' = "stop" /\ errCh' = Append(errCh, err)
           /\ UNCHANGED <<env, ctx, shutter, expired, listener, tui, main, code, conn>>

Stop == /\ Running /\ server = "stop" /\ server' = "done" /\ ctx' = TRUE
        /\ UNCHANGED <<env, shutter, expired, listener, errCh, tui, main, code, conn>>
-------------------------------------------------------------------------------
(* The UI: the user quits (which calls stop), it fails, or the context ends it. *)

Quit == /\ Running /\ tui = "running" /\ tui' = "ended" /\ ctx' = TRUE
        /\ UNCHANGED <<env, shutter, expired, listener, errCh, server, main, code, conn>>

UiFails == /\ Running /\ tui = "running" /\ tui' = "ended"
           /\ UNCHANGED <<env, ctx, shutter, expired, listener, errCh, server, main, code, conn>>

\* Mutant: nothing tells the UI that the context is done.
Blind == FALSE

SeesDone == ctx

UiQuits == /\ Running /\ tui = "running" /\ SeesDone /\ tui' = "ended"
           /\ UNCHANGED <<env, ctx, shutter, expired, listener, errCh, server, main, code, conn>>

\* SIGINT or SIGTERM.
Signal == /\ Running /\ ~Starting /\ ~ctx /\ ctx' = TRUE
          /\ UNCHANGED <<env, shutter, expired, listener, errCh, server, tui, main, code, conn>>
-------------------------------------------------------------------------------
(* http.Server: ListenAndServe does not serve once Shutdown has begun, and     *)
(* returns ErrServerClosed (here Nil) as soon as it has.                       *)

\* Mutant: ErrServerClosed is an error like any other.
Unfiltered == "ErrServerClosed"

ServerClosed == Nil

Listen == /\ Running /\ serve = "call"
          /\ IF inShutdown THEN serve' = "returned" /\ err' = ServerClosed
             ELSE IF taken THEN serve' = "returned" /\ err' = BindError
             ELSE serve' = "listen" /\ UNCHANGED err
          /\ UNCHANGED <<env, ctx, shutter, expired, inShutdown, errCh, server, tui, main, code, conn>>

Track == /\ Running /\ serve = "listen"
         /\ IF inShutdown THEN serve' = "returned" /\ err' = ServerClosed
                          ELSE serve' = "accept" /\ UNCHANGED err
         /\ UNCHANGED <<env, ctx, shutter, expired, inShutdown, errCh, server, tui, main, code, conn>>

\* The closed listener makes the accept loop return.
Closed == /\ Running /\ serve = "accept" /\ inShutdown
          /\ serve' = "returned" /\ err' = ServerClosed
          /\ UNCHANGED <<env, ctx, shutter, expired, inShutdown, errCh, server, tui, main, code, conn>>

Accept(c) == /\ Running /\ serve = "accept" /\ ~inShutdown /\ conn[c] = "none"
             /\ conn' = [conn EXCEPT ![c] = "active"]
             /\ UNCHANGED <<env, ctx, shutter, expired, listener, errCh, server, tui, main, code>>

Finish(c) == /\ Running /\ conn[c] = "active"
             /\ conn' = [conn EXCEPT ![c] = "done"]
             /\ UNCHANGED <<env, ctx, shutter, expired, listener, errCh, server, tui, main, code>>

\* Mutant: the goroutine does not wait for the context.
AnyTime == TRUE

Due == ctx

BeginShutdown == /\ Running /\ shutter = "wait" /\ Due
                 /\ shutter' = "drain" /\ inShutdown' = TRUE
                 /\ UNCHANGED <<env, ctx, expired, serve, err, errCh, server, tui, main, code, conn>>

Drained == \A c \in Request : conn[c] # "active"

EndShutdown == /\ Running /\ shutter = "drain" /\ shutter' = "over"
               /\ \/ Drained /\ UNCHANGED expired
                  \/ ~Drained /\ expired' = TRUE
               /\ UNCHANGED <<env, ctx, listener, errCh, server, tui, main, code, conn>>
-------------------------------------------------------------------------------
Main == Proceed \/ GiveUp \/ Tells \/ Start \/ Return \/ UiReturns \/ ReceiveErr
Serving == Listen \/ Track \/ Closed
Goroutine == ServeReturns \/ SendErr \/ Stop
Shutting == BeginShutdown \/ EndShutdown

Next == \/ Main \/ Serving \/ Goroutine \/ Shutting
        \/ Quit \/ UiFails \/ UiQuits \/ Signal \/ Killed
        \/ \E c \in Client : Accept(c) \/ Finish(c)

Spec == Init /\ [][Next]_vars

\* Every goroutine runs; nobody has to send a signal, use the proxy or the UI.
FairSpec == /\ Spec
            /\ WF_vars(Main) /\ WF_vars(Serving) /\ WF_vars(Goroutine)
            /\ WF_vars(BeginShutdown) /\ WF_vars(UiQuits)
-------------------------------------------------------------------------------
Channel == {<<>>} \cup {<<e>> : e \in {Nil, BindError}}

TypeOK == /\ ui \in BOOLEAN /\ taken \in BOOLEAN /\ ctx \in BOOLEAN
          /\ asked \in {"serve", "help", "subcommand"} /\ bad \subseteq Steps
          /\ inShutdown \in BOOLEAN /\ expired \in BOOLEAN
          /\ shutter \in {"off", "wait", "drain", "over"}
          /\ serve \in {"off", "call", "listen", "accept", "returned"}
          /\ err \in {Nil, BindError} /\ errCh \in Channel
          /\ server \in {"off", "serve", "send", "stop", "done"}
          /\ tui \in {"off", "running", "ended"}
          /\ main \in Steps \cup {"print", "start", "serving", "ui", "receive", "exited"}
          /\ code \in {0, 1, 2, 130}
          /\ conn \in [Client -> {"none", "active", "done", "killed"}]

Needs == CASE asked = "serve" -> {"flags", "level", "config", "ca", "rules"}
           [] asked = "help" -> {}
           [] asked = "subcommand" -> {"args", "xdg", "ca"}

\* "ListenAndServe starts the proxy server and blocks until the context is
\* done", unless it cannot listen.  The exit code tells whether the process did
\* what it was asked to: 0 only if nothing that it needed failed, and 1 or 2 only
\* if something did.
BlocksUntilDone ==
  /\ serve = "returned" => ctx \/ err = BindError
  /\ main = "exited" =>
       /\ code \in {1, 2} => err = BindError \/ bad \cap Needs # {}
       /\ code = 0 => /\ err # BindError /\ bad \cap Needs = {}
                      /\ asked = "serve" => ctx

\* A signal, or the user's quit, ends the process, with the UI and without it,
\* wherever the start of the server has got to; so does a listen address in use,
\* with an error; and a subcommand ends by itself.
ProcessEnds == /\ ctx ~> main = "exited"
               /\ err = BindError ~> main = "exited" /\ code = 1
               /\ asked # "serve" ~> main = "exited"

\* "Graceful shutdown on SIGINT/SIGTERM": a request in flight is cut off only
\* after the five seconds that ListenAndServe gives it.
GracefulShutdown == \A c \in Request : conn[c] = "killed" => expired
===============================================================================
