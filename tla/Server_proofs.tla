---------------------------- MODULE Server_proofs -----------------------------
(* Proofs about Server, for any number of requests and tunnels.               *)
EXTENDS Server, TLAPS

\* The steps of the start that lie behind main did not fail.
Passed ==
  /\ asked \in {"serve", "help", "subcommand"}
  /\ main = "xdg" => asked = "subcommand" /\ bad \cap {"args"} = {}
  /\ main = "flags" => asked \in {"serve", "help"}
  /\ main = "level" => asked = "serve" /\ bad \cap {"flags"} = {}
  /\ main = "config" => asked = "serve" /\ bad \cap {"flags", "level"} = {}
  /\ main = "ca" => \/ asked = "serve" /\ bad \cap {"flags", "level", "config"} = {}
                    \/ asked = "subcommand" /\ bad \cap {"args", "xdg"} = {}
  /\ main = "rules" => asked = "serve" /\ bad \cap {"flags", "level", "config", "ca"} = {}
  /\ main = "print" => asked = "subcommand" /\ bad \cap {"args", "xdg", "ca"} = {}
  /\ main \in {"start", "serving", "ui", "receive"} =>
       asked = "serve" /\ bad \cap {"flags", "level", "config", "ca", "rules"} = {}

\* Shutdown begins only when the context is done.
ShutsWhenDone == inShutdown => ctx

\* The server returns for one of two reasons, and err tells which.
ErrTellsWhy == IF serve = "returned" THEN err = BindError \/ (err = Nil /\ inShutdown)
                                     ELSE err = Nil

\* What is on its way to main is that error.
ErrSent == /\ server \in {"send", "stop", "done"} => serve = "returned"
           /\ errCh = <<>> \/ (errCh = <<err>> /\ serve = "returned")

\* Before main starts them, nothing has run.
Unstarted == Starting \/ main = "start" => serve = "off" /\ server = "off" /\ errCh = <<>>

ExitTellsWhy ==
  main = "exited" =>
    /\ code \in {1, 2} => err = BindError \/ bad \cap Needs # {}
    /\ code = 0 => /\ err # BindError /\ bad \cap Needs = {}
                   /\ asked = "serve" => ctx

IInv == Passed /\ ShutsWhenDone /\ ErrTellsWhy /\ ErrSent /\ Unstarted /\ ExitTellsWhy
-------------------------------------------------------------------------------
\* The process starts with the server off and no error.
LEMMA InitInv == Init => IInv
BY DEF Init, IInv, Passed, ShutsWhenDone, ErrTellsWhy, ErrSent, Unstarted, ExitTellsWhy,
       Starting, Steps

\* Steps that do not start or end anything: of the start, up to the server.
LEMMA StartStep ==
  ASSUME IInv, Proceed \/ GiveUp \/ Tells \/ Killed PROVE IInv'
<1> USE Kinds DEF IInv, ShutsWhenDone, ErrTellsWhy, ErrSent, Unstarted, ExitTellsWhy, Quiet,
                  Exit, env, listener, Starting
<1>1. CASE Proceed
  <2>1. main \in Steps /\ ~Helps /\ ~Fails /\ main' = Follows[main] /\ UNCHANGED <<asked, bad>>
    BY <1>1 DEF Proceed
  <2>2. main \in {"args", "xdg", "flags", "level", "config", "ca", "rules"}
    BY <2>1 DEF Steps
  <2>3. Passed' /\ main' # "exited"
    <3> USE <2>1 DEF Passed, Helps, Fails, Follows
    <3>1. CASE main = "args"
      BY <3>1
    <3>2. CASE main = "xdg"
      BY <3>2
    <3>3. CASE main = "flags"
      BY <3>3
    <3>4. CASE main = "level"
      BY <3>4
    <3>5. CASE main = "config"
      BY <3>5
    <3>6. CASE main = "ca"
      BY <3>6
    <3>7. CASE main = "rules"
      BY <3>7
    <3> QED BY <2>2, <3>1, <3>2, <3>3, <3>4, <3>5, <3>6, <3>7
  <2> QED BY <1>1, <2>1, <2>3 DEF Proceed
<1>2. CASE GiveUp
  <2>1. bad \cap Needs # {}
    BY <1>2 DEF GiveUp, Fails, Helps, Passed, Needs, Steps
  <2>2. Needs' = Needs
    BY <1>2 DEF GiveUp, Needs
  <2> QED BY <1>2, <2>1, <2>2 DEF GiveUp, Passed
<1>3. CASE Tells
  <2>1. asked # "serve" /\ bad \cap Needs = {}
    BY <1>3 DEF Tells, Helps, Passed, Needs
  <2>2. Needs' = Needs
    BY <1>3 DEF Tells, Needs
  <2>3. err = Nil /\ serve # "returned"
    BY <1>3 DEF Tells, Helps, Steps
  <2>4. Passed'
    BY <1>3 DEF Tells, Passed
  <2>5. ExitTellsWhy'
    BY <1>3, <2>1, <2>2, <2>3 DEF Tells
  <2> QED BY <1>3, <2>3, <2>4, <2>5 DEF Tells, Steps
<1>4. CASE Killed
  BY <1>4 DEF Killed, Passed
<1> QED BY <1>1, <1>2, <1>3, <1>4

\* The steps of main from the start of the server on.
LEMMA MainStep == ASSUME IInv, Start \/ Return \/ UiReturns \/ ReceiveErr PROVE IInv'
<1> USE Kinds DEF IInv, Passed, ShutsWhenDone, ErrTellsWhy, ErrSent, Unstarted, ExitTellsWhy,
                  Starting, Steps, Quiet
<1>1. CASE Start
  BY <1>1 DEF Start, env, listener
<1>2. CASE Return
  BY <1>2 DEF Return, Exit, env, listener, Needs
<1>3. CASE UiReturns
  BY <1>3 DEF UiReturns, env, listener
<1>4. CASE ReceiveErr
  <2>1. Head(errCh) = err /\ Tail(errCh) = <<>> /\ serve = "returned"
    <3>1. errCh = <<err>> /\ serve = "returned"
      BY <1>4 DEF ReceiveErr
    <3> QED BY <3>1
  <2> QED BY <1>4, <2>1 DEF ReceiveErr, Exit, env, listener, Needs
<1> QED BY <1>1, <1>2, <1>3, <1>4

\* Steps of http.Server and of the goroutine that serves.
LEMMA ServeStep == ASSUME IInv, Serving \/ Goroutine PROVE IInv'
<1> USE DEF IInv, Passed, ShutsWhenDone, ErrTellsWhy, ErrSent, Unstarted, ExitTellsWhy, Running,
            Starting, Needs
<1>1. CASE Serving
  BY <1>1 DEF Serving, Listen, Track, Closed, ServerClosed, env, listener
<1>2. CASE ServeReturns \/ Stop
  BY <1>2 DEF ServeReturns, Stop, env, listener
<1>3. CASE SendErr
  BY <1>3 DEF SendErr, Room, env, listener
<1> QED BY <1>1, <1>2, <1>3 DEF Goroutine

\* Steps of the shutdown, of the UI, of the operating system and of the clients.
LEMMA OtherStep ==
  ASSUME IInv,
         Shutting \/ Quit \/ UiFails \/ UiQuits \/ Signal \/ \E c \in Client : Accept(c) \/ Finish(c)
  PROVE  IInv'
<1> USE DEF IInv, Passed, ShutsWhenDone, ErrTellsWhy, ErrSent, Unstarted, ExitTellsWhy, Running,
            Starting, Needs
<1>1. CASE Shutting
  BY <1>1 DEF Shutting, BeginShutdown, EndShutdown, Due, env, listener
<1>2. CASE Quit \/ UiFails \/ UiQuits \/ Signal
  BY <1>2 DEF Quit, UiFails, UiQuits, Signal, env, listener
<1>3. CASE \E c \in Client : Accept(c) \/ Finish(c)
  BY <1>3 DEF Accept, Finish, env, listener
<1> QED BY <1>1, <1>2, <1>3

\* IInv holds from the start of the process to its exit.
THEOREM Invariance == Spec => []IInv
<1>1. IInv /\ [Next]_vars => IInv'
  <2> SUFFICES ASSUME IInv, [Next]_vars PROVE IInv'
    OBVIOUS
  <2>1. CASE Next
    BY <2>1, StartStep, MainStep, ServeStep, OtherStep DEF Next, Main
  <2>2. CASE UNCHANGED vars
    BY <2>2 DEF vars, env, listener, IInv, Passed, ShutsWhenDone, ErrTellsWhy, ErrSent, Unstarted,
                ExitTellsWhy, Starting, Needs
  <2> QED BY <2>1, <2>2
<1> QED BY <1>1, InitInv, PTL DEF Spec

\* The server does not return before the context is done or the address is
\* found in use, and the exit code tells whether what the process was asked to
\* do failed, at the start or when it listened.
THEOREM BlocksUntilDoneHolds == Spec => []BlocksUntilDone
<1>1. IInv => BlocksUntilDone
  BY DEF IInv, ShutsWhenDone, ErrTellsWhy, ExitTellsWhy, BlocksUntilDone
<1> QED BY <1>1, Invariance, PTL
-------------------------------------------------------------------------------
\* The error channel holds at most one error.
LEMMA ErrChannel ==
  ASSUME TypeOK
  PROVE  /\ errCh = <<>> => Append(errCh, err) = <<err>>
         /\ errCh # <<>> => Tail(errCh) = <<>>
<1>1. errCh = <<>> \/ \E e \in {Nil, BindError} : errCh = <<e>>
  BY DEF TypeOK, Channel
<1>2. CASE errCh = <<>>
  BY <1>2
<1>3. ASSUME NEW e, errCh = <<e>> PROVE Tail(errCh) = <<>> /\ Head(errCh) = e
  BY <1>3
<1> QED BY <1>1, <1>2, <1>3

\* Every variable keeps its type: in particular the exit code is one of four and
\* the channel of the serving goroutine never holds more than its buffer.
THEOREM TypeCorrect == Spec => []TypeOK
<1>1. Init => TypeOK
  BY DEF Init, TypeOK, Steps, Channel
<1>2. TypeOK /\ [Next]_vars => TypeOK'
  <2> SUFFICES ASSUME TypeOK, [Next]_vars PROVE TypeOK'
    OBVIOUS
  <2>1. CASE Proceed
    <3>1. Follows[main] \in Steps \cup {"print", "start"}
      BY <2>1 DEF Proceed, Steps, Follows
    <3> QED BY <2>1, <3>1 DEF Proceed, TypeOK, Quiet, env, listener
  <2>2. CASE GiveUp \/ Tells \/ Killed
    BY <2>2 DEF GiveUp, Tells, Killed, Exit, Quiet, TypeOK, env, listener
  <2>3. CASE Start \/ Return \/ UiReturns
    BY <2>3 DEF Start, Return, UiReturns, Exit, Quiet, TypeOK, env, listener
  <2>4. CASE ReceiveErr
    <3>1. errCh' \in Channel /\ code' \in {0, 1} /\ main' = "exited"
      BY <2>4, ErrChannel DEF ReceiveErr, Exit, Channel
    <3>2. conn' \in [Client -> {"none", "active", "done", "killed"}]
      BY <2>4 DEF ReceiveErr, Exit, TypeOK
    <3> QED BY <2>4, <3>1, <3>2 DEF ReceiveErr, TypeOK, env, listener
  <2>5. CASE Serving \/ ServeReturns \/ Stop
    <3>1. CASE Listen
      BY <3>1 DEF Listen, ServerClosed, TypeOK, env, listener
    <3>2. CASE Track \/ Closed
      BY <3>2 DEF Track, Closed, ServerClosed, TypeOK, env, listener
    <3>3. CASE ServeReturns \/ Stop
      <4>1. ctx' \in BOOLEAN
        BY <3>3 DEF ServeReturns, Stop, TypeOK
      <4> QED BY <3>3, <4>1 DEF ServeReturns, Stop, TypeOK, env, listener
    <3> QED BY <2>5, <3>1, <3>2, <3>3 DEF Serving
  <2>6. CASE SendErr
    <3>1. errCh' = <<err>> /\ err \in {Nil, BindError}
      BY <2>6, ErrChannel DEF SendErr, Room, TypeOK
    <3>2. errCh' \in Channel
      BY <3>1 DEF Channel
    <3> QED BY <2>6, <3>2 DEF SendErr, TypeOK, env, listener
  <2>7. CASE Shutting \/ Quit \/ UiFails \/ UiQuits \/ Signal
    <3>1. CASE BeginShutdown
      BY <3>1 DEF BeginShutdown, TypeOK, env, listener
    <3>2. CASE EndShutdown
      <4>1. expired' \in BOOLEAN
        BY <3>2 DEF EndShutdown, TypeOK
      <4> QED BY <3>2, <4>1 DEF EndShutdown, TypeOK, env, listener
    <3>3. CASE Quit \/ UiFails \/ UiQuits \/ Signal
      <4>1. ctx' \in BOOLEAN
        BY <3>3 DEF Quit, UiFails, UiQuits, Signal, TypeOK
      <4> QED BY <3>3, <4>1 DEF Quit, UiFails, UiQuits, Signal, TypeOK, env, listener
    <3> QED BY <2>7, <3>1, <3>2, <3>3 DEF Shutting
  <2>8. CASE \E c \in Client : Accept(c) \/ Finish(c)
    BY <2>8 DEF Accept, Finish, TypeOK, env, listener
  <2>9. CASE UNCHANGED vars
    BY <2>9 DEF vars, TypeOK, env, listener
  <2> QED BY <2>1, <2>2, <2>3, <2>4, <2>5, <2>6, <2>7, <2>8, <2>9 DEF Next, Main, Goroutine
<1> QED BY <1>1, <1>2, PTL DEF Spec
===============================================================================
