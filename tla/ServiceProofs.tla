----------------------------- MODULE ServiceProofs -----------------------------
(***************************************************************************)
(* The serve command, with any number of connection threads: whatever      *)
(* fails, no thread runs on an object that is freed, the command returns   *)
(* with nothing left, and it waits only for threads it has told to end.    *)
(*                                                                         *)
(* None of the properties is inductive. ServiceInv adds where the command must   *)
(* be for an object to be live (Built), that an object stands on those it  *)
(* was made from (Stacked), that the threads are those of live objects     *)
(* (Used), and that what the teardown has passed is not live (Passed).     *)
(***************************************************************************)
EXTENDS Service, TLAPS

HubIsUp == {"startHub", "server", "startServer", "wait", "joinServer", "stopHub", "joinHub"}
PoolIsUp == {"hub"} \cup HubIsUp
ContextIsUp == {"batch", "pool"} \cup PoolIsUp
ServerIsUp == {"startServer", "wait", "joinServer"}
Places == {"universe", "teardown", "returned"} \cup ContextIsUp

Types ==
  /\ at \in Places
  /\ object \in [Objects -> {"none", "live", "freed"}]
  /\ left \in {Teardown, <<"pool", "context">>, <<"context">>, <<>>}
  /\ poller \in {"none", "idle", "fetching", "ended"}

Built ==
  /\ at \in ContextIsUp => object["context"] = "live"
  /\ at \in PoolIsUp => object["pool"] = "live"
  /\ at \in HubIsUp => object["hub"] = "live"
  /\ at = "universe" => object["context"] # "live"
  /\ object["server"] = "live" => at \in ServerIsUp
  /\ at \in ServerIsUp => object["server"] = "live"

Stacked ==
  /\ object["hub"] = "live" => object["pool"] = "live"
  /\ object["pool"] = "live" => object["context"] = "live"

Used ==
  /\ poller \in {"idle", "fetching"} => object["hub"] = "live"
  /\ acceptor = "running" \/ busy # {} => at \in {"wait", "joinServer"}

Passed ==
  /\ left # Teardown => at \in {"teardown", "returned"} /\ object["hub"] # "live"
  /\ left \in {<<"context">>, <<>>} => object["pool"] # "live"
  /\ left = <<>> => object["context"] # "live"
  /\ at = "returned" => object["context"] # "live"

ServiceInv == Types /\ Built /\ Stacked /\ Used /\ Passed

LEMMA ServiceInit == Init => ServiceInv
BY DEF Init, ServiceInv, Types, Built, Stacked, Used, Passed, Places, ContextIsUp,
       PoolIsUp, HubIsUp, ServerIsUp, Objects, Teardown

\* Building the objects one after the other, a failure leads to the teardown.
LEMMA ServiceBuilds ==
  ASSUME ServiceInv,
         BuildUniverse \/ AllocateBatch \/ CreatePool \/ CreateHub \/ StartHub
           \/ CreateServer \/ StartServer
  PROVE  ServiceInv'
<1> USE DEF ServiceInv, Types, Built, Stacked, Used, Passed, Places, ContextIsUp,
            PoolIsUp, HubIsUp, ServerIsUp, Objects, Make, Free, flags, threads
<1>1. CASE BuildUniverse
  BY <1>1 DEF BuildUniverse, Teardown
<1>2. CASE AllocateBatch
  BY <1>2 DEF AllocateBatch, Teardown
<1>3. CASE CreatePool
  BY <1>3 DEF CreatePool, Teardown
<1>4. CASE CreateHub
  BY <1>4 DEF CreateHub
<1>5. CASE StartHub
  BY <1>5 DEF StartHub
<1>6. CASE CreateServer
  BY <1>6 DEF CreateServer
<1>7. CASE StartServer
  BY <1>7 DEF StartServer
<1> QED BY <1>1, <1>2, <1>3, <1>4, <1>5, <1>6, <1>7

\* Stopping the server and the hub. The server is destroyed when it is drained.
LEMMA ServiceStops ==
  ASSUME ServiceInv,
         StopServer \/ DestroyServer \/ StopHub \/ HubStopped \/ DestroyHubStops
  PROVE  ServiceInv'
<1> USE DEF ServiceInv, Types, Built, Stacked, Used, Passed, Places, ContextIsUp,
            PoolIsUp, HubIsUp, ServerIsUp, Objects, Free, flags, threads
<1>1. CASE StopServer
  BY <1>1 DEF StopServer
<1>2. CASE DestroyServer
  BY <1>2 DEF DestroyServer, ServerDrained
<1>3. CASE StopHub
  BY <1>3 DEF StopHub
<1>4. CASE HubStopped
  BY <1>4 DEF HubStopped
<1>5. CASE DestroyHubStops
  BY <1>5 DEF DestroyHubStops
<1> QED BY <1>1, <1>2, <1>3, <1>4, <1>5

\* The objects are freed in an order in which nobody uses what is freed.
LEMMA ServiceFrees ==
  ASSUME ServiceInv, FreeNext
  PROVE  ServiceInv'
<1> USE DEF ServiceInv, Types, Built, Stacked, Used, Passed, Places, ContextIsUp,
            PoolIsUp, HubIsUp, ServerIsUp, Objects, Free, flags, threads
<1>1. CASE left = Teardown
  <2>1. Head(left) = "hub" /\ left' = <<"pool", "context">>
    BY <1>1 DEF FreeNext, Teardown
  <2> QED BY <1>1, <2>1 DEF FreeNext, MayFree, HubDrained, Teardown
<1>2. CASE left = <<"pool", "context">>
  <2>1. Head(left) = "pool" /\ left' = <<"context">>
    BY <1>2 DEF FreeNext
  <2> QED BY <1>2, <2>1 DEF FreeNext, MayFree, Teardown
<1>3. CASE left = <<"context">>
  <2>1. Head(left) = "context" /\ left' = <<>>
    BY <1>3 DEF FreeNext
  <2> QED BY <1>3, <2>1 DEF FreeNext, MayFree, Teardown
<1> QED BY <1>1, <1>2, <1>3 DEF FreeNext

LEMMA ServiceReturns ==
  ASSUME ServiceInv, Return
  PROVE  ServiceInv'
BY DEF Return, ServiceInv, Types, Built, Stacked, Used, Passed, Places, ContextIsUp,
       PoolIsUp, HubIsUp, ServerIsUp, Objects, flags, threads, Teardown

\* The threads, while the command does something else.
LEMMA ServiceThreads ==
  ASSUME ServiceInv,
         \/ Signal \/ PollerStep \/ AcceptorEnds \/ ListenerFails
         \/ \E h \in Handlers : HandlerStarts(h) \/ HandlerEnds(h)
  PROVE  ServiceInv'
<1> USE DEF ServiceInv, Types, Built, Stacked, Used, Passed, flags, threads
<1>1. CASE Signal
  BY <1>1 DEF Signal
<1>2. CASE PollerStep
  BY <1>2 DEF PollerStep, PollerFetches, PollerReturns, PollerEnds
<1>3. CASE AcceptorEnds
  BY <1>3 DEF AcceptorEnds
<1>4. CASE ListenerFails
  BY <1>4 DEF ListenerFails
<1>5. ASSUME NEW h \in Handlers, HandlerStarts(h) \/ HandlerEnds(h)
      PROVE  ServiceInv'
  BY <1>5 DEF HandlerStarts, HandlerEnds
<1> QED BY <1>1, <1>2, <1>3, <1>4, <1>5

LEMMA ServiceStep == ServiceInv /\ [Next]_vars => ServiceInv'
<1>1. ASSUME ServiceInv, Next
      PROVE  ServiceInv'
  BY <1>1, ServiceBuilds, ServiceStops, ServiceFrees, ServiceReturns, ServiceThreads
  DEF Next, CommandStep
<1>2. ServiceInv /\ UNCHANGED vars => ServiceInv'
  BY DEF vars, flags, threads, ServiceInv, Types, Built, Stacked, Used, Passed
<1> QED BY <1>1, <1>2

LEMMA ServiceInvariant == Spec => []ServiceInv
BY ServiceInit, ServiceStep, PTL DEF Spec

\* On every path of the command, those that fail half way included, no thread
\* of the hub or the server runs on an object that is freed (command_serve.c
\* 56-115, tdx_serve_run).
THEOREM NothingIsFreedInUse == Spec => []NothingFreedInUse
<1>1. ServiceInv => NothingFreedInUse
  BY DEF ServiceInv, Types, Built, Stacked, Used, NothingFreedInUse, ServerIsUp, HubIsUp
<1> QED BY <1>1, ServiceInvariant, PTL

\* When the command returns, nothing it made is live and no thread runs
\* (the label `done` of command_serve.c).
THEOREM CommandLeavesNothing == Spec => []ReturnsClean
<1>1. ServiceInv => ReturnsClean
  BY DEF ServiceInv, Types, Built, Stacked, Used, Passed, ReturnsClean, Objects,
         ServerIsUp
<1> QED BY <1>1, ServiceInvariant, PTL

-----------------------------------------------------------------------------
(* What stands between a signal and the return of the command. That it      *)
(* returns is a liveness property; that nothing blocks it is an invariant.  *)

\* The guards of the command's steps.
MayBuild == at \in {"universe", "batch", "pool", "hub", "startHub", "server", "startServer"}
MayTearDown ==
  at = "teardown" /\ \/ left = <<>>
                     \/ object[Head(left)] # "live"
                     \/ Head(left) = "hub" /\ ~hubStopping
                     \/ MayFree(Head(left))
CommandMayGoOn ==
  \/ MayBuild
  \/ at = "wait" /\ (signalled \/ serverStopping)
  \/ at = "joinServer" /\ ServerDrained
  \/ at = "stopHub"
  \/ at = "joinHub" /\ HubDrained
  \/ MayTearDown

\* Threads that were told to end and did not yet: the guards of AcceptorEnds and
\* HandlerEnds, and of PollerReturns and PollerEnds.
ServerMayEnd == serverStopping /\ (acceptor = "running" \/ busy # {})
PollerMayEnd == hubStopping /\ poller \in {"idle", "fetching"}

\* The command waits for a signal, or can go on, or waits for threads that it
\* has told to end; after a signal or a failing listener it is one of the last two.
NobodyIsStuck ==
  \/ at = "returned"
  \/ at = "wait" /\ ~signalled /\ ~serverStopping
  \/ CommandMayGoOn
  \/ at = "joinServer" /\ ServerMayEnd
  \/ at \in {"joinHub", "teardown"} /\ PollerMayEnd

\* Besides: whoever is waited for was told to end.
Told ==
  /\ at = "joinServer" => serverStopping
  /\ at \in {"wait", "joinServer"} => acceptor \in {"running", "ended"}
  /\ at = "joinHub" => hubStopping

LEMMA ToldNext == ServiceInv /\ Told /\ [Next]_vars => Told'
<1> SUFFICES ASSUME ServiceInv, Told, [Next]_vars PROVE Told'
  OBVIOUS
<1> USE DEF Told, flags, threads
<1>1. CASE UNCHANGED vars
  BY <1>1 DEF vars
<1>2. CASE BuildUniverse \/ AllocateBatch \/ CreatePool \/ CreateHub \/ StartHub \/ CreateServer
           \/ StartServer
  BY <1>2 DEF BuildUniverse, AllocateBatch, CreatePool, CreateHub, StartHub, CreateServer, StartServer
<1>3. CASE StopServer \/ DestroyServer \/ StopHub \/ HubStopped
  BY <1>3 DEF StopServer, DestroyServer, StopHub, TellHub, HubStopped
<1>4. CASE DestroyHubStops \/ FreeNext \/ Return
  BY <1>4 DEF DestroyHubStops, FreeNext, Return
<1>5. CASE Signal \/ PollerStep \/ AcceptorEnds \/ ListenerFails
           \/ \E h \in Handlers : HandlerStarts(h) \/ HandlerEnds(h)
  BY <1>5 DEF Signal, PollerStep, PollerFetches, PollerReturns, PollerEnds, AcceptorEnds,
     ListenerFails, HandlerStarts, HandlerEnds
<1> QED BY <1>1, <1>2, <1>3, <1>4, <1>5 DEF Next, CommandStep

LEMMA ToldImplies == ServiceInv /\ Told => NobodyIsStuck
<1> SUFFICES ASSUME ServiceInv, Told PROVE NobodyIsStuck
  OBVIOUS
<1>1. HubDrained \/ poller \in {"idle", "fetching"}
  BY DEF ServiceInv, Types, HubDrained
<1>2. CASE at \in {"joinServer", "joinHub"}
  BY <1>1, <1>2
     DEF Told, NobodyIsStuck, CommandMayGoOn, ServerDrained, ServerMayEnd, PollerMayEnd
<1>3. CASE at = "teardown"
  BY <1>1, <1>3 DEF NobodyIsStuck, CommandMayGoOn, MayTearDown, MayFree, PollerMayEnd
<1>4. CASE at \notin {"joinServer", "joinHub", "teardown"}
  BY <1>4 DEF ServiceInv, Types, Places, ContextIsUp, PoolIsUp, HubIsUp, NobodyIsStuck,
     CommandMayGoOn, MayBuild
<1> QED BY <1>2, <1>3, <1>4

\* On every path the command waits only for threads that it has told to end, in
\* tdx_server_destroy, tdx_hub_stop or tdx_hub_destroy (tdx_serve_run, and the
\* label `done` of command_serve.c).
THEOREM CommandIsNeverStuck == Spec => []NobodyIsStuck
<1>1. Init => Told
  BY DEF Init, Told
<1> QED BY <1>1, ToldNext, ToldImplies, ServiceInit, ServiceStep, PTL DEF Spec

=============================================================================
