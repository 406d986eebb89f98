-------------------------------- MODULE Service --------------------------------
(***************************************************************************)
(* The serve command (c/src/cli/command_serve.c and tdx_serve_run of       *)
(* c/src/tdx_serve.c): the order in which the pool, the hub and the server *)
(* are built, started, stopped and freed, with every failure on the way,   *)
(* against the threads that use them in the meantime.                      *)
(*                                                                         *)
(* The components are seen through what their own modules show of them:    *)
(* tdx_hub_stop returns when the poller has ended (StopDrains of Hub),     *)
(* tdx_server_stop when the accept thread and all handlers have            *)
(* (StopDrains of Server), tdx_pool_destroy when its workers have          *)
(* (DestroyLeavesNothing of Pool).                                         *)
(***************************************************************************)
EXTENDS Sequences, Integers

CONSTANTS
  Handlers       \* connection threads the server can run

Objects == {"context", "pool", "hub", "server"}

VARIABLES
  at,              \* where the command is
  object,          \* each object: not made yet, live, or freed
  left,            \* what the command still has to free
  hubStopping, serverStopping,
  poller,          \* the hub's thread
  acceptor,        \* the server's accept thread
  busy,            \* handlers running
  signalled        \* SIGINT or SIGTERM was caught

flags == <<hubStopping, serverStopping>>
threads == <<poller, acceptor, busy>>
vars == <<at, object, left, flags, threads, signalled>>

\* Mutant of Teardown: the pool before those who use it.
TeardownPoolFirst == <<"pool", "hub", "context">>

\* The label `done`: consumers before what they consume.
Teardown == <<"hub", "pool", "context">>

Init ==
  /\ at = "universe"
  /\ object = [o \in Objects |-> "none"]
  /\ left = Teardown
  /\ hubStopping = FALSE /\ serverStopping = FALSE
  /\ poller = "none" /\ acceptor = "none"
  /\ busy = {}
  /\ signalled = FALSE

Make(o) == object' = [object EXCEPT ![o] = "live"]
Free(o) == object' = [object EXCEPT ![o] = "freed"]

-----------------------------------------------------------------------------
(* Building. Any of these calls can fail; what was made before it is freed. *)

\* cli_build_universe: a failure returns at once, there is nothing to free.
BuildUniverse ==
  /\ at = "universe"
  /\ \/ Make("context") /\ at' = "batch"
     \/ at' = "returned" /\ UNCHANGED object
  /\ UNCHANGED <<left, flags, threads, signalled>>

AllocateBatch ==
  /\ at = "batch"
  /\ at' \in {"pool", "teardown"}
  /\ UNCHANGED <<object, left, flags, threads, signalled>>

CreatePool ==
  /\ at = "pool"
  /\ \/ Make("pool") /\ at' = "hub"
     \/ at' = "teardown" /\ UNCHANGED object
  /\ UNCHANGED <<left, flags, threads, signalled>>

CreateHub ==
  /\ at = "hub"
  /\ \/ Make("hub") /\ at' = "startHub"
     \/ at' = "teardown" /\ UNCHANGED object
  /\ UNCHANGED <<left, flags, threads, signalled>>

StartHub ==
  /\ at = "startHub"
  /\ \/ poller' = "idle" /\ at' = "server"
     \/ at' = "teardown" /\ UNCHANGED poller
  /\ UNCHANGED <<object, left, flags, acceptor, busy, signalled>>

\* The port may be taken.
CreateServer ==
  /\ at = "server"
  /\ \/ Make("server") /\ at' = "startServer"
     \/ at' = "teardown" /\ UNCHANGED object
  /\ UNCHANGED <<left, flags, threads, signalled>>

\* A server that does not start is destroyed; the hub is left to the teardown.
StartServer ==
  /\ at = "startServer"
  /\ \/ acceptor' = "running" /\ at' = "wait" /\ UNCHANGED object
     \/ Free("server") /\ at' = "teardown" /\ UNCHANGED acceptor
  /\ UNCHANGED <<left, flags, poller, busy, signalled>>

-----------------------------------------------------------------------------
(* Running and stopping.                                                    *)

Signal ==
  /\ at = "wait"
  /\ ~signalled
  /\ signalled' = TRUE
  /\ UNCHANGED <<at, object, left, flags, threads>>

StopServer ==
  /\ at = "wait"
  /\ signalled \/ serverStopping
  /\ serverStopping' = TRUE
  /\ at' = "joinServer"
  /\ UNCHANGED <<object, left, hubStopping, threads, signalled>>

ServerDrained == acceptor = "ended" /\ busy = {}

DestroyServer ==
  /\ at = "joinServer"
  /\ ServerDrained
  /\ Free("server")
  /\ at' = "stopHub"
  /\ UNCHANGED <<left, flags, threads, signalled>>

\* Mutant of TellHub: tdx_hub_stop only waits.
TellNobody == UNCHANGED hubStopping

TellHub == hubStopping' = TRUE

StopHub ==
  /\ at = "stopHub"
  /\ TellHub
  /\ at' = "joinHub"
  /\ UNCHANGED <<object, left, serverStopping, threads, signalled>>

HubDrained == poller \in {"none", "ended"}

HubStopped ==
  /\ at = "joinHub"
  /\ HubDrained
  /\ at' = "teardown"
  /\ UNCHANGED <<object, left, flags, threads, signalled>>

\* tdx_hub_destroy stops the hub first, once more or for the first time.
DestroyHubStops ==
  /\ at = "teardown"
  /\ left # <<>> /\ Head(left) = "hub"
  /\ object["hub"] = "live" /\ ~hubStopping
  /\ TellHub
  /\ UNCHANGED <<at, object, left, serverStopping, threads, signalled>>

\* Mutant of MayFree: destroying the hub does not wait for its thread.
MayFreeAtOnce(o) == o = "hub" => hubStopping

MayFree(o) == o = "hub" => hubStopping /\ HubDrained

\* What was made is freed, what was not is passed over.
FreeNext ==
  /\ at = "teardown"
  /\ left # <<>>
  /\ IF object[Head(left)] = "live"
     THEN MayFree(Head(left)) /\ Free(Head(left))
     ELSE UNCHANGED object
  /\ left' = Tail(left)
  /\ UNCHANGED <<at, flags, threads, signalled>>

Return ==
  /\ at = "teardown"
  /\ left = <<>>
  /\ at' = "returned"
  /\ UNCHANGED <<object, left, flags, threads, signalled>>

-----------------------------------------------------------------------------
(* The threads of the hub and of the server.                                *)

PollerFetches ==
  /\ poller = "idle" /\ ~hubStopping
  /\ poller' = "fetching"
  /\ UNCHANGED <<at, object, left, flags, acceptor, busy, signalled>>

PollerReturns ==
  /\ poller = "fetching"
  /\ poller' = "idle"
  /\ UNCHANGED <<at, object, left, flags, acceptor, busy, signalled>>

PollerEnds ==
  /\ poller = "idle" /\ hubStopping
  /\ poller' = "ended"
  /\ UNCHANGED <<at, object, left, flags, acceptor, busy, signalled>>

HandlerStarts(h) ==
  /\ acceptor = "running" /\ ~serverStopping
  /\ h \notin busy
  /\ busy' = busy \cup {h}
  /\ UNCHANGED <<at, object, left, flags, poller, acceptor, signalled>>

HandlerEnds(h) ==
  /\ h \in busy
  /\ busy' = busy \ {h}
  /\ UNCHANGED <<at, object, left, flags, poller, acceptor, signalled>>

AcceptorEnds ==
  /\ acceptor = "running" /\ serverStopping
  /\ acceptor' = "ended"
  /\ UNCHANGED <<at, object, left, flags, poller, busy, signalled>>

ListenerFails ==
  /\ acceptor = "running" /\ ~serverStopping
  /\ acceptor' = "ended"
  /\ serverStopping' = TRUE
  /\ UNCHANGED <<at, object, left, hubStopping, poller, busy, signalled>>

CommandStep ==
  \/ BuildUniverse \/ AllocateBatch \/ CreatePool \/ CreateHub \/ StartHub
  \/ CreateServer \/ StartServer \/ StopServer \/ DestroyServer \/ StopHub
  \/ HubStopped \/ DestroyHubStops \/ FreeNext \/ Return

PollerStep == PollerFetches \/ PollerReturns \/ PollerEnds

Next ==
  \/ CommandStep \/ Signal \/ PollerStep \/ AcceptorEnds \/ ListenerFails
  \/ \E h \in Handlers : HandlerStarts(h) \/ HandlerEnds(h)

Spec == Init /\ [][Next]_vars

\* A fetch is bounded, and a handler of a stopping server ends.
FairSpec ==
  /\ Spec
  /\ WF_vars(CommandStep) /\ WF_vars(PollerStep) /\ WF_vars(AcceptorEnds)
  /\ \A h \in Handlers : WF_vars(serverStopping /\ HandlerEnds(h))

-----------------------------------------------------------------------------
(* Properties.                                                              *)

\* "Stop consumers before releasing the fetch context and pool" (106): on every
\* path, the failing ones included, no thread runs on an object that is freed.
\* The poller uses the hub, a fetch the pool and the context as well; a handler
\* uses its server and the hub.
NothingFreedInUse ==
  /\ poller \in {"idle", "fetching"} => object["hub"] = "live"
  /\ poller = "fetching" => object["pool"] = "live" /\ object["context"] = "live"
  /\ acceptor = "running" \/ busy # {} => object["server"] = "live" /\ object["hub"] = "live"

\* When the command returns, nothing it made is left and no thread runs.
ReturnsClean ==
  at = "returned" =>
    /\ \A o \in Objects : object[o] # "live"
    /\ poller \in {"none", "ended"} /\ acceptor # "running" /\ busy = {}

\* A signal or a listener that fails ends the command.
CommandReturns == (signalled \/ serverStopping) ~> at = "returned"

=============================================================================
