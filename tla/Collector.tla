----------------------------- MODULE Collector -----------------------------
(***************************************************************************)
(* One exchange collector (src/src/collectors/base.py, binance.py) and the *)
(* CollectorManager that starts, stops and restarts it (manager.py), on    *)
(* behalf of API requests and of _recover_collectors (src/src/main.py).    *)
(*                                                                         *)
(* start() makes one connection task per batch of symbols, and two helper  *)
(* tasks (heartbeat, health monitor); several start() calls may overlap.   *)
(* A step is what runs between two awaits.  A cancelled connection task    *)
(* ends before its canceller is resumed.  Payloads and statistics are left *)
(* out; the exchange and the websockets library are external.              *)
(***************************************************************************)
EXTENDS Integers, FiniteSets

CONSTANTS
  Clients,      \* the client keys, one per batch of symbols
  Starts,       \* slots for start() tasks (bound when they are orphaned)
  Requests,     \* bound: the restart and force_recovery requests of a behaviour
  OverflowAt,   \* the retry for which base_delay * 2**retry overflows (1024)
  None          \* no task

ASSUME ClientsAssumption == IsFiniteSet(Clients) /\ Clients # {} /\ "unknown" \notin Clients
ASSUME StartsAssumption == IsFiniteSet(Starts) /\ None \notin Starts
ASSUME RequestsAssumption == "monitor" \notin Requests
ASSUME BoundAssumption == OverflowAt \in Nat \ {0}

VARIABLES
  managed,   \* CollectorManager.is_running
  tasks,     \* CollectorManager.tasks[exchange]: a start() task or None
  running,   \* ExchangeCollector.is_running
  start,     \* the start() tasks
  helpers,   \* the start() tasks whose heartbeat and health monitor are alive
  conn,      \* start() task -> client -> where its connection task is
  retry,     \* start() task -> client -> retry_count
  owner,     \* connection_tasks: client -> the start() whose task is registered
  ws,        \* websocket_clients: client -> the start() whose socket is registered
  sockets,   \* <<start, client>> for every open socket
  up,        \* the exchange accepts connections
  heard,     \* connection_health has its only key, "unknown"
  pc, op, left, awaited,  \* the callers of stop_all and restart_collector
  overlaps   \* history: how many callers began while another was at work

taskVars   == <<start, helpers, conn, retry>>
dictVars   == <<owner, ws, sockets>>
callerVars == <<pc, op, left, awaited, overlaps>>
vars == <<managed, tasks, running, taskVars, dictVars, up, heard, callerVars>>

Callers == Requests \cup {"monitor"}
Live(s, c) == conn[s][c] \in {"loop", "connecting", "listening", "closing"}
Nobody == [c \in Clients |-> None]

\* slots no task, dictionary, socket or caller refers to
Free == {s \in Starts :
           /\ start[s] = "done" /\ s \notin helpers /\ tasks # s
           /\ \A c \in Clients : ~Live(s, c) /\ owner[c] # s /\ ws[c] # s /\ <<s, c>> \notin sockets
           /\ \A p \in Callers : awaited[p] # s}

\* startup(): initialize() has succeeded and start_all has made the first start() task
Init ==
  /\ managed = TRUE /\ tasks \in Starts /\ running = FALSE
  /\ start = [s \in Starts |-> IF s = tasks THEN "new" ELSE "done"] /\ helpers = {}
  /\ conn = [s \in Starts |-> [c \in Clients |-> "ended"]]
  /\ retry = [s \in Starts |-> [c \in Clients |-> 0]]
  /\ owner = Nobody /\ ws = Nobody /\ sockets = {}
  /\ up = TRUE /\ heard = FALSE
  /\ pc = [p \in Callers |-> "idle"] /\ op = [p \in Callers |-> "recover"]
  /\ left = [p \in Callers |-> {}] /\ awaited = [p \in Callers |-> None]
  /\ overlaps = 0

-----------------------------------------------------------------------------
(* start().                                                                *)

\* a start() task begins: it returns at once if the collector runs already
StartRuns(s) ==
  /\ start[s] = "new"
  /\ \/ /\ running /\ start' = [start EXCEPT ![s] = "done"]
        /\ UNCHANGED <<running, helpers, conn, retry, owner>>
     \/ /\ ~running /\ running' = TRUE
        /\ start' = [start EXCEPT ![s] = "starting"] /\ helpers' = helpers \cup {s}
        /\ conn' = [conn EXCEPT ![s] = [c \in Clients |-> "loop"]]
        /\ retry' = [retry EXCEPT ![s] = [c \in Clients |-> 0]]
        /\ owner' = [c \in Clients |-> s]
  /\ UNCHANGED <<managed, tasks, ws, sockets, up, heard, callerVars>>

\* update_collector_status, which raises nothing, is over: gather of all tasks
StartGathers(s) ==
  /\ start[s] = "starting" /\ start' = [start EXCEPT ![s] = "gather"]
  /\ UNCHANGED <<managed, tasks, running, helpers, conn, retry, dictVars, up, heard, callerVars>>

\* heartbeat and health monitor wake up every minute and test is_running
HelpersEnd(s) ==
  /\ s \in helpers /\ ~running /\ helpers' = helpers \ {s}
  /\ UNCHANGED <<managed, tasks, running, start, conn, retry, dictVars, up, heard, callerVars>>

\* Faulty variant: no finally clause, is_running is left as it is.
StartEndsStillRunning(s) ==
  /\ \/ start[s] = "gather" /\ s \notin helpers /\ \A c \in Clients : ~Live(s, c)
     \/ start[s] = "cancelled"
  /\ start' = [start EXCEPT ![s] = "done"]
  /\ UNCHANGED <<managed, tasks, running, helpers, conn, retry, dictVars, up, heard, callerVars>>

\* all tasks are over, or start() was cancelled: finally, is_running is cleared
StartEnds(s) ==
  /\ \/ start[s] = "gather" /\ s \notin helpers /\ \A c \in Clients : ~Live(s, c)
     \/ start[s] = "cancelled"
  /\ start' = [start EXCEPT ![s] = "done"] /\ running' = FALSE
  /\ UNCHANGED <<managed, tasks, helpers, conn, retry, dictVars, up, heard, callerVars>>

-----------------------------------------------------------------------------
(* _connection_manager, the connection task of client c made by start() s. *)

Others == <<managed, tasks, start, helpers, running, up, callerVars>>

\* the loop has ended: a registered socket, whosever it is, is closed.  cl and
\* socks are websocket_clients and the open sockets at this point.
Cleanup(s, c, cl, socks) ==
  /\ ws' = cl /\ sockets' = socks \ {<<cl[c], c>>}
  /\ conn' = [conn EXCEPT ![s][c] = IF cl[c] # None THEN "closing" ELSE "ended"]

\* the top of the loop, after creation or a backoff sleep
LoopTop(s, c) ==
  /\ conn[s][c] = "loop"
  /\ \/ running /\ conn' = [conn EXCEPT ![s][c] = "connecting"] /\ UNCHANGED <<ws, sockets>>
     \/ ~running /\ Cleanup(s, c, ws, sockets)
  /\ UNCHANGED <<Others, retry, owner, heard>>

\* create_websocket_connection returns; the message loop tests is_running first
Connected(s, c) ==
  LET cl == [ws EXCEPT ![c] = s]  socks == sockets \cup {<<s, c>>} IN
  /\ conn[s][c] = "connecting" /\ up
  /\ \/ /\ running /\ conn' = [conn EXCEPT ![s][c] = "listening"]
        /\ ws' = cl /\ sockets' = socks /\ UNCHANGED retry
     \/ /\ ~running /\ Cleanup(s, c, cl, socks)
        /\ retry' = [retry EXCEPT ![s][c] = 0]
  /\ UNCHANGED <<Others, owner, heard>>

\* Faulty variant: a task dies of its first failure.
FailedGivesUp(s, c, socks) ==
  /\ retry' = [retry EXCEPT ![s][c] = @ + 1]
  /\ \/ ~running /\ Cleanup(s, c, ws, socks)
     \/ running /\ sockets' = socks /\ conn' = [conn EXCEPT ![s][c] = "ended"] /\ UNCHANGED ws
  /\ UNCHANGED <<Others, owner, heard>>

\* the except clause: 2**retry_count overflows at last, and the task dies of it
Failed(s, c, socks) ==
  /\ retry' = [retry EXCEPT ![s][c] = @ + 1]
  /\ \/ ~running /\ Cleanup(s, c, ws, socks)
     \/ /\ running /\ sockets' = socks /\ UNCHANGED ws
        /\ conn' = [conn EXCEPT ![s][c] = IF retry[s][c] + 1 < OverflowAt THEN "loop" ELSE "ended"]
  /\ UNCHANGED <<Others, owner, heard>>

ConnectFails(s, c) == conn[s][c] = "connecting" /\ ~up /\ Failed(s, c, sockets)

\* recv() raises: the peer, or close_websocket_connection, has closed the socket
Dropped(s, c) == conn[s][c] = "listening" /\ Failed(s, c, sockets \ {<<s, c>>})

\* recv() returns a frame; process_and_store_ohlcv books it under client_key
\* "unknown", its default.  Then is_running is tested again.
Message(s, c) ==
  /\ conn[s][c] = "listening" /\ <<s, c>> \in sockets /\ heard' = TRUE
  /\ \/ running /\ UNCHANGED <<conn, retry, ws, sockets>>
     \/ /\ ~running /\ Cleanup(s, c, ws, sockets)
        /\ retry' = [retry EXCEPT ![s][c] = 0]
  /\ UNCHANGED <<Others, owner>>

\* the close() of the cleanup returns
Closed(s, c) ==
  /\ conn[s][c] = "closing" /\ conn' = [conn EXCEPT ![s][c] = "ended"]
  /\ ws' = [ws EXCEPT ![c] = None]
  /\ UNCHANGED <<Others, retry, owner, sockets, heard>>

ExchangeChanges ==
  /\ up' = ~up
  /\ UNCHANGED <<managed, tasks, running, taskVars, dictVars, heard, callerVars>>

-----------------------------------------------------------------------------
(* stop(), for caller p.                                                   *)

Registered(c) == owner[c] # None /\ Live(owner[c], c)
Returned(p) == IF p = "monitor" THEN "idle" ELSE "done"
At(p, where, rest) == pc' = [pc EXCEPT ![p] = where] /\ left' = [left EXCEPT ![p] = rest]

\* close the next of the sockets keys; after the last one the dictionaries are
\* cleared and the status update is awaited
CloseNext(p, keys, cl) ==
  \/ \E c \in keys :
       /\ cl[c] # None /\ ws' = cl /\ sockets' = sockets \ {<<cl[c], c>>}
       /\ awaited' = [awaited EXCEPT ![p] = c] /\ At(p, "close", keys \ {c})
       /\ UNCHANGED owner
  \/ /\ \A c \in keys : cl[c] = None
     /\ ws' = Nobody /\ owner' = Nobody /\ UNCHANGED <<sockets, awaited>> /\ At(p, "status", {})

\* Faulty variant: only the tasks that have a socket are cancelled.
CancelNextConnected(p, keys) ==
  \/ \E c \in keys :
       /\ Registered(c) /\ ws[c] # None /\ conn' = [conn EXCEPT ![owner[c]][c] = "ended"]
       /\ ws' = IF conn[owner[c]][c] = "closing" THEN [ws EXCEPT ![c] = None] ELSE ws
       /\ At(p, "cancel", keys \ {c}) /\ UNCHANGED <<sockets, owner, awaited>>
  \/ /\ \A c \in keys : ~Registered(c) \/ ws[c] = None
     /\ CloseNext(p, {c \in Clients : ws[c] # None}, ws) /\ UNCHANGED conn

\* cancel and await the next of the registered tasks keys; then close the sockets
CancelNext(p, keys) ==
  \/ \E c \in keys :
       /\ Registered(c) /\ conn' = [conn EXCEPT ![owner[c]][c] = "ended"]
       /\ ws' = IF conn[owner[c]][c] = "closing" THEN [ws EXCEPT ![c] = None] ELSE ws
       /\ At(p, "cancel", keys \ {c}) /\ UNCHANGED <<sockets, owner, awaited>>
  \/ /\ \A c \in keys : ~Registered(c)
     /\ CloseNext(p, {c \in Clients : ws[c] # None}, ws) /\ UNCHANGED conn

BeginStop(p) ==
  /\ running' = FALSE
  /\ CancelNext(p, {c \in Clients : owner[c] # None})

\* an exception reaches the caller: a dictionary changed size while it was iterated
\* over, or tasks[exchange] was gone.  The gather() of stop_all swallows those of stop().
Raises(p) == At(p, Returned(p), {}) /\ awaited' = [awaited EXCEPT ![p] = None]

StopCancelled(p) ==
  /\ pc[p] = "cancel"
  /\ \/ owner # Nobody /\ CancelNext(p, left[p])
     \/ /\ owner = Nobody /\ UNCHANGED <<conn, dictVars>>
        /\ IF op[p] = "restart" THEN Raises(p) ELSE At(p, "status", {}) /\ UNCHANGED awaited
  /\ UNCHANGED <<managed, tasks, running, start, helpers, retry, up, heard, op, overlaps>>

StopClosed(p) ==
  /\ pc[p] = "close"
  /\ CloseNext(p, left[p], [ws EXCEPT ![awaited[p]] = None])
  /\ UNCHANGED <<managed, tasks, running, taskVars, up, heard, op, overlaps>>

-----------------------------------------------------------------------------
(* restart_collector and _recover_collectors (stop_all, a pause, start_all) *)

Resting(p) == pc[p] \in {"idle", "done"}

\* a request arrives from the network, and the monitor wakes up, after a start() task
\* created before that has had its first step
MayBegin(p) ==
  /\ pc[p] = "idle" /\ \A s \in Starts : start[s] # "new"

\* history: a caller begins; nothing in the code makes it wait for one that is at work
CountsOverlap == overlaps' = IF \E q \in Callers : ~Resting(q) THEN overlaps + 1 ELSE overlaps

BeginRestart(p) ==
  /\ p \in Requests /\ MayBegin(p) /\ CountsOverlap /\ op' = [op EXCEPT ![p] = "restart"]
  /\ BeginStop(p)
  /\ UNCHANGED <<managed, tasks, start, helpers, retry, up, heard>>

\* stop_all does nothing when the manager is stopped; the monitor begins only then,
\* as its check is the flag of the manager
BeginRecover(p) ==
  /\ MayBegin(p) /\ (p = "monitor" => ~managed) /\ CountsOverlap
  /\ op' = [op EXCEPT ![p] = "recover"]
  /\ \/ managed /\ managed' = FALSE /\ BeginStop(p)
     \/ /\ ~managed /\ At(p, "pause", {})
        /\ UNCHANGED <<managed, running, conn, dictVars, awaited>>
  /\ UNCHANGED <<tasks, start, helpers, retry, up, heard>>

AfterStop(p) == IF op[p] = "restart" THEN "init" ELSE "pause"

\* stop() has returned: cancel the start() task and await it, if it is not done.  The
\* cancellation of gather() cancels its tasks; one before gather() leaves them alone.
StopReturns(p) ==
  /\ pc[p] = "status"
  /\ IF tasks = None \/ start[tasks] = "done"
     THEN /\ tasks' = None /\ awaited' = [awaited EXCEPT ![p] = None] /\ At(p, AfterStop(p), {})
          /\ UNCHANGED <<start, helpers, conn>>
     ELSE /\ awaited' = [awaited EXCEPT ![p] = tasks] /\ At(p, "await", {}) /\ UNCHANGED tasks
          /\ start' = [start EXCEPT ![tasks] = IF @ = "new" THEN "done" ELSE "cancelled"]
          /\ IF start[tasks] = "gather"
             THEN /\ helpers' = helpers \ {tasks}
                  /\ conn' = [conn EXCEPT ![tasks] = [c \in Clients |-> "ended"]]
             ELSE UNCHANGED <<helpers, conn>>
  /\ UNCHANGED <<managed, running, retry, dictVars, up, heard, op, overlaps>>

\* the start() task is over; its entry may have been removed by somebody else
TaskEnded(p) ==
  /\ pc[p] = "await" /\ start[awaited[p]] = "done"
  /\ \/ tasks = None /\ Raises(p) /\ UNCHANGED tasks
     \/ /\ tasks # None /\ tasks' = None
        /\ awaited' = [awaited EXCEPT ![p] = None] /\ At(p, AfterStop(p), {})
  /\ UNCHANGED <<managed, running, taskVars, dictVars, up, heard, op, overlaps>>

NewStart == \E s \in Free : tasks' = s /\ start' = [start EXCEPT ![s] = "new"]

\* initialize_clients asks a new HTTP client for the exchange info, and raises without it
ClientsInitialized == up

\* restart: initialize() goes on with the symbols of the exchange info, or fails
Initialized(p) ==
  /\ pc[p] = "init" /\ At(p, Returned(p), {})
  /\ \/ ClientsInitialized /\ NewStart
     \/ ~ClientsInitialized /\ UNCHANGED <<tasks, start>>
  /\ UNCHANGED <<managed, running, helpers, conn, retry, dictVars, up, heard, op, overlaps, awaited>>

\* no cancelled task has yet to run once more and end
NoneEnding == (\A q \in Callers : pc[q] # "cancel") /\ \A s \in Starts : start[s] # "cancelled"

\* Faulty variant: start_all gives up while the exchange is away.
PauseEndsIfUp(p) ==
  /\ pc[p] = "pause" /\ NoneEnding
  /\ At(p, Returned(p), {})
  /\ \/ ~managed /\ up /\ NewStart /\ managed' = TRUE
     \/ (managed \/ ~up) /\ UNCHANGED <<managed, tasks, start>>
  /\ UNCHANGED <<running, helpers, conn, retry, dictVars, up, heard, op, overlaps, awaited>>

\* recovery: start_all after the pause, unless somebody else has started by now.  The
\* pause of five seconds is longer than it takes a cancelled task to end.
PauseEnds(p) ==
  /\ pc[p] = "pause" /\ NoneEnding
  /\ At(p, Returned(p), {}) /\ managed' = TRUE
  /\ \/ ~managed /\ NewStart
     \/ managed /\ UNCHANGED <<tasks, start>>
  /\ UNCHANGED <<running, helpers, conn, retry, dictVars, up, heard, op, overlaps, awaited>>

-----------------------------------------------------------------------------
ConnStep(s, c) == LoopTop(s, c) \/ Connected(s, c) \/ ConnectFails(s, c) \/ Closed(s, c)
StartStep(s) == StartRuns(s) \/ StartGathers(s) \/ HelpersEnd(s) \/ StartEnds(s)
CallerStep(p) == StopCancelled(p) \/ StopClosed(p) \/ StopReturns(p) \/ TaskEnded(p)
                   \/ Initialized(p) \/ PauseEnds(p)

Next ==
  \/ \E s \in Starts :
       StartStep(s) \/ \E c \in Clients : ConnStep(s, c) \/ Dropped(s, c) \/ Message(s, c)
  \/ \E p \in Callers : BeginRecover(p) \/ BeginRestart(p) \/ CallerStep(p)
  \/ ExchangeChanges

Spec == Init /\ [][Next]_vars

\* The event loop runs every ready task, sleeps end, and connecting and closing have
\* timeouts in the library.  No frame need ever arrive and no connection need drop.
Fairness ==
  /\ \A s \in Starts : WF_vars(StartStep(s)) /\ \A c \in Clients : WF_vars(ConnStep(s, c))
  /\ \A p \in Callers : WF_vars(CallerStep(p))
  /\ WF_vars(BeginRecover("monitor"))
FairSpec == Spec /\ Fairness

-----------------------------------------------------------------------------
(* Properties.                                                             *)

\* The types.
TypeOK ==
  /\ {managed, running, up, heard} \subseteq BOOLEAN
  /\ tasks \in Starts \cup {None} /\ helpers \subseteq Starts
  /\ start \in [Starts -> {"new", "starting", "gather", "cancelled", "done"}]
  /\ conn \in [Starts -> [Clients -> {"loop", "connecting", "listening", "closing", "ended"}]]
  /\ retry \in [Starts -> [Clients -> 0..OverflowAt]]
  /\ {owner, ws} \subseteq [Clients -> Starts \cup {None}]
  /\ sockets \subseteq Starts \X Clients
  /\ pc \in [Callers -> {"idle", "cancel", "close", "status", "await", "init", "pause", "done"}]
  /\ op \in [Callers -> {"restart", "recover"}]
  /\ left \in [Callers -> SUBSET Clients]
  /\ awaited \in [Callers -> Starts \cup Clients \cup {None}] /\ overlaps \in Nat

\* However often the collector is restarted, every batch of symbols has one connection
\* task, so that no candle is collected twice, and no more than one besides for every
\* request or recovery that began while another was at work.
OneTaskPerClient ==
  \A c \in Clients : Cardinality({s \in Starts : Live(s, c)}) <= 1 + overlaps

\* Until two callers overlap, every open socket is registered, also while tasks clean up
\* and stop() works: the next stop() closes it.
SocketsAreRegistered == overlaps = 0 => \A k \in sockets : ws[k[2]] = k[1]

\* Until two callers overlap, one that has stopped the collector finds it stopped: between
\* stop() and the next start() there is no connection task and no open socket.
StopIsComplete ==
  overlaps = 0 /\ (\E p \in Requests : pc[p] \in {"status", "await", "init"}) =>
    sockets = {} /\ \A s \in Starts, c \in Clients : ~Live(s, c)

\* Also when callers overlap, is_running never outlives the start() tasks: a collector
\* that looks running to the next start() has somebody who will clear the flag.
RunningHasAStart == running => \E s \in Starts : start[s] \in {"starting", "gather", "cancelled"}

\* While the collector runs and the exchange accepts connections, every batch is
\* connected again and again, unless its task has died of the overflow.
Attended(c) ==
  owner[c] # None /\ \/ conn[owner[c]][c] = "listening"
                     \/ conn[owner[c]][c] = "ended" /\ retry[owner[c]][c] = OverflowAt
EveryClientConnects == <>[](up /\ running) => \A c \in Clients : []<>Attended(c)

\* A recovery of the collectors that was begun is ended by a start_all.
RecoveryRestarts == ~managed ~> managed

-----------------------------------------------------------------------------
(* The health probe of main.py, and what the comments of the code promise  *)
(* and the code does not do.                                               *)

ConnectedKeys == {c \in Clients : ws[c] # None}
ExpectedKeys == ConnectedKeys \cup (IF heard THEN {"unknown"} ELSE {})
WsStatus == IF ExpectedKeys = {} THEN "failed"
            ELSE IF ConnectedKeys # ExpectedKeys THEN "degraded" ELSE "ok"

\* base.py:49 "Infinite retries for WebSocket connections": the connection task of a
\* running collector never gives up.
RetriesForEver ==
  \A s \in Starts, c \in Clients : running /\ start[s] = "gather" => Live(s, c)

\* base.py:380 "Monitor connection health and trigger reconnects if needed": a socket
\* without frames is replaced in the end.
SilentIsReconnected ==
  \A s \in Starts, c \in Clients : ~<>[](running /\ conn[s][c] = "listening" /\ ~heard)

\* main.py:360 "expected if it appears in websocket_clients (currently open)": a key in
\* websocket_clients has an open socket.
ConnectedIsOpen == \A c \in Clients : ws[c] # None => <<ws[c], c>> \in sockets

\* main.py:361 "or connection_health (was opened at least once)": when every batch has
\* an open socket, the probe reports no missing connection.
AllOpenIsOk ==
  (\A c \in Clients : \E s \in Starts : <<s, c>> \in sockets /\ ws[c] = s) => WsStatus = "ok"

\* main.py:195 "Data collectors recovered": when no caller is at work and the manager
\* counts as running, there is a start() task.
RecoveredIsRunning ==
  managed /\ (\A p \in Callers : Resting(p)) => tasks # None /\ start[tasks] # "done"

\* manager.py:104 "Restart a specific collector", also when two requests overlap: one
\* connection task per batch.
RestartsDoNotDouble ==
  \A c \in Clients : Cardinality({s \in Starts : Live(s, c)}) <= 1
=============================================================================
