------------------------------ MODULE WorkerPool ------------------------------
(***************************************************************************)
(* The server role of the forward router: tools/call requests served by a  *)
(* local handler run as spawned tasks (spawn_pooled_call), bounded by a    *)
(* semaphore, an idle deadline and the client's cancellations; calls with  *)
(* the task augmentation become background tasks (originate_task) whose    *)
(* records the client polls and cancels; at shutdown both are drained.     *)
(*                                                                         *)
(* A tokio task runs from one await to the next.  An abort drops it where  *)
(* it is suspended; one that arrives while it runs takes effect at a later *)
(* await, or never if it does not suspend again.  Deadlines are kept as    *)
(* the time left until them, so that time itself needs no bound.           *)
(***************************************************************************)
EXTENDS Naturals, FiniteSets

CONSTANTS
  Calls,      \* ids of the pooled calls the client may make
  Tasks,      \* ids of the server tasks the client may originate
  Cap,        \* permits of the semaphore, 0 for none (set_worker_pool)
  Idle,       \* idle_ms in ticks, 0 for no deadline
  Drain       \* drain_ms in ticks, 0 to abort at once (set_drain_timeout)

ASSUME PoolAssumption ==
  /\ IsFiniteSet(Calls) /\ IsFiniteSet(Tasks) /\ Calls \cap Tasks = {}
  /\ Cap \in Nat /\ Idle \in Nat /\ Drain \in Nat

VARIABLES
  runtime,    \* "current_thread" (the tests) or "multi_thread" (the binaries)
  route,      \* the route loop and the shutdown after it
  fresh,      \* the call or task spawned and not yet entered in its handle map
  pc,         \* where the task of each pooled call is
  outcome,    \* the response a call's task has composed
  permits,    \* free permits
  timer,      \* time left of tokio::time::timeout around a working call
  inflight,   \* the InFlight registry: ids present
  idleLeft,   \* time left until the deadline the registry holds
  poolTasks,  \* pool_tasks: calls with an abort handle in the map
  poolTokens, \* pool_tokens: calls whose progress token is mapped
  aborting,   \* calls aborted while they were running
  cancelled,  \* history: calls whose cancellation found a handle
  tpc,        \* where the execution of each server task is
  status,     \* ServerTasks: the record of each task
  taskHandles,\* task_handles
  drainLeft,  \* time left of the drain window
  reaped      \* history: calls and tasks dropped by the shutdown

callVars == <<pc, outcome, permits, timer, inflight, idleLeft, poolTasks, poolTokens,
              aborting, cancelled>>
taskVars == <<tpc, status, taskHandles>>
loopVars == <<route, fresh, drainLeft, reaped>>
vars == <<runtime, loopVars, callVars, taskVars>>

Terminal == {"completed", "failed", "cancelled"}
Holding == {"working", "worked", "unregistered", "unhandled", "sending"}

Init ==
  /\ runtime \in {"current_thread", "multi_thread"}
  /\ route = "reading" /\ fresh = {} /\ drainLeft = 0 /\ reaped = {}
  /\ pc = [c \in Calls |-> "none"] /\ outcome = [c \in Calls |-> "none"]
  /\ permits = Cap
  /\ timer = [c \in Calls |-> 0] /\ idleLeft = [c \in Calls |-> 0]
  /\ inflight = {} /\ poolTasks = {} /\ poolTokens = {}
  /\ aborting = {} /\ cancelled = {}
  /\ tpc = [t \in Tasks |-> "none"] /\ status = [t \in Tasks |-> "none"]
  /\ taskHandles = {}

\* On the current_thread runtime whoever runs, a task or the loop, keeps the thread
\* until its next await.
BetweenAwaits ==
  {c \in Calls : pc[c] \in {"worked", "unregistered", "unhandled"}}
    \cup {t \in Tasks : tpc[t] \in {"ran", "stored"}}

LoopTurn == runtime = "multi_thread" \/ BetweenAwaits = {}
TaskTurn(x) ==
  runtime = "multi_thread" \/ (route # "inserting" /\ BetweenAwaits \subseteq {x})

AtMessage == route = "reading" /\ LoopTurn

-------------------------------------------------------------------------------
\* The route loop: one client message at a time.

\* A call: map its progress token and spawn its task...
SpawnCall(c) ==
  /\ AtMessage /\ pc[c] = "none"
  /\ poolTokens' = poolTokens \cup {c}
  /\ pc' = [pc EXCEPT ![c] = "queued"]
  /\ fresh' = {c} /\ route' = "inserting"
  /\ UNCHANGED <<runtime, drainLeft, reaped, outcome, permits, timer, inflight, idleLeft,
                 poolTasks, aborting, cancelled, taskVars>>

\* ... or create a working record and spawn its execution...
SpawnTask(t) ==
  /\ AtMessage /\ tpc[t] = "none"
  /\ status' = [status EXCEPT ![t] = "working"]
  /\ tpc' = [tpc EXCEPT ![t] = "running"]
  /\ fresh' = {t} /\ route' = "inserting"
  /\ UNCHANGED <<runtime, drainLeft, reaped, callVars, taskHandles>>

\* ... and then enter the abort handle in the map.
InsertHandle ==
  /\ route = "inserting"
  /\ poolTasks' = poolTasks \cup (fresh \cap Calls)
  /\ taskHandles' = taskHandles \cup (fresh \cap Tasks)
  /\ fresh' = {} /\ route' = "reading"
  /\ UNCHANGED <<runtime, drainLeft, reaped, pc, outcome, permits, timer, inflight,
                 idleLeft, poolTokens, aborting, cancelled, tpc, status>>

\* Tasks that are suspended are dropped, with the permit they hold; the others go on.
Suspended == {"queued", "working", "sending"}

\* An abort that leaks the permits of the calls it drops.
AbortCalls_leak(S) ==
  LET dropped == {c \in S : pc[c] \in Suspended} IN
  /\ pc' = [c \in Calls |-> IF c \in dropped THEN "dropped" ELSE pc[c]]
  /\ permits' = permits
  /\ aborting' = aborting \cup {c \in S : pc[c] \in Holding \ Suspended}

AbortCalls(S) ==
  LET dropped == {c \in S : pc[c] \in Suspended} IN
  /\ pc' = [c \in Calls |-> IF c \in dropped THEN "dropped" ELSE pc[c]]
  /\ permits' = IF Cap = 0 THEN permits
                ELSE permits + Cardinality({c \in dropped : pc[c] \in Holding})
  /\ aborting' = aborting \cup {c \in S : pc[c] \in Holding \ Suspended}

AbortTasks(S) ==
  tpc' = [t \in Tasks |-> IF t \in S /\ tpc[t] = "running" THEN "dropped" ELSE tpc[t]]

\* notifications/cancelled for a call: take its handle out and abort.  Without a
\* handle the id is not one of the pool's and nothing happens here.
CancelCall_onlyHandle(c) ==
  /\ AtMessage /\ c \in poolTasks
  /\ poolTasks' = poolTasks \ {c} /\ cancelled' = cancelled \cup {c}
  /\ UNCHANGED <<runtime, loopVars, pc, permits, aborting, outcome, timer, inflight,
                 idleLeft, poolTokens, taskVars>>

CancelCall(c) ==
  /\ AtMessage /\ c \in poolTasks
  /\ poolTasks' = poolTasks \ {c} /\ cancelled' = cancelled \cup {c}
  /\ AbortCalls({c})
  /\ UNCHANGED <<runtime, loopVars, outcome, timer, inflight, idleLeft, poolTokens,
                 taskVars>>

\* notifications/progress: touch the registry's deadline of the token's call.
Progress(c) ==
  /\ AtMessage /\ c \in poolTokens /\ c \in inflight
  /\ idleLeft' = [idleLeft EXCEPT ![c] = Idle]
  /\ UNCHANGED <<runtime, loopVars, pc, outcome, permits, timer, inflight, poolTasks,
                 poolTokens, aborting, cancelled, taskVars>>

\* A tasks/cancel that stops the work and leaves the record alone.
CancelTask_noRecord(t) ==
  /\ AtMessage /\ status[t] # "none"
  /\ AbortTasks({t} \cap taskHandles)
  /\ taskHandles' = taskHandles \ {t}
  /\ UNCHANGED <<runtime, loopVars, callVars, status>>

\* tasks/cancel: abort through the handle, then cancel a record still working.
CancelTask(t) ==
  /\ AtMessage /\ status[t] # "none"
  /\ AbortTasks({t} \cap taskHandles)
  /\ taskHandles' = taskHandles \ {t}
  /\ status' = IF status[t] = "working" THEN [status EXCEPT ![t] = "cancelled"] ELSE status
  /\ UNCHANGED <<runtime, loopVars, callVars>>

\* The client disconnects: the loop returns and the drain window opens.
ClientEof ==
  /\ AtMessage /\ route' = "draining" /\ drainLeft' = Drain
  /\ UNCHANGED <<runtime, fresh, reaped, callVars, taskVars>>

\* A client message that does not parse, or a failed write to the client, ends
\* serve() through `?`, past the drain.
RouteFails ==
  /\ AtMessage /\ route' = "failed"
  /\ UNCHANGED <<runtime, fresh, drainLeft, reaped, callVars, taskVars>>

\* Poll the maps until they are empty or the window is over, then abort what is left.
DrainOver_atOnce ==
  /\ route = "draining" /\ LoopTurn
  /\ route' = "returned"
  /\ AbortCalls(poolTasks) /\ AbortTasks(taskHandles)
  /\ reaped' = poolTasks \cup taskHandles
  /\ poolTasks' = {} /\ taskHandles' = {}
  /\ UNCHANGED <<runtime, fresh, drainLeft, outcome, timer, inflight, idleLeft, poolTokens,
                 cancelled, status>>

DrainOver ==
  /\ route = "draining" /\ LoopTurn
  /\ drainLeft = 0 \/ (poolTasks = {} /\ taskHandles = {})
  /\ route' = "returned"
  /\ AbortCalls(poolTasks) /\ AbortTasks(taskHandles)
  /\ reaped' = poolTasks \cup taskHandles
  /\ poolTasks' = {} /\ taskHandles' = {}
  /\ UNCHANGED <<runtime, fresh, drainLeft, outcome, timer, inflight, idleLeft, poolTokens,
                 cancelled, status>>

-------------------------------------------------------------------------------
\* The task of a pooled call.

Move(c, from, to) == TaskTurn(c) /\ pc[c] = from /\ pc' = [pc EXCEPT ![c] = to]

\* Acquire a permit, register, and start the handler under its timeout.
Acquire(c) ==
  /\ Move(c, "queued", "working")
  /\ IF Cap = 0 THEN permits' = permits ELSE permits > 0 /\ permits' = permits - 1
  /\ inflight' = inflight \cup {c}
  /\ idleLeft' = [idleLeft EXCEPT ![c] = Idle]
  /\ timer' = [timer EXCEPT ![c] = Idle]
  /\ UNCHANGED <<runtime, loopVars, outcome, poolTasks, poolTokens, aborting, cancelled,
                 taskVars>>

HandlerEnds(c) ==
  /\ Move(c, "working", "worked")
  /\ outcome' = [outcome EXCEPT ![c] = "result"]
  /\ UNCHANGED <<runtime, loopVars, permits, timer, inflight, idleLeft, poolTasks,
                 poolTokens, aborting, cancelled, taskVars>>

IdleExpires(c) ==
  /\ Idle > 0 /\ timer[c] = 0
  /\ Move(c, "working", "worked")
  /\ outcome' = [outcome EXCEPT ![c] = "deadline"]
  /\ UNCHANGED <<runtime, loopVars, permits, timer, inflight, idleLeft, poolTasks,
                 poolTokens, aborting, cancelled, taskVars>>

\* The three removals, each under a lock of its own, with no await between them.
Unregister(c) ==
  /\ Move(c, "worked", "unregistered")
  /\ inflight' = inflight \ {c}
  /\ UNCHANGED <<runtime, loopVars, outcome, permits, timer, idleLeft, poolTasks,
                 poolTokens, aborting, cancelled, taskVars>>

\* A removal that the finished call leaves to a later cancellation.
RemoveHandle_not(c) ==
  /\ Move(c, "unregistered", "unhandled")
  /\ UNCHANGED <<runtime, loopVars, outcome, permits, timer, inflight, idleLeft, poolTasks,
                 poolTokens, aborting, cancelled, taskVars>>

RemoveHandle(c) ==
  /\ Move(c, "unregistered", "unhandled")
  /\ poolTasks' = poolTasks \ {c}
  /\ UNCHANGED <<runtime, loopVars, outcome, permits, timer, inflight, idleLeft,
                 poolTokens, aborting, cancelled, taskVars>>

RemoveToken(c) ==
  /\ Move(c, "unhandled", "sending")
  /\ poolTokens' = poolTokens \ {c}
  /\ UNCHANGED <<runtime, loopVars, outcome, permits, timer, inflight, idleLeft, poolTasks,
                 aborting, cancelled, taskVars>>

Release == permits' = IF Cap = 0 THEN permits ELSE permits + 1

\* Lock the client's writer and send; an abort that came earlier may win.
Send(c) ==
  /\ Move(c, "sending", "answered") /\ Release
  /\ UNCHANGED <<runtime, loopVars, outcome, timer, inflight, idleLeft, poolTasks,
                 poolTokens, aborting, cancelled, taskVars>>

DropAtSend(c) ==
  /\ c \in aborting /\ Move(c, "sending", "dropped") /\ Release
  /\ UNCHANGED <<runtime, loopVars, outcome, timer, inflight, idleLeft, poolTasks,
                 poolTokens, aborting, cancelled, taskVars>>

-------------------------------------------------------------------------------
\* The execution of a server task.

TMove(t, from, to) == TaskTurn(t) /\ tpc[t] = from /\ tpc' = [tpc EXCEPT ![t] = to]

ExecutionEnds(t) ==
  /\ TMove(t, "running", "ran")
  /\ UNCHANGED <<runtime, loopVars, callVars, status, taskHandles>>

\* complete or fail, from working only.
StoreOutcome(t) ==
  /\ TMove(t, "ran", "stored")
  /\ \E s \in {"completed", "failed"} :
       status' = IF status[t] = "working" THEN [status EXCEPT ![t] = s] ELSE status
  /\ UNCHANGED <<runtime, loopVars, callVars, taskHandles>>

RemoveTaskHandle(t) ==
  /\ TMove(t, "stored", "done")
  /\ taskHandles' = taskHandles \ {t}
  /\ UNCHANGED <<runtime, loopVars, callVars, status>>

\* One tick of the clock shortens every deadline that is running.
Less(n) == IF n = 0 THEN 0 ELSE n - 1
Running == {c \in Calls : pc[c] = "working"}

Tick ==
  /\ drainLeft > 0 \/ \E c \in Running : timer[c] > 0 \/ idleLeft[c] > 0
  /\ timer' = [c \in Calls |-> IF c \in Running THEN Less(timer[c]) ELSE timer[c]]
  /\ idleLeft' = [c \in Calls |-> IF c \in Running THEN Less(idleLeft[c]) ELSE idleLeft[c]]
  /\ drainLeft' = Less(drainLeft)
  /\ UNCHANGED <<runtime, route, fresh, reaped, pc, outcome, permits, inflight, poolTasks,
                 poolTokens, aborting, cancelled, taskVars>>

-------------------------------------------------------------------------------
CallTask(c) ==
  \/ Acquire(c) \/ HandlerEnds(c) \/ IdleExpires(c) \/ Unregister(c) \/ RemoveHandle(c)
  \/ RemoveToken(c) \/ Send(c) \/ DropAtSend(c)

TaskExecution(t) == ExecutionEnds(t) \/ StoreOutcome(t) \/ RemoveTaskHandle(t)

RouteLoop ==
  \/ \E c \in Calls : SpawnCall(c) \/ CancelCall(c) \/ Progress(c)
  \/ \E t \in Tasks : SpawnTask(t) \/ CancelTask(t)
  \/ InsertHandle \/ ClientEof \/ RouteFails \/ DrainOver

Next ==
  \/ RouteLoop \/ Tick
  \/ \E c \in Calls : CallTask(c)
  \/ \E t \in Tasks : TaskExecution(t)

Spec == Init /\ [][Next]_vars

\* The runtime runs every task that can run and fires the timers, and the client
\* reads its responses; no handler is assumed to end by itself.
Fairness ==
  /\ WF_vars(InsertHandle) /\ WF_vars(DrainOver) /\ WF_vars(Tick)
  /\ \A c \in Calls : WF_vars(CallTask(c) /\ ~HandlerEnds(c))
  /\ \A t \in Tasks : WF_vars(StoreOutcome(t) \/ RemoveTaskHandle(t))

FairSpec == Spec /\ Fairness

-------------------------------------------------------------------------------
\* Properties.

TypeOK ==
  /\ runtime \in {"current_thread", "multi_thread"}
  /\ route \in {"reading", "inserting", "draining", "returned", "failed"}
  /\ fresh \subseteq Calls \cup Tasks /\ reaped \subseteq Calls \cup Tasks
  /\ pc \in [Calls -> {"none", "queued", "answered", "dropped"} \cup Holding]
  /\ outcome \in [Calls -> {"none", "result", "deadline"}]
  /\ permits \in Nat /\ drainLeft \in Nat
  /\ timer \in [Calls -> Nat] /\ idleLeft \in [Calls -> Nat]
  /\ inflight \subseteq Calls /\ poolTasks \subseteq Calls /\ poolTokens \subseteq Calls
  /\ aborting \subseteq Calls /\ cancelled \subseteq Calls
  /\ tpc \in [Tasks -> {"none", "running", "ran", "stored", "done", "dropped"}]
  /\ status \in [Tasks -> {"none", "working"} \cup Terminal]
  /\ taskHandles \subseteq Tasks

\* No permit is lost or made up, whatever is cancelled, times out or is drained: the
\* free ones and those of the running calls are always the cap, so that no more than
\* the cap run ("a per-connection cap", set_worker_pool) and none is starved of it.
PermitsConserved ==
  Cap > 0 => permits + Cardinality({c \in Calls : pc[c] \in Holding}) = Cap

\* "No insert/remove race" (spawn_pooled_call): while the loop reads, a handle in the
\* map is that of a task that has yet to remove it.
NoStaleHandle ==
  route = "reading" => \A c \in poolTasks : pc[c] \in {"queued", "working", "worked", "unregistered"}

\* The same on the runtime the comment is written for.
NoStaleHandleSerial == runtime = "current_thread" => NoStaleHandle

\* "An aborted task drops here and sends nothing" (spawn_pooled_call), on a runtime
\* where the loop and the tasks take turns: once a cancellation has found the call's
\* handle, the client gets no response to it.
CancelledIsSilent ==
  runtime = "current_thread" => \A c \in cancelled : pc[c] # "answered"

\* The registry and the token map hold live calls, but for the entries of aborted
\* ones, which nothing removes.
RegistryLive ==
  \A c \in (inflight \cup poolTokens) \ (cancelled \cup reaped) :
    pc[c] \in {"queued"} \cup Holding

\* "Up to drain_ms to finish" (set_drain_timeout): the shutdown drops a call or a task
\* only when the window is over, and leaves none waiting or working.
DrainKeepsWindow ==
  route = "returned" =>
    /\ reaped # {} => drainLeft = 0
    /\ \A c \in Calls : pc[c] \notin {"queued", "working"}
    /\ \A t \in Tasks : tpc[t] # "running"

\* A task that is polled as working is being worked on: a cancellation that stops the
\* execution also ends the record, so that no client polls for ever.
WorkingIsWorkedOn ==
  \A t \in Tasks : status[t] = "working" /\ t \notin reaped => tpc[t] \in {"running", "ran"}

\* "Terminal states are final" (tasks.rs, ServerTasks): whichever of the completion and
\* the cancellation reaches the record first decides it.
TerminalIsFinal ==
  [][\A t \in Tasks : status[t] \in Terminal => status'[t] = status[t]]_vars

\* With an idle deadline every call that is accepted ends: the ones waiting for a permit
\* get one, since every call that runs is ended by its handler, its deadline, a
\* cancellation or the shutdown.
CallSettles == \A c \in Calls : pc[c] = "queued" ~> pc[c] \in {"answered", "dropped"}

\* "A progress notification for a tracked call resets that call's idle deadline"
\* (touch_progress): a call is ended by its deadline only when the deadline the registry
\* holds for it has passed.
ProgressKeepsAlive ==
  [][\A c \in Calls : IdleExpires(c) => idleLeft[c] = 0]_vars
===============================================================================
