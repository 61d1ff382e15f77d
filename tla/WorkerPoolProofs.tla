--------------------------- MODULE WorkerPoolProofs ----------------------------
(***************************************************************************)
(* What holds of WorkerPool for every set of calls and tasks, every cap    *)
(* and every deadline.                                                     *)
(***************************************************************************)
EXTENDS WorkerPool, FiniteSetTheorems, TLAPS

Busy == {c \in Calls : pc[c] \in Holding}

LEMMA BusyFinite == IsFiniteSet(Busy) /\ Cardinality(Busy) \in Nat
<1>1. IsFiniteSet(Busy)
  BY PoolAssumption, FS_Subset DEF Busy
<1> QED BY <1>1, FS_CardinalityType

\* Aborting a set of calls gives back the permits of those it drops, and only theirs.
LEMMA Aborted ==
  ASSUME TypeOK, NEW S \in SUBSET Calls, AbortCalls(S)
  PROVE  /\ permits' \in Nat
         /\ PermitsConserved => PermitsConserved'
         /\ pc' = [c \in Calls |-> IF c \in S /\ pc[c] \in Suspended THEN "dropped" ELSE pc[c]]
         /\ aborting' \in SUBSET Calls
<1> DEFINE dropped == {c \in S : pc[c] \in Suspended}
           freed == {c \in dropped : pc[c] \in Holding}
<1>1. /\ pc' = [c \in Calls |-> IF c \in dropped THEN "dropped" ELSE pc[c]]
      /\ permits' = IF Cap = 0 THEN permits ELSE permits + Cardinality(freed)
      /\ aborting' \in SUBSET Calls
  BY DEF AbortCalls, TypeOK
<1>2. IsFiniteSet(freed) /\ Cardinality(freed) \in Nat
  <2>1. freed \in SUBSET Calls
    OBVIOUS
  <2>2. IsFiniteSet(freed)
    BY <2>1, PoolAssumption, FS_Subset
  <2> QED BY <2>2, FS_CardinalityType
<1>3. permits \in Nat
  BY DEF TypeOK
<1>4. Cardinality(Busy') = Cardinality(Busy) - Cardinality(freed)
  <2>1. Busy' = Busy \ freed
    BY <1>1 DEF Busy, Holding
  <2>2. Busy \cap freed = freed
    BY DEF Busy
  <2>3. ASSUME NEW F PROVE Cardinality(Busy \ F) = Cardinality(Busy) - Cardinality(Busy \cap F)
    BY BusyFinite, FS_Difference
  <2>4. Cardinality(Busy \ freed) = Cardinality(Busy) - Cardinality(Busy \cap freed)
    BY <2>3
  <2> HIDE DEF freed
  <2> QED BY <2>1, <2>2, <2>4
<1>5. PermitsConserved => PermitsConserved'
  BY <1>1, <1>2, <1>3, <1>4, BusyFinite, PoolAssumption DEF PermitsConserved, Busy
<1> QED BY <1>1, <1>2, <1>3, <1>5

\* A call that keeps its permit, or that has none before and after, changes no count.
LEMMA SameBusy ==
  ASSUME PermitsConserved, permits' = permits, Busy' = Busy
  PROVE  PermitsConserved'
  BY DEF PermitsConserved, Busy

LEMMA Freed ==
  ASSUME TypeOK, PermitsConserved, NEW c \in Busy, Busy' = Busy \ {c}, Release
  PROVE  PermitsConserved' /\ permits' \in Nat
<1>1. Cardinality(Busy') = Cardinality(Busy) - 1
  BY BusyFinite, FS_RemoveElement
<1> QED BY <1>1, BusyFinite, PoolAssumption DEF TypeOK, PermitsConserved, Busy, Release

PoolInv == TypeOK /\ PermitsConserved

LEMMA PoolInit == Init => PoolInv
<1> SUFFICES ASSUME Init PROVE PoolInv
  OBVIOUS
<1>1. TypeOK
  BY PoolAssumption DEF Init, TypeOK
<1>2. Busy = {}
  BY DEF Init, Busy, Holding
<1>3. Cardinality(Busy) = 0
  BY <1>2, FS_EmptySet
<1>4. PermitsConserved
  BY <1>3, PoolAssumption DEF Init, PermitsConserved, Busy
<1> QED BY <1>1, <1>4 DEF PoolInv

LEMMA PoolRoute ==
  ASSUME PoolInv, RouteLoop
  PROVE  PoolInv'
<1> USE DEF PoolInv, TypeOK, vars, loopVars, callVars, taskVars
<1>1. ASSUME NEW c \in Calls, SpawnCall(c) PROVE PoolInv'
  <2>1. Busy' = Busy
    BY <1>1 DEF SpawnCall, Busy, Holding
  <2> QED BY <1>1, <2>1, SameBusy DEF SpawnCall
<1>2. ASSUME NEW c \in Calls, CancelCall(c) PROVE PoolInv'
  <2>1. AbortCalls({c})
    BY <1>2 DEF CancelCall
  <2> QED BY <1>2, <2>1, Aborted DEF CancelCall
<1>3. ASSUME NEW c \in Calls, Progress(c) PROVE PoolInv'
  BY <1>3, PoolAssumption DEF Progress, PermitsConserved
<1>4. ASSUME NEW t \in Tasks, SpawnTask(t) PROVE PoolInv'
  BY <1>4 DEF SpawnTask, PermitsConserved
<1>5. ASSUME NEW t \in Tasks, CancelTask(t) PROVE PoolInv'
  BY <1>5 DEF CancelTask, AbortTasks, PermitsConserved, Terminal
<1>6. CASE InsertHandle
  BY <1>6 DEF InsertHandle, PermitsConserved
<1>7. CASE ClientEof \/ RouteFails
  BY <1>7, PoolAssumption DEF ClientEof, RouteFails, PermitsConserved
<1>8. CASE DrainOver
  <2>1. AbortCalls(poolTasks) /\ poolTasks \in SUBSET Calls
    BY <1>8 DEF DrainOver
  <2> QED BY <1>8, <2>1, Aborted DEF DrainOver, AbortTasks
<1> QED BY <1>1, <1>2, <1>3, <1>4, <1>5, <1>6, <1>7, <1>8 DEF RouteLoop

LEMMA PoolCall ==
  ASSUME PoolInv, NEW c \in Calls, CallTask(c)
  PROVE  PoolInv'
<1> USE DEF PoolInv, TypeOK, vars, loopVars, callVars, taskVars, Move
<1>1. CASE Acquire(c)
  <2>1. c \notin Busy /\ Busy' = Busy \cup {c}
    BY <1>1 DEF Acquire, Busy, Holding
  <2>2. Cardinality(Busy') = Cardinality(Busy) + 1
    BY <2>1, BusyFinite, FS_AddElement
  <2>3. PermitsConserved'
    BY <1>1, <2>2, BusyFinite, PoolAssumption DEF Acquire, PermitsConserved, Busy
  <2> QED BY <1>1, <2>3, PoolAssumption DEF Acquire, Holding
<1>2. CASE HandlerEnds(c) \/ IdleExpires(c)
  <2>1. Busy' = Busy
    BY <1>2 DEF HandlerEnds, IdleExpires, Busy, Holding
  <2> QED BY <1>2, <2>1, SameBusy DEF HandlerEnds, IdleExpires, Holding
<1>3. CASE Unregister(c) \/ RemoveHandle(c) \/ RemoveToken(c)
  <2>1. Busy' = Busy
    BY <1>3 DEF Unregister, RemoveHandle, RemoveToken, Busy, Holding
  <2> QED BY <1>3, <2>1, SameBusy DEF Unregister, RemoveHandle, RemoveToken, Holding
<1>4. CASE Send(c) \/ DropAtSend(c)
  <2>1. c \in Busy /\ Busy' = Busy \ {c} /\ Release
    BY <1>4 DEF Send, DropAtSend, Busy, Holding
  <2>2. PermitsConserved' /\ permits' \in Nat
    BY <2>1, Freed
  <2> QED BY <1>4, <2>2 DEF Send, DropAtSend
<1> QED BY <1>1, <1>2, <1>3, <1>4 DEF CallTask

LEMMA PoolRest ==
  ASSUME PoolInv, UNCHANGED vars \/ Tick \/ \E t \in Tasks : TaskExecution(t)
  PROVE  PoolInv'
<1> USE DEF PoolInv, TypeOK, vars, loopVars, callVars, taskVars
<1>1. CASE UNCHANGED vars
  BY <1>1 DEF PermitsConserved
<1>2. CASE Tick
  BY <1>2 DEF Tick, Less, PermitsConserved
<1>3. ASSUME NEW t \in Tasks, TaskExecution(t) PROVE PoolInv'
  <2>1. CASE ExecutionEnds(t) \/ RemoveTaskHandle(t)
    BY <2>1 DEF ExecutionEnds, RemoveTaskHandle, TMove, PermitsConserved
  <2>2. CASE StoreOutcome(t)
    <3>1. PICK s \in {"completed", "failed"} :
            status' = IF status[t] = "working" THEN [status EXCEPT ![t] = s] ELSE status
      BY <2>2 DEF StoreOutcome
    <3>2. status' \in [Tasks -> {"none", "working"} \cup Terminal]
      BY <3>1 DEF Terminal
    <3> QED BY <2>2, <3>2 DEF StoreOutcome, TMove, PermitsConserved
  <2> QED BY <1>3, <2>1, <2>2 DEF TaskExecution
<1> QED BY <1>1, <1>2, <1>3

THEOREM PoolInvariant == Spec => []PoolInv
<1>1. PoolInv /\ [Next]_vars => PoolInv'
  BY PoolRoute, PoolCall, PoolRest DEF Next
<1> QED BY <1>1, PoolInit, PTL DEF Spec

\* Every variable keeps its type; there is never a debt of permits.
THEOREM Typing == Spec => []TypeOK
  BY PoolInvariant, PTL DEF PoolInv

\* No interleaving of completions, expiries, cancellations, aborts that arrive late and
\* the shutdown loses a permit of the semaphore or makes one up (spawn_pooled_call).
THEOREM PermitsAreConserved == Spec => []PermitsConserved
  BY PoolInvariant, PTL DEF PoolInv

-------------------------------------------------------------------------------
\* Handles and records.

\* What the loop holds between a spawn and the entry of its handle, during which a
\* runtime with one thread runs nothing else.
LoopInv ==
  /\ route # "inserting" => fresh = {}
  /\ route # "returned" => reaped = {}
  /\ runtime = "current_thread" /\ route = "inserting" =>
       BetweenAwaits = {} /\ \A c \in fresh \cap Calls : pc[c] = "queued"

\* What waits or works can be aborted through a handle, and has not been cancelled.
HandleInv ==
  /\ \A c \in cancelled : pc[c] \notin {"none", "queued", "working"}
  /\ \A c \in Calls : pc[c] \in {"queued", "working"} => c \in poolTasks \cup fresh
  /\ \A t \in Tasks : tpc[t] = "running" => t \in taskHandles \cup fresh
  /\ \A c \in poolTasks \cup (fresh \cap Calls) : pc[c] # "none"

\* On one thread a cancellation finds the call suspended, and drops it there and then.
SerialInv ==
  runtime = "current_thread" =>
    /\ \A c \in poolTasks : pc[c] \in {"queued", "working", "worked", "unregistered"}
    /\ \A c \in cancelled : pc[c] = "dropped"

RecordInv ==
  /\ \A t \in Tasks : tpc[t] = "none" => status[t] = "none"
  /\ WorkingIsWorkedOn

StopInv ==
  route = "returned" =>
    /\ reaped # {} => drainLeft = 0
    /\ \A c \in Calls : pc[c] \notin {"queued", "working"}
    /\ \A t \in Tasks : tpc[t] # "running"

ServeInv == LoopInv /\ HandleInv /\ SerialInv /\ RecordInv /\ StopInv

LEMMA ServeInit == Init => ServeInv
  BY DEF Init, ServeInv, LoopInv, HandleInv, SerialInv, RecordInv, StopInv, WorkingIsWorkedOn

LEMMA ServeSpawn ==
  ASSUME TypeOK, ServeInv,
         (\E c \in Calls : SpawnCall(c)) \/ (\E t \in Tasks : SpawnTask(t)) \/ InsertHandle
  PROVE  ServeInv'
<1> USE DEF TypeOK, ServeInv, LoopInv, HandleInv, SerialInv, RecordInv, StopInv, callVars,
            taskVars, WorkingIsWorkedOn
<1>1. ASSUME NEW c \in Calls, SpawnCall(c) PROVE ServeInv'
  BY <1>1, PoolAssumption DEF SpawnCall, AtMessage, LoopTurn, BetweenAwaits
<1>2. ASSUME NEW t \in Tasks, SpawnTask(t) PROVE ServeInv'
  BY <1>2, PoolAssumption DEF SpawnTask, AtMessage, LoopTurn, BetweenAwaits
<1>3. CASE InsertHandle
  BY <1>3 DEF InsertHandle
<1> QED BY <1>1, <1>2, <1>3

LEMMA ServeStop ==
  ASSUME TypeOK, ServeInv,
         \/ \E c \in Calls : CancelCall(c) \/ Progress(c)
         \/ \E t \in Tasks : CancelTask(t)
         \/ ClientEof \/ RouteFails \/ DrainOver
  PROVE  ServeInv'
<1> USE DEF TypeOK, ServeInv, LoopInv, HandleInv, SerialInv, RecordInv, StopInv, vars,
            loopVars, callVars, taskVars, WorkingIsWorkedOn
<1>1. ASSUME NEW c \in Calls, CancelCall(c) PROVE ServeInv'
  <2>1. pc' = [d \in Calls |-> IF d \in {c} /\ pc[d] \in Suspended THEN "dropped" ELSE pc[d]]
    BY <1>1, Aborted DEF CancelCall
  <2>2. runtime = "current_thread" => pc[c] \in {"queued", "working"}
    BY <1>1 DEF CancelCall, AtMessage, LoopTurn, BetweenAwaits
  <2> QED BY <1>1, <2>1, <2>2 DEF CancelCall, AtMessage, Suspended
<1>2. ASSUME NEW c \in Calls, Progress(c) PROVE ServeInv'
  BY <1>2 DEF Progress, BetweenAwaits, AtMessage
<1>3. ASSUME NEW t \in Tasks, CancelTask(t) PROVE ServeInv'
  BY <1>3 DEF CancelTask, AbortTasks, AtMessage, Terminal
<1>4. CASE ClientEof \/ RouteFails
  BY <1>4 DEF ClientEof, RouteFails, AtMessage
<1>5. CASE DrainOver
  <2>1. pc' = [d \in Calls |-> IF d \in poolTasks /\ pc[d] \in Suspended THEN "dropped"
                              ELSE pc[d]]
    BY <1>5, Aborted DEF DrainOver
  <2> QED BY <1>5, <2>1 DEF DrainOver, AbortTasks, Suspended
<1> QED BY <1>1, <1>2, <1>3, <1>4, <1>5

LEMMA ServeCall ==
  ASSUME TypeOK, ServeInv, NEW c \in Calls, CallTask(c)
  PROVE  ServeInv'
<1> USE DEF TypeOK, ServeInv, LoopInv, HandleInv, SerialInv, RecordInv, StopInv,
            loopVars, taskVars, WorkingIsWorkedOn, Move, TaskTurn, BetweenAwaits
<1>1. CASE Acquire(c)
  BY <1>1 DEF Acquire
<1>2. CASE HandlerEnds(c) \/ IdleExpires(c)
  BY <1>2 DEF HandlerEnds, IdleExpires
<1>3. CASE Unregister(c)
  BY <1>3 DEF Unregister
<1>4. CASE RemoveHandle(c)
  BY <1>4 DEF RemoveHandle
<1>5. CASE RemoveToken(c)
  BY <1>5 DEF RemoveToken
<1>6. CASE Send(c) \/ DropAtSend(c)
  BY <1>6 DEF Send, DropAtSend
<1> QED BY <1>1, <1>2, <1>3, <1>4, <1>5, <1>6 DEF CallTask

LEMMA ServeRest ==
  ASSUME TypeOK, ServeInv, UNCHANGED vars \/ Tick \/ \E t \in Tasks : TaskExecution(t)
  PROVE  ServeInv'
<1> USE DEF TypeOK, ServeInv, LoopInv, HandleInv, SerialInv, RecordInv, StopInv, vars,
            loopVars, callVars, taskVars, WorkingIsWorkedOn
<1>1. CASE UNCHANGED vars
  BY <1>1 DEF BetweenAwaits
<1>2. CASE Tick
  BY <1>2 DEF Tick, Less, BetweenAwaits
<1>3. ASSUME NEW t \in Tasks, TaskExecution(t) PROVE ServeInv'
  <2> USE DEF TMove, TaskTurn, BetweenAwaits
  <2>1. CASE ExecutionEnds(t)
    BY <2>1 DEF ExecutionEnds
  <2>2. CASE RemoveTaskHandle(t)
    BY <2>2 DEF RemoveTaskHandle
  <2>3. CASE StoreOutcome(t)
    BY <2>3 DEF StoreOutcome, Terminal
  <2> QED BY <1>3, <2>1, <2>2, <2>3 DEF TaskExecution
<1> QED BY <1>1, <1>2, <1>3

THEOREM ServeInvariant == Spec => []ServeInv
<1>1. TypeOK /\ ServeInv /\ [Next]_vars => ServeInv'
  BY ServeSpawn, ServeStop, ServeCall, ServeRest DEF Next, RouteLoop
<1> QED BY <1>1, ServeInit, Typing, PTL DEF Spec

\* On a runtime with one thread the insertion of a handle cannot race its removal
\* (spawn_pooled_call).
THEOREM HandlesAreFresh == Spec => []NoStaleHandleSerial
<1>1. ServeInv => NoStaleHandleSerial
  BY DEF ServeInv, SerialInv, NoStaleHandleSerial, NoStaleHandle
<1> QED BY <1>1, ServeInvariant, PTL

\* There, a call whose cancellation found its handle is never answered
\* (route_client_cancellation).
THEOREM CancellationSilences == Spec => []CancelledIsSilent
<1>1. ServeInv => CancelledIsSilent
  BY DEF ServeInv, SerialInv, CancelledIsSilent
<1> QED BY <1>1, ServeInvariant, PTL

\* A record that says working is being worked on (tasks/cancel against completion).
THEOREM WorkingTasksRun == Spec => []WorkingIsWorkedOn
<1>1. ServeInv => WorkingIsWorkedOn
  BY DEF ServeInv, RecordInv
<1> QED BY <1>1, ServeInvariant, PTL

\* The shutdown leaves nothing waiting or working, and drops nothing before the window
\* is over (drain).
THEOREM DrainIsComplete == Spec => []DrainKeepsWindow
<1>1. ServeInv => DrainKeepsWindow
  BY DEF ServeInv, StopInv, DrainKeepsWindow
<1> QED BY <1>1, ServeInvariant, PTL

\* The first of a completion and a cancellation to reach a record decides it for good
\* (ServerTasks).
THEOREM TerminalStatesAreFinal == Spec => TerminalIsFinal
<1> DEFINE Final == \A t \in Tasks : status[t] \in Terminal => status'[t] = status[t]
<1>1. TypeOK /\ ServeInv /\ [Next]_vars => [Final]_vars
  <2> SUFFICES ASSUME TypeOK, ServeInv, Next, NEW t \in Tasks, status[t] \in Terminal
               PROVE  status'[t] = status[t]
    OBVIOUS
  <2> USE DEF TypeOK, Terminal, loopVars, callVars, taskVars
  <2>1. ASSUME NEW u \in Tasks, SpawnTask(u) PROVE status'[t] = status[t]
    BY <2>1 DEF SpawnTask, ServeInv, RecordInv
  <2>2. ASSUME NEW u \in Tasks, CancelTask(u) \/ TaskExecution(u)
        PROVE  status'[t] = status[t]
    BY <2>2 DEF CancelTask, TaskExecution, ExecutionEnds, StoreOutcome, RemoveTaskHandle
  <2>3. ASSUME NEW c \in Calls, CallTask(c) PROVE status'[t] = status[t]
    BY <2>3 DEF CallTask, Acquire, HandlerEnds, IdleExpires, Unregister, RemoveHandle,
                RemoveToken, Send, DropAtSend
  <2>4. ASSUME NEW c \in Calls, SpawnCall(c) \/ CancelCall(c) \/ Progress(c)
        PROVE  status'[t] = status[t]
    BY <2>4 DEF SpawnCall, CancelCall, Progress
  <2>5. CASE InsertHandle \/ ClientEof \/ RouteFails \/ DrainOver \/ Tick
    BY <2>5 DEF InsertHandle, ClientEof, RouteFails, DrainOver, Tick
  <2> QED BY <2>1, <2>2, <2>3, <2>4, <2>5 DEF Next, RouteLoop
<1> QED BY <1>1, ServeInvariant, Typing, PTL DEF Spec, TerminalIsFinal
===============================================================================
