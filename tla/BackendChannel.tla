---------------------------- MODULE BackendChannel ----------------------------
(***************************************************************************)
(* One backend of the forward router: BackendHandle::request, which the    *)
(* route loop and the health pinger call concurrently, the demultiplexing  *)
(* reader task of Backend::start, the startup handshake and the breaker.   *)
(*                                                                         *)
(* A request id "{backend}-{n}" is its number n.  The oneshot channel of a *)
(* request is slot[c] (the receiving half, held by its caller c) together  *)
(* with n \in pending (the sending half, held by the pending map): once n  *)
(* leaves pending the sender has been used or dropped.  A payload is the   *)
(* pair <<c, k>> of the k-th request of caller c, and an answer carries    *)
(* the payload of the request it answers.                                  *)
(***************************************************************************)
EXTENDS CircuitBreaker, Sequences, FiniteSets

CONSTANTS
  Route,        \* the route loop: a serial caller
  Pingers,      \* the health tasks of this backend (one in the code)
  HasTimeout,   \* whether requestTimeout is configured
  WireCap,      \* messages the pipe to the backend holds before a write waits
  SinkCap,      \* capacity of the channel of backend-initiated messages (256)
  BackendIds,   \* the ids the backend gives to requests of its own
  MaxRequests, MaxEvents, MaxClock   \* bounds of the instance

Callers == {Route} \cup Pingers

ASSUME ChannelAssumption ==
  /\ Route \notin Pingers
  /\ HasTimeout \in BOOLEAN
  /\ WireCap \in Nat \ {0} /\ SinkCap \in Nat \ {0}
  /\ BackendIds \subseteq Nat
  /\ MaxRequests \in Nat /\ MaxEvents \in Nat /\ MaxClock \in Nat

VARIABLES
  \* --- the handle ---
  nextId,       \* next_id
  pending,      \* keys of the pending map
  pc,           \* where each caller is in request()
  mid,          \* the id of each caller's current request
  made,         \* requests made so far by each caller (names payloads)
  slot,         \* receiving half of each caller's oneshot channel
  phase,        \* the router handshakes this backend, then serves
  breaker,
  clock,
  \* --- the reader task ---
  reader,       \* "running", or "ended" after the backend's EOF
  held,         \* messages the reader awaits to put into the sink: none or one
  sink,         \* server_tx .. server_rx
  srvSeq,       \* server_req_seq
  serverRequests,   \* client-facing id and the backend's own id
  \* --- the backend, a process at the other end of two pipes ---
  toBackend, fromBackend,
  unanswered,   \* requests it has read and not answered
  outOpen,      \* its output is open: the reader has not been sent EOF
  inOpen,       \* its input is open: writes do not fail
  events,       \* messages it has initiated
  \* --- history ---
  streak,       \* failures recorded since the last success
  stranded      \* ids whose write failed

handleVars  == <<nextId, pending, pc, mid, made, slot, phase>>
breakerVars == <<breaker, streak>>
readerVars  == <<reader, held, sink, srvSeq, serverRequests>>
backendVars == <<unanswered, outOpen, inOpen, events>>
wireVars    == <<toBackend, fromBackend>>
vars == <<handleVars, breakerVars, clock, readerVars, backendVars, wireVars, stranded>>

-------------------------------------------------------------------------------
\* Messages.  A request and its response carry an id and a payload, the rest the
\* number of the event.  A backend numbers its own requests as it likes, also as the
\* router does (another yamp numbers them "srv-{n}", and so does the router those to a
\* backend configured as "srv"); an id spelled otherwise is a number beyond MaxRequests.

Payloads == Callers \X Nat
Request(n, p)  == [kind |-> "request", id |-> n, payload |-> p]
Response(n, p) == [kind |-> "response", id |-> n, payload |-> p]
Requests  == [kind: {"request"}, id: Nat, payload: Payloads]
Responses == [kind: {"response"}, id: Nat, payload: Payloads]
Initialized == [kind |-> "initialized"]
Notification(e)     == [kind |-> "notification", event |-> e]
ServerRequest(n, e) == [kind |-> "serverRequest", id |-> n, event |-> e]
ServerRequests == [kind: {"serverRequest"}, id: Nat, event: Nat]
Initiated == [kind: {"notification"}, event: Nat] \cup ServerRequests

Empty == [kind |-> "empty"]        \* nothing has come through the channel
Dropped == [kind |-> "dropped"]    \* the sender was dropped: recv error

Payload(c) == <<c, made[c]>>

\* The receiver of request n is alive while its caller awaits it.
Awaits(c, n) == pc[c] \in {"queued", "waiting"} /\ mid[c] = n

Init ==
  /\ nextId = 0 /\ pending = {}
  /\ pc = [c \in Callers |-> "idle"]
  /\ mid = [c \in Callers |-> 0]
  /\ made = [c \in Callers |-> 0]
  /\ slot = [c \in Callers |-> Empty]
  /\ phase = "handshake"
  /\ breaker = NewBreaker /\ streak = 0 /\ clock = 0
  /\ reader = "running" /\ held = {} /\ sink = <<>>
  /\ srvSeq = 0 /\ serverRequests = {}
  /\ toBackend = <<>> /\ fromBackend = <<>> /\ unanswered = {}
  /\ outOpen = TRUE /\ inOpen = TRUE /\ events = 0
  /\ stranded = {}

-------------------------------------------------------------------------------
\* BackendHandle::request, one action per stretch between two awaits.

\* Who may start a request: the handshake asks without looking at the breaker,
\* the route loop asks while available() says so, a pinger asks regardless.
Admitted(c) ==
  \/ c = Route /\ phase = "handshake"
  \/ c = Route /\ phase = "serving" /\ Allow(breaker, clock)
  \/ c \in Pingers /\ phase = "serving"

Begin(c) ==
  /\ pc[c] = "idle" /\ Admitted(c) /\ nextId < MaxRequests
  /\ breaker' = IF c = Route THEN Observe(breaker, clock) ELSE breaker
  /\ nextId' = nextId + 1
  /\ pending' = pending \cup {nextId}
  /\ mid' = [mid EXCEPT ![c] = nextId]
  /\ made' = [made EXCEPT ![c] = @ + 1]
  /\ slot' = [slot EXCEPT ![c] = Empty]
  /\ pc' = [pc EXCEPT ![c] = "queued"]
  /\ UNCHANGED <<phase, streak, clock, readerVars, backendVars, wireVars, stranded>>

\* The writer lock is held for the whole write; a full pipe keeps it waiting.
Write(c) ==
  /\ pc[c] = "queued" /\ inOpen /\ Len(toBackend) < WireCap
  /\ toBackend' = Append(toBackend, Request(mid[c], Payload(c)))
  /\ pc' = [pc EXCEPT ![c] = "waiting"]
  /\ UNCHANGED <<nextId, pending, mid, made, slot, phase, breakerVars, clock,
                 readerVars, backendVars, fromBackend, stranded>>

\* Where an error leaves the caller: the handshake has one more failure to record.
AfterError(c) == IF c = Route /\ phase = "handshake" THEN "unreached" ELSE "idle"

\* `?` on the write: the pending entry stays and the breaker hears nothing.
WriteFails(c) ==
  /\ pc[c] = "queued" /\ ~inOpen
  /\ pc' = [pc EXCEPT ![c] = AfterError(c)]
  /\ stranded' = stranded \cup {mid[c]}
  /\ UNCHANGED <<nextId, pending, mid, made, slot, phase, breakerVars, clock,
                 readerVars, backendVars, wireVars>>

Receive(c) ==
  /\ pc[c] = "waiting" /\ slot[c] # Empty
  /\ pc' = [pc EXCEPT ![c] = IF slot[c] = Dropped THEN "failed" ELSE "answered"]
  /\ slot' = [slot EXCEPT ![c] = Empty]
  /\ UNCHANGED <<nextId, pending, mid, made, phase, breakerVars, clock,
                 readerVars, backendVars, wireVars, stranded>>

\* A timeout run by the reader task, so that it dies with it.
Expire_byReader(c) ==
  /\ HasTimeout /\ pc[c] = "waiting" /\ slot[c] = Empty /\ reader = "running"
  /\ pc' = [pc EXCEPT ![c] = "expired"]
  /\ UNCHANGED <<nextId, pending, mid, made, slot, phase, breakerVars, clock,
                 readerVars, backendVars, wireVars, stranded>>

\* tokio::time::timeout polls the receiver first, so it expires only on nothing.
Expire(c) ==
  /\ HasTimeout /\ pc[c] = "waiting" /\ slot[c] = Empty
  /\ pc' = [pc EXCEPT ![c] = "expired"]
  /\ UNCHANGED <<nextId, pending, mid, made, slot, phase, breakerVars, clock,
                 readerVars, backendVars, wireVars, stranded>>

Forget(c) ==
  /\ pc[c] = "expired"
  /\ pending' = pending \ {mid[c]}
  /\ pc' = [pc EXCEPT ![c] = "failed"]
  /\ UNCHANGED <<nextId, mid, made, slot, phase, breakerVars, clock,
                 readerVars, backendVars, wireVars, stranded>>

RecordOutcome(c) ==
  /\ \/ /\ pc[c] = "answered"
        /\ breaker' = RecordSuccess(breaker) /\ streak' = 0
        /\ pc' = [pc EXCEPT ![c] = IF c = Route /\ phase = "handshake"
                                   THEN "greeted" ELSE "idle"]
     \/ /\ pc[c] = "failed"
        /\ breaker' = RecordFailure(breaker, clock) /\ streak' = streak + 1
        /\ pc' = [pc EXCEPT ![c] = AfterError(c)]
  /\ UNCHANGED <<nextId, pending, mid, made, slot, phase, clock,
                 readerVars, backendVars, wireVars, stranded>>

\* The rest of Backend::handshake, and the arm of the router's handshake that
\* records a failed one.
SendInitialized ==
  /\ pc[Route] = "greeted"
  /\ \/ /\ inOpen /\ Len(toBackend) < WireCap
        /\ toBackend' = Append(toBackend, Initialized)
        /\ phase' = "serving" /\ pc' = [pc EXCEPT ![Route] = "idle"]
     \/ /\ ~inOpen
        /\ pc' = [pc EXCEPT ![Route] = "unreached"]
        /\ UNCHANGED <<phase, toBackend>>
  /\ UNCHANGED <<nextId, pending, mid, made, slot, breakerVars, clock,
                 readerVars, backendVars, fromBackend, stranded>>

LeaveOut ==
  /\ pc[Route] = "unreached"
  /\ breaker' = RecordFailure(breaker, clock) /\ streak' = streak + 1
  /\ phase' = "serving" /\ pc' = [pc EXCEPT ![Route] = "idle"]
  /\ UNCHANGED <<nextId, pending, mid, made, slot, clock,
                 readerVars, backendVars, wireVars, stranded>>

-------------------------------------------------------------------------------
\* The reader task.

Reading == reader = "running" /\ held = {} /\ fromBackend # <<>>
Incoming == Head(fromBackend)
Consume == fromBackend' = Tail(fromBackend)

\* Whatever carries the id of a pending request is taken for its answer: a response,
\* but also a request of the backend's own.  Only a notification has no id.
IsExpected(m) == m.kind # "notification" /\ m.id \in pending

\* An answer that reaches whoever is waiting, whatever it was waiting for.
ReadAnswer_anyWaiter ==
  /\ Reading /\ IsExpected(Incoming) /\ Consume
  /\ pending' = pending \ {Incoming.id}
  /\ slot' = [c \in Callers |-> IF pc[c] \in {"queued", "waiting"} THEN Incoming ELSE slot[c]]
  /\ UNCHANGED <<nextId, pc, mid, made, phase, breakerVars, clock,
                 readerVars, backendVars, toBackend, stranded>>

\* Remove the sender and send through it; a receiver that is gone gets nothing.
ReadAnswer ==
  /\ Reading /\ IsExpected(Incoming) /\ Consume
  /\ pending' = pending \ {Incoming.id}
  /\ slot' = [c \in Callers |-> IF Awaits(c, Incoming.id) THEN Incoming ELSE slot[c]]
  /\ UNCHANGED <<nextId, pc, mid, made, phase, breakerVars, clock,
                 readerVars, backendVars, toBackend, stranded>>

\* A backend's own request: mint a client-facing id and remember its own.
ReadServerRequest ==
  /\ Reading /\ Incoming.kind = "serverRequest" /\ ~IsExpected(Incoming) /\ Consume
  /\ srvSeq' = srvSeq + 1
  /\ serverRequests' = serverRequests \cup {<<srvSeq + 1, Incoming.id>>}
  /\ held' = {Incoming}
  /\ UNCHANGED <<handleVars, breakerVars, clock, reader, sink, backendVars,
                 toBackend, stranded>>

\* Everything else goes to the sink as it is: a notification, and also an answer
\* nobody expects any more.
ReadOther ==
  /\ Reading /\ Incoming.kind # "serverRequest" /\ ~IsExpected(Incoming) /\ Consume
  /\ held' = {Incoming}
  /\ UNCHANGED <<handleVars, breakerVars, clock, reader, sink, srvSeq, serverRequests,
                 backendVars, toBackend, stranded>>

\* sink.send(..).await: waits while the channel is full, and the reader with it.
PutInSink ==
  /\ Len(sink) < SinkCap
  /\ \E m \in held : sink' = Append(sink, m)
  /\ held' = {}
  /\ UNCHANGED <<handleVars, breakerVars, clock, reader, srvSeq, serverRequests,
                 backendVars, wireVars, stranded>>

\* An EOF that ends the task without dropping the senders.
ReadEof_keepsSenders ==
  /\ reader = "running" /\ held = {} /\ fromBackend = <<>> /\ ~outOpen
  /\ reader' = "ended" /\ pending' = {}
  /\ UNCHANGED <<nextId, pc, mid, made, slot, phase, breakerVars, clock, held, sink,
                 srvSeq, serverRequests, backendVars, wireVars, stranded>>

\* EOF or error: drop every pending sender.
ReadEof ==
  /\ reader = "running" /\ held = {} /\ fromBackend = <<>> /\ ~outOpen
  /\ reader' = "ended" /\ pending' = {}
  /\ slot' = [c \in Callers |-> IF mid[c] \in pending /\ Awaits(c, mid[c])
                                THEN Dropped ELSE slot[c]]
  /\ UNCHANGED <<nextId, pc, mid, made, phase, breakerVars, clock, held, sink,
                 srvSeq, serverRequests, backendVars, wireVars, stranded>>

\* The drain task of serve() hands a message on to the client.
DrainSink ==
  /\ sink # <<>> /\ sink' = Tail(sink)
  /\ UNCHANGED <<handleVars, breakerVars, clock, reader, held, srvSeq, serverRequests,
                 backendVars, wireVars, stranded>>

-------------------------------------------------------------------------------
\* The backend and time.

BackendReads ==
  /\ inOpen /\ toBackend # <<>> /\ toBackend' = Tail(toBackend)
  /\ unanswered' = IF Head(toBackend).kind = "request"
                   THEN unanswered \cup {Head(toBackend)} ELSE unanswered
  /\ UNCHANGED <<handleVars, breakerVars, clock, readerVars, outOpen, inOpen, events,
                 fromBackend, stranded>>

BackendAnswers ==
  /\ outOpen
  /\ \E r \in unanswered :
       /\ unanswered' = unanswered \ {r}
       /\ fromBackend' = Append(fromBackend, Response(r.id, r.payload))
  /\ UNCHANGED <<handleVars, breakerVars, clock, readerVars, outOpen, inOpen, events,
                 toBackend, stranded>>

BackendInitiates ==
  /\ outOpen /\ events < MaxEvents /\ events' = events + 1
  /\ \E m \in {Notification(events)}
             \cup {ServerRequest(n, events) : n \in BackendIds} :
       fromBackend' = Append(fromBackend, m)
  /\ UNCHANGED <<handleVars, breakerVars, clock, readerVars, unanswered, outOpen, inOpen,
                 toBackend, stranded>>

BackendCloses ==
  /\ \/ outOpen /\ outOpen' = FALSE /\ UNCHANGED inOpen
     \/ inOpen /\ inOpen' = FALSE /\ UNCHANGED outOpen
  /\ UNCHANGED <<handleVars, breakerVars, clock, readerVars, unanswered, events,
                 wireVars, stranded>>

Tick ==
  /\ clock < MaxClock /\ clock' = clock + 1
  /\ UNCHANGED <<handleVars, breakerVars, readerVars, backendVars, wireVars, stranded>>

-------------------------------------------------------------------------------
Caller(c) ==
  \/ Begin(c) \/ Write(c) \/ WriteFails(c) \/ Receive(c)
  \/ Expire(c) \/ Forget(c) \/ RecordOutcome(c)

Handshake == SendInitialized \/ LeaveOut

ReaderStep ==
  ReadAnswer \/ ReadServerRequest \/ ReadOther \/ PutInSink \/ ReadEof

Environment ==
  BackendReads \/ BackendAnswers \/ BackendInitiates \/ BackendCloses \/ Tick

Next ==
  \/ \E c \in Callers : Caller(c)
  \/ Handshake \/ ReaderStep \/ DrainSink \/ Environment

Spec == Init /\ [][Next]_vars

\* The runtime polls every task that is ready and fires every timer that is due;
\* nothing is assumed of the backend.
Fairness ==
  /\ \A c \in Callers : WF_vars(Caller(c) /\ pc[c] # "idle")
  /\ WF_vars(Handshake) /\ WF_vars(ReaderStep) /\ WF_vars(DrainSink)

FairSpec == Spec /\ Fairness

\* In addition, a backend whose input is open keeps reading it.
ReadingSpec == FairSpec /\ WF_vars(BackendReads)

-------------------------------------------------------------------------------
\* Properties.

TypeOK ==
  /\ nextId \in Nat /\ pending \subseteq Nat /\ stranded \subseteq Nat
  /\ pc \in [Callers -> {"idle", "queued", "waiting", "expired", "answered", "failed",
                         "greeted", "unreached"}]
  /\ mid \in [Callers -> Nat] /\ made \in [Callers -> Nat]
  /\ slot \in [Callers -> Responses \cup ServerRequests \cup {Empty, Dropped}]
  /\ phase \in {"handshake", "serving"}
  /\ breaker \in Breakers /\ clock \in Nat /\ streak \in Nat
  /\ reader \in {"running", "ended"}
  /\ held \subseteq Responses \cup Initiated
  /\ sink \in Seq(Responses \cup Initiated)
  /\ srvSeq \in Nat /\ serverRequests \subseteq Nat \X Nat
  /\ toBackend \in Seq(Requests \cup {Initialized})
  /\ fromBackend \in Seq(Responses \cup Initiated)
  /\ unanswered \subseteq Requests
  /\ outOpen \in BOOLEAN /\ inOpen \in BOOLEAN /\ events \in Nat

\* "Responses match pending requests by id" (router.rs header): whatever the order
\* of writes, answers, timeouts and late answers, what a caller finds in its channel
\* has the id of its current request, and is the backend's answer to that very
\* request unless it is no response at all.  The reader does not look (router.rs
\* 398-400): a request of the backend's own under that id is delivered as the answer.
OwnAnswer ==
  \A c \in Callers : slot[c] \notin {Empty, Dropped} =>
    /\ slot[c].id = mid[c]
    /\ slot[c].kind = "response" => slot[c].payload = Payload(c)

\* What a caller finds in its channel is a response (of the router's header, the
\* unconditional claim).  It fails: channel_taken.cfg.
OnlyResponses == \A c \in Callers : slot[c] \notin {Empty, Dropped} => slot[c].kind = "response"

\* A caller that still waits for its answer has its sender in the pending map (or
\* the reader is gone): no step of the reader, of a timeout or of the other caller
\* drops or takes over the sender of a request that is alive.
NoOrphanWaiter ==
  \A c \in Callers : pc[c] \in {"queued", "waiting"} /\ slot[c] = Empty =>
    mid[c] \in pending

\* The pending map does not grow with traffic: an entry belongs to a request that
\* is being made, but for the ones whose write failed (`?` leaves them behind).
PendingBounded ==
  pending \ stranded \subseteq
    {mid[c] : c \in {d \in Callers : pc[d] \in {"queued", "waiting", "expired"}}}

\* The breaker is closed exactly while fewer failures than the threshold have been
\* recorded since the last success, whichever of the route loop, the pinger and the
\* startup handshake recorded them and however often it was reopened in between.
OpensAt == IF Threshold = 0 THEN 1 ELSE Threshold
BreakerTracksStreak == breaker.state = "Closed" <=> streak < OpensAt

\* "Applies a per-request timeout" (router.rs header): with one configured, every
\* request that is begun ends, whatever the backend does.
RequestSettles == \A c \in Callers : pc[c] # "idle" ~> pc[c] = "idle"

\* "On EOF or error, drop every pending sender so awaiting requests fail instead of
\* hanging forever" (router.rs, Backend::start).
EofReleasesWaiters ==
  \A c \in Callers : reader = "ended" /\ pc[c] = "waiting" ~> pc[c] # "waiting"
===============================================================================
