------------------------- MODULE BackendChannelProofs -------------------------
(***************************************************************************)
(* What holds of BackendChannel for every set of callers, every capacity   *)
(* and every bound.                                                        *)
(***************************************************************************)
EXTENDS BackendChannel, TLAPS

\* The operators of the breaker stay among the breakers.
LEMMA BreakerTypes ==
  ASSUME NEW b \in Breakers, NEW now \in Nat
  PROVE  /\ Observe(b, now) \in Breakers
         /\ RecordSuccess(b) \in Breakers
         /\ RecordFailure(b, now) \in Breakers
         /\ Trip(now) \in Breakers
<1>1. Observe(b, now) \in Breakers
  BY DEF Breakers, Observe
<1>2. RecordSuccess(b) \in Breakers
  BY DEF Breakers, RecordSuccess
<1>3. Trip(now) \in Breakers
  BY BreakerAssumption DEF Breakers, Trip
<1>4. RecordFailure(b, now) \in Breakers
  <2> DEFINE seen == Observe(b, now)
  <2>1. seen \in Breakers
    BY <1>1
  <2>2. [seen EXCEPT !.failures = @ + 1] \in Breakers
    BY <2>1 DEF Breakers
  <2> QED BY <1>3, <2>2 DEF RecordFailure
<1> QED BY <1>1, <1>2, <1>3, <1>4

LEMMA TypeInit == Init => TypeOK
  BY BreakerAssumption DEF Init, TypeOK, NewBreaker, Breakers

USE DEF Callers

LEMMA TypeCaller ==
  ASSUME TypeOK, NEW c \in Callers, Caller(c)
  PROVE  TypeOK'
<1>0. /\ breaker \in Breakers /\ clock \in Nat
      /\ Observe(breaker, clock) \in Breakers
      /\ RecordSuccess(breaker) \in Breakers
      /\ RecordFailure(breaker, clock) \in Breakers
  BY BreakerTypes DEF TypeOK
<1>1. CASE Begin(c)
  <2>1. breaker' \in Breakers
    BY <1>0, <1>1 DEF Begin
  <2> QED BY <1>1, <2>1 DEF Begin, TypeOK, readerVars, backendVars, wireVars
<1>2. CASE Write(c)
  BY <1>2 DEF Write, TypeOK, breakerVars, readerVars, backendVars, Request, Requests, Payload, Payloads
<1>3. CASE WriteFails(c)
  BY <1>3 DEF WriteFails, AfterError, TypeOK, breakerVars, readerVars, backendVars, wireVars
<1>4. CASE Receive(c)
  BY <1>4 DEF Receive, TypeOK, breakerVars, readerVars, backendVars, wireVars
<1>5. CASE Expire(c)
  BY <1>5 DEF Expire, TypeOK, breakerVars, readerVars, backendVars, wireVars
<1>6. CASE Forget(c)
  BY <1>6 DEF Forget, TypeOK, breakerVars, readerVars, backendVars, wireVars
<1>7. CASE RecordOutcome(c)
  <2>1. breaker' \in Breakers
    BY <1>0, <1>7 DEF RecordOutcome
  <2>2. streak' \in Nat
    BY <1>7 DEF RecordOutcome, TypeOK
  <2> QED BY <1>7, <2>1, <2>2
          DEF RecordOutcome, AfterError, TypeOK, readerVars, backendVars, wireVars
<1> QED BY <1>1, <1>2, <1>3, <1>4, <1>5, <1>6, <1>7 DEF Caller

LEMMA TypeHandshake ==
  ASSUME TypeOK, Handshake
  PROVE  TypeOK'
<1>0. RecordFailure(breaker, clock) \in Breakers
  BY BreakerTypes DEF TypeOK
<1>1. CASE SendInitialized
  <2>1. toBackend' \in Seq(Requests \cup {Initialized})
    <3>1. toBackend \in Seq(Requests \cup {Initialized})
      BY DEF TypeOK
    <3>2. Append(toBackend, Initialized) \in Seq(Requests \cup {Initialized})
      BY <3>1
    <3> QED BY <1>1, <3>1, <3>2 DEF SendInitialized
  <2>2. phase' \in {"handshake", "serving"}
    BY <1>1 DEF SendInitialized, TypeOK
  <2>3. pc' \in [Callers -> {"idle", "queued", "waiting", "expired", "answered", "failed",
                            "greeted", "unreached"}]
    BY <1>1 DEF SendInitialized, TypeOK
  <2> QED BY <1>1, <2>1, <2>2, <2>3
          DEF SendInitialized, TypeOK, breakerVars, readerVars, backendVars
<1>2. CASE LeaveOut
  BY <1>0, <1>2 DEF LeaveOut, TypeOK, readerVars, backendVars, wireVars
<1> QED BY <1>1, <1>2 DEF Handshake

LEMMA TypeReader ==
  ASSUME TypeOK, ReaderStep \/ DrainSink
  PROVE  TypeOK'
<1>0. fromBackend # <<>> => /\ Incoming \in Responses \cup Initiated
                            /\ Tail(fromBackend) \in Seq(Responses \cup Initiated)
  BY DEF TypeOK, Incoming
<1>1. CASE ReadAnswer
  <2>1. Incoming \in Responses \cup ServerRequests
    BY <1>0, <1>1 DEF ReadAnswer, Reading, IsExpected, Initiated
  <2> QED BY <1>0, <1>1, <2>1
          DEF ReadAnswer, Reading, Consume, TypeOK, breakerVars, readerVars, backendVars
<1>2. CASE ReadServerRequest
  <2>1. Incoming \in ServerRequests
    BY <1>0, <1>2 DEF ReadServerRequest, Reading, Responses, Initiated
  <2>2. Incoming.id \in Nat
    BY <2>1 DEF ServerRequests
  <2> QED BY <1>0, <1>2, <2>1, <2>2
          DEF ReadServerRequest, Reading, Consume, TypeOK, handleVars, breakerVars, backendVars
<1>3. CASE ReadOther
  BY <1>0, <1>3 DEF ReadOther, Reading, Consume, TypeOK, handleVars, breakerVars, backendVars
<1>4. CASE PutInSink
  BY <1>4 DEF PutInSink, TypeOK, handleVars, breakerVars, backendVars, wireVars
<1>5. CASE ReadEof
  BY <1>5 DEF ReadEof, TypeOK, breakerVars, readerVars, backendVars, wireVars
<1>6. CASE DrainSink
  BY <1>6 DEF DrainSink, TypeOK, handleVars, breakerVars, backendVars, wireVars
<1> QED BY <1>1, <1>2, <1>3, <1>4, <1>5, <1>6 DEF ReaderStep

LEMMA TypeEnvironment ==
  ASSUME TypeOK, Environment
  PROVE  TypeOK'
<1>1. CASE BackendReads
  <2>1. /\ Head(toBackend) \in Requests \cup {Initialized}
        /\ Tail(toBackend) \in Seq(Requests \cup {Initialized})
    BY <1>1 DEF BackendReads, TypeOK
  <2>2. Head(toBackend).kind = "request" => Head(toBackend) \in Requests
    BY <2>1 DEF Initialized
  <2> QED BY <1>1, <2>1, <2>2
          DEF BackendReads, TypeOK, handleVars, breakerVars, readerVars
<1>2. CASE BackendAnswers
  <2>1. PICK r \in unanswered :
          /\ unanswered' = unanswered \ {r}
          /\ fromBackend' = Append(fromBackend, Response(r.id, r.payload))
    BY <1>2 DEF BackendAnswers
  <2>2. Response(r.id, r.payload) \in Responses
    BY <2>1 DEF TypeOK, Requests, Response, Responses
  <2> QED BY <1>2, <2>1, <2>2
          DEF BackendAnswers, TypeOK, handleVars, breakerVars, readerVars
<1>3. CASE BackendInitiates
  <2>1. PICK m \in {Notification(events)} \cup {ServerRequest(n, events) : n \in BackendIds} :
          fromBackend' = Append(fromBackend, m)
    BY <1>3 DEF BackendInitiates
  <2>2. m \in Initiated
    BY <2>1, ChannelAssumption
       DEF TypeOK, Notification, ServerRequest, ServerRequests, Initiated
  <2> QED BY <1>3, <2>1, <2>2
          DEF BackendInitiates, TypeOK, handleVars, breakerVars, readerVars
<1>4. CASE BackendCloses
  BY <1>4 DEF BackendCloses, TypeOK, handleVars, breakerVars, readerVars, wireVars
<1>5. CASE Tick
  BY <1>5 DEF Tick, TypeOK, handleVars, breakerVars, readerVars, backendVars, wireVars
<1> QED BY <1>1, <1>2, <1>3, <1>4, <1>5 DEF Environment

\* Every variable keeps its type (BackendHandle, the reader task, the breaker).
THEOREM Typing == Spec => []TypeOK
<1>1. TypeOK /\ [Next]_vars => TypeOK'
  <2> SUFFICES ASSUME TypeOK, [Next]_vars PROVE TypeOK'
    OBVIOUS
  <2>1. CASE UNCHANGED vars
    BY <2>1 DEF vars, handleVars, breakerVars, readerVars, backendVars, wireVars, TypeOK
  <2> QED BY <2>1, TypeCaller, TypeHandshake, TypeReader, TypeEnvironment DEF Next
<1> QED BY TypeInit, <1>1, PTL DEF Spec

-------------------------------------------------------------------------------
\* The breaker.  While it is closed its count is the streak itself; that it is not
\* closed shows that the streak has reached the threshold, and nothing but a success
\* takes either back.

StreakInv ==
  IF breaker.state = "Closed"
  THEN breaker.failures = streak /\ streak < OpensAt
  ELSE streak >= OpensAt

LEMMA StreakObserve ==
  ASSUME TypeOK, StreakInv, breaker' = Observe(breaker, clock), streak' = streak
  PROVE  StreakInv'
BY DEF TypeOK, StreakInv, Observe, Breakers, OpensAt

LEMMA StreakSuccess ==
  ASSUME TypeOK, breaker' = RecordSuccess(breaker), streak' = 0
  PROVE  StreakInv'
BY BreakerAssumption DEF TypeOK, StreakInv, RecordSuccess, Breakers, OpensAt

LEMMA StreakFailure ==
  ASSUME TypeOK, StreakInv, breaker' = RecordFailure(breaker, clock), streak' = streak + 1
  PROVE  StreakInv'
<1> DEFINE seen == Observe(breaker, clock)
<1>1. /\ seen.failures = breaker.failures /\ seen.failures \in Nat
      /\ seen.state = "Closed" <=> breaker.state = "Closed"
      /\ seen \in Breakers
  BY DEF TypeOK, Observe, Breakers
<1>2. streak \in Nat /\ Threshold \in Nat
  BY BreakerAssumption DEF TypeOK
<1>3. CASE seen.state = "HalfOpen" \/ seen.failures + 1 >= Threshold
  <2>1. breaker'.state = "Open"
    BY <1>3 DEF RecordFailure, Trip
  <2>2. streak + 1 >= OpensAt
    BY <1>1, <1>2, <1>3 DEF StreakInv, OpensAt
  <2> QED BY <2>1, <2>2 DEF StreakInv, OpensAt
<1>4. CASE ~(seen.state = "HalfOpen" \/ seen.failures + 1 >= Threshold)
  <2>1. breaker' = [seen EXCEPT !.failures = @ + 1]
    BY <1>4 DEF RecordFailure
  <2>2. breaker'.state = seen.state /\ breaker'.failures = seen.failures + 1
    BY <1>1, <2>1 DEF Breakers
  <2> QED BY <1>1, <1>2, <1>4, <2>2 DEF StreakInv, OpensAt
<1> QED BY <1>3, <1>4

\* The breaker is closed exactly while the failures recorded since the last success
\* are fewer than the threshold (CircuitBreaker, and the calls of request, of the
\* pinger and of the handshake), for every threshold, 0 among them.
THEOREM BreakerFollows == Spec => []BreakerTracksStreak
<1>1. Init => StreakInv
  BY BreakerAssumption DEF Init, StreakInv, NewBreaker, OpensAt
<1>2. TypeOK /\ StreakInv /\ [Next]_vars => StreakInv'
  <2> SUFFICES ASSUME TypeOK, StreakInv, [Next]_vars PROVE StreakInv'
    OBVIOUS
  <2>1. ASSUME UNCHANGED breakerVars PROVE StreakInv'
    BY <2>1 DEF breakerVars, StreakInv, OpensAt
  <2>2. ASSUME NEW c \in Callers, Caller(c) PROVE StreakInv'
    <3>1. CASE Begin(c)
      BY <2>1, <3>1, StreakObserve DEF Begin, breakerVars
    <3>2. CASE RecordOutcome(c)
      BY <3>2, StreakSuccess, StreakFailure DEF RecordOutcome
    <3>3. CASE Write(c) \/ WriteFails(c) \/ Receive(c) \/ Expire(c) \/ Forget(c)
      BY <2>1, <3>3 DEF Write, WriteFails, Receive, Expire, Forget
    <3> QED BY <2>2, <3>1, <3>2, <3>3 DEF Caller
  <2>3. CASE Handshake
    BY <2>1, <2>3, StreakFailure DEF Handshake, SendInitialized, LeaveOut
  <2>4. CASE ReaderStep \/ DrainSink
    BY <2>1, <2>4 DEF ReaderStep, DrainSink, ReadAnswer, ReadServerRequest, ReadOther,
                      PutInSink, ReadEof
  <2>5. CASE Environment
    BY <2>1, <2>5 DEF Environment, BackendReads, BackendAnswers, BackendInitiates,
                      BackendCloses, Tick
  <2>6. CASE UNCHANGED vars
    BY <2>1, <2>6 DEF vars
  <2> QED BY <2>2, <2>3, <2>4, <2>5, <2>6 DEF Next
<1>3. TypeOK /\ StreakInv => BreakerTracksStreak
  BY BreakerAssumption DEF TypeOK, StreakInv, BreakerTracksStreak, OpensAt
<1> QED BY <1>1, <1>2, <1>3, Typing, PTL DEF Spec

-------------------------------------------------------------------------------
\* The requests.  Ids are handed out once, so that two callers never work for the same
\* one, and what travels under an id is the payload of whoever works for it.

Started(c) == made[c] > 0

OwnIds ==
  /\ \A c \in Callers : pc[c] # "idle" => Started(c)
  /\ \A c \in Callers : Started(c) => mid[c] < nextId
  /\ \A c, d \in Callers : c # d /\ Started(c) /\ Started(d) => mid[c] # mid[d]

Carries(m) ==
  m.kind \in {"request", "response"} =>
    /\ m.id < nextId
    /\ \A c \in Callers : Started(c) /\ mid[c] = m.id => m.payload = Payload(c)

Carried ==
  /\ \A i \in 1..Len(toBackend) : Carries(toBackend[i])
  /\ \A m \in unanswered : Carries(m)
  /\ \A i \in 1..Len(fromBackend) : Carries(fromBackend[i])

\* The oneshot channel: a sender that has been used or dropped is not in the map.
Alive(c) == pc[c] \in {"queued", "waiting"}
SenderUsed ==
  /\ \A n \in pending : n < nextId
  /\ \A c \in Callers : Alive(c) /\ slot[c] # Empty => mid[c] \notin pending

RequestInv ==
  OwnIds /\ Carried /\ SenderUsed /\ OwnAnswer /\ NoOrphanWaiter /\ PendingBounded

LEMMA RequestInit == Init => RequestInv
  BY DEF Init, RequestInv, OwnIds, Started, Carried, SenderUsed, Alive, OwnAnswer, Empty,
         NoOrphanWaiter, PendingBounded

\* What stays as it is when a step leaves the callers, their channels and the map alone.
LEMMA RequestFrame ==
  ASSUME RequestInv, UNCHANGED <<nextId, pending, pc, mid, made, slot, stranded>>
  PROVE  /\ OwnIds' /\ SenderUsed' /\ OwnAnswer' /\ NoOrphanWaiter' /\ PendingBounded'
         /\ \A m : Carries(m) => Carries(m)'
  BY DEF RequestInv, OwnIds, Started, Carries, SenderUsed, Alive, OwnAnswer, Payload,
         NoOrphanWaiter, PendingBounded

LEMMA CarriedFrame ==
  ASSUME Carried, \A m : Carries(m) => Carries(m)',
         UNCHANGED <<toBackend, unanswered, fromBackend>>
  PROVE  Carried'
  BY DEF Carried

LEMMA RequestBegin ==
  ASSUME TypeOK, RequestInv, NEW c \in Callers, Begin(c)
  PROVE  RequestInv'
<1>1. /\ nextId' = nextId + 1 /\ pending' = pending \cup {nextId}
      /\ mid' = [mid EXCEPT ![c] = nextId] /\ made' = [made EXCEPT ![c] = @ + 1]
      /\ slot' = [slot EXCEPT ![c] = Empty] /\ pc[c] = "idle"
      /\ pc' = [pc EXCEPT ![c] = "queued"] /\ stranded' = stranded
      /\ UNCHANGED <<toBackend, unanswered, fromBackend>>
  BY DEF Begin, backendVars, wireVars
<1>2. /\ nextId \in Nat /\ mid \in [Callers -> Nat] /\ made \in [Callers -> Nat]
      /\ pc \in [Callers -> {"idle", "queued", "waiting", "expired", "answered", "failed",
                             "greeted", "unreached"}]
      /\ slot \in [Callers -> Responses \cup ServerRequests \cup {Empty, Dropped}] /\ pending \subseteq Nat
  BY DEF TypeOK
<1>3. OwnIds'
  BY <1>1, <1>2 DEF RequestInv, OwnIds, Started
<1>4. ASSUME NEW m, Carries(m), m.kind \in {"request", "response"} => m.id \in Nat
      PROVE  Carries(m)'
  BY <1>1, <1>2, <1>4 DEF Carries, Started, Payload
<1>5. Carried'
  <2>1. \A i \in 1..Len(toBackend) : Carries(toBackend[i])'
    <3> SUFFICES ASSUME NEW i \in 1..Len(toBackend) PROVE Carries(toBackend[i])'
      OBVIOUS
    <3>1. toBackend[i] \in Requests \cup {Initialized}
      BY DEF TypeOK
    <3> QED BY <1>1, <1>4, <3>1 DEF RequestInv, Carried, Requests, Initialized
  <2>2. \A m \in unanswered : Carries(m)'
    BY <1>4 DEF RequestInv, Carried, TypeOK, Requests
  <2>3. \A i \in 1..Len(fromBackend) : Carries(fromBackend[i])'
    <3> SUFFICES ASSUME NEW i \in 1..Len(fromBackend) PROVE Carries(fromBackend[i])'
      OBVIOUS
    <3>1. fromBackend[i] \in Responses \cup Initiated
      BY DEF TypeOK
    <3> QED BY <1>1, <1>4, <3>1 DEF RequestInv, Carried, Responses, Initiated, ServerRequests
  <2> QED BY <1>1, <2>1, <2>2, <2>3 DEF Carried
<1>6. SenderUsed'
  BY <1>1, <1>2 DEF RequestInv, SenderUsed, OwnIds, Started, Alive
<1>7. OwnAnswer'
  BY <1>1, <1>2 DEF RequestInv, OwnAnswer, Payload, Empty
<1>8. NoOrphanWaiter'
  BY <1>1, <1>2 DEF RequestInv, NoOrphanWaiter
<1>9. PendingBounded'
  BY <1>1, <1>2 DEF RequestInv, PendingBounded
<1> QED BY <1>3, <1>5, <1>6, <1>7, <1>8, <1>9 DEF RequestInv

\* A step of caller c from where its channel is of no use to it any more, or that
\* leaves the channel and the map alone.
LEMMA RequestMove ==
  ASSUME TypeOK, RequestInv, NEW c \in Callers, pc[c] # "idle",
         UNCHANGED <<nextId, mid, made>>,
         NEW where, pc' = [pc EXCEPT ![c] = where]
  PROVE  /\ OwnIds'
         /\ \A m : Carries(m) => Carries(m)'
  BY DEF TypeOK, RequestInv, OwnIds, Started, Carries, Payload

LEMMA RequestCaller ==
  ASSUME TypeOK, RequestInv, NEW c \in Callers, Caller(c)
  PROVE  RequestInv'
<1> USE DEF Payload
<1>1. CASE Begin(c)
  BY <1>1, RequestBegin
<1>2. CASE Write(c)
  <2>1. pc[c] = "queued" /\ pc' = [pc EXCEPT ![c] = "waiting"]
        /\ UNCHANGED <<nextId, pending, mid, made, slot, stranded, unanswered, fromBackend>>
        /\ toBackend' = Append(toBackend, Request(mid[c], Payload(c)))
    BY <1>2 DEF Write, backendVars
  <2>2. OwnIds' /\ \A m : Carries(m) => Carries(m)'
    BY <2>1, RequestMove
  <2>3. Carries(Request(mid[c], Payload(c)))
    BY <2>1 DEF RequestInv, OwnIds, Carries, Request
  <2>4. Carried'
    BY <2>1, <2>2, <2>3 DEF RequestInv, Carried, TypeOK
  <2>5. SenderUsed' /\ NoOrphanWaiter' /\ PendingBounded'
    BY <2>1 DEF TypeOK, RequestInv, SenderUsed, Alive, NoOrphanWaiter, PendingBounded
  <2>6. OwnAnswer'
    BY <2>1 DEF RequestInv, OwnAnswer
  <2> QED BY <2>2, <2>4, <2>5, <2>6 DEF RequestInv
<1>3. CASE WriteFails(c)
  <2>1. pc[c] = "queued" /\ pc' = [pc EXCEPT ![c] = AfterError(c)]
        /\ AfterError(c) \in {"unreached", "idle"}
        /\ stranded' = stranded \cup {mid[c]}
        /\ UNCHANGED <<nextId, pending, mid, made, slot, toBackend, unanswered, fromBackend>>
    BY <1>3 DEF WriteFails, AfterError, backendVars, wireVars
  <2>2. OwnIds' /\ Carried'
    BY <2>1, RequestMove, CarriedFrame DEF RequestInv
  <2>3. SenderUsed' /\ NoOrphanWaiter'
    BY <2>1 DEF TypeOK, RequestInv, SenderUsed, Alive, NoOrphanWaiter
  <2>4. OwnAnswer'
    BY <2>1 DEF RequestInv, OwnAnswer
  <2>5. PendingBounded'
    <3> SUFFICES ASSUME NEW n \in pending, n \notin stranded, n # mid[c]
                 PROVE  \E d \in Callers : mid[d] = n /\ pc'[d] \in {"queued", "waiting", "expired"}
      BY <2>1 DEF PendingBounded
    <3>1. PICK d \in Callers : mid[d] = n /\ pc[d] \in {"queued", "waiting", "expired"}
      BY DEF RequestInv, PendingBounded
    <3> QED BY <2>1, <3>1 DEF TypeOK
  <2> QED BY <2>2, <2>3, <2>4, <2>5 DEF RequestInv
<1>4. CASE Receive(c)
  <2>1. pc[c] = "waiting" /\ slot[c] # Empty /\ slot' = [slot EXCEPT ![c] = Empty]
        /\ UNCHANGED <<nextId, pending, mid, made, stranded, toBackend, unanswered, fromBackend>>
    BY <1>4 DEF Receive, backendVars, wireVars
  <2>2. PICK where \in {"failed", "answered"} : pc' = [pc EXCEPT ![c] = where]
    BY <1>4 DEF Receive
  <2>3. OwnIds' /\ Carried'
    BY <2>1, <2>2, RequestMove, CarriedFrame DEF RequestInv
  <2>4. SenderUsed' /\ NoOrphanWaiter' /\ PendingBounded'
    BY <2>1, <2>2 DEF TypeOK, RequestInv, SenderUsed, Alive, NoOrphanWaiter, PendingBounded
  <2>5. OwnAnswer'
    BY <2>1 DEF TypeOK, RequestInv, OwnAnswer, Empty
  <2> QED BY <2>3, <2>4, <2>5 DEF RequestInv
<1>5. CASE Expire(c)
  <2>1. pc[c] = "waiting" /\ pc' = [pc EXCEPT ![c] = "expired"]
        /\ UNCHANGED <<nextId, pending, mid, made, slot, stranded, toBackend, unanswered,
                       fromBackend>>
    BY <1>5 DEF Expire, backendVars, wireVars
  <2>2. OwnIds' /\ Carried'
    BY <2>1, RequestMove, CarriedFrame DEF RequestInv
  <2>3. SenderUsed' /\ NoOrphanWaiter' /\ PendingBounded'
    BY <2>1 DEF TypeOK, RequestInv, SenderUsed, Alive, NoOrphanWaiter, PendingBounded
  <2>4. OwnAnswer'
    BY <2>1 DEF RequestInv, OwnAnswer
  <2> QED BY <2>2, <2>3, <2>4 DEF RequestInv
<1>6. CASE Forget(c)
  <2>1. pc[c] = "expired" /\ pc' = [pc EXCEPT ![c] = "failed"]
        /\ pending' = pending \ {mid[c]}
        /\ UNCHANGED <<nextId, mid, made, slot, stranded, toBackend, unanswered, fromBackend>>
    BY <1>6 DEF Forget, backendVars, wireVars
  <2>2. OwnIds' /\ Carried'
    BY <2>1, RequestMove, CarriedFrame DEF RequestInv
  <2>3. SenderUsed'
    BY <2>1 DEF TypeOK, RequestInv, SenderUsed, Alive
  <2>6. PendingBounded'
    <3> SUFFICES ASSUME NEW n \in pending, n \notin stranded, n # mid[c]
                 PROVE  \E d \in Callers : mid[d] = n /\ pc'[d] \in {"queued", "waiting", "expired"}
      BY <2>1 DEF PendingBounded
    <3>1. PICK d \in Callers : mid[d] = n /\ pc[d] \in {"queued", "waiting", "expired"}
      BY DEF RequestInv, PendingBounded
    <3> QED BY <2>1, <3>1 DEF TypeOK
  <2>4. NoOrphanWaiter'
    BY <2>1 DEF TypeOK, RequestInv, NoOrphanWaiter, OwnIds
  <2>5. OwnAnswer'
    BY <2>1 DEF RequestInv, OwnAnswer
  <2> QED BY <2>2, <2>3, <2>4, <2>5, <2>6 DEF RequestInv
<1>7. CASE RecordOutcome(c)
  <2>1. pc[c] \in {"answered", "failed"}
        /\ UNCHANGED <<nextId, pending, mid, made, slot, stranded, toBackend, unanswered,
                       fromBackend>>
    BY <1>7 DEF RecordOutcome, backendVars, wireVars
  <2>2. PICK where \in {"greeted", "idle", "unreached"} : pc' = [pc EXCEPT ![c] = where]
    BY <1>7 DEF RecordOutcome, AfterError
  <2>3. OwnIds' /\ Carried'
    BY <2>1, <2>2, RequestMove, CarriedFrame DEF RequestInv
  <2>4. SenderUsed' /\ NoOrphanWaiter' /\ PendingBounded'
    BY <2>1, <2>2 DEF TypeOK, RequestInv, SenderUsed, Alive, NoOrphanWaiter, PendingBounded
  <2>5. OwnAnswer'
    BY <2>1 DEF RequestInv, OwnAnswer
  <2> QED BY <2>3, <2>4, <2>5 DEF RequestInv
<1> QED BY <1>1, <1>2, <1>3, <1>4, <1>5, <1>6, <1>7 DEF Caller

LEMMA RequestReader ==
  ASSUME TypeOK, RequestInv, ReaderStep
  PROVE  RequestInv'
<1>0. fromBackend # <<>> =>
        /\ \A i \in 1..Len(Tail(fromBackend)) :
             /\ i + 1 \in 1..Len(fromBackend)
             /\ Tail(fromBackend)[i] = fromBackend[i + 1]
        /\ Incoming \in Responses \cup Initiated /\ Carries(Incoming)
  BY DEF TypeOK, Incoming, RequestInv, Carried
<1>1. ASSUME UNCHANGED <<nextId, pending, pc, mid, made, slot, stranded>>,
             UNCHANGED <<toBackend, unanswered>>,
             fromBackend' = fromBackend \/ (fromBackend # <<>> /\ fromBackend' = Tail(fromBackend))
      PROVE  RequestInv'
  <2>1. /\ OwnIds' /\ SenderUsed' /\ OwnAnswer' /\ NoOrphanWaiter' /\ PendingBounded'
        /\ \A m : Carries(m) => Carries(m)'
    BY <1>1, RequestFrame
  <2>2. Carried'
    BY <1>0, <1>1, <2>1 DEF RequestInv, Carried
  <2> QED BY <2>1, <2>2 DEF RequestInv
<1>2. CASE ReadAnswer
  <2>1. /\ fromBackend # <<>> /\ IsExpected(Incoming) /\ fromBackend' = Tail(fromBackend)
        /\ pending' = pending \ {Incoming.id}
        /\ slot' = [d \in Callers |-> IF Awaits(d, Incoming.id) THEN Incoming ELSE slot[d]]
        /\ UNCHANGED <<nextId, pc, mid, made, stranded, toBackend, unanswered>>
    BY <1>2 DEF ReadAnswer, Reading, Consume, backendVars
  <2>2. Incoming # Empty /\ Incoming.id \in pending
    BY <1>0, <2>1 DEF IsExpected, Empty, Responses, Initiated, ServerRequests
  <2>3. OwnIds' /\ \A m : Carries(m) => Carries(m)'
    BY <2>1 DEF RequestInv, OwnIds, Started, Carries, Payload
  <2>4. Carried'
    BY <1>0, <2>1, <2>3 DEF RequestInv, Carried
  <2>5. SenderUsed'
    BY <2>1, <2>2 DEF RequestInv, SenderUsed, Alive, Awaits
  <2>6. OwnAnswer'
    <3> SUFFICES ASSUME NEW d \in Callers, slot'[d] \notin {Empty, Dropped}
                 PROVE  /\ slot'[d].id = mid[d]
                        /\ slot'[d].kind = "response" => slot'[d].payload = Payload(d)
      BY <2>1 DEF OwnAnswer, Payload
    <3>1. CASE Awaits(d, Incoming.id)
      BY <1>0, <2>1, <2>2, <3>1 DEF RequestInv, OwnIds, Carries, Awaits
    <3>2. CASE ~Awaits(d, Incoming.id)
      BY <2>1, <3>2 DEF RequestInv, OwnAnswer
    <3> QED BY <3>1, <3>2
  <2>7. NoOrphanWaiter'
    BY <2>1, <2>2 DEF RequestInv, NoOrphanWaiter, Awaits
  <2>8. PendingBounded'
    BY <2>1 DEF RequestInv, PendingBounded
  <2> QED BY <2>3, <2>4, <2>5, <2>6, <2>7, <2>8 DEF RequestInv
<1>3. CASE ReadEof
  <2>1. /\ pending' = {}
        /\ slot' = [d \in Callers |-> IF mid[d] \in pending /\ Awaits(d, mid[d])
                                      THEN Dropped ELSE slot[d]]
        /\ UNCHANGED <<nextId, pc, mid, made, stranded, toBackend, unanswered, fromBackend>>
    BY <1>3 DEF ReadEof, backendVars, wireVars
  <2>2. OwnIds' /\ \A m : Carries(m) => Carries(m)'
    BY <2>1 DEF RequestInv, OwnIds, Started, Carries, Payload
  <2>3. Carried'
    BY <2>1, <2>2, CarriedFrame DEF RequestInv
  <2>4. SenderUsed' /\ PendingBounded'
    BY <2>1 DEF SenderUsed, PendingBounded
  <2>5. OwnAnswer'
    BY <2>1 DEF RequestInv, OwnAnswer, Payload, Dropped
  <2>6. NoOrphanWaiter'
    BY <2>1 DEF RequestInv, NoOrphanWaiter, Awaits, Empty, Dropped
  <2> QED BY <2>2, <2>3, <2>4, <2>5, <2>6 DEF RequestInv
<1>4. CASE ReadServerRequest \/ ReadOther
  BY <1>1, <1>4 DEF ReadServerRequest, ReadOther, Reading, Consume, handleVars, backendVars
<1>5. CASE PutInSink
  BY <1>1, <1>5 DEF PutInSink, handleVars, backendVars, wireVars
<1> QED BY <1>2, <1>3, <1>4, <1>5 DEF ReaderStep

LEMMA RequestBackend ==
  ASSUME TypeOK, RequestInv, Environment
  PROVE  RequestInv'
<1>1. UNCHANGED <<nextId, pending, pc, mid, made, slot, stranded>>
  BY DEF Environment, BackendReads, BackendAnswers, BackendInitiates, BackendCloses, Tick,
         handleVars
<1>2. /\ OwnIds' /\ SenderUsed' /\ OwnAnswer' /\ NoOrphanWaiter' /\ PendingBounded'
      /\ \A m : Carries(m) => Carries(m)'
  BY <1>1, RequestFrame
<1>3. Carried'
  <2>1. CASE BackendReads
    <3>1. /\ \A i \in 1..Len(Tail(toBackend)) :
               /\ i + 1 \in 1..Len(toBackend)
               /\ Tail(toBackend)[i] = toBackend[i + 1]
          /\ Carries(Head(toBackend))
      BY <2>1 DEF BackendReads, TypeOK, RequestInv, Carried
    <3> QED BY <1>2, <2>1, <3>1 DEF BackendReads, RequestInv, Carried
  <2>2. CASE BackendAnswers
    <3>1. PICK r \in unanswered :
            /\ unanswered' = unanswered \ {r}
            /\ fromBackend' = Append(fromBackend, Response(r.id, r.payload))
      BY <2>2 DEF BackendAnswers
    <3>2. Carries(Response(r.id, r.payload))
      BY <3>1 DEF RequestInv, Carried, Carries, Response, TypeOK, Requests
    <3> QED BY <1>2, <2>2, <3>1, <3>2 DEF BackendAnswers, TypeOK, RequestInv, Carried
  <2>3. CASE BackendInitiates
    <3>1. PICK m \in {Notification(events)} \cup {ServerRequest(n, events) : n \in BackendIds} :
            fromBackend' = Append(fromBackend, m)
      BY <2>3 DEF BackendInitiates
    <3>2. Carries(m)
      BY <3>1 DEF Carries, Notification, ServerRequest
    <3> QED BY <1>2, <2>3, <3>1, <3>2 DEF BackendInitiates, TypeOK, RequestInv, Carried
  <2>4. CASE BackendCloses \/ Tick
    BY <1>2, <2>4, CarriedFrame DEF BackendCloses, Tick, RequestInv, wireVars, backendVars
  <2> QED BY <2>1, <2>2, <2>3, <2>4 DEF Environment
<1> QED BY <1>2, <1>3 DEF RequestInv

LEMMA RequestNext == TypeOK /\ RequestInv /\ [Next]_vars => RequestInv'
<1> SUFFICES ASSUME TypeOK, RequestInv, [Next]_vars PROVE RequestInv'
  OBVIOUS
<1>1. ASSUME UNCHANGED <<nextId, pending, mid, made, slot, stranded>>,
             UNCHANGED <<unanswered, fromBackend>>, Handshake
      PROVE  RequestInv'
  <2>1. PICK where \in {"idle", "unreached"} : pc' = [pc EXCEPT ![Route] = where]
    BY <1>1 DEF Handshake, SendInitialized, LeaveOut
  <2>2. pc[Route] \in {"greeted", "unreached"}
    BY <1>1 DEF Handshake, SendInitialized, LeaveOut
  <2>3. OwnIds' /\ \A m : Carries(m) => Carries(m)'
    BY <1>1, <2>1, <2>2, RequestMove
  <2>4. toBackend' = toBackend \/ toBackend' = Append(toBackend, Initialized)
    BY <1>1 DEF Handshake, SendInitialized, LeaveOut, wireVars
  <2>5. Carries(Initialized)
    BY DEF Carries, Initialized
  <2>6. Carried'
    <3>1. toBackend \in Seq(Requests \cup {Initialized})
      BY DEF TypeOK
    <3>2. CASE toBackend' = toBackend
      BY <1>1, <2>3, <3>2, CarriedFrame DEF RequestInv
    <3>3. CASE toBackend' = Append(toBackend, Initialized)
      <4>1. \A i \in 1..Len(toBackend') :
              toBackend'[i] = Initialized \/ (i \in 1..Len(toBackend) /\ toBackend'[i] = toBackend[i])
        BY <3>1, <3>3
      <4> QED BY <1>1, <2>3, <2>5, <4>1 DEF RequestInv, Carried
    <3> QED BY <2>4, <3>2, <3>3
  <2>7. SenderUsed' /\ NoOrphanWaiter' /\ PendingBounded'
    BY <1>1, <2>1, <2>2
       DEF TypeOK, RequestInv, SenderUsed, Alive, NoOrphanWaiter, PendingBounded
  <2>8. OwnAnswer'
    BY <1>1 DEF RequestInv, OwnAnswer, Payload
  <2> QED BY <2>3, <2>6, <2>7, <2>8 DEF RequestInv
<1>2. CASE Handshake
  BY <1>1, <1>2 DEF Handshake, SendInitialized, LeaveOut, backendVars, wireVars
<1>3. CASE DrainSink \/ UNCHANGED vars
  <2>1. UNCHANGED <<nextId, pending, pc, mid, made, slot, stranded>>
        /\ UNCHANGED <<toBackend, unanswered, fromBackend>>
    BY <1>3 DEF DrainSink, vars, handleVars, backendVars, wireVars
  <2> QED BY <2>1, RequestFrame, CarriedFrame DEF RequestInv
<1> QED BY <1>2, <1>3, RequestCaller, RequestReader, RequestBackend DEF Next

\* Whatever is written, answered, timed out or answered late, in whatever order, a
\* response reaches only the caller whose request it answers, and nothing reaches a
\* caller but under the id of its request, a backend's own request that has this id
\* included (request and the demux, which looks at the id alone).
THEOREM AnswersAreOwn == Spec => []OwnAnswer
<1>1. RequestInv => OwnAnswer
  BY DEF RequestInv
<1> QED BY <1>1, RequestInit, RequestNext, Typing, PTL DEF Spec

\* No waiting caller loses its sender to another request, to a timeout or to the end
\* of the reader (the pending map of BackendHandle).
THEOREM WaitersKeepSenders == Spec => []NoOrphanWaiter
<1>1. RequestInv => NoOrphanWaiter
  BY DEF RequestInv
<1> QED BY <1>1, RequestInit, RequestNext, Typing, PTL DEF Spec

\* But for requests whose write failed, the pending map holds requests being made.
THEOREM PendingIsBounded == Spec => []PendingBounded
<1>1. RequestInv => PendingBounded
  BY DEF RequestInv
<1> QED BY <1>1, RequestInit, RequestNext, Typing, PTL DEF Spec
===============================================================================
