-------------------------- MODULE StreamSessionProofs --------------------------
(***************************************************************************)
(* What holds of StreamSession for every set of POSTs and every bound.     *)
(***************************************************************************)
EXTENDS StreamSession, TLAPS

LineSet == [kind: Kinds, post: Posts] \cup {Garbage}
BodySet == Replies \cup {NoBody, EmptyBody, ListChanged}
OutSet  == Replies \cup {ListChanged}

LEMMA LineTypes ==
  ASSUME NEW p \in Posts, NEW k \in Kinds
  PROVE  Lines(p, k) \in Seq(LineSet) /\ Reply(p) \in Replies
<1>1. Line(p, k) \in LineSet /\ Garbage \in LineSet
  BY DEF Line, LineSet
<1>2. Lines(p, k) \in {<<Garbage>>, <<Garbage, Garbage>>, <<Line(p, k)>>}
  BY DEF Lines
<1>3. <<Garbage>> \in Seq(LineSet) /\ <<Garbage, Garbage>> \in Seq(LineSet)
      /\ <<Line(p, k)>> \in Seq(LineSet)
  BY <1>1
<1>4. Reply(p) \in Replies
  BY DEF Reply, Replies
<1> QED BY <1>2, <1>3, <1>4

LEMMA UnlockType ==
  ASSUME TypeOK, NEW p \in Posts
  PROVE  Unlock(p) \in Seq(Posts)
  BY DEF TypeOK, Unlock, Holds

LEMMA TypeInit == Init => TypeOK
<1> SUFFICES ASSUME Init PROVE TypeOK
  OBVIOUS
<1>1. /\ kind \in [Posts -> Kinds] /\ body \in [Posts -> BodySet]
      /\ pc \in [Posts -> {"none", "locking", "reading", "done", "refused"}]
  BY DEF Init, Kinds, BodySet
<1>2. ioQueue \in Seq(Posts) /\ toRouter \in Seq(LineSet) /\ fromRouter \in Seq(OutSet)
  BY DEF Init
<1>3. 0 \in 0..(Backlog + 1)
  BY SessionAssumption
<1>4. mode \in Modes /\ router = "unborn" /\ current = NoPost /\ swallowed = NoPost
      /\ mapped = FALSE /\ stream = "untaken" /\ fromOpen = FALSE
      /\ available = TRUE /\ surface = TRUE /\ announcing = "nobody"
      /\ flaps = 0 /\ backlog = 0 /\ events = 0
  BY DEF Init
<1> QED BY <1>1, <1>2, <1>3, <1>4 DEF TypeOK, BodySet, LineSet, OutSet

LEMMA TypeHandlers ==
  ASSUME TypeOK, NEW p \in Posts, Create(p) \/ Post(p) \/ Handler(p)
  PROVE  TypeOK'
<1> USE DEF handlerVars, routerVars, pipeVars, flapVars, eventVars
<1>1. CASE Create(p)
  <2>1. kind' \in [Posts -> Kinds]
    BY <1>1 DEF Create, TypeOK, Kinds
  <2>2. ioQueue' \in Seq(Posts)
    <3>1. Append(ioQueue, p) \in Seq(Posts)
      BY DEF TypeOK
    <3>2. ioQueue' \in {ioQueue, Append(ioQueue, p)}
      BY <1>1 DEF Create
    <3> QED BY <3>1, <3>2 DEF TypeOK
  <2> QED BY <1>1, <2>1, <2>2 DEF Create, TypeOK
<1>2. CASE Post(p)
  <2>1. kind' \in [Posts -> Kinds]
    BY <1>2 DEF Post, TypeOK, Kinds
  <2>2. ioQueue' \in Seq(Posts)
    <3>1. Append(ioQueue, p) \in Seq(Posts)
      BY DEF TypeOK
    <3>2. ioQueue' \in {ioQueue, Append(ioQueue, p)}
      BY <1>2 DEF Post
    <3> QED BY <3>1, <3>2 DEF TypeOK
  <2>3. pc' \in [Posts -> {"none", "locking", "reading", "done", "refused"}]
    BY <1>2 DEF Post, TypeOK
  <2> QED BY <1>2, <2>1, <2>2, <2>3 DEF Post, TypeOK
<1>3. CASE Send(p)
  <2>1. toRouter' \in Seq(LineSet)
    BY <1>3, LineTypes DEF Send, TypeOK, LineSet
  <2>2. ioQueue' \in Seq(Posts)
    BY <1>3, UnlockType DEF Send, TypeOK
  <2>3. pc' \in [Posts -> {"none", "locking", "reading", "done", "refused"}]
    BY <1>3 DEF Send, TypeOK
  <2>4. body' \in [Posts -> BodySet]
    BY <1>3 DEF Send, TypeOK, BodySet
  <2> QED BY <1>3, <2>1, <2>2, <2>3, <2>4 DEF Send, TypeOK, LineSet, BodySet
<1>4. CASE Receive(p)
  <2>1. fromRouter # <<>> => Head(fromRouter) \in OutSet /\ Tail(fromRouter) \in Seq(OutSet)
    BY DEF TypeOK, OutSet
  <2>2. ioQueue' \in Seq(Posts)
    BY <1>4, UnlockType DEF Receive
  <2>3. body' \in [Posts -> BodySet] /\ fromRouter' \in Seq(OutSet)
    BY <1>4, <2>1 DEF Receive, TypeOK, BodySet, OutSet
  <2> QED BY <1>4, <2>2, <2>3 DEF Receive, TypeOK, BodySet, OutSet
<1> QED BY <1>1, <1>2, <1>3, <1>4 DEF Handler

LEMMA TypeRouter ==
  ASSUME TypeOK, Router \/ Ping \/ Announce \/ Unwind \/ Discard
  PROVE  TypeOK'
<1> USE DEF handlerVars, routerVars, pipeVars, flapVars, eventVars
<1>0. toRouter # <<>> => Head(toRouter) \in LineSet /\ Tail(toRouter) \in Seq(LineSet)
  BY DEF TypeOK, LineSet
<1>1. CASE ReadInitialize
  <2>1. Head(toRouter).kind = "initialize" => Head(toRouter).post \in Posts
    BY <1>0, <1>1 DEF ReadInitialize, LineSet, Garbage
  <2> QED BY <1>0, <1>1, <2>1 DEF ReadInitialize, TypeOK, LineSet
<1>2. CASE Compose \/ Answer
  <2>1. ASSUME current \in Posts PROVE Append(fromRouter, Reply(current)) \in Seq(OutSet)
    BY <2>1 DEF TypeOK, OutSet, Replies, Reply
  <2> QED BY <1>2, <2>1 DEF Compose, Answer, TypeOK, OutSet
<1>3. CASE Confirm
  <2>1. Head(toRouter) # Garbage => Head(toRouter).post \in Posts
    BY <1>0, <1>3 DEF Confirm, LineSet
  <2> QED BY <1>0, <1>3, <2>1 DEF Confirm, TypeOK, LineSet
<1>4. CASE Read
  <2>1. Head(toRouter).kind = "request" => Head(toRouter).post \in Posts
    BY <1>0, <1>4 DEF Read, LineSet, Garbage
  <2> QED BY <1>0, <1>4, <2>1 DEF Read, TypeOK, LineSet
<1>5. CASE Emit \/ Ping
  BY <1>5 DEF Emit, Ping, EmitIfChanged, TypeOK
<1>8. CASE Announce
  <2>1. Append(fromRouter, ListChanged) \in Seq(OutSet)
    BY DEF TypeOK, OutSet
  <2>2. fromRouter' \in Seq(OutSet)
    BY <1>8, <2>1 DEF Announce, TypeOK, OutSet
  <2>3. /\ router' \in {router, "reading"} /\ announcing' = "nobody"
        /\ UNCHANGED <<mode, handlerVars, stream, current, swallowed, toRouter, fromOpen,
                       available, surface, flaps, eventVars>>
    BY <1>8 DEF Announce
  <2> QED BY <2>2, <2>3 DEF TypeOK, OutSet
<1>6. CASE ReadEof \/ Unwind
  BY <1>6 DEF ReadEof, Unwind, TypeOK
<1>7. CASE Discard
  BY <1>7, SessionAssumption DEF Discard, TypeOK
<1> QED BY <1>1, <1>2, <1>3, <1>4, <1>5, <1>6, <1>7, <1>8 DEF Router

LEMMA TypeRest ==
  ASSUME TypeOK,
         \/ Delete \/ OpenStream \/ StreamMessage \/ StreamEnds
         \/ Initiate \/ Flap \/ UNCHANGED vars
  PROVE  TypeOK'
<1> USE DEF TypeOK, handlerVars, routerVars, pipeVars, flapVars, eventVars
<1>1. CASE Delete \/ OpenStream \/ StreamEnds
  BY <1>1 DEF Delete, OpenStream, StreamEnds
<1>2. CASE StreamMessage
  BY <1>2, SessionAssumption DEF StreamMessage
<1>3. CASE Initiate
  BY <1>3, SessionAssumption DEF Initiate
<1>4. CASE Flap
  BY <1>4 DEF Flap
<1>5. CASE UNCHANGED vars
  BY <1>5 DEF vars
<1> QED BY <1>1, <1>2, <1>3, <1>4, <1>5

\* Every variable keeps its type.
THEOREM Typing == Spec => []TypeOK
<1>1. TypeOK /\ [Next]_vars => TypeOK'
  BY TypeHandlers, TypeRouter, TypeRest DEF Next
<1> QED BY <1>1, TypeInit, PTL DEF Spec

-------------------------------------------------------------------------------
\* Pairing.  A request holds the mutex from its write to its read, so at any time there
\* is at most one, and it is in exactly one place: a line on its way to the router, in
\* the router's hands, or a reply on its way back.

AsksRouter(line) == line.kind \in {"initialize", "request"}

OneReader == \A p \in Posts : pc[p] = "reading" => Holds(p)

RouterLives ==
  /\ (\E p \in Posts : pc[p] \in {"locking", "reading", "done"}) => router # "unborn"
  /\ fromOpen = FALSE => router \in {"unborn", "dead"}
  /\ router # "emitting" /\ announcing = "nobody"

OnePlace ==
  /\ router # "dead" =>
       /\ \A i \in 1..Len(toRouter) : AsksRouter(toRouter[i]) =>
            /\ pc[toRouter[i].post] = "reading" /\ fromRouter = <<>>
            /\ router \notin {"composing", "routing"}
       /\ \A i, j \in 1..Len(toRouter) :
            AsksRouter(toRouter[i]) /\ AsksRouter(toRouter[j]) => i = j
  /\ router \in {"composing", "routing"} => pc[current] = "reading" /\ fromRouter = <<>>
  /\ Len(fromRouter) <= 1
  /\ fromRouter # <<>> => \E p \in Posts : pc[p] = "reading" /\ Head(fromRouter) = Reply(p)

Paired == OneReader /\ RouterLives /\ OnePlace /\ PlainPairing
PlainInv == ~Resilient => Paired

LEMMA PlainInit == Init => PlainInv
  BY DEF Init, PlainInv, Paired, OneReader, RouterLives, OnePlace, PlainPairing, Responded

\* Nobody reads while somebody who has yet to write has the mutex.
LEMMA QuietBeforeWrite ==
  ASSUME TypeOK, OneReader, OnePlace, NEW p \in Posts, Holds(p), pc[p] = "locking"
  PROVE  /\ \A q \in Posts : pc[q] # "reading"
         /\ fromRouter = <<>>
         /\ router # "dead" =>
              /\ router \notin {"composing", "routing"}
              /\ \A i \in 1..Len(toRouter) : ~AsksRouter(toRouter[i])
<1>1. \A q \in Posts : pc[q] # "reading"
  BY DEF OneReader, Holds
<1>2. fromRouter = <<>>
  BY <1>1 DEF OnePlace
<1>3. \A i \in 1..Len(toRouter) : AsksRouter(toRouter[i]) => toRouter[i].post \in Posts
  BY DEF TypeOK, AsksRouter, Garbage
<1> QED BY <1>1, <1>2, <1>3 DEF OnePlace, TypeOK

LEMMA ConcatIndex ==
  ASSUME NEW S, NEW s \in Seq(S), NEW t \in Seq(S), NEW i \in 1..Len(s \o t),
         i \notin 1..Len(s)
  PROVE  i - Len(s) \in 1..Len(t) /\ (s \o t)[i] = t[i - Len(s)]
  OBVIOUS

LEMMA PlainSend ==
  ASSUME TypeOK, ~Resilient, Paired, NEW p \in Posts, Send(p)
  PROVE  Paired'
<1> DEFINE stays == router # "dead" /\ IsRequest(kind[p])
<1>1. /\ pc[p] = "locking" /\ Holds(p) /\ mode' = mode
      /\ toRouter' = IF router = "dead" THEN toRouter ELSE toRouter \o Lines(p, kind[p])
      /\ pc' = [pc EXCEPT ![p] = IF stays THEN "reading" ELSE "done"]
      /\ body' = [body EXCEPT ![p] = IF stays THEN @ ELSE EmptyBody]
      /\ ioQueue' = IF stays THEN ioQueue ELSE Unlock(p)
      /\ UNCHANGED <<kind, router, current, fromRouter, fromOpen, announcing>>
  BY DEF Send, routerVars, flapVars
<1>2. /\ \A q \in Posts : pc[q] # "reading"
      /\ fromRouter = <<>>
      /\ router # "dead" =>
           /\ router \notin {"composing", "routing"}
           /\ \A i \in 1..Len(toRouter) : ~AsksRouter(toRouter[i])
  BY <1>1, QuietBeforeWrite DEF Paired
<1>3. OneReader'
  <2> SUFFICES ASSUME NEW q \in Posts, pc'[q] = "reading" PROVE Holds(q)'
    BY DEF OneReader
  <2>1. q = p /\ stays
    BY <1>1, <1>2 DEF TypeOK
  <2> QED BY <1>1, <2>1 DEF Holds
<1>4. RouterLives'
  BY <1>1 DEF TypeOK, Paired, RouterLives
<1>5. PlainPairing'
  BY <1>1 DEF TypeOK, Paired, PlainPairing, Responded, OwnOrEnded, Resilient, Reply
<1>6. OnePlace'
  <2>1. CASE router = "dead"
    BY <1>1, <1>2, <2>1 DEF OnePlace
  <2>2. CASE router # "dead"
    <3> DEFINE lines == Lines(p, kind[p])
    <3>1. /\ lines \in Seq(LineSet) /\ Len(lines) \in {1, 2}
          /\ Len(lines) = 2 => ~AsksRouter(lines[1]) /\ ~AsksRouter(lines[2])
          /\ AsksRouter(lines[1]) => lines[1].post = p /\ stays
      <4>1. kind[p] \in Kinds
        BY DEF TypeOK
      <4>2. lines = <<Garbage>> \/ lines = <<Garbage, Garbage>> \/ lines = <<Line(p, kind[p])>>
        BY DEF Lines
      <4>3. ~AsksRouter(Garbage)
        BY DEF AsksRouter, Garbage
      <4>4. AsksRouter(Line(p, kind[p])) => Line(p, kind[p]).post = p /\ stays
        BY <2>2 DEF AsksRouter, Line, IsRequest
      <4>5. lines \in Seq(LineSet)
        BY <4>1, LineTypes
      <4> QED BY <4>2, <4>3, <4>4, <4>5
    <3>2. toRouter \in Seq(LineSet) /\ toRouter' = toRouter \o lines
      BY <1>1, <2>2 DEF TypeOK, LineSet
    <3>3. \A i \in 1..Len(toRouter') : AsksRouter(toRouter'[i]) =>
            i = Len(toRouter) + 1 /\ toRouter'[i].post = p /\ stays
      <4> HIDE DEF lines, stays
      <4> SUFFICES ASSUME NEW i \in 1..Len(toRouter'), AsksRouter(toRouter'[i])
                   PROVE  i = Len(toRouter) + 1 /\ toRouter'[i].post = p /\ stays
        OBVIOUS
      <4>1. i \notin 1..Len(toRouter)
        BY <1>2, <2>2, <3>1, <3>2
      <4>2. i - Len(toRouter) \in 1..Len(lines) /\ toRouter'[i] = lines[i - Len(toRouter)]
        BY <3>1, <3>2, <4>1, ConcatIndex
      <4>3. PICK j \in 1..Len(lines) : j = i - Len(toRouter)
        BY <4>2
      <4>4. AsksRouter(lines[j])
        BY <4>2, <4>3
      <4>5. j = 1
        BY <3>1, <4>3, <4>4
      <4>6. i = Len(toRouter) + 1
        BY <3>2, <4>3, <4>5
      <4> QED BY <3>1, <4>2, <4>3, <4>5, <4>6
    <3>4. stays => pc'[p] = "reading"
      BY <1>1 DEF TypeOK
    <3> QED BY <1>1, <1>2, <2>2, <3>3, <3>4 DEF OnePlace
  <2> QED BY <2>1, <2>2
<1> QED BY <1>3, <1>4, <1>5, <1>6 DEF Paired

LEMMA PlainReceive ==
  ASSUME TypeOK, ~Resilient, Paired, NEW p \in Posts, Receive(p)
  PROVE  Paired'
<1>1. /\ pc[p] = "reading" /\ pc' = [pc EXCEPT ![p] = "done"] /\ ioQueue' = Unlock(p)
      /\ UNCHANGED <<mode, kind, router, current, toRouter, fromOpen, announcing>>
  BY DEF Receive, routerVars, flapVars
<1>2. \A q \in Posts : pc[q] = "reading" => q = p
  BY <1>1 DEF Paired, OneReader, Holds
<1>3. OneReader'
  BY <1>1, <1>2 DEF OneReader, TypeOK
<1>4. RouterLives'
  BY <1>1 DEF TypeOK, Paired, RouterLives
<1>5. \/ /\ fromRouter # <<>> /\ body' = [body EXCEPT ![p] = Reply(p)] /\ fromRouter' = <<>>
      \/ /\ fromRouter = <<>> /\ router = "dead" /\ fromRouter' = <<>>
         /\ body' = [body EXCEPT ![p] = EmptyBody]
  <2>1. CASE fromRouter # <<>>
    <3>1. PICK q \in Posts : pc[q] = "reading" /\ Head(fromRouter) = Reply(q)
      BY <2>1 DEF Paired, OnePlace
    <3>2. Len(fromRouter) <= 1 /\ fromRouter \in Seq(OutSet)
      BY DEF Paired, OnePlace, TypeOK, OutSet
    <3>3. Tail(fromRouter) = <<>>
      BY <2>1, <3>2
    <3>4. q = p
      BY <1>2, <3>1
    <3> QED BY <2>1, <3>1, <3>3, <3>4 DEF Receive
  <2>2. CASE fromRouter = <<>>
    <3>1. fromOpen = FALSE /\ fromRouter' = fromRouter /\ body' = [body EXCEPT ![p] = EmptyBody]
      BY <2>2 DEF Receive, TypeOK
    <3>2. router # "unborn"
      BY <1>1 DEF Paired, RouterLives
    <3> QED BY <2>2, <3>1, <3>2 DEF Paired, RouterLives
  <2> QED BY <2>1, <2>2
<1>6. PlainPairing'
  BY <1>1, <1>5 DEF TypeOK, Paired, PlainPairing, Responded, OwnOrEnded, Resilient, Reply
<1>7. OnePlace'
  <2>1. \A i \in 1..Len(toRouter) : AsksRouter(toRouter[i]) => toRouter[i].post \in Posts
    BY DEF TypeOK, AsksRouter, Garbage
  <2>2. router # "dead" => /\ router \notin {"composing", "routing"}
                           /\ \A i \in 1..Len(toRouter) : ~AsksRouter(toRouter[i])
    BY <1>5 DEF Paired, OnePlace
  <2> QED BY <1>1, <1>5, <2>2 DEF OnePlace
<1> QED BY <1>3, <1>4, <1>6, <1>7 DEF Paired

\* A POST that arrives queues behind the others.
LEMMA PlainArrive ==
  ASSUME TypeOK, ~Resilient, Paired, NEW p \in Posts, Create(p) \/ Post(p)
  PROVE  Paired'
<1>1. /\ pc[p] = "none" /\ pc' \in {[pc EXCEPT ![p] = "locking"], [pc EXCEPT ![p] = "refused"]}
      /\ ioQueue' \in {ioQueue, Append(ioQueue, p)}
      /\ \E k \in Kinds : kind' = [kind EXCEPT ![p] = k]
      /\ UNCHANGED <<mode, body, current, toRouter, fromRouter, announcing>>
  BY DEF Create, Post, Kinds, routerVars, pipeVars, flapVars
<1>2. OneReader'
  <2> SUFFICES ASSUME NEW q \in Posts, pc'[q] = "reading" PROVE Holds(q)'
    BY DEF OneReader
  <2>1. pc[q] = "reading"
    BY <1>1 DEF TypeOK
  <2>2. Holds(q)
    BY <2>1 DEF Paired, OneReader
  <2>3. ioQueue \in Seq(Posts) /\ ioQueue # <<>>
    BY <2>2 DEF Holds, TypeOK
  <2>4. Append(ioQueue, p) # <<>> /\ Head(Append(ioQueue, p)) = Head(ioQueue)
    BY <2>3
  <2> QED BY <1>1, <2>2, <2>4 DEF Holds
<1>3. \/ /\ router' = router /\ fromOpen' = fromOpen
         /\ (\E q \in Posts : pc'[q] \in {"locking", "reading", "done"}) => router # "unborn"
      \/ router = "unborn" /\ router' = "handshake" /\ fromOpen' = TRUE
      \/ UNCHANGED <<router, fromOpen>> /\ router = "unborn" /\ pc' = [pc EXCEPT ![p] = "refused"]
  <2>1. CASE Create(p)
    BY <2>1 DEF Create, pipeVars
  <2>2. CASE Post(p)
    <3>1. router # "unborn"
      BY <2>2 DEF Post, KnowsSession, Paired, RouterLives
    <3> QED BY <2>2, <3>1 DEF Post, routerVars, pipeVars
  <2> QED BY <2>1, <2>2
<1>4. RouterLives'
  BY <1>1, <1>3 DEF TypeOK, Paired, RouterLives
<1>5. PlainPairing'
  BY <1>1, <1>3 DEF TypeOK, Paired, PlainPairing, Responded, OwnOrEnded, Resilient, Reply
<1>6. OnePlace'
  <2>1. \A i \in 1..Len(toRouter) : AsksRouter(toRouter[i]) => toRouter[i].post \in Posts
    BY DEF TypeOK, AsksRouter, Garbage
  <2>2. \A q \in Posts : pc[q] = "reading" => pc'[q] = "reading"
    BY <1>1 DEF TypeOK
  <2>3. router' # "dead" => router # "dead"
    BY <1>3
  <2>4. router' \in {"composing", "routing"} => router' = router /\ current \in Posts
    BY <1>3 DEF TypeOK
  <2> QED BY <1>1, <2>1, <2>2, <2>3, <2>4 DEF Paired, OnePlace, Reply
<1> QED BY <1>2, <1>4, <1>5, <1>6 DEF Paired

\* The first line of the pipe, when the router takes it.
LEMMA TakenLine ==
  ASSUME TypeOK, OnePlace, router # "dead", toRouter # <<>>
  PROVE  /\ Tail(toRouter) \in Seq(LineSet)
         /\ \A i \in 1..Len(Tail(toRouter)) : Tail(toRouter)[i] = toRouter[i + 1]
                                            /\ i + 1 \in 1..Len(toRouter)
         /\ AsksRouter(Head(toRouter)) =>
              /\ Head(toRouter).post \in Posts /\ pc[Head(toRouter).post] = "reading"
              /\ fromRouter = <<>>
              /\ \A i \in 1..Len(Tail(toRouter)) : ~AsksRouter(Tail(toRouter)[i])
         /\ \A i \in 1..Len(Tail(toRouter)) : AsksRouter(Tail(toRouter)[i]) =>
              /\ pc[Tail(toRouter)[i].post] = "reading" /\ fromRouter = <<>>
              /\ router \notin {"composing", "routing"}
         /\ \A i, j \in 1..Len(Tail(toRouter)) :
              AsksRouter(Tail(toRouter)[i]) /\ AsksRouter(Tail(toRouter)[j]) => i = j
<1> DEFINE rest == Tail(toRouter)
<1>1. toRouter \in Seq(LineSet)
  BY DEF TypeOK, LineSet
<1>2. rest \in Seq(LineSet) /\ Head(toRouter) = toRouter[1] /\ 1 \in 1..Len(toRouter)
  BY <1>1
<1>3. \A i \in 1..Len(rest) : rest[i] = toRouter[i + 1] /\ i + 1 \in 1..Len(toRouter) /\ i + 1 # 1
  BY <1>1
<1>4. AsksRouter(Head(toRouter)) => Head(toRouter).post \in Posts
  BY <1>1, <1>2 DEF LineSet, AsksRouter, Garbage
<1>5. \A i, j \in 1..Len(toRouter) :
        AsksRouter(toRouter[i]) /\ AsksRouter(toRouter[j]) => i = j
  BY DEF OnePlace
<1>6. \A i \in 1..Len(toRouter) : AsksRouter(toRouter[i]) =>
        /\ pc[toRouter[i].post] = "reading" /\ fromRouter = <<>>
        /\ router \notin {"composing", "routing"}
  BY DEF OnePlace
<1>7. \A i, j \in 1..Len(rest) : i + 1 = j + 1 => i = j
  OBVIOUS
<1>8. \A i, j \in 1..Len(rest) : AsksRouter(rest[i]) /\ AsksRouter(rest[j]) => i = j
  <2> SUFFICES ASSUME NEW i \in 1..Len(rest), NEW j \in 1..Len(rest),
                      AsksRouter(rest[i]), AsksRouter(rest[j])
               PROVE  i = j
    OBVIOUS
  <2>1. i + 1 = j + 1
    BY <1>3, <1>5
  <2> QED BY <1>7, <2>1
<1>9. AsksRouter(Head(toRouter)) => \A i \in 1..Len(rest) : ~AsksRouter(rest[i])
  BY <1>2, <1>3, <1>5
<1> HIDE DEF rest
<1>10. \A i \in 1..Len(rest) : AsksRouter(rest[i]) =>
         /\ pc[rest[i].post] = "reading" /\ fromRouter = <<>>
         /\ router \notin {"composing", "routing"}
  BY <1>3, <1>6
<1> QED BY <1>2, <1>3, <1>4, <1>6, <1>8, <1>9, <1>10 DEF rest

\* Neither a notification nor a line that does not decode asks for a reply, and a
\* request among the lines is one that a handler waits for.
LEMMA PlainTake ==
  ASSUME TypeOK, ~Resilient, Paired, ReadInitialize \/ Confirm \/ Read
  PROVE  Paired'
<1>1. /\ router \in {"handshake", "confirming", "reading"} /\ toRouter # <<>>
      /\ toRouter' = Tail(toRouter)
      /\ UNCHANGED <<mode, pc, kind, body, ioQueue, fromRouter, announcing>>
  BY DEF ReadInitialize, Confirm, Read, handlerVars, flapVars
<1>2. \/ router' = "dead"
      \/ /\ router' \in {"composing", "routing"} /\ fromOpen' = fromOpen
         /\ AsksRouter(Head(toRouter)) /\ current' = Head(toRouter).post
      \/ router' = "reading" /\ fromOpen' = fromOpen
  BY DEF ReadInitialize, Confirm, Read, AsksRouter
<1>3. OneReader'
  BY <1>1 DEF Paired, OneReader, Holds
<1>4. RouterLives'
  BY <1>1, <1>2 DEF Paired, RouterLives
<1>5. PlainPairing'
  BY <1>1 DEF Paired, PlainPairing, Responded, OwnOrEnded, Resilient
<1>6. OnePlace'
  <2>1. OnePlace /\ router # "dead"
    BY <1>1 DEF Paired
  <2>2. CASE router' = "dead"
    BY <1>1, <2>1, <2>2 DEF OnePlace
  <2>3. CASE router' = "reading"
    BY <1>1, <2>1, <2>3, TakenLine DEF OnePlace
  <2>4. CASE /\ router' \in {"composing", "routing"}
             /\ AsksRouter(Head(toRouter)) /\ current' = Head(toRouter).post
    BY <1>1, <2>1, <2>4, TakenLine DEF OnePlace
  <2> QED BY <1>2, <2>2, <2>3, <2>4
<1> QED BY <1>3, <1>4, <1>5, <1>6 DEF Paired

\* The reply is the only line on its way back.
LEMMA PlainReply ==
  ASSUME TypeOK, ~Resilient, Paired, Compose \/ Answer
  PROVE  Paired'
<1>1. /\ router \in {"composing", "routing"}
      /\ UNCHANGED <<mode, pc, kind, body, ioQueue, toRouter, current, announcing>>
  BY DEF Compose, Answer, handlerVars, flapVars
<1>2. \/ router' = "dead" /\ fromRouter' = fromRouter
      \/ /\ router' \in {"confirming", "reading"} /\ fromOpen' = fromOpen
         /\ fromRouter' = Append(fromRouter, Reply(current))
  BY DEF Compose, Answer
<1>3. /\ current \in Posts /\ pc[current] = "reading" /\ fromRouter = <<>>
      /\ \A i \in 1..Len(toRouter) : ~AsksRouter(toRouter[i])
  BY <1>1 DEF TypeOK, Paired, OnePlace
<1>4. OneReader' /\ PlainPairing'
  BY <1>1 DEF Paired, OneReader, Holds, PlainPairing, Responded, OwnOrEnded, Resilient
<1>5. RouterLives'
  BY <1>1, <1>2 DEF Paired, RouterLives
<1>6. OnePlace'
  <2>1. CASE router' = "dead" /\ fromRouter' = fromRouter
    BY <1>1, <1>3, <2>1 DEF OnePlace
  <2>2. CASE /\ router' \in {"confirming", "reading"}
             /\ fromRouter' = Append(fromRouter, Reply(current))
    <3>1. fromRouter' = <<Reply(current)>>
      BY <1>3, <2>2
    <3>2. Len(fromRouter') = 1 /\ Head(fromRouter') = Reply(current)
      BY <3>1
    <3> QED BY <1>1, <1>3, <2>2, <3>2 DEF OnePlace, Reply
  <2> QED BY <1>2, <2>1, <2>2
<1> QED BY <1>4, <1>5, <1>6 DEF Paired

\* Nothing else writes into a pipe, and a router that has ended has no place.
LEMMA PlainRest ==
  ASSUME TypeOK, ~Resilient, Paired,
         \/ Emit \/ Ping \/ Announce \/ ReadEof \/ Unwind \/ Discard \/ Delete \/ OpenStream
         \/ StreamMessage \/ StreamEnds \/ Initiate \/ Flap \/ UNCHANGED vars
  PROVE  Paired'
<1> USE DEF handlerVars, routerVars, pipeVars, flapVars, eventVars
<1>1. ~Emit /\ ~Ping /\ ~Announce /\ ~Flap
  BY DEF Emit, Ping, Announce, Flap, Paired, RouterLives, Resilient
<1>2. /\ UNCHANGED <<mode, pc, kind, body, ioQueue, current, toRouter, fromRouter>>
      /\ \/ UNCHANGED <<router, fromOpen>>
         \/ router' = "dead"
         \/ router = "confirming" /\ router' = "reading" /\ fromOpen' = fromOpen
      /\ announcing' = announcing \/ announcing' = "nobody"
  BY <1>1 DEF ReadEof, Unwind, Discard, Delete, OpenStream, StreamMessage, StreamEnds,
              Initiate, vars
<1>3. OneReader' /\ PlainPairing'
  BY <1>2 DEF Paired, OneReader, Holds, PlainPairing, Responded, OwnOrEnded, Resilient
<1>4. RouterLives' /\ OnePlace'
  BY <1>2 DEF Paired, RouterLives, OnePlace
<1> QED BY <1>3, <1>4 DEF Paired

\* In a configuration without breakers a request POST gets the router's response to
\* itself, however many handlers share the session's pipe.
THEOREM PairingWithoutBreakers == Spec => []PlainPairing
<1>1. TypeOK /\ PlainInv /\ [Next]_vars => PlainInv'
  <2> SUFFICES ASSUME TypeOK, PlainInv, [Next]_vars, ~Resilient' PROVE Paired'
    BY DEF PlainInv
  <2>1. mode' = mode
    BY DEF Next, vars, Handler, Router, Create, Post, Send, Receive, Delete, OpenStream,
           StreamMessage, StreamEnds, ReadInitialize, Compose, Confirm, Read, Answer, Emit,
           ReadEof, Ping, Announce, Unwind, Discard, Initiate, Flap
  <2>2. ~Resilient /\ Paired
    BY <2>1 DEF Resilient, PlainInv
  <2> QED BY <2>2, PlainArrive, PlainSend, PlainReceive, PlainTake, PlainReply, PlainRest
          DEF Next, Handler, Router
<1>2. PlainInv => PlainPairing
  BY DEF PlainInv, Paired, PlainPairing
<1> QED BY <1>1, <1>2, PlainInit, Typing, PTL DEF Spec
===============================================================================
