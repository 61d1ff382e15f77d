----------------------------- MODULE StreamSession -----------------------------
(***************************************************************************)
(* A session of the Streamable HTTP server: HTTP handlers run concurrently *)
(* and share one io mutex, under which a POST writes its body into a pipe  *)
(* to a spawned router and, if it is a request, takes the NEXT line of the *)
(* pipe back as its response.  GET streams what the backends initiate and  *)
(* DELETE takes the session out of the map.                                *)
(*                                                                         *)
(* The router is reduced to what it reads from and writes to the pipes;    *)
(* all its backends to one that answers, fails or initiates.  A line is    *)
(* the POST it came from, or Garbage for one that does not decode; a pipe  *)
(* holds only so many, and whoever writes into a full one waits.           *)
(***************************************************************************)
EXTENDS Naturals, Sequences

CONSTANTS
  Posts,       \* POST requests a client may make
  NoPost,
  Modes,       \* "plain", "breakers" and "pinged" (resilience, healthInterval)
  Backlog,     \* messages from the backends that fit on the way to a stream
  PipeCap,     \* lines that fill a pipe
  MaxEvents,   \* bound of the instance: messages the backends initiate
  MaxFlaps     \* bound of the instance: changes of the available backends

ASSUME SessionAssumption ==
  /\ NoPost \notin Posts /\ Modes \subseteq {"plain", "breakers", "pinged"}
  /\ Backlog \in Nat /\ PipeCap \in Nat \ {0}
  /\ MaxEvents \in Nat /\ MaxFlaps \in Nat

VARIABLES
  mode,        \* what the configuration says of resilience
  \* --- HTTP handlers and the session they share ---
  mapped,      \* the session is in the sessions map
  pc, kind, body,   \* each POST: its handler, its message, the response it wrote
  ioQueue,     \* the io mutex: its holder, then those that wait, in order
  stream,      \* outbound: "untaken", "open" in a GET handler, or "gone"
  \* --- the router at the other end of the pipes ---
  router, current,   \* where it is, and the POST it works for
  toRouter, fromRouter,
  fromOpen,    \* somebody still holds the writing end of fromRouter
  swallowed,   \* history: the POST whose line was taken for the initialized
  available, surface, flaps,   \* the backend is available; what was announced
  announcing,  \* who has changed the surface and not yet written so
  backlog, events    \* messages on the way to the stream; initiated so far

handlerVars == <<mapped, pc, kind, body, ioQueue>>
routerVars  == <<router, current, swallowed>>
pipeVars    == <<toRouter, fromRouter, fromOpen>>
flapVars    == <<available, surface, flaps, announcing>>
eventVars   == <<backlog, events>>
vars == <<mode, handlerVars, stream, routerVars, pipeVars, flapVars, eventVars>>

\* A body is sent as it is: one without text is a line that does not decode, and one
\* with a newline in it is several.  An odd one has an id, and a method that is no string.
Kinds == {"initialize", "request", "notification", "odd", "bodyless", "multiline"}

\* What a handler waits for the response of: whatever has an id and a method.
IsRequest(k) == k \in {"initialize", "request", "odd", "multiline"}

Garbage == [kind |-> "garbage"]
ListChanged == [kind |-> "listChanged"]
Line(p, k) == [kind |-> k, post |-> p]
Lines(p, k) ==
  CASE k = "bodyless"  -> <<Garbage>>
    [] k = "multiline" -> <<Garbage, Garbage>>
    [] OTHER           -> <<Line(p, k)>>
Reply(p) == [kind |-> "reply", post |-> p]
NoBody == [kind |-> "none"]
EmptyBody == [kind |-> "empty"]        \* unwrap_or_default of an error or an EOF

Replies == [kind: {"reply"}, post: Posts]

Resilient == mode # "plain"

Init ==
  /\ mode \in Modes
  /\ mapped = FALSE /\ stream = "untaken" /\ ioQueue = <<>>
  /\ pc = [p \in Posts |-> "none"]
  /\ kind = [p \in Posts |-> "request"]
  /\ body = [p \in Posts |-> NoBody]
  /\ router = "unborn" /\ current = NoPost /\ swallowed = NoPost
  /\ toRouter = <<>> /\ fromRouter = <<>> /\ fromOpen = FALSE
  /\ available = TRUE /\ surface = TRUE /\ flaps = 0 /\ announcing = "nobody"
  /\ backlog = 0 /\ events = 0

-------------------------------------------------------------------------------
\* The handlers.

InUse(p) == pc[p] \in {"locking", "reading"}

\* Nothing refers to the session any more: its ends of the pipes are closed, and so is
\* the receiving end of outbound.
Unheld == ~mapped /\ stream # "open" /\ \A p \in Posts : ~InUse(p)

\* A body of several lines goes into a pipe with room for one: its first line ends the
\* router, which makes room for the rest.
Full(pipe) == Len(pipe) >= PipeCap

\* An initialize without a session id creates the session, enters it in the map and
\* only then asks it.
Create(p) ==
  /\ router = "unborn" /\ pc[p] = "none"
  /\ \E k \in {"initialize", "multiline"} : kind' = [kind EXCEPT ![p] = k]
  /\ \/ /\ pc' = [pc EXCEPT ![p] = "locking"] /\ ioQueue' = Append(ioQueue, p)
        /\ mapped' = TRUE /\ router' = "handshake" /\ fromOpen' = TRUE
     \/ /\ pc' = [pc EXCEPT ![p] = "refused"]     \* no backend: the connection ends
        /\ UNCHANGED <<mode, ioQueue, mapped, router, fromOpen>>
  /\ UNCHANGED <<mode, body, stream, current, swallowed, toRouter, fromRouter, flapVars, eventVars>>

\* The client learns the session id from the response to its initialize.
KnowsSession == \E p \in Posts : pc[p] = "done"

Post(p) ==
  /\ KnowsSession /\ pc[p] = "none"
  /\ \E k \in Kinds \ {"initialize"} : kind' = [kind EXCEPT ![p] = k]
  /\ IF mapped
     THEN pc' = [pc EXCEPT ![p] = "locking"] /\ ioQueue' = Append(ioQueue, p)
     ELSE pc' = [pc EXCEPT ![p] = "refused"] /\ UNCHANGED ioQueue
  /\ UNCHANGED <<mode, mapped, body, stream, routerVars, pipeVars, flapVars, eventVars>>

Holds(p) == ioQueue # <<>> /\ Head(ioQueue) = p
Unlock(p) == IF Holds(p) THEN Tail(ioQueue) ELSE ioQueue

\* A request that lets go of the mutex between its write and its read.
Send_unlocks(p) ==
  /\ pc[p] = "locking" /\ Holds(p) /\ (router = "dead" \/ ~Full(toRouter))
  /\ IF router = "dead"
     THEN /\ body' = [body EXCEPT ![p] = EmptyBody]
          /\ pc' = [pc EXCEPT ![p] = "done"]
          /\ UNCHANGED toRouter
     ELSE /\ toRouter' = toRouter \o Lines(p, kind[p])
          /\ pc' = [pc EXCEPT ![p] = IF IsRequest(kind[p]) THEN "reading" ELSE "done"]
          /\ body' = [body EXCEPT ![p] = IF IsRequest(kind[p]) THEN @ ELSE EmptyBody]
  /\ ioQueue' = Unlock(p)
  /\ UNCHANGED <<mode, mapped, kind, stream, routerVars, fromRouter, fromOpen, flapVars, eventVars>>

\* Under the mutex: write the body once the pipe has room.  A write to a router that is
\* gone fails, and the response is empty; a notification is done (202), a request keeps
\* the mutex.
Send(p) ==
  /\ pc[p] = "locking" /\ Holds(p) /\ (router = "dead" \/ ~Full(toRouter))
  /\ LET stays == router # "dead" /\ IsRequest(kind[p]) IN
     /\ toRouter' = IF router = "dead" THEN toRouter ELSE toRouter \o Lines(p, kind[p])
     /\ pc' = [pc EXCEPT ![p] = IF stays THEN "reading" ELSE "done"]
     /\ body' = [body EXCEPT ![p] = IF stays THEN @ ELSE EmptyBody]
     /\ ioQueue' = IF stays THEN ioQueue ELSE Unlock(p)
  /\ UNCHANGED <<mode, mapped, kind, stream, routerVars, fromRouter, fromOpen, flapVars, eventVars>>

\* Still under the mutex: whatever line comes next is the response.
Receive(p) ==
  /\ pc[p] = "reading"
  /\ \/ /\ fromRouter # <<>>
        /\ body' = [body EXCEPT ![p] = Head(fromRouter)]
        /\ fromRouter' = Tail(fromRouter)
     \/ /\ fromRouter = <<>> /\ ~fromOpen
        /\ body' = [body EXCEPT ![p] = EmptyBody]
        /\ UNCHANGED fromRouter
  /\ pc' = [pc EXCEPT ![p] = "done"]
  /\ ioQueue' = Unlock(p)
  /\ UNCHANGED <<mode, mapped, kind, stream, routerVars, toRouter, fromOpen, flapVars, eventVars>>

Delete ==
  /\ KnowsSession /\ mapped /\ mapped' = FALSE
  /\ UNCHANGED <<mode, pc, kind, body, ioQueue, stream, routerVars, pipeVars, flapVars, eventVars>>

\* The first GET takes the receiver; a later one finds none and ends at once.
OpenStream ==
  /\ KnowsSession /\ mapped /\ stream = "untaken" /\ stream' = "open"
  /\ UNCHANGED <<mode, handlerVars, routerVars, pipeVars, flapVars, eventVars>>

\* One message to the client of the GET; the handler ends when that fails.
StreamMessage ==
  /\ stream = "open" /\ backlog > 0 /\ backlog' = backlog - 1
  /\ stream' \in {"open", "gone"}
  /\ UNCHANGED <<mode, handlerVars, routerVars, pipeVars, flapVars, events>>

\* ... or when every sender is gone.
StreamEnds ==
  /\ stream = "open" /\ backlog = 0 /\ router = "dead" /\ ~fromOpen /\ stream' = "gone"
  /\ UNCHANGED <<mode, handlerVars, routerVars, pipeVars, flapVars, eventVars>>

-------------------------------------------------------------------------------
\* The router.

\* A first line that is not initialize ends serve(), before it has spawned anything.
ReadInitialize ==
  /\ router = "handshake" /\ toRouter # <<>> /\ toRouter' = Tail(toRouter)
  /\ IF Head(toRouter).kind = "initialize"
     THEN /\ router' = "composing" /\ current' = Head(toRouter).post
          /\ UNCHANGED fromOpen
     ELSE /\ router' = "dead" /\ fromOpen' = FALSE /\ UNCHANGED current
  /\ UNCHANGED <<mode, handlerVars, stream, swallowed, fromRouter, flapVars, eventVars>>

\* The backends' handshakes, which must all succeed unless they carry breakers.
Compose ==
  /\ router = "composing" /\ backlog <= Backlog /\ ~Full(fromRouter)
  /\ \/ /\ router' = "confirming"
        /\ fromRouter' = Append(fromRouter, Reply(current))
        /\ surface' = available
        /\ UNCHANGED fromOpen
     \/ /\ ~Resilient /\ router' = "dead" /\ fromOpen' = FALSE
        /\ UNCHANGED <<fromRouter, surface>>
  /\ UNCHANGED <<mode, handlerVars, stream, current, swallowed, toRouter, available, flaps,
                 announcing, eventVars>>

\* The message after initialize is taken for the initialized notification, unread.
Confirm ==
  /\ router = "confirming" /\ toRouter # <<>>
  /\ toRouter' = Tail(toRouter) /\ router' = "reading"
  /\ swallowed' = IF Head(toRouter) = Garbage THEN NoPost ELSE Head(toRouter).post
  /\ UNCHANGED <<mode, handlerVars, stream, current, fromRouter, fromOpen, flapVars, eventVars>>

\* The route loop: a line that does not decode ends serve() through `?`, past the
\* end of the tasks it has spawned.  One without a method that is a string asks for no
\* answer: with an id it is the client's reply to a backend, without one a notification.
Read ==
  /\ router = "reading" /\ toRouter # <<>> /\ toRouter' = Tail(toRouter)
  /\ LET line == Head(toRouter) IN
     \/ /\ line = Garbage /\ router' = "dead" /\ UNCHANGED current
     \/ /\ line.kind = "request" /\ router' = "routing" /\ current' = line.post
     \/ /\ line.kind \in {"notification", "odd"} /\ UNCHANGED <<router, current>>
  /\ UNCHANGED <<mode, handlerVars, stream, swallowed, fromRouter, fromOpen, flapVars, eventVars>>

\* A reader that waits to hand a message on reads no answer.  An answer that nobody can
\* read any more ends serve() through `?` as well.
Answer ==
  /\ router = "routing" /\ backlog <= Backlog
  /\ \/ /\ ~Unheld /\ ~Full(fromRouter)
        /\ fromRouter' = Append(fromRouter, Reply(current))
        /\ router' = IF Resilient THEN "emitting" ELSE "reading"
     \/ /\ Unheld \/ ~Resilient
        /\ router' = "dead" /\ UNCHANGED fromRouter
  /\ UNCHANGED <<mode, handlerVars, stream, current, swallowed, toRouter, fromOpen, flapVars,
                 eventVars>>

\* emit_if_changed: under the surface lock, note what is available now; a change is to be
\* written into the pipe before the lock is let go.
EmitIfChanged(who) ==
  /\ announcing = "nobody" /\ surface' = available
  /\ announcing' = IF available # surface THEN who ELSE "nobody"

Emit ==
  /\ router = "emitting" /\ EmitIfChanged("router")
  /\ router' = IF available # surface THEN "emitting" ELSE "reading"
  /\ UNCHANGED <<mode, handlerVars, stream, current, swallowed, pipeVars, available, flaps,
                 eventVars>>

\* A health task, which outlives a serve() that failed.
Ping ==
  /\ mode = "pinged" /\ router \in {"reading", "routing", "emitting", "dead"} /\ fromOpen
  /\ available # surface /\ EmitIfChanged("health")
  /\ UNCHANGED <<mode, handlerVars, stream, routerVars, pipeVars, available, flaps, eventVars>>

\* The notification goes into the same pipe as the answers; a failed write is ignored.
Announce ==
  /\ announcing # "nobody" /\ announcing' = "nobody"
  /\ \/ Unheld /\ UNCHANGED fromRouter
     \/ ~Unheld /\ ~Full(fromRouter) /\ fromRouter' = Append(fromRouter, ListChanged)
  /\ router' = IF announcing = "router" THEN "reading" ELSE router
  /\ UNCHANGED <<mode, handlerVars, stream, current, swallowed, toRouter, fromOpen, available,
                 surface, flaps, eventVars>>

\* An EOF that does not end the loop.
ReadEof_continues ==
  /\ Unheld /\ toRouter = <<>>
  /\ router = "confirming" /\ router' = "reading"
  /\ UNCHANGED <<fromOpen, announcing>>
  /\ UNCHANGED <<mode, handlerVars, stream, current, swallowed, toRouter, fromRouter, available,
                 surface, flaps, eventVars>>

\* The session is gone: the handshake or the loop returns, and serve() ends its tasks.
ReadEof ==
  /\ Unheld /\ toRouter = <<>>
  /\ \/ /\ router \in {"handshake", "reading"} /\ router' = "dead" /\ fromOpen' = FALSE
        /\ announcing' = "nobody"
     \/ /\ router = "confirming" /\ router' = "reading"
        /\ UNCHANGED <<fromOpen, announcing>>
  /\ UNCHANGED <<mode, handlerVars, stream, current, swallowed, toRouter, fromRouter, available,
                 surface, flaps, eventVars>>

\* After a failed serve() the backends find their input closed and close: the readers
\* end, then the task that drains their channel, and with it the pipe.  The health
\* tasks hold both the backends' writers and the pipe, and never end.
Unwind ==
  /\ router = "dead" /\ fromOpen /\ mode # "pinged" /\ fromOpen' = FALSE
  /\ UNCHANGED <<mode, handlerVars, stream, routerVars, toRouter, fromRouter, flapVars, eventVars>>

\* A receiver that outlives the GET that took it.
Discard_atEnd ==
  /\ Unheld
  /\ backlog > 0 /\ backlog' = backlog - 1
  /\ UNCHANGED <<mode, handlerVars, stream, routerVars, pipeVars, flapVars, events>>

\* The drain task ignores the error of a channel without a receiver.
Discard ==
  /\ stream = "gone" \/ Unheld
  /\ backlog > 0 /\ backlog' = backlog - 1
  /\ UNCHANGED <<mode, handlerVars, stream, routerVars, pipeVars, flapVars, events>>

-------------------------------------------------------------------------------
\* The backend: it initiates messages (one more than fit is in its reader's hands,
\* and no more are read then), and comes and goes.

Initiate ==
  /\ router \notin {"unborn", "handshake"} /\ events < MaxEvents /\ events' = events + 1
  /\ backlog <= Backlog /\ backlog' = backlog + 1
  /\ UNCHANGED <<mode, handlerVars, stream, routerVars, pipeVars, flapVars>>

Flap ==
  /\ Resilient /\ flaps < MaxFlaps /\ flaps' = flaps + 1 /\ available' = ~available
  /\ UNCHANGED <<mode, handlerVars, stream, routerVars, pipeVars, surface, announcing,
                 eventVars>>

-------------------------------------------------------------------------------
Handler(p) == Send(p) \/ Receive(p)

Router == ReadInitialize \/ Compose \/ Confirm \/ Read \/ Answer \/ Emit \/ ReadEof

Next ==
  \/ \E p \in Posts : Create(p) \/ Post(p) \/ Handler(p)
  \/ Delete \/ OpenStream \/ StreamMessage \/ StreamEnds
  \/ Router \/ Ping \/ Announce \/ Unwind \/ Discard
  \/ Initiate \/ Flap

Spec == Init /\ [][Next]_vars

\* The runtime runs what can run; backends answer, or fail, and close when their input
\* is closed; the client of an open stream reads it.  Nothing makes a client act.
Fairness ==
  /\ \A p \in Posts : WF_vars(Handler(p))
  /\ WF_vars(Router) /\ WF_vars(Announce) /\ WF_vars(Unwind)
  /\ WF_vars(Discard) /\ WF_vars(StreamMessage)

FairSpec == Spec /\ Fairness

-------------------------------------------------------------------------------
\* Properties.

TypeOK ==
  /\ mode \in Modes /\ mapped \in BOOLEAN /\ stream \in {"untaken", "open", "gone"}
  /\ pc \in [Posts -> {"none", "locking", "reading", "done", "refused"}]
  /\ kind \in [Posts -> Kinds]
  /\ body \in [Posts -> Replies \cup {NoBody, EmptyBody, ListChanged}]
  /\ ioQueue \in Seq(Posts)
  /\ router \in {"unborn", "handshake", "composing", "confirming", "reading", "routing",
                 "emitting", "dead"}
  /\ current \in Posts \cup {NoPost} /\ swallowed \in Posts \cup {NoPost}
  /\ router \in {"composing", "routing"} => current \in Posts
  /\ toRouter \in Seq([kind: Kinds, post: Posts] \cup {Garbage})
  /\ fromRouter \in Seq(Replies \cup {ListChanged})
  /\ fromOpen \in BOOLEAN /\ available \in BOOLEAN /\ surface \in BOOLEAN
  /\ announcing \in {"nobody", "router", "health"}
  /\ flaps \in Nat /\ backlog \in 0..(Backlog + 1) /\ events \in Nat

\* Requests and responses stay paired without ids: however handlers of one session
\* overlap, the response a request POST writes is the router's response to it, and it
\* is empty only when the session's router has ended.  This is so as long as nothing
\* else writes into the pipe, that is, without breakers.
OwnOrEnded(p) == body[p] = Reply(p) \/ (body[p] = EmptyBody /\ router = "dead")
Responded(p) == pc[p] = "done" /\ IsRequest(kind[p])
PlainPairing == \A p \in Posts : Responded(p) /\ ~Resilient => OwnOrEnded(p)

\* "Returns the composed response.  Requests get a JSON response" (header of
\* yamp-serve-streamable.rs), whatever the configuration.
Pairing == \A p \in Posts : Responded(p) => OwnOrEnded(p)

\* A POST that is under way ends, although all of a session's POSTs wait on one mutex
\* that a request holds until its response; or else one of five things stays so for ever:
\* a backend has said more than the channels hold and no GET ever took it, a request was
\* taken for the initialized notification, an odd one for a client's reply, a failed
\* router's health tasks keep the pipe, or unread notifications of the router fill one
\* pipe and POSTs the other.
Jammed == backlog > Backlog /\ stream = "untaken"
Swallowed(p) == pc[p] = "reading" /\ swallowed = p
Misread(p) ==
  /\ pc[p] = "reading" /\ kind[p] = "odd" /\ router # "dead"
  /\ \A i \in 1..Len(toRouter) : toRouter[i] # Line(p, "odd")
Zombie == mode = "pinged" /\ router = "dead" /\ fromOpen
Choked ==
  /\ Full(toRouter) /\ Full(fromRouter) /\ (router = "routing" \/ announcing = "router")
  /\ ioQueue # <<>> /\ pc[Head(ioQueue)] = "locking"
Hung == Jammed \/ Zombie \/ Choked \/ \E p \in Posts : Swallowed(p) \/ Misread(p)
PostSettles == \A p \in Posts : <>[]InUse(p) => <>[]Hung

\* The two pipes never fill so that each side waits for the other: not so with breakers,
\* once more notifications lie unread than a pipe holds.
NeverChoked == ~Choked

\* "DELETE ends the session" (yamp-serve-streamable.rs header): once no handler uses a
\* deleted session its router ends, wherever the deletion finds it and however much its
\* backends have left undelivered.
DeletedEnds == router # "unborn" /\ Unheld ~> router = "dead"
===============================================================================
