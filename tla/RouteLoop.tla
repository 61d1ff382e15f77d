------------------------------- MODULE RouteLoop -------------------------------
(***************************************************************************)
(* The forward router around its route loop: the loop is the only reader   *)
(* of the client and waits for one backend at a time; each backend's       *)
(* reader correlates the requests that the backend itself makes; the drain *)
(* task, the health tasks and a ResourcePublisher write to the same client.*)
(*                                                                         *)
(* The request of BackendChannel is a step here: it is made, answered or   *)
(* given up.  Breakers open and close on their own account.                *)
(***************************************************************************)
EXTENDS Naturals, Sequences, FiniteSets

CONSTANTS
  Backends, Loop,   \* the backends, each with a health task, and the route loop
  Publishers,       \* the uses made of the ResourcePublisher at one time: it is cloneable
  AskIds,           \* the ids backends give to their own requests
  Loads             \* bounds of the instance: what may happen in one behaviour

ASSUME LoopAssumption ==
  /\ Loop \notin Backends
  /\ AskIds \subseteq Nat \ {0}
  /\ Loads \subseteq [calls: Nat, lists: Nat, subscriptions: Nat, asks: Nat, toggles: Nat,
                      publishes: Nat, timeout: BOOLEAN, health: BOOLEAN]

VARIABLES
  load,        \* the bounds; whether request_timeout and health_interval are configured
  spent,       \* breakers toggled and updates published so far
  \* --- the client ---
  inbox,       \* what it sent and the loop has not read
  requests,    \* its requests, numbered from 1
  answers,     \* the outcomes it read: request -> sequence
  asked,       \* requests of backends that it has not replied to
  view, relist,    \* the backends in the list it read last; a list_changed since
  late,        \* ghost: updates of each publisher that it read since it learnt that it is
               \* not subscribed
  \* --- the loop and what it shares ---
  loop,        \* where it is, with the request n and the response it makes
  expired,     \* calls given up
  serverRequests, srvSeq,   \* server_requests, server_req_seq
  sink, out,   \* server_tx .. server_rx, and the pipe to the client
  registry,    \* whether the local resource is in the subscription registry
  publisher,   \* each is "idle", or "sending" after it found the subscription
  \* --- the surface watcher ---
  open,        \* backends whose breaker is open
  surface, seen, at, holder,   \* the surface, what a task found, where it is, the lock
  \* --- the backends ---
  link, back,  \* pipes to and from each backend
  owing,       \* calls a backend works on, each with its own request it waits on, or 0
  initiated,   \* requests a backend has made of the client, under ids of its own
  resolved,    \* of those, the ones it got a reply to or a cancellation of
  taken        \* ghost: <<b, k>> if b's request k was taken for the answer to call k

clientVars  == <<requests, answers, asked, view, relist, late>>
serverVars  == <<serverRequests, srvSeq>>
subVars     == <<registry, publisher>>
watchVars   == <<surface, seen, at, holder>>
backendVars == <<owing, initiated, resolved, taken>>
vars == <<load, spent, inbox, clientVars, loop, expired, serverVars, sink, out, subVars, open,
          watchVars, link, back, backendVars>>

Tasks == Backends \cup {Loop}
Available == Backends \ open
Count(kinds) == Cardinality({n \in DOMAIN requests : requests[n].kind \in kinds})
Put(pipe, message) == pipe' = Append(pipe, message)
PutAt(pipes, b, message) == pipes' = [pipes EXCEPT ![b] = Append(@, message)]

Init ==
  /\ load \in Loads /\ spent = [toggles |-> 0, publishes |-> 0]
  /\ inbox = <<>> /\ requests = <<>> /\ answers = <<>> /\ asked = {}
  /\ view = Backends /\ relist = FALSE /\ late = [p \in Publishers |-> 0]
  /\ loop = [at |-> "reading", n |-> 0, says |-> "ok"]
  /\ expired = {} /\ serverRequests = {} /\ srvSeq = 0
  /\ sink = <<>> /\ out = <<>> /\ registry = FALSE /\ taken = {}
  /\ publisher = [p \in Publishers |-> "idle"]
  /\ open = {} /\ surface = Backends /\ holder = {}
  /\ seen = [t \in Tasks |-> {}] /\ at = [t \in Tasks |-> "idle"]
  /\ link = [b \in Backends |-> <<>>] /\ back = [b \in Backends |-> <<>>]
  /\ owing = [b \in Backends |-> {}] /\ resolved = [b \in Backends |-> {}]
  /\ initiated = [b \in Backends |-> {}]

-------------------------------------------------------------------------------
\* The client makes requests without waiting for the answers, replies to the backends'
\* requests or cancels them, and lists again when it is told that the lists changed.
Sends(request) ==
  /\ requests' = Append(requests, request) /\ answers' = Append(answers, <<>>)
  /\ Put(inbox, [kind |-> "request", n |-> Len(requests) + 1])
  /\ UNCHANGED <<load, spent, asked, view, loop, expired, serverVars, sink, out, subVars, open,
                 watchVars, link, back, backendVars>>

ClientCalls(b) ==
  Count({"call"}) < load.calls /\ Sends([kind |-> "call", b |-> b]) /\ UNCHANGED <<relist, late>>
ClientLists ==
  /\ \A n \in DOMAIN requests : requests[n].kind = "list" => answers[n] # <<>>
  /\ relist \/ Count({"list"}) < load.lists
  /\ Sends([kind |-> "list"]) /\ relist' = FALSE /\ UNCHANGED late
ClientSubscribes(kind) ==
  /\ Count({"subscribe", "unsubscribe"}) < load.subscriptions
  /\ Sends([kind |-> kind]) /\ late' = [p \in Publishers |-> 0] /\ UNCHANGED relist

ClientReplies(a) ==
  /\ a \in asked /\ asked' = asked \ {a}
  /\ Put(inbox, [kind |-> "reply", srv |-> a.srv, what |-> a.what])
  /\ UNCHANGED <<load, spent, requests, answers, view, relist, late, loop, expired, serverVars, sink,
                 out, subVars, open, watchVars, link, back, backendVars>>

\* Its reply may cross its own cancellation.
ClientCancels(a) ==
  /\ a \in asked /\ ~a.cancelled
  /\ asked' = (asked \ {a}) \cup {[a EXCEPT !.cancelled = TRUE]}
  /\ Put(inbox, [kind |-> "cancel", srv |-> a.srv, what |-> a.what])
  /\ UNCHANGED <<load, spent, requests, answers, view, relist, late, loop, expired, serverVars, sink,
                 out, subVars, open, watchVars, link, back, backendVars>>

Subscriptions == {n \in DOMAIN requests : requests[n].kind \in {"subscribe", "unsubscribe"}}
Unsubscribed ==
  /\ \A n \in Subscriptions : answers[n] # <<>>
  /\ \A n \in Subscriptions : requests[n].kind = "subscribe" =>
       \E m \in Subscriptions : m > n /\ requests[m].kind = "unsubscribe"

ClientReads ==
  /\ out # <<>> /\ out' = Tail(out)
  /\ LET m == Head(out)
         isList == m.kind = "response" /\ requests[m.n].kind = "list"
     IN  /\ answers' = IF m.kind = "response" THEN [answers EXCEPT ![m.n] = Append(@, m.says)]
                       ELSE answers
         /\ view' = IF isList THEN m.says ELSE view
         /\ relist' = (relist \/ m.kind = "changed")
         /\ asked' = IF m.kind = "ask"
                     THEN asked \cup {[srv |-> m.srv, what |-> m.what, cancelled |-> FALSE]}
                     ELSE asked
         /\ late' = IF m.kind = "updated" /\ Unsubscribed
                    THEN [late EXCEPT ![m.p] = @ + 1] ELSE late
  /\ UNCHANGED <<load, spent, inbox, requests, loop, expired, serverVars, sink, subVars, open,
                 watchVars, link, back, backendVars>>

-------------------------------------------------------------------------------
\* The route loop.
Responds(n, says) == loop' = [at |-> "sending", n |-> n, says |-> says]

\* An entry that outlives its reply.
Route_keeps(m) ==
  /\ UNCHANGED serverRequests
  /\ link' = [b \in Backends |->
       link[b] \o IF \E s \in serverRequests : s.srv = m.srv /\ s.b = b
                  THEN LET s == CHOOSE s \in serverRequests : s.srv = m.srv
                       IN  <<[kind |-> m.kind, orig |-> s.orig, what |-> m.what]>>
                  ELSE <<>>]
\* A cancellation that only drops the entry.
Route_dropsCancels(m) ==
  /\ serverRequests' = {s \in serverRequests : s.srv # m.srv}
  /\ link' = [b \in Backends |->
       link[b] \o IF m.kind = "reply" /\ \E s \in serverRequests : s.srv = m.srv /\ s.b = b
                  THEN LET s == CHOOSE s \in serverRequests : s.srv = m.srv
                       IN  <<[kind |-> m.kind, orig |-> s.orig, what |-> m.what]>>
                  ELSE <<>>]

\* route_client_reply and route_client_cancellation: an id that is not held is dropped.
Route(m) ==
  /\ serverRequests' = {s \in serverRequests : s.srv # m.srv}
  /\ link' = [b \in Backends |->
       link[b] \o IF \E s \in serverRequests : s.srv = m.srv /\ s.b = b
                  THEN LET s == CHOOSE s \in serverRequests : s.srv = m.srv
                       IN  <<[kind |-> m.kind, orig |-> s.orig, what |-> m.what]>>
                  ELSE <<>>]

\* A subscription that is never taken back.
Register_only(kind) == registry' = (registry \/ kind = "subscribe")

\* route_subscription of a resource that resolves to no backend.
Register(kind) == registry' = (kind = "subscribe")

LoopReads ==
  /\ loop.at = "reading" /\ inbox # <<>> /\ inbox' = Tail(inbox)
  /\ LET m == Head(inbox)
     IN  IF m.kind # "request"
         THEN Route(m) /\ UNCHANGED <<loop, registry>>
         ELSE LET r == requests[m.n]
              IN  /\ UNCHANGED serverRequests
                  /\ CASE r.kind = "list" ->
                            Responds(m.n, Available) /\ UNCHANGED <<link, registry>>
                       [] r.kind \in {"subscribe", "unsubscribe"} ->
                            Register(r.kind) /\ Responds(m.n, "ok") /\ UNCHANGED link
                       [] r.kind = "call" /\ r.b \in open ->
                            Responds(m.n, "unavailable") /\ UNCHANGED <<link, registry>>
                       [] OTHER ->
                            /\ loop' = [at |-> "awaiting", n |-> m.n, says |-> "ok"]
                            /\ PutAt(link, r.b, [kind |-> "call", n |-> m.n])
                            /\ UNCHANGED registry
  /\ UNCHANGED <<load, spent, clientVars, expired, srvSeq, sink, out, publisher, open, watchVars,
                 back, backendVars>>

\* The client is told, but the call is waited for all the same.
Expire_waits ==
  /\ load.timeout /\ loop.at = "awaiting" /\ loop.n \notin expired
  /\ expired' = expired \cup {loop.n}
  /\ Put(out, [kind |-> "response", n |-> loop.n, says |-> "failed"])
  /\ UNCHANGED <<load, spent, inbox, clientVars, loop, serverVars, sink, subVars, open, watchVars,
                 link, back, backendVars>>

Expire ==
  /\ load.timeout /\ loop.at = "awaiting"
  /\ expired' = expired \cup {loop.n} /\ Responds(loop.n, "failed")
  /\ UNCHANGED <<load, spent, inbox, clientVars, serverVars, sink, out, subVars, open, watchVars,
                 link, back, backendVars>>

LoopSends ==
  /\ loop.at = "sending"
  /\ Put(out, [kind |-> "response", n |-> loop.n, says |-> loop.says])
  /\ loop' = [loop EXCEPT !.at = "emitting"]
  /\ UNCHANGED <<load, spent, inbox, clientVars, expired, serverVars, sink, subVars, open,
                 watchVars, link, back, backendVars>>

-------------------------------------------------------------------------------
\* emit_if_changed, by the loop after each response and by each health task after a ping:
\* the available set is computed, then the surface is locked until the client was told.
Look(t) ==
  /\ at[t] = "idle" /\ at' = [at EXCEPT ![t] = "locking"]
  /\ IF t = Loop THEN loop.at = "emitting" ELSE load.health
  /\ seen' = [seen EXCEPT ![t] = Available]
  /\ UNCHANGED <<load, spent, inbox, clientVars, loop, expired, serverVars, sink, out, subVars,
                 open, surface, holder, link, back, backendVars>>

Done(t) ==
  /\ at' = [at EXCEPT ![t] = "idle"] /\ seen' = [seen EXCEPT ![t] = {}]
  /\ loop' = IF t = Loop THEN [at |-> "reading", n |-> 0, says |-> "ok"] ELSE loop

\* Only a departure counts as a change.
Changed_onLoss(t) == surface \ seen[t] # {}

Changed(t) == seen[t] # surface

Lock(t) ==
  /\ at[t] = "locking" /\ holder = {}
  /\ IF Changed(t)
     THEN /\ surface' = seen[t] /\ holder' = {t} /\ at' = [at EXCEPT ![t] = "announcing"]
          /\ UNCHANGED <<seen, loop>>
     ELSE Done(t) /\ UNCHANGED <<surface, holder>>
  /\ UNCHANGED <<load, spent, inbox, clientVars, expired, serverVars, sink, out, subVars, open,
                 link, back, backendVars>>

Announce(t) ==
  /\ at[t] = "announcing" /\ Put(out, [kind |-> "changed"])
  /\ holder' = {} /\ Done(t)
  /\ UNCHANGED <<load, spent, inbox, clientVars, expired, serverVars, sink, subVars, open,
                 surface, link, back, backendVars>>

BreakerFlips(b) ==
  /\ spent.toggles < load.toggles /\ spent' = [spent EXCEPT !.toggles = @ + 1]
  /\ open' = IF b \in open THEN open \ {b} ELSE open \cup {b}
  /\ UNCHANGED <<load, inbox, clientVars, loop, expired, serverVars, sink, out, subVars, watchVars,
                 link, back, backendVars>>

-------------------------------------------------------------------------------
\* publish looks the subscription up and then waits for the client's writer; the clones
\* of the publisher do so side by side.
PublishChecks(p) ==
  /\ publisher[p] = "idle" /\ spent.publishes < load.publishes
  /\ spent' = [spent EXCEPT !.publishes = @ + 1]
  /\ publisher' = [publisher EXCEPT ![p] = IF registry THEN "sending" ELSE "idle"]
  /\ UNCHANGED <<load, inbox, clientVars, loop, expired, serverVars, sink, out, registry, open,
                 watchVars, link, back, backendVars>>

PublishSends(p) ==
  /\ publisher[p] = "sending" /\ publisher' = [publisher EXCEPT ![p] = "idle"]
  /\ Put(out, [kind |-> "updated", p |-> p])
  /\ UNCHANGED <<load, spent, inbox, clientVars, loop, expired, serverVars, sink, registry, open,
                 watchVars, link, back, backendVars>>

-------------------------------------------------------------------------------
\* A backend's reader: what carries the id of the call that is awaited goes to that call,
\* an answer or not; a late answer goes to the client as it is, and a request of the
\* backend gets an id of the router's.  The id of call n is n.
IsAwaited(b, id) == loop.at = "awaiting" /\ loop.n = id /\ requests[id].b = b

ReaderReads(b) ==
  /\ back[b] # <<>> /\ back' = [back EXCEPT ![b] = Tail(@)]
  /\ LET m == Head(back[b])
     IN  CASE m.kind = "answer" /\ IsAwaited(b, m.n) ->
                Responds(m.n, "ok") /\ UNCHANGED <<serverVars, sink, taken>>
           [] m.kind = "ask" /\ IsAwaited(b, m.orig) ->
                /\ Responds(m.orig, "ok") /\ taken' = taken \cup {<<b, m.orig>>}
                /\ UNCHANGED <<serverVars, sink>>
           [] m.kind = "answer" /\ ~IsAwaited(b, m.n) ->
                Put(sink, [kind |-> "stray", n |-> m.n]) /\ UNCHANGED <<serverVars, loop, taken>>
           [] m.kind = "ask" /\ ~IsAwaited(b, m.orig) ->
                /\ srvSeq' = srvSeq + 1
                /\ serverRequests' =
                     serverRequests \cup {[srv |-> srvSeq + 1, b |-> b, orig |-> m.orig]}
                /\ Put(sink, [kind |-> "ask", srv |-> srvSeq + 1, what |-> <<b, m.orig>>])
                /\ UNCHANGED <<loop, taken>>
  /\ UNCHANGED <<load, spent, inbox, clientVars, expired, out, subVars, open, watchVars, link,
                 owing, initiated, resolved>>

Drain ==
  /\ sink # <<>> /\ sink' = Tail(sink) /\ Put(out, Head(sink))
  /\ UNCHANGED <<load, spent, inbox, clientVars, loop, expired, serverVars, subVars, open,
                 watchVars, link, back, backendVars>>

-------------------------------------------------------------------------------
\* A backend reads on while it works; it may make requests of the client, for a call or not.
BackendReads(b) ==
  /\ link[b] # <<>> /\ link' = [link EXCEPT ![b] = Tail(@)]
  /\ LET m == Head(link[b])
     IN  IF m.kind = "call"
         THEN /\ owing' = [owing EXCEPT ![b] = @ \cup {[n |-> m.n, ask |-> 0]}]
              /\ UNCHANGED resolved
         ELSE /\ resolved' = [resolved EXCEPT ![b] = @ \cup {m.orig}]
              /\ owing' = [owing EXCEPT ![b] =
                   {IF c.ask = m.orig THEN [c EXCEPT !.ask = 0] ELSE c : c \in @}]
  /\ UNCHANGED <<load, spent, inbox, clientVars, loop, expired, serverVars, sink, out, subVars,
                 open, watchVars, back, initiated, taken>>

BackendAsks(b) ==
  /\ Cardinality(initiated[b]) < load.asks
  /\ \E k \in AskIds \ initiated[b] :
       /\ initiated' = [initiated EXCEPT ![b] = @ \cup {k}]
       /\ PutAt(back, b, [kind |-> "ask", orig |-> k])
       /\ \/ UNCHANGED owing
          \/ \E c \in owing[b] : c.ask = 0 /\ owing' = [owing EXCEPT ![b] =
               (@ \ {c}) \cup {[c EXCEPT !.ask = k]}]
  /\ UNCHANGED <<load, spent, inbox, clientVars, loop, expired, serverVars, sink, out, subVars,
                 open, watchVars, link, resolved, taken>>

BackendAnswers(b) ==
  /\ \E c \in owing[b] :
       /\ c.ask = 0 /\ owing' = [owing EXCEPT ![b] = @ \ {c}]
       /\ PutAt(back, b, [kind |-> "answer", n |-> c.n])
  /\ UNCHANGED <<load, spent, inbox, clientVars, loop, expired, serverVars, sink, out, subVars,
                 open, watchVars, link, initiated, resolved, taken>>

-------------------------------------------------------------------------------
Next ==
  \/ ClientLists \/ ClientReads \/ LoopReads \/ Expire \/ LoopSends \/ Drain
  \/ \E p \in Publishers : PublishChecks(p) \/ PublishSends(p)
  \/ \E kind \in {"subscribe", "unsubscribe"} : ClientSubscribes(kind)
  \/ \E a \in asked : ClientReplies(a) \/ ClientCancels(a)
  \/ \E t \in Tasks : Look(t) \/ Lock(t) \/ Announce(t)
  \/ \E b \in Backends :
       \/ ClientCalls(b) \/ BreakerFlips(b) \/ ReaderReads(b)
       \/ BackendReads(b) \/ BackendAsks(b) \/ BackendAnswers(b)

Spec == Init /\ [][Next]_vars

\* Tasks that can run do; the two locks are FIFO queues of their waiters; the client reads,
\* replies and lists again when told; backends read and answer what they can.
FairSpec ==
  /\ Spec
  /\ WF_vars(LoopReads) /\ WF_vars(Expire) /\ WF_vars(LoopSends) /\ WF_vars(Drain)
  /\ \A p \in Publishers : WF_vars(PublishSends(p))
  /\ WF_vars(ClientReads) /\ WF_vars(relist /\ ClientLists)
  /\ WF_vars(\E a \in asked : ClientReplies(a))
  /\ \A t \in Tasks : WF_vars(Look(t)) /\ SF_vars(Lock(t)) /\ WF_vars(Announce(t))
  /\ \A b \in Backends :
       WF_vars(ReaderReads(b)) /\ WF_vars(BackendReads(b)) /\ WF_vars(BackendAnswers(b))

-------------------------------------------------------------------------------
\* Properties.

\* A reply or a cancellation on its way to a backend is about a request that this backend
\* made, under the backend's own number, and the only one about it: backends may number
\* alike, and the client's reply may cross its cancellation (route_client_reply).
RepliesGoHome ==
  \A b \in Backends : \A i \in DOMAIN link[b] : link[b][i].kind # "call" =>
    /\ link[b][i].what = <<b, link[b][i].orig>>
    /\ link[b][i].orig \notin resolved[b]
    /\ \A j \in DOMAIN link[b] : j # i /\ link[b][j].kind # "call" =>
         link[b][j].orig # link[b][i].orig

\* The loop waits for a backend that waits for the client's reply, which only the loop
\* could read, and nothing ends the wait.
Stuck ==
  /\ ~load.timeout /\ loop.at = "awaiting"
  /\ \E b \in Backends : \E c \in owing[b] : c.n = loop.n /\ c.ask # 0

\* Finitely many requests are made: in the end every one of the client has its response
\* and every one of a backend its reply or cancellation, but for those that were taken for
\* answers, unless the loop and a backend wait for each other; with a timeout that does
\* not last (route_loop).
LoopGoesOn ==
  <>[](\/ Stuck
       \/ /\ \A n \in DOMAIN requests : answers[n] # <<>>
          /\ \A b \in Backends : initiated[b] = resolved[b] \cup {k \in AskIds : <<b, k>> \in taken})

\* A request is answered once, whatever comes late; a stray answer is of a call that was
\* given up, or that a request of the backend's own under its id was taken to answer.
AnsweredOnce ==
  /\ \A n \in DOMAIN requests :
       Len(answers[n]) + Cardinality({i \in DOMAIN out : out[i].kind = "response" /\ out[i].n = n})
         <= 1
  /\ \A i \in DOMAIN sink : sink[i].kind = "stray" =>
       sink[i].n \in expired \/ \E b \in Backends : <<b, sink[i].n>> \in taken

\* Once the breakers are at rest the surface is what is available, however the tasks
\* that computed it earlier and wait for its lock are ordered.
SurfaceSettles == <>[](load.health => surface = Available)

\* A client that is not subscribed, and has been told so, gets of each publisher at most
\* the one update that publish had found a subscription for before, however many
\* publishers are past that check (ResourcePublisher::publish).
UnsubscribedIsQuiet == \A p \in Publishers : late[p] <= 1

\* "An unsubscribed resource is never sent" (subscriptions.rs 62-63).  It fails: loop_late.cfg.
NeverLate == \A p \in Publishers : late[p] = 0

\* The client's list ends up showing what is available: the watcher "announces changes to
\* the client" (SurfaceWatcher).
ViewCatchesUp == <>[](load.health => view = Available)
===============================================================================
