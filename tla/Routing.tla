-------------------------------- MODULE Routing ---------------------------------
(***************************************************************************)
(* One connection of the forward router as its client sees it: composed,   *)
(* paged lists of the backends' tools, and calls and task polls that are   *)
(* sent back to the backend a name stands for (aggregate, collect,         *)
(* route_call, route_task).  The route loop serves one request at a time;  *)
(* while it awaits its backends their tools change, their breakers open    *)
(* and their cool-downs end.  Filters, audit and progressive disclosure    *)
(* are left out, and the other lists differ from tools in having no        *)
(* collision strategy.                                                     *)
(*                                                                         *)
(* The client keeps one listed item, one cursor and one task handle, any   *)
(* of those it was given.                                                  *)
(***************************************************************************)
EXTENDS Collision, Naturals, FiniteSets

CONSTANTS
  Chars,       \* the characters of names
  Backends,    \* ids, in the order of the configuration
  Handlers,    \* the local handlers, a sequence of [id, tools]
  Configs,     \* the ways the router may be set up, values of config below
  Tools,       \* names a backend may give to a tool
  Surfaces,    \* the lists of tools a backend may offer
  TaskIds,     \* ids a backend may give to a task
  PageSize,    \* tools on a page of a backend's list
  MaxRequests, \* bound on the client's requests
  MaxChanges,  \* bound on the changes of tools and breakers
  None,        \* an absent variant, cursor, item or handle
  Raw,         \* a cursor that the proxy did not mint
  Failed       \* in place of the page of a backend whose request failed

Ids == ToSet(Backends)
HandlerIds == {Handlers[i].id : i \in DOMAIN Handlers}
Names == Seq(Chars) \ {<<>>}

\* The configuration rejects ids with the delimiter and handlers of a backend's id; it
\* lets ids that end in an underscore pass.  Nobody gives a tool the empty name.
ASSUME RoutingAssumption ==
  /\ Underscore \in Chars
  /\ Backends \in Seq(Names) /\ Handlers \in Seq([id : Names, tools : Seq(Names)])
  /\ \A id \in Ids \cup HandlerIds : ValidId(id)
  /\ Ids \cap HandlerIds = {}
  /\ Tools \subseteq Names /\ TaskIds \subseteq Names /\ Surfaces \subseteq Seq(Tools)
  /\ PageSize \in Nat \ {0} /\ \A c \in Configs : c.priority \in Seq(Seq(Chars))

Single == Len(Backends) = 1 /\ Handlers = <<>>

VARIABLES
  config,      \* strategy, overrides, priority, resilient, and per backend what it
               \* advertised at the handshake; started: the backends that answered it
  surface,     \* the tools each backend offers now
  up,          \* backends whose breaker admits a request (Backend::available)
  reverse,     \* the reverse map of passthrough: the backend that first listed a name
  job,         \* the request the route loop has in hand
  reply,       \* its last response
  known,       \* a listed item the client remembers
  cursor,      \* a cursor the client holds
  handle,      \* a task handle the client holds: its id, and the task it was given for
  running,     \* the tasks each backend has started
  chain,       \* history: the pages of one undisturbed listing
  requests,    \* requests made
  changes      \* changes made

client == <<known, cursor, handle, chain>>
backends == <<surface, up, running, changes>>
vars == <<config, reverse, job, reply, requests, client, backends>>

Idle == [op |-> "idle"]
Ended == [op |-> "ended"]
NoReply == [kind |-> "none"]
Strategy == config.strategy
Strategies == {"prefix", "priority", "manual", "passthrough"}

(***************************************************************************)
(* Variants and cursors                                                    *)
(***************************************************************************)
Variants ==
  ComposeVariants([i \in DOMAIN Backends |->
    IF Backends[i] \in config.started THEN config.advertised[i] ELSE <<>>])

Effective(v) ==
  IF v # None THEN v ELSE IF Variants = <<>> THEN None ELSE Head(Variants)

Composite(c) == c \notin {None, Raw}

\* A cursor is taken whatever variant it was minted under.
Refused_anyVariant(v, c) ==
  \/ v # None /\ v \notin ToSet(Variants)
  \/ c = Raw /\ ~Single

Refused(v, c) ==
  \/ v # None /\ v \notin ToSet(Variants)
  \/ Composite(c) /\ c.variant # Effective(v)
  \/ c = Raw /\ ~Single

\* What a backend is sent: the variant that applies, and its own cursor of a composite one.
ParamsFor(b, v, c) ==
  [variant |-> v, cursor |-> IF Composite(c) THEN c.at[b] ELSE c]

Admits(b) == config.resilient => b \in up

\* A composite cursor restricts the fetch to the backends that still have pages.
Asked(c) == {b \in Ids : Admits(b) /\ (Composite(c) => b \in DOMAIN c.at)}

(***************************************************************************)
(* Lists                                                                   *)
(***************************************************************************)
\* A fetch of every backend asked, for a list or to warm the reverse map up for a call.
Fetch(op, v, c, value) ==
  [op |-> op, variant |-> Effective(v), cursor |-> c, value |-> value, quiet |-> TRUE,
   params |-> [b \in Asked(c) |-> ParamsFor(b, Effective(v), c)],
   got |-> <<>>]
Fetching == job.op \in {"list", "warm"}
Ongoing(got, quiet) ==
  [op |-> job.op, variant |-> job.variant, cursor |-> job.cursor, value |-> job.value,
   quiet |-> quiet, params |-> job.params, got |-> got]
Received(b, page) ==
  [x \in DOMAIN job.got \cup {b} |-> IF x = b THEN page ELSE job.got[x]]

Begin == job = Idle /\ requests < MaxRequests /\ requests' = requests + 1

RequestList(v, c) ==
  /\ Begin /\ ~Refused(v, c)
  /\ job' = Fetch("list", v, c, None) /\ reply' = NoReply
  /\ UNCHANGED <<config, reverse, client, backends>>

RefuseList(v, c) ==
  /\ Begin /\ Refused(v, c)
  /\ reply' = [kind |-> "refused"]
  /\ UNCHANGED <<config, reverse, job, client, backends>>

\* External: a backend's answer, one page of what it offers now, and a cursor of its own
\* when there is more.
Page(b, params) ==
  LET from == IF Composite(params.cursor) THEN params.cursor.pos ELSE 1
      to == from + PageSize - 1
      all == surface[b]
  IN [tools |-> SubSeq(all, from, IF to < Len(all) THEN to ELSE Len(all)),
      next |-> IF to < Len(all) THEN [of |-> b, variant |-> params.variant, pos |-> to + 1]
               ELSE None]

AnswerList(b) ==
  /\ Fetching /\ b \in DOMAIN job.params \ DOMAIN job.got
  /\ job' = Ongoing(Received(b, Page(b, job.params[b])), job.quiet)
  /\ UNCHANGED <<config, reverse, reply, requests, client, backends>>

\* A JSON-RPC error of the backend counts as an answer, an empty one.
ErrorList(b) ==
  /\ Fetching /\ b \in DOMAIN job.params \ DOMAIN job.got
  /\ job' = Ongoing(Received(b, [tools |-> <<>>, next |-> None]), FALSE)
  /\ UNCHANGED <<config, reverse, reply, requests, client, backends>>

\* A request that fails (timeout, closed pipe) may open the breaker.
Weaken(b) ==
  /\ up' \in IF config.resilient THEN {up, up \ {b}} ELSE {up}
  /\ UNCHANGED <<surface, running, changes>>

FailList(b) ==
  /\ Fetching /\ b \in DOMAIN job.params \ DOMAIN job.got
  /\ job' = Ongoing(Received(b, Failed), job.quiet)
  /\ Weaken(b)
  /\ UNCHANGED <<config, reverse, reply, requests, client>>

\* join_all: every backend that was asked has answered or failed.
Fetched == Fetching /\ DOMAIN job.got = DOMAIN job.params
Answered == {b \in DOMAIN job.got : job.got[b] # Failed}
\* Without breakers one failed request ends the router.
Fatal == ~config.resilient /\ Answered # DOMAIN job.params

Labelled(b, tool) == IF Single \/ Strategy = "passthrough" THEN tool ELSE Prefix(b, tool)
ItemOf(b, tool) == [name |-> Labelled(b, tool), from |-> b, original |-> tool]
LocalOf(h, tool) == [name |-> Prefix(h, tool), from |-> h, original |-> tool]

\* The items of the backends, in the order of the configuration, and the local ones.
Routed ==
  FlattenSeq([i \in DOMAIN Backends |->
    IF Backends[i] \in Answered
    THEN [k \in DOMAIN job.got[Backends[i]].tools |->
            ItemOf(Backends[i], job.got[Backends[i]].tools[k])]
    ELSE <<>>])
Local ==
  FlattenSeq([i \in DOMAIN Handlers |->
    [k \in DOMAIN Handlers[i].tools |-> LocalOf(Handlers[i].id, Handlers[i].tools[k])]])

\* Under passthrough a name leads to its first lister from then on.
Listers(name) ==
  {i \in DOMAIN Backends :
     Backends[i] \in Answered /\ name \in ToSet(job.got[Backends[i]].tools)}
Learn ==
  IF Strategy # "passthrough" \/ Single THEN reverse
  ELSE [name \in DOMAIN reverse \cup {n \in Tools : Listers(n) # {}} |->
          IF name \in DOMAIN reverse THEN reverse[name] ELSE Backends[Min(Listers(name))]]

NamesOf(items) == [i \in DOMAIN items |-> items[i].name]
Clashing == Strategy = "manual" /\ Clash(NamesOf(Routed \o Local), config.overrides)

\* What the list may hold, and the name it goes by.
Candidates ==
  {ItemOf(b, t) : b \in Answered, t \in Tools} \cup
  UNION {{LocalOf(h.id, t) : t \in ToSet(h.tools)} : h \in ToSet(Handlers)}
Exposed(item) ==
  IF Strategy = "manual" THEN [item EXCEPT !.name = Target(@, config.overrides)] ELSE item

\* The list as the client is shown it.
Shown ==
  LET items == Routed \o Local IN
  IF Strategy = "priority" THEN ApplyPriority(items, config.priority)
  ELSE [i \in DOMAIN items |-> Exposed(items[i])]

\* The cursor of one backend is kept.
Bound_one ==
  LET more == {b \in Answered : job.got[b].next # None} IN
  IF more = {} THEN None
  ELSE LET b == CHOOSE b \in more : TRUE IN
       [variant |-> job.variant, at |-> b :> job.got[b].next]

\* Whom a list is about: every backend, or those a composite cursor still has pages of.
Due == {b \in Ids : Composite(job.cursor) => b \in DOMAIN job.cursor.at}

\* One cursor for the cursors of all backends that have more.
Bound ==
  LET more == {b \in Answered : job.got[b].next # None} IN
  IF more = {} THEN None
  ELSE [variant |-> job.variant, at |-> [b \in more |-> job.got[b].next]]

\* A request that failed is not reported when its breaker stays closed.
Unavailable_open == IF config.resilient THEN Ids \ up ELSE {}

\* The breakers are read after the answers are in.
Unavailable == IF config.resilient THEN (Ids \ up) \cup (DOMAIN job.got \ Answered) ELSE {}

\* History: a first page starts the chain; a page fetched with the cursor of the chain
\* continues it; one that missed a backend or met a change breaks it.
ChainAfter ==
  LET whole == job.quiet /\ Answered = IF job.cursor = None THEN Ids ELSE DOMAIN job.cursor.at
  IN IF job.cursor = None
     THEN IF whole THEN [cursor |-> Bound, items |-> Shown] ELSE None
     ELSE IF chain = None \/ job.cursor = Raw THEN chain
     ELSE IF chain.cursor # job.cursor THEN chain
     ELSE IF whole THEN [cursor |-> Bound, items |-> chain.items \o Shown] ELSE None

Compose ==
  /\ Fetched /\ job.op = "list" /\ ~Fatal /\ ~Clashing
  /\ reverse' = Learn
  /\ reply' = [kind |-> "list", asked |-> DOMAIN job.params, answered |-> Answered,
               unavailable |-> Unavailable, due |-> Due, quiet |-> job.quiet]
  /\ cursor' \in {cursor, Bound}
  /\ \/ known' = known
     \/ \E item \in Candidates : Exposed(item) \in ToSet(Shown) /\ known' = Exposed(item)
  /\ chain' = ChainAfter
  /\ job' = Idle
  /\ UNCHANGED <<config, requests, handle, backends>>

\* Two items of a manual list under one name: the list is refused.
RefuseClash ==
  /\ Fetched /\ job.op = "list" /\ ~Fatal /\ Clashing
  /\ reply' = [kind |-> "refused"] /\ job' = Idle
  /\ UNCHANGED <<config, reverse, requests, client, backends>>

End ==
  /\ Fetched /\ Fatal
  /\ job' = Ended
  /\ UNCHANGED <<config, reverse, reply, requests, client, backends>>

(***************************************************************************)
(* Calls                                                                   *)
(***************************************************************************)
\* Where a label leads: a backend and its name, or nowhere.
Home(label) ==
  IF Split(label) = Unresolved THEN Unresolved
  ELSE IF Split(label)[1] \in Ids THEN Split(label) ELSE Unresolved

IsLocal(value) == Split(value) # Unresolved /\ Split(value)[1] \in HandlerIds

\* Renames are looked up as if the client called the label.
Destinations_notInverted(value, map) ==
  IF Single THEN {<<Backends[1], value>>}
  ELSE IF Strategy = "passthrough"
  THEN {IF value \in DOMAIN map THEN <<map[value], value>> ELSE Unresolved}
  ELSE {Home(value)}

Destinations(value, map) ==
  IF Single THEN {<<Backends[1], value>>}
  ELSE IF Strategy = "manual"
  THEN {Home(label) : label \in Inversions(value, config.overrides)}
  ELSE IF Strategy = "passthrough"
  THEN {IF value \in DOMAIN map THEN <<map[value], value>> ELSE Unresolved}
  ELSE {Home(value)}

\* The call is refused, or sent with the backend's own name for the tool.
Forward(op, value, to) ==
  IF to = Unresolved
  THEN job' = Idle /\ reply' = [kind |-> "unknown", op |-> op, value |-> value]
  ELSE IF ~Admits(to[1])
  THEN job' = Idle /\ reply' = [kind |-> "unavailable", op |-> op, value |-> value]
  ELSE /\ job' = [op |-> op, value |-> value, to |-> to[1], original |-> to[2]]
       /\ reply' = NoReply

Cold(value) == Strategy = "passthrough" /\ ~Single /\ value \notin DOMAIN reverse

\* A local handler's id is looked for first, whatever the strategy.
CallLocal(value) ==
  /\ Begin /\ IsLocal(value)
  /\ reply' = [kind |-> "served", op |-> "call", value |-> value, to |-> Split(value)[1],
               original |-> Split(value)[2]]
  /\ UNCHANGED <<config, reverse, job, client, backends>>

RequestCall(value) ==
  /\ Begin /\ ~IsLocal(value) /\ ~Cold(value)
  /\ \E to \in Destinations(value, reverse) : Forward("call", value, to)
  /\ UNCHANGED <<config, reverse, client, backends>>

\* The name is in no list yet: the first pages of all backends are fetched for it.
WarmUp(value) ==
  /\ Begin /\ ~IsLocal(value) /\ Cold(value)
  /\ job' = Fetch("warm", None, None, value) /\ reply' = NoReply
  /\ UNCHANGED <<config, reverse, client, backends>>

WarmedUp ==
  /\ Fetched /\ job.op = "warm" /\ ~Fatal
  /\ reverse' = Learn
  /\ \E to \in Destinations(job.value, reverse') : Forward("call", job.value, to)
  /\ UNCHANGED <<config, requests, client, backends>>

Forwarded == job.op \in {"call", "task"}
Served == [kind |-> "served", op |-> job.op, value |-> job.value, to |-> job.to,
           original |-> job.original]

\* A result, or the backend's error.
AnswerCall ==
  /\ job.op = "call"
  /\ reply' = Served
  /\ job' = Idle
  /\ UNCHANGED <<config, reverse, requests, client, backends>>

\* A task handle, its id labelled with the backend's.
AnswerTask(t) ==
  /\ job.op = "call" /\ t \notin running[job.to]
  /\ running' = [running EXCEPT ![job.to] = @ \cup {t}]
  /\ handle' \in {handle, [id |-> Prefix(job.to, t), of |-> job.to, task |-> t]}
  /\ reply' = Served
  /\ job' = Idle
  /\ UNCHANGED <<config, reverse, requests, known, cursor, chain, surface, up, changes>>

\* A failed call is an error of its own, or the end of a router without breakers.
FailForwarded ==
  /\ Forwarded
  /\ IF config.resilient
     THEN job' = Idle /\ reply' = [kind |-> "failed", op |-> job.op, value |-> job.value]
     ELSE job' = Ended /\ UNCHANGED reply
  /\ Weaken(job.to)
  /\ UNCHANGED <<config, reverse, requests, client>>

PollTask ==
  /\ Begin /\ handle # None
  /\ Forward("task", handle.id, Home(handle.id))
  /\ UNCHANGED <<config, reverse, client, backends>>

\* The label is left off the reply.
AnswerPoll_unlabelled ==
  /\ job.op = "task"
  /\ handle' = IF handle.id = job.value /\ job.original \in running[job.to]
               THEN [handle EXCEPT !.id = job.original] ELSE handle
  /\ reply' = Served
  /\ job' = Idle
  /\ UNCHANGED <<config, reverse, requests, known, cursor, chain, backends>>

\* The state of the task under its label, which the client holds from now on, or an error.
AnswerPoll ==
  /\ job.op = "task"
  /\ handle' = IF handle.id = job.value /\ job.original \in running[job.to]
               THEN [handle EXCEPT !.id = Prefix(job.to, job.original)] ELSE handle
  /\ reply' = Served
  /\ job' = Idle
  /\ UNCHANGED <<config, reverse, requests, known, cursor, chain, backends>>

(***************************************************************************)
(* What happens meanwhile                                                  *)
(***************************************************************************)
Disturb ==
  /\ job # Ended /\ changes < MaxChanges /\ changes' = changes + 1
  /\ chain' = None
  /\ job' = IF Fetching THEN Ongoing(job.got, FALSE) ELSE job
  /\ UNCHANGED <<config, reverse, reply, requests, known, cursor, handle, running>>

\* External: a backend changes its tools.
Offer(b, tools) == Disturb /\ surface' = [surface EXCEPT ![b] = tools] /\ UNCHANGED up

\* Health pings open a breaker; a cool-down ends.
Flap(b) ==
  /\ Disturb /\ config.resilient
  /\ up' = IF b \in up THEN up \ {b} ELSE up \cup {b}
  /\ UNCHANGED surface

Init ==
  /\ config \in Configs
  /\ surface \in [Ids -> Surfaces] /\ up = Ids
  /\ reverse = <<>> /\ job = Idle /\ reply = NoReply
  /\ known = None /\ cursor = None /\ handle = None /\ chain = None
  /\ running = [b \in Ids |-> {}] /\ requests = 0 /\ changes = 0

Callable == Tools \cup {Prefix(b, t) : b \in Ids, t \in Tools}
              \cup (IF known = None THEN {} ELSE {known.name})
\* No variant, or one that some backend advertises.
Selectable == {None} \cup UNION {ToSet(config.advertised[i]) : i \in DOMAIN Backends}

Next ==
  \/ \E v \in Selectable, c \in {None, Raw, cursor} : RequestList(v, c)
  \/ \E v \in Selectable, c \in {None, Raw, cursor} : RefuseList(v, c)
  \/ \E b \in Ids : AnswerList(b)
  \/ \E b \in Ids : ErrorList(b)
  \/ \E b \in Ids : FailList(b)
  \/ Compose
  \/ RefuseClash
  \/ End
  \/ \E value \in Callable : CallLocal(value)
  \/ \E value \in Callable : RequestCall(value)
  \/ \E value \in Callable : WarmUp(value)
  \/ WarmedUp
  \/ AnswerCall
  \/ \E t \in TaskIds : AnswerTask(t)
  \/ FailForwarded
  \/ PollTask
  \/ AnswerPoll
  \/ \E b \in Ids, tools \in Surfaces : Offer(b, tools)
  \/ \E b \in Ids : Flap(b)

Spec == Init /\ [][Next]_vars

(***************************************************************************)
(* Properties                                                              *)
(***************************************************************************)
BackendCursor(c) == c.of \in Ids /\ c.pos \in Nat
Cursors == {c \in {cursor} \cup (IF chain = None THEN {} ELSE {chain.cursor}) : c # None}

TypeOK ==
  /\ config \in Configs /\ surface \in [Ids -> Surfaces] /\ up \subseteq Ids
  /\ job.op \in {"idle", "ended", "list", "warm", "call", "task"}
  /\ Fetching => DOMAIN job.got \subseteq DOMAIN job.params /\ DOMAIN job.params \subseteq Ids
  /\ Forwarded => job.to \in Ids
  /\ \A c \in Cursors : DOMAIN c.at \in SUBSET Ids \ {{}} /\ \A b \in DOMAIN c.at : BackendCursor(c.at[b])
  /\ running \in [Ids -> SUBSET TaskIds]
  /\ requests \in 0..MaxRequests /\ changes \in 0..MaxChanges

\* A tool that was listed can be called, and the call goes to the backend or handler that
\* listed it, under its own name there, however the list was labelled, thinned out or
\* renamed.  Under passthrough, where names are shared, it goes to somebody who listed
\* a tool of that name (route_call against collect and aggregate).
Leads(to, original) ==
  IF Strategy = "passthrough" /\ known.from \in Ids
  THEN to \in Ids /\ original = known.name
  ELSE to = known.from /\ original = known.original
Reached ==
  /\ job.op = "call" /\ job.value = known.name => Leads(job.to, job.original)
  /\ reply.kind = "served" /\ reply.op = "call" /\ reply.value = known.name => Leads(reply.to, reply.original)
  /\ ~(reply.kind = "unknown" /\ reply.op = "call" /\ reply.value = known.name)

\* It is so of every lister whose id does not end in an underscore, whatever the ids of
\* the others are.
ReachesLister == known # None /\ Resolvable(known.from) => Reached

\* Every id that the configuration accepts can be told from the labels it makes ("an id
\* containing the delimiter would break reverse resolution, so ids carrying the delimiter
\* are rejected", namespace.rs): false of an id that ends in an underscore.
AcceptedIdsResolve == known # None => Reached

\* A backend is sent no cursor but one that it gave out itself, under the variant it is
\* asked for now ("pagination cursors are variant-scoped", variants.rs).
CursorStaysBound ==
  Fetching =>
    \A b \in DOMAIN job.params :
      Composite(job.params[b].cursor) =>
        /\ job.params[b].cursor.of = b
        /\ job.params[b].cursor.variant = job.params[b].variant

\* A backend that advertises variants is asked for one of them or for none (compose_variants).
VariantServed ==
  Fetching =>
    \A i \in DOMAIN Backends :
      Backends[i] \in DOMAIN job.params \cap config.started /\ config.advertised[i] # <<>> =>
        job.params[Backends[i]].variant \in {None} \cup ToSet(config.advertised[i])

\* Following the cursors of an undisturbed list to its end shows every tool of every
\* backend once; under priority, at least the best ranked copy of every tool.
ChainComplete ==
  chain # None /\ chain.cursor = None =>
    \A b \in Ids : \A tool \in ToSet(surface[b]) :
      LET copies == {i \in DOMAIN chain.items : chain.items[i].original = tool} IN
      IF Strategy = "priority"
      THEN \E i \in copies : Rank(chain.items[i].name, config.priority)
                                <= Rank(Prefix(b, tool), config.priority)
      ELSE Cardinality({i \in copies : chain.items[i].from = b}) = 1

\* A backend that was asked is in the list or is reported as missing; and when nothing
\* changed meanwhile, so is every backend that the list is about ("drops unavailable
\* backends from `tools/list` (reporting the omission)", router.rs 7-8).  An answer that is an
\* error counts as an empty list.
LeftOutIsTold ==
  reply.kind = "list" =>
    (IF reply.quiet THEN reply.due ELSE reply.asked) \subseteq reply.answered \cup reply.unavailable

\* The omission is always reported: false of a backend whose breaker is open when those to
\* ask are chosen, and whose cool-down ends before the missing ones are named.
OmissionIsTold ==
  reply.kind = "list" => reply.due \subseteq reply.answered \cup reply.unavailable

\* The task handle a client holds leads to the task it was given for, at the backend that
\* runs it, and is never unknown, however often it was polled and whichever delimiters
\* the task's own id has; unless the backend's id ends in an underscore
\* (namespace_task_id, resolve_task).
TasksGoHome ==
  handle # None /\ Resolvable(handle.of) =>
    /\ job.op = "task" => job.to = handle.of /\ job.original = handle.task
    /\ ~(reply.kind = "unknown" /\ reply.op = "task")
===============================================================================
