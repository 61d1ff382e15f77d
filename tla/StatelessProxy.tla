----------------------------- MODULE StatelessProxy -----------------------------
(***************************************************************************)
(* The two stateless proxies, StatelessForwarder and the stateless         *)
(* transparent level 2.  Both serve one client connection in one loop: read*)
(* a request, route it by its method and name headers, exchange one line   *)
(* with a backend (a discover asks every backend in turn), write the       *)
(* response.  Lines carry no id: the next line of a backend is its answer. *)
(* The stream to the client holds so many responses it has not read; the   *)
(* write of the next one waits for it.                                     *)
(*                                                                         *)
(* A name is [backend, tool], what split makes of it; a body that parses   *)
(* to an object repeats method and name, any other is opaque.  Numbers are *)
(* ghosts: a line of a backend carries the request of the client for which *)
(* it was asked, 0 for a line nobody asked for.                            *)
(***************************************************************************)
EXTENDS Naturals, Sequences, FiniteSets

CONSTANTS
  Backends,    \* sequence of backend ids
  Tools,       \* backend id -> sequence of its tools
  Hidden,      \* tools that the tool filter of level 2 takes out of lists
  Requests,    \* requests the client may send
  Garbled,     \* a client line that does not decode
  Nobody,      \* a backend id that is not configured
  None,
  ReplyCap,    \* responses the stream holds that the client has not read
  MaxRequests, \* bound of the instance: requests of the client
  MaxExtras    \* bound of the instance: lines of backends nobody asked for

Ids == {Backends[i] : i \in DOMAIN Backends}

ASSUME StatelessAssumption ==
  /\ Backends \in Seq(Ids)
  /\ \A i, j \in DOMAIN Backends : Backends[i] = Backends[j] => i = j
  /\ Nobody \notin Ids /\ Backends # <<>>
  /\ \A r \in Requests :
       /\ r = [method |-> r.method, name |-> r.name, body |-> r.body, version |-> r.version,
               hops |-> r.hops]
       /\ r.name # None => r.name = [backend |-> r.name.backend, tool |-> r.name.tool]
  /\ ReplyCap \in Nat \ {0} /\ MaxRequests \in Nat /\ MaxExtras \in Nat

VARIABLES
  variant,     \* "forwarder" or "l2"
  \* --- the client ---
  client,      \* "open", "closed" its writing half, or "gone"
  asked,       \* history: the requests it sent
  replies,     \* responses written to it
  unread,      \* of those, the last ones that it has not read
  \* --- the loop ---
  pc,          \* "reading", "asking" a backend, "writing" or "ended"
  response,    \* what is written, or was last
  taken,       \* requests read so far
  target,      \* the backend asked, by position
  gathered,    \* tools listed so far by a discover
  parts,       \* ghost: the requests to which the lines it read for this one belong
  \* --- the backends ---
  alive,
  calls,       \* exchanges a backend has not answered
  lines,       \* lines the proxy has not read
  received,    \* history: what the backend was sent
  extras       \* lines nobody asked for, per backend

clientVars  == <<client, asked, unread>>
backendVars == <<alive, calls, lines, received, extras>>
statelessVars ==
  <<variant, clientVars, replies, response, pc, taken, target, gathered, parts, backendVars>>

\* A response: which requests it answers (ghost), and the tools it lists.
Response(kind, of, tools) == [kind |-> kind, of |-> of, tools |-> tools]

StatelessInit ==
  /\ variant \in {"forwarder", "l2"}
  /\ client = "open" /\ asked = <<>> /\ replies = <<>> /\ unread = 0
  /\ response = Response("error", {}, <<>>)
  /\ pc = "reading" /\ taken = 0 /\ target = 1 /\ gathered = <<>> /\ parts = {}
  /\ alive = [b \in Ids |-> TRUE]
  /\ calls = [b \in Ids |-> <<>>] /\ lines = [b \in Ids |-> <<>>]
  /\ received = [b \in Ids |-> <<>>] /\ extras = [b \in Ids |-> 0]

-------------------------------------------------------------------------------
\* Checks on a request.

\* The version a request runs under, None if there is none; level 2 does not look.
SupportedVersions == {"2026-07-28", "2025-06-18"}
negotiate(requested) ==
  CASE requested = None -> "2026-07-28"
    [] requested \in SupportedVersions -> requested
    [] OTHER -> None

\* Level 2 compares the headers with a body it can parse; what the body leaves out
\* agrees.
Opaque == [method |-> None, name |-> None, opaque |-> TRUE]
header_body_mismatch(request) ==
  /\ ~request.body.opaque
  /\ \/ request.body.method \notin {None, request.method}
     \/ request.method = "tools/call" /\ request.body.name \notin {None, request.name}

Rejected(request) ==
  \/ variant = "forwarder" /\ negotiate(request.version) = None
  \/ variant = "l2" /\ header_body_mismatch(request)
Routable(request) == request.method \in {"server/discover", "tools/call"}
Known(request) == request.name # None /\ request.name.backend \in Ids
\* Every call goes to the first backend.
Position_first(b) == 1

Position(b) == CHOOSE i \in DOMAIN Backends : Backends[i] = b

\* What a backend is sent: the tool's own name in the header, the body as it came, and
\* either the negotiated version or one more hop.
Forwarded(request) ==
  [request EXCEPT !.name = [backend |-> None, tool |-> request.name.tool],
                  !.version = IF variant = "forwarder" THEN negotiate(request.version) ELSE @,
                  !.hops = IF variant = "l2" THEN @ + 1 ELSE @]
Discover(request) ==
  [method |-> "server/discover", name |-> None, body |-> Opaque,
   version |-> IF variant = "forwarder" THEN None ELSE request.version,
   hops |-> IF variant = "l2" THEN request.hops + 1 ELSE 0]

-------------------------------------------------------------------------------
\* The client.
ClientSends(request) ==
  /\ client = "open" /\ Len(asked) < MaxRequests
  /\ asked' = Append(asked, request)
  /\ UNCHANGED <<variant, client, unread, replies, response, pc, taken, target, gathered, parts,
                 backendVars>>

ClientReads ==
  /\ client # "gone" /\ unread > 0 /\ unread' = unread - 1
  /\ UNCHANGED <<variant, client, asked, replies, response, pc, taken, target, gathered, parts,
                 backendVars>>

ClientLeaves(how) ==
  /\ client # "gone" /\ client' = how /\ how # client
  /\ UNCHANGED <<variant, asked, unread, replies, response, pc, taken, target, gathered, parts,
                 backendVars>>

-------------------------------------------------------------------------------
\* The loop.  Any error leaves serve: the connection and those to the backends close.
Now == asked[taken]
End == pc' = "ended" /\ UNCHANGED <<replies, response, target, gathered, parts>>

Respond(r) ==
  /\ pc' = "writing" /\ response' = r /\ gathered' = <<>> /\ parts' = {}
  /\ UNCHANGED <<replies, target>>

\* The write fails if the client vanished, and else waits until the stream has room.
WriteResponse ==
  /\ pc = "writing"
  /\ \/ client = "gone" /\ End /\ UNCHANGED unread
     \/ /\ client # "gone" /\ unread < ReplyCap /\ unread' = unread + 1
        /\ replies' = Append(replies, response)
        /\ pc' = "reading" /\ UNCHANGED <<response, target, gathered, parts>>
  /\ UNCHANGED <<variant, client, asked, taken, backendVars>>

Rejection(n) == Response("error", {n}, <<>>)

\* Send an exchange; the write to a backend that went away fails, or is lost.
Ask(i, request, n) ==
  LET id == Backends[i]
  IN  /\ UNCHANGED <<replies, response>>
      /\ \/ /\ alive[id]
            /\ calls' = [calls EXCEPT ![id] = Append(@, n)]
            /\ received' = [received EXCEPT ![id] = Append(@, [request |-> request, for |-> n])]
            /\ pc' = "asking" /\ target' = i
         \/ /\ ~alive[id] /\ pc' = "asking" /\ target' = i /\ UNCHANGED <<calls, received>>
         \/ /\ ~alive[id] /\ pc' = "ended" /\ UNCHANGED <<calls, received, target>>

TakeRequest ==
  /\ pc = "reading" /\ taken < Len(asked)
  /\ taken' = taken + 1
  /\ LET request == asked[taken + 1]
     IN  \/ /\ request = Garbled
            /\ End /\ UNCHANGED <<calls, received>>
         \/ /\ request # Garbled
            /\ Rejected(request) \/ ~Routable(request)
               \/ (request.method = "tools/call" /\ ~Known(request))
            /\ Respond(Rejection(taken + 1)) /\ UNCHANGED <<calls, received>>
         \/ /\ request # Garbled /\ ~Rejected(request)
            /\ request.method = "tools/call" /\ Known(request)
            /\ Ask(Position(request.name.backend), Forwarded(request), taken + 1)
            /\ UNCHANGED <<gathered, parts>>
         \/ /\ request # Garbled /\ ~Rejected(request) /\ request.method = "server/discover"
            /\ Ask(1, Discover(request), taken + 1)
            /\ UNCHANGED <<gathered, parts>>
  /\ UNCHANGED <<variant, clientVars, alive, lines, extras>>

\* Only an orderly end of the client's stream is noticed.
Finish_onClose ==
  /\ pc = "reading" /\ client = "closed" /\ taken = Len(asked)
  /\ End /\ UNCHANGED <<variant, clientVars, taken, backendVars>>

\* The client is at its end: the backends are closed, and serve returns.
Finish ==
  /\ pc = "reading" /\ client # "open" /\ taken = Len(asked)
  /\ End /\ UNCHANGED <<variant, clientVars, taken, backendVars>>

Line == Head(lines[Backends[target]])
\* What else is in the reader's buffer is thrown away with it.
ReadLine_drains == lines' = [lines EXCEPT ![Backends[target]] = <<>>]
\* The line stays in the buffer.
ReadLine_peeks == UNCHANGED lines

ReadLine == lines' = [lines EXCEPT ![Backends[target]] = Tail(@)]
HasLine == pc = "asking" /\ lines[Backends[target]] # <<>>

\* The line after a call is passed on as it is, whatever it answers.
CallAnswered ==
  /\ HasLine /\ Now.method = "tools/call" /\ ReadLine
  /\ IF Line.kind = "garbage" THEN End
     ELSE Respond(Response("result", {Line.for}, <<>>))
  /\ UNCHANGED <<variant, clientVars, taken, alive, calls, received, extras>>

\* A discover takes the tools out of each line, prefixed.  A line that does not decode,
\* or whose body does not parse, ends the connection; a body without tools has none.
Shown(b, tools) ==
  LET kept == IF variant = "l2" THEN SelectSeq(tools, LAMBDA t : t \notin Hidden) ELSE tools
  IN  [i \in DOMAIN kept |-> [backend |-> b, tool |-> kept[i]]]

DiscoverAnswered ==
  /\ HasLine /\ Now.method = "server/discover" /\ ReadLine
  /\ \/ /\ Line.kind # "tools"
        /\ End /\ UNCHANGED <<calls, received>>
     \/ /\ Line.kind \in {"tools", "result"}
        /\ LET tools == gathered \o Shown(Backends[target], Line.tools)
           IN  IF target < Len(Backends)
               THEN /\ Ask(target + 1, Discover(Now), taken)
                    /\ gathered' = tools /\ parts' = parts \cup {Line.for}
               ELSE /\ Respond(Response("tools", parts \cup {Line.for}, tools))
                    /\ UNCHANGED <<calls, received>>
  /\ UNCHANGED <<variant, clientVars, taken, alive, extras>>

BackendGone ==
  /\ pc = "asking" /\ lines[Backends[target]] = <<>> /\ ~alive[Backends[target]]
  /\ End /\ UNCHANGED <<variant, clientVars, taken, backendVars>>

-------------------------------------------------------------------------------
\* The backends: they answer in order, may send what nobody asked for, or go away.
Answers(b) ==
  /\ alive[b] /\ calls[b] # <<>> /\ pc # "ended"
  /\ calls' = [calls EXCEPT ![b] = Tail(@)]
  /\ LET n == Head(calls[b])
     IN  lines' = [lines EXCEPT ![b] = Append(@,
           IF asked[n].method = "server/discover"
           THEN [kind |-> "tools", for |-> n, tools |-> Tools[b]]
           ELSE [kind |-> "result", for |-> n, tools |-> <<>>])]
  /\ UNCHANGED <<variant, clientVars, replies, response, pc, taken, target, gathered, parts,
                 alive, received, extras>>

Extra(b, kind) ==
  /\ alive[b] /\ extras[b] < MaxExtras /\ pc # "ended"
  /\ extras' = [extras EXCEPT ![b] = @ + 1]
  /\ lines' = [lines EXCEPT ![b] = Append(@, [kind |-> kind, for |-> 0, tools |-> <<>>])]
  /\ UNCHANGED <<variant, clientVars, replies, response, pc, taken, target, gathered, parts,
                 alive, calls, received>>

Dies(b) ==
  /\ alive[b] /\ alive' = [alive EXCEPT ![b] = FALSE]
  /\ calls' = [calls EXCEPT ![b] = <<>>]
  /\ UNCHANGED <<variant, clientVars, replies, response, pc, taken, target, gathered, parts,
                 lines, received, extras>>

Loop ==
  TakeRequest \/ Finish \/ CallAnswered \/ DiscoverAnswered \/ BackendGone \/ WriteResponse
StatelessNext ==
  \/ \E request \in Requests \cup {Garbled} : ClientSends(request)
  \/ ClientReads \/ \E how \in {"closed", "gone"} : ClientLeaves(how)
  \/ Loop
  \/ \E b \in Ids : Answers(b) \/ Dies(b) \/ \E kind \in {"note", "garbage"} : Extra(b, kind)

StatelessSpec == StatelessInit /\ [][StatelessNext]_statelessVars

\* The executor runs the loop; the client need not read what it is sent.
UnreadStatelessSpec == StatelessSpec /\ WF_statelessVars(Loop)

\* It reads it, or vanishes; the backends need not answer.
FairStatelessSpec == UnreadStatelessSpec /\ WF_statelessVars(ClientReads)

-------------------------------------------------------------------------------
\* Properties.

Waiting(b) == pc = "asking" /\ Backends[target] = b
Undisturbed == \A b \in Ids : extras[b] = 0

\* Every variable stays in its range.
StatelessTypeOK ==
  /\ variant \in {"forwarder", "l2"} /\ client \in {"open", "closed", "gone"}
  /\ pc \in {"reading", "asking", "writing", "ended"} /\ target \in DOMAIN Backends
  /\ taken \in 0..Len(asked) /\ Len(replies) <= taken
  /\ unread \in 0..ReplyCap /\ unread <= Len(replies)
  /\ alive \in [Ids -> BOOLEAN] /\ extras \in [Ids -> 0..MaxExtras]
  /\ \A b \in Ids : \A i \in DOMAIN calls[b] : calls[b][i] \in 1..taken

\* What a live backend still owes the proxy and what the proxy has not read of it is
\* the exchange awaited plus every line nobody asked for: none of those is ever skipped,
\* so each shifts all later answers of this backend by one.
SkewIsExtra ==
  \A b \in Ids : (alive[b] /\ pc # "ended") =>
    Len(calls[b]) + Len(lines[b]) = extras[b] + (IF Waiting(b) THEN 1 ELSE 0)

\* Without such lines the answers pair up: the k-th response is to the k-th request and
\* was made of the lines that answer this request only, also when the client sends on
\* without waiting and a discover goes round all backends in between.
ResponsesPair ==
  Undisturbed => \A k \in DOMAIN replies : replies[k].of = {k}

\* A list is whole: the tools of all backends in their order under their prefixes,
\* without those hidden; there is no partial list, a backend that fails ends the
\* connection instead.
DiscoverWhole ==
  Undisturbed => \A k \in DOMAIN replies : replies[k].kind = "tools" =>
    LET upTo[i \in 0..Len(Backends)] ==
          IF i = 0 THEN <<>> ELSE upTo[i - 1] \o Shown(Backends[i], Tools[Backends[i]])
    IN  replies[k].tools = upTo[Len(Backends)] /\ asked[k].method = "server/discover"

\* A request reaches the backend its name is prefixed with, once and in the order of the
\* client, under its own name there and never after a failed check; nothing else reaches
\* a backend but a discover, once each.
CallsReachOwner ==
  \A b \in Ids :
    /\ \A i, j \in DOMAIN received[b] : i < j => received[b][i].for < received[b][j].for
    /\ \A i \in DOMAIN received[b] :
         LET sent == received[b][i].request
             request == asked[received[b][i].for]
         IN  /\ ~Rejected(request) /\ sent.method = request.method
             /\ sent.method = "tools/call" =>
                  /\ request.name = [backend |-> b, tool |-> sent.name.tool]
                  /\ sent.body = request.body
             /\ variant = "l2" => sent.hops = request.hops + 1
             /\ variant = "forwarder" => sent.version \in SupportedVersions \cup {None}

\* A connection whose client left ends, unless a backend keeps an exchange for ever:
\* there is no deadline, and nobody looks at the client while a backend is awaited.  A
\* client that closed its writing half must go on reading (under UnreadStatelessSpec this
\* is false: the write of a response to one that does not holds the loop).
LeftEnds ==
  []<>(client = "open" \/ pc = "ended" \/ (pc = "asking" /\ calls[Backends[target]] # <<>>))
===============================================================================
